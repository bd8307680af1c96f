----------------------------- MODULE HandleLease -----------------------------
(***************************************************************************)
(* What the native object registry promises to the Dart side, without its  *)
(* slots, generations or free list: a handle is a lease on one native      *)
(* object.  It is granted once, claimed for release once, returned once,   *)
(* and a returned lease is never granted again.                            *)
(***************************************************************************)
CONSTANTS
  Handle,   \* every handle value the bridge can ever issue
  Object,   \* native objects
  Nil       \* the absence of an object

VARIABLES
  lease,    \* the stage each handle is in
  tenant    \* the object a granted handle stands for

leaseVars == <<lease, tenant>>

Stage == {"unissued", "live", "claimed", "dead"}

LeaseTypeOK ==
  /\ lease \in [Handle -> Stage]
  /\ tenant \in [Handle -> Object \cup {Nil}]

LeaseInit ==
  /\ lease = [h \in Handle |-> "unissued"]
  /\ tenant = [h \in Handle |-> Nil]

Grant(h, o) ==
  /\ lease[h] = "unissued"
  /\ lease' = [lease EXCEPT ![h] = "live"]
  /\ tenant' = [tenant EXCEPT ![h] = o]

Claim(h) ==
  /\ lease[h] = "live"
  /\ lease' = [lease EXCEPT ![h] = "claimed"]
  /\ UNCHANGED tenant

Return(h) ==
  /\ lease[h] = "claimed"
  /\ lease' = [lease EXCEPT ![h] = "dead"]
  /\ tenant' = [tenant EXCEPT ![h] = Nil]

\* The whole registry is dropped: nothing can be granted afterwards.
Close ==
  /\ lease' = [h \in Handle |-> "dead"]
  /\ tenant' = [h \in Handle |-> Nil]

LeaseNext ==
  \/ \E h \in Handle, o \in Object : Grant(h, o)
  \/ \E h \in Handle : Claim(h) \/ Return(h)
  \/ Close

LeaseSpec == LeaseInit /\ [][LeaseNext]_leaseVars
=============================================================================
