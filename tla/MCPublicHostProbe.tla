-------------------------- MODULE MCPublicHostProbe --------------------------
(* PublicHostProbe with a VM thread, a child isolate and two messages waiting *)
(* at a time.                                                                 *)
EXTENDS PublicHostProbe
=============================================================================
