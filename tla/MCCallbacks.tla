---------------------------- MODULE MCCallbacks ----------------------------
(* One view inside another, and two frames.                                 *)
EXTENDS Callbacks

MCWindowed == {"first", "second"}   \* a stale frame and the current one
MCView == {"outer", "inner"}
MCDepth == [v \in MCView |-> IF v = "outer" THEN 1 ELSE 2]
=============================================================================
