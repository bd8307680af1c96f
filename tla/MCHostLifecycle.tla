--------------------------- MODULE MCHostLifecycle ---------------------------
(* HostLifecycle with more messages than a turn may handle and a nested run  *)
(* loop.                                                                     *)
EXTENDS HostLifecycle
=============================================================================
