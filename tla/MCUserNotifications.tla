------------------------- MODULE MCUserNotifications -------------------------
(* UserNotifications on two identifiers and a limit of one.     *)
EXTENDS UserNotifications
=============================================================================
