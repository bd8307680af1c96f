-------------------------- MODULE MCReleaseProtocol --------------------------
(* ReleaseProtocol with a finalizer thread racing the main thread, two      *)
(* slots and one re-opening.                                                *)
EXTENDS ReleaseProtocol

MCKind == {"view"}
=============================================================================
