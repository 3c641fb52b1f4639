--------------------------- MODULE MCTWSLifecycle ---------------------------
(***************************************************************************)
(* TWSLifecycle with more clients than ids, so that connects wait for one. *)
(***************************************************************************)
EXTENDS TWSLifecycle
=============================================================================
