---------------------------- MODULE MCAsyncFront ----------------------------
(***************************************************************************)
(* One client submits, another asks about its request or with a wrong id,  *)
(* and both may be killed at any time.                                     *)
(***************************************************************************)
EXTENDS AsyncFront

CONSTANTS bob, carol
=============================================================================
