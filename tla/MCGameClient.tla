---------------------------- MODULE MCGameClient ----------------------------
(***************************************************************************)
(* The page and the match, for model checking: the bounds are in the       *)
(* configuration.                                                          *)
(***************************************************************************)
EXTENDS GameClient
==============================================================================
