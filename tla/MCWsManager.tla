---------------------------- MODULE MCWsManager ----------------------------
(***************************************************************************)
(* The instance of WsManager for TLC: the constants are in WsManager.cfg.  *)
(***************************************************************************)
EXTENDS WsManager

============================================================================
