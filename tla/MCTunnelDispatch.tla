--------------------------- MODULE MCTunnelDispatch ---------------------------
(* A small instance of TunnelDispatch for TLC: the constants are given in    *)
(* Dispatch.cfg.                                                             *)
EXTENDS TunnelDispatch
=============================================================================
