--------------------------- MODULE MCTunnelConnect ---------------------------
(* A small instance of TunnelConnect for TLC: the constants are given in    *)
(* TunnelConnect.cfg.                                                       *)
EXTENDS TunnelConnect
=============================================================================
