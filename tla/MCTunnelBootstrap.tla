-------------------------- MODULE MCTunnelBootstrap --------------------------
(* A small instance of TunnelBootstrap for TLC: the constants are given in  *)
(* BootstrapTorn.cfg.                                                       *)
EXTENDS TunnelBootstrap
=============================================================================
