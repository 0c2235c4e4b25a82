---------------------------- MODULE MCClientCalls ----------------------------
(* A small instance of ClientCalls for TLC: the constants are given in      *)
(* ClientCalls.cfg.  With bytes below 8 the length of a frame changes its   *)
(* form at 2 and 64.                                                        *)
EXTENDS ClientCalls, Bitwise

MCPaths     == {<<"mail", "messages">>, <<"vault">>}
MCPathAttrs == {<<"mail", "">>}
MCFirstYear == -20
MCXor(a, b) == a ^^ b
MCMaskKeys  == {<<5, 0, 7, 2>>}
=============================================================================
