--------------------------- MODULE MCTunnelRuntime ---------------------------
(* Small instances of TunnelRuntime for TLC.                               *)
EXTENDS TunnelRuntime, TLC

Interchangeable == Permutations(Slots) \cup Permutations(Closers)
=============================================================================
