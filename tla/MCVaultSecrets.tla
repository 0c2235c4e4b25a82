--------------------------- MODULE MCVaultSecrets ---------------------------
(* Small instances of VaultSecrets for TLC: the constants are given in the  *)
(* Vault*.cfg files.  Threads are alike, so they may be exchanged.          *)
EXTENDS VaultSecrets, TLC

ThreadsAlike == Permutations(Threads)
=============================================================================
