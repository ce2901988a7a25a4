---------------------------- MODULE MCPlcClient ----------------------------
(* Small instances of PlcClient for TLC.                                   *)
EXTENDS PlcClient, TLC

(* Tag names are only compared with each other.                            *)
Symmetry == Permutations(Names)

=============================================================================
