----------------------------- MODULE MCExchange -----------------------------
(* Small instances of Exchange for TLC.                                    *)
EXTENDS Exchange, TLC

(* Tag names are only compared with each other.                            *)
Symmetry == Permutations(Names)

=============================================================================
