----------------------------- MODULE MCTagData -----------------------------
(* Instances of TagData for TLC.                                           *)
EXTENDS TagData
=============================================================================
