---------------------------- MODULE MCConnected ----------------------------
(* Instances of Connected for TLC.                                         *)
EXTENDS Connected

MCNames == Payload

=============================================================================
