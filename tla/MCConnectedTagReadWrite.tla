---------------------- MODULE MCConnectedTagReadWrite ----------------------
(* Instances of ConnectedTagReadWrite for TLC.                             *)
EXTENDS ConnectedTagReadWrite

MCNames == Payload

=============================================================================
