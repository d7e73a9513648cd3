-------------------------------- MODULE MCSol --------------------------------
(* Instances of SolanaLeg: see README.md. *)
EXTENDS SolanaLeg
=============================================================================
