------------------------------ MODULE MCWorker ------------------------------
(* Two hosting processes on either transport: see README.md. *)
EXTENDS WalletWorker
=============================================================================
