------------------------------ MODULE MCAccount ------------------------------
(***************************************************************************)
(* SmartAccount with one wallet, its passkey and a backup.  Wallets meet    *)
(* only in the registry, where each has credentials of its own.             *)
(***************************************************************************)
EXTENDS SmartAccount
=============================================================================
