------------------------------ MODULE MCSends ------------------------------
EXTENDS Sends, TLC

CONSTANTS koin, token, key

\* One account sends KOIN and an added token at once; another registers a credential.
MCAccount == koin :> "alice" @@ token :> "alice" @@ key :> "bob"
MCHost == koin :> "backend" @@ token :> "vault" @@ key :> "backend"
\* The KOIN form may be sent off again after it failed.
MCTries == koin :> 2 @@ token :> 1 @@ key :> 1
=============================================================================
