-------------------------- MODULE MCParkingLedger --------------------------
(* Small instances of the charging ledger for TLC. *)
EXTENDS ParkingLedger

CONSTANTS pS, pW, pT, pB, pU, pN

StoredOnly == pS :> "stored"
StoredBalance == pS :> 2
StoredOrNot == (pS :> "stored") @@ (pN :> "temporary")
StoredOrNotBalance == (pS :> 2) @@ (pN :> 0)
WhiteOnly == pW :> "whitelist"
WhiteBalance == pW :> 0
FreeKind == (pW :> "whitelist") @@ (pT :> "taxi") @@ (pB :> "nonmotor")
              @@ (pU :> "unrecognised")
FreeBalance == [p \in Plates |-> 0]

HttpSymmetry == Permutations(HttpThreads)
============================================================================
