--------------------------- MODULE CloseContract ---------------------------
(***************************************************************************)
(* What a close promises the person who runs it, whatever the browser, the *)
(* API and the network do: at most one transaction of theirs can still     *)
(* reach the ledger, and the account is called closed only once a merge    *)
(* of theirs has applied.                                                  *)
(***************************************************************************)
VARIABLES
    live,     \* the signed transactions a ledger may still apply
    merged,   \* a merge signed in this browser has applied
    told      \* a page says the account is closed

contractVars == <<live, merged, told>>

ContractInit == live = {} /\ merged = FALSE /\ told = FALSE

\* A transaction is handed over only while no other one is open.
HandOver ==
    /\ live = {}
    /\ live' # {}
    /\ \A h, k \in live' : h = k
    /\ UNCHANGED <<merged, told>>

\* The open transaction applies, or can no longer be applied.
Settle ==
    /\ live # {}
    /\ live' = {}
    /\ merged' \in {merged, TRUE}
    /\ UNCHANGED told

Tell == merged /\ told' = TRUE /\ UNCHANGED <<live, merged>>

\* A page that is left or reloaded says nothing any more.
Forget == told' = FALSE /\ UNCHANGED <<live, merged>>

ContractNext == HandOver \/ Settle \/ Tell \/ Forget

Contract == ContractInit /\ [][ContractNext]_contractVars
=============================================================================
