---------------------------- MODULE SavedCloses ----------------------------
(***************************************************************************)
(* The saved closes of one account: the records every tab of the browser   *)
(* shares through IndexedDB.  A record keeps at most one unconfirmed hash  *)
(* and the transactions seen confirmed.  Each operator is one IndexedDB    *)
(* transaction, so it is atomic; a sequence of them is not.                *)
(***************************************************************************)
EXTENDS Integers

CONSTANTS
    Sessions      \* record ids

VARIABLES
    exists,       \* the record is in the database
    unconfirmed,  \* its unconfirmed transaction, or 0
    done          \* the transactions it lists as confirmed

savedVars == <<exists, unconfirmed, done>>

SavedTypeOK ==
    /\ exists \in [Sessions -> BOOLEAN]
    /\ unconfirmed \in [Sessions -> Nat]
    /\ done \in [Sessions -> SUBSET Nat]

SavedInit ==
    /\ exists = [s \in Sessions |-> FALSE]
    /\ unconfirmed = [s \in Sessions |-> 0]
    /\ done = [s \in Sessions |-> {}]

Held == {s \in Sessions : unconfirmed[s] # 0}

\* Creates a record; an existing one keeps its progress and its hash.
SaveSession(s) ==
    /\ exists' = [exists EXCEPT ![s] = TRUE]
    /\ UNCHANGED <<unconfirmed, done>>

\* A record that is gone keeps nothing, and the caller is told so.
SaveUnconfirmed(s, i) ==
    /\ unconfirmed' = [unconfirmed EXCEPT ![s] = IF exists[s] THEN i ELSE 0]
    /\ UNCHANGED <<exists, done>>

\* Appends a confirmed transaction, once; a record that is gone is not recreated.
RecordConfirmed(s, i) ==
    /\ done' = [done EXCEPT ![s] = IF exists[s] THEN @ \cup {i} ELSE @]
    /\ UNCHANGED <<exists, unconfirmed>>

DeleteSession(s) ==
    /\ exists' = [exists EXCEPT ![s] = FALSE]
    /\ unconfirmed' = [unconfirmed EXCEPT ![s] = 0]
    /\ done' = [done EXCEPT ![s] = {}]

\* A dismissal, or an expiry: never of a record that holds a hash.
DeleteSettledSession(s) ==
    /\ exists[s]
    /\ unconfirmed[s] = 0
    /\ DeleteSession(s)
=============================================================================
