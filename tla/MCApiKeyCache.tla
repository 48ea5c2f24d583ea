--------------------------- MODULE MCApiKeyCache ---------------------------
(***************************************************************************)
(* Small instances of ApiKeyCache.                                         *)
(***************************************************************************)
EXTENDS ApiKeySafety, TLC

CONSTANTS q1, q2, x1, x2, x3, i1, i2, k1, k2, m1

Renaming ==
    Permutations({q1, q2}) \cup Permutations({x1, x2, x3}) \cup Permutations({i1, i2})
        \cup Permutations({k1, k2})

\* Keys the store knows, or is being asked to issue.
Issued == {k \in Keys : record[k] # "none" \/ \E m \in Managers : op[m].new = k}

\* One key, with values that are no key and two resolutions at a time ...
OneKey == Cardinality(Issued) <= 1

\* ... or a rotation of one key into the next, with one resolution.
OneReader ==
    /\ Cardinality({r \in Requests : req[r].pc # "idle"}) <= 1
    /\ \A r \in Requests : req[r].value \notin Strangers
    /\ \A i \in Instances : \A n \in DOMAIN unknown[i] : unknown[i][n].value \in Keys

SmallSpec == Init /\ [][Next /\ (OneKey \/ OneReader)']_vars
=============================================================================
