---------------------------- MODULE ApiKeySafety ----------------------------
(***************************************************************************)
(* What holders of keys, and those who revoke them, can rely on.           *)
(***************************************************************************)
EXTENDS ApiKeyCache

\* A request is served only for a key the store issued, and for one that was revoked
\* only within the cache window and one store read of the revocation: the longest a
\* revoked key lives on in any cache, whatever the order of reads, revocations and
\* restarts.
ServedRecently ==
    \A r \in Requests :
        req[r].pc = "served" =>
            /\ req[r].value \in Keys
            /\ record[req[r].value] # "none"
            /\ revokedAt[req[r].value] # None =>
                  req[r].at <= revokedAt[req[r].value] + TTL + StoreTimeout

\* A key that was handed out and never revoked is never refused: a store that fails
\* or answers late costs its caller a retry, not its key.
ActiveNeverRefused ==
    \A r \in Requests :
        req[r].pc = "refused" /\ req[r].value \in Keys =>
            /\ record[req[r].value] = "revoked"
            /\ revokedAt[req[r].value] <= req[r].at

\* "Every entry shares one lifetime, so insertion order is expiry order": what lets
\* rememberUnknown stop at the first entry that is fresh and still drop what exceeds
\* the bound.
UnknownInOrder ==
    \A i \in Instances :
        /\ Len(unknown[i]) <= MaxUnknown
        /\ \A m, n \in DOMAIN unknown[i] :
              m < n => /\ unknown[i][m].exp <= unknown[i][n].exp
                       /\ unknown[i][m].value # unknown[i][n].value

\* A request that has its answer at once, from the cache.
Begins(r) == req'[r] # req[r] /\ ~Waiting(r)

\* The instance that announced a revocation or a rotation ("enforces it on its very next
\* lookup") serves the key to no request that comes after, unless one of its own requests
\* was reading that key from the store when it announced the end: no other instance, and
\* no request that came later, can bring the key back.
EnforcedUnlessRaced ==
    [][\A r \in Requests :
          Begins(r) /\ req'[r].pc = "served" =>
              req'[r].value \notin enforced[req'[r].inst] \ raced[req'[r].inst]]_vars
=============================================================================
