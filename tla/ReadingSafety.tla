--------------------------- MODULE ReadingSafety ---------------------------
(***************************************************************************)
(* What a plan and a close can rely on of what they read of the ledger.    *)
(***************************************************************************)
EXTENDS AccountSnapshot, SponsorshipReading

\* A reading the ledger confirmed in one call is the whole account as of that ledger,
\* whatever nodes it was put together from: an entry that was missed is seen in the
\* count, one that is gone in its own absence, and the two cannot hide each other.
ConfirmedIsWhole ==
    reading.result = "confirmed" =>
        \A n \in Ledgers : reading.liveLedgers = {n} =>
            /\ reading.sequence = history[n].sequence
            /\ Enumerated(reading) = SubEntries(history[n])

\* With further providers configured, "the account changed" is never the answer of nodes
\* that trail: what differs is a change no older than the span before the request.
Since(r) == {n \in Ledgers : n >= r.reference - LedgerSpan}

ChangedIsRecent ==
    reading.result = "changed" /\ sources > 1 =>
        \E m, n \in Since(reading) :
            \/ history[m].sequence # history[n].sequence
            \/ SubEntries(history[m]) # SubEntries(history[n])

\* Nor is a claimable balance left out that was there all along: no count would tell.
ClaimsAreSeen ==
    reading.pc \in {"read", "confirm"} /\ sources > 1 /\ ~reading.cut /\ ~reading.more =>
        \A c \in Balances :
            (\A n \in Since(reading) : c \in history[n].claims) => c \in reading.claims

\* What a close is planned from leaves nothing out that was there.
ReadingIsWhole == ConfirmedIsWhole /\ ClaimsAreSeen

\* A listing that calls itself whole covers what the account sponsors, unless something
\* came to be sponsored while it was read: no owner the history does not name, no page that
\* ended early and no owner that could not be read is left out in silence.
ListedCoversSponsored ==
    listing.pc = "listed" /\ ~listing.incomplete /\ joined = {} =>
        sponsored \subseteq listing.listed
=============================================================================
