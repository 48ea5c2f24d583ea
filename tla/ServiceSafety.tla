--------------------------- MODULE ServiceSafety ---------------------------
(***************************************************************************)
(* What callers and operators of the API rely on, for the services that    *)
(* keep state in one process: the request budgets, the fee sponsor's       *)
(* budget, the count of closes, the chain of providers and the counts of   *)
(* upstream calls.                                                         *)
(***************************************************************************)
EXTENDS RateLimiter, SponsorshipBudget, StatsCache, ProviderFailover, UpstreamFlush

WindowEnding(counts, t, w) == SumFunctionOnSet(counts, {s \in Instants : t - w < s /\ s <= t})

\* Requests of one window make at most two budgets' worth of store reads between
\* them, those that were counted against a key aside: the look-ups of the limiter,
\* and the reads of the guard for what the client's own budget let through.
StoreReadsBounded ==
    \A t \in Instants : WindowEnding(asked, t, DefaultWindow) <= 2 * DefaultLimit

\* No client and no key gets more requests through than its budget in any window, and
\* no client more look-ups, whatever values it invents and however its blocks and
\* look-ups interleave; a key whose own window is longer than a block gets its budget
\* once a block.  And strangers
\* behind the same address cannot spend a known key's budget: such a key is refused over
\* its client's budget only when it could not be looked up.
BudgetsHold ==
    /\ \A b \in Trackers, t \in Instants :
          WindowEnding(passed[b], t, Smaller(WindowOf(b), DefaultWindow)) <= LimitOf(b)
    /\ \A c \in Callers :
          call[c].pc = "throttled" /\ call[c].bearer \in LimitedKeys /\ call[c].by = OfClient
              => call[c].lost

\* The sponsor signs for at most one budget per day the clock has shown, in every
\* scope, whatever requests overtake each other around midnight and wherever the
\* clock steps back to; a restart grants one more.  And every fee its account pays was
\* charged to such a budget.
SponsorPaysItsBudget ==
    /\ \A s \in Scopes : granted[s] <= LimitOfScope(s) * daysShown
    /\ paid <= granted["day"]

\* A reader who asks an instance after it answered "counted" sees that close, and any
\* reader of any instance sees every close counted a cache window before.
ClosesAreSeen ==
    \A r \in Readers : reader[r].pc = "done" =>
        /\ reader[r].known \subseteq reader[r].in
        /\ \A h \in counted : countedAt[h] + TotalsWindow < reader[r].at => h \in reader[r].in

\* "an outage is never cached as an answer": whoever asks is answered by a read that
\* had not failed before.
OutageNotCached ==
    [][\A r \in Readers : reader[r].pc # "waiting" => reader'[r].pc # "failed" \/ UNCHANGED reader[r]]_statsVars

\* All pieces of one read come from one provider.
OneSource ==
    \A m, n \in DOMAIN pieces : pieces[m] = pieces[n]

\* Providers that answer nothing never spend what a later one needs: each that is
\* reached after them still has its even share of the whole deadline.
SharesAreEven ==
    result = "pending" /\ deadSoFar /\ pieces = <<>> /\ attempt = 1 =>
        Remaining * providers >= ReadDeadline * (providers - at + 1)

\* Every upstream call is in the buffer, in a write, or in the store, and in one of
\* them only.
CallsConserved == stored + pending + SumFunction(write) = made
=============================================================================
