# LumenWipe in TLA+

LumenWipe closes Stellar accounts without holding their keys: an API plans the cleanup and
builds unsigned transactions, the browser checks, signs and sends them one by one, and the
last one merges the account away. What can go wrong is mostly between the steps: a
transaction whose outcome nobody learned, a page that was left or reloaded, a second tab, a
node that trails, a cache that still knows a revoked key. This directory models those parts,
checks them with TLC and proves the most important claims with TLAPS.

## 1. The system

| Component | Source | State it keeps | Operations | What makes it correct |
|---|---|---|---|---|
| SDK close engine | `packages/sdk/src/close-engine.ts` | per run: round, bound, plan hash, queue, attempts, confirmed merge | settle a left-over, fetch a round, sign, submit with resends, settle by lookup, go on | one transaction in flight; closed only when a merge it hashed succeeded; every run ends |
| Web close loop | `apps/web/hooks/useCloseExecution.ts`, `lib/session/close-record.ts` | refs of the paused round, the owner and its epoch | run, check, the engine's callbacks, what each end shows | a hash is durable before its send; a run that lost its close changes nothing |
| Saved closes | `apps/web/lib/session/*.ts` | IndexedDB records: unconfirmed hash, confirmed transactions, decisions | save, hold, record, dismiss, expire, settle | a transaction that may land is named by a record; what a record lists is true |
| Gate and wizard | `apps/web/components/execution/*`, `layout/LeaveGuard.tsx` | the record being shown, notices | read, check, start, leave, resume | nothing but a lookup is offered while a hash is open |
| Web store | `apps/web/store/demolish.ts` | phase, hold, plan hash, epoch, decisions | reset, set plan, discard plan, restore | the phase a page shows is true of the account |
| Journey rules | `apps/web/lib/journey` | none | what may be left, which page a phase is on | a running close is not left unnoticed |
| Analyze and review pages | `apps/web/app/[network]/analyze`, `review`, `components/plan`, `components/review` | what the page on screen shows; requests, `handleProceed` and `handleConfirm` under way | read, plan, answer, proceed, confirm, leave, return, reload | what is built is the plan that was reviewed; a late answer acts only where it still may |
| Choices a tab keeps | `apps/web/lib/session/restore-decisions.ts`, `hooks/useKeepDecisions.ts` | a snapshot in session storage | keep, restore, prune, drop | an answer is not restored to something else, and none outlives the consent |
| Verification in the browser | `apps/web/lib/stellar` | none | check an envelope against what was confirmed; weigh signatures | nothing unexpected is signed |
| Close service | `apps/api/src/close`, `lib/close-api` | none between requests | analyze, plan, build a round, submit, look up | a round matches the reviewed plan; answers say what is known |
| Round planning and packing | `lib/close-api`, `lib/stellar/tx-builder` | none | decide the next round, cut it into transactions | the merge is last, fees are covered, rounds converge |
| Submission | `lib/stellar/submit.ts` | a request's budget | send, poll, settle by hash | a refusal is never given for a transaction that landed |
| API keys | `apps/api/src/auth`, `admin`, `integrator` | Firestore documents; two caches per instance | create, revoke, rotate, resolve, invalidate | a revoked key stops within the cache window; an active one is not refused |
| Rate limiter | `auth/rate-limiter.ts`, `api-key.guard.ts` | hit counters | count per key, client and lookup | a known key never pays for its client; the key store is read a bounded number of times |
| Statistics | `apps/api/src/stats` | Firestore counters, a promise cache | record, totals, feed | a close counts once; a total is not older than its window |
| Provider failover | `lib/stellar/provider-failover.ts`, `upstream-client.ts`, `rpc.ts` | pins, deadline | read, retry, move on | the deadline holds; a lagging fallback's 404 is not an answer |
| Sponsorship and mediator | `apps/api/src/fee-bump`, `mediator` | a day's spend | reserve, sign | the budget holds; a forward is not more than the merge delivers |
| Account reading, DeFi | `lib/stellar`, `lib/defi-*` | none | read external state, build exits | a close is not planned on half a read |
| Playground, site, docs | `apps/playground`, `docs`, `scripts` | - | - | out of scope |

**How they interact.** The web loop calls the API over HTTP; every answer may be lost, late or
wrong. It shares the store with the pages of its tab (no lock, one JavaScript thread, so every
`await` is a point where others act), and IndexedDB with the other tabs. The API calls nodes
that trail the network, and Firestore with a time limit; its instances share only Firestore.
Other wallets and devices act on the account at any time.

**What is hard.** A transaction is valid until its time bound; until then a lost answer
says nothing, sending it again is safe and signing another is not. A run outlives the page that
started it. Two tabs can hold one saved close. A lookup's `not_found` is relative to a window
and a clock. PROJECT.json lists each hazard with its line.

## 2. The core: closing an account

| Module | Models |
|---|---|
| `AccountLedger` | the account on the ledger, the envelopes the browser hashed, the ledger clock, the rounds the API may build, what a lookup by hash may answer |
| `SavedCloses` | the records of one account in IndexedDB; one operator per database transaction |
| `CloseEngine` | tabs and runs: the pages around the loop, `runClose` step by step, settlement and its clean-up |
| `CloseContract` | what the person is promised: at most one live transaction, and "closed" only after a merge |
| `CloseSafety` | the properties, the refinement of `CloseContract` and the fairness |
| `CloseProofs` | what is true of the ledger: the inductive invariant `Grounded` and its theorems |
| `FlightProofs` | what one tab at a time keeps: the invariants `Expiry`, `Flight` and `Planned`, and the refinement of `CloseContract` |
| `MCCloseEngine` | the instances TLC checks |

**State and code.** `tx` lists every envelope a browser has hashed, with the sequence number it
consumes, its time bound, whether it merges, and its fate; `fate = "kept"` covers both a hash
that was saved and not sent and one the network refused, since neither can be applied.
`exists`, `unconfirmed` and `done` are the fields of a `SessionRecord`. `tab[t]` holds what the
store shares with the loop (`phase`, `unconfirmedSubmission`, `planHash`) and what the gate
read. `run[r]` is one call of `run`, of `checkUnconfirmed` or of the gate's check; `run[r].pc`
is the await it is at, in the order the code reaches them, and `run[r].mine` is `ownsStore`: it
becomes false when the tab's close is left, and never true again. An account the tab returns
to starts with a new epoch, so a Boolean is enough. `merge`, `queue`, `hash`, `round`, `bound`
and `attempt` are the engine's own variables; a paused round keeps `queue` and `another`
(`pendingRoundRef`).

**Atomicity.** An action is the code between two awaits. `recordSubmission` is `KeepSession`
(`ensureCloseSession`), `KeepHash` (`ownsStore` and `saveUnconfirmed`) and `HoldInStore`; a close that is left
while that write is under way is one left right after it, since either way `Send` is refused. Clearing is one store
write, then `ListHeld` and one `DropHeld` per record. `recordProgress` is not awaited: its write
may fail, and is taken at the moment it starts, since nothing reads it before the next action
of the same run. A crash (`Crash`) loses the tab's memory at any action; a leave (`Leave`) resets the
store and lets the run go on.

**What is abstracted.** Envelopes are their sequence number, time bound and merge flag. Signing,
verification, co-signing and sponsorship are their outcomes: signed (`Sign`), too light
(`SignShort`), refused (`SignFails`). The plan's hash is the account's sequence number: two
plans are equal exactly when no transaction was applied in between, which is the strictest
reading of `computePlanHash`. A pre-authorised transaction sent outside the loop is a change
by others (`Disturb`). The account's contents are the number of cleanup transactions it still
needs. The round the API answers with is one of three shapes: the first of several transactions,
a whole cleanup in a chain, the merge alone; and a dishonest end of the close. Any of them may come without an
upper time bound (`NoEnd`): the verification refuses it before it is signed (`Expires`), and the hook
once more in the final envelope, before its hash is kept. With neither, `HoldReleased` fails.

**Assumptions on the rest of the system.** A 4xx to the first send means the network has not
taken the transaction, or applied it and it failed (`AnswerRefused`). This is a promise of the
API, not of the engine; `SubmitApi` is where it is examined (section 5).

### Runs

| Run | Bounds | Shows |
|---|---|---|
| `one_tab` | 1 tab, 1 run, 1 record, 2 envelopes, clock to 3, 1 change by others, up to 1 cleanup transaction, 1 resend, 1 refetch | all safety properties and the contract. Two envelopes are enough for every property that relates two transactions; one resend and one refetch reach both sides of each counter; the clock runs past the end of the first envelope with a second one still to come |
| `two_tabs` | 2 tabs over one record, nothing but the merge to do, no changes by others, 1 resend, reads that may fail; a close is left only between its runs (`LeavesRuns = FALSE`), since a run that lost its close is what `one_tab` looks at and a crash is always possible | what survives interleaving: nothing false is shown, recorded or given up |
| `run_ends` | 1 tab, fair, no changes by others, reads of the saved closes that may fail | runs end and holds are released |
| `left_close`, `short_retention`, `late_settle` | as small as each needs | three disagreements between the code and what it says of itself, see section 6 |

The properties of `one_tab`, in `CloseSafety`: `SaidIsTrue`, that is `CompleteMeansClosed` (INV-45 of
`docs/invariants.mdx`) and `RecordedIsConfirmed`; `OneInFlight` (INV-47), `InFlightIsHeld`,
`FailedMeansSettled` (INV-46), `ExpiredNeverRan`, `PlanHashFollows` (INV-41), and `KeepsContract`. They assume one tab at a time, a database that can be read,
and a node that remembers at least as long as a hash is kept: `ReadFails = FALSE` and
`Retention >= MaxTime`. Each of the three is needed: section 6 tells
what two tabs and a short retention do, and with `ReadFails = TRUE` `OneInFlight` fails, since `findUnresolved` takes a
failed read for no hold. `run_ends` and the theorems of `CloseProofs` need none of them; those of
`FlightProofs` have them as hypotheses.

### Fairness

`FairSpec` is weakly fair for each run's own steps, because every await of the code has a time
limit or settles, and for the ledger clock. It is weakly fair for the person's check, and
strongly fair for a lookup that settles: without those a page holds for ever, and rightly so.
Nothing is assumed of leaves, crashes, other wallets, nor of whether a transaction lands.

### Proofs

`CloseProofs` proves, for every number of runs, tabs and records and every value of the
bounds:

* `TypeCorrect`: `Spec => []TypeOK`;
* `CompleteIsTrue`: `Spec => []CompleteMeansClosed`;
* `RecordsAreTrue`: `Spec => []RecordedIsConfirmed`;
* `WhatIsSaidIsTrue`: `Spec => []SaidIsTrue`, the two together, which the runs check.

None is inductive. A page is made to say "complete" from `run[r].merge` or from an answered
lookup, so what has to be invariant is that every claim held in memory is true of the ledger:
`Grounded` says that a run's `sub` and `merge`, a tab's hold, the gate's hash and a record's
hash are envelopes that exist, that a run past a lookup that answered "confirmed" is about a
transaction that succeeded, that a run's merge is a merge that succeeded, and that a record
lists only successes. A success is never undone (`tx` only grows and a fate that is final
stays), which is what each step of the proof comes down to. The proof has one step per action.
The only assumptions are `LedgerAssumption` and `EngineAssumption`, which give the
constants their types. Note that these theorems hold for any number of tabs, for reads that
fail and for any retention: the violation runs lose other properties, never these.

`FlightProofs` proves the rest of `one_tab`'s safety, for any number of records, envelopes, resends and
refetches, any bounds and any changes by others. Its hypotheses are named: `OneAtATime`, a
single run (and so a single tab at work); `~ReadFails`; and `Remembers`, that the clock of a behaviour ends before
a node forgets (`MaxTime <= Retention`). Each is what a violation run lacks, or a constant of section 6, so
none can be dropped:

* `ExpiredIsFinal`: `Remembers` alone gives `Spec => []ExpiredNeverRan`, for any number of tabs.
  Its invariant `Expiry` adds to `Grounded` that what landed did so before its time bound
  and that a run which clears a hash as expired is about an envelope that has lapsed;
* `OnlyOneInFlight`, `FlightIsHeld`, `FailedIsSettled`: `OneInFlight`, `InFlightIsHeld` and
  `FailedMeansSettled`, from the invariant `Flight` (`FlightHolds`). It says of every program
  counter of the run what the store's hold, the gate's and the saved close's must be if some
  envelope can still land (`Known`): all of them name that envelope, and the run is not on its way to another.
  `Alone` keeps other records and tabs out of it;
* `PlanIsFollowed`: `PlanHashFollows`, from the invariant `Planned`, which adds two things to `Flight`. While
  nobody else changes the account, every clean-up in the queue or hashed so far has a sequence number up to
  `LastCleanup` and the merge the one after it (`LedgerFits`, `QueueFits`), so nothing that lands
  fails. And the plan of the page is still the account's, or a transaction has succeeded and the page is `Due` to
  learn of it before it asks for a round; until then the hash of the run is the page's (`Following`);
* `KeepsTheContract`: `Spec => KeepsContract`, the refinement. Each step of the close loop is a step
  of `CloseContract` or a stutter, given `Flight` before and after it.

## 3. What stays with TLC

Every safety property of the passing runs but two is a theorem as well; the sections below name each
theorem, the inductive invariant it rests on, and its hypotheses. What only TLC checks, and why:

* `RunEnds` and `HoldReleased`: liveness under fairness, and with it `ENABLED`, is beyond the prover;
* `NoLateRefusal` in `RoundsSafety`: it speaks of every gate of every round at once, and each of the six exceptions
  of `Excused` is an argument of its own (what an exit pays in, what a line costs, what the issuer froze). The
  part of it that adds up over all rounds, the account's own fees, is `SorobanIsSeenThrough`;
* `RoundsBounded` in `RoundsSafety`: it would take a second measure next to the one of section 8, of the
  transactions to come in place of the operations, and the exact sizes of the chunks. It also counts claim
  batches as full ones: with batches larger than 1 and more claims than one reading lists, which the run
  does not have, a batch may go out part filled, so a theorem would have to count those apart;
* the properties of the violation runs, which are false.

Induction over data needs theorems with an operator parameter, which the installed provers cannot instantiate.
Three devices stand in for it: a smallest element, or a smallest counterexample, from the well-foundedness of
the naturals or of the subsets of a finite set (`Least` in `RoundsProofs`, `SmallestSubset` in
`ServiceProofs`, by `WFMin`); a sum as the number of cells of a table (`Cells` in `ServiceProofs`), so that what a
sum does is a fact of cardinalities; and recursive functions on `0..n` instead of `RECURSIVE` operators in every
module that is proved about: such a function exists (`StepsExist` in `ProgressProofs`), and what holds of its steps
holds of its end by a smallest counterexample. Bitwise operations do not occur.

## 4. API keys: `ApiKeyCache`, `ApiKeySafety`, `ApiKeyProofs`

`record` and `revokedAt` are the store every instance shares: Firestore, one document per key.
`known[i]` and `unknown[i]` are the two maps of instance `i`'s `ApiKeyDirectory`; `unknown` keeps
insertion order, as a `Map` does, since `rememberUnknown` relies on it. A resolution is `Resolve`
(`peek`, and the answer if it has one), then `StoreReads` at the database and `StoreAnswers` back in
the instance, so that a revocation, another resolution or a restart may come between any
two of them; or `StoreFails`, when the store fails or its time is up. The rate limiter and the guard
each resolve the key of a request, and either is one such resolution.

A create, revoke or rotate is asked (`AskCreate`, `AskRevoke`, `AskRotate`), committed by the store
in one transaction (`Commit`) and announced (`Announce`: `invalidate`, then the answer). A
call that was given up (`OpTimesOut`) may still commit, and then nobody announces it. Left out: static keys,
which are never cached; the count of an owner's active keys, a soft cap by the repository's own
account; sign-in. `enforced` and `raced` are observations and guard nothing.

| Run | Bounds | Shows |
|---|---|---|
| `keys` | one key with 2 values that are no key and 2 resolutions, or a rotation of one key into a second with 1 resolution; 1 instance, 1 change at a time; window and store limit of 1, clock to 3, a negative cache of 2 | how long a revoked key is served, across a rotation too, refused and late ones included; that a live one is never refused; when a revocation is enforced at once; the negative cache's bound and order. The clock passes the window and the limit after a revocation, so that a key would be seen served too late; the two values and a revoked key fill two places, expire and are renewed |

A deployment runs one instance (`docs/architecture.md:589`), and two while one replaces the other. What another
instance changes is to this one's caches what a call does that was given up and commits late:
nobody announces it here. So the runs have one instance, and the theorem below any number.

`ServedRecently` is the real window: `cacheTtlMs` plus the store's time limit, since a read that began
before the revocation is cached from the time it comes back. `EnforcedUnlessRaced` is what
remains of "on its very next lookup": the instance that announced the end never serves the
key again unless it was itself reading that key at that moment.

`ApiKeyProofs` proves `WindowHolds`: `Spec => []ServedRecently`, for any keys, instances, resolutions
and values of the two limits. The inductive invariant `Window` says, of a cached entry, that it expires
within the window of now, and within the window plus a store read of the key's revocation; and of a
resolution that the store has answered, that the key was not revoked before it was asked. The
time limit enters through `Tick`: time does not pass a waiting resolution's limit. The other three
properties of `keys` are proved as well, for any keys, values, instances and limits:

* `ActiveIsServed`: `Spec => []ActiveNeverRefused`. The invariant `Refusals` adds to `Window` that a value an
  instance remembers as unknown, or that the store did not find, is none that was issued and is still active: a new key is not given
  out before its document is committed (`Issued`), and a negative entry outlives neither;
* `OrderHolds`: `Spec => []UnknownInOrder`. The entries of `unknown[i]` are distinct and in the order they
  expire (`InOrder`), which `Without`, `Append` and the removal of the oldest keep;
* `AnnouncedIsEnforced`: `Spec => EnforcedUnlessRaced`. The invariant `Ended` says that an instance which
  announced the end of a key has no entry of it, unless a resolution raced.

## 5. Submitting: `SubmitApi`, `SubmitSafety`, `SubmitProofs`

One signed envelope through `submitAndWait` and what `CloseService.submit` answers for it.
`fate` is what became of the envelope on the network, `age` how long ago; everything else is the
call under way: `pc` is its await (`prior` the look at the history, `send`, `busy` the wait after
TRY_AGAIN_LATER, `poll` and `pause` of `pollByHash`, `next` the look at another provider, `count`
`countClose`), `since` when that began, `t` the clock, `stopAt` and `tries` the code's own. A read answers
what its node knew when it was asked (`found`); a node may trail the ledger by `Lag`. `noVerdict` is
the error the call ends with if no read gives a verdict. The answers are `refused` (422), `pending` (504)
and `unknown` (502, whether or not it names the hash).

Time passes in seconds, and the constants of the passing runs are the code's own: a budget of 35, reads and sends of
10, a settle window of 10, polls every 3. The request's deadline of 40 ends reads of the pinned
provider and neither sends nor the look at the next one. The caller submits twice, a second time only
after an answer that says nothing for sure. Assumed of the network: a node that answers
TRY_AGAIN_LATER, or ERROR with a code outside `MAY_ALREADY_HAVE_LANDED`, has not taken the
envelope; a node never shows what did not happen.

| Run | Bounds | Shows |
|---|---|---|
| `components`, with `focus = "submit"` (section 7) | two providers whose probe and first read take no longer than one read, reads that fail, `Lag` 7 | a refusal of the first submission is final, a pending envelope was taken, a confirmed one is refused only if the look at the second provider fails, and the answer comes within budget + one read, which is what the client's 45 s allow. 7 is the most: with a lag of 8 (settle window less one poll, plus one) a confirmed envelope is refused, since the last look may come that early |

The caller may stop at any point, so the run does not check for deadlock.

`SubmitProofs` proves `RefusalIsFinal` (`Spec => []FirstRefusalIsFinal`) and `PendingIsTrue`
(`Spec => []PendingWasTaken`) for every value of the budgets, the retries and the lag. The inductive
invariant `Outcome` adds what the code relies on without saying it: in the first submission the
envelope is untouched until a send ends, a verdict read is the envelope's fate, and a rejection is only kept
(`noVerdict`) for an envelope no node has taken. `RefusalIsFinal` is what the close engine
assumes of the API when it drops the hash of a refused transaction (`AnswerRefused`), and why it
does so after the first send only.

The other two depend on how the limits relate, and the proofs say how:

* `AnswerComesInTime`: `Fitting` gives `Spec => []AnswersInTime`. `Fitting` is `PriorTimeout + ReadTimeout <= Budget`
  and `2 * MinRead + CountTimeout <= ReadTimeout`; the code's 10 + 10 <= 35 and 2 * 1 + 5 <= 10 satisfy both, and
  the `PriorTimeout = 40` of section 6 does not. The invariant `Paced` bounds when each await may have begun;
* `ConfirmedIsNotRefused`: `Settles` gives `Spec => []ConfirmedRefusedOnlyUnread`. `Settles` is a second provider, and `Lag +
  PollInterval` within the settle window and the budget: with the code's 10 and 3 a lag of 7 and no more, the bound TLC had
  found. Its invariant `Shown` follows an envelope that had landed when the call began until
  every node must show it.

## 6. Disagreements found

See "findings" in PROJECT.json. In short: clearing drops whatever hash is held, not the one that
settled (`late_settle`); the store's hold is written after awaits without asking whose close it
is (`left_close`); the window of a `not_found` is never looked at (`short_retention`); the browser
refuses a transfer the plan offered, of an asset that only an exit pays in (`arriving_transfer`), and
the forward of a close whose own Soroban round cost what the plan estimates (`stale_forward`); and a
plan that still wants an answer is reviewed and confirmed when the account holds a balance that cannot
be claimed, because the status says "blocked" and the page drops that blocker (`open_review`).

Two more are stated as exceptions of properties that hold: a read under way puts a revoked key back
in the cache, so `EnforcedUnlessRaced` says "unless raced"; and the guard reads the key store outside
the look-up budget, so `StoreReadsBounded` bounds the reads by two budgets and not by one.

Six more need only another constant and have no run of their own. With `Waits = FALSE` and two visits
`BuiltAsReviewed` fails in `ReviewSafety`: the person confirms, goes back to the analyze page while
`handleConfirm` still awaits the saved closes (`ReviewView.tsx:67-93`), answers differently and proceeds;
the confirmation then sets `STEP_EXECUTING` over the new plan, which is executed though nobody confirmed it,
where `app/[network]/review/page.tsx:29-30` says that only a close still waiting for its confirmation may be
reviewed. With two tabs over one record
`OneInFlight` fails in `two_tabs`: both read the saved closes before either saves its hash, and each
sends a transaction of the same sequence. With `ReadFails = TRUE` `OneInFlight` fails in `one_tab`: a
read of the saved closes that fails counts as no hold, for the gate and for `run` (`recovery.ts:48`), which
INV-47 does not say. With one provider and `Lag = 20` in `components` a confirmed envelope that is
submitted again is answered `refused`, where `docs/api-reference/errors.mdx:163` says that the API
reports it as a success. With `PriorTimeout = 40`, three providers of which two are dead,
`AnswersInTime` fails in `components`: the budget bounds retries and polls, but the first send starts
however long the first read and its probes took, and may end at 50 s when the client gave up at 45. With a
second position of four steps in `MCRounds`, `SorobanSeenThrough` fails: `build-transactions.ts:301-305` reserves
for the steps left of the position that leaves, and one round more for each position and each token, so that a later
position of more than two steps is not counted, where the comment on `assertOwnFeesFit` (`build-transactions.ts:153`)
says "Refuses a Soroban round the account could not see through". The account stops with
`close_fee_balance_short` between two exits.

## 7. Components that share nothing: `MCComponents`

Services of the API that keep state in the memory of one process, used by requests that
overtake each other at every await, and readings that are put together from many requests while
the ledger moves on. They share nothing, so each is a module of its own; `ServiceSafety` and
`ReadingSafety` hold what is claimed of them, and `MCComponents` runs one of them, or `SubmitApi` of section
5, in focus, per behaviour.

| Module | State | An action is |
|---|---|---|
| `RateLimiter` | `hits` and `blocked`, the throttler's storage; `cached`, what the key directory remembers; `call`, each request | what runs between two awaits: `ArriveKnown`, `ArriveUnknown` up to the read of the key store, `LookedUp` after it, then `Guard` and `GuardAnswered`, since `ApiKeyGuard` resolves the bearer again |
| `SponsorshipBudget` | the budget's day and what was spent in it, the hashes charged; the ledger's sequence numbers | `AskSponsor` notes the time and waits; `Sponsor` is everything after the sequence number was read. The clock moves over midnight and back, the process restarts, envelopes land |
| `StatsCache` | the store's documents and counter, one cached promise per instance, reads under way | a report is verified, looked for among the built hashes, committed in one transaction and announced; a read is asked, answered by the store, and kept or broken |
| `ProviderFailover` | the provider asked, the time gone, the attempts on it, the pieces read | one attempt and what follows it: the next piece, another attempt after a wait, the next provider, the end |
| `UpstreamFlush` | the buffer, the writes under way, the one remembered | a write starts, lands, is rejected or is no longer waited for; the process shuts down |
| `AccountSnapshot` | `history`, the account as of each ledger; the reading under way: what each of its requests saw and of which ledger | one request, answered by a node at any ledger of the span the provider checks allow; the confirmation by RPC (`findStateDrift`) in calls of `KeysPerCall` keys |
| `SponsorshipReading` | what the account sponsors, entry by entry and owner by owner; the search under way | one owner read, or one page of history; an owner may move an entry, or a new one may come, between any two |

| Run | Bounds | Shows |
|---|---|---|
| `components` | limiter: 1 key, 1 value that is no key, 2 requests, limits of 1, windows of 2 and 1, clock to 2. Budget: 3 inner transactions of 2 accounts, 2 requests, 2 days, 1 restart. Statistics: 2 closes of which 1 was built here, 1 instance, 2 readers, 2 reads, 1 report, clock to 2. Failover: up to 3 providers, 2 requests per read, a deadline of 7, attempts of 4, 2 attempts on the last. Flush: 2 writes, 3 calls, clock to 3. Snapshot: 1 line, 2 offers on pages of 1, 1 claimable balance, nodes that trail by 1 of 3 ledgers, 2 changes, calls of 2 keys, 1 or 2 providers. Sponsorships: 2 owners with 5 entries, pages and ceilings of 2, 2 moves | `ServiceSafety` and `ReadingSafety`, see there. Two requests are what it takes to pass a limit of one, to wait over midnight while another is booked, and to join a read that fails; two offers on two pages, that one is missed while the other is gone |

The clocks are bounded, so the run does not check for deadlock. One instance of the statistics is
modelled: what a second one changes for the first is a commit that is not announced here, and that is
`ReportFails` after `Commit`. The request budget of a key whose own window is longer than a block is
one budget per block, which the code says of itself (`rate-limiter.ts:100-103`); `BudgetsHold` states
it so.

Of the readings: the lists of Horizon and RPC providers are taken as equally long (`sources`); the account
exists (a 404 is `ProviderFailover`'s); a provider names the ledger in all of its responses or in
none. A confirmation of more than 200 keys takes several RPC calls and is not atomic: `ConfirmedIsWhole`,
one half of `ReadingIsWhole`, speaks of a confirmation whose calls saw one ledger, and the stronger claim that some ledger equals
the reading fails with `KeysPerCall = 2`. `state-drift.ts` says "An entry added since the read is
caught by the sub-entry count; one changed or removed, by its own entry", which is that stronger
claim. In `SponsorshipReading` an entry that comes to be sponsored while the search runs may hide one
that was missed, since only their number is compared (`joined`).

### Proofs

`ServiceProofs` proves every property of `ServiceSafety` and `ReadingSafety`, for every value of the
constants. Two theorems have a hypothesis that a set of the model is finite, where the model sums over it;
the first part of the module has the facts about such sums.

| Theorem | Property | Invariant |
|---|---|---|
| `BudgetsAlwaysHold`, `StoreReadsAreBounded` | `BudgetsHold`, `StoreReadsBounded` | `LimiterInv`: for each tracker, what passed within a window of now is what its hits show, and while it is blocked nothing passes (`BudgetOf`); every read of the key store that is done or still to come was paid for as a look-up or as a served request (`ReadsArePaid`); a key's own budget is only spent by who holds it (`KeysAreSpared`) |
| `SponsorKeepsItsBudget` | `SponsorPaysItsBudget` | `BudgetInv`: a day that is asked for was on the clock (`DaysWereShown`), the sum granted in a day is what was spent of it plus what the budgets used up before a restart or a change of day could grant (`GrantedByDay`), and every fee paid was granted (`PaidFromGranted`) |
| `ClosesSeen`, `OutageIsNotCached` | `ClosesAreSeen`, `OutageNotCached` | `StatsInv`: an entry of the cache, a reader that waits and one that has its answer know every close that was counted before their read began (`EntriesAreGood`, `WaitersAreGood`, `DoneAreGood`), and what an instance announced is counted (`AnnouncedAreCounted`) |
| `OneSourceHolds`, `SharesHold` | `OneSource`, `SharesAreEven` | `Failing`: the pieces read are of the provider being asked, and only the last one is asked again (`FromOne`); `Sharing` adds that a cap is the share of what was left when the provider's turn came (`CapIsShare`) |
| `UpstreamCallsConserved` | `CallsConserved` | the types of the buffer, if `Writes` is finite: what a write takes out of the buffer is in that write until it lands or is put back |
| `ListedIsCovered` | `ListedCoversSponsored` | `ListingInv`, if `Entries` is finite: the count the listing is held against was taken of a set that covers both what is sponsored since and what was listed (`CountCovers`). Equal reserves of a set and a part of it make them equal |
| `ReadingsAreWhole`, `ChangesAreRecent` | `ReadingIsWhole`, `ChangedIsRecent` | `ReadingInv`: the body and the pages are of the ledgers the answers named (`PagesAreFrom`); a claimable balance that is in all of those was read or comes after all that was (`ClaimsComeInOrder`, by `PageIsFirst`: a page leaves out only what comes after all of it, and then it is full); what is kept is near the ledger asked for (`KeptIsRecent`); and the confirmation knows of each entry it has read whether some ledger had it (`ConfirmedSoFar`) |

## 8. Rounds of a close: `CloseRounds`

What a close does with the account's contents, over all its rounds: the plan and its gates, the
answers, each round the API builds, the browser's check of it, and the account in between.

| Module | Models |
|---|---|
| `ClosingLedger` | the account: balance, lines, offers, data, signers, claimable balances, positions, what it sponsors; what each operation does when it is applied, and when it fails |
| `RoundPlanning` | what a reading says, what is asked, the gates of the plan and of every build: fees of the rounds to come, reserves of claims, destinations, sponsorships (`decisions.ts`, `close.service.ts`, `build-transactions.ts`, `merge-preflight.ts`, `claim-predicates.ts`) |
| `RoundBuilding` | the round built for an account and answers: which exit, which claims, the classic operations in chunks of `OpLimit`, the merge last (`build-transactions.ts`, `tx-builder`) |
| `EnvelopeCheck` | the browser's check of an envelope against what the review showed (`verify.ts` and the intent it is given) |
| `CloseRounds` | the close: review, read, confirm, build, check, apply, with the account, the market, the destinations and the clock moving between any two steps, and builders that are wrong |
| `RoundsSafety` | the properties |
| `RoundsProofs`, `ProgressProofs` | five of them proved |
| `MCRounds`, `MCRoundsReview` | the instances; the second adds section 9's pages, in focus by turns, since the two share no state |

**Atomicity.** `Answer` is the plan, what the caller answers and, for the browser, the review. A round is
`Read` (the account and the gates that need nothing else), `Confirm` (over RPC), `Build` with everything it
reads live (a destination, the owners, the claims' predicates), and one `Submit` per transaction: the
browser's check, the mediator's signature, and what the ledger makes of it. `BuildOther` is a round built
wrong. `Over` is the end. Between any two of them the world may move: `Deposit`, `AddData`,
`MarketMoves`, `DestinationFills`, `DestinationGone`, `ClaimTaken`, `ClaimArrives`, `OwnerSpends`, and the
clock by `Tick`.

**What is abstracted.** Amounts are small numbers, and what a token converts to is a number the market
may lower by one, which stands for slippage and for the drift room of `classicFloorFromQuote`
together. One position per exit target. The transfer destination holds the line, only its room
varies. Fee and reserve are those of the constants, not the network's. Pool shares,
AUTH_IMMUTABLE, issued assets, sub-entry mismatch and the confidence of a DeFi reading are gates of their
own and left out; so are the number of the account's sponsors, the engine's own bound on rounds
(`CloseEngine` has it), and the trees of Soroban authorizations and routes, of which the
model keeps what they spend and where it goes. The fee sponsor signs whatever it allows.
`SequenceTooFar` never bites with `SequenceLimit = 1000`.

| Run | Bounds | Shows |
|---|---|---|
| `rounds_and_review`, with `focus = "rounds"` | accounts of up to 2 things (asset, token, position, claim, data entry, offer, signer, sponsored entry), of 1 thing while others act or while a builder is wrong; clock to 3, transactions valid for 1, claims batched by 1 and read up to 2, chunks of 4 operations; direct and mediated payouts | `RoundsSafety`: nothing is refused late, own fees suffice, funds go where the answers say whatever is built, a mediated balance reaches the destination, nothing is closed over, claims land in time, each round leaves less to do. Two things are what it takes for one round to spend what another needs; a chunk of 4 cuts an account of two things in two |
| `arriving_transfer`, `stale_forward` | as the rounds of `rounds_and_review`, with one account each | section 6 |

A close that stops is told so, and there is nothing after it: the run checks for deadlock with
an explicit stutter at the end. `RoundsBounded` stands for liveness: every round that lands leaves
strictly less.

`Excused` in `RoundsSafety` names what the gates of the first plan do not foresee, each of which is a
case of the code: a line that a claim opens takes a reserve that later fees were not reckoned with
(`close_fee_balance_short` after `addLine`); an account that is short at review counts on the fee sponsor,
whose rounds exclude payments and the mediator's merge; an exit changes what a claim's reserve and a destination's room were
judged by; claims beyond the ceiling are asked about later; a claim on a line its issuer froze is
offered all the same and fails on the ledger; and the transfer of `arriving_transfer`. An API caller who
never planned gets two of the plan's gates late (unrevocable and unaffordable sponsorships,
which only `buildPlan` refuses), so `NoLateRefusal` is about planned closes. `merge-preflight.ts:61` calls its count "An
upper bound on the transactions"; it leaves out claim rounds and the further steps of an exit
(`Uncounted`). `claim-predicates.ts` looks at both ends of the window, which misses the gap of an `or`.
With `SorobanFee` as large as the estimate, the forward's tolerance is spent by one exit:
`rounds_and_review` keeps both small, `stale_forward` does not.

### Proofs

`RoundsProofs` proves four of the properties of `RoundsSafety` for any account, market, answers, clock and disturbance, and for
any limits. Its assumptions are those of the constants (`HoldingsAssumption`, `LimitsAssumption`,
`CheckAssumption`, and `StartsAssumption`: a close starts from an open account that has sent nothing away):

* `FundsFollowTheAnswers`: `Spec => []FundsGoAsAnswered`, whoever built the rounds;
* `TheBalanceIsHandedOn`: `Spec => []BalanceReachesDestination`, whoever built the merge;
* `NothingIsForgotten`: `Spec => []NothingForgotten`;
* `ClaimsAreInTime`: `NoGaps => (Spec => []ClaimsLandInTime)`. `predicateHoldsThroughWindow`
  (`claim-predicates.ts:71`) looks at both ends of the window; a predicate that holds at two instants and
  not in between is an `or` with a gap, and with one the property is false. `NoGaps` excludes it.

The invariant is `RoundsInv`. The first two properties are part of it, and each of the others has a part of its own:

* `QueueFits`: every operation still to be signed keeps to the answers, unless the browser is there to check
  it when it is submitted. That is why a wrong builder changes nothing for the browser, and why an API
  caller depends on the builder alone;
* `AsRead`: from the reading to the build, the tokens and positions of the account are those of the reading,
  and every token held has its answer: nothing outside the close moves them;
* `ClaimsAreOnce`: a claimable balance that is gone never comes back, so those seen at the last reading are
  the ones that may still be there;
* `LastRound`: once the round without a further call is built, no token, position or claim is left but what
  the answers leave, and what is queued is only the taking apart of the classic account (`CloseNames`);
* `Timely`: the predicate of a queued claim was looked at no later than now and holds for the margin from then.

Most of the module is about the operators: `Applied` and `InOrder` step by step, what each operation may
change, what each of the five kinds of round holds, and what `Verdict` lets through. TLC checked the
invariant on the instances of the run before it was proved.

`ProgressProofs` proves the property that adds up over the rounds:

* `SorobanIsSeenThrough`: `FeesForeseen => (Spec => []SorobanSeenThrough)`, for any account, answers and clock.

`FeesForeseen` says when the reserve of `assertOwnFeesFit` is enough. Of the code's constants: a Soroban round is charged no more
than its estimate (`SorobanFee <= SorobanEstimate`), and the least a mediator forwards is no more than the reserve of
an empty account (`MinForward <= 2 * BaseReserve`; 1 XLM in `claim-reserve.ts:66`, twice 0.5 XLM in `config/constants.ts`). Of the
account: no more claims than twice those a reading lists, and no position after the first that takes more than two
rounds, the token it pays out included (`Foreseen`). Without the last it is false, see section 6. The
instances of the run satisfy all of it.

The invariant `FeesInv` says, of a close that is left alone (`Live`):

* `Whole`: the account is sound, and so is what it takes to close it: lines, offers and balances fit each other;
* `Kept`: once a Soroban round has landed and no line was opened since, what the account can spend covers what it
  will owe. `Owed` is `LaterOwnFees` with the Soroban rounds ahead while there are any, and then `Closing`: a
  stroop for each operation that takes the account apart, for each claim and for the merge, and the mediator's fee;
* `QueueIs`: what is queued is one move of a Soroban round, or claims and the lines they need, or operations each
  of which takes one thing off the account, or the last transaction.

`Owed` falls by what a round costs, whichever round it is. A Soroban round is one fewer of `SorobanRounds`
(`SorobanMoved`); a transaction of clean-up costs at most its operations and leaves as many fewer to do, also
when the ledger converts, revokes and removes on the way (`TransactionTaken`); a claim pays for
itself (`TransactionClaimed`). So a round that is built when `Spare >= Owed` never comes short, and one that is not is
the first Soroban round, which `assertOwnFeesFit` refuses before it is signed (`BuildShape`). On the way stand what
`Pack` makes of a list of operations (`PackShape`, `FilledIs`) and what it charges (`PackCosts`).

## 9. Before the first transaction: `PlanReview`, `ReviewSafety`, `ReviewProofs`

One tab from the entry page to the first transaction: what the analyze page asks for and shows, the
answers, the plan that is asked for at "Review the full plan", its confirmation, and the first build.

| State | In the code |
|---|---|
| `version` | an account on the ledger: its sequence number, and whether it holds a claimable balance it cannot claim; either also changes what its asset looks like |
| `page` | the page on screen: `entry`, `analyze`, `review`, `execute` |
| `store` | `useDemolishStore`: `sourceAddress`, `accountState`, `assetDispositions`, `claimableBalanceSelections`, the plan with its hash, the phase. `plan.open` is observed: whether the API still wants an answer |
| `kept` | the snapshot in the tab's session storage |
| `view`, `visits`, `restoring` | the state of the analyze page, the number of the instance on screen, and each instance's `pendingRestore` |
| `asked` | requests under way. `newest` is `fetchSeq`'s and `reading` `accountSeq`'s verdict on them; `read` is the account their answer will bring |
| `proceeds`, `confirming` | `handleProceed` of each instance and `handleConfirm`, at their awaits |
| `consented`, `built` | observed: the plan shown when the person pressed confirm, and what the first transactions were built from |

**Atomicity.** An action is the code between two awaits, with the subscribers it wakes: every action that
changes the store also writes the snapshot, if the page on screen keeps one (`KeepsChoices`, for
`useKeepDecisions`). The account read is answered by the API at `ReadServed` and applied at `ReadLands`. A
plan is computed when it lands: what differs before is the order of the answers, which `claim` of the
request keeps. A page that is left goes on: its requests land, its `handleProceed` ends, and both act on the
store of whatever is on screen.

**What is abstracted.** One asset with a route to XLM stands for all assets, one claimable balance for all
questions that a plan asks anew; positions, sponsored entries and floors follow the rule of one or the other.
A destination is good, or refuses (`ProceedFails`). The hash covers the account, its sequence number and the
answers (`computePlanHash`), and not what the account holds, so a payment that arrives in between passes it.
The hop from `execute` on is `CloseEngine`'s: `ReviewNext` ends with the first build.

| Run | Bounds | Shows |
|---|---|---|
| `rounds_and_review`, with `focus = "review"` | 1 account, 2 visits of the analyze page, 2 requests under way, 1 reload, 1 balance that comes up, 1 transaction made elsewhere once a plan is reviewed (`LateSpending`) | `BuiltAsReviewed`, `ProceedsOnItsPlan`, `NothingKeptAfterConsent`. Two requests of one visit can come back in the wrong order, and two visits are what it takes for a request to outlive its page; a second account, and own transactions at any time, were checked in smaller instances and add nothing |
| `open_review` | the same, without reloads and own transactions | `ReviewedIsAnswered` fails, section 6 |

`Waits` says that the person stays on the page while a plan or a confirmation is under way. `BuiltAsReviewed`
needs it, see section 6; the other two do not. The bound on visits ends a behaviour, with an
explicit stutter, so the run checks for deadlock all the same. `CanProceed` is `proceedReasons`, that is
whether the button can be pressed; `ProceedsOnItsPlan` excludes a plan whose request failed, since the page
then shows the failure and the older plan.

Two things met on the way are not properties. A read or a plan that lands after its page was left still
prunes the answers of the store (`setAccount`, `reconcileDispositions`), which may by then be about another
account; the answers are asked again, and `Accepts` keeps them out of anything built. And
`journey-state.ts:85` says of the session id that only the confirmation sets it, where
`AccountEntryForm.tsx`'s `handleAnalyze` calls `initSession`.

`ReviewProofs` proves, for any accounts, visits, requests, reloads and transactions made elsewhere:

* `BuiltIsReviewed`: `ReviewSpec => [](Waits => BuiltAsReviewed)`;
* `NothingKept`: `ReviewSpec => []NothingKeptAfterConsent`;
* `ProceedsOnCurrentPlan`: `ReviewSpec => []ProceedsOnItsPlan`, whether or not the person waits.

The first is not inductive: the plan the store holds is set by `handleProceed`, which may end on any page, and
compared by the API long after. The invariant `Reviewed` says that a plan is asked for, and a confirmation is
under way, only on the page that began it, so that no plan can be set between the confirmation and the
build (`Waiting`), and that from the confirmation on the store's plan is the one that was shown
(`Agreed`). What the answers are by then does not enter: the API compares. The second rests on `Keepable` and on the execute
page being reached through the consent only (`Forgotten`). The third rests on `Tracked`: the requests under way that
are the newest of their page were asked for the answers on screen (`Asking`), and so was the plan shown, unless a
newer request will replace it (`OnScreenFits`); `Shape`, `Visited` and `Named` keep pages, visits and accounts
apart. `ReviewAssumption` gives the constants their types; only `Tracked` needs it.

## 10. Plan

Done: the close loop and its contract; submission; API keys; the services; the readings; the
rounds of a close; the pages before it. Next:

1. `SignerWeight`: signatures and thresholds across a confirmed SetOptions;
2. the checks of `run-exit` and the readers of DeFi positions;
3. quotes and conversions over several sources.

Compositions: `CloseEngine` over `SubmitApi`'s answers, and over `CloseRounds`; `PlanReview` in front of
`CloseEngine`, with the saved closes its gate reads.
Proofs: `RoundsBounded`, with a measure of the transactions to come on top of `ProgressProofs`; then the
exceptions of `NoLateRefusal`, one by one.

## 11. Not modelled

DeFi adapters and position readers (their exits are one operation with a fee and a payout in
`CloseRounds`), quotes and token discovery (a number that moves), request validation, rendering, the
playground, the site, health: for the reasons PROJECT.json gives per component.
