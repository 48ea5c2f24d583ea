----------------------------- MODULE SubmitApi -----------------------------
(***************************************************************************)
(* One signed envelope through `submit` of the API: a look at the history, *)
(* one node that may take it, refuse it, be busy or not answer, and looks  *)
(* by hash until a verdict or the end of the budget.  The caller may       *)
(* submit the same envelope again when it was told nothing for sure.       *)
(***************************************************************************)
EXTENDS Integers

CONSTANTS
    Budget,           \* SUBMIT_BUDGET_MS
    ReadTimeout,      \* RPC_READ_TIMEOUT_MS, the RPC client's own for a send too
    PriorTimeout,     \* the same, with the probes that pin a provider before the first read
    Deadline,         \* REQUEST_DEADLINE_MS: reads of the pinned provider end by then
    CountTimeout,     \* COUNT_CLOSE_TIMEOUT_MS
    TryAgainDelay,    \* TRY_AGAIN_DELAY_MS
    TryAgainRetries,  \* TRY_AGAIN_MAX_RETRIES
    PollInterval,     \* POLL_INTERVAL_MS
    SettleWindow,     \* SETTLE_WINDOW_MS
    MinRead,          \* the second a read by hash gets at least
    HasNext,          \* whether another provider is configured
    Lag,              \* how long a node may not show what a ledger has applied
    ReadsFail,        \* whether a read can fail or find its time up
    Calls             \* bound: times the caller submits the envelope

ASSUME SubmitAssumption ==
    /\ Budget \in Nat /\ ReadTimeout \in Nat /\ TryAgainDelay \in Nat /\ TryAgainRetries \in Nat
    /\ PriorTimeout \in Nat /\ CountTimeout \in Nat /\ Deadline \in Nat
    /\ PollInterval \in Nat /\ SettleWindow \in Nat /\ MinRead \in Nat
    /\ HasNext \in BOOLEAN /\ ReadsFail \in BOOLEAN /\ Lag \in Nat /\ Calls \in Nat

VARIABLES
    fate,     \* what became of the envelope
    age,      \* how long ago that was, up to Lag
    t,        \* the clock of the call under way
    pc, since,  \* the await it is at, and when that began
    stopAt,   \* pollByHash's
    tries,    \* tryAgainCount
    found,    \* what the read under way will answer
    noVerdict,  \* what the call throws if no read gives a verdict
    calls, answer,
    landed,   \* observed: the envelope had succeeded when the call began
    unread    \* observed: the look at the next provider failed

vars == <<fate, age, t, pc, since, stopAt, tries, found, noVerdict, calls, answer, landed, unread>>
networkVars == <<fate, age>>

Fate == {"unsent", "taken", "success", "failed"}
Final == {"success", "failed"}

\* `unknown` is a 502, `pending` a 504, `refused` a 422.
Answer == {"none", "success", "refused", "pending", "unknown"}

TypeOK ==
    /\ fate \in Fate /\ age \in 0 .. Lag
    /\ t \in Nat /\ since \in Nat /\ stopAt \in Nat /\ tries \in 0 .. TryAgainRetries
    /\ pc \in {"idle", "prior", "send", "busy", "poll", "pause", "next", "count"}
    /\ found \in Final \cup {"none"}
    /\ noVerdict \in Answer /\ answer \in Answer
    /\ calls \in 0 .. Calls /\ landed \in BOOLEAN /\ unread \in BOOLEAN

Init ==
    /\ fate = "unsent" /\ age = 0
    /\ t = 0 /\ pc = "idle" /\ since = 0 /\ stopAt = 0 /\ tries = 0
    /\ found = "none" /\ noVerdict = "none" /\ calls = 0 /\ answer = "none" /\ landed = FALSE
    /\ unread = FALSE

Least(a, b) == IF a < b THEN a ELSE b
Most(a, b) == IF a < b THEN b ELSE a

-----------------------------------------------------------------------------
(***************************************************************************)
(* The network.                                                            *)
(***************************************************************************)

\* What a node may answer by hash: it shows a ledger no later than Lag after it.
Seen == (IF fate \in Final THEN {fate} ELSE {}) \cup {n \in {"none"} : fate \notin Final \/ age < Lag}

Land ==
    /\ fate = "taken"
    /\ fate' \in Final
    /\ age' = 0
    /\ UNCHANGED <<t, pc, since, stopAt, tries, found, noVerdict, calls, answer, landed, unread>>

\* The time an await has, from when it began.  The request's deadline cuts a read of the
\* pinned provider short, and neither a send nor the look at the next provider.
ReadCap == Least(Most(stopAt - since, MinRead), ReadTimeout)
BeforeDeadline(cap) == Least(cap, Most(Deadline - since, 0))
Limit ==
    CASE pc = "prior" -> BeforeDeadline(PriorTimeout)
      [] pc = "send" -> ReadTimeout
      [] pc = "busy" -> TryAgainDelay
      [] pc = "poll" -> BeforeDeadline(ReadCap)
      [] pc = "next" -> ReadCap
      [] pc = "pause" -> PollInterval
      [] pc = "count" -> CountTimeout

Tick ==
    /\ pc # "idle" => t < since + Limit
    /\ t' = IF pc = "idle" THEN t ELSE t + 1
    /\ age' = IF fate \in Final THEN Least(age + 1, Lag) ELSE age
    /\ t' # t \/ age' # age
    /\ UNCHANGED <<fate, pc, since, stopAt, tries, found, noVerdict, calls, answer, landed, unread>>

-----------------------------------------------------------------------------
(***************************************************************************)
(* The call (submitAndWait), and what it is answered with (CloseService).  *)
(***************************************************************************)

\* An await begins; a read will answer what its node knows now.
Await(where) ==
    /\ pc' = where /\ since' = t
    /\ found' \in IF where \in {"prior", "poll", "next"} THEN Seen ELSE {"none"}

AnswerWith(a) ==
    /\ pc' = "idle" /\ answer' = a
    /\ since' = 0 /\ stopAt' = 0 /\ tries' = 0 /\ found' = "none" /\ noVerdict' = "none"
    /\ t' = t

\* A verdict by hash: a failed transaction is a rejection, and a success may still have
\* to be counted.
Verdict ==
    IF found = "failed"
       THEN AnswerWith("refused")
       ELSE Await("count") /\ UNCHANGED <<t, stopAt, tries, noVerdict, answer>>

\* Counted, or not: a close is answered either way.
Counted ==
    /\ pc = "count"
    /\ AnswerWith("success")
    /\ UNCHANGED <<networkVars, calls, landed, unread>>

\* The envelope is submitted: first a look at the history, for a call that went unheard.
Call ==
    /\ pc = "idle" /\ calls < Calls /\ answer \in {"none", "unknown", "pending"}
    /\ calls' = calls + 1 /\ answer' = "none" /\ landed' = (fate = "success") /\ unread' = FALSE
    /\ t' = 0 /\ pc' = "prior" /\ since' = 0 /\ found' \in Seen
    /\ UNCHANGED <<networkVars, stopAt, tries, noVerdict>>

ReadMayFail == ReadsFail \/ t >= Deadline

PriorAnswers ==
    /\ pc = "prior"
    /\ \/ found # "none" /\ Verdict
       \/ /\ found = "none" /\ Await("send")
          /\ UNCHANGED <<t, stopAt, tries, noVerdict, answer>>
    /\ UNCHANGED <<networkVars, calls, landed, unread>>

\* The first read is not caught: an error without a hash, and nothing was sent.
PriorFails ==
    /\ pc = "prior" /\ ReadMayFail
    /\ AnswerWith("unknown")
    /\ UNCHANGED <<networkVars, calls, landed, unread>>

\* settleByHash and pollByHash: reads until `until`, at least one.
PollUntil(until, otherwise) ==
    /\ pc' = "poll" /\ since' = t /\ stopAt' = until /\ found' \in Seen
    /\ noVerdict' = otherwise
    /\ UNCHANGED <<t, tries, calls, answer, landed, unread>>

\* Mutant of SettleByHash: no verdict is always a transaction that is pending.
SettleByHashPending(otherwise) == PollUntil(Least(Budget, t + SettleWindow), "pending")

SettleByHash(otherwise) == PollUntil(Least(Budget, t + SettleWindow), otherwise)

\* Mutant of SendThrown: the send is tried once more.
SendThrownAgain ==
    /\ pc = "send"
    /\ fate' \in {fate} \cup {f \in {"taken"} : fate = "unsent"}
    /\ IF tries + 1 >= TryAgainRetries
          THEN SettleByHash("unknown")
          ELSE Await("busy") /\ tries' = tries + 1
               /\ UNCHANGED <<t, stopAt, noVerdict, calls, answer, landed, unread>>
    /\ age' = age

\* The send did not answer: it may have reached the network.
SendThrown ==
    /\ pc = "send"
    /\ fate' \in {fate} \cup {f \in {"taken"} : fate = "unsent"}
    /\ SettleByHash("unknown")
    /\ age' = age

\* Mutant of RetryFits: the retries alone are counted.
RetryFitsAlways(n) == n < TryAgainRetries

\* A retry starts only while a full read timeout still fits the budget.
RetryFits(n) == n < TryAgainRetries /\ t + TryAgainDelay + ReadTimeout <= Budget

\* TRY_AGAIN_LATER: the node did not take it, or it has landed already.
SendBusy ==
    /\ pc = "send"
    /\ IF RetryFits(tries + 1)
          THEN /\ Await("busy") /\ tries' = tries + 1
               /\ UNCHANGED <<t, stopAt, noVerdict, calls, answer, landed, unread>>
          ELSE SettleByHash("unknown")
    /\ UNCHANGED networkVars

\* A code that cannot come from an envelope that has landed.
SendRefused ==
    /\ pc = "send" /\ fate \notin Final
    /\ AnswerWith("refused")
    /\ UNCHANGED <<networkVars, calls, landed, unread>>

\* Mutant of SendStale: every rejection stands at once.
SendStaleRefused ==
    /\ pc = "send"
    /\ AnswerWith("refused")
    /\ UNCHANGED <<networkVars, calls, landed, unread>>

\* MAY_ALREADY_HAVE_LANDED: the rejection stands only if no read by hash knows better.
SendStale ==
    /\ pc = "send"
    /\ SettleByHash("refused")
    /\ UNCHANGED networkVars

\* PENDING or DUPLICATE.
SendTaken ==
    /\ pc = "send"
    /\ fate' = IF fate = "unsent" THEN "taken" ELSE fate
    /\ PollUntil(Budget, "pending")
    /\ age' = age

SendAgain ==
    /\ pc = "busy" /\ t = since + TryAgainDelay
    /\ Await("send")
    /\ UNCHANGED <<networkVars, t, stopAt, tries, noVerdict, calls, answer, landed, unread>>

\* No verdict from this provider: after a send that was not accepted, the next one gets
\* one look.
PollEnds ==
    \/ /\ noVerdict # "pending" /\ HasNext
       /\ pc' = "next" /\ since' = t /\ stopAt' = Budget /\ found' \in Seen
       /\ UNCHANGED <<t, tries, noVerdict, answer>>
    \/ noVerdict = "pending" /\ AnswerWith("pending")
    \/ noVerdict # "pending" /\ ~HasNext /\ AnswerWith(noVerdict)

\* A read came back with nothing, or not at all.
PollGoesOn ==
    IF t + PollInterval >= stopAt
       THEN PollEnds
       ELSE Await("pause") /\ UNCHANGED <<t, stopAt, tries, noVerdict, answer>>

PollAnswers ==
    /\ pc = "poll" /\ t <= Deadline
    /\ \/ found # "none" /\ Verdict
       \/ found = "none" /\ PollGoesOn
    /\ UNCHANGED <<networkVars, calls, landed, unread>>

PollFails ==
    /\ pc = "poll" /\ ReadMayFail
    /\ PollGoesOn
    /\ UNCHANGED <<networkVars, calls, landed, unread>>

PollAgain ==
    /\ pc = "pause" /\ t = since + PollInterval
    /\ Await("poll")
    /\ UNCHANGED <<networkVars, t, stopAt, tries, noVerdict, calls, answer, landed, unread>>

NextAnswers ==
    /\ pc = "next"
    /\ \/ found # "none" /\ Verdict
       \/ found = "none" /\ AnswerWith(noVerdict)
    /\ UNCHANGED <<networkVars, calls, landed, unread>>

NextFails ==
    /\ pc = "next" /\ ReadsFail
    /\ AnswerWith(noVerdict)
    /\ unread' = TRUE
    /\ UNCHANGED <<networkVars, calls, landed>>

Next ==
    \/ Land \/ Tick
    \/ Call \/ PriorAnswers \/ PriorFails
    \/ SendThrown \/ SendBusy \/ SendRefused \/ SendStale \/ SendTaken \/ SendAgain
    \/ PollAnswers \/ PollFails \/ PollAgain \/ NextAnswers \/ NextFails
    \/ Counted

Spec == Init /\ [][Next]_vars
=============================================================================
