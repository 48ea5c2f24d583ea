---------------------------- MODULE CloseEngine ----------------------------
(***************************************************************************)
(* The close loop of the SDK (runClose) as the web app drives it: tabs of  *)
(* one browser that close one account, each with its in-memory store, over *)
(* the saved closes they share and the account on the ledger.              *)
(*                                                                         *)
(* A run is one asynchronous execution of the loop.  It outlives the close *)
(* it was started for: leaving a close resets the tab's store and bumps    *)
(* its epoch, and the run goes on until its next ownership check.  Each    *)
(* action is what happens between two awaits of a run.                     *)
(***************************************************************************)
EXTENDS AccountLedger, SavedCloses

CONSTANTS
    Runs, Tabs,
    TabOf,        \* the tab a run executes in
    SessionOf,    \* the saved close a run writes to
    NoSession,
    NoPlan,       \* no plan hash
    Resends,      \* SUBMIT_RESEND_ATTEMPTS
    Refetches,    \* STATE_CHANGED_REFETCHES
    RoundMargin,  \* ROUND_MARGIN
    MaxRounds,    \* HARD_MAX_ROUNDS
    ReadFails,    \* whether reading the saved closes can fail
    CoSigned,     \* whether the account's own signature can be too light
    LeavesRuns    \* bound: whether a close is left while a run of it is under way

ASSUME EngineAssumption ==
    /\ TabOf \in [Runs -> Tabs]
    /\ SessionOf \in [Runs -> Sessions]
    /\ NoSession \notin Sessions
    /\ NoPlan \notin Nat
    /\ Resends \in Nat /\ Refetches \in Nat /\ RoundMargin \in Nat /\ MaxRounds \in Nat
    /\ ReadFails \in BOOLEAN /\ CoSigned \in BOOLEAN /\ LeavesRuns \in BOOLEAN

VARIABLES
    run,          \* the engine's own memory, per run
    tab           \* the store of each tab, and its gate

vars == <<ledgerVars, savedVars, run, tab>>

(***************************************************************************)
(* Where a run stands: `recorded` to `lookup` are the awaits of the code   *)
(* in the order it reaches them; `list` and `drop` are the two halves of   *)
(* clearUnconfirmedFor.                                                    *)
(***************************************************************************)
PC == {"idle", "asked", "recorded", "ensure", "left", "fetch", "explain", "sign",
       "keep", "save", "saved", "send", "answer", "lookup", "list", "drop"}

Phase == {"loading",       \* the page has not read the saved closes yet
          "planning", "review", "executing", "failed", "unconfirmed", "complete"}

Plan == Nat \cup {NoPlan}

RunType ==
    [pc : PC,
     mine : BOOLEAN,       \* the tab still holds the close this run was started for
     queue : Seq(Item),    \* the round's transactions not yet confirmed
     another : BOOLEAN,    \* the round's requiresAnotherCall
     steps : Nat,          \* and its remaining.steps
     round : Int,          \* -1 while a paused round is being finished
     bound : Nat,
     attempt : Nat,        \* resends of the submission, or refetches of the round
     hash : Plan,          \* planHash as runClose sends it
     sub : Nat,            \* the submission being settled, or 0
     merge : Nat,          \* confirmedMerge, or 0
     who : {"left", "tx", "check", "gate"},
     outcome : {"confirmed", "failed", "expired", "refused"},
     listed : SUBSET Sessions,
     rec : Sessions \cup {NoSession},  \* the saved close progress goes to
     paused : BOOLEAN]     \* a round waits for another signer

TabType ==
    [phase : Phase,
     held : Nat,           \* unconfirmedSubmission, or 0
     plan : Plan,          \* planHash
     gate : Sessions \cup {NoSession},   \* the saved close UnresolvedGate shows
     gateTx : Nat,         \* and the hash it held when the gate read it
     finished : BOOLEAN]   \* the gate found the account closed, and shows nothing else

TypeOK ==
    /\ LedgerTypeOK
    /\ SavedTypeOK
    /\ run \in [Runs -> RunType]
    /\ tab \in [Tabs -> TabType]

Idle ==
    [pc |-> "idle", mine |-> FALSE, queue |-> <<>>, another |-> FALSE, steps |-> 0, round |-> 0,
     bound |-> 0, attempt |-> 0, hash |-> NoPlan, sub |-> 0, merge |-> 0,
     who |-> "tx", outcome |-> "confirmed", listed |-> {}, rec |-> NoSession,
     paused |-> FALSE]

FreshTab ==
    [phase |-> "loading", held |-> 0, plan |-> NoPlan,
     gate |-> NoSession, gateTx |-> 0, finished |-> FALSE]

Init ==
    /\ LedgerInit
    /\ SavedInit
    /\ run = [r \in Runs |-> Idle]
    /\ tab = [t \in Tabs |-> FreshTab]

-----------------------------------------------------------------------------
At(r, p) == run[r].pc = p

\* ownsStore: the epoch of the run is the tab's.
Owns(r) == run[r].mine

\* A run holds its tab from the click to its end, and while one of its rounds waits
\* for another signer (signingRun); a check of the store's hold does so until its
\* lookup answers.  The gate has no busy state, and its check holds nothing up.
Busy(q) == Owns(q) /\ (run[q].who \in {"tx", "left"} \/ (run[q].who = "check" /\ At(q, "asked")))

\* r can be the next run of its tab.
CanBegin(r) ==
    /\ At(r, "idle")
    /\ \A q \in Runs \ {r} : TabOf[q] = TabOf[r] => ~Busy(q)

Larger(a, b) == IF a < b THEN b ELSE a

\* Mutants of EndPhase: the API's word taken for the merge, an unknown outcome
\* shown as a failure, and a phase no page knows.
EndPhaseTrusting(cause, h, m) ==
    IF cause = "done" THEN "complete" ELSE IF h # 0 THEN "unconfirmed" ELSE "failed"
EndPhaseHasty(cause, h, m) == IF cause = "done" /\ m # 0 THEN "complete" ELSE "failed"
EndPhaseUntyped(cause, h, m) == IF cause = "done" /\ m # 0 THEN "complete" ELSE cause

(***************************************************************************)
(* The end of a run: what useCloseExecution does with how runClose ended.  *)
(* h is the store's unconfirmed submission by then and m the confirmed     *)
(* merge.  A run that lost its close leaves the store alone.               *)
(***************************************************************************)
EndPhase(cause, h, m) ==
    CASE cause = "short" -> "failed"
      [] cause = "done" -> IF m # 0 THEN "complete" ELSE "failed"
      [] cause = "unknown" \/ (cause \in {"changed", "failed"} /\ h # 0) -> "unconfirmed"
      [] cause = "changed" /\ h = 0 -> "planning"
      [] cause = "failed" /\ h = 0 -> "failed"

Ended(r, cause, t, m) ==
    /\ run' = [run EXCEPT ![r] =
                  IF cause = "short" /\ Owns(r)
                    THEN [Idle EXCEPT !.mine = TRUE,
                                      !.queue = run[r].queue,
                                      !.another = run[r].another,
                                      !.paused = TRUE]
                    ELSE Idle]
    /\ tab' = [tab EXCEPT ![TabOf[r]] =
                  IF Owns(r)
                    THEN [t EXCEPT !.phase = EndPhase(cause, t.held, m),
                                   !.plan = IF cause = "changed" /\ t.held = 0
                                              THEN NoPlan ELSE @]
                    ELSE t]

End(r, cause) == Ended(r, cause, tab[TabOf[r]], run[r].merge)

\* Nothing but this run's own memory changes.
OnlyRun == UNCHANGED <<ledgerVars, savedVars, tab>>

-----------------------------------------------------------------------------
(***************************************************************************)
(* The pages around the loop.                                              *)
(***************************************************************************)

\* findUnresolved: a saved close that holds a hash, or 0 for none; a failed read
\* is taken as no hold.
FindUnresolved == Held \cup {s \in {NoSession} : Held = {} \/ ReadFails}

\* An account is named: setAddresses starts with no hold, and UnresolvedGate reads
\* the saved closes once.
GateRead(t) ==
    /\ tab[t].phase = "loading"
    /\ \E s \in FindUnresolved :
          tab' = [tab EXCEPT ![t].phase = "planning", ![t].held = 0, ![t].gate = s,
                             ![t].gateTx = IF s = NoSession THEN 0 ELSE unconfirmed[s]]
    /\ UNCHANGED <<ledgerVars, savedVars, run>>

\* The close pages are shown: no gate stands before them.
Shown(t) == tab[t].gate = NoSession /\ ~tab[t].finished

\* The account is read and its plan reviewed.  With the answers given, the plan's
\* hash (computePlanHash) stands for the account's sequence number.
Review(t) ==
    /\ tab[t].phase = "planning"
    /\ Shown(t)
    /\ open
    /\ tab' = [tab EXCEPT ![t].phase = "review", ![t].plan = seqNum]
    /\ UNCHANGED <<ledgerVars, savedVars, run>>

\* The page offers the close: it is reviewed, stopped or going on, or its hold has
\* just been released.
Offered(t) ==
    /\ Shown(t)
    /\ \/ tab[t].phase \in {"review", "failed", "executing"}
       \/ tab[t].phase = "unconfirmed" /\ tab[t].held = 0

\* The person starts, retries or continues the close.
Start(r) ==
    LET t == TabOf[r] IN
    /\ CanBegin(r)
    /\ Offered(t)
    /\ tab' = [tab EXCEPT ![t].phase = "executing"]
    /\ run' = [run EXCEPT ![r].pc = "recorded", ![r].mine = TRUE]
    /\ UNCHANGED <<ledgerVars, savedVars>>

\* With a key the account does not list: a paused round is dropped as well.
StartRefused(r) ==
    LET t == TabOf[r] IN
    /\ CanBegin(r)
    /\ Offered(t)
    /\ tab' = [tab EXCEPT ![t].phase = "failed"]
    /\ run' = [run EXCEPT ![r] = Idle]
    /\ UNCHANGED <<ledgerVars, savedVars>>

Ask(r, who, i, s) ==
    run' = [run EXCEPT ![r] = [Idle EXCEPT !.pc = "asked", !.mine = TRUE, !.who = who,
                                      !.sub = i, !.rec = s]]

\* checkUnconfirmed: looks up the store's own hold.
AskCheck(r) ==
    LET t == TabOf[r] IN
    /\ CanBegin(r)
    /\ Shown(t)
    /\ tab[t].phase = "unconfirmed"
    /\ tab[t].held # 0
    /\ Ask(r, "check", tab[t].held, SessionOf[r])
    /\ UNCHANGED <<ledgerVars, savedVars, tab>>

\* The gate's check, settleRecorded: looks up the hash the gate read.  The button can
\* be pressed again while an earlier check is under way.
AskGate(r) ==
    LET t == TabOf[r] IN
    /\ CanBegin(r)
    /\ tab[t].gate # NoSession
    /\ Ask(r, "gate", tab[t].gateTx, tab[t].gate)
    /\ UNCHANGED <<ledgerVars, savedVars, tab>>

\* The lookup of a check answers.  Nothing is signed or sent; a hash that settled
\* leaves the store, which the gate's check clears for whatever close it holds.
Answered(r) ==
    LET t == TabOf[r]
        clears == IF run[r].who = "gate" THEN tab[t].phase # "loading" ELSE Owns(r)
    IN
    /\ At(r, "asked")
    /\ \E o \in Resolution(run[r].sub) :
          IF o = "unknown"
            THEN run' = [run EXCEPT ![r] = Idle] /\ tab' = tab
            ELSE /\ run' = [run EXCEPT ![r].pc = "list", ![r].outcome = o]
                 /\ tab' = IF clears THEN [tab EXCEPT ![t].held = 0] ELSE tab
    /\ UNCHANGED <<ledgerVars, savedVars>>

\* A confirmed leave resets the store and unmounts its pages; a run or a check in
\* progress is not stopped by it.
Leave(t) ==
    /\ tab[t].phase # "loading"
    /\ LeavesRuns \/ \A r \in Runs : TabOf[r] = t => At(r, "idle")
    /\ tab' = [tab EXCEPT ![t] = FreshTab]
    /\ run' = [r \in Runs |-> IF TabOf[r] # t THEN run[r]
                               ELSE IF At(r, "idle") THEN Idle
                               ELSE [run[r] EXCEPT !.mine = FALSE]]
    /\ UNCHANGED <<ledgerVars, savedVars>>

\* The tab is closed, reloaded or crashes: only the saved closes are left.
Crash(t) ==
    /\ tab' = [tab EXCEPT ![t] = FreshTab]
    /\ run' = [r \in Runs |-> IF TabOf[r] = t THEN Idle ELSE run[r]]
    /\ UNCHANGED <<ledgerVars, savedVars>>

\* Another tab dismisses a saved close that holds no hash, or it expires.
Dismiss(s) ==
    /\ DeleteSettledSession(s)
    /\ UNCHANGED <<ledgerVars, run, tab>>
-----------------------------------------------------------------------------
(***************************************************************************)
(* The run, from the click to runClose.                                    *)
(***************************************************************************)

\* findUnresolved again: a hash an earlier page load saved becomes the store's
\* hold, unless the store has one.
ReadRecorded(r) ==
    LET t == TabOf[r] IN
    /\ At(r, "recorded")
    /\ \E s \in FindUnresolved :
          tab' = IF s = NoSession \/ tab[t].held # 0
                   THEN tab ELSE [tab EXCEPT ![t].held = unconfirmed[s]]
    /\ run' = [run EXCEPT ![r].pc = "ensure"]
    /\ UNCHANGED <<ledgerVars, savedVars>>

\* What a run does first once nothing is left over: finish a paused round, or
\* ask for a round.
Begin(me, planHash) ==
    IF me.paused
      THEN [me EXCEPT !.pc = "sign", !.round = -1, !.hash = NoPlan]
      ELSE [me EXCEPT !.pc = "fetch", !.round = 0, !.hash = planHash]

\* ensureCloseSession, then the call of runClose with the store's hold.
EnsureSession(r) ==
    LET t == TabOf[r]
        me == [run[r] EXCEPT !.rec = IF Owns(r) THEN SessionOf[r] ELSE NoSession]
    IN
    /\ At(r, "ensure")
    /\ IF Owns(r) THEN SaveSession(SessionOf[r]) ELSE UNCHANGED savedVars
    /\ run' = [run EXCEPT ![r] =
                  IF tab[t].held = 0
                    THEN Begin(me, tab[t].plan)
                    ELSE [me EXCEPT !.pc = "left", !.sub = tab[t].held,
                                    !.hash = IF me.paused THEN NoPlan ELSE tab[t].plan]]
    /\ UNCHANGED <<ledgerVars, tab>>

\* The record could not be written: nothing is fetched or signed.
EnsureFails(r) ==
    /\ At(r, "ensure")
    /\ Owns(r)
    /\ End(r, "failed")
    /\ UNCHANGED <<ledgerVars, savedVars>>

\* onSubmission(null): the store's hold goes at once, the saved ones after.
ClearHold(r, who, o) ==
    /\ run' = [run EXCEPT ![r].pc = "list", ![r].who = who, ![r].outcome = o]
    /\ tab' = IF Owns(r) THEN [tab EXCEPT ![TabOf[r]].held = 0] ELSE tab

Clear(r, who, o) == ClearHold(r, who, o) /\ UNCHANGED <<ledgerVars, savedVars>>

GiveUp(r) ==
    /\ End(r, "unknown")
    /\ UNCHANGED <<ledgerVars, savedVars>>

\* settleLeftOver: by lookup only, before anything else.
SettleLeftOver(r) ==
    /\ At(r, "left")
    /\ \E o \in Resolution(run[r].sub) :
          IF o = "unknown" THEN GiveUp(r) ELSE Clear(r, "left", o)

-----------------------------------------------------------------------------
(***************************************************************************)
(* A round.                                                                *)
(***************************************************************************)

\* Bounds: an envelope is built only while another can be hashed and while the
\* clock can still reach the end of its life.
RoomToBuild == Len(tx) < MaxTx /\ ltime + Lifetime + Margin < MaxTime

\* The API plans from the live account, and refuses a hash it no longer plans to.
FetchRound(r) ==
    /\ At(r, "fetch")
    /\ open /\ RoomToBuild
    /\ run[r].hash \in {NoPlan, seqNum}
    /\ \E b \in Rounds :
          run' = [run EXCEPT ![r].pc = "sign", ![r].queue = b.txs, ![r].another = b.another,
                             ![r].steps = b.steps, ![r].attempt = 0]
    /\ OnlyRun

\* state_changed: fetched again a few times, unless it was checked against the
\* reviewed plan.
FetchStateChanged(r) ==
    /\ At(r, "fetch")
    /\ IF run[r].hash # NoPlan \/ run[r].attempt = Refetches
          THEN End(r, "changed")
          ELSE /\ run' = [run EXCEPT ![r].attempt = @ + 1]
               /\ tab' = tab
    /\ UNCHANGED <<ledgerVars, savedVars>>

\* account_not_found: only a merge this run saw confirmed can explain it.
FetchAccountNotFound(r) ==
    /\ At(r, "fetch")
    /\ ~open
    /\ IF run[r].merge # 0
          THEN /\ run' = [run EXCEPT ![r].pc = "explain"]
               /\ tab' = tab
          ELSE End(r, "failed")
    /\ UNCHANGED <<ledgerVars, savedVars>>

MergeExplainsMissingAccount(r) ==
    /\ At(r, "explain")
    /\ \E o \in Resolution(run[r].merge) :
          End(r, IF o = "confirmed" THEN "done" ELSE "failed")
    /\ UNCHANGED <<ledgerVars, savedVars>>

FetchFails(r) ==
    /\ At(r, "fetch")
    /\ End(r, "failed")
    /\ UNCHANGED <<ledgerVars, savedVars>>

-----------------------------------------------------------------------------
(***************************************************************************)
(* One transaction of the round: verify, sign, keep its hash, send.        *)
(***************************************************************************)

\* Mutant of Expires: a transaction without an upper time bound is taken as well.
ExpiresAssumed(item) == TRUE

\* What could land at any time is never signed: it could never be given up on.
Expires(item) == item.until # NoEnd

Sign(r) ==
    /\ At(r, "sign")
    /\ Owns(r)
    /\ Expires(Head(run[r].queue))
    /\ run' = [run EXCEPT ![r].pc = "keep"]
    /\ OnlyRun

\* The signatures so far are too light: the round pauses for another signer.
SignShort(r) ==
    /\ CoSigned
    /\ At(r, "sign")
    /\ Owns(r)
    /\ Expires(Head(run[r].queue))
    /\ End(r, "short")
    /\ UNCHANGED <<ledgerVars, savedVars>>

\* Verification, the signer, a co-signature or the ownership check refuses.
SignFails(r) ==
    /\ At(r, "sign")
    /\ End(r, "failed")
    /\ UNCHANGED <<ledgerVars, savedVars>>

\* keepDurably, first half: the record is put back if it was dismissed.
KeepSession(r) ==
    /\ At(r, "keep")
    /\ Owns(r)
    /\ SaveSession(SessionOf[r])
    /\ run' = [run EXCEPT ![r].pc = "save"]
    /\ UNCHANGED <<ledgerVars, tab>>

NewTx(r) == LET item == Head(run[r].queue) IN
    [seq |-> item.seq, merge |-> item.merge, until |-> item.until, fate |-> "kept", at |-> 0]

\* Mutant of KeepHash: the hash is kept in memory only.
KeepHashInMemory(r) ==
    /\ At(r, "save")
    /\ Len(tx) < MaxTx
    /\ tx' = Append(tx, NewTx(r))
    /\ run' = [run EXCEPT ![r].pc = "saved", ![r].sub = Len(tx) + 1]
    /\ UNCHANGED <<open, seqNum, work, ltime, disturbed, savedVars, tab>>

\* Second half: the hash is written into the record.
KeepHash(r) ==
    /\ At(r, "save")
    /\ Owns(r)
    /\ exists[SessionOf[r]]
    /\ Len(tx) < MaxTx
    /\ tx' = Append(tx, NewTx(r))
    /\ SaveUnconfirmed(SessionOf[r], Len(tx) + 1)
    /\ run' = [run EXCEPT ![r].pc = "saved", ![r].sub = Len(tx) + 1]
    /\ UNCHANGED <<open, seqNum, work, ltime, disturbed, tab>>

\* Not kept: the close is no longer this run's, the record is gone again, or
\* the write failed.  The transaction is not sent.
NotKept(r) ==
    /\ run[r].pc \in {"keep", "save"}
    /\ End(r, "failed")
    /\ UNCHANGED <<ledgerVars, savedVars>>

\* The kept hash becomes the store's hold, whichever close the store holds now.
HoldInStore(r) ==
    /\ At(r, "saved")
    /\ tab' = [tab EXCEPT ![TabOf[r]].held = run[r].sub]
    /\ run' = [run EXCEPT ![r].pc = "send", ![r].attempt = 0]
    /\ UNCHANGED <<ledgerVars, savedVars>>

\* The same bytes go to the API.  From here on they may reach a ledger at any
\* time, or never: the request, or the answer, can be lost or delayed.
Send(r) ==
    /\ At(r, "send")
    /\ Owns(r)
    /\ tx' = [tx EXCEPT ![run[r].sub].fate = IF @ = "kept" THEN "sent" ELSE @]
    /\ run' = [run EXCEPT ![r].pc = "answer"]
    /\ UNCHANGED <<open, seqNum, work, ltime, disturbed, savedVars, tab>>

\* Every send of a run that lost its close throws, which is not a refusal.
SendNotOwner(r) ==
    /\ At(r, "send")
    /\ ~Owns(r)
    /\ run' = [run EXCEPT ![r].pc = "lookup"]
    /\ OnlyRun

AnswerConfirmed(r) ==
    /\ At(r, "answer")
    /\ tx[run[r].sub].fate = "success"
    /\ Clear(r, "tx", "confirmed")

\* Mutant of AnswerRefused: a refused resend settles the transaction as well.
AnswerRefusedAlways(r) ==
    /\ At(r, "answer")
    /\ Clear(r, "tx", "refused")

\* A 4xx.  On the first send it settles the transaction: the network never took
\* it, or applied it and it failed.  Later an earlier copy may be in flight.
AnswerRefused(r) ==
    /\ At(r, "answer")
    /\ \/ /\ run[r].attempt = 0
          /\ tx[run[r].sub].fate \in {"sent", "failed"}
          /\ tx' = [tx EXCEPT ![run[r].sub].fate = IF @ = "sent" THEN "kept" ELSE @]
          /\ ClearHold(r, "tx", "refused")
       \/ /\ run[r].attempt > 0
          /\ run' = [run EXCEPT ![r].pc = "lookup"]
          /\ UNCHANGED <<tx, tab>>
    /\ UNCHANGED <<open, seqNum, work, ltime, disturbed, savedVars>>

\* Mutant of AnswerUnknown: the resends are not counted.
AnswerUnknownUncounted(r) ==
    /\ At(r, "answer")
    /\ run' = [run EXCEPT ![r].pc = "send"]
    /\ OnlyRun

\* A 5xx, a timeout, a dropped connection or another hash: the outcome is open.
AnswerUnknown(r) ==
    /\ At(r, "answer")
    /\ run' = [run EXCEPT ![r].pc = IF run[r].attempt < Resends THEN "send" ELSE "lookup",
                          ![r].attempt = IF @ < Resends THEN @ + 1 ELSE @]
    /\ OnlyRun

\* Mutant of LookUp: what no answer settled has failed.
LookUpHasty(r) ==
    /\ At(r, "lookup")
    /\ \E o \in Resolution(run[r].sub) : Clear(r, "tx", IF o = "confirmed" THEN o ELSE "failed")

\* No answer settled it: one lookup of the client's own hash.
LookUp(r) ==
    /\ At(r, "lookup")
    /\ \E o \in Resolution(run[r].sub) :
          IF o \in {"confirmed", "failed"} THEN Clear(r, "tx", o) ELSE GiveUp(r)

-----------------------------------------------------------------------------
(***************************************************************************)
(* clearUnconfirmedFor: the records of the account that hold a hash are    *)
(* listed, then each is written without it.                                *)
(***************************************************************************)
ListHeld(r) ==
    /\ At(r, "list")
    /\ run' = [run EXCEPT ![r].pc = "drop", ![r].listed = Held]
    /\ OnlyRun

DropHeld(r) ==
    /\ At(r, "drop")
    /\ \E s \in run[r].listed :
          /\ SaveUnconfirmed(s, 0)
          /\ run' = [run EXCEPT ![r].listed = @ \ {s}]
    /\ UNCHANGED <<ledgerVars, tab>>

\* The saved closes could not be listed or written: what is left keeps its hash,
\* and nothing is stopped by it.
DropFails(r) ==
    /\ run[r].pc \in {"list", "drop"}
    /\ run' = [run EXCEPT ![r].pc = "drop", ![r].listed = {}]
    /\ OnlyRun

Cleared(r, who) == At(r, "drop") /\ run[r].listed = {} /\ run[r].who = who

\* recordProgress: never waited for, and its write may fail.
RecordProgress(r) ==
    \/ run[r].rec # NoSession /\ RecordConfirmed(run[r].rec, run[r].sub)
    \/ UNCHANGED savedVars

\* Mutant of PlanCleared: the reviewed plan's hash outlives its plan.
PlanKept(r) == tab[TabOf[r]]

\* The store's plan hash goes with the first confirmed transaction.
PlanCleared(r) ==
    IF Owns(r) THEN [tab[TabOf[r]] EXCEPT !.plan = NoPlan] ELSE tab[TabOf[r]]

ClearPlanHash(r) == tab' = [tab EXCEPT ![TabOf[r]] = PlanCleared(r)]

\* The left-over failed on the ledger, or never ran: the latter goes on.
LeftOverGone(r) ==
    /\ Cleared(r, "left")
    /\ run[r].outcome # "confirmed"
    /\ IF run[r].outcome = "failed"
          THEN End(r, "failed")
          ELSE /\ run' = [run EXCEPT ![r] = Begin(@, @.hash)]
               /\ tab' = tab
    /\ UNCHANGED <<ledgerVars, savedVars>>

LeftOverConfirmed(r) ==
    /\ Cleared(r, "left")
    /\ run[r].outcome = "confirmed"
    /\ RecordProgress(r)
    /\ IF tx[run[r].sub].merge
          THEN Ended(r, "done", PlanCleared(r), run[r].sub)
          ELSE /\ run' = [run EXCEPT ![r] = Begin(@, NoPlan)]
               /\ ClearPlanHash(r)
    /\ UNCHANGED ledgerVars

TxNotConfirmed(r) ==
    /\ Cleared(r, "tx")
    /\ run[r].outcome # "confirmed"
    /\ End(r, "failed")
    /\ UNCHANGED <<ledgerVars, savedVars>>

\* The bound on rounds after a round, from the API's own remaining.steps.
NextBound(r) ==
    LET steps == run[r].round + 1 + run[r].steps + RoundMargin IN
    IF run[r].round = -1
      THEN run[r].bound
      ELSE Larger(run[r].bound, IF steps < MaxRounds THEN steps ELSE MaxRounds)

\* A confirmed transaction: the next of the round, the next round, or the end.
TxConfirmed(r) ==
    LET m == IF tx[run[r].sub].merge THEN run[r].sub ELSE run[r].merge
        after == [run[r] EXCEPT !.queue = Tail(@), !.merge = m, !.hash = NoPlan,
                                !.sub = 0, !.attempt = 0, !.paused = FALSE]
    IN
    /\ Cleared(r, "tx")
    /\ run[r].outcome = "confirmed"
    /\ RecordProgress(r)
    /\ IF after.queue # <<>>
          THEN /\ run' = [run EXCEPT ![r] = [after EXCEPT !.pc = "sign"]]
               /\ ClearPlanHash(r)
          ELSE IF ~run[r].another
          THEN Ended(r, "done", PlanCleared(r), m)
          ELSE IF run[r].round + 1 < Larger(NextBound(r), 1)
          THEN /\ run' = [run EXCEPT ![r] = [after EXCEPT !.pc = "fetch", !.round = @ + 1,
                                                        !.bound = NextBound(r)]]
               /\ ClearPlanHash(r)
          ELSE Ended(r, "failed", PlanCleared(r), m)
    /\ UNCHANGED ledgerVars

\* checkUnconfirmed, once its hash is dropped everywhere.
Checked(r) ==
    LET t == TabOf[r]
        confirmed == run[r].outcome = "confirmed"
        phase == CASE run[r].outcome = "failed" -> "failed"
                   [] confirmed /\ tx[run[r].sub].merge -> "complete"
                   [] OTHER -> "executing"
    IN
    /\ Cleared(r, "check")
    /\ IF confirmed /\ Owns(r) THEN RecordProgress(r) ELSE UNCHANGED savedVars
    /\ tab' = IF Owns(r)
                THEN [tab EXCEPT ![t].phase = phase,
                                 ![t].plan = IF confirmed THEN NoPlan ELSE @]
                ELSE tab
    /\ run' = [run EXCEPT ![r] = Idle]
    /\ UNCHANGED ledgerVars

\* Mutant of GateChecked: whatever did not fail is taken as confirmed.
GateCheckedHasty(r) ==
    LET s == run[r].rec
        closed == run[r].outcome # "failed" /\ tx[run[r].sub].merge
    IN
    /\ Cleared(r, "gate")
    /\ IF run[r].outcome # "failed" THEN RecordConfirmed(s, run[r].sub) ELSE UNCHANGED savedVars
    /\ tab' = [tab EXCEPT ![TabOf[r]].gate = NoSession, ![TabOf[r]].gateTx = 0,
                          ![TabOf[r]].finished = closed]
    /\ run' = [run EXCEPT ![r] = Idle]
    /\ UNCHANGED ledgerVars

\* settleRecorded, once its hash is dropped everywhere: a closed account's
\* record is deleted, and the gate opens.
GateChecked(r) ==
    LET t == TabOf[r]
        confirmed == run[r].outcome = "confirmed"
        closed == confirmed /\ tx[run[r].sub].merge
        s == run[r].rec
    IN
    /\ Cleared(r, "gate")
    /\ IF closed THEN DeleteSession(s)
       ELSE IF confirmed THEN RecordProgress(r)
       ELSE UNCHANGED savedVars
    /\ tab' = IF Owns(r)
                THEN [tab EXCEPT ![t].gate = NoSession, ![t].gateTx = 0,
                                 ![t].finished = @ \/ closed]
                ELSE tab
    /\ run' = [run EXCEPT ![r] = Idle]
    /\ UNCHANGED ledgerVars

-----------------------------------------------------------------------------
Network ==
    /\ (\E i \in Ids : Land(i)) \/ Disturb \/ Tick
    /\ UNCHANGED <<savedVars, run, tab>>

Person ==
    \/ \E t \in Tabs : GateRead(t) \/ Review(t) \/ Leave(t) \/ Crash(t)
    \/ \E r \in Runs : Start(r) \/ StartRefused(r) \/ AskCheck(r) \/ AskGate(r)
    \/ \E s \in Sessions : Dismiss(s)

Fetching(r) ==
    \/ FetchRound(r) \/ FetchStateChanged(r) \/ FetchAccountNotFound(r)
    \/ MergeExplainsMissingAccount(r) \/ FetchFails(r)

Submitting(r) ==
    \/ Sign(r) \/ SignShort(r) \/ SignFails(r)
    \/ KeepSession(r) \/ KeepHash(r) \/ NotKept(r) \/ HoldInStore(r)
    \/ Send(r) \/ SendNotOwner(r)
    \/ AnswerConfirmed(r) \/ AnswerRefused(r) \/ AnswerUnknown(r) \/ LookUp(r)

Clearing(r) ==
    \/ ListHeld(r) \/ DropHeld(r) \/ DropFails(r)
    \/ LeftOverGone(r) \/ LeftOverConfirmed(r)
    \/ TxNotConfirmed(r) \/ TxConfirmed(r) \/ Checked(r) \/ GateChecked(r)

Engine(r) ==
    \/ Answered(r) \/ ReadRecorded(r) \/ EnsureSession(r) \/ EnsureFails(r) \/ SettleLeftOver(r)
    \/ Fetching(r) \/ Submitting(r) \/ Clearing(r)

Next == Network \/ Person \/ \E r \in Runs : Engine(r)

Spec == Init /\ [][Next]_vars
=============================================================================
