---------------------------- MODULE SubmitProofs ----------------------------
(***************************************************************************)
(* What an answer of submit says of the envelope, for every value of its   *)
(* budgets, whatever nodes answer and however late.                        *)
(***************************************************************************)
EXTENDS SubmitSafety, TLAPS

Types ==
    /\ fate \in Fate
    /\ pc \in {"idle", "prior", "send", "busy", "poll", "pause", "next", "count"}
    /\ found \in Final \cup {"none"}
    /\ calls \in Nat
    /\ pc # "idle" => answer = "none"

\* Of the first submission, no node was asked to take the envelope before its first send
\* has ended, and none took it if the refusal may stand.
Untouched ==
    /\ calls = 0 => pc = "idle" /\ fate = "unsent" /\ answer = "none"
    /\ calls = 1 /\ pc \in {"prior", "send", "busy"} => fate = "unsent"
    /\ calls = 1 /\ noVerdict = "refused" => fate = "unsent"

Outcome ==
    /\ Types
    /\ Untouched
    /\ found # "none" => fate = found
    /\ noVerdict = "pending" => fate # "unsent"
    /\ FirstRefusalIsFinal
    /\ PendingWasTaken

LEMMA OutcomeStarts == Init => Outcome
BY DEF Init, Outcome, Types, Untouched, Fate, Final, FirstRefusalIsFinal, PendingWasTaken

\* A node shows nothing, or what became of the envelope.
LEMMA SeenIsTrue == ASSUME NEW f \in Seen PROVE f \in Final \cup {"none"} /\ (f # "none" => f = fate)
BY DEF Seen, Final

LEMMA AwaitIsTrue ==
    ASSUME NEW where, Await(where)
    PROVE  pc' = where /\ found' \in Final \cup {"none"} /\ (found' # "none" => found' = fate)
BY SeenIsTrue DEF Await

\* The call is over and says a of an envelope of which a is true.
LEMMA AnswerKeeps ==
    ASSUME Outcome, NEW a, AnswerWith(a), UNCHANGED <<fate, calls>>, pc # "idle",
           a = "refused" /\ calls = 1 => fate \in {"unsent", "failed"},
           a = "pending" => fate # "unsent"
    PROVE  Outcome'
BY DEF AnswerWith, Outcome, Types, Untouched, FirstRefusalIsFinal, PendingWasTaken

\* The call goes on without a send.
LEMMA AwaitKeeps ==
    ASSUME Outcome, NEW where \in {"poll", "pause", "next", "count"}, Await(where), pc # "idle",
           UNCHANGED <<fate, calls, noVerdict, answer>>
    PROVE  Outcome'
BY AwaitIsTrue DEF Outcome, Types, Untouched, FirstRefusalIsFinal, PendingWasTaken

LEMMA VerdictKeeps ==
    ASSUME Outcome, Verdict, found # "none", UNCHANGED <<fate, calls>>, pc # "idle"
    PROVE  Outcome'
<1>1. CASE found = "failed"
    BY <1>1, AnswerKeeps DEF Verdict, Outcome
<1>2. CASE found # "failed"
    BY <1>2, AwaitKeeps DEF Verdict
<1> QED BY <1>1, <1>2

\* A send has ended and the reads by hash begin.
LEMMA PollKeeps ==
    ASSUME Outcome, pc = "send", NEW until, NEW otherwise, PollUntil(until, otherwise),
           fate' = fate \/ (fate = "unsent" /\ fate' = "taken"),
           otherwise = "refused" => fate' = fate,
           otherwise = "pending" => fate' # "unsent"
    PROVE  Outcome'
<1>1. /\ found' \in Final \cup {"none"} /\ (found' # "none" => found' = fate) /\ pc' = "poll"
      /\ noVerdict' = otherwise /\ calls' = calls /\ answer' = answer
    BY SeenIsTrue DEF PollUntil
<1>2. found' # "none" => found' = fate'
    BY <1>1 DEF Final
<1>3. fate' \in Fate
    BY DEF Outcome, Types, Fate
<1>4. FirstRefusalIsFinal' /\ PendingWasTaken'
    BY <1>1, <1>3 DEF Outcome, Types, FirstRefusalIsFinal, PendingWasTaken, Fate
<1>5. Untouched'
    BY <1>1 DEF Outcome, Untouched
<1> QED BY <1>1, <1>2, <1>3, <1>4, <1>5 DEF Outcome, Types

\* A send waits its turn.
LEMMA SendWaits ==
    ASSUME Outcome, NEW where \in {"send", "busy"}, Await(where), pc \in {"prior", "send", "busy"},
           UNCHANGED <<fate, calls, noVerdict, answer>>
    PROVE  Outcome'
BY AwaitIsTrue DEF Outcome, Types, Untouched, FirstRefusalIsFinal, PendingWasTaken

LEMMA CallKeeps == ASSUME Outcome, Call PROVE Outcome'
<1>1. found' \in Final \cup {"none"} /\ (found' # "none" => found' = fate)
    BY SeenIsTrue DEF Call
<1> QED BY <1>1 DEF Call, networkVars, Outcome, Types, Untouched, FirstRefusalIsFinal, PendingWasTaken

LEMMA SendsKeep ==
    ASSUME Outcome, SendThrown \/ SendBusy \/ SendRefused \/ SendStale \/ SendTaken
    PROVE  Outcome'
<1>1. pc = "send" /\ fate \in Fate
    BY DEF Outcome, Types, SendThrown, SendBusy, SendRefused, SendStale, SendTaken
<1>2. CASE SendThrown
    BY <1>1, <1>2, PollKeeps DEF SendThrown, SettleByHash
<1>3. CASE SendBusy
    <2>1. CASE RetryFits(tries + 1)
        BY <1>1, <1>3, <2>1, SendWaits DEF SendBusy, networkVars
    <2>2. CASE ~RetryFits(tries + 1)
        BY <1>1, <1>3, <2>2, PollKeeps DEF SendBusy, SettleByHash, networkVars
    <2> QED BY <2>1, <2>2
<1>4. CASE SendRefused
    BY <1>1, <1>4, AnswerKeeps DEF SendRefused, networkVars, Outcome, Untouched
<1>5. CASE SendStale
    BY <1>1, <1>5, PollKeeps DEF SendStale, SettleByHash, networkVars
<1>6. CASE SendTaken
    BY <1>1, <1>6, PollKeeps DEF SendTaken, Fate
<1> QED BY <1>2, <1>3, <1>4, <1>5, <1>6

\* What a read without a verdict leads to.
LEMMA NoVerdictKeeps ==
    ASSUME Outcome, UNCHANGED <<fate, calls>>, pc # "idle",
           AnswerWith(noVerdict) \/ (noVerdict = "pending" /\ AnswerWith("pending"))
    PROVE  Outcome'
BY AnswerKeeps DEF Outcome, Untouched

LEMMA PollGoesOnKeeps ==
    ASSUME Outcome, PollGoesOn, UNCHANGED <<fate, calls>>, pc = "poll"
    PROVE  Outcome'
<1>1. CASE Await("pause") /\ UNCHANGED <<noVerdict, answer>>
    BY <1>1, AwaitKeeps
<1>2. CASE PollEnds
    <2>1. CASE /\ pc' = "next" /\ found' \in Seen /\ UNCHANGED <<noVerdict, answer>>
        <3>1. found' \in Final \cup {"none"} /\ (found' # "none" => found' = fate)
            BY <2>1, SeenIsTrue
        <3> QED BY <2>1, <3>1 DEF Outcome, Types, Untouched, FirstRefusalIsFinal, PendingWasTaken
    <2>2. CASE AnswerWith(noVerdict) \/ (noVerdict = "pending" /\ AnswerWith("pending"))
        BY <2>2, NoVerdictKeeps
    <2> QED BY <1>2, <2>1, <2>2 DEF PollEnds
<1> QED BY <1>1, <1>2 DEF PollGoesOn

LEMMA ReadsKeep ==
    ASSUME Outcome, PriorAnswers \/ PriorFails \/ PollAnswers \/ PollFails \/ NextAnswers \/ NextFails
    PROVE  Outcome'
<1>1. CASE PriorAnswers
    <2>1. pc = "prior" /\ UNCHANGED <<fate, calls>>
        BY <1>1 DEF PriorAnswers, networkVars
    <2>2. CASE found # "none" /\ Verdict
        BY <2>1, <2>2, VerdictKeeps
    <2>3. CASE Await("send") /\ UNCHANGED <<noVerdict, answer>>
        BY <2>1, <2>3, SendWaits
    <2> QED BY <1>1, <2>2, <2>3 DEF PriorAnswers
<1>2. CASE PriorFails
    BY <1>2, AnswerKeeps DEF PriorFails, networkVars
<1>3. CASE PollAnswers
    <2>1. pc = "poll" /\ UNCHANGED <<fate, calls>>
        BY <1>3 DEF PollAnswers, networkVars
    <2> QED BY <1>3, <2>1, VerdictKeeps, PollGoesOnKeeps DEF PollAnswers
<1>4. CASE PollFails
    BY <1>4, PollGoesOnKeeps DEF PollFails, networkVars
<1>5. CASE NextAnswers
    <2>1. pc = "next" /\ UNCHANGED <<fate, calls>>
        BY <1>5 DEF NextAnswers, networkVars
    <2> QED BY <1>5, <2>1, VerdictKeeps, NoVerdictKeeps DEF NextAnswers
<1>6. CASE NextFails
    BY <1>6, NoVerdictKeeps DEF NextFails, networkVars
<1> QED BY <1>1, <1>2, <1>3, <1>4, <1>5, <1>6

LEMMA NetworkKeeps == ASSUME Outcome, Land \/ Tick PROVE Outcome'
<1>1. CASE Land
    BY <1>1 DEF Land, Outcome, Types, Untouched, FirstRefusalIsFinal, PendingWasTaken, Fate, Final
<1>2. CASE Tick
    BY <1>2 DEF Tick, Outcome, Types, Untouched, FirstRefusalIsFinal, PendingWasTaken
<1> QED BY <1>1, <1>2

LEMMA OutcomeKept == Outcome /\ [Next]_vars => Outcome'
<1> SUFFICES ASSUME Outcome, [Next]_vars PROVE Outcome'
    OBVIOUS
<1>1. CASE SendAgain
    BY <1>1, SendWaits DEF SendAgain, networkVars
<1>2. CASE PollAgain
    BY <1>2, AwaitKeeps DEF PollAgain, networkVars
<1>3. CASE Counted
    BY <1>3, AnswerKeeps DEF Counted, networkVars
<1>4. CASE UNCHANGED vars
    BY <1>4 DEF vars, Outcome, Types, Untouched, FirstRefusalIsFinal, PendingWasTaken
<1> QED BY <1>1, <1>2, <1>3, <1>4, NetworkKeeps, CallKeeps, SendsKeep, ReadsKeep DEF Next

\* A refusal of the first submission is final: nothing of the envelope is on its way, for
\* every budget, number of retries and lag.
THEOREM RefusalIsFinal == Spec => []FirstRefusalIsFinal
<1>1. Outcome => FirstRefusalIsFinal
    BY DEF Outcome
<1> QED BY <1>1, OutcomeStarts, OutcomeKept, PTL DEF Spec

\* What is answered as pending was taken by a node, for every budget and lag.
THEOREM PendingIsTrue == Spec => []PendingWasTaken
<1>1. Outcome => PendingWasTaken
    BY DEF Outcome
<1> QED BY <1>1, OutcomeStarts, OutcomeKept, PTL DEF Spec
-----------------------------------------------------------------------------
(***************************************************************************)
(* The answer in time.                                                     *)
(***************************************************************************)

\* What the code's numbers satisfy: the first look and one send fit the budget, and two
\* of the shortest reads and the count fit the time of a read.
Fitting ==
    /\ PriorTimeout + ReadTimeout <= Budget
    /\ 2 * MinRead + CountTimeout <= ReadTimeout

\* When an await began and how long it may last.
Paced ==
    /\ t \in Nat /\ since \in Nat /\ stopAt \in Nat
    /\ pc \in {"idle", "prior", "send", "busy", "poll", "pause", "next", "count"}
    /\ pc = "idle" => t <= Budget + ReadTimeout
    /\ pc # "idle" => since <= t
    /\ pc = "prior" => since = 0 /\ t <= PriorTimeout
    /\ pc = "send" => since + ReadTimeout <= Budget /\ t <= since + ReadTimeout
    /\ pc = "busy" => since + TryAgainDelay + ReadTimeout <= Budget /\ t <= since + TryAgainDelay
    /\ pc = "poll" => since <= stopAt /\ stopAt <= Budget /\ t <= since + ReadCap
    /\ pc = "pause" => since + PollInterval < stopAt /\ stopAt <= Budget /\ t <= since + PollInterval
    /\ pc = "next" => stopAt = Budget /\ since <= Budget + MinRead /\ t <= since + ReadCap
    /\ pc = "count" => since <= Budget + 2 * MinRead /\ t <= since + CountTimeout

LEMMA PacedStarts == Init => Paced
BY SubmitAssumption DEF Init, Paced

\* The longest a read lasts, from when it began.
LEMMA ReadEnds ==
    ASSUME Paced
    PROVE  /\ ReadCap \in Nat /\ ReadCap <= ReadTimeout
           /\ since + ReadCap <= stopAt \/ ReadCap <= MinRead
BY SubmitAssumption DEF Paced, ReadCap, Least, Most

\* The clock where the call may end or a count begin.
LEMMA EndsOfAwaits ==
    ASSUME Fitting, Paced, pc # "idle"
    PROVE  /\ t <= Budget + ReadTimeout
           /\ pc # "count" => t <= Budget + 2 * MinRead
           /\ pc \in {"prior", "send", "busy", "pause"} => t <= Budget
           /\ pc = "poll" => t <= Budget + MinRead
BY SubmitAssumption, ReadEnds DEF Fitting, Paced

\* An await begins: when, and with what time to go, is what has to be shown.
LEMMA AwaitPaced ==
    ASSUME Paced, NEW where \in {"send", "busy", "poll", "pause", "next", "count"}, pc' = where,
           since' = t, t' = t, stopAt' \in Nat,
           where = "send" => t + ReadTimeout <= Budget,
           where = "busy" => t + TryAgainDelay + ReadTimeout <= Budget,
           where = "poll" => t <= stopAt' /\ stopAt' <= Budget,
           where = "pause" => t + PollInterval < stopAt' /\ stopAt' <= Budget,
           where = "next" => stopAt' = Budget /\ t <= Budget + MinRead,
           where = "count" => t <= Budget + 2 * MinRead
    PROVE  Paced'
<1>1. t \in Nat /\ since' \in Nat /\ MinRead \in Nat /\ ReadTimeout \in Nat
    BY SubmitAssumption DEF Paced
<1>2. ASSUME NEW a \in Int, NEW b \in Int PROVE Least(a, b) \in {a, b} /\ Most(a, b) \in {a, b} /\ Most(a, b) >= b
    BY DEF Least, Most
<1>3. ReadCap' \in Nat
    <2> DEFINE left == stopAt' - since'
    <2>1. left \in Int
        BY <1>1
    <2>2. ReadCap' = Least(Most(left, MinRead), ReadTimeout)
        BY DEF ReadCap
    <2> HIDE DEF left
    <2>3. Most(left, MinRead) \in Nat
        BY <1>1, <1>2, <2>1
    <2> QED BY <1>1, <1>2, <2>2, <2>3
<1>4. TryAgainDelay \in Nat /\ PollInterval \in Nat /\ CountTimeout \in Nat
    BY SubmitAssumption
<1>5. since' <= t' /\ t' <= since' + ReadCap'
    <2>1. since' <= t' /\ \A c \in Nat : t' <= since' + c
        BY <1>1
    <2> QED BY <1>3, <2>1, Zenon
<1>6. /\ pc' = "send" => since' + ReadTimeout <= Budget /\ t' <= since' + ReadTimeout
      /\ pc' = "busy" => since' + TryAgainDelay + ReadTimeout <= Budget /\ t' <= since' + TryAgainDelay
      /\ pc' = "pause" => since' + PollInterval < stopAt' /\ stopAt' <= Budget /\ t' <= since' + PollInterval
      /\ pc' = "count" => since' <= Budget + 2 * MinRead /\ t' <= since' + CountTimeout
    BY <1>1, <1>4
<1>7. /\ pc' = "poll" => since' <= stopAt' /\ stopAt' <= Budget
      /\ pc' = "next" => stopAt' = Budget /\ since' <= Budget + MinRead
    BY <1>1
<1> QED BY <1>1, <1>5, <1>6, <1>7 DEF Paced

\* The call is over.
LEMMA AnswerPaced ==
    ASSUME Fitting, Paced, pc # "idle", NEW a, AnswerWith(a)
    PROVE  Paced'
<1>1. t <= Budget + ReadTimeout /\ t \in Nat
    BY EndsOfAwaits DEF Paced
<1> QED BY <1>1 DEF AnswerWith, Paced

LEMMA VerdictPaced ==
    ASSUME Fitting, Paced, pc \in {"prior", "poll", "next"}, Verdict
    PROVE  Paced'
<1>1. t <= Budget + 2 * MinRead
    BY EndsOfAwaits
<1>2. stopAt \in Nat
    BY DEF Paced
<1> QED BY <1>1, <1>2, AnswerPaced, AwaitPaced DEF Verdict, Await

LEMMA PollUntilPaced ==
    ASSUME Paced, NEW until \in Nat, NEW otherwise, PollUntil(until, otherwise), t <= until, until <= Budget
    PROVE  Paced'
BY AwaitPaced DEF PollUntil

LEMMA SettlePaced ==
    ASSUME Fitting, Paced, pc = "send", NEW otherwise, SettleByHash(otherwise)
    PROVE  Paced'
<1>1. t <= Budget /\ t \in Nat
    BY EndsOfAwaits DEF Paced
<1>2. /\ Least(Budget, t + SettleWindow) \in Nat
      /\ t <= Least(Budget, t + SettleWindow) /\ Least(Budget, t + SettleWindow) <= Budget
    BY <1>1, SubmitAssumption DEF Least
<1> QED BY <1>2, PollUntilPaced DEF SettleByHash

LEMMA SendsPaced ==
    ASSUME Fitting, Paced, SendThrown \/ SendBusy \/ SendRefused \/ SendStale \/ SendTaken
    PROVE  Paced'
<1>1. pc = "send"
    BY DEF SendThrown, SendBusy, SendRefused, SendStale, SendTaken
<1>2. CASE SendThrown \/ SendStale
    BY <1>1, <1>2, SettlePaced DEF SendThrown, SendStale
<1>3. CASE SendBusy
    <2>1. CASE RetryFits(tries + 1)
        BY <1>3, <2>1, AwaitPaced DEF SendBusy, RetryFits, Await, Paced
    <2>2. CASE ~RetryFits(tries + 1)
        BY <1>1, <1>3, <2>2, SettlePaced DEF SendBusy
    <2> QED BY <2>1, <2>2
<1>4. CASE SendRefused
    BY <1>1, <1>4, AnswerPaced DEF SendRefused
<1>5. CASE SendTaken
    <2>1. t <= Budget
        BY <1>1, EndsOfAwaits
    <2> QED BY <1>5, <2>1, PollUntilPaced, SubmitAssumption DEF SendTaken
<1> QED BY <1>2, <1>3, <1>4, <1>5

LEMMA PollGoesOnPaced ==
    ASSUME Fitting, Paced, pc = "poll", PollGoesOn
    PROVE  Paced'
<1>1. t <= Budget + MinRead /\ t \in Nat /\ stopAt \in Nat /\ stopAt <= Budget
    BY EndsOfAwaits DEF Paced
<1>2. CASE t + PollInterval >= stopAt
    <2>1. CASE \E a : AnswerWith(a)
        BY <2>1, AnswerPaced
    <2>2. CASE pc' = "next" /\ since' = t /\ stopAt' = Budget /\ t' = t
        BY <1>1, <2>2, AwaitPaced, SubmitAssumption
    <2> QED BY <1>2, <2>1, <2>2 DEF PollGoesOn, PollEnds
<1>3. CASE ~(t + PollInterval >= stopAt)
    BY <1>1, <1>3, AwaitPaced, SubmitAssumption DEF PollGoesOn, Await
<1> QED BY <1>2, <1>3

LEMMA ReadsPaced ==
    ASSUME Fitting, Paced, PriorAnswers \/ PriorFails \/ PollAnswers \/ PollFails \/ NextAnswers \/ NextFails
    PROVE  Paced'
<1>1. CASE PriorAnswers
    <2>1. CASE Verdict
        BY <1>1, <2>1, VerdictPaced DEF PriorAnswers
    <2>2. CASE Await("send") /\ t' = t /\ stopAt' = stopAt
        <3>1. t + ReadTimeout <= Budget /\ stopAt \in Nat
            BY <1>1, SubmitAssumption DEF PriorAnswers, Paced, Fitting
        <3> QED BY <2>2, <3>1, AwaitPaced DEF Await
    <2> QED BY <1>1, <2>1, <2>2 DEF PriorAnswers
<1>2. CASE PriorFails \/ NextFails
    BY <1>2, AnswerPaced DEF PriorFails, NextFails
<1>3. CASE PollAnswers \/ PollFails
    BY <1>3, VerdictPaced, PollGoesOnPaced DEF PollAnswers, PollFails
<1>4. CASE NextAnswers
    BY <1>4, VerdictPaced, AnswerPaced DEF NextAnswers
<1> QED BY <1>1, <1>2, <1>3, <1>4

\* The clock stops at the end of every await.
LEMMA TickPaced == ASSUME Paced, Tick PROVE Paced'
<1>1. UNCHANGED <<pc, since, stopAt>>
    BY DEF Tick
<1>2. CASE pc = "idle"
    BY <1>1, <1>2 DEF Tick, Paced
<1>3. CASE pc # "idle"
    <2>1. t' = t + 1 /\ t < since + Limit /\ t \in Nat /\ since \in Nat
        BY <1>3 DEF Tick, Paced
    <2>2. ReadCap' = ReadCap /\ ReadCap \in Nat
        BY <1>1, SubmitAssumption DEF ReadCap, Least, Most, Paced
    <2>3. /\ Limit \in Nat
          /\ pc = "prior" => Limit <= PriorTimeout
          /\ pc = "send" => Limit = ReadTimeout
          /\ pc = "busy" => Limit = TryAgainDelay
          /\ pc \in {"poll", "next"} => Limit <= ReadCap
          /\ pc = "pause" => Limit = PollInterval
          /\ pc = "count" => Limit = CountTimeout
        BY <1>3, <2>2, SubmitAssumption DEF Limit, BeforeDeadline, Least, Most, Paced
    <2> QED BY <1>1, <1>3, <2>1, <2>2, <2>3, SubmitAssumption DEF Paced
<1> QED BY <1>2, <1>3

LEMMA PacedKept == Fitting /\ Paced /\ [Next]_vars => Paced'
<1> SUFFICES ASSUME Fitting, Paced, [Next]_vars PROVE Paced'
    OBVIOUS
<1>1. CASE Land \/ UNCHANGED vars
    <2>1. UNCHANGED <<t, pc, since, stopAt>>
        BY <1>1 DEF Land, vars
    <2>2. ReadCap' = ReadCap
        BY <2>1 DEF ReadCap
    <2> QED BY <2>1, <2>2 DEF Paced
<1>2. CASE Call
    BY <1>2, SubmitAssumption DEF Call, Paced
<1>3. CASE SendAgain
    BY <1>3, AwaitPaced, SubmitAssumption DEF SendAgain, Await, Paced
<1>4. CASE PollAgain
    BY <1>4, AwaitPaced, SubmitAssumption DEF PollAgain, Await, Paced
<1>5. CASE Counted
    BY <1>5, AnswerPaced DEF Counted
<1> QED BY <1>1, <1>2, <1>3, <1>4, <1>5, TickPaced, SendsPaced, ReadsPaced DEF Next

\* The answer comes within the budget and one read, which is what the client that waits
\* for it allows, however many retries and reads there are on the way.
THEOREM AnswerComesInTime ==
    ASSUME Fitting
    PROVE  Spec => []AnswersInTime
<1>1. Paced => AnswersInTime
    BY EndsOfAwaits DEF Paced, AnswersInTime
<1>2. Paced /\ [Next]_vars => Paced'
    BY PacedKept
<1> QED BY <1>1, <1>2, PacedStarts, PTL DEF Spec

-----------------------------------------------------------------------------
(***************************************************************************)
(* What is confirmed is not refused.                                       *)
(***************************************************************************)

\* Nodes show a ledger before the last read by hash of a settle window, and there is a
\* second provider to look at.
Settles ==
    /\ HasNext
    /\ Lag + PollInterval <= SettleWindow
    /\ Lag + PollInterval <= Budget

\* Of an envelope that had landed when the call began: the clock shows how long ago that
\* was, at the least; reads go on until every node shows it, and the last look finds it.
Shown ==
    /\ t \in Nat /\ age \in Nat /\ stopAt \in Nat
    /\ landed => fate = "success"
    /\ landed /\ pc # "idle" => age >= t \/ age >= Lag
    /\ pc \in {"poll", "pause"} => stopAt >= Lag + PollInterval
    /\ landed /\ pc = "next" => found = "success"
    /\ landed /\ answer = "refused" => unread

LEMMA ShownStarts == Init => Shown
BY DEF Init, Shown

\* Nothing is left to find out of an envelope that landed long enough ago.
LEMMA SeenInTime == ASSUME fate = "success", age \in Nat, age >= Lag PROVE Seen = {"success"}
<1>1. {n \in {"none"} : fate \notin Final \/ age < Lag} = {}
    BY SubmitAssumption DEF Final
<1> QED BY <1>1 DEF Seen, Final

\* What a step may do to what Shown speaks of, a read that begins and the call's end aside.
LEMMA GoesOnShown ==
    ASSUME Shown, UNCHANGED <<fate, age, t, landed, unread>>, pc # "idle",
           answer' = answer, stopAt' \in Nat,
           pc' \in {"poll", "pause"} => stopAt' >= Lag + PollInterval,
           pc' # "next"
    PROVE  Shown'
BY DEF Shown

LEMMA AnswerShown ==
    ASSUME Shown, NEW a, AnswerWith(a), UNCHANGED <<fate, age, landed>>,
           unread => unread', landed /\ a = "refused" => unread'
    PROVE  Shown'
BY DEF Shown, AnswerWith

LEMMA VerdictShown ==
    ASSUME Outcome, Shown, found # "none", Verdict, UNCHANGED <<fate, age, landed, unread>>, pc # "idle"
    PROVE  Shown'
<1>1. landed => found # "failed"
    BY DEF Outcome, Shown
<1>2. CASE found = "failed"
    BY <1>1, <1>2, AnswerShown DEF Verdict
<1>3. CASE found # "failed"
    BY <1>3, GoesOnShown DEF Verdict, Await, Shown
<1> QED BY <1>2, <1>3

LEMMA PollUntilShown ==
    ASSUME Shown, pc # "idle", NEW until \in Nat, until >= Lag + PollInterval, NEW otherwise,
           PollUntil(until, otherwise), UNCHANGED age, landed => fate' = fate
    PROVE  Shown'
BY DEF Shown, PollUntil

LEMMA SettleShown ==
    ASSUME Settles, Shown, pc # "idle", NEW otherwise, SettleByHash(otherwise),
           UNCHANGED age, landed => fate' = fate
    PROVE  Shown'
<1>1. /\ Least(Budget, t + SettleWindow) \in Nat
      /\ Least(Budget, t + SettleWindow) >= Lag + PollInterval
    BY SubmitAssumption DEF Settles, Shown, Least
<1> QED BY <1>1, PollUntilShown DEF SettleByHash

LEMMA SendsShown ==
    ASSUME Settles, Shown, SendThrown \/ SendBusy \/ SendRefused \/ SendStale \/ SendTaken
    PROVE  Shown'
<1>1. CASE SendThrown
    <2>1. landed => fate' = fate
        BY <1>1 DEF SendThrown, Shown
    <2> QED BY <1>1, <2>1, SettleShown DEF SendThrown
<1>2. CASE SendBusy
    <2>1. CASE RetryFits(tries + 1)
        BY <1>2, <2>1, GoesOnShown DEF SendBusy, Await, networkVars, Shown
    <2>2. CASE ~RetryFits(tries + 1)
        BY <1>2, <2>2, SettleShown DEF SendBusy, networkVars
    <2> QED BY <2>1, <2>2
<1>3. CASE SendRefused
    <2>1. ~landed
        BY <1>3 DEF SendRefused, Shown, Final
    <2> QED BY <1>3, <2>1, AnswerShown DEF SendRefused, networkVars
<1>4. CASE SendStale
    BY <1>4, SettleShown DEF SendStale, networkVars
<1>5. CASE SendTaken
    <2>1. Budget >= Lag + PollInterval /\ Budget \in Nat
        BY SubmitAssumption DEF Settles
    <2>2. landed => fate' = fate
        BY <1>5 DEF SendTaken, Shown
    <2> QED BY <1>5, <2>1, <2>2, PollUntilShown DEF SendTaken
<1> QED BY <1>1, <1>2, <1>3, <1>4, <1>5

\* The last read of a provider comes late enough for every node to show what landed.
LEMMA PollGoesOnShown ==
    ASSUME Settles, Shown, pc = "poll", PollGoesOn, UNCHANGED <<fate, age, landed, unread>>
    PROVE  Shown'
<1>1. CASE t + PollInterval >= stopAt
    <2>1. landed => age >= Lag
        BY <1>1, SubmitAssumption DEF Shown
    <2>2. CASE noVerdict = "pending" /\ AnswerWith("pending")
        BY <2>2, AnswerShown
    <2>3. CASE pc' = "next" /\ stopAt' = Budget /\ found' \in Seen /\ UNCHANGED <<t, answer>>
        <3>1. landed => found' = "success"
            BY <2>1, <2>3, SeenInTime DEF Shown
        <3> QED BY <2>3, <3>1, SubmitAssumption DEF Shown
    <2> QED BY <1>1, <2>2, <2>3 DEF PollGoesOn, PollEnds, Settles
<1>2. CASE ~(t + PollInterval >= stopAt)
    BY <1>2, GoesOnShown DEF PollGoesOn, Await, Shown
<1> QED BY <1>1, <1>2

LEMMA ReadsShown ==
    ASSUME Settles, Outcome, Shown,
           PriorAnswers \/ PriorFails \/ PollAnswers \/ PollFails \/ NextAnswers \/ NextFails
    PROVE  Shown'
<1>1. CASE PriorAnswers
    <2>1. pc = "prior" /\ UNCHANGED <<fate, age, landed, unread>>
        BY <1>1 DEF PriorAnswers, networkVars
    <2>2. CASE found # "none" /\ Verdict
        BY <2>1, <2>2, VerdictShown
    <2>3. CASE Await("send") /\ UNCHANGED <<t, stopAt, answer>>
        BY <2>1, <2>3, GoesOnShown DEF Await, Shown
    <2> QED BY <1>1, <2>2, <2>3 DEF PriorAnswers
<1>2. CASE PriorFails
    BY <1>2, AnswerShown DEF PriorFails, networkVars
<1>3. CASE PollAnswers \/ PollFails
    <2>1. pc = "poll" /\ UNCHANGED <<fate, age, landed, unread>>
        BY <1>3 DEF PollAnswers, PollFails, networkVars
    <2> QED BY <1>3, <2>1, VerdictShown, PollGoesOnShown DEF PollAnswers, PollFails
<1>4. CASE NextAnswers
    <2>1. pc = "next" /\ UNCHANGED <<fate, age, landed, unread>>
        BY <1>4 DEF NextAnswers, networkVars
    <2>2. CASE found # "none" /\ Verdict
        BY <2>1, <2>2, VerdictShown
    <2>3. CASE found = "none" /\ AnswerWith(noVerdict)
        <3>1. ~landed
            BY <2>1, <2>3 DEF Shown
        <3> QED BY <2>1, <2>3, <3>1, AnswerShown
    <2> QED BY <1>4, <2>2, <2>3 DEF NextAnswers
<1>5. CASE NextFails
    BY <1>5, AnswerShown DEF NextFails, networkVars
<1> QED BY <1>1, <1>2, <1>3, <1>4, <1>5

LEMMA TickShown == ASSUME Shown, Tick PROVE Shown'
<1>1. UNCHANGED <<fate, pc, stopAt, found, answer, landed, unread>> /\ t \in Nat /\ age \in Nat
    BY DEF Tick, Shown
<1>2. t' \in Nat /\ age' \in Nat
    BY <1>1, SubmitAssumption DEF Tick, Least
<1>3. ASSUME landed, pc # "idle" PROVE age' >= t' \/ age' >= Lag
    <2>1. t' = t + 1 /\ age' = Least(age + 1, Lag) /\ (age >= t \/ age >= Lag)
        BY <1>3 DEF Tick, Shown, Final
    <2> QED BY <1>1, <2>1, SubmitAssumption DEF Least
<1> QED BY <1>1, <1>2, <1>3 DEF Shown

LEMMA ShownKept == Settles /\ Outcome /\ Shown /\ [Next]_vars => Shown'
<1> SUFFICES ASSUME Settles, Outcome, Shown, [Next]_vars PROVE Shown'
    OBVIOUS
<1>1. CASE Land
    BY <1>1 DEF Land, Shown
<1>2. CASE Call
    <2>1. /\ age' \in Nat /\ stopAt' \in Nat /\ t' = 0 /\ age' >= t'
          /\ pc' = "prior" /\ answer' = "none" /\ UNCHANGED fate
        BY <1>2 DEF Call, Shown, networkVars
    <2>2. landed' => fate' = "success"
        BY <1>2, <2>1 DEF Call
    <2> QED BY <2>1, <2>2 DEF Shown
<1>3. CASE SendAgain
    BY <1>3, GoesOnShown DEF SendAgain, Await, networkVars, Shown
<1>4. CASE PollAgain
    BY <1>4, GoesOnShown DEF PollAgain, Await, networkVars, Shown
<1>5. CASE Counted
    BY <1>5, AnswerShown DEF Counted, networkVars
<1>6. CASE UNCHANGED vars
    BY <1>6 DEF vars, Shown
<1> QED BY <1>1, <1>2, <1>3, <1>4, <1>5, <1>6, TickShown, SendsShown, ReadsShown DEF Next

\* A confirmed transaction that is submitted again is refused only after a read that
\* failed, for every budget and lag that leave a node time to show it, and wherever
\* reads fail before the last.
THEOREM ConfirmedIsNotRefused ==
    ASSUME Settles
    PROVE  Spec => []ConfirmedRefusedOnlyUnread
<1>1. Shown => ConfirmedRefusedOnlyUnread
    BY DEF Shown, ConfirmedRefusedOnlyUnread
<1>2. Outcome /\ Shown /\ [Next]_vars => Outcome' /\ Shown'
    BY OutcomeKept, ShownKept
<1> QED BY <1>1, <1>2, OutcomeStarts, ShownStarts, PTL DEF Spec
=============================================================================
