---------------------------- MODULE MCComponents ----------------------------
(***************************************************************************)
(* The components that share no state with each other: a behaviour         *)
(* exercises one of them, in focus, and leaves the others alone.           *)
(***************************************************************************)
EXTENDS ServiceSafety, ReadingSafety, SubmitSafety

VARIABLE focus

Services ==
    {"limiter", "budget", "stats", "failover", "flush", "snapshot", "sponsorships", "submit"}

\* The smallest initial states that still hold every case of a reading.
SmallSnapshot ==
    /\ history[1].lines = Lines \ {12}
    /\ history[1].offers \subseteq {1} /\ history[1].claims = {}
    /\ focus # "snapshot" => history[1].offers = {} /\ sources = 1 /\ naming = {}

ComponentsInit ==
    /\ focus \in Services
    /\ LimiterInit /\ BudgetInit /\ StatsInit /\ FlushInit /\ FailoverInit
    /\ focus # "failover" => providers = 1
    /\ SnapshotInit /\ SmallSnapshot
    /\ SponsorshipInit
    /\ focus # "sponsorships" => ever = {}
    /\ Init

Only(service, Step) == focus = service /\ Step /\ UNCHANGED focus

LimiterSteps == Only("limiter", LimiterNext) /\ UNCHANGED <<budgetVars, statsVars, failoverVars, flushVars, snapshotVars, sponsorshipVars, vars>>
BudgetSteps == Only("budget", BudgetNext) /\ UNCHANGED <<limiterVars, statsVars, failoverVars, flushVars, snapshotVars, sponsorshipVars, vars>>
StatsSteps == Only("stats", StatsNext) /\ UNCHANGED <<limiterVars, budgetVars, failoverVars, flushVars, snapshotVars, sponsorshipVars, vars>>
FailoverSteps == Only("failover", FailoverNext) /\ UNCHANGED <<limiterVars, budgetVars, statsVars, flushVars, snapshotVars, sponsorshipVars, vars>>
FlushSteps == Only("flush", FlushNext) /\ UNCHANGED <<limiterVars, budgetVars, statsVars, failoverVars, snapshotVars, sponsorshipVars, vars>>
SnapshotSteps == Only("snapshot", SnapshotNext) /\ UNCHANGED <<limiterVars, budgetVars, statsVars, failoverVars, flushVars, sponsorshipVars, vars>>
SponsorshipSteps == Only("sponsorships", SponsorshipNext) /\ UNCHANGED <<limiterVars, budgetVars, statsVars, failoverVars, flushVars, snapshotVars, vars>>
SubmitSteps == Only("submit", Next) /\ UNCHANGED <<limiterVars, budgetVars, statsVars, failoverVars, flushVars, snapshotVars, sponsorshipVars>>

componentsVars ==
    <<focus, limiterVars, budgetVars, statsVars, failoverVars, flushVars, snapshotVars, sponsorshipVars,
      vars>>

ComponentsSpec ==
    /\ ComponentsInit
    /\ [][LimiterSteps \/ BudgetSteps \/ StatsSteps \/ FailoverSteps \/ FlushSteps
          \/ SnapshotSteps \/ SponsorshipSteps \/ SubmitSteps]_componentsVars

SourceOf == [i \in Inners |-> IF i = "i3" THEN "b" ELSE "a"]
SequenceOf == [i \in Inners |-> IF i = "i2" THEN 2 ELSE 1]
FeeOf == [i \in Inners |-> 1]

Owned == [e \in {"a1", "a2", "b2"} |-> IF e = "b2" THEN "b" ELSE "a"]
ReserveOf == [e \in Entries |-> IF e \in {"a1", "c1", "b2"} THEN 2 ELSE 1]
=============================================================================
