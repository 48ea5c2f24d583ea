--------------------------- MODULE MCRoundsReview ---------------------------
(***************************************************************************)
(* The pages up to the first transaction, and the rounds of a close: they  *)
(* share no state, and a behaviour exercises one of them, in focus, and    *)
(* leaves the other alone.                                                 *)
(***************************************************************************)
EXTENDS MCRounds, ReviewSafety

VARIABLE focus

RoundsReviewInit ==
    /\ focus \in {"rounds", "review"}
    /\ Init /\ ReviewInit
    /\ focus = "review" => world = World({}, 0, 0) /\ payout = "direct" /\ planned

RoundSteps == focus = "rounds" /\ Next /\ UNCHANGED <<focus, reviewVars>>

\* The account's own transactions are made once a plan of it is reviewed, and in a tab that
\* was not loaded again.
LateSpending ==
    \A a \in Accounts : Sequence(version'[a]) # Sequence(version[a]) =>
        page \in {"review", "execute"} /\ reloads = 0

\* The first transaction is built, or the bound on visits ends the behaviour.
ReviewOver == (built # Nothing \/ visits = MaxVisits) /\ UNCHANGED reviewVars

ReviewSteps ==
    focus = "review" /\ ((ReviewNext /\ LateSpending) \/ ReviewOver) /\ UNCHANGED <<focus, vars>>

RoundsReviewSpec == RoundsReviewInit /\ [][RoundSteps \/ ReviewSteps]_<<focus, vars, reviewVars>>
=============================================================================
