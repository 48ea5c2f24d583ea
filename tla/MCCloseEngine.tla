--------------------------- MODULE MCCloseEngine ---------------------------
(***************************************************************************)
(* Small instances of CloseEngine: one tab, one tab whose close can be     *)
(* left while its run goes on, and two tabs.                               *)
(***************************************************************************)
EXTENDS CloseSafety, TLC

CONSTANTS r1, r2, t1, t2, s1, s2

OneTabOf == r1 :> t1
OneSessionOf == r1 :> s1

SameTabOf == (r1 :> t1) @@ (r2 :> t1)
TwoTabsOf == (r1 :> t1) @@ (r2 :> t2)
TwoSessionsOf == (r1 :> s1) @@ (r2 :> s2)
SharedSessionOf == (r1 :> s1) @@ (r2 :> s1)

\* Exchanging the two runs with their tabs, or with their saved closes, changes
\* nothing.
ExchangeTabs ==
    {(r1 :> r1), (r1 :> r2) @@ (r2 :> r1) @@ (t1 :> t2) @@ (t2 :> t1)}
ExchangeCloses ==
    {(r1 :> r1), (r1 :> r2) @@ (r2 :> r1) @@ (s1 :> s2) @@ (s2 :> s1)}
=============================================================================
