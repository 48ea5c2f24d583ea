---------------------------- MODULE RoundsProofs ----------------------------
(***************************************************************************)
(* What CloseRounds keeps for every account, market and set of answers:     *)
(* what leaves the account leaves as it was answered, a balance given to an *)
(* intermediary is handed on, a close that ended left nothing behind, and a *)
(* claim is in time.  First the operators of the ledger and of the builder  *)
(* (a sequence in order, a transaction operation by operation, each round), *)
(* then the invariant RoundsInv, one lemma per action, and the theorems.    *)
(***************************************************************************)
EXTENDS RoundsSafety, SequenceTheorems, FiniteSetTheorems, WellFoundedInduction, TLAPS

\* A sequence, whatever its elements.
IsSeq(s) == s \in Seq(ToSet(s))

\* The least number of a set that has one.
LEMMA Least ==
  ASSUME NEW S, S \subseteq Nat, S # {} PROVE \E m \in S : \A n \in S : m <= n
<1> DEFINE Less == {ss \in Nat \X Nat : ss[1] < ss[2]}
<1>1. IsWellFoundedOn(Less, Nat)
  BY NatLessThanWellFounded DEF OpToRel
<1> HIDE DEF Less
<1>2. PICK m \in S : \A n \in S : ~(<<n, m>> \in Less)
  BY <1>1, WFMin
<1>3. ASSUME NEW n \in S PROVE m <= n
  <2>1. n \in Nat /\ m \in Nat /\ <<n, m>> \notin Less
    BY <1>2
  <2> QED BY <2>1 DEF Less
<1> QED BY <1>3

\* A sequence by its elements.
LEMMA SeqIs == ASSUME NEW s, IsSeq(s)
               PROVE /\ Len(s) \in Nat /\ DOMAIN s = 1..Len(s) /\ s = [i \in 1..Len(s) |-> s[i]]
                     /\ ToSet(s) = {s[i] : i \in 1..Len(s)}
BY DEF IsSeq, ToSet

\* A sequence over a set is one over its own elements.
LEMMA InSeq == ASSUME NEW S, NEW s \in Seq(S) PROVE IsSeq(s) /\ ToSet(s) \subseteq S
<1>1. s \in [1..Len(s) -> S] /\ Len(s) \in Nat
  OBVIOUS
<1>2. \A i \in 1..Len(s) : s[i] \in ToSet(s)
  BY <1>1 DEF ToSet
<1>3. s \in [1..Len(s) -> ToSet(s)]
  BY <1>1, <1>2
<1>4. s \in Seq(ToSet(s))
  BY <1>1, <1>3, SeqDef
<1>5. ToSet(s) \subseteq S
  BY <1>1 DEF ToSet
<1> QED BY <1>4, <1>5 DEF IsSeq

-----------------------------------------------------------------------------
Keeps(kept, all, S) ==
  kept = [i \in 0..Len(all) |->
            IF i = 0 THEN <<>> ELSE IF all[i] \in S THEN Append(kept[i - 1], all[i]) ELSE kept[i - 1]]

\* InOrder is a recursive function, known through the equation it is chosen by.
LEMMA InOrderIsKept ==
  ASSUME NEW all, NEW S PROVE InOrder(all, S) = (CHOOSE kept : Keeps(kept, all, S))[Len(all)]
BY DEF InOrder, Keeps

\* There is a function for that equation.
LEMMA KeptExists ==
  ASSUME NEW all, NEW S, Len(all) \in Nat PROVE \E kept : Keeps(kept, all, S)
<1> DEFINE step(b, i) == IF all[i] \in S THEN Append(b, all[i]) ELSE b
           upTo(f, n) == f = [i \in 0..n |-> IF i = 0 THEN <<>> ELSE step(f[i - 1], i)]
           bad == {n \in Nat : ~\E f : upTo(f, n)}
<1>1. ASSUME NEW n \in Nat, NEW f, upTo(f, n) PROVE \E g : upTo(g, n + 1)
  <2> DEFINE g == [i \in 0..(n + 1) |-> IF i = n + 1 THEN step(f[n], n + 1) ELSE f[i]]
  <2> HIDE DEF step
  <2>1. \A i \in 0..n : f[i] = IF i = 0 THEN <<>> ELSE step(f[i - 1], i)
    BY <1>1
  <2>2. ASSUME NEW i \in 0..(n + 1) PROVE g[i] = IF i = 0 THEN <<>> ELSE step(g[i - 1], i)
    <3>1. CASE i = n + 1
      <4>1. n + 1 # 0 /\ n \in 0..(n + 1) /\ n # n + 1 /\ (n + 1) - 1 = n
        OBVIOUS
      <4> QED BY <3>1, <4>1
    <3>2. CASE i # n + 1 /\ i # 0
      <4>1. i - 1 \in 0..(n + 1) /\ i - 1 # n + 1 /\ i \in 0..n
        BY <3>2
      <4> QED BY <2>1, <3>2, <4>1
    <3>3. CASE i = 0
      BY <2>1, <3>3
    <3> QED BY <3>1, <3>2, <3>3
  <2>3. g = [i \in 0..(n + 1) |-> g[i]]
    OBVIOUS
  <2> HIDE DEF g
  <2> QED BY <2>2, <2>3
<1>2. \E f : upTo(f, 0)
  <2> HIDE DEF step
  <2>1. upTo([i \in 0..0 |-> <<>>], 0)
    OBVIOUS
  <2> QED BY <2>1
<1> HIDE DEF upTo
<1>3. bad = {}
  <2> SUFFICES ASSUME bad # {} PROVE FALSE
    OBVIOUS
  <2>1. PICK m \in bad : \A n \in bad : m <= n
    BY Least
  <2>2. m # 0 /\ m \in Nat
    BY <1>2, <2>1
  <2>3. m - 1 \in Nat /\ m - 1 \notin bad /\ (m - 1) + 1 = m
    BY <2>1, <2>2
  <2>4. PICK f : upTo(f, m - 1)
    BY <2>3
  <2> QED BY <1>1, <2>1, <2>3, <2>4
<1>4. PICK f : upTo(f, Len(all))
  BY <1>3
<1> QED BY <1>4 DEF Keeps, upTo

\* What is kept of a sequence is a sequence of those of its members that are in the set.
LEMMA KeptIs ==
  ASSUME NEW all, NEW S, IsSeq(all)
  PROVE  IsSeq(InOrder(all, S)) /\ ToSet(InOrder(all, S)) = ToSet(all) \cap S
<1>1. /\ Len(all) \in Nat /\ DOMAIN all = 1..Len(all)
      /\ ToSet(all) = {all[j] : j \in 1..Len(all)}
  BY SeqIs
<1> DEFINE kept == CHOOSE k : Keeps(k, all, S)
           good(i) == kept[i] \in Seq({all[j] : j \in 1..i} \cap S) /\ ToSet(kept[i]) = {all[j] : j \in 1..i} \cap S
           bad == {i \in 0..Len(all) : ~good(i)}
<1>2. Keeps(kept, all, S)
  BY <1>1, KeptExists
<1> HIDE DEF kept
<1>3. \A i \in 0..Len(all) : kept[i] =
        IF i = 0 THEN <<>> ELSE IF all[i] \in S THEN Append(kept[i - 1], all[i]) ELSE kept[i - 1]
  BY <1>2 DEF Keeps
<1>4. good(0)
  <2>1. kept[0] = <<>>
    BY <1>1, <1>3
  <2> QED BY <2>1 DEF ToSet
<1>5. ASSUME NEW i \in 1..Len(all), good(i - 1) PROVE good(i)
  <2>0. i \in 0..Len(all) /\ i # 0
    BY <1>1
  <2>1. \A x : x \in {all[j] : j \in 1..i} <=> x = all[i] \/ x \in {all[j] : j \in 1..(i - 1)}
    BY <1>1
  <2>2. CASE all[i] \in S
    <3>1. kept[i] = Append(kept[i - 1], all[i])
      BY <1>3, <2>0, <2>2, Zenon
    <3> DEFINE b == kept[i - 1]
               T == {all[j] : j \in 1..i} \cap S
    <3>2. b \in Seq(T) /\ all[i] \in T
      <4>1. {all[j] : j \in 1..(i - 1)} \cap S \subseteq T
        BY <2>1
      <4>2. \A Q, R : Q \subseteq R => \A q \in Seq(Q) : q \in Seq(R)
        OBVIOUS
      <4>3. all[i] \in T
        BY <2>1, <2>2
      <4> QED BY <1>5, <4>1, <4>2, <4>3
    <3>3. ToSet(b) = {all[j] : j \in 1..(i - 1)} \cap S
      BY <1>5
    <3> HIDE DEF b, T
    <3>4. /\ Append(b, all[i]) \in Seq(T) /\ Len(Append(b, all[i])) = Len(b) + 1
          /\ \A j \in 1..Len(b) : Append(b, all[i])[j] = b[j]
          /\ Append(b, all[i])[Len(b) + 1] = all[i]
      BY <3>2, AppendProperties
    <3>5. DOMAIN b = 1..Len(b) /\ Len(b) \in Nat
      BY <3>2
    <3>6. DOMAIN Append(b, all[i]) = 1..(Len(b) + 1)
      BY <3>4
    <3>7. \A x : x \in ToSet(Append(b, all[i])) <=> x \in ToSet(b) \/ x = all[i]
      BY <3>4, <3>5, <3>6 DEF ToSet
    <3>8. ToSet(Append(b, all[i])) = T
      BY <2>1, <2>2, <3>3, <3>7 DEF T
    <3> QED BY <3>1, <3>4, <3>8 DEF b, T
  <2>3. CASE all[i] \notin S
    <3>1. kept[i] = kept[i - 1]
      BY <1>3, <2>0, <2>3, Zenon
    <3>2. {all[j] : j \in 1..i} \cap S = {all[j] : j \in 1..(i - 1)} \cap S
      BY <2>1, <2>3
    <3> QED BY <1>5, <3>1, <3>2
  <2> QED BY <2>2, <2>3
<1> HIDE DEF good
<1>6. bad = {}
  <2> SUFFICES ASSUME bad # {} PROVE FALSE
    OBVIOUS
  <2>0. bad \subseteq Nat
    BY <1>1
  <2>1. PICK m \in bad : \A n \in bad : m <= n
    <3> HIDE DEF bad
    <3> QED BY <2>0, Least
  <2>2. m \in 1..Len(all)
    BY <1>1, <1>4, <2>1
  <2>3. m - 1 \notin bad /\ m - 1 \in 0..Len(all)
    BY <1>1, <2>1, <2>2
  <2> QED BY <1>5, <2>1, <2>2, <2>3
<1>7. good(Len(all))
  BY <1>1, <1>6
<1>8. kept[Len(all)] \in Seq(ToSet(all) \cap S) /\ ToSet(kept[Len(all)]) = ToSet(all) \cap S
  BY <1>1, <1>7 DEF good
<1>9. InOrder(all, S) = kept[Len(all)]
  BY InOrderIsKept DEF kept
<1> QED BY <1>8, <1>9, InSeq

-----------------------------------------------------------------------------
Stepped(w, tx, before, i) ==
  IF before.ok /\ Can(before.w, tx.ops[i])
  THEN [ok |-> TRUE, w |-> Done(before.w, tx.ops[i])]
  ELSE [ok |-> FALSE, w |-> Charged(w, tx)]

Runs(run, w, tx) ==
  run = [i \in 0..Len(tx.ops) |->
           IF i = 0 THEN [ok |-> TRUE, w |-> Charged(w, tx)] ELSE Stepped(w, tx, run[i - 1], i)]

\* Applied, the same way: the function chosen by its equation.
LEMMA AppliedIsRun ==
  ASSUME NEW w, NEW tx PROVE Applied(w, tx) = (CHOOSE run : Runs(run, w, tx))[Len(tx.ops)]
BY DEF Applied, Runs, Stepped

\* There is a run of every transaction.
LEMMA RunExists ==
  ASSUME NEW w, NEW tx, Len(tx.ops) \in Nat PROVE \E run : Runs(run, w, tx)
<1> DEFINE first == [ok |-> TRUE, w |-> Charged(w, tx)]
           upTo(f, n) == f = [i \in 0..n |-> IF i = 0 THEN first ELSE Stepped(w, tx, f[i - 1], i)]
           bad == {n \in Nat : ~\E f : upTo(f, n)}
<1> HIDE DEF first
<1>1. ASSUME NEW n \in Nat, NEW f, upTo(f, n) PROVE \E g : upTo(g, n + 1)
  <2> DEFINE g == [i \in 0..(n + 1) |-> IF i = n + 1 THEN Stepped(w, tx, f[n], n + 1) ELSE f[i]]
  <2>1. \A i \in 0..n : f[i] = IF i = 0 THEN first ELSE Stepped(w, tx, f[i - 1], i)
    BY <1>1
  <2>2. ASSUME NEW i \in 0..(n + 1) PROVE g[i] = IF i = 0 THEN first ELSE Stepped(w, tx, g[i - 1], i)
    <3>1. CASE i = n + 1
      <4>1. n + 1 # 0 /\ n \in 0..(n + 1) /\ n # n + 1 /\ (n + 1) - 1 = n
        OBVIOUS
      <4> QED BY <3>1, <4>1
    <3>2. CASE i # n + 1 /\ i # 0
      <4>1. i - 1 \in 0..(n + 1) /\ i - 1 # n + 1 /\ i \in 0..n
        BY <3>2
      <4> QED BY <2>1, <3>2, <4>1
    <3>3. CASE i = 0
      BY <2>1, <3>3
    <3> QED BY <3>1, <3>2, <3>3
  <2>3. g = [i \in 0..(n + 1) |-> g[i]]
    OBVIOUS
  <2> HIDE DEF g
  <2> QED BY <2>2, <2>3
<1>2. \E f : upTo(f, 0)
  <2>1. upTo([i \in 0..0 |-> first], 0)
    OBVIOUS
  <2> QED BY <2>1
<1> HIDE DEF upTo
<1>3. bad = {}
  <2> SUFFICES ASSUME bad # {} PROVE FALSE
    OBVIOUS
  <2>1. PICK m \in bad : \A n \in bad : m <= n
    BY Least
  <2>2. m # 0 /\ m \in Nat
    BY <1>2, <2>1
  <2>3. m - 1 \in Nat /\ m - 1 \notin bad /\ (m - 1) + 1 = m
    BY <2>1, <2>2
  <2>4. PICK f : upTo(f, m - 1)
    BY <2>3
  <2> QED BY <1>1, <2>1, <2>3, <2>4
<1>4. PICK f : upTo(f, Len(tx.ops))
  BY <1>3
<1> QED BY <1>4 DEF Runs, upTo, first

\* A transaction applies one operation after the other, up to the first that cannot.
LEMMA AppliedInSteps ==
  ASSUME NEW w, NEW tx, Len(tx.ops) \in Nat
  PROVE  \E run : /\ run[0] = [ok |-> TRUE, w |-> Charged(w, tx)]
                  /\ \A i \in 1..Len(tx.ops) : run[i] = Stepped(w, tx, run[i - 1], i)
                  /\ Applied(w, tx) = run[Len(tx.ops)]
<1> DEFINE run == CHOOSE r : Runs(r, w, tx)
<1>1. Runs(run, w, tx)
  BY RunExists
<1>2. Applied(w, tx) = run[Len(tx.ops)]
  BY AppliedIsRun
<1> HIDE DEF run
<1>3. \A i \in 0..Len(tx.ops) :
        run[i] = IF i = 0 THEN [ok |-> TRUE, w |-> Charged(w, tx)] ELSE Stepped(w, tx, run[i - 1], i)
  BY <1>1 DEF Runs
<1>4. 0 \in 0..Len(tx.ops) /\ \A i \in 1..Len(tx.ops) : i \in 0..Len(tx.ops) /\ i # 0
  OBVIOUS
<1>5. /\ run[0] = [ok |-> TRUE, w |-> Charged(w, tx)]
      /\ \A i \in 1..Len(tx.ops) : run[i] = Stepped(w, tx, run[i - 1], i)
  BY <1>3, <1>4, Zenon
<1> QED BY <1>2, <1>5

-----------------------------------------------------------------------------
AccountOK(k) ==
  /\ DOMAIN k = {"seq", "xlm", "master", "high", "extra", "data", "offers", "sponsors", "tokens", "lines",
                 "exits", "claims", "merged"}
  /\ k.lines \in [AssetSet -> [held : BOOLEAN, balance : Int, auth : {"authorized", "unauthorized"}]]
  /\ k.tokens \in [TokenSet -> Int]
  /\ DOMAIN k.exits = ToSet(Exits)

WorldOK(w) ==
  /\ DOMAIN w = {"acct", "rate", "room", "ownerCanPay", "destination", "now", "coming", "left", "memo"}
  /\ AccountOK(w.acct)
  /\ w.rate \in [Things -> Int]
  /\ w.now \in Int

OpNames == {"removeSigner", "setThresholds", "revoke", "removeData", "cancelOffer", "addLine", "claim", "convert",
            "pay", "removeLine", "merge", "forward", "exit", "sendToken", "swapToken"}

OpOK(o) ==
  /\ o.op \in OpNames
  /\ o.op \in {"convert", "pay", "sendToken", "swapToken"} =>
       o.amount \in Int /\ o.min \in Int /\ o.what \in Things

\* What an operation may do with the answers that were given.
OpFits(o) ==
  /\ o.by = "stranger" => o.op = "forward"
  /\ o.op \in {"convert", "swapToken"} =>
       /\ answers.asset[o.what] \in {"convert"} \cup IF planned THEN {} ELSE {"none"}
       /\ o.min >= answers.floor[o.what] /\ o.to = "account"
  /\ o.op \in {"pay", "sendToken"} =>
       \/ answers.asset[o.what] = "transfer" /\ o.to = "chosen"
       \/ answers.asset[o.what] = "issuer" /\ o.to = "issuer"
  /\ o.op = "merge" => (payout = "direct" => o.to = "destination")
  /\ o.op = "forward" => payout = "mediator" /\ o.to = "destination"

MoveFits(m) ==
  CASE m.how = "convert" -> /\ answers.asset[m.what] \in {"convert"} \cup IF planned THEN {} ELSE {"none"}
                            /\ m.xlm >= answers.floor[m.what] /\ m.to = "account"
    [] m.how = "pay"     -> \/ answers.asset[m.what] = "transfer" /\ m.to = "chosen"
                            \/ answers.asset[m.what] = "issuer" /\ m.to = "issuer"
    [] m.how = "merge"   -> payout = "direct" => m.to = "destination"
    [] m.how = "forward" -> payout = "mediator" /\ m.to = "destination"
    [] OTHER             -> FALSE

\* The property of the runs, move by move.
LEMMA FundsAreMoves == FundsGoAsAnswered <=> \A m \in world.left : MoveFits(m)
BY DEF FundsGoAsAnswered, MoveFits

\* A line that is credited, debited, opened or removed is still a line.
LEMMA LineBalanceOK ==
  ASSUME NEW lines \in [AssetSet -> [held : BOOLEAN, balance : Int, auth : {"authorized", "unauthorized"}]], NEW a, NEW n \in Int
  PROVE  /\ [lines EXCEPT ![a].balance = @ + n] \in [AssetSet -> [held : BOOLEAN, balance : Int, auth : {"authorized", "unauthorized"}]]
         /\ [lines EXCEPT ![a].balance = @ - n] \in [AssetSet -> [held : BOOLEAN, balance : Int, auth : {"authorized", "unauthorized"}]]
         /\ [lines EXCEPT ![a].held = TRUE] \in [AssetSet -> [held : BOOLEAN, balance : Int, auth : {"authorized", "unauthorized"}]]
         /\ [lines EXCEPT ![a] = NoLine] \in [AssetSet -> [held : BOOLEAN, balance : Int, auth : {"authorized", "unauthorized"}]]
<1> DEFINE Line == [held : BOOLEAN, balance : Int, auth : {"authorized", "unauthorized"}]
<1>1. ASSUME a \in AssetSet
      PROVE  /\ [lines[a] EXCEPT !.balance = @ + n] \in Line /\ [lines[a] EXCEPT !.balance = @ - n] \in Line
             /\ [lines[a] EXCEPT !.held = TRUE] \in Line
  <2>1. PICK h \in BOOLEAN, b \in Int, u \in {"authorized", "unauthorized"} :
               lines[a] = [held |-> h, balance |-> b, auth |-> u]
    BY <1>1
  <2>2. b + n \in Int /\ b - n \in Int
    OBVIOUS
  <2> DEFINE l == [held |-> h, balance |-> b, auth |-> u]
  <2>3. [l EXCEPT !.balance = b + n] \in Line
    BY <2>2
  <2>4. [l EXCEPT !.balance = b - n] \in Line
    BY <2>2
  <2>5. [l EXCEPT !.held = TRUE] \in Line
    OBVIOUS
  <2>6. lines[a] = l /\ l.balance = b
    BY <2>1
  <2> HIDE DEF l, Line
  <2> QED BY <2>3, <2>4, <2>5, <2>6
<1>2. NoLine \in Line
  BY DEF NoLine
<1> HIDE DEF Line
<1>3. ASSUME NEW l \in Line PROVE [lines EXCEPT ![a] = l] \in [AssetSet -> Line]
  BY DEF Line
<1>4. ASSUME NEW l, a \in AssetSet => l \in Line PROVE [lines EXCEPT ![a] = l] \in [AssetSet -> Line]
  <2>1. CASE a \in AssetSet
    BY <1>3, <1>4, <2>1
  <2>2. CASE a \notin AssetSet
    <3>1. [lines EXCEPT ![a] = l] = lines
      BY <2>2
    <3> QED BY <3>1 DEF Line
  <2> QED BY <2>1, <2>2
<1>5. [lines EXCEPT ![a].balance = @ + n] \in [AssetSet -> Line]
  BY <1>1, <1>4
<1>6. [lines EXCEPT ![a].balance = @ - n] \in [AssetSet -> Line]
  BY <1>1, <1>4
<1>7. [lines EXCEPT ![a].held = TRUE] \in [AssetSet -> Line]
  BY <1>1, <1>4
<1>8. [lines EXCEPT ![a] = NoLine] \in [AssetSet -> Line]
  BY <1>2, <1>4
<1> QED BY <1>5, <1>6, <1>7, <1>8 DEF Line

\* An account that is paid something is still an account.
LEMMA CreditedOK ==
  ASSUME NEW k, AccountOK(k), NEW what, NEW n \in Int
  PROVE  /\ AccountOK(Credited(k, what, n)) /\ Credited(k, what, n).merged = k.merged
         /\ Credited(k, what, n).claims = k.claims
<1>1. CASE what = "native"
  BY <1>1 DEF Credited, AccountOK
<1>2. CASE what # "native" /\ what \in TokenSet
  BY <1>2 DEF Credited, AccountOK
<1>3. CASE what # "native" /\ what \notin TokenSet
  <2> DEFINE lines == [k.lines EXCEPT ![what].balance = @ + n]
  <2>1. lines \in [AssetSet -> [held : BOOLEAN, balance : Int, auth : {"authorized", "unauthorized"}]]
    BY LineBalanceOK DEF AccountOK
  <2>2. Credited(k, what, n) = [k EXCEPT !.lines = lines]
    BY <1>3 DEF Credited
  <2> HIDE DEF lines
  <2> QED BY <2>1, <2>2 DEF AccountOK
<1> QED BY <1>1, <1>2, <1>3

Holds(k) == <<k.tokens, k.exits, k.claims>>

\* What an operation changes of the account besides its lines, tokens and end.
LEMMA FieldOK ==
  ASSUME NEW k, AccountOK(k), NEW v,
         NEW f \in {"seq", "xlm", "high", "extra", "data", "offers", "sponsors", "claims"}
  PROVE  /\ AccountOK([k EXCEPT ![f] = v]) /\ [k EXCEPT ![f] = v].merged = k.merged
         /\ f # "claims" => Holds([k EXCEPT ![f] = v]) = Holds(k) /\ [k EXCEPT ![f] = v].claims = k.claims
BY DEF AccountOK, Holds

\* The operations of a close: what has to be claimed, sent or left first is left alone by them.
CloseNames == {"removeSigner", "setThresholds", "revoke", "removeData", "cancelOffer", "convert", "pay", "removeLine",
               "merge", "forward"}

\* What one operation keeps of the world.
LEMMA DoneOK ==
  ASSUME NEW w, WorldOK(w), NEW o, OpOK(o), ~Foreign(o)
  PROVE  /\ WorldOK(Done(w, o))
         /\ Done(w, o).memo = w.memo /\ Done(w, o).now = w.now /\ Done(w, o).coming = w.coming
         /\ Done(w, o).acct.merged => w.acct.merged \/ o.op = "merge"
         /\ Done(w, o).acct.claims \subseteq w.acct.claims
         /\ o.op \in CloseNames => Holds(Done(w, o).acct) = Holds(w.acct)
<1> DEFINE fits(k) == /\ AccountOK(k) /\ (k.merged => w.acct.merged \/ o.op = "merge")
                      /\ k.claims \subseteq w.acct.claims
                      /\ o.op \in CloseNames => Holds(k) = Holds(w.acct)
           good(d) == WorldOK(d) /\ d.memo = w.memo /\ d.now = w.now /\ d.coming = w.coming /\ fits(d.acct)
<1>1. AccountOK(w.acct) /\ w.rate \in [Things -> Int]
  BY DEF WorldOK
<1>2. ASSUME NEW k, fits(k) PROVE good([w EXCEPT !.acct = k]) /\ [w EXCEPT !.acct = k].acct = k
  BY <1>2 DEF WorldOK
<1>3. ASSUME NEW d, good(d), NEW how, NEW xlm PROVE good(Gone(d, o, how, xlm))
  BY <1>3 DEF WorldOK, Gone
<1>4. ASSUME NEW v, NEW f \in {"seq", "xlm", "high", "extra", "data", "offers", "sponsors"}
      PROVE  fits([w.acct EXCEPT ![f] = v])
  <2> DEFINE k == [w.acct EXCEPT ![f] = v]
  <2>1. AccountOK(k) /\ k.merged = w.acct.merged /\ Holds(k) = Holds(w.acct)
    <3>1. f \in {"seq", "xlm", "high", "extra", "data", "offers", "sponsors", "claims"}
      OBVIOUS
    <3>2. f # "claims"
      OBVIOUS
    <3> QED BY <1>1, <3>1, <3>2, FieldOK, ZenonT(60)
  <2> HIDE DEF k
  <2>2. fits(k)
    <3>1. k.claims = w.acct.claims
      BY <2>1 DEF Holds
    <3> QED BY <2>1, <3>1
  <2> QED BY <2>2 DEF k
<1>5. ASSUME NEW n \in Int, NEW a PROVE fits([w.acct EXCEPT !.lines[a].balance = @ - n])
  <2> DEFINE lines == [w.acct.lines EXCEPT ![a].balance = @ - n]
  <2>1. lines \in [AssetSet -> [held : BOOLEAN, balance : Int, auth : {"authorized", "unauthorized"}]]
    BY <1>1, LineBalanceOK DEF AccountOK
  <2>2. [w.acct EXCEPT !.lines[a].balance = @ - n] = [w.acct EXCEPT !.lines = lines]
    BY Zenon
  <2> HIDE DEF lines
  <2> QED BY <1>1, <2>1, <2>2 DEF AccountOK, Holds
<1>6. ASSUME NEW n \in Int, NEW t, o.op \notin CloseNames PROVE fits([w.acct EXCEPT !.tokens[t] = @ - n])
  <2> DEFINE tokens == [w.acct.tokens EXCEPT ![t] = @ - n]
  <2>1. tokens \in [TokenSet -> Int]
    <3>1. w.acct.tokens \in [TokenSet -> Int]
      BY <1>1 DEF AccountOK
    <3>2. CASE t \in TokenSet
      <4>1. w.acct.tokens[t] - n \in Int
        BY <3>1, <3>2
      <4> QED BY <3>1, <4>1
    <3>3. CASE t \notin TokenSet
      <4>1. tokens = w.acct.tokens
        BY <3>1, <3>3
      <4> QED BY <3>1, <4>1
    <3> QED BY <3>2, <3>3
  <2>2. [w.acct EXCEPT !.tokens[t] = @ - n] = [w.acct EXCEPT !.tokens = tokens]
    BY Zenon
  <2> HIDE DEF tokens
  <2> DEFINE k == [w.acct EXCEPT !.tokens = tokens]
  <2>3. AccountOK(k) /\ k.merged = w.acct.merged /\ k.claims = w.acct.claims
    BY <1>1, <2>1 DEF AccountOK
  <2> HIDE DEF k
  <2>4. fits(k)
    BY <1>6, <2>3
  <2> QED BY <2>2, <2>4, Zenon DEF k
<1> SUFFICES good(Done(w, o))
  OBVIOUS
<1>10. CASE o.op = "removeSigner"
  <2>1. Done(w, o) = [w EXCEPT !.acct = [w.acct EXCEPT !["extra"] = @ \ {o.what}]]
    BY <1>10 DEF Done
  <2> HIDE DEF good, fits
  <2> QED BY <1>2, <1>4, <2>1
<1>11. CASE o.op = "setThresholds"
  <2>1. Done(w, o) = [w EXCEPT !.acct = [w.acct EXCEPT !["high"] = o.amount]]
    BY <1>11 DEF Done
  <2> HIDE DEF good, fits
  <2> QED BY <1>2, <1>4, <2>1
<1>12. CASE o.op = "revoke"
  <2>1. Done(w, o) = [w EXCEPT !.acct = [w.acct EXCEPT !["sponsors"] = @ \ {o.what}]]
    BY <1>12 DEF Done
  <2> HIDE DEF good, fits
  <2> QED BY <1>2, <1>4, <2>1
<1>13. CASE o.op = "removeData"
  <2>1. Done(w, o) = [w EXCEPT !.acct = [w.acct EXCEPT !["data"] = @ \ {o.what}]]
    BY <1>13 DEF Done
  <2> HIDE DEF good, fits
  <2> QED BY <1>2, <1>4, <2>1
<1>14. CASE o.op = "cancelOffer"
  <2>1. Done(w, o) = [w EXCEPT !.acct = [w.acct EXCEPT !["offers"] = @ \ {o.what}]]
    BY <1>14 DEF Done
  <2> HIDE DEF good, fits
  <2> QED BY <1>2, <1>4, <2>1
<1>15. CASE o.op = "addLine"
  <2>1. Done(w, o) = [w EXCEPT !.acct = [w.acct EXCEPT !.lines = [@ EXCEPT ![o.what].held = TRUE]]]
    BY <1>15 DEF Done
  <2>2. [w.acct.lines EXCEPT ![o.what].held = TRUE]
          \in [AssetSet -> [held : BOOLEAN, balance : Int, auth : {"authorized", "unauthorized"}]]
    BY <1>1, LineBalanceOK DEF AccountOK
  <2>3. fits([w.acct EXCEPT !.lines = [@ EXCEPT ![o.what].held = TRUE]])
    BY <1>1, <1>15, <2>2 DEF AccountOK, CloseNames
  <2> HIDE DEF good, fits
  <2> QED BY <1>2, <2>1, <2>3
<1>16. CASE o.op = "removeLine"
  <2>1. Done(w, o) = [w EXCEPT !.acct = [w.acct EXCEPT !.lines = [@ EXCEPT ![o.what] = NoLine]]]
    BY <1>16 DEF Done
  <2>2. [w.acct.lines EXCEPT ![o.what] = NoLine]
          \in [AssetSet -> [held : BOOLEAN, balance : Int, auth : {"authorized", "unauthorized"}]]
    BY <1>1, LineBalanceOK DEF AccountOK
  <2>3. fits([w.acct EXCEPT !.lines = [@ EXCEPT ![o.what] = NoLine]])
    BY <1>1, <2>2 DEF AccountOK, Holds
  <2> HIDE DEF good, fits
  <2> QED BY <1>2, <2>1, <2>3
<1>17. CASE o.op = "claim"
  <2> DEFINE k == Credited(w.acct, ClaimAsset[o.what], 1)
  <2>1. Done(w, o) = [w EXCEPT !.acct = [k EXCEPT !["claims"] = @ \ {o.what}]]
    BY <1>17, Zenon DEF Done
  <2>2. AccountOK(k) /\ k.merged = w.acct.merged /\ k.claims = w.acct.claims
    BY <1>1, CreditedOK
  <2> HIDE DEF k
  <2>3. [k EXCEPT !["claims"] = @ \ {o.what}].claims \subseteq w.acct.claims
    BY <2>2 DEF AccountOK
  <2>4. AccountOK([k EXCEPT !["claims"] = @ \ {o.what}]) /\ [k EXCEPT !["claims"] = @ \ {o.what}].merged = k.merged
    BY <2>2, FieldOK
  <2>5. o.op \notin CloseNames
    BY <1>17 DEF CloseNames
  <2>6. fits([k EXCEPT !["claims"] = @ \ {o.what}])
    BY <2>2, <2>3, <2>4, <2>5
  <2> HIDE DEF good, fits
  <2> QED BY <1>2, <2>1, <2>6
<1>18. CASE o.op = "exit"
  <2> DEFINE k == IF w.acct.exits[o.what] > 1 THEN [w.acct EXCEPT !.exits[o.what] = @ - 1]
                  ELSE [Credited(w.acct, ExitPays[o.what], 1) EXCEPT !.exits[o.what] = 0]
  <2>1. Done(w, o) = [w EXCEPT !.acct = k]
    BY <1>18, Zenon DEF Done
  <2>2. /\ AccountOK(Credited(w.acct, ExitPays[o.what], 1)) /\ Credited(w.acct, ExitPays[o.what], 1).merged = w.acct.merged
        /\ Credited(w.acct, ExitPays[o.what], 1).claims = w.acct.claims
    BY <1>1, CreditedOK
  <2>3. fits(k)
    BY <1>1, <1>18, <2>2 DEF AccountOK, CloseNames
  <2> HIDE DEF good, fits, k
  <2> QED BY <1>2, <2>1, <2>3
<1>19. CASE o.op = "merge"
  <2>1. Done(w, o) = Gone([w EXCEPT !.acct = [w.acct EXCEPT !.merged = TRUE]], o, "merge", w.acct.xlm)
    BY <1>19 DEF Done
  <2>2. fits([w.acct EXCEPT !.merged = TRUE])
    BY <1>1, <1>19 DEF AccountOK, Holds
  <2> HIDE DEF good, fits
  <2>3. good([w EXCEPT !.acct = [w.acct EXCEPT !.merged = TRUE]])
    BY <1>2, <2>2, Zenon
  <2> QED BY <1>3, <2>1, <2>3, Zenon
<1>20. CASE o.op = "forward"
  <2>1. Done(w, o) = Gone(w, o, "forward", o.amount)
    BY <1>20 DEF Done
  <2>2. good(w)
    BY <1>1
  <2> HIDE DEF good
  <2> QED BY <1>3, <2>1, <2>2
<1>21. CASE o.op \in {"convert", "pay", "sendToken", "swapToken"}
  <2>1. o.amount \in Int /\ o.what \in Things
    BY <1>21 DEF OpOK
  <2> DEFINE less == [w.acct EXCEPT !.lines[o.what].balance = @ - o.amount]
             fewer == [w.acct EXCEPT !.tokens[o.what] = @ - o.amount]
             paid == w.rate[o.what] * o.amount
  <2>2. fits(less) /\ good([w EXCEPT !.acct = less])
    <3> HIDE DEF good, fits
    <3> QED BY <1>2, <1>5, <2>1
  <2>3. o.op \notin CloseNames => fits(fewer) /\ good([w EXCEPT !.acct = fewer])
    <3> HIDE DEF good, fits
    <3> QED BY <1>2, <1>6, <2>1
  <2> HIDE DEF less, fewer, paid
  <2>4. ASSUME NEW d, good(d), NEW v PROVE good([d EXCEPT !.acct.xlm = v]) /\ good([d EXCEPT !.room = v])
    BY <2>4 DEF WorldOK, AccountOK, Holds
  <2>5. CASE o.op = "pay"
    <3>1. Done(w, o) = Gone([w EXCEPT !.acct.lines[o.what].balance = @ - o.amount,
                                      !.room[o.what] = @ - IF o.to = "chosen" THEN o.amount ELSE 0], o, "pay", 0)
      BY <2>5, Zenon DEF Done
    <3> DEFINE v == [w EXCEPT !.acct = less]
    <3>2. PICK r : Done(w, o) = Gone([v EXCEPT !.room = r], o, "pay", 0)
      BY <3>1, Zenon DEF less
    <3>3. good(v)
      BY <2>2
    <3> HIDE DEF good, v
    <3>4. good([v EXCEPT !.room = r])
      BY <2>4, <3>3
    <3> QED BY <1>3, <3>2, <3>4
  <2>6. CASE o.op = "sendToken"
    <3>1. Done(w, o) = Gone([w EXCEPT !.acct.tokens[o.what] = @ - o.amount], o, "pay", 0)
      BY <2>6, Zenon DEF Done
    <3>2. Done(w, o) = Gone([w EXCEPT !.acct = fewer], o, "pay", 0)
      BY <3>1, Zenon DEF fewer
    <3> HIDE DEF good
    <3> QED BY <1>3, <2>3, <2>6, <3>2 DEF CloseNames
  <2>7. CASE o.op = "convert"
    <3>1. Done(w, o) = Gone([w EXCEPT !.acct.lines[o.what].balance = @ - o.amount, !.acct.xlm = @ + paid],
                            o, "convert", paid)
      BY <2>7, Zenon DEF Done, paid
    <3> DEFINE v == [w EXCEPT !.acct = less]
    <3>2. PICK x : Done(w, o) = Gone([v EXCEPT !.acct.xlm = x], o, "convert", paid)
      BY <3>1, Zenon DEF less
    <3>3. good(v)
      BY <2>2
    <3> HIDE DEF good, v
    <3>4. good([v EXCEPT !.acct.xlm = x])
      BY <2>4, <3>3
    <3> QED BY <1>3, <3>2, <3>4
  <2>8. CASE o.op = "swapToken"
    <3>1. Done(w, o) = Gone([w EXCEPT !.acct.tokens[o.what] = @ - o.amount, !.acct.xlm = @ + paid],
                            o, "convert", paid)
      BY <2>8, Zenon DEF Done, paid
    <3> DEFINE v == [w EXCEPT !.acct = fewer]
    <3>2. PICK x : Done(w, o) = Gone([v EXCEPT !.acct.xlm = x], o, "convert", paid)
      BY <3>1, Zenon DEF fewer
    <3>3. good(v)
      BY <2>3, <2>8 DEF CloseNames
    <3> HIDE DEF good, v
    <3>4. good([v EXCEPT !.acct.xlm = x])
      BY <2>4, <3>3
    <3> QED BY <1>3, <3>2, <3>4
  <2> QED BY <1>21, <2>5, <2>6, <2>7, <2>8
<1> HIDE DEF good, fits
<1> QED BY <1>10, <1>11, <1>12, <1>13, <1>14, <1>15, <1>16, <1>17, <1>18, <1>19, <1>20, <1>21 DEF OpOK, OpNames

Move(o, how, xlm) ==
  [what |-> o.what, how |-> how, by |-> o.by, to |-> o.to, units |-> o.amount, xlm |-> xlm]

\* What has left the account after an operation.
LEMMA LeftIs ==
  ASSUME NEW w, WorldOK(w), NEW o, OpOK(o), ~Foreign(o)
  PROVE  /\ o.op \notin {"convert", "swapToken", "pay", "sendToken", "merge", "forward"} => Done(w, o).left = w.left
         /\ o.op \in {"convert", "swapToken"} =>
              Done(w, o).left = w.left \cup {Move(o, "convert", w.rate[o.what] * o.amount)}
         /\ o.op \in {"pay", "sendToken"} => Done(w, o).left = w.left \cup {Move(o, "pay", 0)}
         /\ o.op = "merge" => Done(w, o).left = w.left \cup {Move(o, "merge", w.acct.xlm)}
         /\ o.op = "forward" => Done(w, o).left = w.left \cup {Move(o, "forward", o.amount)}
<1>0. "acct" \in DOMAIN w /\ "room" \in DOMAIN w /\ "left" \in DOMAIN w
  BY DEF WorldOK
<1>1. ASSUME NEW d, "left" \in DOMAIN d, d.left = w.left, NEW how, NEW xlm
      PROVE  Gone(d, o, how, xlm).left = w.left \cup {Move(o, how, xlm)}
  BY <1>1 DEF Gone, Move
<1>2. \A k : "left" \in DOMAIN [w EXCEPT !.acct = k] /\ [w EXCEPT !.acct = k].left = w.left
  BY <1>0
<1>3. CASE o.op \notin {"convert", "swapToken", "pay", "sendToken", "merge", "forward"}
  <2>1. \E k : Done(w, o) = [w EXCEPT !.acct = k]
    <3>1. CASE o.op = "removeSigner"
      BY <3>1, Zenon DEF Done
    <3>2. CASE o.op = "setThresholds"
      BY <3>2, Zenon DEF Done
    <3>3. CASE o.op = "revoke"
      BY <3>3, Zenon DEF Done
    <3>4. CASE o.op = "removeData"
      BY <3>4, Zenon DEF Done
    <3>5. CASE o.op = "cancelOffer"
      BY <3>5, Zenon DEF Done
    <3>6. CASE o.op = "addLine"
      BY <3>6, Zenon DEF Done
    <3>7. CASE o.op = "claim"
      BY <3>7, Zenon DEF Done
    <3>8. CASE o.op = "removeLine"
      BY <3>8, Zenon DEF Done
    <3>9. CASE o.op = "exit"
      BY <3>9, Zenon DEF Done
    <3> QED BY <1>3, <3>1, <3>2, <3>3, <3>4, <3>5, <3>6, <3>7, <3>8, <3>9 DEF OpOK, OpNames
  <2> QED BY <1>2, <1>3, <2>1
<1>4. CASE o.op = "convert"
  <2> DEFINE paid == w.rate[o.what] * o.amount
             v == [w EXCEPT !.acct.lines[o.what].balance = @ - o.amount, !.acct.xlm = @ + paid]
  <2>1. Done(w, o) = Gone(v, o, "convert", paid)
    BY <1>4, Zenon DEF Done
  <2>2. "left" \in DOMAIN v /\ v.left = w.left
    BY <1>0
  <2> HIDE DEF v, paid
  <2> QED BY <1>1, <1>4, <2>1, <2>2 DEF paid
<1>5. CASE o.op = "swapToken"
  <2> DEFINE paid == w.rate[o.what] * o.amount
             v == [w EXCEPT !.acct.tokens[o.what] = @ - o.amount, !.acct.xlm = @ + paid]
  <2>1. Done(w, o) = Gone(v, o, "convert", paid)
    BY <1>5, Zenon DEF Done
  <2>2. "left" \in DOMAIN v /\ v.left = w.left
    BY <1>0
  <2> HIDE DEF v, paid
  <2> QED BY <1>1, <1>5, <2>1, <2>2 DEF paid
<1>6. CASE o.op = "pay"
  <2> DEFINE v == [w EXCEPT !.acct.lines[o.what].balance = @ - o.amount,
                            !.room[o.what] = @ - IF o.to = "chosen" THEN o.amount ELSE 0]
  <2>1. Done(w, o) = Gone(v, o, "pay", 0)
    BY <1>6, Zenon DEF Done
  <2>2. "left" \in DOMAIN v /\ v.left = w.left
    BY <1>0
  <2> HIDE DEF v
  <2> QED BY <1>1, <1>6, <2>1, <2>2
<1>7. CASE o.op = "sendToken"
  <2> DEFINE v == [w EXCEPT !.acct.tokens[o.what] = @ - o.amount]
  <2>1. Done(w, o) = Gone(v, o, "pay", 0)
    BY <1>7, Zenon DEF Done
  <2>2. "left" \in DOMAIN v /\ v.left = w.left
    BY <1>0
  <2> HIDE DEF v
  <2> QED BY <1>1, <1>7, <2>1, <2>2
<1>8. CASE o.op = "merge"
  <2> DEFINE v == [w EXCEPT !.acct.merged = TRUE]
  <2>1. Done(w, o) = Gone(v, o, "merge", w.acct.xlm)
    BY <1>8, Zenon DEF Done
  <2>2. "left" \in DOMAIN v /\ v.left = w.left
    BY <1>0
  <2> HIDE DEF v
  <2> QED BY <1>1, <1>8, <2>1, <2>2
<1>9. CASE o.op = "forward"
  <2>1. Done(w, o) = Gone(w, o, "forward", o.amount)
    BY <1>9, Zenon DEF Done
  <2> QED BY <1>0, <1>1, <1>9, <2>1
<1> QED BY <1>3, <1>4, <1>5, <1>6, <1>7, <1>8, <1>9

\* An operation that keeps to the answers leaves only moves that do.
LEMMA MovesFit ==
  ASSUME NEW w, WorldOK(w), NEW o, OpOK(o), OpFits(o), Can(w, o), answers.floor \in [Things -> Int],
         \A m \in w.left : MoveFits(m)
  PROVE  \A m \in Done(w, o).left : MoveFits(m)
<1>1. ~Foreign(o)
  BY DEF OpFits, Foreign
<1>2. CASE o.op \in {"convert", "swapToken"}
  <2>1. o.what \in Things /\ o.amount \in Int /\ o.min \in Int /\ w.rate[o.what] \in Int /\ answers.floor[o.what] \in Int
    BY <1>2 DEF OpOK, WorldOK
  <2>2. w.rate[o.what] * o.amount >= o.min
    BY <1>1, <1>2 DEF Can
  <2>3. \A a, b, c \in Int : a >= b /\ b >= c => a >= c
    OBVIOUS
  <2>4. o.min >= answers.floor[o.what]
    BY <1>2 DEF OpFits
  <2> DEFINE paid == w.rate[o.what] * o.amount
  <2>5. paid \in Int
    BY <2>1
  <2>6. paid >= answers.floor[o.what]
    <3> HIDE DEF paid
    <3> QED BY <2>1, <2>2, <2>3, <2>4, <2>5 DEF paid
  <2> HIDE DEF paid
  <2>7. MoveFits(Move(o, "convert", paid))
    BY <1>2, <2>6 DEF OpFits, MoveFits, Move
  <2>8. Done(w, o).left = w.left \cup {Move(o, "convert", paid)}
    BY <1>1, <1>2, LeftIs DEF paid
  <2> QED BY <2>7, <2>8
<1>3. CASE o.op \in {"pay", "sendToken"}
  <2>1. MoveFits(Move(o, "pay", 0))
    BY <1>3 DEF OpFits, MoveFits, Move
  <2> QED BY <1>1, <1>3, <2>1, LeftIs
<1>4. CASE o.op = "merge"
  <2>1. MoveFits(Move(o, "merge", w.acct.xlm))
    BY <1>4 DEF OpFits, MoveFits, Move
  <2> QED BY <1>1, <1>4, <2>1, LeftIs
<1>5. CASE o.op = "forward"
  <2>1. MoveFits(Move(o, "forward", o.amount))
    BY <1>5 DEF OpFits, MoveFits, Move
  <2> QED BY <1>1, <1>5, <2>1, LeftIs
<1>6. CASE o.op \notin {"convert", "swapToken", "pay", "sendToken", "merge", "forward"}
  BY <1>1, <1>6, LeftIs
<1> QED BY <1>2, <1>3, <1>4, <1>5, <1>6

-----------------------------------------------------------------------------
\* What the charge for a transaction keeps.
LEMMA ChargedOK ==
  ASSUME NEW w, WorldOK(w), NEW tx
  PROVE  LET c == Charged(w, tx) IN
         /\ WorldOK(c) /\ c.left = w.left /\ c.now = w.now /\ c.coming = w.coming /\ c.memo = tx.memo
         /\ c.acct.merged = w.acct.merged /\ Holds(c.acct) = Holds(w.acct) /\ c.acct.claims = w.acct.claims
<1> DEFINE once == [w.acct EXCEPT !["seq"] = @ + 1]
           twice == [once EXCEPT !["xlm"] = @ - (IF tx.sponsored THEN 0 ELSE tx.fee)]
<1>1. AccountOK(w.acct) /\ "acct" \in DOMAIN w
  BY DEF WorldOK
<1>2. AccountOK(once) /\ once.merged = w.acct.merged /\ Holds(once) = Holds(w.acct)
  <2>1. "seq" # "claims" /\ "seq" \in {"seq", "xlm", "high", "extra", "data", "offers", "sponsors", "claims"}
    OBVIOUS
  <2> QED BY <1>1, <2>1, FieldOK, Zenon
<1>3. AccountOK(twice) /\ twice.merged = w.acct.merged /\ Holds(twice) = Holds(w.acct)
  <2>1. "xlm" # "claims" /\ "xlm" \in {"seq", "xlm", "high", "extra", "data", "offers", "sponsors", "claims"}
    OBVIOUS
  <2> HIDE DEF once
  <2>2. ASSUME NEW v
        PROVE  /\ AccountOK([once EXCEPT !["xlm"] = v]) /\ [once EXCEPT !["xlm"] = v].merged = once.merged
               /\ Holds([once EXCEPT !["xlm"] = v]) = Holds(once)
    BY <1>2, <2>1, FieldOK, Zenon
  <2> QED BY <1>2, <2>2, Zenon
<1>4. Charged(w, tx) = [w EXCEPT !.acct = twice, !.memo = tx.memo]
  <2>1. "seq" \in DOMAIN w.acct /\ "xlm" \in DOMAIN w.acct
    BY <1>1 DEF AccountOK
  <2> QED BY <1>1, <2>1 DEF Charged
<1>5. twice.claims = w.acct.claims
  BY <1>3 DEF Holds
<1> HIDE DEF once, twice
<1> QED BY <1>3, <1>4, <1>5 DEF WorldOK

\* A transaction whose operations keep to the answers.
LEMMA AppliedOK ==
  ASSUME NEW w, WorldOK(w), NEW tx, IsSeq(tx.ops),
         \A i \in 1..Len(tx.ops) : OpOK(tx.ops[i]) /\ OpFits(tx.ops[i]),
         answers.floor \in [Things -> Int], \A m \in w.left : MoveFits(m)
  PROVE  LET a == Applied(w, tx).w IN
         /\ WorldOK(a) /\ a.now = w.now /\ a.coming = w.coming /\ a.memo = tx.memo
         /\ \A m \in a.left : MoveFits(m)
         /\ a.acct.merged => w.acct.merged \/ \E i \in 1..Len(tx.ops) : tx.ops[i].op = "merge"
         /\ a.acct.claims \subseteq w.acct.claims
         /\ (\A i \in 1..Len(tx.ops) : tx.ops[i].op \in CloseNames) => Holds(a.acct) = Holds(w.acct)
<1> DEFINE n == Len(tx.ops)
           good(a) == /\ WorldOK(a) /\ a.now = w.now /\ a.coming = w.coming /\ a.memo = tx.memo
                      /\ \A m \in a.left : MoveFits(m)
                      /\ a.acct.merged => w.acct.merged \/ \E i \in 1..n : tx.ops[i].op = "merge"
                      /\ a.acct.claims \subseteq w.acct.claims
                      /\ (\A i \in 1..n : tx.ops[i].op \in CloseNames) => Holds(a.acct) = Holds(w.acct)
<1>1. n \in Nat
  BY SeqIs
<1>2. PICK run : /\ run[0] = [ok |-> TRUE, w |-> Charged(w, tx)]
                 /\ \A i \in 1..n : run[i] = Stepped(w, tx, run[i - 1], i)
                 /\ Applied(w, tx) = run[n]
  BY <1>1, AppliedInSteps
<1>3. good(Charged(w, tx))
  BY ChargedOK
<1>4. ASSUME NEW a, good(a), NEW i \in 1..n, Can(a, tx.ops[i]) PROVE good(Done(a, tx.ops[i]))
  <2> DEFINE o == tx.ops[i]
             d == Done(a, o)
  <2>1. OpOK(o) /\ OpFits(o) /\ ~Foreign(o) /\ Can(a, o)
    BY <1>4 DEF OpFits, Foreign
  <2>2. WorldOK(a) /\ \A m \in a.left : MoveFits(m)
    BY <1>4
  <2> HIDE DEF o
  <2>3. /\ WorldOK(d) /\ d.memo = a.memo /\ d.now = a.now /\ d.coming = a.coming
        /\ d.acct.merged => a.acct.merged \/ o.op = "merge"
        /\ d.acct.claims \subseteq a.acct.claims
        /\ o.op \in CloseNames => Holds(d.acct) = Holds(a.acct)
    BY <2>1, <2>2, DoneOK
  <2>4. \A m \in d.left : MoveFits(m)
    BY <2>1, <2>2, MovesFit
  <2> HIDE DEF d
  <2>5. good(d)
    BY <1>4, <2>3, <2>4 DEF o
  <2> QED BY <2>5 DEF d, o
<1> HIDE DEF good, n
<1> DEFINE bad == {i \in 0..n : ~good(run[i].w)}
<1>5. bad = {}
  <2> SUFFICES ASSUME bad # {} PROVE FALSE
    OBVIOUS
  <2>0. bad \subseteq Nat
    BY <1>1
  <2>1. PICK m \in bad : \A i \in bad : m <= i
    <3> HIDE DEF bad
    <3> QED BY <2>0, Least
  <2>2. m \in 1..n
    BY <1>1, <1>2, <1>3, <2>1
  <2>3. good(run[m - 1].w)
    <3>1. m - 1 \notin bad /\ m - 1 \in 0..n
      BY <1>1, <2>1, <2>2
    <3> QED BY <3>1
  <2>4. run[m] = Stepped(w, tx, run[m - 1], m)
    BY <1>2, <2>2
  <2>5. good(run[m].w)
    <3> DEFINE before == run[m - 1]
    <3>1. CASE before.ok /\ Can(before.w, tx.ops[m])
      <4>1. run[m].w = Done(before.w, tx.ops[m])
        BY <2>4, <3>1 DEF Stepped
      <4> QED BY <1>4, <2>2, <2>3, <3>1, <4>1
    <3>2. CASE ~(before.ok /\ Can(before.w, tx.ops[m]))
      <4>1. run[m].w = Charged(w, tx)
        BY <2>4, <3>2 DEF Stepped
      <4> QED BY <1>3, <4>1
    <3> QED BY <3>1, <3>2
  <2> QED BY <2>1, <2>5
<1>6. good(Applied(w, tx).w)
  <2>1. n \in 0..n
    BY <1>1
  <2> QED BY <1>2, <1>5, <2>1
<1> QED BY <1>6 DEF good, n

\* The indices of a sequence of two.
LEMMA OfTwo == 2 \in Nat /\ 1 \in 1..2 /\ 2 \in 1..2 /\ 1 - 1 = 0 /\ 2 - 1 = 1 /\ \A i \in 1..2 : i = 1 \/ i = 2
OBVIOUS

\* A transaction of two operations, applied one after the other.
LEMMA AppliedInTwo ==
  ASSUME NEW w, NEW tx, Len(tx.ops) = 2
  PROVE  \E run : /\ run[0] = [ok |-> TRUE, w |-> Charged(w, tx)] /\ Applied(w, tx) = run[2]
                  /\ run[1] = Stepped(w, tx, run[0], 1) /\ run[2] = Stepped(w, tx, run[1], 2)
<1>1. Len(tx.ops) \in Nat
  BY OfTwo, Zenon
<1>2. PICK run : /\ run[0] = [ok |-> TRUE, w |-> Charged(w, tx)]
                 /\ \A i \in 1..Len(tx.ops) : run[i] = Stepped(w, tx, run[i - 1], i)
                 /\ Applied(w, tx) = run[Len(tx.ops)]
  BY <1>1, AppliedInSteps, Zenon
<1> QED BY <1>2, OfTwo, Zenon

\* A merge into an intermediary and the forward that follows it, once applied.
LEMMA HandOffApplied ==
  ASSUME NEW w, WorldOK(w), NEW tx, Len(tx.ops) = 2, Applied(w, tx).ok,
         tx.ops[1].op = "merge", tx.ops[1].by = "account", tx.ops[2].op = "forward"
  PROVE  \E paid, sent \in Applied(w, tx).w.left :
           /\ paid.how = "merge" /\ paid.to = tx.ops[1].to
           /\ sent.how = "forward" /\ sent.by = tx.ops[2].by /\ sent.units = tx.ops[2].amount
<1>1. PICK run : /\ run[0] = [ok |-> TRUE, w |-> Charged(w, tx)] /\ Applied(w, tx) = run[2]
                 /\ run[1] = Stepped(w, tx, run[0], 1) /\ run[2] = Stepped(w, tx, run[1], 2)
  BY AppliedInTwo, Zenon
<1>2. run[1] = Stepped(w, tx, run[0], 1) /\ run[2] = Stepped(w, tx, run[1], 2)
  BY <1>1
<1> DEFINE first == Done(run[0].w, tx.ops[1])
           second == Done(run[1].w, tx.ops[2])
<1>3. Applied(w, tx).w = second /\ run[1].ok
  BY <1>1, <1>2 DEF Stepped
<1>4. run[1].w = first
  BY <1>2, <1>3 DEF Stepped
<1>5. ~Foreign(tx.ops[1]) /\ ~Foreign(tx.ops[2]) /\ OpOK(tx.ops[1]) /\ OpOK(tx.ops[2])
  BY DEF Foreign, OpOK, OpNames
<1>6. WorldOK(run[0].w)
  BY <1>1, ChargedOK
<1>7. WorldOK(first) /\ first.left = run[0].w.left \cup {Move(tx.ops[1], "merge", run[0].w.acct.xlm)}
  <2> DEFINE c == run[0].w
             o == tx.ops[1]
  <2>1. OpOK(o) /\ ~Foreign(o) /\ o.op = "merge" /\ WorldOK(c)
    BY <1>5, <1>6
  <2> HIDE DEF c, o
  <2>2. WorldOK(Done(c, o))
    BY <2>1, DoneOK
  <2>3. Done(c, o).left = c.left \cup {Move(o, "merge", c.acct.xlm)}
    BY <2>1, LeftIs
  <2> QED BY <2>2, <2>3 DEF c, o
<1>8. second.left = run[1].w.left \cup {Move(tx.ops[2], "forward", tx.ops[2].amount)}
  <2> HIDE DEF first
  <2> QED BY <1>4, <1>5, <1>7, LeftIs
<1> HIDE DEF first, second
<1>9. /\ Move(tx.ops[1], "merge", run[0].w.acct.xlm) \in second.left
      /\ Move(tx.ops[2], "forward", tx.ops[2].amount) \in second.left
  BY <1>4, <1>7, <1>8
<1> QED BY <1>3, <1>9 DEF Move

-----------------------------------------------------------------------------
\* What the browser accepts keeps to the answers, and hands a balance on whole.
LEMMA VerdictFits ==
  ASSUME planned, NEW r, NEW tx, NEW now, Verdict(r, answers, payout, tx, now) = "",
         IsSeq(tx.ops), \A i \in 1..Len(tx.ops) : OpOK(tx.ops[i])
  PROVE  /\ \A i \in 1..Len(tx.ops) : OpFits(tx.ops[i])
         /\ (payout = "mediator" /\ \E i \in 1..Len(tx.ops) : tx.ops[i].op = "merge") =>
              /\ tx.memo = "memo" /\ Len(tx.ops) = 2
              /\ tx.ops[1].op = "merge" /\ tx.ops[1].by = "account" /\ tx.ops[2].op = "forward"
              /\ tx.ops[2].by = tx.ops[1].to /\ tx.ops[2].amount >= r.account.xlm - ForwardTolerance
<1>1. /\ MergeShapeFits(r, payout, tx) /\ MemoFits(payout, tx)
      /\ \A i \in DOMAIN tx.ops : OperationFits(r, answers, tx, tx.ops[i])
  BY DEF Verdict
<1>2. DOMAIN tx.ops = 1..Len(tx.ops) /\ Len(tx.ops) \in Nat
  BY SeqIs
<1>3. ASSUME NEW i \in 1..Len(tx.ops), tx.ops[i].op = "merge"
      PROVE  /\ i \in Named(tx, "merge") /\ Named(tx, "merge") # {} /\ tx.ops[i].by = "account"
             /\ tx.ops[i].to = "destination" => payout = "direct"
             /\ tx.ops[i].to # "destination" => payout = "mediator" /\ HandsOn(r, tx)
  BY <1>1, <1>2, <1>3 DEF MergeShapeFits, Named
<1>4. ASSUME NEW i \in 1..Len(tx.ops) PROVE OpFits(tx.ops[i])
  <2> DEFINE o == tx.ops[i]
  <2>1. OperationFits(r, answers, tx, o) /\ OpOK(o)
    BY <1>1, <1>2
  <2> SUFFICES OpFits(o)
    OBVIOUS
  <2>2. CASE o.op = "convert"
    <3> HIDE DEF o
    <3> QED BY <2>1, <2>2 DEF OperationFits, ConversionFits, OpFits
  <2>3. CASE o.op = "swapToken"
    <3> HIDE DEF o
    <3> QED BY <2>1, <2>3 DEF OperationFits, SwapFits, OpFits
  <2>4. CASE o.op = "pay"
    <3> HIDE DEF o
    <3> QED BY <2>1, <2>4 DEF OperationFits, PaymentFits, OpFits
  <2>5. CASE o.op = "sendToken"
    <3> HIDE DEF o
    <3> QED BY <2>1, <2>5 DEF OperationFits, TokenTransferFits, OpFits
  <2>6. CASE o.op = "merge"
    <3>1. o.by = "account" /\ (payout = "direct" => o.to = "destination")
      BY <1>3, <2>6
    <3> HIDE DEF o
    <3> QED BY <2>6, <3>1 DEF OpFits
  <2>7. CASE o.op = "forward"
    <3>1. HandsOn(r, tx)
      BY <2>1, <2>7 DEF OperationFits
    <3>2. /\ Len(tx.ops) = 2 /\ tx.ops[1].op = "merge" /\ tx.ops[1].to # "destination"
          /\ tx.ops[2].to = "destination"
      BY <3>1 DEF HandsOn
    <3>3. 1 \in 1..Len(tx.ops) /\ (i = 1 \/ i = 2)
      BY <3>2, OfTwo, Zenon
    <3>4. i = 2
      BY <2>7, <3>2, <3>3
    <3>5. payout = "mediator"
      BY <1>3, <3>2, <3>3
    <3>6. payout = "mediator" /\ o.to = "destination"
      BY <3>2, <3>4, <3>5
    <3> HIDE DEF o
    <3> QED BY <2>7, <3>6 DEF OpFits
  <2>8. CASE o.op \notin {"convert", "swapToken", "pay", "sendToken", "merge", "forward"}
    <3>1. o.by = "account"
      BY <2>1, <2>8 DEF OperationFits
    <3> HIDE DEF o
    <3> QED BY <2>8, <3>1 DEF OpFits
  <2> QED BY <2>2, <2>3, <2>4, <2>5, <2>6, <2>7, <2>8
<1>5. ASSUME payout = "mediator", NEW i \in 1..Len(tx.ops), tx.ops[i].op = "merge"
      PROVE  /\ tx.memo = "memo" /\ Len(tx.ops) = 2
             /\ tx.ops[1].op = "merge" /\ tx.ops[1].by = "account" /\ tx.ops[2].op = "forward"
             /\ tx.ops[2].by = tx.ops[1].to /\ tx.ops[2].amount >= r.account.xlm - ForwardTolerance
  <2>1. HandsOn(r, tx) /\ Named(tx, "merge") # {}
    BY <1>3, <1>5
  <2>2. tx.memo = "memo"
    BY <1>1, <1>5, <2>1 DEF MemoFits
  <2>3. /\ Len(tx.ops) = 2 /\ tx.ops[1].op = "merge" /\ tx.ops[2].op = "forward" /\ tx.ops[2].by = tx.ops[1].to
        /\ tx.ops[2].amount >= r.account.xlm - ForwardTolerance
    BY <2>1 DEF HandsOn
  <2>4. tx.ops[1].by = "account"
    <3>1. 1 \in 1..Len(tx.ops)
      BY <2>3, OfTwo, Zenon
    <3> QED BY <1>3, <2>3, <3>1
  <2> QED BY <2>2, <2>3, <2>4
<1> QED BY <1>4, <1>5

-----------------------------------------------------------------------------
\* Sequences of one element, of none, and the pieces of longer ones.
LEMMA OneIs == ASSUME NEW x PROVE IsSeq(<<x>>) /\ ToSet(<<x>>) = {x} /\ Len(<<x>>) = 1 /\ <<x>>[1] = x
BY DEF IsSeq, ToSet

\* The empty sequence.
LEMMA EmptyIs == IsSeq(<<>>) /\ ToSet(<<>>) = {} /\ Len(<<>>) = 0
BY DEF IsSeq, ToSet

\* A sequence without elements is the empty one.
LEMMA EmptySetIsEmptySeq == ASSUME NEW s, IsSeq(s) PROVE s = <<>> <=> ToSet(s) = {}
BY SeqIs, EmptySeq, EmptyIs DEF IsSeq

\* The head and the rest of a queue.
LEMMA HeadIs ==
  ASSUME NEW s, IsSeq(s), s # <<>>
  PROVE  /\ Head(s) \in ToSet(s) /\ Head(s) = s[1] /\ 1 \in 1..Len(s)
         /\ IsSeq(Tail(s)) /\ ToSet(Tail(s)) \subseteq ToSet(s)
         /\ \A i \in 1..Len(Tail(s)) : i + 1 \in 1..Len(s) /\ Tail(s)[i] = s[i + 1]
<1>1. s \in Seq(ToSet(s)) /\ Len(s) \in Nat
  BY SeqIs DEF IsSeq
<1>2. /\ Head(s) \in ToSet(s) /\ Tail(s) \in Seq(ToSet(s)) /\ Len(Tail(s)) = Len(s) - 1
      /\ \A i \in 1..Len(Tail(s)) : Tail(s)[i] = s[i + 1]
  BY <1>1, HeadTailProperties
<1>3. Len(s) # 0
  BY <1>1, EmptySeq
<1>4. Head(s) = s[1]
  BY <1>1
<1>5. IsSeq(Tail(s)) /\ ToSet(Tail(s)) \subseteq ToSet(s)
  BY <1>2, InSeq
<1> QED BY <1>1, <1>2, <1>3, <1>4, <1>5

\* Two sequences, one after the other.
LEMMA ConcatIs ==
  ASSUME NEW s, NEW t, IsSeq(s), IsSeq(t)
  PROVE  IsSeq(s \o t) /\ ToSet(s \o t) = ToSet(s) \cup ToSet(t)
<1> DEFINE S == ToSet(s) \cup ToSet(t)
<1>1. s \in Seq(S) /\ t \in Seq(S)
  <2>1. \A Q, R : Q \subseteq R => \A q \in Seq(Q) : q \in Seq(R)
    OBVIOUS
  <2> QED BY <2>1 DEF IsSeq
<1> HIDE DEF S
<1>2. /\ s \o t \in Seq(S) /\ Len(s \o t) = Len(s) + Len(t)
      /\ \A i \in 1..Len(s) + Len(t) : (s \o t)[i] = IF i <= Len(s) THEN s[i] ELSE t[i - Len(s)]
  BY <1>1, ConcatProperties
<1>3. IsSeq(s \o t) /\ ToSet(s \o t) \subseteq S
  BY <1>2, InSeq
<1>4. Len(s) \in Nat /\ Len(t) \in Nat /\ ToSet(s \o t) = {(s \o t)[i] : i \in 1..Len(s) + Len(t)}
  BY <1>2, <1>3, SeqIs
<1>5. ASSUME NEW i \in 1..Len(s) PROVE s[i] \in ToSet(s \o t)
  <2>1. i \in 1..Len(s) + Len(t) /\ i <= Len(s)
    BY <1>4
  <2> QED BY <1>2, <1>4, <2>1
<1>6. ASSUME NEW i \in 1..Len(t) PROVE t[i] \in ToSet(s \o t)
  <2>1. Len(s) + i \in 1..Len(s) + Len(t) /\ ~(Len(s) + i <= Len(s)) /\ (Len(s) + i) - Len(s) = i
    BY <1>4
  <2> QED BY <1>2, <1>4, <2>1
<1>7. S \subseteq ToSet(s \o t)
  BY <1>5, <1>6, SeqIs DEF S
<1> QED BY <1>3, <1>7 DEF S

\* One operation for each element.
LEMMA EachIs ==
  ASSUME NEW name, NEW whats, IsSeq(whats)
  PROVE  IsSeq(Each(name, whats)) /\ ToSet(Each(name, whats)) = {Op(name, x) : x \in ToSet(whats)}
<1>1. Len(whats) \in Nat /\ DOMAIN whats = 1..Len(whats) /\ ToSet(whats) = {whats[i] : i \in 1..Len(whats)}
  BY SeqIs
<1> DEFINE each == [i \in 1..Len(whats) |-> Op(name, whats[i])]
           S == {Op(name, x) : x \in ToSet(whats)}
<1>2. Each(name, whats) = each
  BY <1>1 DEF Each
<1> HIDE DEF Op
<1>3. each \in [1..Len(whats) -> S] /\ each \in Seq(S)
  <2>1. each \in [1..Len(whats) -> S]
    BY <1>1
  <2> HIDE DEF each, S
  <2> QED BY <1>1, <2>1, SeqDef
<1>4. ToSet(each) = S
  BY <1>1 DEF ToSet
<1> QED BY <1>2, <1>3, <1>4, InSeq

\* The least element of a set of numbers.
LEMMA MinIs ==
  ASSUME NEW m \in Int, NEW n \in Int
  PROVE  Min({m, n}) \in {m, n} /\ Min({m, n}) <= m /\ Min({m, n}) <= n
BY DEF Min

\* A division rounded up.
LEMMA CeilDivIs ==
  ASSUME NEW n \in Nat, NEW d \in Nat \ {0} PROVE CeilDiv(n, d) \in Nat
BY DEF CeilDiv

\* A stretch of a sequence.
LEMMA PartIs ==
  ASSUME NEW s, IsSeq(s), NEW m \in Nat \ {0}, NEW n \in Int, n <= Len(s)
  PROVE  /\ IsSeq(SubSeq(s, m, n)) /\ ToSet(SubSeq(s, m, n)) \subseteq ToSet(s)
         /\ \A j \in m..n : s[j] \in ToSet(SubSeq(s, m, n))
<1>1. Len(s) \in Nat /\ ToSet(s) = {s[i] : i \in 1..Len(s)}
  BY SeqIs
<1>2. \A i \in m..n : s[i] \in ToSet(s)
  BY <1>1
<1>3. /\ SubSeq(s, m, n) \in Seq(ToSet(s)) /\ Len(SubSeq(s, m, n)) = IF m <= n THEN n - m + 1 ELSE 0
      /\ \A i \in 1..n - m + 1 : SubSeq(s, m, n)[i] = s[m + i - 1]
  BY <1>2, SubSeqProperties
<1>4. IsSeq(SubSeq(s, m, n)) /\ ToSet(SubSeq(s, m, n)) \subseteq ToSet(s)
  BY <1>3, InSeq
<1>5. ASSUME NEW j \in m..n PROVE s[j] \in ToSet(SubSeq(s, m, n))
  <2>1. /\ j - m + 1 \in 1..n - m + 1 /\ m + (j - m + 1) - 1 = j
        /\ Len(SubSeq(s, m, n)) = n - m + 1
    BY <1>3
  <2>2. SubSeq(s, m, n)[j - m + 1] = s[j]
    BY <1>3, <2>1
  <2> DEFINE part == SubSeq(s, m, n)
  <2> HIDE DEF part
  <2>3. ToSet(part) = {part[i] : i \in 1..Len(part)}
    BY <1>4, SeqIs DEF part
  <2>4. j - m + 1 \in 1..Len(part) /\ part[j - m + 1] = s[j]
    BY <2>1, <2>2 DEF part
  <2>5. s[j] \in ToSet(part)
    BY <2>3, <2>4
  <2> QED BY <2>5 DEF part
<1> QED BY <1>4, <1>5

\* The fields of a batch.
LEMMA BatchIs ==
  ASSUME NEW txs, NEW more
  PROVE  Batch(txs, more).code = "" /\ Batch(txs, more).txs = txs /\ Batch(txs, more).again = more
BY DEF Batch

\* Packing cuts the operations into transactions and adds none.
LEMMA PackIs ==
  ASSUME NEW s, NEW w, NEW ops, IsSeq(ops)
  PROVE  LET pack == Pack(s, w, ops) IN
         /\ ~pack.again /\ pack.code \in {"", "close_fee_balance_short"}
         /\ pack.code = "" =>
              /\ IsSeq(pack.txs)
              /\ \A i \in 1..Len(pack.txs) :
                   /\ IsSeq(pack.txs[i].ops) /\ ToSet(pack.txs[i].ops) \subseteq ToSet(ops)
                   /\ pack.txs[i].until = w.now + Timeout
<1> DEFINE chunk == Chunks(ops)
           n == CeilDiv(Len(ops), OpLimit)
           spent == LET spent[i \in 0..Len(chunk)] ==
                          IF i = 0 THEN 0
                          ELSE spent[i - 1] + (IF Spare(s.account) - spent[i - 1] >= Len(chunk[i])
                                               THEN Len(chunk[i]) ELSE 0)
                    IN spent
           needs(i) == spent[i] = spent[i - 1]
           tx(i) == [ops |-> chunk[i], fee |-> IF needs(i) THEN 0 ELSE Len(chunk[i]),
                     sponsored |-> needs(i), seq |-> s.account.seq + i - 1,
                     until |-> w.now + Timeout, memo |-> "none"]
           txs == [i \in DOMAIN chunk |-> tx(i)]
           short == \E i \in DOMAIN chunk : needs(i) /\ ~(SponsorConfigured /\ Sponsorable(chunk[i]))
<1>1. Pack(s, w, ops) = IF short THEN Refuse("close_fee_balance_short") ELSE Batch(txs, FALSE)
  BY Zenon DEF Pack
<1>2. n \in Nat /\ Len(ops) \in Nat /\ OpLimit \in Nat \ {0}
  BY SeqIs, CeilDivIs, LimitsAssumption
<1>3. DOMAIN chunk = 1..n
  BY DEF Chunks
<1>4. ASSUME NEW i \in 1..n PROVE IsSeq(chunk[i]) /\ ToSet(chunk[i]) \subseteq ToSet(ops)
  <2> DEFINE first == (i - 1) * OpLimit + 1
             last == Min({i * OpLimit, Len(ops)})
  <2>1. chunk[i] = SubSeq(ops, first, last)
    BY <1>4 DEF Chunks
  <2>2. first \in Nat \ {0}
    <3>1. i - 1 \in Nat /\ OpLimit \in Nat
      BY <1>2
    <3>2. \A a, b \in Nat : a * b + 1 \in Nat \ {0}
      OBVIOUS
    <3> QED BY <3>1, <3>2
  <2>3. last \in Int /\ last <= Len(ops)
    <3>1. i * OpLimit \in Int /\ Len(ops) \in Int
      BY <1>2
    <3> QED BY <3>1, MinIs
  <2> HIDE DEF first, last, chunk
  <2> QED BY <2>1, <2>2, <2>3, PartIs
<1>5. \A i \in 1..n : tx(i).ops = chunk[i] /\ tx(i).until = w.now + Timeout
  OBVIOUS
<1> HIDE DEF chunk, tx, short, n
<1>6. txs = [i \in 1..n |-> tx(i)]
  BY <1>3
<1>7. IsSeq(txs) /\ Len(txs) = n /\ \A i \in 1..n : txs[i] = tx(i)
  <2> DEFINE S == {tx(i) : i \in 1..n}
  <2>1. txs \in [1..n -> S]
    BY <1>6
  <2> HIDE DEF txs
  <2>2. txs \in Seq(S)
    BY <1>2, <2>1, SeqDef
  <2>3. IsSeq(txs)
    BY <2>2, InSeq
  <2>4. Len(txs) = n
    BY <1>2, <1>6, <2>2
  <2> QED BY <1>6, <2>3, <2>4 DEF txs
<1> HIDE DEF txs
<1>8. CASE short
  <2>1. Pack(s, w, ops) = Refuse("close_fee_balance_short")
    BY <1>1, <1>8
  <2> QED BY <2>1 DEF Refuse
<1>9. CASE ~short
  <2>1. Pack(s, w, ops) = Batch(txs, FALSE)
    BY <1>1, <1>9
  <2>2. Pack(s, w, ops).txs = txs /\ ~Pack(s, w, ops).again /\ Pack(s, w, ops).code = ""
    <3>1. Batch(txs, FALSE).txs = txs /\ ~Batch(txs, FALSE).again /\ Batch(txs, FALSE).code = ""
      BY BatchIs, Zenon
    <3> QED BY <2>1, <3>1, Zenon
  <2>3. ASSUME NEW i \in 1..Len(txs)
        PROVE  /\ IsSeq(txs[i].ops) /\ ToSet(txs[i].ops) \subseteq ToSet(ops)
               /\ txs[i].until = w.now + Timeout
    <3>1. i \in 1..n /\ txs[i] = tx(i)
      BY <1>7
    <3> QED BY <1>4, <1>5, <3>1, Zenon
  <2> QED BY <1>7, <2>2, <2>3
<1> QED BY <1>8, <1>9

-----------------------------------------------------------------------------
\* What each round of buildCloseTransactions holds, at the ledger time t it was built for.
ClaimHolds(c, t) == c \in ToSet(Claims) /\ HoldsThroughWindow(c, t)

OpBuilt(o, t) ==
  /\ OpOK(o) /\ (~planned => OpFits(o))
  /\ o.op = "claim" => ClaimHolds(o.what, t)

RoundFits(r, w, t) ==
  r.code = "" =>
    /\ IsSeq(r.txs)
    /\ \A i \in 1..Len(r.txs) :
         /\ IsSeq(r.txs[i].ops) /\ r.txs[i].until = w.now + Timeout
         /\ \A o \in ToSet(r.txs[i].ops) : OpBuilt(o, t) /\ (~r.again => o.op \in CloseNames)

AnswersOK ==
  /\ answers.floor \in [Things -> Int]
  /\ \A a \in AssetSet : answers.asset[a] \in {"none", "convert", "transfer", "issuer"}
  /\ \A x \in TokenSet : answers.asset[x] \in {"none", "convert", "transfer", "leave"}

\* A refusal holds no transaction.
LEMMA RefuseFits == ASSUME NEW code, code # "", NEW w, NEW t PROVE RoundFits(Refuse(code), w, t)
BY DEF RoundFits, Refuse

\* A round of one operation.
LEMMA SingleFits ==
  ASSUME NEW tx, NEW w, NEW t, NEW o, tx.ops = <<o>>, tx.until = w.now + Timeout, OpBuilt(o, t)
  PROVE  RoundFits(Batch(<<tx>>, TRUE), w, t)
<1>1. /\ IsSeq(<<tx>>) /\ Len(<<tx>>) = 1 /\ <<tx>>[1] = tx
      /\ IsSeq(<<o>>) /\ ToSet(<<o>>) = {o}
  BY OneIs
<1>2. \A i \in 1..1 : i = 1
  OBVIOUS
<1>3. \A i \in 1..Len(<<tx>>) : <<tx>>[i] = tx
  BY <1>1, <1>2, Zenon
<1> DEFINE b == Batch(<<tx>>, TRUE)
<1>4. b.txs = <<tx>> /\ b.again
  BY BatchIs, Zenon
<1> HIDE DEF b
<1>5. ASSUME NEW i \in 1..Len(b.txs)
      PROVE  /\ IsSeq(b.txs[i].ops) /\ b.txs[i].until = w.now + Timeout
             /\ \A q \in ToSet(b.txs[i].ops) : OpBuilt(q, t) /\ (~b.again => q.op \in CloseNames)
  <2>1. b.txs[i] = tx
    BY <1>3, <1>4, Zenon
  <2>2. \A q \in ToSet(<<o>>) : q = o
    BY <1>1
  <2> QED BY <1>1, <1>4, <2>1, <2>2, Zenon
<1>6. RoundFits(b, w, t)
  BY <1>1, <1>4, <1>5, Zenon DEF RoundFits
<1> QED BY <1>6 DEF b

\* The check of the account's own fees.
LEMMA OwnFeesFits ==
  ASSUME NEW s, NEW tx, NEW later, NEW p, NEW round, NEW w, NEW t, RoundFits(round, w, t)
  PROVE  RoundFits(OwnFeesFit(s, tx, later, p, round), w, t)
<1>1. RoundFits(Refuse("close_fee_balance_short"), w, t)
  BY RefuseFits
<1>2. OwnFeesFit(s, tx, later, p, round) \in {Refuse("close_fee_balance_short"), round}
  BY Zenon DEF OwnFeesFit
<1> QED BY <1>1, <1>2, Zenon

\* No round.
LEMMA NoRoundFits == ASSUME NEW w, NEW t PROVE RoundFits(NoRound, w, t)
BY RefuseFits DEF NoRound

\* A Soroban round.
LEMMA SorobanFits ==
  ASSUME NEW s, NEW w, NEW t, NEW o, OpBuilt(o, t)
  PROVE  RoundFits(Batch(<<SorobanTx(s, w, o)>>, TRUE), w, t)
<1>1. SorobanTx(s, w, o).ops = <<o>> /\ SorobanTx(s, w, o).until = w.now + Timeout
  BY DEF SorobanTx
<1> QED BY <1>1, SingleFits, Zenon

\* A step out of a position.
LEMMA ExitRoundFits ==
  ASSUME NEW s, NEW w, NEW t PROVE RoundFits(ExitRound(s, w, answers, payout), w, t)
<1> DEFINE there == InOrder(InOrder(Exits, Positions(s.account)), Positions(w.acct))
           p == Head(there)
<1>1. OpBuilt(Op("exit", p), t)
  BY DEF OpBuilt, OpOK, OpFits, OpNames, Op
<1> DEFINE batch == Batch(<<SorobanTx(s, w, Op("exit", p))>>, TRUE)
<1>2. RoundFits(batch, w, t)
  BY <1>1, SorobanFits
<1>3. \/ ExitRound(s, w, answers, payout) = NoRound
      \/ ExitRound(s, w, answers, payout) = Refuse("defi_exit_blocked")
      \/ \E tx, later : ExitRound(s, w, answers, payout) = OwnFeesFit(s, tx, later, payout, batch)
  <2> HIDE DEF there
  <2> QED BY Zenon DEF ExitRound, there
<1> HIDE DEF batch
<1>4. RoundFits(Refuse("defi_exit_blocked"), w, t)
  BY RefuseFits
<1> QED BY <1>2, <1>3, <1>4, NoRoundFits, OwnFeesFits

\* A token that is due and still held is one of the tokens, answered this way.
LEMMA DueIs ==
  ASSUME NEW s, NEW w, NEW choice, StillHeld(DueTokens(s, answers, choice), w) # <<>>
  PROVE  LET x == Head(StillHeld(DueTokens(s, answers, choice), w)) IN
         x \in TokenSet /\ answers.asset[x] = choice /\ x \in HeldTokens(w.acct)
<1> DEFINE due == DueTokens(s, answers, choice)
           held == StillHeld(due, w)
<1>1. IsSeq(Tokens)
  BY HoldingsAssumption DEF IsSeq, TokenSet
<1>2. IsSeq(due) /\ ToSet(due) = ToSet(Tokens) \cap {x \in HeldTokens(s.account) : answers.asset[x] = choice}
  BY <1>1, KeptIs DEF DueTokens
<1> HIDE DEF due
<1>3. IsSeq(held) /\ ToSet(held) = ToSet(due) \cap HeldTokens(w.acct)
  BY <1>2, KeptIs DEF StillHeld
<1>4. held # <<>>
  BY DEF due
<1> HIDE DEF held
<1>5. Head(held) \in ToSet(held)
  BY <1>3, <1>4, HeadIs
<1> QED BY <1>2, <1>3, <1>5 DEF held, due, TokenSet

\* A token that is sent.
LEMMA TransferRoundFits ==
  ASSUME NEW s, NEW w, WorldOK(w), NEW t, AnswersOK
  PROVE  RoundFits(TokenTransferRound(s, w, answers, payout), w, t)
<1> DEFINE held == StillHeld(DueTokens(s, answers, "transfer"), w)
           x == Head(held)
           o == Moving("sendToken", x, w.acct.tokens[x], "chosen")
           batch == Batch(<<SorobanTx(s, w, o)>>, TRUE)
<1>1. CASE held = <<>>
  <2>1. TokenTransferRound(s, w, answers, payout) = NoRound
    BY <1>1, Zenon DEF TokenTransferRound
  <2> QED BY <2>1, NoRoundFits
<1>2. CASE held # <<>>
  <2>1. x \in TokenSet /\ answers.asset[x] = "transfer"
    BY <1>2, DueIs
  <2>2. \E later : TokenTransferRound(s, w, answers, payout) = OwnFeesFit(s, SorobanTx(s, w, o), later, payout, batch)
    <3> HIDE DEF held
    <3> QED BY <1>2, Zenon DEF TokenTransferRound, held
  <2> HIDE DEF x
  <2>3. w.acct.tokens[x] \in Int
    BY <2>1 DEF WorldOK, AccountOK
  <2>4. OpBuilt(o, t)
    BY <2>1, <2>3 DEF OpBuilt, OpOK, OpFits, OpNames, Op, Moving, Things
  <2>5. RoundFits(batch, w, t)
    <3> HIDE DEF o
    <3> QED BY <2>4, SorobanFits
  <2> HIDE DEF batch, o
  <2> QED BY <2>2, <2>5, OwnFeesFits
<1> QED BY <1>1, <1>2

\* A token that is swapped.
LEMMA ConversionRoundFits ==
  ASSUME NEW s, NEW w, WorldOK(w), NEW t, AnswersOK
  PROVE  RoundFits(TokenConversionRound(s, w, answers, payout), w, t)
<1> DEFINE held == StillHeld(DueTokens(s, answers, "convert"), w)
           x == Head(held)
           least == QuotedLeast(w.rate[x], w.acct.tokens[x])
           o == Swapping("swapToken", x, w.acct.tokens[x], least)
           batch == Batch(<<SorobanTx(s, w, o)>>, TRUE)
           round == TokenConversionRound(s, w, answers, payout)
<1>1. CASE held = <<>>
  <2>1. round = NoRound
    BY <1>1, Zenon DEF TokenConversionRound
  <2> QED BY <2>1, NoRoundFits
<1>2. CASE held # <<>>
  <2>1. x \in TokenSet /\ answers.asset[x] = "convert"
    BY <1>2, DueIs
  <2>2. \/ round \in {Refuse("conversion_floor_missing"), Refuse("soroban_token_route_lost"), Refuse("quote_drifted")}
        \/ /\ ~(least < answers.floor[x])
           /\ \E later : round = OwnFeesFit(s, SorobanTx(s, w, o), later, payout, batch)
    <3> HIDE DEF held
    <3> QED BY <1>2, Zenon DEF TokenConversionRound, held
  <2> HIDE DEF x
  <2>3. w.acct.tokens[x] \in Int /\ w.rate[x] \in Int /\ answers.floor[x] \in Int
    BY <2>1 DEF WorldOK, AccountOK, Things, AnswersOK
  <2>4. least \in Int
    BY <2>3 DEF QuotedLeast
  <2> HIDE DEF least
  <2>5. CASE ~(least < answers.floor[x]) /\ \E later : round = OwnFeesFit(s, SorobanTx(s, w, o), later, payout, batch)
    <3>1. least >= answers.floor[x]
      BY <2>3, <2>4, <2>5
    <3>2. OpBuilt(o, t)
      BY <2>1, <2>3, <2>4, <3>1 DEF OpBuilt, OpOK, OpFits, OpNames, Op, Moving, Swapping, Things
    <3>3. RoundFits(batch, w, t)
      <4> HIDE DEF o
      <4> QED BY <3>2, SorobanFits
    <3> HIDE DEF batch, o, round
    <3> QED BY <2>5, <3>3, OwnFeesFits DEF round
  <2>6. CASE round \in {Refuse("conversion_floor_missing"), Refuse("soroban_token_route_lost"), Refuse("quote_drifted")}
    BY <2>6, RefuseFits
  <2> QED BY <2>2, <2>5, <2>6
<1> QED BY <1>1, <1>2

\* A packed round, given what its operations are.
LEMMA PackFits ==
  ASSUME NEW s, NEW w, NEW ops, IsSeq(ops), NEW t, NEW more \in BOOLEAN,
         \A o \in ToSet(ops) : OpBuilt(o, t) /\ (~more => o.op \in CloseNames),
         Pack(s, w, ops).code = ""
  PROVE  /\ RoundFits(Batch(Pack(s, w, ops).txs, more), w, t)
         /\ ~more => RoundFits(Pack(s, w, ops), w, t)
<1> DEFINE pack == Pack(s, w, ops)
<1>1. /\ IsSeq(pack.txs) /\ ~pack.again
      /\ \A i \in 1..Len(pack.txs) : /\ IsSeq(pack.txs[i].ops) /\ ToSet(pack.txs[i].ops) \subseteq ToSet(ops)
                                     /\ pack.txs[i].until = w.now + Timeout
  BY PackIs
<1> HIDE DEF pack
<1>2. /\ Batch(pack.txs, more).txs = pack.txs /\ Batch(pack.txs, more).again = more
  BY BatchIs
<1>3. RoundFits(Batch(pack.txs, more), w, t)
  BY <1>1, <1>2 DEF RoundFits
<1>4. ~more => RoundFits(pack, w, t)
  BY <1>1 DEF RoundFits
<1> QED BY <1>3, <1>4 DEF pack

\* Where an index falls once a sequence is cut into parts.
LEMMA DivIs ==
  ASSUME NEW m \in Nat, NEW d \in Nat \ {0}, NEW i \in Nat, i * d <= m PROVE i <= m \div d
<1> DEFINE q == m \div d
<1>1. q \in Nat /\ m < (q + 1) * d
  OBVIOUS
<1> HIDE DEF q
<1>2. i * d < (q + 1) * d
  <2>1. i * d \in Nat /\ (q + 1) * d \in Nat
    BY <1>1
  <2> QED BY <1>1, <2>1
<1>3. i < q + 1
  <2>1. \A a, b \in Nat : a >= b => a * d >= b * d
    OBVIOUS
  <2> QED BY <1>1, <1>2, <2>1
<1>4. i <= q
  BY <1>1, <1>3
<1> QED BY <1>4 DEF q

\* Cut into stretches of d, every place of a sequence of length n is in one of them.
LEMMA InStretch ==
  ASSUME NEW n \in Nat, NEW d \in Nat \ {0}, NEW j \in 1..n
  PROVE  \E i \in 1..CeilDiv(n, d) : (i - 1) * d + 1 <= j /\ j <= i * d
<1> DEFINE S == {i \in Nat : j <= i * d}
<1>1. j \in S
  <2>1. \A a \in Nat : a <= a * d
    OBVIOUS
  <2> QED BY <2>1
<1>2. PICK i \in S : \A k \in S : i <= k
  <2> HIDE DEF S
  <2>1. S \subseteq Nat
    BY DEF S
  <2> QED BY <1>1, <2>1, Least
<1>3. i # 0 /\ i \in Nat /\ j <= i * d
  <2>1. ~(j <= 0 * d)
    OBVIOUS
  <2> QED BY <1>2, <2>1
<1>4. i - 1 \in Nat /\ ~(j <= (i - 1) * d)
  BY <1>2, <1>3
<1>5. (i - 1) * d + 1 <= j
  <2>1. (i - 1) * d \in Nat
    BY <1>4
  <2> QED BY <1>4, <2>1
<1>6. i * d <= n + d - 1
  <2>1. i * d = (i - 1) * d + d
    BY <1>3
  <2>2. (i - 1) * d \in Nat
    BY <1>4
  <2> QED BY <1>5, <2>1, <2>2
<1>7. i <= CeilDiv(n, d)
  <2>1. n + d - 1 \in Nat
    OBVIOUS
  <2> QED BY <1>3, <1>6, <2>1, DivIs DEF CeilDiv
<1> QED BY <1>3, <1>5, <1>7, CeilDivIs

\* The next batch is of claims that still exist, and there is one as long as any does.
LEMMA FirstBatchIs ==
  ASSUME NEW claims, IsSeq(claims), NEW w
  PROVE  LET batch == FirstExistingBatch(claims, w) IN
         /\ IsSeq(batch) /\ ToSet(batch) \subseteq ToSet(claims)
         /\ batch = <<>> => ToSet(claims) \cap w.acct.claims = {}
<1> DEFINE n == CeilDiv(Len(claims), ClaimBatch)
           part(i) == SubSeq(claims, (i - 1) * ClaimBatch + 1, Min({i * ClaimBatch, Len(claims)}))
           batches == [i \in 1..n |-> InOrder(part(i), w.acct.claims)]
           left == {i \in DOMAIN batches : batches[i] # <<>>}
<1>1. FirstExistingBatch(claims, w) = IF left = {} THEN <<>> ELSE batches[Min(left)]
  BY Zenon DEF FirstExistingBatch
<1>2. /\ Len(claims) \in Nat /\ ClaimBatch \in Nat \ {0} /\ n \in Nat
      /\ ToSet(claims) = {claims[j] : j \in 1..Len(claims)}
  BY SeqIs, CeilDivIs, LimitsAssumption
<1>3. ASSUME NEW i \in 1..n
      PROVE  /\ IsSeq(part(i)) /\ ToSet(part(i)) \subseteq ToSet(claims)
             /\ \A j \in 1..Len(claims) : ((i - 1) * ClaimBatch + 1 <= j /\ j <= i * ClaimBatch) => claims[j] \in ToSet(part(i))
  <2> DEFINE first == (i - 1) * ClaimBatch + 1
             last == Min({i * ClaimBatch, Len(claims)})
  <2>1. first \in Nat \ {0}
    <3>1. i - 1 \in Nat /\ ClaimBatch \in Nat
      BY <1>2
    <3>2. \A a, b \in Nat : a * b + 1 \in Nat \ {0}
      OBVIOUS
    <3> QED BY <3>1, <3>2
  <2>2. last \in Int /\ last <= Len(claims) /\ last \in {i * ClaimBatch, Len(claims)}
    <3>1. i * ClaimBatch \in Int /\ Len(claims) \in Int
      BY <1>2
    <3> QED BY <3>1, MinIs
  <2> HIDE DEF first, last
  <2>3. /\ IsSeq(SubSeq(claims, first, last)) /\ ToSet(SubSeq(claims, first, last)) \subseteq ToSet(claims)
        /\ \A j \in first..last : claims[j] \in ToSet(SubSeq(claims, first, last))
    BY <2>1, <2>2, PartIs
  <2>4. part(i) = SubSeq(claims, first, last)
    BY DEF first, last
  <2>5. ASSUME NEW j \in 1..Len(claims), (i - 1) * ClaimBatch + 1 <= j, j <= i * ClaimBatch PROVE j \in first..last
    BY <1>2, <2>1, <2>2, <2>5 DEF first
  <2> HIDE DEF part
  <2> QED BY <2>3, <2>4, <2>5
<1> HIDE DEF part
<1>4. \A i \in 1..n : IsSeq(batches[i]) /\ ToSet(batches[i]) = ToSet(part(i)) \cap w.acct.claims
  BY <1>3, KeptIs
<1>5. DOMAIN batches = 1..n
  OBVIOUS
<1> HIDE DEF batches, n
<1>6. CASE left = {}
  <2>1. FirstExistingBatch(claims, w) = <<>>
    BY <1>1, <1>6
  <2>2. ASSUME NEW c \in ToSet(claims) \cap w.acct.claims PROVE FALSE
    <3>1. PICK j \in 1..Len(claims) : claims[j] = c
      BY <1>2, <2>2
    <3>2. PICK i \in 1..n : (i - 1) * ClaimBatch + 1 <= j /\ j <= i * ClaimBatch
      BY <1>2, InStretch DEF n
    <3>3. c \in ToSet(batches[i])
      BY <1>3, <1>4, <3>1, <3>2
    <3>4. batches[i] = <<>>
      BY <1>5, <1>6
    <3> QED BY <3>3, <3>4, EmptyIs
  <2> QED BY <2>1, <2>2, EmptyIs
<1>7. CASE left # {}
  <2>1. left \subseteq Nat
    BY <1>2, <1>5
  <2>2. Min(left) \in left
    <3> HIDE DEF left
    <3>1. PICK m \in left : \A k \in left : m <= k
      BY <1>7, <2>1, Least
    <3> QED BY <3>1 DEF Min
  <2> DEFINE b == batches[Min(left)]
  <2>3. FirstExistingBatch(claims, w) = b /\ b # <<>>
    BY <1>1, <1>7, <2>2
  <2>4. IsSeq(b) /\ ToSet(b) \subseteq ToSet(claims)
    BY <1>3, <1>4, <1>5, <2>2
  <2> HIDE DEF b
  <2> QED BY <2>3, <2>4
<1> QED BY <1>6, <1>7

\* The claims that are due hold through the window.
LEMMA DueClaims ==
  ASSUME NEW k, NEW choice, NEW t, NEW c \in ToSet(InOrder(Claims, Due(k, choice, t)))
  PROVE  ClaimHolds(c, t)
<1>1. IsSeq(Claims)
  BY HoldingsAssumption DEF IsSeq
<1>2. c \in ToSet(Claims) /\ c \in Due(k, choice, t)
  BY <1>1, KeptIs
<1>3. ClaimStatus(k, c, t) \in {"claimable", "needs_trustline"}
  BY <1>2 DEF Due
<1> QED BY <1>2, <1>3 DEF ClaimStatus, ClaimHolds

\* A batch of claims and the lines they need.
LEMMA ClaimRoundFits ==
  ASSUME NEW s, NEW w, NEW t PROVE RoundFits(ClaimRound(s, w, t, answers), w, t)
<1> DEFINE k == s.account
           due == InOrder(Claims, Due(k, answers.claim, t))
           batch == FirstExistingBatch(due, w)
           lines == InOrder(Assets, {ClaimAsset[c] : c \in {d \in ToSet(batch) : ClaimStatus(k, d, t) = "needs_trustline"}})
           ops == Each("addLine", lines) \o Each("claim", batch)
           pack == Pack(s, w, ops)
           round == ClaimRound(s, w, t, answers)
           codes == {"claimable_balance_not_claimable_now", "claimable_balance_reserve_short",
                     "claimable_balances_too_many", "transfer_destination_unusable"}
<1>1. \/ round = NoRound \/ \E code \in codes : round = Refuse(code)
      \/ pack.code # "" /\ round = pack
      \/ pack.code = "" /\ round = Batch(pack.txs, TRUE)
  BY Zenon DEF ClaimRound
<1>2. IsSeq(due)
  BY KeptIs, HoldingsAssumption DEF IsSeq
<1>3. \A c \in ToSet(due) : ClaimHolds(c, t)
  BY DueClaims
<1> HIDE DEF due
<1>4. IsSeq(batch) /\ ToSet(batch) \subseteq ToSet(due)
  BY <1>2, FirstBatchIs
<1> HIDE DEF batch
<1>5. IsSeq(lines)
  BY KeptIs, HoldingsAssumption DEF IsSeq, AssetSet
<1> HIDE DEF lines
<1>6. /\ IsSeq(Each("addLine", lines)) /\ ToSet(Each("addLine", lines)) = {Op("addLine", x) : x \in ToSet(lines)}
      /\ IsSeq(Each("claim", batch)) /\ ToSet(Each("claim", batch)) = {Op("claim", x) : x \in ToSet(batch)}
  BY <1>4, <1>5, EachIs
<1>7. IsSeq(ops) /\ ToSet(ops) = {Op("addLine", x) : x \in ToSet(lines)} \cup {Op("claim", x) : x \in ToSet(batch)}
  BY <1>6, ConcatIs
<1> HIDE DEF ops
<1>8. ASSUME NEW o \in ToSet(ops) PROVE OpBuilt(o, t)
  <2>1. CASE o \in {Op("addLine", x) : x \in ToSet(lines)}
    <3>1. PICK x \in ToSet(lines) : o = Op("addLine", x)
      BY <2>1
    <3>2. o.op = "addLine" /\ o.by = "account"
      BY <3>1 DEF Op
    <3> QED BY <3>2 DEF OpBuilt, OpOK, OpFits, OpNames
  <2>2. CASE o \in {Op("claim", x) : x \in ToSet(batch)}
    <3>1. PICK x \in ToSet(batch) : o = Op("claim", x)
      BY <2>2
    <3>2. o.op = "claim" /\ o.what = x /\ o.by = "account"
      BY <3>1 DEF Op
    <3>3. ClaimHolds(x, t)
      BY <1>3, <1>4, <3>1
    <3> QED BY <3>2, <3>3 DEF OpBuilt, OpOK, OpFits, OpNames
  <2> QED BY <1>7, <2>1, <2>2
<1>9. CASE pack.code # "" /\ round = pack
  BY <1>9 DEF RoundFits
<1>10. CASE pack.code = "" /\ round = Batch(pack.txs, TRUE)
  <2> HIDE DEF round
  <2>1. \A o \in ToSet(ops) : OpBuilt(o, t) /\ (~TRUE => o.op \in CloseNames)
    BY <1>8
  <2>2. IsSeq(ops) /\ pack.code = ""
    BY <1>7, <1>10
  <2>3. RoundFits(Batch(pack.txs, TRUE), w, t)
    BY <2>1, <2>2, PackFits
  <2> QED BY <1>10, <2>3, Zenon DEF round
<1>11. CASE \E code \in codes : round = Refuse(code)
  BY <1>11, RefuseFits
<1>12. CASE round = NoRound
  BY <1>12, NoRoundFits
<1> HIDE DEF round, pack
<1> QED BY <1>1, <1>9, <1>10, <1>11, <1>12

-----------------------------------------------------------------------------
\* The close itself.
LEMMA FundedIs ==
  ASSUME NEW s, NEW w
  PROVE  IsSeq(Funded(s, w)) /\ \A a \in ToSet(Funded(s, w)) : a \in AssetSet /\ LiveBalance(w, a) > 0
<1>1. IsSeq(Assets)
  BY HoldingsAssumption DEF IsSeq, AssetSet
<1> QED BY <1>1, KeptIs DEF Funded, Held

\* What is done with one asset, as it was answered.
LEMMA AssetOpFits ==
  ASSUME NEW w, WorldOK(w), AnswersOK, NEW a \in AssetSet, NEW t,
         Disposed(answers, a) = "convert" => ~(QuotedLeast(w.rate[a], LiveBalance(w, a)) < answers.floor[a])
  PROVE  OpBuilt(AssetOp(w, answers, a), t) /\ AssetOp(w, answers, a).op \in CloseNames
<1> DEFINE n == LiveBalance(w, a)
           least == QuotedLeast(w.rate[a], n)
<1>1. a \in Things /\ w.rate[a] \in Int /\ answers.floor[a] \in Int
  BY DEF Things, WorldOK, AnswersOK
<1>2. n \in Int
  BY DEF LiveBalance, WorldOK, AccountOK
<1> HIDE DEF n
<1>3. least \in Int
  BY <1>1, <1>2 DEF QuotedLeast
<1>4. Disposed(answers, a) \in {"convert", "transfer", "issuer"}
  BY DEF Disposed, AnswersOK
<1> HIDE DEF least
<1>5. CASE Disposed(answers, a) = "convert"
  <2>1. AssetOp(w, answers, a) = Swapping("convert", a, n, least)
    BY <1>5, Zenon DEF AssetOp, n, least
  <2>2. least >= answers.floor[a]
    BY <1>1, <1>3, <1>5 DEF n, least
  <2>3. answers.asset[a] \in {"none", "convert"}
    BY <1>5 DEF Disposed
  <2> QED BY <1>1, <1>2, <1>3, <2>1, <2>2, <2>3 DEF OpBuilt, OpOK, OpFits, OpNames, CloseNames, Swapping, Moving, Op
<1>6. CASE Disposed(answers, a) = "transfer"
  <2>1. AssetOp(w, answers, a) = Moving("pay", a, n, "chosen")
    BY <1>6, Zenon DEF AssetOp, n
  <2>2. answers.asset[a] = "transfer"
    BY <1>6 DEF Disposed
  <2> QED BY <1>1, <1>2, <2>1, <2>2 DEF OpBuilt, OpOK, OpFits, OpNames, CloseNames, Moving, Op
<1>7. CASE Disposed(answers, a) = "issuer"
  <2>1. AssetOp(w, answers, a) = Moving("pay", a, n, "issuer")
    BY <1>7, Zenon DEF AssetOp, n
  <2>2. answers.asset[a] = "issuer"
    BY <1>7 DEF Disposed
  <2> QED BY <1>1, <1>2, <2>1, <2>2 DEF OpBuilt, OpOK, OpFits, OpNames, CloseNames, Moving, Op
<1> QED BY <1>4, <1>5, <1>6, <1>7

\* An operation that only takes something off the account.
LEMMA PlainFits ==
  ASSUME NEW name \in {"removeSigner", "revoke", "removeData", "cancelOffer", "removeLine"}, NEW whats, IsSeq(whats), NEW t
  PROVE  /\ IsSeq(Each(name, whats))
         /\ \A o \in ToSet(Each(name, whats)) : OpBuilt(o, t) /\ o.op \in CloseNames
<1>1. IsSeq(Each(name, whats)) /\ ToSet(Each(name, whats)) = {Op(name, x) : x \in ToSet(whats)}
  BY EachIs
<1>2. ASSUME NEW x PROVE OpBuilt(Op(name, x), t) /\ Op(name, x).op \in CloseNames
  BY DEF OpBuilt, OpOK, OpFits, OpNames, CloseNames, Op
<1> QED BY <1>1, <1>2

\* The operations that take the classic account apart.
LEMMA CloseOpsFit ==
  ASSUME NEW s, NEW w, WorldOK(w), AnswersOK, NEW t,
         \A a \in ToSet(Funded(s, w)) :
           Disposed(answers, a) = "convert" => ~(QuotedLeast(w.rate[a], LiveBalance(w, a)) < answers.floor[a])
  PROVE  /\ IsSeq(CloseOps(s, w, answers, payout))
         /\ \A o \in ToSet(CloseOps(s, w, answers, payout)) : OpBuilt(o, t) /\ o.op \in CloseNames
<1> DEFINE k == s.account
           funded == Funded(s, w)
           Good(ops) == IsSeq(ops) /\ \A o \in ToSet(ops) : OpBuilt(o, t) /\ o.op \in CloseNames
           signers == SignerOps(k)
           revokes == Each("revoke", InOrder(Sponsored, Revocable(k, w)))
           datas == Each("removeData", InOrder(DataKeys, k.data))
           offers == Each("cancelOffer", InOrder(Offers, k.offers))
           assets == [i \in DOMAIN funded |-> AssetOp(w, answers, funded[i])]
           lines == Each("removeLine", InOrder(Assets, Held(k)))
           merge == IF payout = "direct" THEN <<Moving("merge", "xlm", 0, "destination")>> ELSE <<>>
<1>1. CloseOps(s, w, answers, payout) = signers \o revokes \o datas \o offers \o assets \o lines \o merge
  BY Zenon DEF CloseOps
<1>2. /\ IsSeq(Signers) /\ IsSeq(Sponsored) /\ IsSeq(DataKeys) /\ IsSeq(Offers) /\ IsSeq(Assets)
  BY HoldingsAssumption DEF IsSeq, AssetSet
<1>3. /\ IsSeq(InOrder(Signers, k.extra)) /\ IsSeq(InOrder(Sponsored, Revocable(k, w)))
      /\ IsSeq(InOrder(DataKeys, k.data)) /\ IsSeq(InOrder(Offers, k.offers)) /\ IsSeq(InOrder(Assets, Held(k)))
  BY <1>2, KeptIs
<1>4. Good(revokes) /\ Good(datas) /\ Good(offers) /\ Good(lines)
  BY <1>3, PlainFits
<1>5. Good(<<>>)
  BY EmptyIs
<1>6. ASSUME NEW p, NEW q, Good(p), Good(q) PROVE Good(p \o q)
  BY <1>6, ConcatIs
<1>7. Good(signers)
  <2> DEFINE all == <<Moving("setThresholds", "master", 1, "")>>
             each == Each("removeSigner", InOrder(Signers, k.extra))
  <2>1. Good(each)
    BY <1>3, PlainFits
  <2>2. OpBuilt(Moving("setThresholds", "master", 1, ""), t) /\ Moving("setThresholds", "master", 1, "").op \in CloseNames
    BY DEF OpBuilt, OpOK, OpFits, OpNames, CloseNames, Moving, Op
  <2>3. Good(all)
    <3> DEFINE o == Moving("setThresholds", "master", 1, "")
    <3>1. IsSeq(<<o>>) /\ ToSet(<<o>>) = {o} /\ OpBuilt(o, t) /\ o.op \in CloseNames
      BY <2>2, OneIs
    <3> HIDE DEF o
    <3>2. \A q \in ToSet(<<o>>) : q = o
      BY <3>1
    <3>3. \A q \in ToSet(<<o>>) : OpBuilt(q, t) /\ q.op \in CloseNames
      BY <3>1, <3>2, Zenon
    <3> QED BY <3>1, <3>3 DEF o
  <2>4. signers = each \o all \/ signers = <<>>
    BY Zenon DEF SignerOps
  <2> HIDE DEF each, all, Good
  <2> QED BY <1>5, <1>6, <2>1, <2>3, <2>4, Zenon
<1>8. Good(assets)
  <2>1. IsSeq(funded) /\ \A a \in ToSet(funded) : a \in AssetSet
    BY FundedIs
  <2>2. Len(funded) \in Nat /\ DOMAIN funded = 1..Len(funded) /\ \A i \in 1..Len(funded) : funded[i] \in ToSet(funded)
    BY <2>1, SeqIs
  <2>3. \A i \in 1..Len(funded) : OpBuilt(AssetOp(w, answers, funded[i]), t) /\ AssetOp(w, answers, funded[i]).op \in CloseNames
    BY <2>1, <2>2, AssetOpFits
  <2> HIDE DEF funded
  <2> DEFINE S == {AssetOp(w, answers, funded[i]) : i \in 1..Len(funded)}
  <2>4. assets \in [1..Len(funded) -> S]
    BY <2>2
  <2>5. \A o \in S : OpBuilt(o, t) /\ o.op \in CloseNames
    BY <2>3
  <2> HIDE DEF S, assets
  <2>6. assets \in Seq(S)
    BY <2>2, <2>4, SeqDef
  <2> QED BY <2>5, <2>6, InSeq
<1>9. Good(merge)
  <2> DEFINE o == Moving("merge", "xlm", 0, "destination")
  <2>1. OpBuilt(o, t) /\ o.op \in CloseNames
    BY DEF OpBuilt, OpOK, OpFits, OpNames, CloseNames, Moving, Op
  <2> HIDE DEF o
  <2>2. Good(<<o>>)
    BY <2>1, OneIs
  <2>3. merge = <<o>> \/ merge = <<>>
    BY DEF o
  <2> HIDE DEF Good
  <2> QED BY <1>5, <2>2, <2>3, Zenon
<1>10. Good(CloseOps(s, w, answers, payout))
  <2> HIDE DEF Good, signers, revokes, datas, offers, assets, lines, merge
  <2> QED BY <1>1, <1>4, <1>6, <1>7, <1>8, <1>9
<1> QED BY <1>10

\* The merge into an intermediary and what it hands on.
LEMMA MediatorMergeFits ==
  ASSUME NEW s, NEW w, NEW t, payout = "mediator" PROVE RoundFits(MediatorMerge(s, w), w, t)
<1> DEFINE out == Moving("merge", "xlm", 0, "mediator")
           on == [Moving("forward", "xlm", s.account.xlm - MediatorFee, "destination") EXCEPT !.by = "mediator"]
           tx == [ops |-> <<out, on>>, fee |-> MediatorFee, sponsored |-> FALSE, seq |-> s.account.seq,
                  until |-> w.now + Timeout, memo |-> "memo"]
           batch == Batch(<<tx>>, FALSE)
<1>1. MediatorMerge(s, w) \in {Refuse("close_fee_balance_short"), batch}
  BY Zenon DEF MediatorMerge
<1>2. OpBuilt(out, t) /\ out.op \in CloseNames
  BY DEF OpBuilt, OpOK, OpFits, OpNames, CloseNames, Moving, Op
<1>3. OpBuilt(on, t) /\ on.op \in CloseNames
  BY DEF OpBuilt, OpOK, OpFits, OpNames, CloseNames, Moving, Op
<1> HIDE DEF out, on
<1>4. IsSeq(<<out, on>>) /\ ToSet(<<out, on>>) = {out, on}
  BY DEF IsSeq, ToSet
<1>5. \A o \in ToSet(<<out, on>>) : OpBuilt(o, t) /\ o.op \in CloseNames
  <2>1. \A o \in ToSet(<<out, on>>) : o = out \/ o = on
    BY <1>4
  <2> QED BY <1>2, <1>3, <2>1, Zenon
<1>6. tx.ops = <<out, on>> /\ tx.until = w.now + Timeout
  OBVIOUS
<1> HIDE DEF tx
<1>7. IsSeq(<<tx>>) /\ \A i \in 1..Len(<<tx>>) : <<tx>>[i] = tx
  <2>1. \A i \in 1..1 : i = 1
    OBVIOUS
  <2> QED BY <2>1, OneIs, Zenon
<1>8. batch.txs = <<tx>> /\ ~batch.again
  BY BatchIs, Zenon
<1> HIDE DEF batch
<1>9. RoundFits(batch, w, t)
  BY <1>4, <1>5, <1>6, <1>7, <1>8, Zenon DEF RoundFits
<1> QED BY <1>1, <1>9, RefuseFits

\* The last round.
LEMMA CloseRoundFits ==
  ASSUME NEW s, NEW w, WorldOK(w), AnswersOK, payout \in {"direct", "mediator"}, NEW t
  PROVE  RoundFits(CloseRound(s, w, answers, payout), w, t)
<1> DEFINE converted == {a \in ToSet(Funded(s, w)) : Disposed(answers, a) = "convert"}
           ops == CloseOps(s, w, answers, payout)
           pack == Pack(s, w, ops)
           round == CloseRound(s, w, answers, payout)
           drifted == \E a \in converted : QuotedLeast(w.rate[a], LiveBalance(w, a)) < answers.floor[a]
           codes == {"asset_route_lost", "quote_drifted", "transfer_destination_unusable", "close_fee_balance_short"}
<1>1. \/ \E code \in codes : round = Refuse(code)
      \/ /\ ~drifted
         /\ \/ pack.code # "" /\ round = pack
            \/ /\ pack.code = ""
               /\ \/ round = pack
                  \/ Len(pack.txs) > 1 /\ round = Batch(<<Head(pack.txs)>>, TRUE)
                  \/ payout # "direct" /\ round = MediatorMerge(s, w)
                  \/ round = Batch(pack.txs, TRUE)
  BY Zenon DEF CloseRound
<1>2. CASE \E code \in codes : round = Refuse(code)
  BY <1>2, RefuseFits
<1>3. CASE pack.code # "" /\ round = pack
  BY <1>3 DEF RoundFits
<1>4. CASE payout # "direct" /\ round = MediatorMerge(s, w)
  <2> HIDE DEF round
  <2> QED BY <1>4, MediatorMergeFits DEF round
<1>5. ASSUME ~drifted PROVE IsSeq(ops) /\ \A o \in ToSet(ops) : OpBuilt(o, t) /\ o.op \in CloseNames
  <2>1. \A a \in ToSet(Funded(s, w)) :
           Disposed(answers, a) = "convert" => ~(QuotedLeast(w.rate[a], LiveBalance(w, a)) < answers.floor[a])
    BY <1>5
  <2> QED BY <2>1, CloseOpsFit
<1> HIDE DEF ops, drifted
<1>6. ASSUME ~drifted, pack.code = "", NEW more \in BOOLEAN
      PROVE  RoundFits(Batch(pack.txs, more), w, t) /\ (~more => RoundFits(pack, w, t))
  <2>1. IsSeq(ops) /\ \A o \in ToSet(ops) : OpBuilt(o, t) /\ (~more => o.op \in CloseNames)
    BY <1>5, <1>6
  <2> QED BY <1>6, <2>1, PackFits, Zenon
<1>7. CASE ~drifted /\ pack.code = "" /\ round = pack
  <2>1. RoundFits(pack, w, t)
    <3>1. FALSE \in BOOLEAN /\ ~FALSE
      OBVIOUS
    <3> QED BY <1>6, <1>7, <3>1, Zenon
  <2> QED BY <1>7, <2>1, Zenon
<1>8. CASE ~drifted /\ pack.code = "" /\ round = Batch(pack.txs, TRUE)
  <2>1. RoundFits(Batch(pack.txs, TRUE), w, t)
    <3>1. TRUE \in BOOLEAN
      OBVIOUS
    <3> QED BY <1>6, <1>8, <3>1, Zenon
  <2> QED BY <1>8, <2>1, Zenon
<1>9. CASE ~drifted /\ pack.code = "" /\ Len(pack.txs) > 1 /\ round = Batch(<<Head(pack.txs)>>, TRUE)
  <2> DEFINE all == Batch(pack.txs, TRUE)
             txs == pack.txs
             first == Head(txs)
             one == Batch(<<first>>, TRUE)
  <2>0. round = one
    <3> HIDE DEF round
    <3> QED BY <1>9, Zenon
  <2>1. RoundFits(all, w, t) /\ all.code = "" /\ all.txs = txs /\ all.again
    <3>1. TRUE \in BOOLEAN
      OBVIOUS
    <3>2. RoundFits(Batch(pack.txs, TRUE), w, t)
      BY <1>6, <1>9, <3>1, Zenon
    <3> HIDE DEF txs
    <3>3. Batch(txs, TRUE).code = "" /\ Batch(txs, TRUE).txs = txs /\ Batch(txs, TRUE).again
      BY BatchIs
    <3> QED BY <3>2, <3>3, Zenon DEF txs
  <2> HIDE DEF all, txs
  <2>2. /\ IsSeq(txs)
        /\ \A i \in 1..Len(txs) :
             /\ IsSeq(txs[i].ops) /\ txs[i].until = w.now + Timeout
             /\ \A o \in ToSet(txs[i].ops) : OpBuilt(o, t)
    BY <2>1 DEF RoundFits
  <2>3. txs # <<>>
    <3>1. Len(txs) > 1
      BY <1>9 DEF txs
    <3> QED BY <3>1, EmptyIs
  <2>4. first = txs[1] /\ 1 \in 1..Len(txs)
    BY <2>2, <2>3, HeadIs
  <2> HIDE DEF first
  <2>5. IsSeq(<<first>>) /\ \A i \in 1..Len(<<first>>) : <<first>>[i] = first
    <3>1. \A i \in 1..1 : i = 1
      OBVIOUS
    <3> QED BY <3>1, OneIs, Zenon
  <2>6. one.txs = <<first>> /\ one.again
    BY BatchIs, Zenon
  <2> HIDE DEF one
  <2>7. RoundFits(one, w, t)
    <3>1. IsSeq(first.ops) /\ first.until = w.now + Timeout /\ \A o \in ToSet(first.ops) : OpBuilt(o, t)
      BY <2>2, <2>4
    <3> QED BY <2>5, <2>6, <3>1, Zenon DEF RoundFits
  <2> HIDE DEF round, pack
  <2> QED BY <2>0, <2>7 DEF round
<1> HIDE DEF round, pack
<1> QED BY <1>1, <1>2, <1>3, <1>4, <1>7, <1>8, <1>9 DEF round

\* Every round of the builder keeps to the answers; one that is the last leaves claims, tokens and
\* positions alone, and holds no claim that cannot run throughout the time it is valid.
LEMMA BuildFits ==
  ASSUME NEW s, NEW w, WorldOK(w), AnswersOK, payout \in {"direct", "mediator"}, NEW t
  PROVE  RoundFits(BuildRound(s, w, t, answers, payout), w, t)
<1>1. BuildRound(s, w, t, answers, payout) \in
        {ExitRound(s, w, answers, payout), TokenTransferRound(s, w, answers, payout),
         TokenConversionRound(s, w, answers, payout), ClaimRound(s, w, t, answers), CloseRound(s, w, answers, payout)}
  BY Zenon DEF BuildRound
<1>2. RoundFits(ExitRound(s, w, answers, payout), w, t)
  BY ExitRoundFits
<1>3. RoundFits(TokenTransferRound(s, w, answers, payout), w, t)
  BY TransferRoundFits
<1>4. RoundFits(TokenConversionRound(s, w, answers, payout), w, t)
  BY ConversionRoundFits
<1>5. RoundFits(ClaimRound(s, w, t, answers), w, t)
  BY ClaimRoundFits
<1>6. RoundFits(CloseRound(s, w, answers, payout), w, t)
  BY CloseRoundFits
<1> QED BY <1>1, <1>2, <1>3, <1>4, <1>5, <1>6

-----------------------------------------------------------------------------
\* A reading of the account, and the answers to it.
LEMMA ReadingIs ==
  ASSUME NEW w, WorldOK(w)
  PROVE  LET k == Reading(w).account IN
         /\ k.tokens = w.acct.tokens /\ k.exits = w.acct.exits /\ k.lines = w.acct.lines
         /\ IsFiniteSet(k.claims)
         /\ (~Reading(w).more) => k.claims = ToSet(Claims) \cap w.acct.claims
<1> DEFINE seen == InOrder(Claims, w.acct.claims)
           last == Min({Len(seen), ReadCeiling})
           part == SubSeq(seen, 1, last)
<1>1. IsSeq(seen) /\ ToSet(seen) = ToSet(Claims) \cap w.acct.claims
  BY KeptIs, HoldingsAssumption DEF IsSeq
<1>2. Reading(w).account = [w.acct EXCEPT !.claims = ToSet(part)] /\ Reading(w).more = (Len(seen) > ReadCeiling)
  BY DEF Reading
<1> HIDE DEF seen
<1>3. Len(seen) \in Nat /\ ReadCeiling \in Nat
  BY <1>1, SeqIs, LimitsAssumption
<1>4. last \in {Len(seen), ReadCeiling} /\ last <= Len(seen) /\ last <= ReadCeiling
  <2>1. Len(seen) \in Int /\ ReadCeiling \in Int
    BY <1>3
  <2> QED BY <2>1, MinIs, Zenon
<1>5. last \in Int /\ (Len(seen) <= ReadCeiling => last = Len(seen))
  <2> HIDE DEF last
  <2> QED BY <1>3, <1>4
<1> HIDE DEF last
<1>6. /\ IsSeq(part) /\ ToSet(part) \subseteq ToSet(seen)
      /\ \A j \in 1..last : seen[j] \in ToSet(part)
  BY <1>1, <1>4, <1>5, PartIs
<1>7. IsFiniteSet(ToSet(part))
  <2>0. IsSeq(part)
    BY <1>6
  <2> HIDE DEF part
  <2>1. \A c \in ToSet(part) : \E j \in 1..Len(part) : part[j] = c
    BY <2>0, SeqIs
  <2>2. part \in Seq(ToSet(part))
    BY <2>0 DEF IsSeq
  <2> QED BY <2>1, <2>2 DEF IsFiniteSet
<1>8. Len(seen) <= ReadCeiling => ToSet(part) = ToSet(seen)
  <2> SUFFICES ASSUME Len(seen) <= ReadCeiling, NEW c \in ToSet(seen) PROVE c \in ToSet(part)
    BY <1>6
  <2>1. PICK j \in 1..Len(seen) : seen[j] = c
    BY <1>1, SeqIs
  <2> QED BY <1>5, <1>6, <2>1
<1> HIDE DEF part
<1>9. "claims" \in DOMAIN w.acct
  BY DEF WorldOK, AccountOK
<1> DEFINE k == Reading(w).account
<1>10. k.tokens = w.acct.tokens /\ k.exits = w.acct.exits /\ k.lines = w.acct.lines /\ k.claims = ToSet(part)
  BY <1>2, <1>9
<1>11. ~Reading(w).more => Len(seen) <= ReadCeiling
  <2>1. ASSUME ~Reading(w).more PROVE ~(Len(seen) > ReadCeiling)
    BY <1>2, <2>1, Zenon
  <2> QED BY <1>3, <2>1
<1> HIDE DEF k
<1>12. ~Reading(w).more => k.claims = ToSet(Claims) \cap w.acct.claims
  BY <1>1, <1>8, <1>10, <1>11
<1> QED BY <1>7, <1>10, <1>12 DEF k

\* The answers a caller can give.
LEMMA AnswersTyped ==
  ASSUME NEW w, WorldOK(w), NEW a \in Answers(w, Reading(w))
  PROVE  /\ a.floor \in [Things -> Int]
         /\ \A x \in AssetSet : a.asset[x] \in {"none", "convert", "transfer", "issuer"}
         /\ \A x \in TokenSet : a.asset[x] \in {"none", "convert", "transfer", "leave"}
<1> DEFINE s == Reading(w)
<1>1. PICK choice, asset :
        /\ a = [claim |-> choice, asset |-> asset, partial |-> s.more,
                floor |-> [x \in Things |-> IF asset[x] = "convert"
                                            THEN QuotedLeast(w.rate[x], QuotedAmount(s, choice, x)) ELSE 0]]
        /\ \A x \in Things : IF x \in AskedAbout(s, choice) THEN asset[x] \in AssetOptions(w, s, x) ELSE asset[x] = "none"
  BY DEF Answers
<1>2. s.account.tokens = w.acct.tokens /\ s.account.lines = w.acct.lines /\ IsFiniteSet(s.account.claims)
  BY ReadingIs
<1> HIDE DEF s
<1>3. a.asset = asset /\ a.floor = [x \in Things |-> IF asset[x] = "convert"
                                                    THEN QuotedLeast(w.rate[x], QuotedAmount(s, choice, x)) ELSE 0]
  BY <1>1
<1>4. ASSUME NEW x \in Things PROVE QuotedLeast(w.rate[x], QuotedAmount(s, choice, x)) \in Int
  <2>1. w.rate[x] \in Int
    BY DEF WorldOK
  <2>2. QuotedAmount(s, choice, x) \in Int
    <3>1. CASE x \in TokenSet
      BY <1>2, <3>1 DEF QuotedAmount, WorldOK, AccountOK
    <3>2. CASE x \notin TokenSet
      <4>1. x \in AssetSet
        BY <3>2 DEF Things
      <4>2. s.account.lines[x].balance \in Int
        BY <1>2, <4>1 DEF WorldOK, AccountOK
      <4> DEFINE paying == {c \in Due(s.account, choice, s.time) : ClaimAsset[c] = x}
      <4>3. IsFiniteSet(paying)
        <5>1. paying \subseteq s.account.claims
          BY DEF Due
        <5> HIDE DEF paying
        <5> QED BY <1>2, <5>1, FS_Subset
      <4>4. Cardinality(paying) \in Nat
        <5> HIDE DEF paying
        <5> QED BY <4>3, FS_CardinalityType
      <4>5. QuotedAmount(s, choice, x) = s.account.lines[x].balance + Cardinality(paying)
        BY <3>2 DEF QuotedAmount, ClaimedAmount
      <4> HIDE DEF paying
      <4> QED BY <4>2, <4>4, <4>5
    <3> QED BY <3>1, <3>2
  <2> QED BY <2>1, <2>2 DEF QuotedLeast
<1>5. a.floor \in [Things -> Int]
  <2> DEFINE floor(x) == IF asset[x] = "convert" THEN QuotedLeast(w.rate[x], QuotedAmount(s, choice, x)) ELSE 0
  <2>1. \A x \in Things : floor(x) \in Int
    BY <1>4
  <2>2. a.floor = [x \in Things |-> floor(x)]
    BY <1>3
  <2> HIDE DEF floor
  <2> QED BY <2>1, <2>2
<1>6. ASSUME NEW x \in AssetSet PROVE asset[x] \in {"none", "convert", "transfer", "issuer"}
  <2>1. x \in Things /\ x \notin TokenSet
    BY HoldingsAssumption DEF Things
  <2> QED BY <1>1, <2>1 DEF AssetOptions
<1>7. ASSUME NEW x \in TokenSet PROVE asset[x] \in {"none", "convert", "transfer", "leave"}
  <2>1. x \in Things
    BY DEF Things
  <2> QED BY <1>1, <2>1 DEF AssetOptions
<1> QED BY <1>3, <1>5, <1>6, <1>7

-----------------------------------------------------------------------------
(* The inductive invariant. *)

Placed ==
  /\ payout \in {"direct", "mediator"} /\ (~sound => planned)
  /\ phase \in {"plan", "ask", "read", "confirmed", "sending", "closed", "stopped"}
  /\ WorldOK(world)
  /\ phase = "plan" => world.left = {} /\ ~world.acct.merged
  /\ phase \notin {"plan", "stopped"} => AnswersOK

\* Every transaction still to be signed keeps to the answers, unless the browser is there to check it.
QueueFits ==
  phase = "sending" =>
    /\ IsSeq(queue)
    /\ \A i \in 1..Len(queue) :
         /\ IsSeq(queue[i].ops)
         /\ \A o \in ToSet(queue[i].ops) : OpOK(o) /\ (~planned => OpFits(o))

\* The predicate of a claim to be sent was looked at no later than now, and far enough ahead.
Timely ==
  /\ phase = "confirmed" => /\ ledgerTime \in Int /\ ledgerTime <= world.now
                            /\ world.now <= ledgerTime + (ClaimMargin - Timeout)
  /\ phase = "sending" =>
       \A i \in 1..Len(queue) : \A o \in ToSet(queue[i].ops) :
         o.op = "claim" => \E t \in Int : /\ ClaimHolds(o.what, t) /\ t <= world.now
                                          /\ queue[i].until \in Int /\ queue[i].until <= t + ClaimMargin

\* A claim that is gone does not come back.
ClaimsAreOnce ==
  /\ world.acct.claims \cup world.coming \subseteq ToSet(Claims)
  /\ world.acct.claims \cap world.coming = {} /\ shown \cap world.coming = {}

\* What the round goes by is what the account still holds, and every token of it has its answer.
AsRead ==
  phase \in {"read", "confirmed"} =>
    /\ reading.account.tokens = world.acct.tokens /\ reading.account.exits = world.acct.exits
    /\ (~reading.more) => reading.account.claims = shown
    /\ \A x \in TokenSet : world.acct.tokens[x] > 0 => answers.asset[x] # "none"

NothingOpen ==
  /\ \A c \in shown \cap world.acct.claims : answers.claim[c] = "forfeit"
  /\ \A x \in TokenSet : world.acct.tokens[x] > 0 => answers.asset[x] = "leave"
  /\ Positions(world.acct) = {}

\* Once the last round is built only the classic account is left to take apart.
LastRound ==
  (sound /\ (phase = "closed" \/ (phase = "sending" /\ ~again))) =>
    /\ NothingOpen
    /\ phase = "sending" => \A i \in 1..Len(queue) : \A o \in ToSet(queue[i].ops) : o.op \in CloseNames

RoundsInv ==
  /\ Placed /\ QueueFits /\ Timely /\ ClaimsAreOnce /\ AsRead /\ LastRound
  /\ FundsGoAsAnswered /\ BalanceReachesDestination

-----------------------------------------------------------------------------
\* A close starts within the invariant.
LEMMA RoundsInit == Init => RoundsInv
<1> SUFFICES ASSUME Init PROVE RoundsInv
  OBVIOUS
<1>1. PICK start \in Starts : world = start.world /\ payout = start.payout /\ sound = start.sound
  BY DEF Init
<1>2. /\ world \in WorldRecord /\ payout \in {"direct", "mediator"} /\ sound \in BOOLEAN
      /\ ~world.acct.merged /\ world.acct.claims \cap world.coming = {}
  BY <1>1, StartsAssumption
<1>3. phase = "plan" /\ planned \in (IF sound THEN BOOLEAN ELSE {TRUE}) /\ shown = {}
  BY DEF Init
<1>4. world.acct \in AccountRecord /\ world.left = {} /\ world.now \in Int /\ world.coming \subseteq ToSet(Claims)
  BY <1>2 DEF WorldRecord
<1>5. AccountOK(world.acct) /\ world.acct.claims \subseteq ToSet(Claims)
  BY <1>4 DEF AccountRecord, AccountOK
<1>6. WorldOK(world)
  BY <1>2, <1>4, <1>5 DEF WorldRecord, WorldOK
<1>7. Placed
  BY <1>2, <1>3, <1>4, <1>6 DEF Placed
<1>8. QueueFits /\ Timely /\ AsRead /\ LastRound
  BY <1>3 DEF QueueFits, Timely, AsRead, LastRound
<1>9. ClaimsAreOnce
  BY <1>2, <1>3, <1>4, <1>5 DEF ClaimsAreOnce
<1>10. FundsGoAsAnswered /\ BalanceReachesDestination
  BY <1>2, <1>4 DEF FundsGoAsAnswered, BalanceReachesDestination
<1> QED BY <1>7, <1>8, <1>9, <1>10 DEF RoundsInv

\* The caller's answers.
LEMMA AnswerKeeps == ASSUME RoundsInv, Answer PROVE RoundsInv'
<1>1. /\ phase = "plan" /\ WorldOK(world) /\ world.left = {} /\ ~world.acct.merged
      /\ payout \in {"direct", "mediator"} /\ (~sound => planned)
  BY DEF Answer, RoundsInv, Placed
<1>2. UNCHANGED <<world, payout, planned, sound, shown>>
  BY DEF Answer
<1>3. \/ phase' = "stopped"
      \/ phase' = "ask" /\ answers' \in Answers(world, Reading(world))
  BY DEF Answer, Stop
<1>4. ClaimsAreOnce'
  BY <1>2 DEF RoundsInv, ClaimsAreOnce
<1>5. phase' = "ask" => AnswersOK'
  <2> SUFFICES ASSUME phase' = "ask" PROVE AnswersOK'
    OBVIOUS
  <2>1. PICK a : a = answers' /\ a \in Answers(world, Reading(world))
    BY <1>3
  <2>2. PICK w : w = world
    OBVIOUS
  <2>3. /\ a.floor \in [Things -> Int]
        /\ \A x \in AssetSet : a.asset[x] \in {"none", "convert", "transfer", "issuer"}
        /\ \A x \in TokenSet : a.asset[x] \in {"none", "convert", "transfer", "leave"}
    BY <1>1, <2>1, AnswersTyped
  <2> QED BY <2>1, <2>3 DEF AnswersOK
<1>6. Placed'
  BY <1>1, <1>2, <1>3, <1>5 DEF Placed
<1>7. QueueFits' /\ Timely' /\ AsRead' /\ LastRound'
  BY <1>3 DEF QueueFits, Timely, AsRead, LastRound
<1>8. FundsGoAsAnswered' /\ BalanceReachesDestination'
  BY <1>1, <1>2 DEF FundsGoAsAnswered, BalanceReachesDestination
<1> QED BY <1>4, <1>6, <1>7, <1>8 DEF RoundsInv

\* What a step that only moves the close along keeps.
LEMMA StillFits ==
  ASSUME RoundsInv, UNCHANGED <<world, payout, planned, sound, reviewed, answers>>, phase # "plan", phase # "stopped",
         phase' \in {"ask", "read", "confirmed", "sending", "closed", "stopped"}
  PROVE  Placed' /\ FundsGoAsAnswered' /\ BalanceReachesDestination'
<1>1. AnswersOK'
  BY DEF RoundsInv, Placed, AnswersOK
<1>2. Placed'
  BY <1>1 DEF RoundsInv, Placed
<1>3. FundsGoAsAnswered'
  BY DEF RoundsInv, FundsGoAsAnswered
<1>4. BalanceReachesDestination'
  BY DEF RoundsInv, BalanceReachesDestination
<1> QED BY <1>2, <1>3, <1>4

\* The indices of the seven gates.
LEMMA OfSeven == 7 \in Nat /\ 2 \in 1..7 /\ \A n \in Nat : 1..n \subseteq Nat
OBVIOUS

\* A gate that refuses is what the answer names.
LEMMA NoneRefuses ==
  ASSUME NEW gates, NEW n \in Nat, DOMAIN gates = 1..n, \A i \in 1..n : gates[i].code # "", FirstBad(gates) = ""
  PROVE  \A i \in 1..n : ~gates[i].refuse
<1> DEFINE bad == {i \in DOMAIN gates : gates[i].refuse}
<1>1. FirstBad(gates) = IF bad = {} THEN "" ELSE gates[Min(bad)].code
  BY Zenon DEF FirstBad
<1>2. SUFFICES ASSUME bad # {} PROVE FALSE
  OBVIOUS
<1>3. bad \subseteq 1..n
  OBVIOUS
<1> HIDE DEF bad
<1>4. PICK m \in bad : \A k \in bad : m <= k
  <2>1. 1..n \subseteq Nat
    BY OfSeven, Zenon
  <2>2. bad \subseteq Nat
    BY <1>3, <2>1, Zenon
  <2> QED BY <1>2, <2>2, Least, Zenon
<1>5. Min(bad) \in bad
  BY <1>4 DEF Min
<1> QED BY <1>1, <1>2, <1>3, <1>5

\* The code of the gate of unanswered decisions is not the empty one.
LEMMA CodesAre ==
  \A code \in {"claimable_balance_not_claimable_now", "needs_decisions", "source_sequence_too_far",
               "merge_destination_unusable", "transfer_destination_unusable", "signer_normalization_unsafe",
               "trustline_blocked"} : code # ""
OBVIOUS

\* The fields of a gate.
LEMMA GateIs ==
  ASSUME NEW c, NEW r PROVE [code |-> c, refuse |-> r].code = c /\ [code |-> c, refuse |-> r].refuse = r
OBVIOUS

\* The gates of Refusal, by their index.
LEMMA SevenAre ==
  ASSUME NEW g1, NEW g2, NEW g3, NEW g4, NEW g5, NEW g6, NEW g7
  PROVE  LET g == <<g1, g2, g3, g4, g5, g6, g7>> IN
         DOMAIN g = 1..7 /\ g[2] = g2 /\ \A i \in 1..7 : g[i] \in {g1, g2, g3, g4, g5, g6, g7}
OBVIOUS

\* A request that is let through has an answer for every token it holds.
LEMMA NotRefused ==
  ASSUME NEW w, NEW s, Refusal(w, s, answers, payout) = "", NEW x \in HeldTokens(s.account)
  PROVE  answers.asset[x] # "none"
<1> DEFINE k == s.account
           choice == answers.claim
           unanswered == \/ \E y \in NeedsDisposition(s, choice) : answers.asset[y] = "none"
                         \/ \E c \in k.claims : ClaimStatus(k, c, s.time) # "claimable" /\ choice[c] = "none"
<1> DEFINE gate(code, refuse) == [code |-> code, refuse |-> refuse]
<1>1. PICK r1, r3, r4, r5, r6, r7 :
        Refusal(w, s, answers, payout) = FirstBad(<<
          gate("claimable_balance_not_claimable_now", r1), gate("needs_decisions", unanswered),
          gate("source_sequence_too_far", r3), gate("merge_destination_unusable", r4),
          gate("transfer_destination_unusable", r5), gate("signer_normalization_unsafe", r6),
          gate("trustline_blocked", r7) >>)
  BY Zenon DEF Refusal
<1> DEFINE g1 == gate("claimable_balance_not_claimable_now", r1)
           g2 == gate("needs_decisions", unanswered)
           g3 == gate("source_sequence_too_far", r3)
           g4 == gate("merge_destination_unusable", r4)
           g5 == gate("transfer_destination_unusable", r5)
           g6 == gate("signer_normalization_unsafe", r6)
           g7 == gate("trustline_blocked", r7)
           gates == <<g1, g2, g3, g4, g5, g6, g7>>
<1> HIDE DEF unanswered
<1> HIDE DEF gate
<1>2. \A g \in {g1, g2, g3, g4, g5, g6, g7} : g.code # ""
  <2>1. \A c, r : gate(c, r).code = c
    BY GateIs, Zenon DEF gate
  <2>2. /\ g1.code # "" /\ g2.code # "" /\ g3.code # "" /\ g4.code # "" /\ g5.code # "" /\ g6.code # ""
        /\ g7.code # ""
    BY <2>1, CodesAre, Zenon
  <2> HIDE DEF g1, g2, g3, g4, g5, g6, g7
  <2> QED BY <2>2, Zenon
<1>3. g2.refuse = unanswered /\ 2 \in 1..7
  <2>1. gate("needs_decisions", unanswered).refuse = unanswered
    BY GateIs, Zenon DEF gate
  <2> QED BY <2>1, OfSeven, Zenon
<1>4. FirstBad(gates) = ""
  BY <1>1
<1> HIDE DEF g1, g2, g3, g4, g5, g6, g7
<1>7. DOMAIN gates = 1..7 /\ gates[2] = g2 /\ \A i \in 1..7 : gates[i].code # ""
  <2>1. DOMAIN gates = 1..7 /\ gates[2] = g2 /\ \A i \in 1..7 : gates[i] \in {g1, g2, g3, g4, g5, g6, g7}
    BY SevenAre, Zenon
  <2> QED BY <1>2, <2>1, Zenon
<1> HIDE DEF gates
<1>5. ~unanswered
  <2> QED BY <1>3, <1>4, <1>7, OfSeven, NoneRefuses, Zenon
<1>6. x \in NeedsDisposition(s, choice)
  BY DEF NeedsDisposition
<1> QED BY <1>5, <1>6 DEF unanswered

\* The account is read.
LEMMA ReadKeeps == ASSUME RoundsInv, Read PROVE RoundsInv'
<1>1. phase = "ask" /\ WorldOK(world)
  BY DEF Read, RoundsInv, Placed
<1>2. UNCHANGED <<world, payout, planned, sound, reviewed, answers>> /\ shown' = world.acct.claims
  BY DEF Read
<1>3. \/ phase' = "stopped"
      \/ /\ phase' = "read" /\ reading' = Reading(world)
         /\ Refusal(world, Reading(world), answers, payout) = ""
  BY DEF Read, Stop
<1>4. Placed' /\ FundsGoAsAnswered' /\ BalanceReachesDestination'
  <2>1. phase' \in {"ask", "read", "confirmed", "sending", "closed", "stopped"}
    BY <1>3
  <2> QED BY <1>1, <1>2, <2>1, StillFits
<1>5. QueueFits' /\ Timely' /\ LastRound'
  <2>1. phase' \in {"stopped", "read"}
    BY <1>3
  <2> QED BY <2>1 DEF QueueFits, Timely, LastRound
<1>6. ClaimsAreOnce'
  BY <1>2 DEF RoundsInv, ClaimsAreOnce
<1>7. AsRead'
  <2> SUFFICES ASSUME phase' = "read" PROVE AsRead'
    BY <1>3 DEF AsRead
  <2>1. reading' = Reading(world) /\ Refusal(world, Reading(world), answers, payout) = ""
    BY <1>3
  <2>2. /\ reading'.account.tokens = world.acct.tokens /\ reading'.account.exits = world.acct.exits
        /\ (~reading'.more) => reading'.account.claims = ToSet(Claims) \cap world.acct.claims
    BY <1>1, <2>1, ReadingIs, Zenon
  <2>3. world.acct.claims \subseteq ToSet(Claims)
    BY DEF RoundsInv, ClaimsAreOnce
  <2>4. ToSet(Claims) \cap world.acct.claims = world.acct.claims
    BY <2>3
  <2>5. \A x \in HeldTokens(reading'.account) : answers.asset[x] # "none"
    BY <2>1, NotRefused, Zenon
  <2>6. \A x \in TokenSet : world.acct.tokens[x] > 0 => answers.asset[x] # "none"
    BY <2>2, <2>5 DEF HeldTokens
  <2> QED BY <1>2, <2>2, <2>4, <2>6, Zenon DEF AsRead
<1> QED BY <1>4, <1>5, <1>6, <1>7 DEF RoundsInv

\* The reading is confirmed, and from then on the ledger time counts.
LEMMA ConfirmKeeps == ASSUME RoundsInv, Confirm PROVE RoundsInv'
<1>1. phase = "read" /\ WorldOK(world)
  BY DEF Confirm, RoundsInv, Placed
<1>2. UNCHANGED <<world, payout, planned, sound, reviewed, answers, shown>>
  BY DEF Confirm
<1>3. \/ phase' \in {"ask", "stopped"}
      \/ phase' = "confirmed" /\ ledgerTime' = world.now /\ reading' = reading
  BY DEF Confirm, Stop
<1>4. Placed' /\ FundsGoAsAnswered' /\ BalanceReachesDestination'
  <2>1. phase' \in {"ask", "read", "confirmed", "sending", "closed", "stopped"}
    BY <1>3
  <2> QED BY <1>1, <1>2, <2>1, StillFits
<1>5. QueueFits' /\ LastRound'
  <2>1. phase' \in {"ask", "stopped", "confirmed"}
    BY <1>3
  <2> QED BY <2>1 DEF QueueFits, LastRound
<1>6. ClaimsAreOnce'
  BY <1>2 DEF RoundsInv, ClaimsAreOnce
<1>7. Timely'
  <2>1. CASE phase' \in {"ask", "stopped"}
    BY <2>1 DEF Timely
  <2>2. CASE phase' = "confirmed" /\ ledgerTime' = world.now
    <3>1. world.now \in Int /\ ClaimMargin - Timeout >= 0 /\ ClaimMargin - Timeout \in Int
      BY <1>1, LimitsAssumption DEF WorldOK
    <3>2. world.now <= world.now + (ClaimMargin - Timeout) /\ world.now <= world.now
      BY <3>1
    <3> QED BY <1>2, <2>2, <3>1, <3>2 DEF Timely
  <2> QED BY <1>3, <2>1, <2>2
<1>8. AsRead'
  BY <1>1, <1>2, <1>3 DEF RoundsInv, AsRead
<1> QED BY <1>4, <1>5, <1>6, <1>7, <1>8 DEF RoundsInv

-----------------------------------------------------------------------------
\* A round with something to do that is not the close asks for another call.
Another(round) == round # NoRound => round.code # "" \/ round.again

\* Each round is refused, asks for another call, or is none.
LEMMA OwnFeesAnother ==
  ASSUME NEW s, NEW tx, NEW later, NEW p, NEW txs
  PROVE  LET round == OwnFeesFit(s, tx, later, p, Batch(txs, TRUE)) IN round # NoRound /\ Another(round)
<1> DEFINE round == OwnFeesFit(s, tx, later, p, Batch(txs, TRUE))
<1>1. round = Refuse("close_fee_balance_short") \/ round = Batch(txs, TRUE)
  BY Zenon DEF OwnFeesFit
<1>2. Refuse("close_fee_balance_short").code = "close_fee_balance_short" /\ NoRound.code = "nothing to do"
  BY DEF Refuse, NoRound
<1>3. Batch(txs, TRUE).code = "" /\ Batch(txs, TRUE).again
  BY BatchIs
<1>4. "close_fee_balance_short" # "" /\ "nothing to do" # "" /\ "nothing to do" # "close_fee_balance_short"
  OBVIOUS
<1>5. round # NoRound /\ (round.code # "" \/ round.again)
  <2> HIDE DEF round
  <2> QED BY <1>1, <1>2, <1>3, <1>4, Zenon
<1> QED BY <1>5 DEF Another

\* A refusal, likewise.
LEMMA RefuseAnother ==
  ASSUME NEW code \in {"defi_exit_blocked", "conversion_floor_missing", "soroban_token_route_lost", "quote_drifted",
                       "claimable_balance_not_claimable_now", "claimable_balance_reserve_short",
                       "claimable_balances_too_many", "transfer_destination_unusable"}
  PROVE  Refuse(code) # NoRound /\ Another(Refuse(code))
<1>1. Refuse(code).code = code /\ NoRound.code = "nothing to do"
  BY DEF Refuse, NoRound
<1>2. code # "" /\ code # "nothing to do"
  OBVIOUS
<1> QED BY <1>1, <1>2, Zenon DEF Another

\* No exit round: no position is left.
LEMMA ExitDone ==
  ASSUME NEW s, NEW w, WorldOK(w), s.account.exits = w.acct.exits
  PROVE  LET round == ExitRound(s, w, answers, payout) IN
         Another(round) /\ (round = NoRound => Positions(w.acct) = {})
<1> DEFINE targets == InOrder(Exits, Positions(s.account))
           there == InOrder(targets, Positions(w.acct))
           round == ExitRound(s, w, answers, payout)
           p == Head(there)
<1>1. \/ there = <<>> /\ round = NoRound
      \/ round = Refuse("defi_exit_blocked")
      \/ \E tx, later : round = OwnFeesFit(s, tx, later, payout, Batch(<<SorobanTx(s, w, Op("exit", p))>>, TRUE))
  <2> HIDE DEF there
  <2> QED BY Zenon DEF ExitRound, there
<1>2. IsSeq(there) /\ ToSet(there) = ToSet(Exits) \cap Positions(s.account) \cap Positions(w.acct)
  <2>1. IsSeq(targets) /\ ToSet(targets) = ToSet(Exits) \cap Positions(s.account)
    BY KeptIs, HoldingsAssumption DEF IsSeq
  <2> HIDE DEF targets
  <2> QED BY <2>1, KeptIs
<1> HIDE DEF there, round
<1>3. CASE there = <<>> /\ round = NoRound
  <2>1. ToSet(there) = {}
    BY <1>3, EmptyIs
  <2>2. Positions(s.account) = Positions(w.acct) /\ Positions(w.acct) \subseteq ToSet(Exits)
    BY DEF Positions, WorldOK, AccountOK
  <2>3. Positions(w.acct) = {}
    BY <1>2, <2>1, <2>2
  <2>4. Another(round)
    BY <1>3, Zenon DEF Another
  <2> QED BY <2>3, <2>4 DEF round
<1>4. CASE round = Refuse("defi_exit_blocked")
  BY <1>4, RefuseAnother DEF round
<1>5. CASE \E tx, later : round = OwnFeesFit(s, tx, later, payout, Batch(<<SorobanTx(s, w, Op("exit", p))>>, TRUE))
  <2> DEFINE txs == <<SorobanTx(s, w, Op("exit", p))>>
  <2>1. PICK tx, later : round = OwnFeesFit(s, tx, later, payout, Batch(txs, TRUE))
    BY <1>5
  <2> HIDE DEF txs
  <2>2. round # NoRound /\ Another(round)
    BY <2>1, OwnFeesAnother
  <2> QED BY <2>2 DEF round
<1> QED BY <1>1, <1>3, <1>4, <1>5

\* Nothing due of a choice is held any more.
LEMMA NoneDue ==
  ASSUME NEW s, NEW w, s.account.tokens = w.acct.tokens, NEW choice, StillHeld(DueTokens(s, answers, choice), w) = <<>>
  PROVE  \A x \in TokenSet : w.acct.tokens[x] > 0 => answers.asset[x] # choice
<1> DEFINE due == DueTokens(s, answers, choice)
           held == StillHeld(due, w)
<1>1. IsSeq(due) /\ ToSet(due) = ToSet(Tokens) \cap {x \in HeldTokens(s.account) : answers.asset[x] = choice}
  BY KeptIs, HoldingsAssumption DEF DueTokens, IsSeq, TokenSet
<1> HIDE DEF due
<1>2. ToSet(held) = ToSet(due) \cap HeldTokens(w.acct)
  BY <1>1, KeptIs DEF StillHeld
<1>3. ToSet(held) = {}
  BY EmptyIs DEF due
<1> HIDE DEF held
<1> QED BY <1>1, <1>2, <1>3 DEF TokenSet, HeldTokens

\* No token transfer: none was answered so.
LEMMA TransferDone ==
  ASSUME NEW s, NEW w, s.account.tokens = w.acct.tokens
  PROVE  LET round == TokenTransferRound(s, w, answers, payout) IN
         /\ Another(round)
         /\ round = NoRound => \A x \in TokenSet : w.acct.tokens[x] > 0 => answers.asset[x] # "transfer"
<1> DEFINE held == StillHeld(DueTokens(s, answers, "transfer"), w)
           x == Head(held)
           txs == <<SorobanTx(s, w, Moving("sendToken", x, w.acct.tokens[x], "chosen"))>>
           round == TokenTransferRound(s, w, answers, payout)
<1>1. \/ held = <<>> /\ round = NoRound
      \/ \E tx, later : round = OwnFeesFit(s, tx, later, payout, Batch(txs, TRUE))
  <2> HIDE DEF held
  <2> QED BY Zenon DEF TokenTransferRound, held
<1>2. held = <<>> => \A y \in TokenSet : w.acct.tokens[y] > 0 => answers.asset[y] # "transfer"
  BY NoneDue
<1> HIDE DEF held, txs, round
<1>3. CASE held = <<>> /\ round = NoRound
  BY <1>2, <1>3, Zenon DEF round, Another
<1>4. CASE \E tx, later : round = OwnFeesFit(s, tx, later, payout, Batch(txs, TRUE))
  <2>1. round # NoRound /\ Another(round)
    BY <1>4, OwnFeesAnother
  <2> QED BY <2>1 DEF round
<1> QED BY <1>1, <1>3, <1>4

\* No token conversion: none was answered so.
LEMMA ConversionDone ==
  ASSUME NEW s, NEW w, s.account.tokens = w.acct.tokens
  PROVE  LET round == TokenConversionRound(s, w, answers, payout) IN
         /\ Another(round)
         /\ round = NoRound => \A x \in TokenSet : w.acct.tokens[x] > 0 => answers.asset[x] # "convert"
<1> DEFINE held == StillHeld(DueTokens(s, answers, "convert"), w)
           x == Head(held)
           least == QuotedLeast(w.rate[x], w.acct.tokens[x])
           txs == <<SorobanTx(s, w, Swapping("swapToken", x, w.acct.tokens[x], least))>>
           round == TokenConversionRound(s, w, answers, payout)
<1>1. \/ held = <<>> /\ round = NoRound
      \/ round \in {Refuse("conversion_floor_missing"), Refuse("soroban_token_route_lost"), Refuse("quote_drifted")}
      \/ \E tx, later : round = OwnFeesFit(s, tx, later, payout, Batch(txs, TRUE))
  <2> HIDE DEF held
  <2> QED BY Zenon DEF TokenConversionRound, held
<1>2. held = <<>> => \A y \in TokenSet : w.acct.tokens[y] > 0 => answers.asset[y] # "convert"
  BY NoneDue
<1> HIDE DEF held, txs, round
<1>3. CASE held = <<>> /\ round = NoRound
  BY <1>2, <1>3, Zenon DEF round, Another
<1>4. CASE \E tx, later : round = OwnFeesFit(s, tx, later, payout, Batch(txs, TRUE))
  <2>1. round # NoRound /\ Another(round)
    BY <1>4, OwnFeesAnother
  <2> QED BY <2>1 DEF round
<1>5. CASE round \in {Refuse("conversion_floor_missing"), Refuse("soroban_token_route_lost"), Refuse("quote_drifted")}
  BY <1>5, RefuseAnother DEF round
<1> QED BY <1>1, <1>3, <1>4, <1>5

\* No claim round: what is left was given up.
LEMMA ClaimDone ==
  ASSUME NEW s, NEW w, w.acct.claims \subseteq ToSet(Claims), NEW t, (~s.more) => s.account.claims = shown
  PROVE  LET round == ClaimRound(s, w, t, answers) IN
         /\ Another(round)
         /\ round = NoRound => \A c \in shown \cap w.acct.claims : answers.claim[c] = "forfeit"
<1> DEFINE k == s.account
           due == InOrder(Claims, Due(k, answers.claim, t))
           unaccounted == InOrder(Claims, {c \in k.claims \ ToSet(due) : answers.claim[c] # "forfeit"})
           batch == FirstExistingBatch(due, w)
           lines == InOrder(Assets, {ClaimAsset[c] : c \in {d \in ToSet(batch) : ClaimStatus(k, d, t) = "needs_trustline"}})
           ops == Each("addLine", lines) \o Each("claim", batch)
           pack == Pack(s, w, ops)
           round == ClaimRound(s, w, t, answers)
           codes == {"claimable_balance_not_claimable_now", "claimable_balance_reserve_short",
                     "claimable_balances_too_many", "transfer_destination_unusable"}
           none == k.claims = {} \/ (FirstExistingBatch(unaccounted, w) = <<>> /\ batch = <<>>)
<1>1. \/ none /\ ~s.more /\ round = NoRound
      \/ \E code \in codes : round = Refuse(code)
      \/ pack.code # "" /\ round = pack
      \/ round = Batch(pack.txs, TRUE)
  BY Zenon DEF ClaimRound
<1>2. IsSeq(Claims) /\ IsSeq(Assets)
  BY HoldingsAssumption DEF IsSeq, AssetSet
<1>3. IsSeq(due) /\ IsSeq(unaccounted)
      /\ ToSet(unaccounted) = ToSet(Claims) \cap {c \in k.claims \ ToSet(due) : answers.claim[c] # "forfeit"}
  BY <1>2, KeptIs
<1> HIDE DEF due, unaccounted
<1>4. /\ IsSeq(batch) /\ (batch = <<>> => ToSet(due) \cap w.acct.claims = {})
      /\ FirstExistingBatch(unaccounted, w) = <<>> => ToSet(unaccounted) \cap w.acct.claims = {}
  BY <1>3, FirstBatchIs
<1> HIDE DEF batch
<1>5. IsSeq(ops)
  BY <1>2, <1>4, KeptIs, EachIs, ConcatIs
<1> HIDE DEF ops
<1>6. pack.code \in {"", "close_fee_balance_short"}
  BY <1>5, PackIs
<1> HIDE DEF pack
<1>7. CASE none /\ ~s.more /\ round = NoRound
  <2>1. k.claims = shown
    BY <1>7
  <2>2. \A c \in shown \cap w.acct.claims : answers.claim[c] = "forfeit"
    BY <1>3, <1>4, <1>7, <2>1
  <2> HIDE DEF round
  <2> QED BY <1>7, <2>2, Zenon DEF round, Another
<1> HIDE DEF round, none
<1>8. CASE \E code \in codes : round = Refuse(code)
  BY <1>8, RefuseAnother DEF round
<1>9. CASE pack.code # "" /\ round = pack
  <2>1. NoRound.code = "nothing to do" /\ "nothing to do" # "close_fee_balance_short"
    BY DEF NoRound, Refuse
  <2>2. pack.code = "close_fee_balance_short"
    BY <1>6, <1>9
  <2> QED BY <1>9, <2>1, <2>2, Zenon DEF round, Another
<1>10. CASE round = Batch(pack.txs, TRUE)
  <2>1. /\ Batch(pack.txs, TRUE).code = "" /\ Batch(pack.txs, TRUE).again /\ "nothing to do" # ""
        /\ NoRound.code = "nothing to do"
    BY BatchIs DEF NoRound, Refuse
  <2> QED BY <1>10, <2>1, Zenon DEF round, Another
<1> QED BY <1>1, <1>7, <1>8, <1>9, <1>10

\* What an operation may do depends on the answers alone.
LEMMA FitsKept == ASSUME UNCHANGED <<payout, planned, answers>>, NEW o PROVE OpFits(o)' <=> OpFits(o)
BY DEF OpFits

\* The round that was built, when it was not refused.
LEMMA BuildIs ==
  ASSUME Build, phase' # "stopped"
  PROVE  LET r == BuildRound(reading, world, ledgerTime, answers, payout) IN
         phase' = "sending" /\ r.code = "" /\ queue' = r.txs /\ again' = r.again
BY DEF Build, Stop

\* The round is built.
LEMMA BuildKeeps == ASSUME RoundsInv, Build PROVE RoundsInv'
<1>1. /\ phase = "confirmed" /\ sound /\ WorldOK(world) /\ payout \in {"direct", "mediator"} /\ AnswersOK
  BY DEF Build, RoundsInv, Placed
<1>2. UNCHANGED <<world, payout, planned, sound, reviewed, answers, shown>>
  BY DEF Build
<1>3. phase' \in {"stopped", "sending"}
  BY DEF Build, Stop
<1>4. Placed' /\ FundsGoAsAnswered' /\ BalanceReachesDestination'
  <2>1. phase' \in {"ask", "read", "confirmed", "sending", "closed", "stopped"}
    BY <1>3
  <2> QED BY <1>1, <1>2, <2>1, StillFits
<1>5. ClaimsAreOnce'
  BY <1>2 DEF RoundsInv, ClaimsAreOnce
<1>6. AsRead'
  BY <1>3 DEF AsRead
<1>7. CASE phase' = "stopped"
  <2>1. QueueFits' /\ Timely' /\ LastRound'
    BY <1>7 DEF QueueFits, Timely, LastRound
  <2> QED BY <1>4, <1>5, <1>6, <2>1 DEF RoundsInv
<1>8. CASE phase' # "stopped"
  <2> DEFINE exit == ExitRound(reading, world, answers, payout)
             send == TokenTransferRound(reading, world, answers, payout)
             swap == TokenConversionRound(reading, world, answers, payout)
             claim == ClaimRound(reading, world, ledgerTime, answers)
             r == BuildRound(reading, world, ledgerTime, answers, payout)
             txs == r.txs
             more == r.again
  <2>1. phase' = "sending" /\ r.code = "" /\ queue' = txs /\ again' = more
    BY <1>8, BuildIs
  <2>2. RoundFits(r, world, ledgerTime)
    BY <1>1, BuildFits
  <2>3. /\ IsSeq(txs)
        /\ \A i \in 1..Len(txs) :
             /\ IsSeq(txs[i].ops) /\ txs[i].until = world.now + Timeout
             /\ \A o \in ToSet(txs[i].ops) : OpBuilt(o, ledgerTime) /\ (~more => o.op \in CloseNames)
    <3> HIDE DEF r
    <3> QED BY <2>1, <2>2, Zenon DEF RoundFits
  <2>4. QueueFits'
    <3> HIDE DEF txs
    <3>1. \A o : OpBuilt(o, ledgerTime) => OpOK(o) /\ (~planned' => OpFits(o)')
      BY <1>2, FitsKept DEF OpBuilt
    <3> QED BY <2>1, <2>3, <3>1, Zenon DEF QueueFits
  <2>5. Timely'
    <3>1. /\ ledgerTime \in Int /\ world.now \in Int /\ ledgerTime <= world.now
          /\ world.now <= ledgerTime + (ClaimMargin - Timeout)
      BY <1>1 DEF RoundsInv, Timely, WorldOK
    <3>2. world.now + Timeout \in Int /\ world.now + Timeout <= ledgerTime + ClaimMargin
      BY <3>1, LimitsAssumption
    <3> HIDE DEF txs
    <3>3. ASSUME NEW i \in 1..Len(txs), NEW o \in ToSet(txs[i].ops), o.op = "claim"
          PROVE  \E t \in Int : /\ ClaimHolds(o.what, t) /\ t <= world.now
                                /\ txs[i].until \in Int /\ txs[i].until <= t + ClaimMargin
      <4>1. ClaimHolds(o.what, ledgerTime) /\ txs[i].until = world.now + Timeout
        BY <2>3, <3>3 DEF OpBuilt
      <4> QED BY <3>1, <3>2, <4>1, Zenon
    <3>4. phase' # "confirmed" /\ world' = world
      BY <1>2, <2>1
    <3> QED BY <2>1, <3>3, <3>4, Zenon DEF Timely
  <2>6. LastRound'
    <3> SUFFICES ASSUME ~more PROVE LastRound'
      <4>1. again' => LastRound'
        BY <2>1 DEF LastRound
      <4> QED BY <2>1, <4>1, Zenon
    <3>1. /\ reading.account.tokens = world.acct.tokens /\ reading.account.exits = world.acct.exits
          /\ (~reading.more) => reading.account.claims = shown
          /\ \A x \in TokenSet : world.acct.tokens[x] > 0 => answers.asset[x] # "none"
          /\ world.acct.claims \subseteq ToSet(Claims)
      BY <1>1 DEF RoundsInv, AsRead, ClaimsAreOnce
    <3>2. /\ Another(exit) /\ (exit = NoRound => Positions(world.acct) = {})
          /\ Another(send)
          /\ send = NoRound => \A x \in TokenSet : world.acct.tokens[x] > 0 => answers.asset[x] # "transfer"
          /\ Another(swap)
          /\ swap = NoRound => \A x \in TokenSet : world.acct.tokens[x] > 0 => answers.asset[x] # "convert"
      BY <1>1, <3>1, ExitDone, TransferDone, ConversionDone
    <3>3. /\ Another(claim)
          /\ claim = NoRound => \A c \in shown \cap world.acct.claims : answers.claim[c] = "forfeit"
      BY <3>1, ClaimDone
    <3>4. r = IF exit # NoRound THEN exit ELSE IF send # NoRound THEN send ELSE IF swap # NoRound THEN swap
              ELSE IF claim # NoRound THEN claim ELSE CloseRound(reading, world, answers, payout)
      BY Zenon DEF BuildRound
    <3> HIDE DEF exit, send, swap, claim, r
    <3>5. exit = NoRound /\ send = NoRound /\ swap = NoRound /\ claim = NoRound
      BY <2>1, <3>2, <3>3, <3>4, Zenon DEF Another
    <3>6. \A x \in TokenSet : world.acct.tokens[x] > 0 => answers.asset[x] = "leave"
      BY <1>1, <3>1, <3>2, <3>5 DEF AnswersOK
    <3>7. NothingOpen
      BY <3>2, <3>3, <3>5, <3>6 DEF NothingOpen
    <3>8. NothingOpen'
      BY <1>2, <3>7 DEF NothingOpen
    <3>9. \A i \in 1..Len(queue') : \A o \in ToSet(queue'[i].ops) : o.op \in CloseNames
      BY <2>1, <2>3, Zenon
    <3> QED BY <3>8, <3>9 DEF LastRound
  <2> QED BY <1>4, <1>5, <1>6, <2>4, <2>5, <2>6 DEF RoundsInv
<1> QED BY <1>7, <1>8

-----------------------------------------------------------------------------
\* The rounds that were built wrong.
LEMMA SomeOpsOK == ASSUME NEW w, WorldOK(w), NEW o \in SomeOps(w) PROVE OpOK(o) /\ o.op # "claim"
<1> DEFINE k == w.acct
<1>1. /\ \A a \in Held(k) : a \in Things
      /\ \A x \in HeldTokens(k) : x \in Things
  BY DEF Held, HeldTokens, Things
<1>2. CASE o \in SomePays(k)
  <2>1. PICK a \in Held(k), n \in {1, 2}, to \in {"chosen", "issuer", "stranger"}, by \in {"account", "stranger"} :
          o = [Moving("pay", a, n, to) EXCEPT !.by = by]
    BY <1>2 DEF SomePays
  <2> QED BY <1>1, <2>1 DEF OpOK, OpNames, Moving, Op
<1>3. CASE o \in SomeSells(k)
  <2>1. PICK a, least, to : a \in Held(k) /\ least \in 0..2 /\ o = [Swapping("convert", a, 1, least) EXCEPT !.to = to]
    BY <1>3 DEF SomeSells
  <2> QED BY <1>1, <2>1 DEF OpOK, OpNames, Swapping, Moving, Op
<1>4. CASE o \in SomeTokenMoves(k)
  <2>1. \/ \E x \in HeldTokens(k), n \in {1, 2} : \E to : o = Moving("sendToken", x, n, to)
        \/ \E x \in HeldTokens(k), least \in 0..2 : \E to : o = [Swapping("swapToken", x, 1, least) EXCEPT !.to = to]
    BY <1>4 DEF SomeTokenMoves
  <2>2. CASE \E x \in HeldTokens(k), n \in {1, 2} : \E to : o = Moving("sendToken", x, n, to)
    BY <1>1, <2>2 DEF OpOK, OpNames, Moving, Op
  <2>3. CASE \E x \in HeldTokens(k), least \in 0..2 : \E to : o = [Swapping("swapToken", x, 1, least) EXCEPT !.to = to]
    BY <1>1, <2>3 DEF OpOK, OpNames, Swapping, Moving, Op
  <2> QED BY <2>1, <2>2, <2>3
<1>5. ASSUME NEW to PROVE OpOK(Moving("merge", "xlm", 0, to)) /\ Moving("merge", "xlm", 0, to).op # "claim"
  BY DEF OpOK, OpNames, Moving, Op
<1>6. ASSUME NEW to PROVE OpOK(Moving("setThresholds", "master", 2, to)) /\ Moving("setThresholds", "master", 2, to).op # "claim"
  BY DEF OpOK, OpNames, Moving, Op
<1>7. ASSUME NEW name \in {"addLine", "removeLine"}, NEW a PROVE OpOK(Op(name, a)) /\ Op(name, a).op # "claim"
  BY DEF OpOK, OpNames, Op
<1>8. \/ o \in SomePays(k) \/ o \in SomeSells(k) \/ o \in SomeTokenMoves(k)
      \/ \E to : o = Moving("merge", "xlm", 0, to)
      \/ \E name \in {"addLine", "removeLine"} : \E a : o = Op(name, a)
      \/ \E to : o = Moving("setThresholds", "master", 2, to)
  BY Zenon DEF SomeOps
<1> QED BY <1>2, <1>3, <1>4, <1>5, <1>6, <1>7, <1>8, Zenon

\* The forwards of a round built wrong.
LEMMA SomeForwardsOK == ASSUME NEW w, NEW o \in SomeForwards(w) PROVE OpOK(o) /\ o.op # "claim"
<1> DEFINE forward(n, to, by) == [Moving("forward", "xlm", n, to) EXCEPT !.by = by]
<1>1. \E n, to, by : o = forward(n, to, by)
  BY DEF SomeForwards
<1>2. ASSUME NEW n, NEW to, NEW by PROVE OpOK(forward(n, to, by)) /\ forward(n, to, by).op # "claim"
  BY DEF OpOK, OpNames, Moving, Op
<1> HIDE DEF forward
<1> QED BY <1>1, <1>2

\* Its transactions.
LEMMA SomeTransactionsOK ==
  ASSUME NEW w, WorldOK(w), NEW tx \in SomeTransactions(w)
  PROVE  IsSeq(tx.ops) /\ \A o \in ToSet(tx.ops) : OpOK(o) /\ o.op # "claim"
<1>1. PICK ops, memo :
        /\ tx = [ops |-> ops, fee |-> Len(ops), sponsored |-> FALSE, seq |-> w.acct.seq, until |-> w.now + Timeout,
                 memo |-> memo]
        /\ \/ \E o \in SomeOps(w) : ops = <<o>>
           \/ \E o \in SomeOps(w), q \in SomeOps(w) \cup SomeForwards(w) : ops = <<o, q>>
  BY DEF SomeTransactions
<1>2. tx.ops = ops
  BY <1>1
<1>3. CASE \E o \in SomeOps(w) : ops = <<o>>
  BY <1>2, <1>3, OneIs, SomeOpsOK
<1>4. CASE \E o \in SomeOps(w), q \in SomeOps(w) \cup SomeForwards(w) : ops = <<o, q>>
  <2>1. PICK o \in SomeOps(w), q \in SomeOps(w) \cup SomeForwards(w) : ops = <<o, q>>
    BY <1>4
  <2>2. OpOK(o) /\ o.op # "claim" /\ OpOK(q) /\ q.op # "claim"
    BY SomeOpsOK, SomeForwardsOK
  <2>3. IsSeq(<<o, q>>) /\ ToSet(<<o, q>>) = {o, q}
    BY DEF IsSeq, ToSet
  <2> QED BY <1>2, <2>1, <2>2, <2>3
<1> QED BY <1>1, <1>3, <1>4

\* A round is built wrong; the browser is there to check it.
LEMMA BuildOtherKeeps == ASSUME RoundsInv, BuildOther PROVE RoundsInv'
<1>1. /\ phase = "confirmed" /\ ~sound /\ planned /\ WorldOK(world)
  BY DEF BuildOther, RoundsInv, Placed
<1>2. UNCHANGED <<world, payout, planned, sound, reviewed, answers, shown>>
  BY DEF BuildOther
<1>3. \/ phase' = "stopped"
      \/ phase' = "sending" /\ \E tx \in SomeTransactions(world) : queue' = <<tx>>
  BY DEF BuildOther, Stop
<1>4. Placed' /\ FundsGoAsAnswered' /\ BalanceReachesDestination'
  <2>1. phase' \in {"ask", "read", "confirmed", "sending", "closed", "stopped"}
    BY <1>3
  <2> QED BY <1>1, <1>2, <2>1, StillFits
<1>5. ClaimsAreOnce' /\ LastRound' /\ AsRead'
  <2>1. ClaimsAreOnce'
    BY <1>2 DEF RoundsInv, ClaimsAreOnce
  <2>2. LastRound'
    BY <1>1, <1>2 DEF LastRound
  <2> QED BY <1>3, <2>1, <2>2 DEF AsRead
<1>6. CASE phase' = "stopped"
  <2>1. QueueFits' /\ Timely'
    BY <1>6 DEF QueueFits, Timely
  <2> QED BY <1>4, <1>5, <2>1 DEF RoundsInv
<1>7. CASE phase' = "sending" /\ \E tx \in SomeTransactions(world) : queue' = <<tx>>
  <2>1. PICK tx \in SomeTransactions(world) : queue' = <<tx>>
    BY <1>7
  <2>2. IsSeq(tx.ops) /\ \A o \in ToSet(tx.ops) : OpOK(o) /\ o.op # "claim"
    BY <1>1, SomeTransactionsOK
  <2>3. IsSeq(<<tx>>) /\ \A i \in 1..Len(<<tx>>) : <<tx>>[i] = tx
    <3>1. \A i \in 1..1 : i = 1
      OBVIOUS
    <3> QED BY <3>1, OneIs, Zenon
  <2>4. IsSeq(queue') /\ \A i \in 1..Len(queue') : queue'[i] = tx
    BY <2>1, <2>3, Zenon
  <2>5. QueueFits'
    BY <1>1, <1>2, <2>2, <2>4, Zenon DEF QueueFits
  <2>6. Timely'
    <3>1. phase' # "confirmed"
      BY <1>7
    <3> QED BY <2>2, <2>4, <3>1, Zenon DEF Timely
  <2> QED BY <1>4, <1>5, <2>5, <2>6 DEF RoundsInv
<1> QED BY <1>3, <1>6, <1>7

-----------------------------------------------------------------------------
\* A transaction one of whose operations could not apply is only charged.
LEMMA FailedIsCharged ==
  ASSUME NEW w, NEW tx, Len(tx.ops) \in Nat, ~Applied(w, tx).ok PROVE Applied(w, tx).w = Charged(w, tx)
<1> DEFINE n == Len(tx.ops)
<1>1. PICK run : /\ run[0] = [ok |-> TRUE, w |-> Charged(w, tx)]
                 /\ \A i \in 1..n : run[i] = Stepped(w, tx, run[i - 1], i)
                 /\ Applied(w, tx) = run[n]
  BY AppliedInSteps
<1>2. n # 0
  BY <1>1
<1>3. n \in 1..n
  BY <1>2
<1>4. run[n] = Stepped(w, tx, run[n - 1], n)
  BY <1>1, <1>3
<1> HIDE DEF n
<1> QED BY <1>1, <1>4 DEF Stepped

Accepted(tx) == planned => Verdict(reviewed, answers, payout, tx, world.now) = ""

\* What a submission does, by its outcome.
LEMMA SubmitIs ==
  ASSUME Submit
  PROVE  /\ phase = "sending" /\ queue # <<>>
         /\ UNCHANGED <<payout, planned, sound, reviewed, answers, shown, again>>
         /\ \/ phase' = "stopped" /\ world' = world
            \/ /\ Accepted(Head(queue)) /\ Included(world, Head(queue)) /\ world' = Applied(world, Head(queue)).w
               /\ \/ phase' = "stopped" /\ ~Applied(world, Head(queue)).ok
                  \/ /\ Applied(world, Head(queue)).ok /\ queue' = Tail(queue)
                     /\ \/ phase' = "sending"
                        \/ phase' = "ask" /\ again
                        \/ phase' = "closed" /\ ~again
<1>1. /\ phase = "sending" /\ queue # <<>>
      /\ UNCHANGED <<payout, planned, sound, reviewed, answers, shown, again>>
  BY Zenon DEF Submit
<1> DEFINE tx == Head(queue)
           after == Applied(world, tx)
           verdict == IF planned THEN Verdict(reviewed, answers, payout, tx, world.now) ELSE ""
           sent == /\ world' = after.w /\ queue' = Tail(queue)
                   /\ phase' = IF Tail(queue) # <<>> THEN "sending" ELSE IF again THEN "ask" ELSE "closed"
<1>2. \/ phase' = "stopped" /\ world' = world
      \/ /\ verdict = "" /\ Included(world, tx)
         /\ \/ phase' = "stopped" /\ ~after.ok /\ world' = after.w
            \/ after.ok /\ sent
  BY Zenon DEF Submit, Stop
<1>3. verdict = "" => Accepted(tx)
  BY Zenon DEF Accepted
<1>4. sent => phase' = "sending" \/ (phase' = "ask" /\ again) \/ (phase' = "closed" /\ ~again)
  OBVIOUS
<1>5. sent => world' = after.w /\ queue' = Tail(queue)
  OBVIOUS
<1> HIDE DEF sent, verdict
<1> QED BY <1>1, <1>2, <1>3, <1>4, <1>5

\* The operations of the transaction to be submitted, which the browser has accepted if it plans the close.
LEMMA AcceptedFits ==
  ASSUME QueueFits, phase = "sending", queue # <<>>, Accepted(Head(queue))
  PROVE  LET tx == Head(queue) IN
         /\ IsSeq(tx.ops) /\ \A i \in 1..Len(tx.ops) : OpOK(tx.ops[i]) /\ OpFits(tx.ops[i])
         /\ \A i \in 1..Len(tx.ops) : tx.ops[i] \in ToSet(tx.ops)
<1> DEFINE tx == Head(queue)
<1>1. tx = queue[1] /\ 1 \in 1..Len(queue)
  BY HeadIs DEF QueueFits
<1>2. IsSeq(tx.ops) /\ \A o \in ToSet(tx.ops) : OpOK(o) /\ (~planned => OpFits(o))
  BY <1>1, Zenon DEF QueueFits
<1> HIDE DEF tx
<1>3. \A i \in 1..Len(tx.ops) : tx.ops[i] \in ToSet(tx.ops)
  BY <1>2, SeqIs
<1>4. \A i \in 1..Len(tx.ops) : OpOK(tx.ops[i])
  BY <1>2, <1>3
<1>5. CASE planned
  <2>1. Verdict(reviewed, answers, payout, tx, world.now) = ""
    BY <1>5 DEF Accepted, tx
  <2>2. \A i \in 1..Len(tx.ops) : OpFits(tx.ops[i])
    BY <1>2, <1>4, <1>5, <2>1, VerdictFits, Zenon
  <2> QED BY <1>2, <1>3, <1>4, <2>2 DEF tx
<1>6. CASE ~planned
  <2>1. \A i \in 1..Len(tx.ops) : OpFits(tx.ops[i])
    BY <1>2, <1>3, <1>6
  <2> QED BY <1>2, <1>3, <1>4, <2>1 DEF tx
<1> QED BY <1>5, <1>6

\* A merge the browser has accepted hands the balance on, once it has applied.
LEMMA MergeHandsOn ==
  ASSUME WorldOK(world), QueueFits, phase = "sending", queue # <<>>, Accepted(Head(queue)), planned, payout = "mediator",
         Applied(world, Head(queue)).ok,
         \E i \in 1..Len(Head(queue).ops) : Head(queue).ops[i].op = "merge"
  PROVE  /\ Head(queue).memo = "memo"
         /\ \E paid, sent \in Applied(world, Head(queue)).w.left :
              /\ paid.how = "merge" /\ sent.how = "forward" /\ sent.by = paid.to
              /\ sent.units >= reviewed.account.xlm - ForwardTolerance
<1> DEFINE tx == Head(queue)
<1>1. IsSeq(tx.ops) /\ \A i \in 1..Len(tx.ops) : OpOK(tx.ops[i])
  BY AcceptedFits
<1>2. Verdict(reviewed, answers, payout, tx, world.now) = ""
  BY DEF Accepted
<1>3. Applied(world, tx).ok /\ \E i \in 1..Len(tx.ops) : tx.ops[i].op = "merge"
  OBVIOUS
<1> HIDE DEF tx
<1>4. /\ tx.memo = "memo" /\ Len(tx.ops) = 2
      /\ tx.ops[1].op = "merge" /\ tx.ops[1].by = "account" /\ tx.ops[2].op = "forward"
      /\ tx.ops[2].by = tx.ops[1].to /\ tx.ops[2].amount >= reviewed.account.xlm - ForwardTolerance
  BY <1>1, <1>2, <1>3, VerdictFits, Zenon
<1>5. \E paid, sent \in Applied(world, tx).w.left :
        /\ paid.how = "merge" /\ paid.to = tx.ops[1].to
        /\ sent.how = "forward" /\ sent.by = tx.ops[2].by /\ sent.units = tx.ops[2].amount
  BY <1>3, <1>4, HandOffApplied, Zenon
<1>6. tx.memo = "memo" /\ tx.ops[2].by = tx.ops[1].to /\ tx.ops[2].amount >= reviewed.account.xlm - ForwardTolerance
  BY <1>4, Zenon
<1> QED BY <1>5, <1>6, Zenon DEF tx

\* A transaction is submitted: not included, failed or applied.
LEMMA SubmitKeeps == ASSUME RoundsInv, Submit PROVE RoundsInv'
<1> DEFINE tx == Head(queue)
           after == Applied(world, tx)
<1>1. /\ phase = "sending" /\ queue # <<>>
      /\ UNCHANGED <<payout, planned, sound, reviewed, answers, shown, again>>
  BY SubmitIs
<1>2. /\ WorldOK(world) /\ AnswersOK /\ payout \in {"direct", "mediator"} /\ (~sound => planned)
      /\ QueueFits /\ IsSeq(queue)
  BY <1>1 DEF RoundsInv, Placed, QueueFits
<1>3. CASE phase' = "stopped" /\ world' = world
  <2>1. Placed' /\ FundsGoAsAnswered' /\ BalanceReachesDestination'
    BY <1>1, <1>3, StillFits
  <2>2. QueueFits' /\ Timely' /\ AsRead' /\ LastRound'
    BY <1>3 DEF QueueFits, Timely, AsRead, LastRound
  <2>3. ClaimsAreOnce'
    BY <1>1, <1>3 DEF RoundsInv, ClaimsAreOnce
  <2> QED BY <2>1, <2>2, <2>3 DEF RoundsInv
<1>4. CASE ~(phase' = "stopped" /\ world' = world)
  <2>1. /\ Accepted(tx) /\ Included(world, tx) /\ world' = after.w
        /\ \/ phase' = "stopped" /\ ~after.ok
           \/ /\ after.ok /\ queue' = Tail(queue)
              /\ \/ phase' = "sending"
                 \/ phase' = "ask" /\ again
                 \/ phase' = "closed" /\ ~again
    BY <1>4, SubmitIs, Zenon
  <2>2. /\ IsSeq(tx.ops) /\ \A i \in 1..Len(tx.ops) : OpOK(tx.ops[i]) /\ OpFits(tx.ops[i])
        /\ \A i \in 1..Len(tx.ops) : tx.ops[i] \in ToSet(tx.ops)
    BY <1>1, <1>2, <2>1, AcceptedFits, Zenon
  <2>3. \A m \in world.left : MoveFits(m)
    BY FundsAreMoves DEF RoundsInv
  <2>4. ~world.acct.merged
    BY <2>1 DEF Included
  <2>5. tx = queue[1] /\ 1 \in 1..Len(queue)
    BY <1>1, <1>2, HeadIs
  <2>6. answers.floor \in [Things -> Int]
    BY <1>2 DEF AnswersOK
  <2>7. /\ WorldOK(after.w) /\ after.w.now = world.now /\ after.w.coming = world.coming /\ after.w.memo = tx.memo
        /\ \A m \in after.w.left : MoveFits(m)
        /\ after.w.acct.merged => \E i \in 1..Len(tx.ops) : tx.ops[i].op = "merge"
        /\ after.w.acct.claims \subseteq world.acct.claims
        /\ (\A i \in 1..Len(tx.ops) : tx.ops[i].op \in CloseNames) => Holds(after.w.acct) = Holds(world.acct)
    <3> HIDE DEF tx
    <3>1. \A i \in 1..Len(tx.ops) : OpOK(tx.ops[i]) /\ OpFits(tx.ops[i])
      BY <2>2
    <3>2. IsSeq(tx.ops) /\ WorldOK(world)
      BY <1>2, <2>2
    <3>3. /\ WorldOK(after.w) /\ after.w.now = world.now /\ after.w.coming = world.coming /\ after.w.memo = tx.memo
          /\ \A m \in after.w.left : MoveFits(m)
          /\ after.w.acct.merged => world.acct.merged \/ \E i \in 1..Len(tx.ops) : tx.ops[i].op = "merge"
          /\ after.w.acct.claims \subseteq world.acct.claims
          /\ (\A i \in 1..Len(tx.ops) : tx.ops[i].op \in CloseNames) => Holds(after.w.acct) = Holds(world.acct)
      BY <2>3, <2>6, <3>1, <3>2, AppliedOK, ZenonT(40) DEF after
    <3> HIDE DEF after
    <3> QED BY <2>4, <3>3
  <2>8. after.w.acct.merged => after.ok
    <3>1. Len(tx.ops) \in Nat
      BY <2>2, SeqIs
    <3> HIDE DEF tx
    <3>2. ASSUME ~after.ok PROVE ~after.w.acct.merged
      <4>1. after.w = Charged(world, tx)
        BY <3>1, <3>2, FailedIsCharged
      <4>2. Charged(world, tx).acct.merged = world.acct.merged
        BY <1>2, ChargedOK
      <4> QED BY <2>4, <4>1, <4>2, Zenon
    <3> QED BY <3>2
  <2>9. (payout = "mediator" /\ planned /\ after.w.acct.merged) =>
          /\ after.w.memo = "memo"
          /\ \E paid, sent \in after.w.left :
               /\ paid.how = "merge" /\ sent.how = "forward" /\ sent.by = paid.to
               /\ sent.units >= reviewed.account.xlm - ForwardTolerance
    BY <1>1, <1>2, <2>1, <2>7, <2>8, MergeHandsOn, Zenon
  <2> HIDE DEF after
  <2>10. AnswersOK'
    BY <1>1, <1>2 DEF AnswersOK
  <2>11. Placed'
    <3>1. phase' \in {"sending", "ask", "closed", "stopped"}
      BY <2>1
    <3>2. WorldOK(world)'
      BY <2>1, <2>7 DEF WorldOK, AccountOK
    <3>3. (payout \in {"direct", "mediator"} /\ (~sound => planned))'
      BY <1>1, <1>2
    <3> QED BY <2>10, <3>1, <3>2, <3>3 DEF Placed
  <2>12. FundsGoAsAnswered'
    <3>1. \A m \in world'.left : MoveFits(m)
      BY <2>1, <2>7
    <3>2. ASSUME NEW m, MoveFits(m) PROVE MoveFits(m)'
      BY <1>1, <3>2 DEF MoveFits
    <3>3. \A m \in world'.left : MoveFits(m)'
      BY <3>1, <3>2
    <3> QED BY <3>3 DEF FundsGoAsAnswered, MoveFits
  <2>13. BalanceReachesDestination'
    BY <1>1, <2>1, <2>9, Zenon DEF BalanceReachesDestination
  <2>14. ClaimsAreOnce'
    BY <1>1, <2>1, <2>7 DEF RoundsInv, ClaimsAreOnce
  <2>15. AsRead'
    BY <2>1 DEF AsRead
  <2>16. CASE phase' = "sending"
    <3>1. /\ IsSeq(Tail(queue))
          /\ \A i \in 1..Len(Tail(queue)) : i + 1 \in 1..Len(queue) /\ Tail(queue)[i] = queue[i + 1]
      BY <1>1, <1>2, HeadIs, Zenon
    <3>2. queue' = Tail(queue) /\ after.ok
      BY <2>1, <2>16
    <3> DEFINE rest == Tail(queue)
    <3> HIDE DEF rest
    <3>3. /\ IsSeq(rest) /\ queue' = rest
          /\ \A i \in 1..Len(rest) : i + 1 \in 1..Len(queue) /\ rest[i] = queue[i + 1]
      BY <3>1, <3>2 DEF rest
    <3>4. QueueFits'
      <4>1. \A i \in 1..Len(rest) :
              IsSeq(rest[i].ops) /\ \A o \in ToSet(rest[i].ops) : OpOK(o) /\ (~planned => OpFits(o))
        BY <1>1, <1>2, <3>3, Zenon DEF QueueFits
      <4>2. \A o : OpFits(o)' <=> OpFits(o)
        BY <1>1, FitsKept
      <4>3. \A o : OpOK(o)' <=> OpOK(o)
        BY DEF OpOK
      <4> QED BY <1>1, <3>3, <4>1, <4>2, <4>3, Zenon DEF QueueFits
    <3>5. Timely'
      <4>1. \A i \in 1..Len(rest) : \A o \in ToSet(rest[i].ops) :
              o.op = "claim" => \E t \in Int : /\ ClaimHolds(o.what, t) /\ t <= world.now
                                               /\ rest[i].until \in Int /\ rest[i].until <= t + ClaimMargin
        BY <1>1, <3>3, Zenon DEF RoundsInv, Timely
      <4>2. phase' # "confirmed" /\ world'.now = world.now
        BY <2>1, <2>7, <2>16
      <4> QED BY <3>3, <4>1, <4>2, Zenon DEF Timely
    <3>6. LastRound'
      <4> SUFFICES ASSUME sound, ~again PROVE LastRound'
        <5>1. (phase' = "sending" /\ (again' \/ ~sound')) => LastRound'
          BY DEF LastRound
        <5>2. again' = again /\ sound' = sound
          BY <1>1
        <5> QED BY <2>16, <5>1, <5>2, Zenon
      <4>1. NothingOpen /\ \A i \in 1..Len(queue) : \A o \in ToSet(queue[i].ops) : o.op \in CloseNames
        BY <1>1 DEF RoundsInv, LastRound
      <4>2. \A i \in 1..Len(tx.ops) : tx.ops[i].op \in CloseNames
        BY <2>2, <2>5, <4>1
      <4>3. Holds(after.w.acct) = Holds(world.acct)
        BY <2>7, <4>2
      <4>4. world'.acct.tokens = world.acct.tokens /\ world'.acct.exits = world.acct.exits /\ world'.acct.claims = world.acct.claims
        BY <2>1, <4>3 DEF Holds
      <4>5. NothingOpen'
        BY <1>1, <4>1, <4>4 DEF NothingOpen, Positions
      <4>6. \A i \in 1..Len(rest) : \A o \in ToSet(rest[i].ops) : o.op \in CloseNames
        BY <3>3, <4>1, Zenon
      <4> QED BY <3>3, <4>5, <4>6, Zenon DEF LastRound
    <3> QED BY <2>11, <2>12, <2>13, <2>14, <2>15, <3>4, <3>5, <3>6 DEF RoundsInv
  <2>17. CASE phase' # "sending"
    <3>1. QueueFits' /\ Timely'
      BY <2>1, <2>17 DEF QueueFits, Timely
    <3>2. LastRound'
      <4> SUFFICES ASSUME sound, phase' = "closed" PROVE NothingOpen'
        BY <1>1, <2>17 DEF LastRound
      <4>1. ~again
        BY <2>1
      <4>2. NothingOpen /\ \A i \in 1..Len(queue) : \A o \in ToSet(queue[i].ops) : o.op \in CloseNames
        BY <1>1, <4>1 DEF RoundsInv, LastRound
      <4>3. \A i \in 1..Len(tx.ops) : tx.ops[i].op \in CloseNames
        BY <2>2, <2>5, <4>2
      <4>4. Holds(after.w.acct) = Holds(world.acct)
        BY <2>7, <4>3
      <4>5. world'.acct.tokens = world.acct.tokens /\ world'.acct.exits = world.acct.exits /\ world'.acct.claims = world.acct.claims
        BY <2>1, <4>4 DEF Holds
      <4> QED BY <1>1, <4>2, <4>5 DEF NothingOpen, Positions
    <3> QED BY <2>11, <2>12, <2>13, <2>14, <2>15, <3>1, <3>2 DEF RoundsInv
  <2> QED BY <2>16, <2>17
<1> QED BY <1>3, <1>4

-----------------------------------------------------------------------------
(* The rest of the world. *)

\* What the close counts on stays as it is, whatever else moves.
Spared(w) ==
  /\ WorldOK(w) /\ w.left = world.left /\ w.memo = world.memo /\ w.acct.merged = world.acct.merged
  /\ w.acct.tokens = world.acct.tokens /\ w.acct.exits = world.acct.exits
  /\ w.acct.claims \cup w.coming \subseteq world.acct.claims \cup world.coming
  /\ w.acct.claims \cap w.coming = {} /\ w.coming \subseteq world.coming
  /\ world.now <= w.now
  /\ phase = "confirmed" => w.now <= ledgerTime + (ClaimMargin - Timeout)

\* A disturbance that spares what the close counts on.
LEMMA DisturbKeeps == ASSUME RoundsInv, NEW w, Disturb(w), Spared(w) PROVE RoundsInv'
<1>1. /\ UNCHANGED <<payout, planned, sound, reviewed, answers, phase, reading, shown, ledgerTime, queue, again>>
      /\ world' = w /\ phase \in {"ask", "read", "confirmed", "sending"}
  BY DEF Disturb, Running
<1>2. /\ WorldOK(world) /\ AnswersOK /\ payout \in {"direct", "mediator"} /\ (~sound => planned)
  BY <1>1 DEF RoundsInv, Placed
<1>3. AnswersOK'
  BY <1>1, <1>2 DEF AnswersOK
<1>4. Placed'
  <2>1. WorldOK(world)'
    BY <1>1 DEF Spared, WorldOK, AccountOK
  <2> QED BY <1>1, <1>2, <1>3, <2>1 DEF Placed
<1>5. QueueFits'
  BY <1>1 DEF RoundsInv, QueueFits, OpFits, OpOK
<1>6. ClaimsAreOnce'
  BY <1>1 DEF RoundsInv, ClaimsAreOnce, Spared
<1>7. AsRead'
  BY <1>1 DEF RoundsInv, AsRead, Spared
<1>8. FundsGoAsAnswered'
  BY <1>1 DEF RoundsInv, FundsGoAsAnswered, Spared
<1>9. BalanceReachesDestination'
  BY <1>1, Zenon DEF RoundsInv, BalanceReachesDestination, Spared
<1>10. Timely'
  <2>1. world.now \in Int /\ w.now \in Int /\ world.now <= w.now
    BY <1>2 DEF Spared, WorldOK
  <2>2. \A t \in Int : t <= world.now => t <= w.now
    BY <2>1
  <2>3. ASSUME phase = "confirmed"
        PROVE  ledgerTime \in Int /\ ledgerTime <= w.now /\ w.now <= ledgerTime + (ClaimMargin - Timeout)
    BY <2>2, <2>3 DEF RoundsInv, Timely, Spared
  <2>4. ASSUME phase = "sending", NEW i \in 1..Len(queue), NEW o \in ToSet(queue[i].ops), o.op = "claim"
        PROVE  \E t \in Int : /\ ClaimHolds(o.what, t) /\ t <= w.now
                              /\ queue[i].until \in Int /\ queue[i].until <= t + ClaimMargin
    BY <2>2, <2>4, Zenon DEF RoundsInv, Timely
  <2> QED BY <1>1, <2>3, <2>4, Zenon DEF Timely
<1>11. LastRound'
  <2> SUFFICES ASSUME LastRound, sound, phase = "sending", ~again PROVE LastRound'
    BY <1>1 DEF RoundsInv, LastRound
  <2>1. NothingOpen /\ \A i \in 1..Len(queue) : \A o \in ToSet(queue[i].ops) : o.op \in CloseNames
    BY DEF LastRound
  <2>2. w.acct.claims \cap shown \subseteq world.acct.claims
    BY DEF RoundsInv, ClaimsAreOnce, Spared
  <2>3. NothingOpen'
    BY <1>1, <2>1, <2>2 DEF NothingOpen, Positions, Spared
  <2> QED BY <1>1, <2>1, <2>3 DEF LastRound
<1> QED BY <1>4, <1>5, <1>6, <1>7, <1>8, <1>9, <1>10, <1>11 DEF RoundsInv

\* A change of the account that leaves its tokens, positions and claims alone.
LEMMA AccountMoves ==
  ASSUME RoundsInv, NEW k, AccountOK(k), k.merged = world.acct.merged, Holds(k) = Holds(world.acct),
         Disturb([world EXCEPT !.acct = k])
  PROVE  RoundsInv'
<1> DEFINE w == [world EXCEPT !.acct = k]
<1>1. WorldOK(world) /\ phase # "plan"
  BY DEF RoundsInv, Placed, Disturb, Running
<1>2. w.acct = k /\ w.now = world.now /\ w.left = world.left /\ w.memo = world.memo /\ w.coming = world.coming
  BY <1>1 DEF WorldOK
<1>3. WorldOK(w)
  BY <1>1 DEF WorldOK
<1>4. k.tokens = world.acct.tokens /\ k.exits = world.acct.exits /\ k.claims = world.acct.claims
  BY DEF Holds
<1>5. world.now <= world.now
  BY <1>1 DEF WorldOK
<1>6. Disturb(w)
  OBVIOUS
<1> HIDE DEF w
<1>7. Spared(w)
  BY <1>2, <1>3, <1>4, <1>5 DEF Spared, RoundsInv, Timely, ClaimsAreOnce
<1> QED BY <1>6, <1>7, DisturbKeeps

\* A change outside the account and the clock.
LEMMA RestMoves ==
  ASSUME RoundsInv, NEW f \in {"rate", "room", "ownerCanPay", "destination"}, NEW v,
         f = "rate" => v \in [Things -> Int], Disturb([world EXCEPT ![f] = v])
  PROVE  RoundsInv'
<1> DEFINE w == [world EXCEPT ![f] = v]
<1>1. WorldOK(world) /\ phase # "plan"
  BY DEF RoundsInv, Placed, Disturb, Running
<1>2. /\ w.acct = world.acct /\ w.now = world.now /\ w.left = world.left /\ w.memo = world.memo
      /\ w.coming = world.coming
  BY <1>1 DEF WorldOK
<1>3. WorldOK(w)
  BY <1>1 DEF WorldOK
<1>4. world.now <= world.now
  BY <1>1 DEF WorldOK
<1>5. Disturb(w)
  OBVIOUS
<1> HIDE DEF w
<1>6. Spared(w)
  BY <1>2, <1>3, <1>4 DEF Spared, RoundsInv, Timely, ClaimsAreOnce
<1> QED BY <1>5, <1>6, DisturbKeeps

\* Somebody pays the account.
LEMMA DepositKeeps == ASSUME RoundsInv, Deposit PROVE RoundsInv'
<1>1. PICK what \in {"native"} \cup AssetSet : Disturb([world EXCEPT !.acct = Credited(@, what, 1)])
  BY DEF Deposit
<1> DEFINE k == Credited(world.acct, what, 1)
<1>2. WorldOK(world) /\ AccountOK(world.acct) /\ "acct" \in DOMAIN world
  BY <1>1 DEF RoundsInv, Placed, Disturb, WorldOK
<1>3. AccountOK(k) /\ k.merged = world.acct.merged /\ k.claims = world.acct.claims
  BY <1>2, CreditedOK
<1>4. k.tokens = world.acct.tokens /\ k.exits = world.acct.exits
  <2>1. CASE what = "native"
    BY <1>2, <2>1 DEF Credited, AccountOK
  <2>2. CASE what # "native"
    <3>1. what \notin TokenSet
      BY <2>2, HoldingsAssumption
    <3> QED BY <1>2, <2>2, <3>1 DEF Credited, AccountOK
  <2> QED BY <2>1, <2>2
<1>5. [world EXCEPT !.acct = Credited(@, what, 1)] = [world EXCEPT !.acct = k]
  BY <1>2
<1> HIDE DEF k
<1>6. Disturb([world EXCEPT !.acct = k])
  BY <1>1, <1>5
<1> QED BY <1>3, <1>4, <1>6, AccountMoves DEF Holds

\* The owner adds a data entry.
LEMMA AddDataKeeps == ASSUME RoundsInv, AddData PROVE RoundsInv'
<1>1. PICK d : Disturb([world EXCEPT !.acct.data = @ \cup {d}, !.acct.seq = @ + 1])
  BY DEF AddData
<1> DEFINE once == [world.acct EXCEPT !["data"] = @ \cup {d}]
           twice == [once EXCEPT !["seq"] = @ + 1]
<1>2. WorldOK(world) /\ AccountOK(world.acct) /\ "acct" \in DOMAIN world
  BY <1>1 DEF RoundsInv, Placed, Disturb, WorldOK
<1>3. AccountOK(once) /\ once.merged = world.acct.merged /\ Holds(once) = Holds(world.acct)
  <2>1. "data" # "claims" /\ "data" \in {"seq", "xlm", "high", "extra", "data", "offers", "sponsors", "claims"}
    OBVIOUS
  <2> QED BY <1>2, <2>1, FieldOK, Zenon
<1>4. AccountOK(twice) /\ twice.merged = world.acct.merged /\ Holds(twice) = Holds(world.acct)
  <2>1. "seq" # "claims" /\ "seq" \in {"seq", "xlm", "high", "extra", "data", "offers", "sponsors", "claims"}
    OBVIOUS
  <2> HIDE DEF once
  <2>2. ASSUME NEW v
        PROVE  /\ AccountOK([once EXCEPT !["seq"] = v]) /\ [once EXCEPT !["seq"] = v].merged = once.merged
               /\ Holds([once EXCEPT !["seq"] = v]) = Holds(once)
    BY <1>3, <2>1, FieldOK, Zenon
  <2> QED BY <1>3, <2>2, Zenon
<1>5. [world EXCEPT !.acct.data = @ \cup {d}, !.acct.seq = @ + 1] = [world EXCEPT !.acct = twice]
  <2>1. "seq" \in DOMAIN world.acct /\ "data" \in DOMAIN world.acct
    BY <1>2 DEF AccountOK
  <2> QED BY <1>2, <2>1
<1> HIDE DEF once, twice
<1> QED BY <1>1, <1>4, <1>5, AccountMoves

\* A rate falls.
LEMMA MarketMovesKeeps == ASSUME RoundsInv, MarketMoves PROVE RoundsInv'
<1>1. PICK x \in Things, rate \in Int : Disturb([world EXCEPT !.rate[x] = rate])
  BY DEF MarketMoves
<1> DEFINE v == [world.rate EXCEPT ![x] = rate]
<1>2. v \in [Things -> Int]
  BY <1>1 DEF RoundsInv, Placed, WorldOK
<1>3. Disturb([world EXCEPT !["rate"] = v])
  BY <1>1
<1> HIDE DEF v
<1> QED BY <1>2, <1>3, RestMoves

\* The account chosen for a transfer has less room.
LEMMA DestinationFillsKeeps == ASSUME RoundsInv, DestinationFills PROVE RoundsInv'
<1>1. PICK a \in AssetSet : Disturb([world EXCEPT !.room[a] = @ - 1])
  BY DEF DestinationFills
<1> DEFINE v == [world.room EXCEPT ![a] = @ - 1]
<1>2. Disturb([world EXCEPT !["room"] = v])
  BY <1>1
<1> HIDE DEF v
<1> QED BY <1>2, RestMoves

\* The destination is gone.
LEMMA DestinationGoneKeeps == ASSUME RoundsInv, DestinationGone PROVE RoundsInv'
<1>1. Disturb([world EXCEPT !["destination"] = FALSE])
  BY DEF DestinationGone
<1> QED BY <1>1, RestMoves

\* The owner of a sponsored entry can no longer pay for it.
LEMMA OwnerSpendsKeeps == ASSUME RoundsInv, OwnerSpends PROVE RoundsInv'
<1>1. Disturb([world EXCEPT !["ownerCanPay"] = FALSE])
  BY DEF OwnerSpends
<1> QED BY <1>1, RestMoves

\* Time passes; a build is cut off before the claim margin is used up.
LEMMA TickKeeps == ASSUME RoundsInv, Tick PROVE RoundsInv'
<1>1. /\ Disturb([world EXCEPT !.now = @ + 1])
      /\ phase = "confirmed" => world.now < ledgerTime + (ClaimMargin - Timeout)
  BY DEF Tick
<1> DEFINE w == [world EXCEPT !.now = @ + 1]
<1>2. WorldOK(world) /\ world.now \in Int
  BY <1>1 DEF RoundsInv, Placed, Disturb, WorldOK
<1>3. /\ w.acct = world.acct /\ w.now = world.now + 1 /\ w.left = world.left /\ w.memo = world.memo
      /\ w.coming = world.coming
  BY <1>2 DEF WorldOK
<1>4. WorldOK(w) /\ world.now <= w.now
  BY <1>2, <1>3 DEF WorldOK
<1>5. phase = "confirmed" => w.now <= ledgerTime + (ClaimMargin - Timeout)
  <2>1. phase = "confirmed" => ledgerTime \in Int
    BY DEF RoundsInv, Timely
  <2> QED BY <1>1, <1>2, <1>3, <2>1, LimitsAssumption
<1> HIDE DEF w
<1>6. Spared(w)
  BY <1>3, <1>4, <1>5 DEF Spared, RoundsInv, ClaimsAreOnce
<1> QED BY <1>1, <1>6, DisturbKeeps DEF w

\* Another claimant takes a balance.
LEMMA ClaimTakenKeeps == ASSUME RoundsInv, ClaimTaken PROVE RoundsInv'
<1>1. PICK c : Disturb([world EXCEPT !.acct.claims = @ \ {c}])
  BY DEF ClaimTaken
<1> DEFINE k == [world.acct EXCEPT !["claims"] = @ \ {c}]
           w == [world EXCEPT !.acct = k]
<1>2. WorldOK(world) /\ AccountOK(world.acct) /\ world.now \in Int
  BY <1>1 DEF RoundsInv, Placed, Disturb, WorldOK
<1>3. AccountOK(k)
  BY <1>2, FieldOK
<1>4. /\ k.merged = world.acct.merged /\ k.tokens = world.acct.tokens /\ k.exits = world.acct.exits
      /\ k.claims = world.acct.claims \ {c}
  BY <1>2 DEF AccountOK
<1>5. [world EXCEPT !.acct.claims = @ \ {c}] = w
  BY <1>2 DEF WorldOK, AccountOK
<1> HIDE DEF k
<1>6. w.acct = k /\ w.now = world.now /\ w.left = world.left /\ w.memo = world.memo /\ w.coming = world.coming
  BY <1>2 DEF WorldOK
<1>7. WorldOK(w)
  BY <1>2, <1>3 DEF WorldOK
<1> HIDE DEF w
<1>8. Spared(w)
  BY <1>2, <1>4, <1>6, <1>7 DEF Spared, RoundsInv, Timely, ClaimsAreOnce
<1> QED BY <1>1, <1>5, <1>8, DisturbKeeps

\* Somebody creates a balance for this account.
LEMMA ClaimArrivesKeeps == ASSUME RoundsInv, ClaimArrives PROVE RoundsInv'
<1>1. PICK c \in world.coming : Disturb([world EXCEPT !.acct.claims = @ \cup {c}, !.coming = @ \ {c}])
  BY DEF ClaimArrives
<1> DEFINE k == [world.acct EXCEPT !["claims"] = @ \cup {c}]
           w == [world EXCEPT !.acct = k, !.coming = @ \ {c}]
<1>2. WorldOK(world) /\ AccountOK(world.acct) /\ world.now \in Int
  BY <1>1 DEF RoundsInv, Placed, Disturb, WorldOK
<1>3. AccountOK(k)
  BY <1>2, FieldOK
<1>4. /\ k.merged = world.acct.merged /\ k.tokens = world.acct.tokens /\ k.exits = world.acct.exits
      /\ k.claims = world.acct.claims \cup {c}
  BY <1>2 DEF AccountOK
<1>5. [world EXCEPT !.acct.claims = @ \cup {c}, !.coming = @ \ {c}] = w
  BY <1>2 DEF WorldOK, AccountOK
<1> HIDE DEF k
<1>6. /\ w.acct = k /\ w.now = world.now /\ w.left = world.left /\ w.memo = world.memo
      /\ w.coming = world.coming \ {c}
  BY <1>2 DEF WorldOK
<1>7. WorldOK(w)
  BY <1>2, <1>3 DEF WorldOK
<1> HIDE DEF w
<1>8. Spared(w)
  BY <1>1, <1>2, <1>4, <1>6, <1>7 DEF Spared, RoundsInv, Timely, ClaimsAreOnce
<1> QED BY <1>1, <1>5, <1>8, DisturbKeeps

-----------------------------------------------------------------------------
\* Every step of a close keeps the invariant.
LEMMA RoundsNext == RoundsInv /\ [Next]_vars => RoundsInv'
<1> SUFFICES ASSUME RoundsInv, [Next]_vars PROVE RoundsInv'
  OBVIOUS
<1>1. CASE Answer
  BY <1>1, AnswerKeeps
<1>2. CASE Read
  BY <1>2, ReadKeeps
<1>3. CASE Confirm
  BY <1>3, ConfirmKeeps
<1>4. CASE Build
  BY <1>4, BuildKeeps
<1>5. CASE BuildOther
  BY <1>5, BuildOtherKeeps
<1>6. CASE Submit
  BY <1>6, SubmitKeeps
<1>7. CASE Deposit
  BY <1>7, DepositKeeps
<1>8. CASE AddData
  BY <1>8, AddDataKeeps
<1>9. CASE MarketMoves
  BY <1>9, MarketMovesKeeps
<1>10. CASE DestinationFills
  BY <1>10, DestinationFillsKeeps
<1>11. CASE DestinationGone
  BY <1>11, DestinationGoneKeeps
<1>12. CASE ClaimTaken
  BY <1>12, ClaimTakenKeeps
<1>13. CASE ClaimArrives
  BY <1>13, ClaimArrivesKeeps
<1>14. CASE OwnerSpends
  BY <1>14, OwnerSpendsKeeps
<1>15. CASE Tick
  BY <1>15, TickKeeps
<1>16. CASE UNCHANGED vars
  <2>1. UNCHANGED <<world, payout, planned, sound, reviewed, answers, phase, reading, shown, ledgerTime, queue, again>>
    BY <1>16 DEF vars
  <2>2. Placed'
    BY <2>1 DEF RoundsInv, Placed, WorldOK, AccountOK, AnswersOK
  <2>3. QueueFits'
    BY <2>1 DEF RoundsInv, QueueFits, OpOK, OpFits
  <2>4. Timely' /\ ClaimsAreOnce' /\ AsRead'
    BY <2>1 DEF RoundsInv, Timely, ClaimsAreOnce, AsRead
  <2>5. LastRound'
    BY <2>1 DEF RoundsInv, LastRound, NothingOpen, Positions
  <2>6. FundsGoAsAnswered'
    BY <2>1 DEF RoundsInv, FundsGoAsAnswered
  <2>7. BalanceReachesDestination'
    BY <2>1, Zenon DEF RoundsInv, BalanceReachesDestination
  <2> QED BY <2>2, <2>3, <2>4, <2>5, <2>6, <2>7 DEF RoundsInv
<1>17. CASE Over
  BY <1>16, <1>17 DEF Over
<1> QED BY <1>1, <1>2, <1>3, <1>4, <1>5, <1>6, <1>7, <1>8, <1>9, <1>10, <1>11, <1>12, <1>13, <1>14, <1>15, <1>16,
           <1>17 DEF Next

\* The invariant holds throughout.
LEMMA RoundsHold == Spec => []RoundsInv
BY RoundsInit, RoundsNext, PTL DEF Spec

-----------------------------------------------------------------------------
\* Whatever the server built and whatever moved meanwhile, all that leaves the account leaves the way the
\* user answered (verify.ts, tx-builder/index.ts).
THEOREM FundsFollowTheAnswers == Spec => []FundsGoAsAnswered
<1>1. RoundsInv => FundsGoAsAnswered
  BY DEF RoundsInv
<1> QED BY <1>1, RoundsHold, PTL

\* A balance that was merged into an intermediary was handed on by it in the same transaction, with the
\* memo and short of no more than the tolerance, whoever built the merge (verify.ts).
THEOREM TheBalanceIsHandedOn == Spec => []BalanceReachesDestination
<1>1. RoundsInv => BalanceReachesDestination
  BY DEF RoundsInv
<1> QED BY <1>1, RoundsHold, PTL

\* A close that ended left no claim, token or position behind that the user did not leave
\* (build-transactions.ts: the order of the rounds).
THEOREM NothingIsForgotten == Spec => []NothingForgotten
<1>1. RoundsInv => NothingForgotten
  <2> SUFFICES ASSUME RoundsInv, sound, phase = "closed" PROVE NothingForgotten
    BY DEF NothingForgotten
  <2>1. NothingOpen
    BY DEF RoundsInv, LastRound
  <2> QED BY <2>1 DEF NothingOpen, NothingForgotten
<1> QED BY <1>1, RoundsHold, PTL

\* The predicates whose instants have no gap: predicateHoldsThroughWindow looks at both ends only.
NoGaps == \A c \in ToSet(Claims) : \A s, u \in ClaimOpen[c] : s..u \subseteq ClaimOpen[c]

\* A predicate without a gap that holds at both ends of a stretch holds within.
LEMMA OpenBetween ==
  ASSUME NoGaps, NEW c \in ToSet(Claims), NEW s \in Int, NEW u \in Int, NEW t \in Int, s <= t, t <= u,
         OpenAt(c, s), OpenAt(c, u)
  PROVE  OpenAt(c, t)
<1> DEFINE cap(i) == IF i > LastInstant THEN LastInstant ELSE i
<1>1. LastInstant \in Int
  BY HoldingsAssumption
<1>2. cap(s) \in ClaimOpen[c] /\ cap(u) \in ClaimOpen[c]
  BY DEF OpenAt
<1>3. cap(s) \in Int /\ cap(t) \in Int /\ cap(u) \in Int /\ cap(s) <= cap(t) /\ cap(t) <= cap(u)
  BY <1>1
<1> HIDE DEF cap
<1>4. cap(t) \in cap(s)..cap(u)
  BY <1>3
<1>5. cap(t) \in ClaimOpen[c]
  BY <1>2, <1>4 DEF NoGaps
<1> QED BY <1>5 DEF OpenAt, cap

\* While a transaction that claims a balance can still be included the predicate of the balance holds
\* (claim-predicates.ts: the margin outlasts the time bound), provided that it has no gap.
THEOREM ClaimsAreInTime == NoGaps => (Spec => []ClaimsLandInTime)
<1> SUFFICES ASSUME NoGaps PROVE Spec => []ClaimsLandInTime
  OBVIOUS
<1>1. RoundsInv => ClaimsLandInTime
  <2> SUFFICES ASSUME RoundsInv, phase = "sending", NEW i \in DOMAIN queue, NEW j \in DOMAIN queue[i].ops,
                      queue[i].ops[j].op = "claim", world.now <= queue[i].until
               PROVE  OpenAt(queue[i].ops[j].what, world.now)
    BY DEF ClaimsLandInTime
  <2> DEFINE o == queue[i].ops[j]
             until == queue[i].until
  <2>1. i \in 1..Len(queue) /\ IsSeq(queue[i].ops)
    BY SeqIs DEF RoundsInv, QueueFits
  <2>2. o \in ToSet(queue[i].ops)
    BY <2>1, SeqIs
  <2>3. PICK t \in Int : ClaimHolds(o.what, t) /\ t <= world.now /\ until \in Int /\ until <= t + ClaimMargin
    BY <2>1, <2>2, Zenon DEF RoundsInv, Timely
  <2>4. world.now \in Int /\ world.now <= until
    BY DEF RoundsInv, Placed, WorldOK
  <2> HIDE DEF o, until
  <2>5. t + ClaimMargin \in Int /\ world.now <= t + ClaimMargin
    BY <2>3, <2>4, LimitsAssumption
  <2>6. OpenAt(o.what, t) /\ OpenAt(o.what, t + ClaimMargin) /\ o.what \in ToSet(Claims)
    BY <2>3 DEF ClaimHolds, HoldsThroughWindow
  <2>7. OpenAt(o.what, world.now)
    BY <2>3, <2>4, <2>5, <2>6, OpenBetween
  <2> QED BY <2>7 DEF o
<1> QED BY <1>1, RoundsHold, PTL
=============================================================================
