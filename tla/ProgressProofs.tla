--------------------------- MODULE ProgressProofs ---------------------------
(***************************************************************************)
(* That a close comes to its end, left alone: every round leaves less to do *)
(* than it found, and the fees of what is left are there once a Soroban     *)
(* round has landed.  First what there is to do, counted; then what each    *)
(* operation, transaction and round takes off it; then the two invariants,  *)
(* one lemma per action, and the theorems.                                  *)
(***************************************************************************)
EXTENDS RoundsProofs

\* A part of a finite set is no larger, and smaller by each element it lacks.
LEMMA PartCounts ==
  ASSUME NEW S, IsFiniteSet(S), NEW T, T \subseteq S
  PROVE  /\ IsFiniteSet(T) /\ Cardinality(S) \in Nat /\ Cardinality(T) \in Nat /\ Cardinality(T) <= Cardinality(S)
         /\ \A x \in S : x \notin T => Cardinality(T) + 1 <= Cardinality(S)
<1>1. /\ IsFiniteSet(T) /\ Cardinality(S) \in Nat /\ Cardinality(T) \in Nat /\ Cardinality(T) <= Cardinality(S)
  BY FS_Subset, FS_CardinalityType
<1>2. ASSUME NEW x \in S, x \notin T PROVE Cardinality(T) + 1 <= Cardinality(S)
  <2>1. T \cup {x} \subseteq S
    BY <1>2
  <2>2. Cardinality(T \cup {x}) = Cardinality(T) + 1
    BY <1>1, <1>2, FS_AddElement
  <2>3. Cardinality(T \cup {x}) <= Cardinality(S)
    BY <2>1, FS_Subset
  <2> QED BY <2>2, <2>3
<1> QED BY <1>1, <1>2

\* The elements of a sequence are finitely many, no more than it is long.
LEMMA ListIsFinite ==
  ASSUME NEW s, IsSeq(s) PROVE IsFiniteSet(ToSet(s)) /\ Cardinality(ToSet(s)) <= Len(s)
<1>1. Len(s) \in Nat /\ s = [i \in 1..Len(s) |-> s[i]] /\ ToSet(s) = {s[i] : i \in 1..Len(s)}
  BY SeqIs
<1>2. s \in Surjection(1..Len(s), ToSet(s))
  BY <1>1 DEF Surjection
<1>3. IsFiniteSet(1..Len(s)) /\ Cardinality(1..Len(s)) = Len(s)
  <2>1. 1 \in Int /\ Len(s) \in Int
    BY <1>1
  <2>2. IsFiniteSet(1..Len(s)) /\ Cardinality(1..Len(s)) = IF 1 > Len(s) THEN 0 ELSE Len(s) - 1 + 1
    BY <2>1, FS_Interval
  <2> QED BY <1>1, <2>2
<1>4. IsFiniteSet(ToSet(s)) /\ Cardinality(ToSet(s)) <= Cardinality(1..Len(s))
  BY <1>2, <1>3, FS_Surjection
<1> QED BY <1>3, <1>4

\* Without repetition there are as many.
LEMMA ListIsCounted ==
  ASSUME NEW s, IsSeq(s), IsInjective(s) PROVE Cardinality(ToSet(s)) = Len(s)
<1>1. Len(s) \in Nat /\ DOMAIN s = 1..Len(s) /\ s = [i \in 1..Len(s) |-> s[i]] /\ ToSet(s) = {s[i] : i \in 1..Len(s)}
  BY SeqIs
<1>2. s \in Surjection(1..Len(s), ToSet(s))
  BY <1>1 DEF Surjection
<1>3. s \in Injection(1..Len(s), ToSet(s))
  <2>1. s \in [1..Len(s) -> ToSet(s)]
    BY <1>1
  <2>2. \A i, j \in 1..Len(s) : s[i] = s[j] => i = j
    BY <1>1 DEF IsInjective
  <2> QED BY <2>1, <2>2 DEF Injection, IsInjective
<1>4. IsFiniteSet(1..Len(s)) /\ Cardinality(1..Len(s)) = Len(s)
  <2>1. 1 \in Int /\ Len(s) \in Int
    BY <1>1
  <2>2. IsFiniteSet(1..Len(s)) /\ Cardinality(1..Len(s)) = IF 1 > Len(s) THEN 0 ELSE Len(s) - 1 + 1
    BY <2>1, FS_Interval
  <2> QED BY <1>1, <2>2
<1>5. Cardinality(ToSet(s)) = Cardinality(1..Len(s))
  BY <1>2, <1>3, <1>4, FS_Surjection
<1> QED BY <1>4, <1>5

\* The images of the elements of a finite set are no more than these.
LEMMA ImageIsFinite ==
  ASSUME NEW S, IsFiniteSet(S), NEW f
  PROVE  IsFiniteSet({f[x] : x \in S}) /\ Cardinality({f[x] : x \in S}) <= Cardinality(S)
<1> DEFINE g == [x \in S |-> f[x]]
           T == {f[x] : x \in S}
<1>1. g \in Surjection(S, T)
  BY DEF Surjection
<1> HIDE DEF g, T
<1> QED BY <1>1, FS_Surjection DEF T

-----------------------------------------------------------------------------
\* InOrder, element by element.
LEMMA KeptInSteps ==
  ASSUME NEW all, NEW S, IsSeq(all)
  PROVE  \E kept : /\ kept[0] = <<>>
                   /\ \A i \in 1..Len(all) :
                        kept[i] = IF all[i] \in S THEN Append(kept[i - 1], all[i]) ELSE kept[i - 1]
                   /\ InOrder(all, S) = kept[Len(all)]
<1> DEFINE kept == CHOOSE k : Keeps(k, all, S)
<1>1. Len(all) \in Nat
  BY SeqIs
<1>2. Keeps(kept, all, S)
  BY <1>1, KeptExists
<1>3. InOrder(all, S) = kept[Len(all)]
  BY InOrderIsKept
<1> HIDE DEF kept
<1>4. \A i \in 0..Len(all) : kept[i] =
        IF i = 0 THEN <<>> ELSE IF all[i] \in S THEN Append(kept[i - 1], all[i]) ELSE kept[i - 1]
  BY <1>2 DEF Keeps
<1>5. 0 \in 0..Len(all) /\ \A i \in 1..Len(all) : i \in 0..Len(all) /\ i # 0
  BY <1>1
<1>6. \A i \in 1..Len(all) : kept[i] = IF all[i] \in S THEN Append(kept[i - 1], all[i]) ELSE kept[i - 1]
  BY <1>4, <1>5, Zenon
<1>7. kept[0] = <<>>
  BY <1>4, <1>5, Zenon
<1> QED BY <1>3, <1>6, <1>7

\* What is kept: as many as there are places of the set, the first of them first; all if all are in the set.
LEMMA KeptPlaces ==
  ASSUME NEW all, NEW S, IsSeq(all)
  PROVE  LET r == InOrder(all, S) IN
         /\ Len(r) = Cardinality({j \in 1..Len(all) : all[j] \in S})
         /\ r # <<>> => \E m \in 1..Len(all) : r[1] = all[m] /\ all[m] \in S /\ \A j \in 1..(m - 1) : all[j] \notin S
         /\ ToSet(all) \subseteq S => r = all
<1>1. Len(all) \in Nat /\ all = [i \in 1..Len(all) |-> all[i]] /\ ToSet(all) = {all[i] : i \in 1..Len(all)}
  BY SeqIs
<1>2. PICK kept : /\ kept[0] = <<>>
                  /\ \A i \in 1..Len(all) :
                       kept[i] = IF all[i] \in S THEN Append(kept[i - 1], all[i]) ELSE kept[i - 1]
                  /\ InOrder(all, S) = kept[Len(all)]
  BY KeptInSteps
<1> DEFINE places(i) == {j \in 1..i : all[j] \in S}
           head(i) == kept[i] # <<>> =>
                        \E m \in 1..i : kept[i][1] = all[m] /\ all[m] \in S /\ \A j \in 1..(m - 1) : all[j] \notin S
           whole(i) == (\A j \in 1..i : all[j] \in S) => Len(kept[i]) = i /\ \A j \in 1..i : kept[i][j] = all[j]
           none(i) == kept[i] = <<>> => \A j \in 1..i : all[j] \notin S
           good(i) == /\ kept[i] \in Seq(ToSet(all)) /\ Len(kept[i]) = Cardinality(places(i)) /\ IsFiniteSet(places(i))
                      /\ head(i) /\ whole(i) /\ none(i)
           bad == {i \in 0..Len(all) : ~good(i)}
<1>3. good(0)
  <2>1. places(0) = {}
    OBVIOUS
  <2> HIDE DEF places
  <2>2. Cardinality(places(0)) = 0 /\ IsFiniteSet(places(0))
    BY <2>1, FS_EmptySet
  <2> QED BY <1>2, <2>2
<1>4. ASSUME NEW i \in 1..Len(all), good(i - 1) PROVE good(i)
  <2> DEFINE b == kept[i - 1]
             p == places(i - 1)
  <2>0. i - 1 \in Nat /\ i \in 1..i /\ 1..(i - 1) \subseteq 1..i /\ \A j \in 1..i : j = i \/ j \in 1..(i - 1)
    BY <1>1
  <2>1. b \in Seq(ToSet(all)) /\ Len(b) = Cardinality(p) /\ IsFiniteSet(p) /\ head(i - 1) /\ whole(i - 1) /\ none(i - 1)
    BY <1>4
  <2>2. i \notin p
    BY <2>0
  <2>3. all[i] \in ToSet(all)
    BY <1>1
  <2>4. CASE all[i] \in S
    <3>1. kept[i] = Append(b, all[i])
      BY <1>2, <2>4, Zenon
    <3>2. places(i) = p \cup {i}
      BY <2>0, <2>4
    <3>3. /\ Append(b, all[i]) \in Seq(ToSet(all)) /\ Len(Append(b, all[i])) = Len(b) + 1
          /\ \A j \in 1..Len(b) : Append(b, all[i])[j] = b[j]
          /\ Append(b, all[i])[Len(b) + 1] = all[i]
      <4>1. b \in Seq(ToSet(all))
        BY <2>1
      <4> HIDE DEF b
      <4> QED BY <2>3, <4>1, AppendProperties
    <3>4. Cardinality(places(i)) = Cardinality(p) + 1 /\ IsFiniteSet(places(i))
      <4>1. Cardinality(p) = Len(b) /\ IsFiniteSet(p)
        BY <2>1
      <4> HIDE DEF p, places
      <4> QED BY <4>1, <2>2, <3>2, FS_AddElement
    <3>5. Len(b) \in Nat
      BY <2>1
    <3> HIDE DEF p, places
    <3>6. kept[i] # <<>>
      BY SMTT(30), <3>1, <3>3, <3>5
    <3>7. head(i)
      <4>1. CASE b = <<>>
        <5>1. kept[i][1] = all[i]
          BY <3>1, <3>3, <4>1
        <5>2. \A j \in 1..(i - 1) : all[j] \notin S
          BY <2>1, <4>1
        <5> QED BY <2>0, <2>4, <5>1, <5>2
      <4>2. CASE b # <<>>
        <5>1. Len(b) # 0
          BY <2>1, <4>2, EmptySeq
        <5>2. kept[i][1] = b[1]
          BY <3>1, <3>3, <3>5, <5>1
        <5>3. PICK m \in 1..(i - 1) : b[1] = all[m] /\ all[m] \in S /\ \A j \in 1..(m - 1) : all[j] \notin S
          BY <2>1, <4>2
        <5> QED BY <2>0, <5>2, <5>3
      <4> QED BY <4>1, <4>2
    <3>8. whole(i)
      <4> SUFFICES ASSUME \A j \in 1..i : all[j] \in S
                   PROVE  Len(kept[i]) = i /\ \A j \in 1..i : kept[i][j] = all[j]
        OBVIOUS
      <4>1. Len(b) = i - 1 /\ \A j \in 1..(i - 1) : b[j] = all[j]
        BY <2>0, <2>1
      <4> QED BY <2>0, <3>1, <3>3, <4>1
    <3> QED BY <2>1, <3>1, <3>3, <3>4, <3>6, <3>7, <3>8
  <2>5. CASE all[i] \notin S
    <3>1. kept[i] = b
      BY <1>2, <2>5, Zenon
    <3>2. places(i) = p
      BY <2>0, <2>5
    <3>3. head(i)
      BY <2>0, <2>1, <3>1
    <3>4. whole(i)
      BY <2>0, <2>5
    <3>5. none(i)
      BY <2>0, <2>1, <2>5, <3>1
    <3> HIDE DEF head, whole, none, places
    <3> QED BY <2>1, <3>1, <3>2, <3>3, <3>4, <3>5
  <2> QED BY <2>4, <2>5
<1> HIDE DEF good
<1>5. bad = {}
  <2> SUFFICES ASSUME bad # {} PROVE FALSE
    OBVIOUS
  <2>0. bad \subseteq Nat
    BY <1>1
  <2>1. PICK m \in bad : \A n \in bad : m <= n
    <3> HIDE DEF bad
    <3> QED BY <2>0, Least
  <2>2. m \in 1..Len(all)
    BY <1>1, <1>3, <2>1
  <2>3. m - 1 \notin bad /\ m - 1 \in 0..Len(all)
    BY <1>1, <2>1, <2>2
  <2> QED BY <1>4, <2>1, <2>2, <2>3
<1>6. good(Len(all))
  BY <1>1, <1>5
<1> DEFINE r == InOrder(all, S)
<1>7. r = kept[Len(all)]
  BY <1>2
<1> HIDE DEF r
<1>8. Len(r) = Cardinality(places(Len(all))) /\ r \in Seq(ToSet(all))
  BY <1>6, <1>7 DEF good
<1>9. r # <<>> => \E m \in 1..Len(all) : r[1] = all[m] /\ all[m] \in S /\ \A j \in 1..(m - 1) : all[j] \notin S
  BY <1>6, <1>7 DEF good
<1>10. ToSet(all) \subseteq S => r = all
  <2> SUFFICES ASSUME ToSet(all) \subseteq S PROVE r = all
    OBVIOUS
  <2>1. \A j \in 1..Len(all) : all[j] \in S
    BY <1>1
  <2>2. Len(r) = Len(all) /\ \A j \in 1..Len(all) : r[j] = all[j]
    BY <1>6, <1>7, <2>1 DEF good
  <2>3. r = [j \in 1..Len(r) |-> r[j]]
    BY <1>8
  <2> QED BY <1>1, <2>2, <2>3
<1> QED BY <1>8, <1>9, <1>10 DEF r

\* What is kept of a sequence without repetition has none, and is as long as the set it is of.
LEMMA KeptIsCounted ==
  ASSUME NEW all, NEW S, IsSeq(all), IsInjective(all)
  PROVE  /\ IsInjective(InOrder(all, S)) /\ Len(InOrder(all, S)) = Cardinality(ToSet(all) \cap S)
<1> DEFINE r == InOrder(all, S)
           places == {j \in 1..Len(all) : all[j] \in S}
           T == ToSet(all) \cap S
           f == [j \in places |-> all[j]]
<1>1. Len(all) \in Nat /\ DOMAIN all = 1..Len(all) /\ ToSet(all) = {all[i] : i \in 1..Len(all)}
  BY SeqIs
<1>2. f \in Surjection(places, T)
  BY <1>1 DEF Surjection
<1>3. f \in Injection(places, T)
  <2>1. f \in [places -> T]
    BY <1>1
  <2>2. \A i, j \in places : f[i] = f[j] => i = j
    BY <1>1 DEF IsInjective
  <2> QED BY <2>1, <2>2 DEF Injection, IsInjective
<1>4. IsFiniteSet(places)
  <2>1. 1 \in Int /\ Len(all) \in Int
    BY <1>1
  <2>2. IsFiniteSet(1..Len(all)) /\ places \subseteq 1..Len(all)
    BY <2>1, FS_Interval
  <2> HIDE DEF places
  <2> QED BY <2>2, FS_Subset
<1> HIDE DEF places, T, f
<1>5. Cardinality(T) = Cardinality(places)
  BY <1>2, <1>3, <1>4, FS_Surjection
<1>6. Len(r) = Cardinality(places) /\ IsSeq(r) /\ ToSet(r) = T
  BY KeptPlaces, KeptIs DEF places, T
<1> HIDE DEF r
<1>7. Len(r) \in Nat /\ DOMAIN r = 1..Len(r) /\ r = [i \in 1..Len(r) |-> r[i]] /\ ToSet(r) = {r[i] : i \in 1..Len(r)}
  BY <1>6, SeqIs
<1>8. r \in Surjection(1..Len(r), T)
  BY <1>6, <1>7 DEF Surjection
<1>9. IsFiniteSet(1..Len(r)) /\ Cardinality(1..Len(r)) = Len(r)
  <2>1. 1 \in Int /\ Len(r) \in Int
    BY <1>7
  <2>2. IsFiniteSet(1..Len(r)) /\ Cardinality(1..Len(r)) = IF 1 > Len(r) THEN 0 ELSE Len(r) - 1 + 1
    BY <2>1, FS_Interval
  <2> QED BY <1>7, <2>2
<1>10. r \in Injection(1..Len(r), T)
  BY <1>5, <1>6, <1>8, <1>9, FS_SurjSameCardinalityImpliesInj
<1>11. IsInjective(r)
  BY <1>7, <1>10 DEF Injection, IsInjective
<1> QED BY <1>5, <1>6, <1>11 DEF r, T

\* The first place of the first element of a sequence is the first.
LEMMA FirstIsFirst ==
  ASSUME NEW t, IsSeq(t), t # <<>> PROVE IndexFirstSubSeq(<<Head(t)>>, t) = 1
<1> DEFINE p == Head(t)
           Ends(i) == <<p>> \in SubSeqs(SubSeq(t, 1, i)) /\ \A j \in 0..(i - 1) : <<p>> \notin SubSeqs(SubSeq(t, 1, j))
           last == CHOOSE i \in 0..Len(t) : Ends(i)
<1>1. Len(t) \in Nat /\ 1 \in 1..Len(t) /\ p = t[1] /\ t \in Seq(ToSet(t)) /\ p \in ToSet(t)
  BY SeqIs, HeadIs DEF IsSeq
<1>2. SubSeq(t, 1, 1) = <<p>>
  <2>1. SubSeq(t, 1, 1) = [i \in 1..1 |-> t[i]]
    BY <1>1
  <2>2. <<p>> = [i \in 1..1 |-> t[i]]
    BY <1>1
  <2> QED BY <2>1, <2>2
<1>3. SubSeq(t, 1, 0) = <<>>
  <2>1. SubSeq(t, 1, 0) = [i \in 1..0 |-> t[i]]
    BY <1>1
  <2>2. <<>> = [i \in 1..0 |-> t[i]]
    OBVIOUS
  <2> QED BY <2>1, <2>2
<1>4. <<p>> \in SubSeqs(<<p>>)
  <2> HIDE DEF p
  <2>1. Len(<<p>>) = 1 /\ SubSeq(<<p>>, 0 + 1, 1) = <<p>>
    <3>1. <<p>> = [i \in 1..1 |-> p]
      OBVIOUS
    <3>2. SubSeq(<<p>>, 0 + 1, 1) = [i \in 1..1 |-> p]
      OBVIOUS
    <3> QED BY <3>1, <3>2
  <2> QED BY <2>1 DEF SubSeqs
<1>5. <<p>> \notin SubSeqs(<<>>)
  <2> SUFFICES ASSUME NEW i \in 0..0, NEW j \in 0..0 PROVE <<p>> # SubSeq(<<>>, i + 1, j)
    BY DEF SubSeqs
  <2>1. Len(SubSeq(<<>>, i + 1, j)) = 0
    OBVIOUS
  <2> QED BY <2>1
<1>6. Ends(1)
  <2>1. \A j \in 0..(1 - 1) : j = 0
    OBVIOUS
  <2> QED BY <1>2, <1>3, <1>4, <1>5, <2>1
<1>7. ASSUME NEW i \in 0..Len(t), Ends(i) PROVE i = 1
  <2>1. i # 0
    BY <1>3, <1>5, <1>7
  <2>2. ~(1 \in 0..(i - 1))
    BY <1>2, <1>4, <1>7
  <2> QED BY <1>1, <2>1, <2>2
<1> HIDE DEF Ends
<1>8. last = 1
  <2>1. 1 \in 0..Len(t)
    BY <1>1
  <2> QED BY <1>6, <1>7, <2>1
<1>9. IndexFirstSubSeq(<<p>>, t) = last - (Len(<<p>>) - 1)
  BY DEF IndexFirstSubSeq, Ends
<1> HIDE DEF last, p
<1> QED BY <1>8, <1>9 DEF p

-----------------------------------------------------------------------------
\* A quotient, by what it is.
LEMMA QuotientIs ==
  ASSUME NEW m \in Nat, NEW d \in Nat \ {0}, NEW q \in Nat, q * d <= m, m < q * d + d PROVE m \div d = q
<1> DEFINE r == m \div d
<1>1. r \in Nat /\ r * d <= m /\ m < r * d + d
  <2>1. r \in Nat /\ r * d <= m /\ m < (r + 1) * d
    OBVIOUS
  <2> HIDE DEF r
  <2> QED BY <2>1
<1> HIDE DEF r
<1>2. \A a, b \in Nat : a < b => a * d + d <= b * d
  <2> SUFFICES ASSUME NEW a \in Nat, NEW b \in Nat, a < b PROVE a * d + d <= b * d
    OBVIOUS
  <2>1. (b - a - 1) \in Nat
    OBVIOUS
  <2>2. (b - a - 1) * d \in Nat
    BY <2>1
  <2>3. b * d = a * d + d + (b - a - 1) * d
    OBVIOUS
  <2> QED BY <2>2, <2>3
<1>3. ~(r < q) /\ ~(q < r)
  <2>1. q * d \in Nat /\ r * d \in Nat
    BY <1>1
  <2> QED BY <1>1, <1>2, <2>1
<1>4. r = q
  BY <1>1, <1>3
<1> QED BY <1>4 DEF r

\* Rounds of d: how many it takes to get through n, by what that number is.
LEMMA RoundsOf ==
  ASSUME NEW n \in Nat, NEW d \in Nat \ {0}
  PROVE  /\ CeilDiv(n, d) \in Nat /\ n <= CeilDiv(n, d) * d /\ CeilDiv(n, d) * d < n + d
         /\ \A q \in Nat : (n <= q * d /\ q * d < n + d) => CeilDiv(n, d) = q
<1> DEFINE m == n + d - 1
           r == m \div d
<1>1. m \in Nat /\ CeilDiv(n, d) = r
  BY DEF CeilDiv
<1> HIDE DEF m
<1>2. r \in Nat /\ r * d <= m /\ m < r * d + d
  <2>1. r \in Nat /\ r * d <= m /\ m < (r + 1) * d
    BY <1>1
  <2> HIDE DEF r
  <2> QED BY <2>1
<1>3. ASSUME NEW q \in Nat, n <= q * d, q * d < n + d PROVE r = q
  <2>1. q * d \in Nat
    OBVIOUS
  <2>2. q * d <= m /\ m < q * d + d
    BY <1>3, <2>1 DEF m
  <2> QED BY <1>1, <2>2, QuotientIs
<1> HIDE DEF r
<1>4. r * d \in Nat
  BY <1>2
<1> QED BY <1>1, <1>2, <1>3, <1>4 DEF m

\* Fewer take no more rounds; a full round fewer takes one round less; none takes none, and up to d takes one.
LEMMA RoundsDrop ==
  ASSUME NEW n \in Nat, NEW d \in Nat \ {0}
  PROVE  /\ \A m \in Nat : m <= n => CeilDiv(m, d) <= CeilDiv(n, d)
         /\ \A m \in Nat : m + d <= n => CeilDiv(m, d) + 1 <= CeilDiv(n, d)
         /\ CeilDiv(0, d) = 0 /\ (n > 0 => CeilDiv(n, d) >= 1) /\ (n > 0 /\ n <= d => CeilDiv(n, d) = 1)
<1>1. \A i \in Nat : CeilDiv(i, d) \in Nat /\ i <= CeilDiv(i, d) * d /\ CeilDiv(i, d) * d < i + d
  BY RoundsOf
<1>2. \A a, b \in Nat : a < b => a * d + d <= b * d
  <2> SUFFICES ASSUME NEW a \in Nat, NEW b \in Nat, a < b PROVE a * d + d <= b * d
    OBVIOUS
  <2>1. (b - a - 1) \in Nat
    OBVIOUS
  <2>2. (b - a - 1) * d \in Nat
    BY <2>1
  <2>3. b * d = a * d + d + (b - a - 1) * d
    OBVIOUS
  <2> QED BY <2>2, <2>3
<1>3. ASSUME NEW m \in Nat, m <= n PROVE CeilDiv(m, d) <= CeilDiv(n, d)
  <2> DEFINE a == CeilDiv(n, d)
             b == CeilDiv(m, d)
  <2>1. a \in Nat /\ b \in Nat /\ n <= a * d /\ b * d < m + d
    BY <1>1
  <2> HIDE DEF a, b
  <2>2. a * d \in Nat /\ b * d \in Nat
    BY <2>1
  <2>3. ~(a < b)
    BY <1>2, <1>3, <2>1, <2>2
  <2>4. b <= a
    BY <2>1, <2>3
  <2> QED BY <2>4 DEF a, b
<1>4. ASSUME NEW m \in Nat, m + d <= n PROVE CeilDiv(m, d) + 1 <= CeilDiv(n, d)
  <2> DEFINE a == CeilDiv(n, d)
             b == CeilDiv(m, d)
  <2>1. a \in Nat /\ b \in Nat /\ n <= a * d /\ b * d < m + d
    BY <1>1
  <2> HIDE DEF a, b
  <2>2. a * d \in Nat /\ b * d \in Nat
    BY <2>1
  <2>3. b * d < a * d
    BY <1>4, <2>1, <2>2
  <2>4. ~(a < b) /\ a # b
    BY <1>2, <2>1, <2>2, <2>3
  <2>5. b + 1 <= a
    BY <2>1, <2>4
  <2> QED BY <2>5 DEF a, b
<1>5. CeilDiv(0, d) = 0
  <2>1. 0 <= 0 * d /\ 0 * d < 0 + d
    OBVIOUS
  <2> QED BY <2>1, RoundsOf
<1>6. ASSUME n > 0 PROVE CeilDiv(n, d) >= 1
  <2>1. CeilDiv(n, d) # 0
    BY <1>1, <1>6
  <2> QED BY <1>1, <2>1
<1>7. ASSUME n > 0, n <= d PROVE CeilDiv(n, d) = 1
  <2>1. n <= 1 * d /\ 1 * d < n + d
    BY <1>7
  <2> QED BY <2>1, RoundsOf
<1> QED BY <1>3, <1>4, <1>5, <1>6, <1>7
-----------------------------------------------------------------------------
(* What an operation changes of the account, field by field. *)

\* e is k but for the fields in S.
Others(e, k, S) ==
  /\ "seq" \notin S => e.seq = k.seq
  /\ "xlm" \notin S => e.xlm = k.xlm
  /\ "high" \notin S => e.high = k.high
  /\ "extra" \notin S => e.extra = k.extra
  /\ "data" \notin S => e.data = k.data
  /\ "offers" \notin S => e.offers = k.offers
  /\ "sponsors" \notin S => e.sponsors = k.sponsors
  /\ "tokens" \notin S => e.tokens = k.tokens
  /\ "lines" \notin S => e.lines = k.lines
  /\ "exits" \notin S => e.exits = k.exits
  /\ "claims" \notin S => e.claims = k.claims
  /\ e.master = k.master /\ e.merged = k.merged

LEMMA FieldIs ==
  ASSUME NEW k, AccountOK(k), NEW v,
         NEW f \in {"seq", "xlm", "high", "extra", "data", "offers", "sponsors", "tokens", "lines", "exits", "claims"}
  PROVE  LET e == [k EXCEPT ![f] = v] IN e[f] = v /\ DOMAIN e = DOMAIN k /\ Others(e, k, {f})
BY DEF AccountOK, Others

\* The rest of the world an operation leaves alone.
Alike(d, w) == d.rate = w.rate /\ d.now = w.now /\ d.ownerCanPay = w.ownerCanPay

LEMMA AcctIs ==
  ASSUME NEW w, WorldOK(w), NEW e
  PROVE  [w EXCEPT !.acct = e].acct = e /\ Alike([w EXCEPT !.acct = e], w)
BY DEF WorldOK, Alike

LEMMA GoneIs ==
  ASSUME NEW w, WorldOK(w), NEW o, NEW how, NEW n
  PROVE  Gone(w, o, how, n).acct = w.acct /\ Alike(Gone(w, o, how, n), w)
BY DEF WorldOK, Alike, Gone

\* The operations that take one sub-entry, signer or sponsored entry away, and the one that sets the thresholds.
LEMMA TakenAway ==
  ASSUME NEW w, WorldOK(w), NEW o, ~Foreign(o)
  PROVE  LET k == w.acct
             e == Done(w, o).acct IN
         /\ o.op \in {"removeSigner", "setThresholds", "revoke", "removeData", "cancelOffer"} => Alike(Done(w, o), w)
         /\ o.op = "removeSigner" => e.extra = k.extra \ {o.what} /\ Others(e, k, {"extra"})
         /\ o.op = "setThresholds" => e.high = o.amount /\ Others(e, k, {"high"})
         /\ o.op = "revoke" => e.sponsors = k.sponsors \ {o.what} /\ Others(e, k, {"sponsors"})
         /\ o.op = "removeData" => e.data = k.data \ {o.what} /\ Others(e, k, {"data"})
         /\ o.op = "cancelOffer" => e.offers = k.offers \ {o.what} /\ Others(e, k, {"offers"})
<1> DEFINE k == w.acct
<1>1. AccountOK(k) /\ DOMAIN w = {"acct", "rate", "room", "ownerCanPay", "destination", "now", "coming", "left", "memo"}
  BY DEF WorldOK
<1>2. ASSUME o.op = "removeSigner" PROVE Done(w, o) = [w EXCEPT !.acct = [k EXCEPT !.extra = k.extra \ {o.what}]]
  BY <1>1, <1>2 DEF Done, AccountOK
<1>3. ASSUME o.op = "setThresholds" PROVE Done(w, o) = [w EXCEPT !.acct = [k EXCEPT !.high = o.amount]]
  BY <1>1, <1>3 DEF Done, AccountOK
<1>4. ASSUME o.op = "revoke" PROVE Done(w, o) = [w EXCEPT !.acct = [k EXCEPT !.sponsors = k.sponsors \ {o.what}]]
  BY <1>1, <1>4 DEF Done, AccountOK
<1>5. ASSUME o.op = "removeData" PROVE Done(w, o) = [w EXCEPT !.acct = [k EXCEPT !.data = k.data \ {o.what}]]
  BY <1>1, <1>5 DEF Done, AccountOK
<1>6. ASSUME o.op = "cancelOffer" PROVE Done(w, o) = [w EXCEPT !.acct = [k EXCEPT !.offers = k.offers \ {o.what}]]
  BY <1>1, <1>6 DEF Done, AccountOK
<1> HIDE DEF k
<1>8. \A e : [w EXCEPT !.acct = e].acct = e /\ Alike([w EXCEPT !.acct = e], w)
  BY AcctIs
<1> DEFINE d == Done(w, o)
<1> HIDE DEF d
<1>9. ASSUME o.op = "removeSigner"
      PROVE  Alike(d, w) /\ d.acct.extra = k.extra \ {o.what} /\ Others(d.acct, k, {"extra"})
  <2> DEFINE e == [k EXCEPT !.extra = k.extra \ {o.what}]
  <2>1. e.extra = k.extra \ {o.what} /\ Others(e, k, {"extra"})
    BY <1>1, FieldIs
  <2>2. d = [w EXCEPT !.acct = e]
    BY <1>2, <1>9 DEF d
  <2> HIDE DEF e
  <2>3. d.acct = e /\ Alike(d, w)
    BY <1>8, <2>2
  <2> QED BY <2>1, <2>3
<1>10. ASSUME o.op = "setThresholds"
      PROVE  Alike(d, w) /\ d.acct.high = o.amount /\ Others(d.acct, k, {"high"})
  <2> DEFINE e == [k EXCEPT !.high = o.amount]
  <2>1. e.high = o.amount /\ Others(e, k, {"high"})
    <3>1. \A v : [k EXCEPT !.high = v].high = v /\ Others([k EXCEPT !.high = v], k, {"high"})
      BY <1>1, FieldIs
    <3> QED BY <3>1
  <2>2. d = [w EXCEPT !.acct = e]
    BY <1>3, <1>10 DEF d
  <2> HIDE DEF e
  <2>3. d.acct = e /\ Alike(d, w)
    BY <1>8, <2>2
  <2> QED BY <2>1, <2>3
<1>11. ASSUME o.op = "revoke"
      PROVE  Alike(d, w) /\ d.acct.sponsors = k.sponsors \ {o.what} /\ Others(d.acct, k, {"sponsors"})
  <2> DEFINE e == [k EXCEPT !.sponsors = k.sponsors \ {o.what}]
  <2>1. e.sponsors = k.sponsors \ {o.what} /\ Others(e, k, {"sponsors"})
    BY <1>1, FieldIs
  <2>2. d = [w EXCEPT !.acct = e]
    BY <1>4, <1>11 DEF d
  <2> HIDE DEF e
  <2>3. d.acct = e /\ Alike(d, w)
    BY <1>8, <2>2
  <2> QED BY <2>1, <2>3
<1>12. ASSUME o.op = "removeData"
      PROVE  Alike(d, w) /\ d.acct.data = k.data \ {o.what} /\ Others(d.acct, k, {"data"})
  <2> DEFINE e == [k EXCEPT !.data = k.data \ {o.what}]
  <2>1. e.data = k.data \ {o.what} /\ Others(e, k, {"data"})
    BY <1>1, FieldIs
  <2>2. d = [w EXCEPT !.acct = e]
    BY <1>5, <1>12 DEF d
  <2> HIDE DEF e
  <2>3. d.acct = e /\ Alike(d, w)
    BY <1>8, <2>2
  <2> QED BY <2>1, <2>3
<1>13. ASSUME o.op = "cancelOffer"
      PROVE  Alike(d, w) /\ d.acct.offers = k.offers \ {o.what} /\ Others(d.acct, k, {"offers"})
  <2> DEFINE e == [k EXCEPT !.offers = k.offers \ {o.what}]
  <2>1. e.offers = k.offers \ {o.what} /\ Others(e, k, {"offers"})
    BY <1>1, FieldIs
  <2>2. d = [w EXCEPT !.acct = e]
    BY <1>6, <1>13 DEF d
  <2> HIDE DEF e
  <2>3. d.acct = e /\ Alike(d, w)
    BY <1>8, <2>2
  <2> QED BY <2>1, <2>3
<1> QED BY <1>9, <1>10, <1>11, <1>12, <1>13 DEF d, k

\* One line of the account, replaced.
LEMMA LineIs ==
  ASSUME NEW k, AccountOK(k), NEW a \in AssetSet, NEW l
  PROVE  LET e == [k EXCEPT !.lines = [k.lines EXCEPT ![a] = l]] IN
         e.lines[a] = l /\ Others(e, k, {"lines"}) /\ \A b \in AssetSet : b # a => e.lines[b] = k.lines[b]
<1> DEFINE lines == [k.lines EXCEPT ![a] = l]
           e == [k EXCEPT !.lines = lines]
<1>1. lines[a] = l /\ \A b \in AssetSet : b # a => lines[b] = k.lines[b]
  BY DEF AccountOK
<1> HIDE DEF lines
<1>3. [k EXCEPT !.lines = lines].lines = lines /\ Others([k EXCEPT !.lines = lines], k, {"lines"})
  BY FieldIs
<1> QED BY <1>1, <1>3 DEF lines

\* A line is a record of three fields.
LEMMA LineFields ==
  ASSUME NEW k, AccountOK(k), NEW a \in AssetSet, NEW n
  PROVE  LET l == k.lines[a] IN
         /\ [l EXCEPT !.held = TRUE].held = TRUE /\ [l EXCEPT !.held = TRUE].balance = l.balance
         /\ [l EXCEPT !.held = TRUE].auth = l.auth
         /\ [l EXCEPT !.balance = n].held = l.held /\ [l EXCEPT !.balance = n].balance = n
         /\ [l EXCEPT !.balance = n].auth = l.auth
         /\ NoLine.held = FALSE /\ NoLine.balance = 0 /\ NoLine.auth = "authorized"
         /\ l.held \in BOOLEAN /\ l.balance \in Int
<1> DEFINE l == k.lines[a]
<1>1. l \in [held : BOOLEAN, balance : Int, auth : {"authorized", "unauthorized"}]
  BY DEF AccountOK
<1> HIDE DEF l
<1> QED BY <1>1 DEF NoLine, l

\* The account as the ledger keeps it: nothing in it is negative but, for all that is said here, its XLM.
Sound(k) ==
  /\ AccountOK(k) /\ k.xlm \in Int /\ k.high \in Int
  /\ k.extra \subseteq ToSet(Signers) /\ k.data \subseteq ToSet(DataKeys) /\ k.offers \subseteq ToSet(Offers)
  /\ k.sponsors \subseteq ToSet(Sponsored) /\ k.claims \subseteq ToSet(Claims)
  /\ k.tokens \in [TokenSet -> Nat] /\ k.exits \in [ToSet(Exits) -> Nat]
  /\ \A a \in AssetSet : k.lines[a].balance \in Nat

Whole(w) == WorldOK(w) /\ Sound(w.acct) /\ w.rate \in [Things -> Nat]

\* One line of e is l, the others are those of k.
LineSet(e, k, a, l) == e.lines[a] = l /\ \A b \in AssetSet : b # a => e.lines[b] = k.lines[b]

\* A line opened or removed.
LEMMA LineOpened ==
  ASSUME NEW w, WorldOK(w), NEW o, ~Foreign(o), o.what \in AssetSet, o.op \in {"addLine", "removeLine"}
  PROVE  LET k == w.acct
             d == Done(w, o) IN
         /\ Alike(d, w) /\ Others(d.acct, k, {"lines"})
         /\ o.op = "addLine" => LineSet(d.acct, k, o.what, [k.lines[o.what] EXCEPT !.held = TRUE])
         /\ o.op = "removeLine" => LineSet(d.acct, k, o.what, NoLine)
<1> DEFINE k == w.acct
           l == IF o.op = "addLine" THEN [k.lines[o.what] EXCEPT !.held = TRUE] ELSE NoLine
           e == [k EXCEPT !.lines = [k.lines EXCEPT ![o.what] = l]]
           d == Done(w, o)
<1>1. d = [w EXCEPT !.acct = e]
  <2>1. CASE o.op = "addLine"
    BY <2>1, Zenon DEF Done
  <2>2. CASE o.op = "removeLine"
    BY <2>2, Zenon DEF Done
  <2> QED BY <2>1, <2>2
<1>2. AccountOK(k)
  BY DEF WorldOK
<1>3. e.lines[o.what] = l /\ Others(e, k, {"lines"}) /\ \A b \in AssetSet : b # o.what => e.lines[b] = k.lines[b]
  <2> HIDE DEF k, l
  <2>1. e.lines[o.what] = l /\ Others(e, k, {"lines"})
    BY <1>2, LineIs
  <2>2. \A b \in AssetSet : b # o.what => e.lines[b] = k.lines[b]
    BY <1>2, LineIs
  <2> QED BY <2>1, <2>2
<1> HIDE DEF e
<1>4. d.acct = e /\ Alike(d, w)
  <2> HIDE DEF d
  <2> QED BY <1>1, AcctIs
<1> HIDE DEF d
<1> QED BY <1>3, <1>4 DEF d, LineSet

\* A line drawn on.
LEMMA LineDrawn ==
  ASSUME NEW w, WorldOK(w), NEW o, ~Foreign(o), o.what \in AssetSet, o.op \in {"convert", "pay"}
  PROVE  LET k == w.acct
             d == Done(w, o) IN
         /\ Alike(d, w) /\ Others(d.acct, k, {"lines", "xlm"})
         /\ d.acct.xlm = IF o.op = "convert" THEN k.xlm + w.rate[o.what] * o.amount ELSE k.xlm
         /\ LineSet(d.acct, k, o.what, [k.lines[o.what] EXCEPT !.balance = k.lines[o.what].balance - o.amount])
<1> DEFINE k == w.acct
           l == [k.lines[o.what] EXCEPT !.balance = k.lines[o.what].balance - o.amount]
           e == [k EXCEPT !.lines = [k.lines EXCEPT ![o.what] = l]]
           v == [w EXCEPT !.acct = e]
           d == Done(w, o)
           paid == w.rate[o.what] * o.amount
           x == k.xlm + paid
<1>1. AccountOK(k)
  BY DEF WorldOK
<1>2. e.lines[o.what] = l /\ Others(e, k, {"lines"}) /\ \A b \in AssetSet : b # o.what => e.lines[b] = k.lines[b]
  <2> HIDE DEF k, l
  <2>1. e.lines[o.what] = l /\ Others(e, k, {"lines"})
    BY <1>1, LineIs
  <2>2. \A b \in AssetSet : b # o.what => e.lines[b] = k.lines[b]
    BY <1>1, LineIs
  <2> QED BY <2>1, <2>2
<1>3. e.xlm = k.xlm
  BY <1>2 DEF Others
<1>4. v.acct = e /\ Alike(v, w) /\ DOMAIN v = DOMAIN w /\ DOMAIN e = DOMAIN k
  <2> HIDE DEF e
  <2>1. v.acct = e /\ Alike(v, w) /\ DOMAIN v = DOMAIN w
    BY AcctIs
  <2>2. DOMAIN e = DOMAIN k
    BY DEF e
  <2> QED BY <2>1, <2>2
<1>5. CASE o.op = "pay"
  <2>1. Done(w, o) = Gone([w EXCEPT !.acct.lines[o.what].balance = @ - o.amount,
                                    !.room[o.what] = @ - IF o.to = "chosen" THEN o.amount ELSE 0], o, "pay", 0)
    BY <1>5, Zenon DEF Done
  <2>2. PICK r : Done(w, o) = Gone([v EXCEPT !.room = r], o, "pay", 0)
    BY <2>1, Zenon
  <2> DEFINE u == [v EXCEPT !.room = r]
  <2>3. u.acct = e /\ Alike(u, w) /\ DOMAIN u = DOMAIN w
    <3> HIDE DEF v, e
    <3> QED BY <1>4 DEF Alike, WorldOK
  <2>4. d.acct = u.acct /\ d.rate = u.rate /\ d.now = u.now /\ d.ownerCanPay = u.ownerCanPay
    <3>1. Done(w, o) = Gone(u, o, "pay", 0)
      BY <2>2
    <3> HIDE DEF u
    <3> QED BY <2>3, <3>1 DEF WorldOK, Gone
  <2> HIDE DEF u, d, v, e
  <2>5. d.acct = e /\ Alike(d, w)
    BY <2>3, <2>4 DEF Alike
  <2> QED BY <1>2, <1>3, <1>5, <2>5 DEF LineSet, d, Others
<1>6. CASE o.op = "convert"
  <2>1. Done(w, o) = Gone([w EXCEPT !.acct.lines[o.what].balance = @ - o.amount, !.acct.xlm = @ + paid],
                          o, "convert", paid)
    BY <1>6, Zenon DEF Done
  <2> DEFINE f == [e EXCEPT !.xlm = e.xlm + paid]
             u == [v EXCEPT !.acct = f]
  <2>2. Done(w, o) = Gone(u, o, "convert", paid)
    <3>1. Done(w, o) = Gone([v EXCEPT !.acct = [v.acct EXCEPT !.xlm = v.acct.xlm + paid]], o, "convert", paid)
      BY <2>1, Zenon
    <3> QED BY <1>4, <3>1, Zenon
  <2>3. f.lines = e.lines /\ f.xlm = e.xlm + paid /\ Others(f, e, {"xlm"})
    <3>0. \A m : [e EXCEPT !.xlm = m].xlm = m /\ Others([e EXCEPT !.xlm = m], e, {"xlm"}) /\ [e EXCEPT !.xlm = m].lines = e.lines
      <4> HIDE DEF e
      <4> QED BY <1>1, <1>4 DEF Others, AccountOK
    <3> QED BY <3>0
  <2>4. u.acct = f /\ Alike(u, w) /\ DOMAIN u = DOMAIN w
    <3> HIDE DEF v, e, f
    <3> QED BY <1>4 DEF Alike, WorldOK
  <2> HIDE DEF u
  <2>5. d.acct = u.acct /\ d.rate = u.rate /\ d.now = u.now /\ d.ownerCanPay = u.ownerCanPay
    BY <2>2, <2>4 DEF WorldOK, Gone
  <2> HIDE DEF d, v, e, f
  <2>6. d.acct = f /\ Alike(d, w)
    BY <2>4, <2>5 DEF Alike
  <2>7. Others(f, k, {"lines", "xlm"})
    BY <1>2, <2>3 DEF Others
  <2>8. f.lines[o.what] = l /\ \A b \in AssetSet : b # o.what => f.lines[b] = k.lines[b]
    BY <1>2, <2>3
  <2>9. f.xlm = k.xlm + w.rate[o.what] * o.amount
    BY <1>3, <2>3
  <2> QED BY <1>6, <2>6, <2>7, <2>8, <2>9 DEF LineSet, d
<1> QED BY <1>5, <1>6

\* The lines as they were, but for what is credited to them.
Richer(e, k) ==
  \A a \in AssetSet :
    /\ e.lines[a].held = k.lines[a].held /\ e.lines[a].auth = k.lines[a].auth
    /\ e.lines[a].balance \in Nat /\ e.lines[a].balance >= k.lines[a].balance

\* What a payment into the account changes.
LEMMA CreditedIs ==
  ASSUME NEW k, Sound(k), NEW what
  PROVE  LET e == Credited(k, what, 1) IN
         /\ Others(e, k, {"xlm", "lines", "tokens"}) /\ DOMAIN e = DOMAIN k
         /\ e.xlm \in Int /\ e.xlm >= k.xlm /\ Richer(e, k)
         /\ e.tokens \in [TokenSet -> Nat] /\ \A t \in TokenSet : t # what => e.tokens[t] = k.tokens[t]
         /\ what \notin TokenSet => e.tokens = k.tokens
<1> DEFINE e == Credited(k, what, 1)
<1>1. /\ AccountOK(k) /\ k.xlm \in Int /\ k.tokens \in [TokenSet -> Nat]
      /\ \A a \in AssetSet : k.lines[a].balance \in Nat /\ k.lines[a].balance >= k.lines[a].balance
  BY DEF Sound
<1>2. CASE what = "native"
  <2> DEFINE x == k.xlm + 1
  <2>1. e = [k EXCEPT !.xlm = x]
    BY <1>2 DEF Credited
  <2>2. x \in Int /\ x >= k.xlm
    BY <1>1
  <2> HIDE DEF x, e
  <2>3. e.xlm = x /\ DOMAIN e = DOMAIN k /\ Others(e, k, {"xlm"})
    <3>1. e.xlm = x
      BY <1>1, <2>1, FieldIs
    <3>2. DOMAIN e = DOMAIN k
      BY <1>1, <2>1, FieldIs
    <3>3. Others(e, k, {"xlm"})
      BY <1>1, <2>1, FieldIs
    <3> QED BY <3>1, <3>2, <3>3
  <2> QED BY <1>1, <2>2, <2>3 DEF Others, Richer, e
<1>3. CASE what # "native" /\ what \in TokenSet
  <2> DEFINE ts == [k.tokens EXCEPT ![what] = k.tokens[what] + 1]
  <2>1. e = [k EXCEPT !.tokens = ts]
    BY <1>3 DEF Credited
  <2>2. ts \in [TokenSet -> Nat] /\ \A t \in TokenSet : t # what => ts[t] = k.tokens[t]
    <3>1. k.tokens[what] + 1 \in Nat
      BY <1>1, <1>3
    <3>2. \A m \in Nat : [k.tokens EXCEPT ![what] = m] \in [TokenSet -> Nat]
      BY <1>1
    <3>3. ts \in [TokenSet -> Nat]
      BY <3>1, <3>2
    <3>4. \A t \in TokenSet : t # what => ts[t] = k.tokens[t]
      BY <1>1
    <3> QED BY <3>3, <3>4
  <2> HIDE DEF ts, e
  <2>3. e.tokens = ts /\ DOMAIN e = DOMAIN k /\ Others(e, k, {"tokens"})
    BY <1>1, <2>1, FieldIs
  <2> QED BY <1>1, <1>3, <2>2, <2>3 DEF Others, Richer, e
<1>4. CASE what # "native" /\ what \notin TokenSet
  <2> DEFINE ls == [k.lines EXCEPT ![what].balance = @ + 1]
  <2>1. e = [k EXCEPT !.lines = ls]
    BY <1>4 DEF Credited
  <2>2. \A a \in AssetSet : /\ ls[a].held = k.lines[a].held /\ ls[a].auth = k.lines[a].auth
                            /\ ls[a].balance \in Nat /\ ls[a].balance >= k.lines[a].balance
    <3> SUFFICES ASSUME NEW a \in AssetSet
                 PROVE  /\ ls[a].held = k.lines[a].held /\ ls[a].auth = k.lines[a].auth
                        /\ ls[a].balance \in Nat /\ ls[a].balance >= k.lines[a].balance
      OBVIOUS
    <3>0. DOMAIN k.lines = AssetSet
      BY <1>1 DEF AccountOK
    <3>1. CASE a # what
      <4>1. ls[a] = k.lines[a]
        BY <3>0, <3>1
      <4> QED BY <1>1, <4>1
    <3>2. CASE a = what
      <4> DEFINE l == k.lines[a]
                 m == l.balance + 1
      <4>1. ls[a] = [l EXCEPT !.balance = m]
        BY <3>0, <3>2
      <4>2. l.balance \in Nat /\ m \in Nat /\ m >= l.balance
        BY <1>1
      <4>3. \A n : /\ [l EXCEPT !.balance = n].held = l.held /\ [l EXCEPT !.balance = n].balance = n
                   /\ [l EXCEPT !.balance = n].auth = l.auth
        BY <1>1, LineFields
      <4> HIDE DEF m, ls
      <4> QED BY <4>1, <4>2, <4>3
    <3> QED BY <3>1, <3>2
  <2> HIDE DEF ls, e
  <2>3. e.lines = ls /\ DOMAIN e = DOMAIN k /\ Others(e, k, {"lines"})
    BY <1>1, <2>1, FieldIs
  <2> QED BY <1>1, <2>2, <2>3 DEF Others, Richer, e
<1> QED BY <1>2, <1>3, <1>4

\* A claim.
LEMMA ClaimedIs ==
  ASSUME NEW w, Whole(w), NEW o, ~Foreign(o), o.op = "claim", o.what \in w.acct.claims
  PROVE  LET k == w.acct
             d == Done(w, o) IN
         /\ Alike(d, w) /\ Others(d.acct, k, {"xlm", "lines", "claims"}) /\ d.acct.claims = k.claims \ {o.what}
         /\ d.acct.xlm \in Int /\ d.acct.xlm >= k.xlm /\ Richer(d.acct, k)
<1> DEFINE k == w.acct
           c == Credited(k, ClaimAsset[o.what], 1)
           v == k.claims \ {o.what}
           e == [c EXCEPT !.claims = v]
           d == Done(w, o)
<1>1. Sound(k) /\ AccountOK(k) /\ ClaimAsset[o.what] \notin TokenSet
  <2>1. o.what \in ToSet(Claims)
    BY DEF Whole, Sound
  <2> QED BY <2>1, ListingAssumption DEF Whole, Sound
<1>2. /\ Others(c, k, {"xlm", "lines", "tokens"}) /\ AccountOK(c)
      /\ c.xlm \in Int /\ c.xlm >= k.xlm /\ Richer(c, k) /\ c.tokens = k.tokens /\ c.claims = k.claims
  BY <1>1, CreditedIs, CreditedOK
<1>3. d = [w EXCEPT !.acct = [c EXCEPT !.claims = @ \ {o.what}]]
  BY Zenon DEF Done
<1>4. d = [w EXCEPT !.acct = e]
  <2>1. [c EXCEPT !.claims = @ \ {o.what}] = [c EXCEPT !.claims = c.claims \ {o.what}]
    BY Zenon
  <2>2. c.claims \ {o.what} = v
    BY <1>2
  <2> HIDE DEF c, d, v
  <2> QED BY <1>3, <2>1, <2>2
<1>5. d.acct = e /\ Alike(d, w)
  <2> HIDE DEF d, e
  <2> QED BY <1>4, AcctIs DEF Whole
<1> HIDE DEF c, d, v
<1>6. e.claims = v /\ Others(e, c, {"claims"})
  <2>1. e.claims = v
    BY <1>2, FieldIs
  <2>2. Others(e, c, {"claims"})
    BY <1>2, FieldIs
  <2> QED BY <2>1, <2>2
<1> HIDE DEF e
<1>7. /\ Others(e, k, {"xlm", "lines", "claims"}) /\ e.claims = k.claims \ {o.what}
      /\ e.xlm \in Int /\ e.xlm >= k.xlm /\ Richer(e, k)
  BY <1>2, <1>6 DEF Others, Richer, v
<1> QED BY <1>5, <1>7 DEF d

\* One step of a position: the last one pays out.
LEMMA SteppedOut ==
  ASSUME NEW w, Whole(w), NEW o, ~Foreign(o), o.op = "exit", o.what \in ToSet(Exits), w.acct.exits[o.what] > 0
  PROVE  LET k == w.acct
             p == o.what
             d == Done(w, o)
             e == d.acct IN
         /\ Alike(d, w) /\ Others(e, k, {"xlm", "lines", "tokens", "exits"})
         /\ e.exits = [k.exits EXCEPT ![p] = k.exits[p] - 1]
         /\ e.xlm \in Int /\ e.xlm >= k.xlm /\ Richer(e, k) /\ e.tokens \in [TokenSet -> Nat]
         /\ \A t \in TokenSet : (k.exits[p] > 1 \/ t # ExitPays[p]) => e.tokens[t] = k.tokens[t]
<1> DEFINE k == w.acct
           p == o.what
           d == Done(w, o)
           c == IF k.exits[p] > 1 THEN k ELSE Credited(k, ExitPays[p], 1)
           n == k.exits[p] - 1
           xs == [k.exits EXCEPT ![p] = n]
           e == [c EXCEPT !.exits = xs]
<1>1. Sound(k) /\ AccountOK(k) /\ k.exits \in [ToSet(Exits) -> Nat] /\ k.exits[p] \in Nat
  BY DEF Whole, Sound
<1>2. /\ Others(c, k, {"xlm", "lines", "tokens"}) /\ AccountOK(c)
      /\ c.xlm \in Int /\ c.xlm >= k.xlm /\ Richer(c, k) /\ c.tokens \in [TokenSet -> Nat]
      /\ \A t \in TokenSet : (k.exits[p] > 1 \/ t # ExitPays[p]) => c.tokens[t] = k.tokens[t]
  <2>1. CASE k.exits[p] > 1
    <3>1. c = k
      BY <2>1
    <3> HIDE DEF c
    <3> QED BY <1>1, <3>1 DEF Others, Richer, Sound
  <2>2. CASE ~(k.exits[p] > 1)
    <3>1. c = Credited(k, ExitPays[p], 1)
      BY <2>2
    <3> HIDE DEF c
    <3> QED BY <1>1, <2>2, <3>1, CreditedIs, CreditedOK
  <2> QED BY <2>1, <2>2
<1>3. c.exits = k.exits
  BY <1>2 DEF Others
<1>4. d = [w EXCEPT !.acct = e]
  <2>1. d = [w EXCEPT !.acct = IF k.exits[p] > 1 THEN [k EXCEPT !.exits[p] = @ - 1]
                               ELSE [Credited(k, ExitPays[p], 1) EXCEPT !.exits[p] = 0]]
    BY Zenon DEF Done
  <2>2. CASE k.exits[p] > 1
    <3>1. [k EXCEPT !.exits[p] = @ - 1] = [k EXCEPT !.exits = [k.exits EXCEPT ![p] = k.exits[p] - 1]]
      BY Zenon
    <3>2. c = k
      BY <2>2
    <3> QED BY <2>1, <2>2, <3>1, <3>2, Zenon
  <2>3. CASE ~(k.exits[p] > 1)
    <3>1. c = Credited(k, ExitPays[p], 1)
      BY <2>3
    <3>2. n = 0
      BY <1>1, <2>3
    <3> HIDE DEF c, n
    <3>3. [c EXCEPT !.exits[p] = 0] = [c EXCEPT !.exits = [c.exits EXCEPT ![p] = 0]]
      BY Zenon
    <3>4. [c EXCEPT !.exits[p] = 0] = e
      BY <1>3, <3>2, <3>3
    <3> QED BY <2>1, <2>3, <3>1, <3>4, Zenon
  <2> QED BY <2>2, <2>3
<1>5. d.acct = e /\ Alike(d, w)
  <2> HIDE DEF d, e
  <2> QED BY <1>4, AcctIs DEF Whole
<1> HIDE DEF c, d, xs
<1>6. e.exits = xs /\ Others(e, c, {"exits"})
  BY ZenonT(60), <1>2, FieldIs
<1> HIDE DEF e
<1>7. /\ Others(e, k, {"xlm", "lines", "tokens", "exits"}) /\ e.tokens = c.tokens /\ e.xlm = c.xlm /\ e.lines = c.lines
  BY <1>2, <1>6 DEF Others
<1>8. e.xlm \in Int /\ e.xlm >= k.xlm /\ Richer(e, k)
  BY <1>2, <1>7 DEF Richer
<1> QED BY <1>2, <1>5, <1>6, <1>7, <1>8 DEF d, xs

\* A token sent or sold.
LEMMA TokenMoved ==
  ASSUME NEW w, Whole(w), NEW o, ~Foreign(o), o.op \in {"sendToken", "swapToken"}, o.what \in TokenSet,
         o.amount = w.acct.tokens[o.what]
  PROVE  LET k == w.acct
             d == Done(w, o)
             e == d.acct IN
         /\ Alike(d, w) /\ Others(e, k, {"xlm", "tokens"})
         /\ e.tokens = [k.tokens EXCEPT ![o.what] = 0] /\ e.xlm \in Int /\ e.xlm >= k.xlm
<1> DEFINE k == w.acct
           d == Done(w, o)
           ts == [k.tokens EXCEPT ![o.what] = 0]
           e == [k EXCEPT !.tokens = ts]
           v == [w EXCEPT !.acct = e]
           paid == w.rate[o.what] * o.amount
<1>1. WorldOK(w) /\ AccountOK(k) /\ k.xlm \in Int /\ k.tokens \in [TokenSet -> Nat] /\ paid \in Nat
  <2>1. w.rate[o.what] \in Nat /\ o.amount \in Nat
    BY DEF Whole, Sound, Things
  <2> QED BY <2>1 DEF Whole, Sound
<1>2. ts = [k.tokens EXCEPT ![o.what] = @ - o.amount]
  <2>1. k.tokens[o.what] - o.amount = 0
    BY <1>1
  <2> QED BY <2>1
<1>3. e.tokens = ts /\ Others(e, k, {"tokens"}) /\ DOMAIN e = DOMAIN k
  <2> HIDE DEF ts
  <2>1. e.tokens = ts
    BY <1>1, FieldIs
  <2>2. Others(e, k, {"tokens"})
    BY <1>1, FieldIs
  <2>3. DOMAIN e = DOMAIN k
    BY <1>1, FieldIs
  <2> QED BY <2>1, <2>2, <2>3
<1>4. v.acct = e /\ Alike(v, w) /\ DOMAIN v = DOMAIN w
  <2> HIDE DEF e
  <2> QED BY <1>1, AcctIs
<1>5. CASE o.op = "sendToken"
  <2>1. d = Gone([w EXCEPT !.acct.tokens[o.what] = @ - o.amount], o, "pay", 0)
    BY <1>5, Zenon DEF Done
  <2>2. [w EXCEPT !.acct.tokens[o.what] = @ - o.amount]
          = [w EXCEPT !.acct = [k EXCEPT !.tokens = [k.tokens EXCEPT ![o.what] = @ - o.amount]]]
    BY Zenon
  <2>3. d = Gone(v, o, "pay", 0)
    BY <1>2, <2>1, <2>2, Zenon
  <2> HIDE DEF v, d, e
  <2>4. d.acct = e /\ Alike(d, w)
    BY <1>1, <1>4, <2>3 DEF Alike, WorldOK, Gone
  <2> QED BY <1>1, <1>3, <2>4 DEF Others, d
<1>6. CASE o.op = "swapToken"
  <2>1. d = Gone([w EXCEPT !.acct.tokens[o.what] = @ - o.amount, !.acct.xlm = @ + paid], o, "convert", paid)
    BY <1>6, Zenon DEF Done
  <2> DEFINE f == [e EXCEPT !.xlm = e.xlm + paid]
             u == [v EXCEPT !.acct = f]
  <2>2. d = Gone(u, o, "convert", paid)
    <3>1. [w EXCEPT !.acct.tokens[o.what] = @ - o.amount]
            = [w EXCEPT !.acct = [k EXCEPT !.tokens = [k.tokens EXCEPT ![o.what] = @ - o.amount]]]
      BY Zenon
    <3>2. [w EXCEPT !.acct.tokens[o.what] = @ - o.amount] = v
      BY <1>2, <3>1, Zenon
    <3>3. d = Gone([[w EXCEPT !.acct.tokens[o.what] = @ - o.amount] EXCEPT !.acct.xlm = @ + paid], o, "convert", paid)
      BY <2>1, Zenon
    <3>4. d = Gone([v EXCEPT !.acct.xlm = @ + paid], o, "convert", paid)
      BY <3>2, <3>3, Zenon
    <3>5. [v EXCEPT !.acct.xlm = @ + paid] = [v EXCEPT !.acct = [v.acct EXCEPT !.xlm = v.acct.xlm + paid]]
      BY Zenon
    <3> QED BY <1>4, <3>4, <3>5, Zenon
  <2>3. f.xlm = e.xlm + paid /\ Others(f, e, {"xlm"})
    <3>0. \A m : [e EXCEPT !.xlm = m].xlm = m /\ Others([e EXCEPT !.xlm = m], e, {"xlm"})
      <4> HIDE DEF e
      <4> QED BY <1>1, <1>3 DEF Others, AccountOK
    <3> QED BY <3>0
  <2>4. u.acct = f /\ Alike(u, w) /\ DOMAIN u = DOMAIN w
    <3> HIDE DEF v, e, f
    <3> QED BY <1>1, <1>4 DEF Alike, WorldOK
  <2> HIDE DEF u, d, f
  <2>5. d.acct = f /\ Alike(d, w)
    BY <1>1, <2>2, <2>4 DEF WorldOK, Gone, Alike
  <2> HIDE DEF e, paid
  <2>6. Others(f, k, {"xlm", "tokens"}) /\ f.tokens = ts /\ f.xlm = k.xlm + paid
    BY <1>3, <2>3 DEF Others
  <2> HIDE DEF ts
  <2>7. f.xlm \in Int /\ f.xlm >= k.xlm
    BY <1>1, <2>6
  <2> QED BY <2>5, <2>6, <2>7 DEF d, ts
<1> QED BY <1>5, <1>6
-----------------------------------------------------------------------------
(* What there is to do.  k is the account, ans the answers, p what the      *)
(* destination is.                                                         *)

\* The claims that are not given up, the lines that have, or may still get, something on them, the lines that
\* claims are still to open, and the tokens and the positions' moves still to make.
Pending(k, ans) == {c \in k.claims : ans.claim[c] # "forfeit"}
Fundable(k, ans) == {a \in Held(k) : Pending(k, ans) # {} \/ Positions(k) # {} \/ k.lines[a].balance > 0}
Openings(k, ans) ==
  ({ClaimAsset[c] : c \in {d \in Pending(k, ans) : ans.claim[d] = "add"}} \cap AssetSet) \ Held(k)
Moves(k, ans, which) == {t \in HeldTokens(k) : ans.asset[t] \in which}

\* The operations that take a classic account apart, one each, the thresholds included.
Chores(w, ans) ==
  Cardinality(w.acct.extra) + Cardinality(w.acct.data) + Cardinality(w.acct.offers) + Cardinality(Revocable(w.acct, w))
    + Cardinality(Held(w.acct)) + Cardinality(Fundable(w.acct, ans))
Normalizing(k) == IF NeedsNormalization(k) THEN 1 ELSE 0
Cleanup(w, ans) == Chores(w, ans) + Normalizing(w.acct)

\* What an account lists is what it may hold, each thing once.
LEMMA ListsAre ==
  \A kind \in {Assets, Tokens, Exits, Claims, DataKeys, Offers, Signers, Sponsored} : IsSeq(kind) /\ IsInjective(kind)
<1>1. IsSeq(Assets) /\ IsSeq(Tokens)
  BY HoldingsAssumption DEF IsSeq, AssetSet, TokenSet
<1>2. \A kind \in {Exits, Claims, DataKeys, Offers, Signers, Sponsored} : IsSeq(kind)
  BY HoldingsAssumption DEF IsSeq
<1> QED BY <1>1, <1>2, ListingAssumption

\* Everything there is to do is finitely many.
LEMMA PartsAreFinite ==
  ASSUME NEW k, Sound(k), NEW ans
  PROVE  /\ IsFiniteSet(k.extra) /\ IsFiniteSet(k.data) /\ IsFiniteSet(k.offers) /\ IsFiniteSet(k.sponsors)
         /\ IsFiniteSet(k.claims) /\ IsFiniteSet(Held(k)) /\ IsFiniteSet(Fundable(k, ans)) /\ IsFiniteSet(Pending(k, ans))
         /\ IsFiniteSet(Openings(k, ans)) /\ IsFiniteSet(HeldTokens(k)) /\ IsFiniteSet(Positions(k))
         /\ \A which : IsFiniteSet(Moves(k, ans, which))
<1>1. \A kind \in {Assets, Tokens, Exits, Claims, DataKeys, Offers, Signers, Sponsored} : IsFiniteSet(ToSet(kind))
  BY ListsAre, ListIsFinite
<1>2. IsFiniteSet(AssetSet) /\ IsFiniteSet(TokenSet)
  BY <1>1 DEF AssetSet, TokenSet
<1>3. /\ k.extra \subseteq ToSet(Signers) /\ k.data \subseteq ToSet(DataKeys) /\ k.offers \subseteq ToSet(Offers)
      /\ k.sponsors \subseteq ToSet(Sponsored) /\ k.claims \subseteq ToSet(Claims)
      /\ Held(k) \subseteq AssetSet /\ Fundable(k, ans) \subseteq AssetSet /\ Pending(k, ans) \subseteq ToSet(Claims)
      /\ Openings(k, ans) \subseteq AssetSet /\ HeldTokens(k) \subseteq TokenSet /\ Positions(k) \subseteq ToSet(Exits)
      /\ \A which : Moves(k, ans, which) \subseteq TokenSet
  BY DEF Sound, AccountOK, Held, Fundable, Pending, Openings, HeldTokens, Positions, Moves
<1>4. IsFiniteSet(k.extra) /\ IsFiniteSet(k.data) /\ IsFiniteSet(k.offers) /\ IsFiniteSet(k.sponsors) /\ IsFiniteSet(k.claims)
  BY <1>1, <1>3, FS_Subset
<1>5. IsFiniteSet(Held(k)) /\ IsFiniteSet(Fundable(k, ans)) /\ IsFiniteSet(Pending(k, ans)) /\ IsFiniteSet(Openings(k, ans))
  BY <1>1, <1>2, <1>3, FS_Subset
<1>6. IsFiniteSet(HeldTokens(k)) /\ IsFiniteSet(Positions(k)) /\ \A which : IsFiniteSet(Moves(k, ans, which))
  BY <1>1, <1>2, <1>3, FS_Subset
<1> QED BY <1>4, <1>5, <1>6

\* So it can be counted.
LEMMA PartsCount ==
  ASSUME NEW k, Sound(k), NEW ans
  PROVE  /\ Cardinality(k.extra) \in Nat /\ Cardinality(k.data) \in Nat /\ Cardinality(k.offers) \in Nat
         /\ Cardinality(k.sponsors) \in Nat /\ Cardinality(k.claims) \in Nat /\ Cardinality(Held(k)) \in Nat
         /\ Cardinality(Fundable(k, ans)) \in Nat /\ Cardinality(Pending(k, ans)) \in Nat
         /\ Cardinality(Openings(k, ans)) \in Nat /\ Cardinality(HeldTokens(k)) \in Nat /\ Cardinality(Positions(k)) \in Nat
         /\ \A which : Cardinality(Moves(k, ans, which)) \in Nat
  BY PartsAreFinite, FS_CardinalityType

LEMMA RevocableCounts ==
  ASSUME NEW w, Whole(w)
  PROVE  /\ Revocable(w.acct, w) \subseteq w.acct.sponsors /\ IsFiniteSet(Revocable(w.acct, w))
         /\ Cardinality(Revocable(w.acct, w)) \in Nat
<1>1. Sound(w.acct)
  BY DEF Whole
<1>2. IsFiniteSet(w.acct.sponsors)
  BY <1>1, PartsAreFinite
<1>3. Revocable(w.acct, w) \subseteq w.acct.sponsors
  BY DEF Revocable
<1> QED BY <1>2, <1>3, FS_Subset, FS_CardinalityType

LEMMA ChoresAre ==
  ASSUME NEW w, Whole(w), NEW ans
  PROVE  Chores(w, ans) \in Nat /\ Normalizing(w.acct) \in 0..1 /\ Cleanup(w, ans) \in Nat
<1>1. Sound(w.acct)
  BY DEF Whole
<1> QED BY <1>1, PartsCount, RevocableCounts DEF Chores, Normalizing, Cleanup

\* Nothing is left in d that was not to do in w.
Remains(d, w, ans) ==
  /\ d.acct.extra \subseteq w.acct.extra /\ d.acct.data \subseteq w.acct.data /\ d.acct.offers \subseteq w.acct.offers
  /\ d.acct.sponsors \subseteq w.acct.sponsors /\ Revocable(d.acct, d) \subseteq Revocable(w.acct, w)
  /\ Held(d.acct) \subseteq Held(w.acct) /\ Fundable(d.acct, ans) \subseteq Fundable(w.acct, ans)

\* Something of it is done.
Fewer(d, w, ans) ==
  \/ \E x \in w.acct.extra : x \notin d.acct.extra
  \/ \E x \in w.acct.data : x \notin d.acct.data
  \/ \E x \in w.acct.offers : x \notin d.acct.offers
  \/ \E x \in Revocable(w.acct, w) : x \notin Revocable(d.acct, d)
  \/ \E x \in Held(w.acct) : x \notin Held(d.acct)
  \/ \E x \in Fundable(w.acct, ans) : x \notin Fundable(d.acct, ans)

LEMMA ChoresShrink ==
  ASSUME NEW w, Whole(w), NEW d, Whole(d), NEW ans, Remains(d, w, ans)
  PROVE  Chores(d, ans) <= Chores(w, ans) /\ (Fewer(d, w, ans) => Chores(d, ans) + 1 <= Chores(w, ans))
<1>1. Sound(w.acct) /\ Sound(d.acct)
  BY DEF Whole
<1> DEFINE Counted(T, S) == /\ Cardinality(S) \in Nat /\ Cardinality(T) \in Nat /\ Cardinality(T) <= Cardinality(S)
                            /\ (\E x \in S : x \notin T) => Cardinality(T) + 1 <= Cardinality(S)
<1>2. ASSUME NEW S, IsFiniteSet(S), NEW T, T \subseteq S PROVE Counted(T, S)
  BY <1>2, PartCounts
<1> HIDE DEF Counted
<1>3. /\ Counted(d.acct.extra, w.acct.extra) /\ Counted(d.acct.data, w.acct.data)
      /\ Counted(d.acct.offers, w.acct.offers)
  BY <1>1, <1>2, PartsAreFinite DEF Remains
<1>4. Counted(Revocable(d.acct, d), Revocable(w.acct, w))
  BY <1>1, <1>2, RevocableCounts DEF Remains
<1>5. Counted(Held(d.acct), Held(w.acct)) /\ Counted(Fundable(d.acct, ans), Fundable(w.acct, ans))
  BY <1>1, <1>2, PartsAreFinite DEF Remains
<1> QED BY <1>3, <1>4, <1>5 DEF Counted, Chores, Fewer

\* A product of natural numbers.
LEMMA Times ==
  ASSUME NEW m \in Nat, NEW n \in Nat, NEW c \in Nat, m <= n PROVE m * c \in Nat /\ n * c \in Nat /\ m * c <= n * c
<1>1. (n - m) \in Nat /\ (n - m) * c \in Nat /\ n * c = m * c + (n - m) * c
  OBVIOUS
<1> QED BY <1>1

\* What the account can spend is no less when it has no less and fewer entries.
LEMMA SpareKept ==
  ASSUME NEW k, Sound(k), NEW e, Sound(e), e.xlm >= k.xlm, e.extra \subseteq k.extra, e.data \subseteq k.data,
         e.offers \subseteq k.offers, e.sponsors \subseteq k.sponsors, Held(e) \subseteq Held(k)
  PROVE  Spare(e) >= Spare(k) /\ Spare(e) \in Int /\ Spare(k) \in Int
<1> DEFINE n(j) == 2 + SubEntries(j) + Cardinality(j.sponsors)
           m(j) == Cardinality(j.offers)
<1>1. BaseReserve \in Nat /\ OfferXlm \in Nat /\ e.xlm \in Int /\ k.xlm \in Int
  BY ListingAssumption DEF Sound
<1>2. /\ Cardinality(e.extra) \in Nat /\ Cardinality(k.extra) \in Nat /\ Cardinality(e.extra) <= Cardinality(k.extra)
      /\ Cardinality(e.data) \in Nat /\ Cardinality(k.data) \in Nat /\ Cardinality(e.data) <= Cardinality(k.data)
      /\ Cardinality(e.offers) \in Nat /\ Cardinality(k.offers) \in Nat /\ Cardinality(e.offers) <= Cardinality(k.offers)
  BY PartsAreFinite, PartCounts
<1>3. /\ Cardinality(e.sponsors) \in Nat /\ Cardinality(k.sponsors) \in Nat
      /\ Cardinality(e.sponsors) <= Cardinality(k.sponsors)
      /\ Cardinality(Held(e)) \in Nat /\ Cardinality(Held(k)) \in Nat /\ Cardinality(Held(e)) <= Cardinality(Held(k))
  BY PartsAreFinite, PartCounts
<1>4. n(e) \in Nat /\ n(k) \in Nat /\ n(e) <= n(k) /\ m(e) \in Nat /\ m(k) \in Nat /\ m(e) <= m(k)
  BY <1>2, <1>3 DEF SubEntries
<1>5. /\ Spare(e) = e.xlm - (n(e) * BaseReserve + OfferXlm * m(e))
      /\ Spare(k) = k.xlm - (n(k) * BaseReserve + OfferXlm * m(k))
  BY DEF Spare, FeeFloor, MinimumBalance
<1> HIDE DEF n, m
<1>6. n(e) * BaseReserve \in Nat /\ n(k) * BaseReserve \in Nat /\ n(e) * BaseReserve <= n(k) * BaseReserve
  BY <1>1, <1>4, Times
<1>7. m(e) * OfferXlm \in Nat /\ m(k) * OfferXlm \in Nat /\ m(e) * OfferXlm <= m(k) * OfferXlm
  BY <1>1, <1>4, Times
<1>8. OfferXlm * m(e) = m(e) * OfferXlm /\ OfferXlm * m(k) = m(k) * OfferXlm
  BY <1>1, <1>4
<1> QED BY <1>1, <1>5, <1>6, <1>7, <1>8

\* An account that differs in what is said here only from a sound one is sound.
LEMMA StillSound ==
  ASSUME NEW k, Sound(k), NEW e, AccountOK(e), e.xlm \in Int, e.high \in Int,
         e.extra \subseteq k.extra, e.data \subseteq k.data, e.offers \subseteq k.offers, e.sponsors \subseteq k.sponsors,
         e.claims \subseteq k.claims, e.tokens \in [TokenSet -> Nat], e.exits \in [ToSet(Exits) -> Nat],
         \A a \in AssetSet : e.lines[a].balance \in Nat
  PROVE  Sound(e)
BY DEF Sound

-----------------------------------------------------------------------------
(* The operations that take a classic account apart. *)

\* An operation of the last rounds, for the account it was built for: it empties the line it draws on.
TakeNames == {"removeSigner", "setThresholds", "revoke", "removeData", "cancelOffer", "convert", "pay", "removeLine"}
Exact(k, o) ==
  /\ o.by = "account" /\ o.op \in TakeNames
  /\ o.op \in {"convert", "pay", "removeLine"} => o.what \in AssetSet
  /\ o.op \in {"convert", "pay"} => o.amount \in Nat \ {0} /\ k.lines[o.what].balance <= o.amount
  /\ o.op = "setThresholds" => o.amount = 1

\* Nothing but the classic account is left.
Quiescent(k, ans) == Positions(k) = {} /\ Pending(k, ans) = {}

\* What such an operation leaves.
Taken(d, w, ans, o) ==
  /\ Whole(d) /\ Alike(d, w) /\ Remains(d, w, ans) /\ d.acct.xlm >= w.acct.xlm
  /\ d.acct.tokens = w.acct.tokens /\ d.acct.exits = w.acct.exits /\ d.acct.claims = w.acct.claims
  /\ \A a \in AssetSet : d.acct.lines[a].balance <= w.acct.lines[a].balance
  /\ o.op # "setThresholds" => Fewer(d, w, ans) /\ d.acct.high = w.acct.high
  /\ o.op = "setThresholds" => d.acct.high = 1
  /\ o.op = "removeSigner" => o.what \notin d.acct.extra

LEMMA QuiescentIs ==
  ASSUME NEW k, NEW ans, Quiescent(k, ans)
  PROVE  Fundable(k, ans) = {a \in Held(k) : k.lines[a].balance > 0}
BY DEF Quiescent, Fundable

LEMMA QuiescentStays ==
  ASSUME NEW k, NEW e, NEW ans, Quiescent(k, ans), e.exits = k.exits, e.claims = k.claims
  PROVE  Quiescent(e, ans)
BY DEF Quiescent, Positions, Pending

\* One entry less.
LEMMA EntryTaken ==
  ASSUME NEW w, Whole(w), NEW ans, Quiescent(w.acct, ans), NEW o, OpOK(o), Exact(w.acct, o), Can(w, o),
         o.op \in {"removeSigner", "setThresholds", "revoke", "removeData", "cancelOffer"}
  PROVE  Taken(Done(w, o), w, ans, o)
<1> DEFINE k == w.acct
           d == Done(w, o)
           e == d.acct
<1>1. ~Foreign(o)
  BY DEF Exact, Foreign
<1>2. Sound(k) /\ AccountOK(k) /\ WorldOK(w) /\ k.high \in Int /\ w.rate \in [Things -> Nat]
  BY DEF Whole, Sound
<1>3. WorldOK(d)
  BY <1>1, <1>2, DoneOK
<1>4. /\ Alike(d, w)
      /\ o.op = "removeSigner" => e.extra = k.extra \ {o.what} /\ Others(e, k, {"extra"})
      /\ o.op = "setThresholds" => e.high = 1 /\ Others(e, k, {"high"})
      /\ o.op = "revoke" => e.sponsors = k.sponsors \ {o.what} /\ Others(e, k, {"sponsors"})
      /\ o.op = "removeData" => e.data = k.data \ {o.what} /\ Others(e, k, {"data"})
      /\ o.op = "cancelOffer" => e.offers = k.offers \ {o.what} /\ Others(e, k, {"offers"})
  <2>1. o.op = "setThresholds" => o.amount = 1
    BY DEF Exact
  <2> QED BY <1>1, <1>2, <2>1, TakenAway
<1> HIDE DEF d, e
<1>5. /\ e.xlm = k.xlm /\ e.tokens = k.tokens /\ e.lines = k.lines /\ e.exits = k.exits /\ e.claims = k.claims
      /\ e.extra \subseteq k.extra /\ e.data \subseteq k.data /\ e.offers \subseteq k.offers /\ e.sponsors \subseteq k.sponsors
      /\ o.op # "setThresholds" => e.high = k.high
      /\ e.high \in Int
  <2>1. CASE o.op = "removeSigner"
    BY <1>2, <1>4, <2>1 DEF Others
  <2>2. CASE o.op = "setThresholds"
    BY <1>2, <1>4, <2>2 DEF Others
  <2>3. CASE o.op = "revoke"
    BY <1>2, <1>4, <2>3 DEF Others
  <2>4. CASE o.op = "removeData"
    BY <1>2, <1>4, <2>4 DEF Others
  <2>5. CASE o.op = "cancelOffer"
    BY <1>2, <1>4, <2>5 DEF Others
  <2> QED BY <2>1, <2>2, <2>3, <2>4, <2>5
<1>6. e = d.acct /\ AccountOK(e)
  BY <1>3 DEF e, WorldOK
<1>7. Whole(d)
  <2>1. Sound(e)
    BY <1>2, <1>5, <1>6, StillSound DEF Sound
  <2> QED BY <1>2, <1>3, <1>4, <1>6, <2>1 DEF Whole, Alike
<1>8. Held(e) = Held(k) /\ Fundable(e, ans) = Fundable(k, ans)
  BY <1>5 DEF Held, Fundable, Pending, Positions
<1>9. Revocable(e, d) \subseteq Revocable(k, w)
  BY <1>4, <1>5, <1>6 DEF Revocable, Alike
<1>10. Remains(d, w, ans)
  BY <1>5, <1>6, <1>8, <1>9 DEF Remains
<1>11. o.op # "setThresholds" => Fewer(d, w, ans)
  <2>1. CASE o.op = "removeSigner"
    <3>1. o.what \in k.extra
      BY <1>1, <2>1 DEF Can
    <3> QED BY <1>4, <1>6, <2>1, <3>1 DEF Fewer
  <2>3. CASE o.op = "revoke"
    <3>1. o.what \in k.sponsors \ Unrevocable /\ w.ownerCanPay
      BY <1>1, <2>3 DEF Can
    <3>2. o.what \in Revocable(k, w) /\ o.what \notin Revocable(e, d)
      BY <1>4, <1>6, <2>3, <3>1 DEF Revocable
    <3> QED BY <1>6, <3>2 DEF Fewer
  <2>4. CASE o.op = "removeData"
    <3>1. o.what \in k.data
      BY <1>1, <2>4 DEF Can
    <3> QED BY <1>4, <1>6, <2>4, <3>1 DEF Fewer
  <2>5. CASE o.op = "cancelOffer"
    <3>1. o.what \in k.offers
      BY <1>1, <2>5 DEF Can
    <3> QED BY <1>4, <1>6, <2>5, <3>1 DEF Fewer
  <2> QED BY <2>1, <2>3, <2>4, <2>5
<1>12. o.op = "removeSigner" => o.what \notin e.extra
  BY <1>4
<1>13. \A a \in AssetSet : e.lines[a].balance <= k.lines[a].balance
  BY <1>2, <1>5 DEF Sound
<1>14. e.xlm >= k.xlm
  BY <1>2, <1>5 DEF Sound
<1> HIDE DEF k
<1>15. Taken(d, w, ans, o)
  BY <1>4, <1>5, <1>6, <1>7, <1>10, <1>11, <1>12, <1>13, <1>14 DEF Taken, k
<1> QED BY <1>15 DEF d

\* A line less, or less on it.
LEMMA LineTaken ==
  ASSUME NEW w, Whole(w), NEW ans, Quiescent(w.acct, ans), NEW o, OpOK(o), Exact(w.acct, o), Can(w, o),
         o.op \in {"convert", "pay", "removeLine"}
  PROVE  Taken(Done(w, o), w, ans, o)
<1> DEFINE k == w.acct
           d == Done(w, o)
           e == d.acct
           a == o.what
<1>1. ~Foreign(o) /\ a \in AssetSet
  BY DEF Exact, Foreign
<1>2. Sound(k) /\ AccountOK(k) /\ WorldOK(w) /\ k.high \in Int /\ k.xlm \in Int /\ w.rate \in [Things -> Nat]
      /\ \A b \in AssetSet : k.lines[b].balance \in Nat
  BY DEF Whole, Sound
<1>3. WorldOK(d)
  BY <1>1, <1>2, DoneOK
<1>4. /\ Alike(d, w) /\ Others(e, k, {"lines", "xlm"}) /\ e.xlm \in Int /\ e.xlm >= k.xlm
      /\ \A b \in AssetSet : b # a => e.lines[b] = k.lines[b]
      /\ e.lines[a].balance = 0
      /\ \/ o.op = "removeLine" /\ a \in Held(k) /\ ~e.lines[a].held
         \/ k.lines[a].balance > 0 /\ a \in Held(k) /\ e.lines[a].held = k.lines[a].held
  <2>1. CASE o.op = "removeLine"
    <3>1. Alike(d, w) /\ Others(e, k, {"lines"}) /\ LineSet(e, k, a, NoLine)
      BY <1>1, <1>2, <2>1, LineOpened
    <3>2. k.lines[a].held
      BY <1>1, <2>1 DEF Can
    <3> HIDE DEF d, e
    <3> QED BY <1>1, <1>2, <2>1, <3>1, <3>2 DEF LineSet, NoLine, Others, Held
  <2>2. CASE o.op \in {"convert", "pay"}
    <3> DEFINE m == k.lines[a].balance - o.amount
    <3>1. /\ Alike(d, w) /\ Others(e, k, {"lines", "xlm"}) /\ LineSet(e, k, a, [k.lines[a] EXCEPT !.balance = m])
          /\ e.xlm = IF o.op = "convert" THEN k.xlm + w.rate[a] * o.amount ELSE k.xlm
      BY <1>1, <1>2, <2>2, LineDrawn
    <3>2. k.lines[a].held /\ k.lines[a].balance >= o.amount
      BY <1>1, <2>2 DEF Can, Usable
    <3>3. o.amount \in Nat \ {0} /\ k.lines[a].balance <= o.amount
      BY <2>2 DEF Exact
    <3>4. m = 0 /\ k.lines[a].balance > 0
      BY <1>1, <1>2, <3>2, <3>3
    <3>5. w.rate[a] * o.amount \in Nat
      BY <1>1, <1>2, <3>3 DEF Things
    <3>6. \A n : /\ [k.lines[a] EXCEPT !.balance = n].held = k.lines[a].held
                 /\ [k.lines[a] EXCEPT !.balance = n].balance = n
      BY <1>1, <1>2, LineFields
    <3> HIDE DEF d, e, m
    <3>7. e.lines[a].balance = 0 /\ e.lines[a].held = k.lines[a].held
          /\ \A b \in AssetSet : b # a => e.lines[b] = k.lines[b]
      BY <3>1, <3>4, <3>6 DEF LineSet
    <3>8. e.xlm \in Int /\ e.xlm >= k.xlm
      BY <1>2, <3>1, <3>5
    <3> QED BY <1>1, <3>1, <3>2, <3>4, <3>7, <3>8 DEF Held
  <2> QED BY <2>1, <2>2
<1> HIDE DEF d, e
<1>5. /\ e.tokens = k.tokens /\ e.exits = k.exits /\ e.claims = k.claims /\ e.high = k.high
      /\ e.extra = k.extra /\ e.data = k.data /\ e.offers = k.offers /\ e.sponsors = k.sponsors
  BY <1>4 DEF Others
<1>6. e = d.acct /\ AccountOK(e)
  BY <1>3 DEF e, WorldOK
<1>7. \A b \in AssetSet : e.lines[b].balance \in Nat /\ e.lines[b].balance <= k.lines[b].balance
  BY <1>1, <1>2, <1>4
<1>8. Whole(d)
  <2>1. Sound(e)
    BY <1>2, <1>4, <1>5, <1>6, <1>7, StillSound DEF Sound
  <2> QED BY <1>2, <1>3, <1>4, <1>6, <2>1 DEF Whole, Alike
<1>9. Quiescent(e, ans)
  BY <1>5, QuiescentStays
<1>10. Fundable(e, ans) = {b \in Held(e) : e.lines[b].balance > 0} /\ Fundable(k, ans) = {b \in Held(k) : k.lines[b].balance > 0}
  BY <1>9, QuiescentIs
<1>11. Held(e) \subseteq Held(k)
  BY <1>1, <1>4 DEF Held
<1>12. Fundable(e, ans) \subseteq Fundable(k, ans)
  BY <1>1, <1>4, <1>10, <1>11 DEF Held
<1>13. Revocable(e, d) = Revocable(k, w)
  BY <1>4, <1>5, <1>6 DEF Revocable, Alike
<1>14. Remains(d, w, ans)
  BY <1>5, <1>6, <1>11, <1>12, <1>13 DEF Remains
<1>15. Fewer(d, w, ans)
  <2>1. CASE o.op = "removeLine" /\ a \in Held(k) /\ ~e.lines[a].held
    <3>1. a \notin Held(e)
      BY <2>1 DEF Held
    <3> QED BY <1>6, <2>1, <3>1 DEF Fewer
  <2>2. CASE k.lines[a].balance > 0 /\ a \in Held(k)
    <3>1. a \in Fundable(k, ans) /\ a \notin Fundable(e, ans)
      BY <1>4, <1>10, <2>2
    <3> QED BY <1>6, <3>1 DEF Fewer
  <2> QED BY <1>4, <2>1, <2>2
<1> HIDE DEF k
<1>16. Taken(d, w, ans, o)
  BY <1>4, <1>5, <1>6, <1>7, <1>8, <1>14, <1>15 DEF Taken, k
<1> QED BY <1>16 DEF d

LEMMA ExactTaken ==
  ASSUME NEW w, Whole(w), NEW ans, Quiescent(w.acct, ans), NEW o, OpOK(o), Exact(w.acct, o), Can(w, o)
  PROVE  Taken(Done(w, o), w, ans, o)
<1>1. CASE o.op \in {"convert", "pay", "removeLine"}
  BY <1>1, LineTaken
<1>2. CASE o.op \in {"removeSigner", "setThresholds", "revoke", "removeData", "cancelOffer"}
  BY <1>2, EntryTaken
<1> QED BY <1>1, <1>2 DEF Exact, TakeNames

\* A transaction is charged: the account is as it was but for its sequence number and the fee.
LEMMA ChargedIs ==
  ASSUME NEW w, Whole(w), NEW tx, tx.fee \in Nat
  PROVE  LET c == Charged(w, tx) IN
         /\ Whole(c) /\ Alike(c, w) /\ Others(c.acct, w.acct, {"seq", "xlm"}) /\ c.acct.xlm >= w.acct.xlm - tx.fee
<1> DEFINE k == w.acct
           c == Charged(w, tx)
           e == c.acct
<1>1. WorldOK(w) /\ Sound(k) /\ AccountOK(k) /\ k.xlm \in Int
  BY DEF Whole, Sound
<1>2. WorldOK(c)
  BY <1>1, ChargedOK
<1>3. PICK n, m : c = [[w EXCEPT !.acct = [[k EXCEPT !.seq = n] EXCEPT !.xlm = m]] EXCEPT !.memo = tx.memo]
                  /\ m = k.xlm - (IF tx.sponsored THEN 0 ELSE tx.fee)
  <2> DEFINE m == k.xlm - (IF tx.sponsored THEN 0 ELSE tx.fee)
             e1 == [k EXCEPT !.seq = k.seq + 1]
             v == [w EXCEPT !.acct = e1]
  <2>1. c = [[v EXCEPT !.acct.xlm = @ - (IF tx.sponsored THEN 0 ELSE tx.fee)] EXCEPT !.memo = tx.memo]
    BY Zenon DEF Charged
  <2>2. v.acct = e1
    <3> HIDE DEF e1
    <3> QED BY <1>1, AcctIs
  <2>3. e1.xlm = k.xlm
    BY <1>1 DEF AccountOK
  <2>4. [v EXCEPT !.acct.xlm = @ - (IF tx.sponsored THEN 0 ELSE tx.fee)]
          = [v EXCEPT !.acct = [v.acct EXCEPT !.xlm = v.acct.xlm - (IF tx.sponsored THEN 0 ELSE tx.fee)]]
    BY Zenon
  <2>5. [v EXCEPT !.acct.xlm = @ - (IF tx.sponsored THEN 0 ELSE tx.fee)] = [v EXCEPT !.acct = [e1 EXCEPT !.xlm = m]]
    <3>1. v.acct.xlm - (IF tx.sponsored THEN 0 ELSE tx.fee) = m
      BY <2>2, <2>3
    <3> HIDE DEF v, e1, m
    <3> QED BY <2>2, <2>4, <3>1
  <2>6. [v EXCEPT !.acct = [e1 EXCEPT !.xlm = m]] = [w EXCEPT !.acct = [e1 EXCEPT !.xlm = m]]
    <3>1. \A x : [[w EXCEPT !.acct = e1] EXCEPT !.acct = x] = [w EXCEPT !.acct = x]
      <4> HIDE DEF e1
      <4> QED BY <1>1 DEF WorldOK
    <3> HIDE DEF e1, m
    <3> QED BY <3>1
  <2> HIDE DEF v, m
  <2>7. c = [[w EXCEPT !.acct = [e1 EXCEPT !.xlm = m]] EXCEPT !.memo = tx.memo]
    BY <2>1, <2>5, <2>6, Zenon
  <2> QED BY <2>7 DEF m
<1> DEFINE e1 == [k EXCEPT !.seq = n]
           f == [e1 EXCEPT !.xlm = m]
           v == [w EXCEPT !.acct = f]
<1>4. f.xlm = m /\ Others(f, k, {"seq", "xlm"})
  BY <1>1 DEF AccountOK, Others
<1>5. c.acct = f /\ Alike(c, w)
  <2>1. v.acct = f /\ Alike(v, w) /\ DOMAIN v = DOMAIN w
    <3> HIDE DEF f
    <3> QED BY <1>1, AcctIs
  <2>2. c = [v EXCEPT !.memo = tx.memo]
    BY <1>3
  <2> HIDE DEF c, v, f
  <2> QED BY <1>1, <2>1, <2>2 DEF WorldOK, Alike
<1> HIDE DEF c, f, v
<1>6. m \in Int /\ m >= k.xlm - tx.fee
  BY <1>1, <1>3
<1>7. AccountOK(c.acct)
  BY <1>2 DEF WorldOK
<1>8. Sound(c.acct)
  BY <1>1, <1>4, <1>5, <1>6, <1>7 DEF Sound, Others
<1>9. Whole(c)
  BY <1>2, <1>5, <1>8 DEF Whole, Alike
<1> QED BY <1>4, <1>5, <1>6, <1>9 DEF c

\* What that leaves there is to do, and to spend.
LEMMA ChargedLeaves ==
  ASSUME NEW w, Whole(w), NEW ans, NEW tx, tx.fee \in Nat
  PROVE  LET c == Charged(w, tx) IN
         /\ Remains(c, w, ans) /\ Chores(c, ans) = Chores(w, ans) /\ Normalizing(c.acct) = Normalizing(w.acct)
         /\ Pending(c.acct, ans) = Pending(w.acct, ans) /\ Openings(c.acct, ans) = Openings(w.acct, ans)
         /\ Held(c.acct) = Held(w.acct)
         /\ Spare(c.acct) \in Int /\ Spare(w.acct) \in Int /\ Spare(c.acct) >= Spare(w.acct) - tx.fee
<1> DEFINE k == w.acct
           c == Charged(w, tx)
           e == c.acct
<1>1. Whole(c) /\ Alike(c, w) /\ Others(e, k, {"seq", "xlm"}) /\ e.xlm >= k.xlm - tx.fee /\ Sound(e) /\ Sound(k)
  BY ChargedIs DEF Whole
<1> HIDE DEF c, e
<1>2. /\ e.tokens = k.tokens /\ e.exits = k.exits /\ e.claims = k.claims /\ e.high = k.high /\ e.lines = k.lines
      /\ e.extra = k.extra /\ e.data = k.data /\ e.offers = k.offers /\ e.sponsors = k.sponsors
  BY <1>1 DEF Others
<1>3. /\ Held(e) = Held(k) /\ Pending(e, ans) = Pending(k, ans) /\ Positions(e) = Positions(k)
      /\ Normalizing(e) = Normalizing(k)
  BY <1>2 DEF Held, Pending, Positions, Normalizing, NeedsNormalization
<1>4. Fundable(e, ans) = Fundable(k, ans) /\ Openings(e, ans) = Openings(k, ans)
  BY <1>2, <1>3 DEF Fundable, Openings
<1>5. c.acct = e
  BY DEF e
<1>6. Revocable(e, c) = Revocable(k, w)
  BY <1>1, <1>2, <1>5 DEF Revocable, Alike
<1>7. Remains(c, w, ans) /\ Chores(c, ans) = Chores(w, ans)
  BY <1>2, <1>3, <1>4, <1>5, <1>6 DEF Remains, Chores
<1>8. Spare(e) \in Int /\ Spare(k) \in Int /\ Spare(e) >= Spare(k) - tx.fee
  <2>1. SubEntries(e) = SubEntries(k)
    BY <1>2, <1>3 DEF SubEntries
  <2>2. MinimumBalance(e) = MinimumBalance(k)
    BY <1>2, <2>1 DEF MinimumBalance
  <2>3. FeeFloor(e) = FeeFloor(k)
    BY <1>2, <2>2 DEF FeeFloor
  <2>4. Spare(k) \in Int /\ Spare(e) \in Int
    <3>1. \A a \in AssetSet : k.lines[a].balance \in Nat
      BY <1>1 DEF Sound
    <3>2. k.xlm >= k.xlm /\ e.xlm >= e.xlm
      BY <1>1 DEF Sound
    <3> QED BY <1>1, <3>2, SpareKept
  <2>5. Spare(k) = k.xlm - FeeFloor(k) /\ Spare(e) = e.xlm - FeeFloor(k) /\ k.xlm \in Int /\ e.xlm \in Int
    BY <1>1, <2>3 DEF Spare, Sound
  <2>6. FeeFloor(k) \in Int
    <3>1. /\ Cardinality(k.extra) \in Nat /\ Cardinality(k.data) \in Nat /\ Cardinality(k.offers) \in Nat
          /\ Cardinality(k.sponsors) \in Nat /\ Cardinality(Held(k)) \in Nat
      BY <1>1, PartsCount
    <3>2. BaseReserve \in Nat /\ OfferXlm \in Nat
      BY ListingAssumption
    <3> QED BY <3>1, <3>2 DEF FeeFloor, MinimumBalance, SubEntries
  <2> QED BY <1>1, <2>4, <2>5, <2>6
<1> HIDE DEF k
<1> QED BY <1>3, <1>4, <1>5, <1>7, <1>8 DEF c, k

\* The transaction that sets the thresholds removes every signer before.
Normalizes(k, ops) ==
  \A m \in 1..Len(ops) : ops[m].op = "setThresholds" =>
    /\ NeedsNormalization(k)
    /\ \A x \in k.extra : \E j \in 1..(m - 1) : ops[j].op = "removeSigner" /\ ops[j].what = x
    /\ \A j \in 1..Len(ops) : ops[j].op = "setThresholds" => j = m

\* A transaction of the last rounds: each of its operations takes one thing off what there is to do.
TxTaken(v, w, ans, tx) ==
  /\ Whole(v) /\ Alike(v, w)
  /\ v.acct.tokens = w.acct.tokens /\ v.acct.exits = w.acct.exits /\ v.acct.claims = w.acct.claims
  /\ \A a \in AssetSet : v.acct.lines[a].balance <= w.acct.lines[a].balance
  /\ Spare(v.acct) >= Spare(w.acct) - tx.fee
  /\ Cleanup(v, ans) + Len(tx.ops) <= Cleanup(w, ans)

\* Run up to operation i.
Upto(v, w, ans, tx, i) ==
  /\ Whole(v) /\ Alike(v, w) /\ v.acct.extra \subseteq w.acct.extra
  /\ v.acct.tokens = w.acct.tokens /\ v.acct.exits = w.acct.exits /\ v.acct.claims = w.acct.claims
  /\ \A a \in AssetSet : v.acct.lines[a].balance <= w.acct.lines[a].balance
  /\ Spare(v.acct) >= Spare(w.acct) - tx.fee
  /\ \A j \in 1..i : tx.ops[j].op = "removeSigner" => tx.ops[j].what \notin v.acct.extra
  /\ IF \E j \in 1..i : tx.ops[j].op = "setThresholds"
     THEN v.acct.high = 1 /\ Chores(v, ans) + i <= Chores(w, ans) + 1
     ELSE v.acct.high = w.acct.high /\ Chores(v, ans) + i <= Chores(w, ans)

LEMMA UptoStart ==
  ASSUME NEW w, Whole(w), NEW ans, NEW tx, tx.fee \in Nat
  PROVE  Upto(Charged(w, tx), w, ans, tx, 0)
<1> DEFINE c == Charged(w, tx)
<1>1. Whole(c) /\ Alike(c, w) /\ Others(c.acct, w.acct, {"seq", "xlm"})
  BY ChargedIs
<1>2. Chores(c, ans) = Chores(w, ans) /\ Spare(c.acct) >= Spare(w.acct) - tx.fee
  BY ChargedLeaves
<1>3. Chores(w, ans) \in Nat /\ \A a \in AssetSet : w.acct.lines[a].balance \in Nat
  BY ChoresAre DEF Whole, Sound
<1> HIDE DEF c
<1>4. /\ c.acct.tokens = w.acct.tokens /\ c.acct.exits = w.acct.exits /\ c.acct.claims = w.acct.claims
      /\ c.acct.extra = w.acct.extra /\ c.acct.high = w.acct.high /\ c.acct.lines = w.acct.lines
  BY <1>1 DEF Others
<1>5. Upto(c, w, ans, tx, 0)
  BY <1>1, <1>2, <1>3, <1>4 DEF Upto
<1> QED BY <1>5 DEF c

LEMMA UptoNext ==
  ASSUME NEW w, Whole(w), NEW ans, Quiescent(w.acct, ans), NEW tx, tx.fee \in Nat, Normalizes(w.acct, tx.ops),
         NEW i \in 1..Len(tx.ops), Len(tx.ops) \in Nat, OpOK(tx.ops[i]), Exact(w.acct, tx.ops[i]),
         NEW v, Upto(v, w, ans, tx, i - 1), Can(v, tx.ops[i])
  PROVE  Upto(Done(v, tx.ops[i]), w, ans, tx, i)
<1> DEFINE o == tx.ops[i]
           d == Done(v, o)
<1>1. Whole(v) /\ Alike(v, w) /\ v.acct.exits = w.acct.exits /\ v.acct.claims = w.acct.claims
      /\ \A a \in AssetSet : v.acct.lines[a].balance <= w.acct.lines[a].balance
  BY DEF Upto
<1>2. Quiescent(v.acct, ans)
  BY <1>1, QuiescentStays
<1>3. Exact(v.acct, o)
  <2>1. \A a \in AssetSet : v.acct.lines[a].balance \in Nat /\ w.acct.lines[a].balance \in Nat
    BY <1>1 DEF Whole, Sound
  <2> HIDE DEF o
  <2>2. Exact(w.acct, o)
    BY DEF o
  <2> QED BY SMTT(30), <1>1, <2>1, <2>2 DEF Exact
<1>4. Taken(d, v, ans, o)
  BY <1>1, <1>2, <1>3, ExactTaken
<1> HIDE DEF d
<1>5. Chores(v, ans) \in Nat /\ Chores(d, ans) \in Nat /\ Chores(w, ans) \in Nat
  BY <1>1, <1>4, ChoresAre DEF Taken
<1>6. Chores(d, ans) <= Chores(v, ans) /\ (o.op # "setThresholds" => Chores(d, ans) + 1 <= Chores(v, ans))
  BY <1>1, <1>4, ChoresShrink DEF Taken
<1>7. Spare(d.acct) >= Spare(v.acct) /\ Spare(d.acct) \in Int /\ Spare(v.acct) \in Int /\ Spare(w.acct) \in Int
  <2>1. Sound(v.acct) /\ Sound(d.acct) /\ Sound(w.acct)
    BY <1>1, <1>4 DEF Taken, Whole
  <2>2. w.acct.xlm >= w.acct.xlm
    BY <2>1 DEF Sound
  <2>3. Spare(w.acct) \in Int
    BY <2>1, <2>2, SpareKept
  <2> QED BY <1>4, <2>1, <2>3, SpareKept DEF Taken, Remains
<1>8. i \in Nat /\ i - 1 \in Nat /\ 1..i = 1..(i - 1) \cup {i} /\ (i - 1) + 1 = i
  OBVIOUS
<1>9. Whole(d) /\ Alike(d, w) /\ d.acct.extra \subseteq w.acct.extra /\ d.acct.extra \subseteq v.acct.extra
      /\ d.acct.tokens = w.acct.tokens /\ d.acct.exits = w.acct.exits /\ d.acct.claims = w.acct.claims
  BY <1>1, <1>4 DEF Taken, Alike, Remains, Upto
<1>10. \A a \in AssetSet : d.acct.lines[a].balance <= w.acct.lines[a].balance
  <2>1. \A a \in AssetSet : /\ v.acct.lines[a].balance \in Nat /\ w.acct.lines[a].balance \in Nat
                            /\ d.acct.lines[a].balance \in Nat
    BY <1>1, <1>9 DEF Whole, Sound
  <2>2. \A a \in AssetSet : d.acct.lines[a].balance <= v.acct.lines[a].balance
    BY <1>4 DEF Taken
  <2> QED BY <1>1, <2>1, <2>2
<1>11. Spare(d.acct) >= Spare(w.acct) - tx.fee
  BY <1>7 DEF Upto
<1>12. \A j \in 1..i : tx.ops[j].op = "removeSigner" => tx.ops[j].what \notin d.acct.extra
  <2>1. \A j \in 1..(i - 1) : tx.ops[j].op = "removeSigner" => tx.ops[j].what \notin v.acct.extra
    BY DEF Upto
  <2>2. o.op = "removeSigner" => o.what \notin d.acct.extra
    BY <1>4 DEF Taken
  <2> QED BY <1>8, <1>9, <2>1, <2>2
<1>13. IF \E j \in 1..i : tx.ops[j].op = "setThresholds"
       THEN d.acct.high = 1 /\ Chores(d, ans) + i <= Chores(w, ans) + 1
       ELSE d.acct.high = w.acct.high /\ Chores(d, ans) + i <= Chores(w, ans)
  <2>1. CASE o.op = "setThresholds"
    <3>1. ~\E j \in 1..(i - 1) : tx.ops[j].op = "setThresholds"
      BY <1>8, <2>1 DEF Normalizes
    <3>2. Chores(v, ans) + (i - 1) <= Chores(w, ans)
      BY <3>1 DEF Upto
    <3>3. d.acct.high = 1
      BY <1>4, <2>1 DEF Taken
    <3> QED BY <1>5, <1>6, <1>8, <2>1, <3>2, <3>3
  <2>2. CASE o.op # "setThresholds"
    <3>1. (\E j \in 1..i : tx.ops[j].op = "setThresholds") <=> \E j \in 1..(i - 1) : tx.ops[j].op = "setThresholds"
      BY <1>8, <2>2
    <3>2. d.acct.high = v.acct.high
      BY <1>4, <2>2 DEF Taken
    <3>3. IF \E j \in 1..(i - 1) : tx.ops[j].op = "setThresholds"
          THEN v.acct.high = 1 /\ Chores(v, ans) + (i - 1) <= Chores(w, ans) + 1
          ELSE v.acct.high = w.acct.high /\ Chores(v, ans) + (i - 1) <= Chores(w, ans)
      BY DEF Upto
    <3>4. \A n \in Nat : Chores(v, ans) + (i - 1) <= n => Chores(d, ans) + i <= n
      BY <1>5, <1>6, <1>8, <2>2
    <3> HIDE DEF o
    <3> QED BY <1>5, <3>1, <3>2, <3>3, <3>4
  <2> QED BY <2>1, <2>2
<1>14. Upto(d, w, ans, tx, i)
  BY <1>9, <1>10, <1>11, <1>12, <1>13 DEF Upto
<1> QED BY <1>14 DEF d

LEMMA TransactionTaken ==
  ASSUME NEW w, Whole(w), NEW ans, Quiescent(w.acct, ans), NEW tx, tx.fee \in Nat, IsSeq(tx.ops),
         Normalizes(w.acct, tx.ops), \A i \in 1..Len(tx.ops) : OpOK(tx.ops[i]) /\ Exact(w.acct, tx.ops[i]),
         Applied(w, tx).ok
  PROVE  TxTaken(Applied(w, tx).w, w, ans, tx)
<1> DEFINE n == Len(tx.ops)
<1>1. n \in Nat
  BY SeqIs
<1>2. PICK run : /\ run[0] = [ok |-> TRUE, w |-> Charged(w, tx)]
                 /\ \A i \in 1..n : run[i] = Stepped(w, tx, run[i - 1], i)
                 /\ Applied(w, tx) = run[n]
  BY <1>1, AppliedInSteps
<1> DEFINE good(i) == run[i].ok => Upto(run[i].w, w, ans, tx, i)
           bad == {i \in 0..n : ~good(i)}
<1>3. good(0)
  BY <1>2, UptoStart
<1>4. ASSUME NEW i \in 1..n, good(i - 1) PROVE good(i)
  <2> SUFFICES ASSUME run[i].ok PROVE Upto(run[i].w, w, ans, tx, i)
    OBVIOUS
  <2> DEFINE b == run[i - 1]
  <2>1. run[i] = Stepped(w, tx, b, i)
    BY <1>2
  <2>2. b.ok /\ Can(b.w, tx.ops[i]) /\ run[i].w = Done(b.w, tx.ops[i])
    <3> HIDE DEF b
    <3>1. CASE b.ok /\ Can(b.w, tx.ops[i])
      <4>1. run[i] = [ok |-> TRUE, w |-> Done(b.w, tx.ops[i])]
        BY <2>1, <3>1 DEF Stepped
      <4> QED BY <3>1, <4>1
    <3>2. CASE ~(b.ok /\ Can(b.w, tx.ops[i]))
      <4>1. run[i] = [ok |-> FALSE, w |-> Charged(w, tx)]
        BY <2>1, <3>2 DEF Stepped
      <4> QED BY <4>1
    <3> QED BY <3>1, <3>2
  <2>3. Upto(b.w, w, ans, tx, i - 1)
    BY <1>4, <2>2
  <2> HIDE DEF b
  <2> QED BY <1>1, <2>2, <2>3, UptoNext
<1> HIDE DEF good
<1>5. bad = {}
  <2> SUFFICES ASSUME bad # {} PROVE FALSE
    OBVIOUS
  <2>0. bad \subseteq Nat
    BY <1>1
  <2>1. PICK m \in bad : \A j \in bad : m <= j
    <3> HIDE DEF bad
    <3> QED BY <2>0, Least
  <2>2. m \in 1..n
    BY <1>1, <1>3, <2>1
  <2>3. m - 1 \notin bad /\ m - 1 \in 0..n
    BY <1>1, <2>1, <2>2
  <2> QED BY <1>4, <2>1, <2>2, <2>3
<1>6. good(n)
  BY <1>1, <1>5
<1> DEFINE v == Applied(w, tx).w
<1>7. Upto(v, w, ans, tx, n)
  BY <1>2, <1>6 DEF good
<1> HIDE DEF v
<1>8. Chores(v, ans) \in Nat /\ Chores(w, ans) \in Nat /\ Normalizing(v.acct) \in 0..1 /\ Normalizing(w.acct) \in 0..1
  BY <1>7, ChoresAre DEF Upto
<1>9. Cleanup(v, ans) + n <= Cleanup(w, ans)
  <2>1. CASE \E j \in 1..n : tx.ops[j].op = "setThresholds"
    <3>1. PICK m \in 1..n : tx.ops[m].op = "setThresholds"
      BY <2>1
    <3>2. NeedsNormalization(w.acct) /\ \A x \in w.acct.extra : \E j \in 1..(m - 1) : tx.ops[j].op = "removeSigner" /\ tx.ops[j].what = x
      BY <3>1 DEF Normalizes
    <3>3. 1..(m - 1) \subseteq 1..n
      BY <1>1
    <3>4. v.acct.extra = {}
      BY <1>7, <3>2, <3>3 DEF Upto
    <3>5. v.acct.high = 1 /\ Chores(v, ans) + n <= Chores(w, ans) + 1
      BY <1>7, <2>1 DEF Upto
    <3>6. Normalizing(v.acct) = 0 /\ Normalizing(w.acct) = 1
      BY <3>2, <3>4, <3>5 DEF Normalizing, NeedsNormalization
    <3> QED BY <1>1, <1>8, <3>5, <3>6 DEF Cleanup
  <2>2. CASE ~\E j \in 1..n : tx.ops[j].op = "setThresholds"
    <3>1. v.acct.high = w.acct.high /\ Chores(v, ans) + n <= Chores(w, ans) /\ v.acct.extra \subseteq w.acct.extra
      BY <1>7, <2>2 DEF Upto
    <3>2. Normalizing(v.acct) <= Normalizing(w.acct)
      BY <3>1 DEF Normalizing, NeedsNormalization
    <3> QED BY <1>1, <1>8, <3>1, <3>2 DEF Cleanup
  <2> QED BY <2>1, <2>2
<1>10. TxTaken(v, w, ans, tx)
  BY <1>7, <1>9 DEF Upto, TxTaken
<1> QED BY <1>10 DEF v
-----------------------------------------------------------------------------
(* The operations of a claim round. *)

ClaimStep(o, ans) ==
  /\ o.by = "account" /\ o.op \in {"addLine", "claim"}
  /\ o.op = "claim" => ans.claim[o.what] # "forfeit"
  /\ o.op = "addLine" => o.what \in AssetSet

\* The lines there are, and those that claims are still to open; what taking the account apart will take.
Openable(k, ans) == Held(k) \cup Openings(k, ans)
Load(w, ans) == Cleanup(w, ans) + 2 * Cardinality(Openings(w.acct, ans))

LEMMA LoadIs ==
  ASSUME NEW w, Whole(w), NEW ans
  PROVE  /\ Load(w, ans) \in Nat /\ Cleanup(w, ans) \in Nat /\ Cardinality(Openings(w.acct, ans)) \in Nat
         /\ Cleanup(w, ans) <= Load(w, ans) /\ Cardinality(Pending(w.acct, ans)) \in Nat
<1>1. Cleanup(w, ans) \in Nat
  BY ChoresAre
<1>2. Cardinality(Openings(w.acct, ans)) \in Nat /\ Cardinality(Pending(w.acct, ans)) \in Nat
  BY PartsCount DEF Whole
<1> QED BY <1>1, <1>2 DEF Load

\* What is the same when nothing but lines, claims and XLM changes.
LEMMA ChoresSame ==
  ASSUME NEW w, Whole(w), NEW d, Whole(d), Alike(d, w), Others(d.acct, w.acct, {"xlm", "lines", "claims"}), NEW ans
  PROVE  LET k == w.acct
             e == d.acct IN
         /\ e.extra = k.extra /\ e.data = k.data /\ e.offers = k.offers /\ e.sponsors = k.sponsors
         /\ e.high = k.high /\ e.tokens = k.tokens /\ e.exits = k.exits
         /\ Revocable(e, d) = Revocable(k, w) /\ Normalizing(e) = Normalizing(k) /\ Positions(e) = Positions(k)
<1> DEFINE k == w.acct
           e == d.acct
<1>1. /\ e.extra = k.extra /\ e.data = k.data /\ e.offers = k.offers /\ e.sponsors = k.sponsors
      /\ e.high = k.high /\ e.tokens = k.tokens /\ e.exits = k.exits
  BY DEF Others
<1> HIDE DEF k, e
<1>2. Normalizing(e) = Normalizing(k) /\ Positions(e) = Positions(k)
  BY <1>1 DEF Normalizing, NeedsNormalization, Positions
<1>3. Revocable(e, d) = Revocable(k, w)
  BY <1>1 DEF Revocable, Alike, e, k
<1> QED BY <1>1, <1>2, <1>3 DEF e, k

\* What one of them leaves.
Stepwise(d, w, ans, o) ==
  /\ Whole(d) /\ Alike(d, w) /\ d.acct.tokens = w.acct.tokens /\ d.acct.exits = w.acct.exits
  /\ Pending(d.acct, ans) \subseteq Pending(w.acct, ans) /\ Load(d, ans) <= Load(w, ans)
  /\ Openable(w.acct, ans) \subseteq Openable(d.acct, ans)
  /\ o.op = "claim" => /\ o.what \in Pending(w.acct, ans) /\ o.what \notin Pending(d.acct, ans)
                       /\ Cleanup(d, ans) <= Cleanup(w, ans) /\ Spare(d.acct) >= Spare(w.acct)

LEMMA ClaimApplied ==
  ASSUME NEW w, Whole(w), NEW ans, NEW o, OpOK(o), ClaimStep(o, ans), o.op = "claim", Can(w, o)
  PROVE  Stepwise(Done(w, o), w, ans, o)
<1> DEFINE k == w.acct
           d == Done(w, o)
           e == d.acct
           c == o.what
<1>1. ~Foreign(o)
  BY DEF ClaimStep, Foreign
<1>2. c \in k.claims /\ (ClaimAsset[c] # "native" => Usable(k, ClaimAsset[c]))
  BY <1>1 DEF Can
<1>3. Sound(k) /\ AccountOK(k) /\ WorldOK(w) /\ k.high \in Int /\ w.rate \in [Things -> Nat]
      /\ \A b \in AssetSet : k.lines[b].balance \in Nat
  BY DEF Whole, Sound
<1>4. WorldOK(d)
  BY <1>1, <1>3, DoneOK
<1>5. /\ Alike(d, w) /\ Others(e, k, {"xlm", "lines", "claims"}) /\ e.claims = k.claims \ {c}
      /\ e.xlm \in Int /\ e.xlm >= k.xlm /\ Richer(e, k)
  BY <1>1, <1>2, ClaimedIs
<1> HIDE DEF d, e
<1>6. /\ e.extra = k.extra /\ e.data = k.data /\ e.offers = k.offers /\ e.sponsors = k.sponsors
      /\ e.high = k.high /\ e.tokens = k.tokens /\ e.exits = k.exits
  BY <1>5 DEF Others
<1>7. e = d.acct /\ AccountOK(e)
  BY <1>4 DEF e, WorldOK
<1>8. Whole(d)
  <2>1. Sound(e)
    BY <1>3, <1>5, <1>6, <1>7, StillSound DEF Sound, Richer
  <2> QED BY <1>3, <1>4, <1>5, <1>7, <2>1 DEF Whole, Alike
<1>9. Held(e) = Held(k)
  BY <1>5 DEF Held, Richer
<1>10. Pending(e, ans) = Pending(k, ans) \ {c} /\ c \in Pending(k, ans)
  BY <1>2, <1>5 DEF Pending, ClaimStep
<1>11. Fundable(e, ans) \subseteq Fundable(k, ans)
  BY <1>9, <1>10 DEF Fundable
<1>12. Openings(e, ans) \subseteq Openings(k, ans)
  BY <1>9, <1>10 DEF Openings
<1>13. Revocable(e, d) = Revocable(k, w) /\ Normalizing(e) = Normalizing(k)
  BY <1>5, <1>7, <1>8, ChoresSame
<1>14. Remains(d, w, ans)
  BY <1>6, <1>7, <1>9, <1>11, <1>13 DEF Remains
<1>15. Chores(d, ans) <= Chores(w, ans)
  BY <1>8, <1>14, ChoresShrink
<1>16. Cleanup(d, ans) <= Cleanup(w, ans) /\ Cleanup(d, ans) \in Nat /\ Cleanup(w, ans) \in Nat
  <2>1. Chores(d, ans) \in Nat /\ Chores(w, ans) \in Nat /\ Normalizing(e) \in 0..1 /\ Cleanup(d, ans) \in Nat
        /\ Cleanup(w, ans) \in Nat
    BY <1>7, <1>8, ChoresAre
  <2> QED BY <1>7, <1>13, <1>15, <2>1 DEF Cleanup
<1>17. Load(d, ans) <= Load(w, ans)
  <2>1. /\ Cardinality(Openings(e, ans)) \in Nat /\ Cardinality(Openings(k, ans)) \in Nat
        /\ Cardinality(Openings(e, ans)) <= Cardinality(Openings(k, ans))
    BY <1>3, <1>12, PartsAreFinite, PartCounts
  <2> QED BY <1>7, <1>16, <2>1 DEF Load
<1>18. Openable(k, ans) \subseteq Openable(e, ans)
  <2> SUFFICES ASSUME NEW a \in Openings(k, ans), a \notin Held(k) PROVE a \in Openings(e, ans)
    BY <1>9 DEF Openable
  <2>1. PICK x \in Pending(k, ans) : ans.claim[x] = "add" /\ ClaimAsset[x] = a /\ a \in AssetSet
    BY DEF Openings
  <2>2. x # c
    <3>1. a # "native"
      BY <2>1, ListingAssumption
    <3>2. ASSUME x = c PROVE FALSE
      <4>1. Usable(k, a)
        BY <1>2, <2>1, <3>1, <3>2
      <4> QED BY <2>1, <4>1 DEF Usable, Held
    <3> QED BY <3>2
  <2> QED BY <1>9, <1>10, <2>1, <2>2 DEF Openings
<1>19. Spare(e) >= Spare(k)
  <2>1. Sound(e) /\ e.extra \subseteq k.extra /\ e.data \subseteq k.data /\ e.offers \subseteq k.offers
        /\ e.sponsors \subseteq k.sponsors /\ Held(e) \subseteq Held(k)
    BY <1>6, <1>7, <1>8, <1>9 DEF Whole
  <2> QED BY <1>3, <1>5, <2>1, SpareKept
<1>20. Stepwise(d, w, ans, o)
  BY <1>5, <1>6, <1>7, <1>8, <1>10, <1>16, <1>17, <1>18, <1>19 DEF Stepwise
<1> QED BY <1>20 DEF d

LEMMA LineApplied ==
  ASSUME NEW w, Whole(w), NEW ans, NEW o, OpOK(o), ClaimStep(o, ans), o.op = "addLine",
         o.what \in Openable(w.acct, ans)
  PROVE  Stepwise(Done(w, o), w, ans, o)
<1> DEFINE k == w.acct
           d == Done(w, o)
           e == d.acct
           a == o.what
<1>1. ~Foreign(o) /\ a \in AssetSet
  BY DEF ClaimStep, Foreign
<1>3. Sound(k) /\ AccountOK(k) /\ WorldOK(w) /\ k.high \in Int /\ w.rate \in [Things -> Nat] /\ k.xlm \in Int
      /\ \A b \in AssetSet : k.lines[b].balance \in Nat
  BY DEF Whole, Sound
<1>4. WorldOK(d)
  BY <1>1, <1>3, DoneOK
<1>5. Alike(d, w) /\ Others(e, k, {"lines"}) /\ LineSet(e, k, a, [k.lines[a] EXCEPT !.held = TRUE])
  BY <1>1, <1>3, LineOpened
<1>6. /\ [k.lines[a] EXCEPT !.held = TRUE].held = TRUE
      /\ [k.lines[a] EXCEPT !.held = TRUE].balance = k.lines[a].balance
  BY <1>1, <1>3, LineFields
<1> HIDE DEF d, e
<1>7. /\ e.lines[a].held = TRUE /\ \A b \in AssetSet : e.lines[b].balance = k.lines[b].balance
      /\ \A b \in AssetSet : b # a => e.lines[b].held = k.lines[b].held
  BY <1>1, <1>5, <1>6 DEF LineSet
<1>8. e.claims = k.claims /\ e.xlm = k.xlm
  BY <1>5 DEF Others
<1>9. /\ e.extra = k.extra /\ e.data = k.data /\ e.offers = k.offers /\ e.sponsors = k.sponsors
      /\ e.high = k.high /\ e.tokens = k.tokens /\ e.exits = k.exits
  BY <1>5 DEF Others
<1>10. e = d.acct /\ AccountOK(e)
  BY <1>4 DEF e, WorldOK
<1>11. Whole(d)
  <2>1. Sound(e)
    BY <1>3, <1>7, <1>8, <1>9, <1>10, StillSound DEF Sound
  <2> QED BY <1>3, <1>4, <1>5, <1>10, <2>1 DEF Whole, Alike
<1>12. Others(e, k, {"xlm", "lines", "claims"})
  BY <1>5 DEF Others
<1>13. Revocable(e, d) = Revocable(k, w) /\ Normalizing(e) = Normalizing(k) /\ Positions(e) = Positions(k)
  BY <1>5, <1>10, <1>11, <1>12, ChoresSame
<1>14. Held(e) = Held(k) \cup {a} /\ Pending(e, ans) = Pending(k, ans)
  BY <1>1, <1>7, <1>8 DEF Held, Pending
<1>15. /\ Cardinality(e.extra) \in Nat /\ Cardinality(e.data) \in Nat /\ Cardinality(e.offers) \in Nat
       /\ Cardinality(Revocable(k, w)) \in Nat /\ Normalizing(k) \in 0..1
       /\ Cardinality(Held(k)) \in Nat /\ Cardinality(Fundable(k, ans)) \in Nat /\ Cardinality(Openings(k, ans)) \in Nat
       /\ Cardinality(Held(e)) \in Nat /\ Cardinality(Fundable(e, ans)) \in Nat /\ Cardinality(Openings(e, ans)) \in Nat
  BY <1>3, <1>10, <1>11, PartsCount, RevocableCounts, ChoresAre DEF Whole
<1>16. Load(d, ans) <= Load(w, ans)
  <2>1. CASE a \in Held(k)
    <3>1. Held(e) = Held(k)
      BY <1>14, <2>1
    <3>2. Fundable(e, ans) = Fundable(k, ans) /\ Openings(e, ans) = Openings(k, ans)
      BY <1>7, <1>13, <1>14, <3>1 DEF Fundable, Openings, Held
    <3>3. Load(d, ans) = Load(w, ans)
      BY <1>9, <1>10, <1>13, <3>1, <3>2 DEF Load, Cleanup, Chores
    <3>4. Load(w, ans) \in Nat
      BY LoadIs
    <3> QED BY <3>3, <3>4
  <2>2. CASE a \notin Held(k)
    <3>1. a \in Openings(k, ans)
      BY <2>2 DEF Openable
    <3>2. Pending(k, ans) # {}
      BY <3>1 DEF Openings
    <3>3. Fundable(e, ans) = Held(e) /\ Fundable(k, ans) = Held(k)
      BY <1>14, <3>2 DEF Fundable
    <3>4. Openings(e, ans) \subseteq Openings(k, ans) /\ a \notin Openings(e, ans)
      BY <1>14 DEF Openings
    <3>5. Cardinality(Openings(e, ans)) + 1 <= Cardinality(Openings(k, ans))
      BY <1>3, <3>1, <3>4, PartsAreFinite, PartCounts
    <3>6. Cardinality(Held(e)) = Cardinality(Held(k)) + 1
      BY <1>3, <1>14, <2>2, PartsAreFinite, FS_AddElement
    <3>7. Chores(d, ans) = Cardinality(e.extra) + Cardinality(e.data) + Cardinality(e.offers) + Cardinality(Revocable(k, w))
                             + Cardinality(Held(e)) + Cardinality(Held(e))
      BY <1>10, <1>13, <3>3 DEF Chores
    <3>8. Chores(w, ans) = Cardinality(e.extra) + Cardinality(e.data) + Cardinality(e.offers) + Cardinality(Revocable(k, w))
                             + Cardinality(Held(k)) + Cardinality(Held(k))
      BY <1>9, <3>3 DEF Chores
    <3>9. Chores(d, ans) = Chores(w, ans) + 2 /\ Chores(w, ans) \in Nat
      BY <1>15, <3>6, <3>7, <3>8
    <3>10. /\ Load(d, ans) = Chores(d, ans) + Normalizing(k) + 2 * Cardinality(Openings(e, ans))
           /\ Load(w, ans) = Chores(w, ans) + Normalizing(k) + 2 * Cardinality(Openings(k, ans))
      BY <1>10, <1>13 DEF Load, Cleanup
    <3> QED BY <1>15, <3>5, <3>9, <3>10
  <2> QED BY <2>1, <2>2
<1>17. Openable(k, ans) \subseteq Openable(e, ans)
  BY <1>14 DEF Openable, Openings
<1>18. Stepwise(d, w, ans, o)
  BY <1>5, <1>9, <1>10, <1>11, <1>14, <1>16, <1>17 DEF Stepwise
<1> QED BY <1>18 DEF d

LEMMA SpareIs == ASSUME NEW k, Sound(k) PROVE Spare(k) \in Int
<1>1. k.xlm >= k.xlm
  BY DEF Sound
<1> QED BY <1>1, SpareKept

\* A claim round's transaction, run up to operation i.
ClaimedUpto(v, w, ans, tx, i) ==
  /\ Whole(v) /\ Alike(v, w) /\ v.acct.tokens = w.acct.tokens /\ v.acct.exits = w.acct.exits
  /\ Pending(v.acct, ans) \subseteq Pending(w.acct, ans) /\ Load(v, ans) <= Load(w, ans)
  /\ Openable(w.acct, ans) \subseteq Openable(v.acct, ans)
  /\ \A j \in 1..i : tx.ops[j].op = "claim" => tx.ops[j].what \notin Pending(v.acct, ans)
  /\ (\A j \in 1..i : tx.ops[j].op = "claim") =>
       /\ Cardinality(Pending(v.acct, ans)) + i <= Cardinality(Pending(w.acct, ans))
       /\ Cleanup(v, ans) <= Cleanup(w, ans) /\ Spare(v.acct) >= Spare(w.acct) - tx.fee

LEMMA ClaimedStart ==
  ASSUME NEW w, Whole(w), NEW ans, NEW tx, tx.fee \in Nat
  PROVE  ClaimedUpto(Charged(w, tx), w, ans, tx, 0)
<1> DEFINE c == Charged(w, tx)
<1>1. Whole(c) /\ Alike(c, w) /\ Others(c.acct, w.acct, {"seq", "xlm"})
  BY ChargedIs
<1>2. /\ Chores(c, ans) = Chores(w, ans) /\ Spare(c.acct) >= Spare(w.acct) - tx.fee
      /\ Normalizing(c.acct) = Normalizing(w.acct)
      /\ Pending(c.acct, ans) = Pending(w.acct, ans) /\ Openings(c.acct, ans) = Openings(w.acct, ans)
      /\ Held(c.acct) = Held(w.acct)
  BY ChargedLeaves
<1> HIDE DEF c
<1>3. Cleanup(c, ans) = Cleanup(w, ans) /\ Load(c, ans) = Load(w, ans) /\ Openable(c.acct, ans) = Openable(w.acct, ans)
  BY <1>2 DEF Cleanup, Load, Openable
<1>4. Cleanup(w, ans) \in Nat /\ Load(w, ans) \in Nat /\ Cardinality(Pending(w.acct, ans)) \in Nat
  BY LoadIs
<1>5. c.acct.tokens = w.acct.tokens /\ c.acct.exits = w.acct.exits
  BY <1>1 DEF Others
<1>6. ClaimedUpto(c, w, ans, tx, 0)
  BY <1>1, <1>2, <1>3, <1>4, <1>5 DEF ClaimedUpto
<1> QED BY <1>6 DEF c

LEMMA ClaimedNext ==
  ASSUME NEW w, Whole(w), NEW ans, NEW tx, tx.fee \in Nat, NEW i \in Nat \ {0}, NEW v,
         ClaimedUpto(v, w, ans, tx, i - 1), OpOK(tx.ops[i]), ClaimStep(tx.ops[i], ans), Can(v, tx.ops[i]),
         tx.ops[i].op = "addLine" => tx.ops[i].what \in Openable(w.acct, ans)
  PROVE  ClaimedUpto(Done(v, tx.ops[i]), w, ans, tx, i)
<1> DEFINE o == tx.ops[i]
           d == Done(v, o)
<1>1. Whole(v) /\ Alike(v, w)
  BY DEF ClaimedUpto
<1>2. Stepwise(d, v, ans, o)
  <2> HIDE DEF d
  <2>1. CASE o.op = "claim"
    BY <1>1, <2>1, ClaimApplied DEF d
  <2>2. CASE o.op = "addLine"
    <3>1. o.what \in Openable(v.acct, ans)
      BY <2>2 DEF ClaimedUpto
    <3> QED BY <1>1, <2>2, <3>1, LineApplied DEF d
  <2> QED BY <2>1, <2>2 DEF ClaimStep
<1> HIDE DEF d
<1>3. Load(d, ans) \in Nat /\ Load(v, ans) \in Nat /\ Load(w, ans) \in Nat
      /\ Cleanup(d, ans) \in Nat /\ Cleanup(v, ans) \in Nat /\ Cleanup(w, ans) \in Nat
      /\ Cardinality(Pending(d.acct, ans)) \in Nat /\ Cardinality(Pending(v.acct, ans)) \in Nat
      /\ Cardinality(Pending(w.acct, ans)) \in Nat
  BY <1>1, <1>2, LoadIs DEF Stepwise
<1>4. i - 1 \in Nat /\ (i - 1) + 1 = i /\ 1..i = 1..(i - 1) \cup {i}
  OBVIOUS
<1>5. Whole(d) /\ Alike(d, w) /\ d.acct.tokens = w.acct.tokens /\ d.acct.exits = w.acct.exits
      /\ Pending(d.acct, ans) \subseteq Pending(w.acct, ans) /\ Load(d, ans) <= Load(w, ans)
      /\ Openable(w.acct, ans) \subseteq Openable(d.acct, ans)
  BY <1>2, <1>3 DEF Stepwise, ClaimedUpto, Alike
<1>6. \A j \in 1..i : tx.ops[j].op = "claim" => tx.ops[j].what \notin Pending(d.acct, ans)
  BY <1>2, <1>4 DEF Stepwise, ClaimedUpto
<1>7. ASSUME \A j \in 1..i : tx.ops[j].op = "claim"
      PROVE  /\ Cardinality(Pending(d.acct, ans)) + i <= Cardinality(Pending(w.acct, ans))
             /\ Cleanup(d, ans) <= Cleanup(w, ans) /\ Spare(d.acct) >= Spare(w.acct) - tx.fee
  <2>1. o.op = "claim" /\ \A j \in 1..(i - 1) : tx.ops[j].op = "claim"
    BY <1>4, <1>7
  <2>2. Cardinality(Pending(v.acct, ans)) + (i - 1) <= Cardinality(Pending(w.acct, ans))
        /\ Cleanup(v, ans) <= Cleanup(w, ans) /\ Spare(v.acct) >= Spare(w.acct) - tx.fee
    BY <2>1 DEF ClaimedUpto
  <2>3. /\ o.what \in Pending(v.acct, ans) /\ o.what \notin Pending(d.acct, ans)
        /\ Pending(d.acct, ans) \subseteq Pending(v.acct, ans)
        /\ Cleanup(d, ans) <= Cleanup(v, ans) /\ Spare(d.acct) >= Spare(v.acct)
    BY <1>2, <2>1 DEF Stepwise
  <2>4. IsFiniteSet(Pending(v.acct, ans))
    BY <1>1, PartsAreFinite DEF Whole
  <2>5. Cardinality(Pending(d.acct, ans)) + 1 <= Cardinality(Pending(v.acct, ans))
    BY <2>3, <2>4, PartCounts
  <2>6. Spare(d.acct) \in Int /\ Spare(v.acct) \in Int /\ Spare(w.acct) \in Int
    BY <1>1, <1>5, SpareIs DEF Whole
  <2> QED BY <1>3, <2>2, <2>3, <2>5, <2>6
<1>8. ClaimedUpto(d, w, ans, tx, i)
  BY <1>5, <1>6, <1>7 DEF ClaimedUpto
<1> QED BY <1>8 DEF d

\* The whole of it.
LEMMA TransactionClaimed ==
  ASSUME NEW w, Whole(w), NEW ans, NEW tx, tx.fee \in Nat, IsSeq(tx.ops),
         \A i \in 1..Len(tx.ops) : OpOK(tx.ops[i]) /\ ClaimStep(tx.ops[i], ans),
         \A i \in 1..Len(tx.ops) : tx.ops[i].op = "addLine" => tx.ops[i].what \in Openable(w.acct, ans),
         Applied(w, tx).ok
  PROVE  ClaimedUpto(Applied(w, tx).w, w, ans, tx, Len(tx.ops))
<1> DEFINE n == Len(tx.ops)
<1>1. n \in Nat
  BY SeqIs
<1>2. PICK run : /\ run[0] = [ok |-> TRUE, w |-> Charged(w, tx)]
                 /\ \A i \in 1..n : run[i] = Stepped(w, tx, run[i - 1], i)
                 /\ Applied(w, tx) = run[n]
  BY <1>1, AppliedInSteps
<1> DEFINE good(i) == run[i].ok => ClaimedUpto(run[i].w, w, ans, tx, i)
           bad == {i \in 0..n : ~good(i)}
<1>3. good(0)
  BY <1>2, ClaimedStart
<1>4. ASSUME NEW i \in 1..n, good(i - 1) PROVE good(i)
  <2> SUFFICES ASSUME run[i].ok PROVE ClaimedUpto(run[i].w, w, ans, tx, i)
    OBVIOUS
  <2> DEFINE b == run[i - 1]
  <2>1. run[i] = Stepped(w, tx, b, i)
    BY <1>2
  <2>2. b.ok /\ Can(b.w, tx.ops[i]) /\ run[i].w = Done(b.w, tx.ops[i])
    <3> HIDE DEF b
    <3>1. CASE b.ok /\ Can(b.w, tx.ops[i])
      <4>1. run[i] = [ok |-> TRUE, w |-> Done(b.w, tx.ops[i])]
        BY <2>1, <3>1 DEF Stepped
      <4> QED BY <3>1, <4>1
    <3>2. CASE ~(b.ok /\ Can(b.w, tx.ops[i]))
      <4>1. run[i] = [ok |-> FALSE, w |-> Charged(w, tx)]
        BY <2>1, <3>2 DEF Stepped
      <4> QED BY <4>1
    <3> QED BY <3>1, <3>2
  <2>3. ClaimedUpto(b.w, w, ans, tx, i - 1)
    BY <1>4, <2>2
  <2> HIDE DEF b
  <2>4. i \in Nat \ {0}
    BY <1>1
  <2> QED BY <2>2, <2>3, <2>4, ClaimedNext
<1> HIDE DEF good
<1>5. bad = {}
  <2> SUFFICES ASSUME bad # {} PROVE FALSE
    OBVIOUS
  <2>0. bad \subseteq Nat
    BY <1>1
  <2>1. PICK m \in bad : \A j \in bad : m <= j
    <3> HIDE DEF bad
    <3> QED BY <2>0, Least
  <2>2. m \in 1..n
    BY <1>1, <1>3, <2>1
  <2>3. m - 1 \notin bad /\ m - 1 \in 0..n
    BY <1>1, <2>1, <2>2
  <2> QED BY <1>4, <2>1, <2>2, <2>3
<1>6. good(n)
  BY <1>1, <1>5
<1> QED BY <1>2, <1>6 DEF good
-----------------------------------------------------------------------------
(* The Soroban rounds. *)

First(k) == Head(InOrder(Exits, Positions(k)))

\* The rounds assertOwnFeesFit still counts, the one to build included.
SorobanRounds(k, ans) ==
  IF Positions(k) = {} THEN Cardinality(Moves(k, ans, {"transfer", "convert"}))
  ELSE k.exits[First(k)] + 2 * Cardinality(Positions(k)) - 1 + Cardinality(Moves(k, ans, {"none", "convert", "transfer"}))

\* Later positions take no more than the two rounds that are reserved for each; a token one before them
\* pays out is one of the two.
Foreseen(k) ==
  \A i, j \in DOMAIN Exits : (i < j /\ k.exits[Exits[i]] > 0) =>
     k.exits[Exits[j]] + (IF ExitPays[Exits[i]] \in TokenSet THEN 1 ELSE 0) <= 2

\* The move of the next Soroban round.
SorobanMove(k, ans, o) ==
  /\ o.by = "account"
  /\ \/ o.op = "exit" /\ Positions(k) # {} /\ o.what = First(k)
     \/ /\ o.op \in {"sendToken", "swapToken"} /\ Positions(k) = {}
        /\ o.what \in Moves(k, ans, {"transfer", "convert"}) /\ o.amount = k.tokens[o.what]

LEMMA FirstPosition ==
  ASSUME NEW k, Sound(k), Positions(k) # {}
  PROVE  \E m \in 1..Len(Exits) : /\ First(k) = Exits[m] /\ Exits[m] \in Positions(k) /\ Exits[m] \in ToSet(Exits)
                                  /\ \A j \in 1..(m - 1) : Exits[j] \notin Positions(k)
<1> DEFINE r == InOrder(Exits, Positions(k))
<1>1. IsSeq(Exits)
  BY ListsAre
<1>2. IsSeq(r) /\ ToSet(r) = ToSet(Exits) \cap Positions(k)
  BY <1>1, KeptIs
<1>3. Positions(k) \subseteq ToSet(Exits)
  BY DEF Sound, Positions
<1>4. r # <<>>
  <2>1. ToSet(r) # {}
    BY <1>2, <1>3
  <2> HIDE DEF r
  <2>2. ToSet(<<>>) = {}
    BY DEF ToSet
  <2> QED BY <2>1, <2>2
<1>5. PICK m \in 1..Len(Exits) : r[1] = Exits[m] /\ Exits[m] \in Positions(k) /\ \A j \in 1..(m - 1) : Exits[j] \notin Positions(k)
  BY <1>1, <1>4, KeptPlaces
<1>6. First(k) = r[1]
  <2> HIDE DEF r
  <2> QED BY <1>2, <1>4, HeadIs DEF First, r
<1> QED BY <1>3, <1>5, <1>6

LEMMA SorobanRoundsAre ==
  ASSUME NEW k, Sound(k), NEW ans
  PROVE  /\ SorobanRounds(k, ans) \in Nat
         /\ Positions(k) # {} => SorobanRounds(k, ans) >= 2
         /\ SorobanRounds(k, ans) = 0 => Positions(k) = {} /\ Moves(k, ans, {"transfer", "convert"}) = {}
<1>1. /\ Cardinality(Positions(k)) \in Nat /\ IsFiniteSet(Positions(k))
      /\ \A which : Cardinality(Moves(k, ans, which)) \in Nat /\ IsFiniteSet(Moves(k, ans, which))
  BY PartsCount, PartsAreFinite
<1>2. CASE Positions(k) = {}
  <2>1. SorobanRounds(k, ans) = Cardinality(Moves(k, ans, {"transfer", "convert"}))
    BY <1>2 DEF SorobanRounds
  <2> QED BY <1>1, <1>2, <2>1, FS_EmptySet
<1>3. CASE Positions(k) # {}
  <2>1. Cardinality(Positions(k)) # 0
    BY <1>1, <1>3, FS_EmptySet
  <2>2. k.exits[First(k)] \in Nat /\ k.exits[First(k)] > 0
    <3>1. First(k) \in Positions(k) /\ First(k) \in ToSet(Exits)
      BY <1>3, FirstPosition
    <3> QED BY <3>1 DEF Positions, Sound
  <2>3. SorobanRounds(k, ans)
          = k.exits[First(k)] + 2 * Cardinality(Positions(k)) - 1 + Cardinality(Moves(k, ans, {"none", "convert", "transfer"}))
    BY <1>3 DEF SorobanRounds
  <2> QED BY <1>1, <1>3, <2>1, <2>2, <2>3
<1> QED BY <1>2, <1>3

LEMMA OneMore ==
  ASSUME NEW S, IsFiniteSet(S), NEW x PROVE IsFiniteSet(S \cup {x}) /\ Cardinality(S \cup {x}) <= Cardinality(S) + 1
<1>1. Cardinality(S) \in Nat
  BY FS_CardinalityType
<1>2. CASE x \in S
  <2>1. S \cup {x} = S
    BY <1>2
  <2>2. IsFiniteSet(S \cup {x}) /\ Cardinality(S \cup {x}) = Cardinality(S)
    BY <2>1, Zenon
  <2> QED BY <1>1, <2>2
<1>3. CASE x \notin S
  <2>1. IsFiniteSet(S \cup {x}) /\ Cardinality(S \cup {x}) = Cardinality(S) + 1
    BY <1>3, FS_AddElement
  <2> QED BY <1>1, <2>1
<1> QED BY <1>2, <1>3

\* One step of the first position.
LEMMA ExitIsARound ==
  ASSUME NEW k, Sound(k), NEW e, Sound(e), NEW ans, Positions(k) # {}, Foreseen(k),
         e.exits = [k.exits EXCEPT ![First(k)] = k.exits[First(k)] - 1],
         \A t \in TokenSet : (k.exits[First(k)] > 1 \/ t # ExitPays[First(k)]) => e.tokens[t] = k.tokens[t]
  PROVE  SorobanRounds(e, ans) + 1 <= SorobanRounds(k, ans)
<1> DEFINE p == First(k)
           three == {"none", "convert", "transfer"}
           two == {"transfer", "convert"}
           n == Cardinality(Moves(k, ans, three))
           m(which) == Cardinality(Moves(e, ans, which))
           np == Cardinality(Positions(k))
           mp == Cardinality(Positions(e))
           x == k.exits[p]
           extra == IF ExitPays[p] \in TokenSet THEN 1 ELSE 0
<1>1. PICK i \in 1..Len(Exits) : /\ p = Exits[i] /\ p \in Positions(k) /\ p \in ToSet(Exits)
                                 /\ \A j \in 1..(i - 1) : Exits[j] \notin Positions(k)
  BY FirstPosition
<1>2. x \in Nat /\ x > 0 /\ DOMAIN k.exits = ToSet(Exits) /\ DOMAIN e.exits = ToSet(Exits)
      /\ k.exits \in [ToSet(Exits) -> Nat] /\ e.exits \in [ToSet(Exits) -> Nat]
  BY <1>1 DEF Sound, Positions
<1>3. e.exits[p] = x - 1 /\ \A q \in ToSet(Exits) : q # p => e.exits[q] = k.exits[q]
  BY <1>1, <1>2
<1>4. /\ np \in Nat /\ IsFiniteSet(Positions(k)) /\ mp \in Nat
      /\ n \in Nat /\ IsFiniteSet(Moves(k, ans, three)) /\ m(two) \in Nat /\ m(three) \in Nat
  BY PartsCount, PartsAreFinite
<1>5. SorobanRounds(k, ans) = x + 2 * np - 1 + n
  BY DEF SorobanRounds
<1>6. /\ Positions(e) = {} => SorobanRounds(e, ans) = m(two)
      /\ Positions(e) # {} => SorobanRounds(e, ans) = e.exits[First(e)] + 2 * mp - 1 + m(three)
  BY DEF SorobanRounds
<1>7. extra \in 0..1 /\ two \subseteq three
  OBVIOUS
<1>8. ASSUME x > 1 PROVE Positions(e) = Positions(k) /\ mp = np /\ First(e) = p /\ m(three) = n /\ Positions(e) # {}
  <2>1. Positions(e) = Positions(k)
    <3> HIDE DEF p
    <3> QED BY <1>1, <1>2, <1>3, <1>8 DEF Positions
  <2>2. First(e) = p
    BY <2>1 DEF First
  <2>3. Moves(e, ans, three) = Moves(k, ans, three)
    BY <1>8 DEF Moves, HeldTokens
  <2> QED BY <2>1, <2>2, <2>3
<1>9. ASSUME x = 1 PROVE Positions(e) = Positions(k) \ {p} /\ mp + 1 <= np
  <2>1. Positions(e) = Positions(k) \ {p}
    <3> HIDE DEF p
    <3> QED BY <1>1, <1>2, <1>3, <1>9 DEF Positions
  <2> HIDE DEF p
  <2>2. mp + 1 <= np
    BY <1>1, <1>4, <2>1, PartCounts
  <2> QED BY <2>1, <2>2
<1>10. ASSUME NEW which, which \subseteq three PROVE m(which) <= n + extra
  <2> DEFINE S == Moves(k, ans, three)
             T == Moves(e, ans, which)
  <2>1. CASE ExitPays[p] \in TokenSet
    <3> DEFINE U == S \cup {ExitPays[p]}
    <3>1. T \subseteq U
      BY <1>10 DEF Moves, HeldTokens
    <3>2. IsFiniteSet(U) /\ Cardinality(U) <= Cardinality(S) + 1
      <4> HIDE DEF S
      <4> QED BY <1>4, OneMore DEF S
    <3> HIDE DEF U, T, S
    <3>3. Cardinality(T) <= Cardinality(U) /\ Cardinality(T) \in Nat /\ Cardinality(U) \in Nat
      BY <3>1, <3>2, PartCounts
    <3>4. Cardinality(T) <= Cardinality(S) + 1
      <4>1. Cardinality(S) \in Nat
        BY <1>4 DEF S
      <4> QED BY <3>2, <3>3, <4>1
    <3> QED BY <2>1, <3>4 DEF S, T
  <2>2. CASE ExitPays[p] \notin TokenSet
    <3>1. T \subseteq S
      BY <1>10, <2>2 DEF Moves, HeldTokens
    <3> HIDE DEF T, S
    <3>2. Cardinality(T) <= Cardinality(S) /\ Cardinality(S) \in Nat
      BY <1>4, <3>1, PartCounts DEF S
    <3> QED BY <2>2, <3>2 DEF S, T
  <2> QED BY <2>1, <2>2
<1>11. m(two) <= n + extra /\ m(three) <= n + extra
  BY <1>7, <1>10
<1>12. ASSUME x = 1, Positions(e) # {} PROVE e.exits[First(e)] \in Nat /\ e.exits[First(e)] + extra <= 2
  <2>1. PICK j \in 1..Len(Exits) : First(e) = Exits[j] /\ Exits[j] \in Positions(e) /\ Exits[j] \in ToSet(Exits)
    BY <1>12, FirstPosition
  <2>2. i < j
    <3>1. Len(Exits) \in Nat
      BY ListsAre, SeqIs
    <3>2. Exits[j] \in Positions(k) /\ Exits[j] # p
      BY <1>9, <1>12, <2>1
    <3>3. i # j /\ j \notin 1..(i - 1)
      BY <1>1, <3>2
    <3> QED BY <3>1, <3>3
  <2>3. i \in DOMAIN Exits /\ j \in DOMAIN Exits
    BY ListsAre, SeqIs
  <2>4. k.exits[Exits[i]] > 0
    BY <1>1, <1>2
  <2>5. k.exits[Exits[j]] + (IF ExitPays[Exits[i]] \in TokenSet THEN 1 ELSE 0) <= 2
    BY <2>2, <2>3, <2>4 DEF Foreseen
  <2>6. e.exits[First(e)] = k.exits[Exits[j]] /\ k.exits[Exits[j]] \in Nat
    <3>1. Exits[j] # p
      BY <1>9, <1>12, <2>1
    <3> HIDE DEF p
    <3> QED BY <1>2, <1>3, <2>1, <3>1
  <2> QED BY <1>1, <2>5, <2>6
<1> HIDE DEF n, m, np, mp, x, extra, p, two, three
<1>13. CASE x > 1
  <2>1. e.exits[First(e)] = x - 1 /\ mp = np /\ m(three) = n /\ Positions(e) # {}
    BY <1>3, <1>8, <1>13
  <2>2. SorobanRounds(e, ans) = (x - 1) + 2 * np - 1 + n
    BY <1>6, <2>1
  <2> QED BY <1>2, <1>4, <1>5, <2>2
<1>14. CASE x = 1
  <2>1. mp + 1 <= np /\ np \in Nat /\ mp \in Nat /\ n \in Nat /\ m(two) \in Nat /\ m(three) \in Nat
    BY <1>4, <1>9, <1>14
  <2>2. SorobanRounds(k, ans) = 1 + 2 * np - 1 + n
    BY <1>5, <1>14
  <2>3. CASE Positions(e) = {}
    <3>1. SorobanRounds(e, ans) = m(two)
      BY <1>6, <2>3
    <3> QED BY <1>7, <1>11, <2>1, <2>2, <3>1
  <2>4. CASE Positions(e) # {}
    <3> DEFINE y == e.exits[First(e)]
    <3>1. SorobanRounds(e, ans) = y + 2 * mp - 1 + m(three)
      BY <1>6, <2>4
    <3>2. y \in Nat /\ y + extra <= 2
      BY <1>12, <1>14, <2>4
    <3> HIDE DEF y
    <3> QED BY <1>7, <1>11, <2>1, <2>2, <3>1, <3>2
  <2> QED BY <2>3, <2>4
<1> QED BY <1>2, <1>13, <1>14

\* One token.
LEMMA TokenIsARound ==
  ASSUME NEW k, Sound(k), NEW e, Sound(e), NEW ans, NEW t, Positions(k) = {}, t \in Moves(k, ans, {"transfer", "convert"}),
         e.exits = k.exits, e.tokens = [k.tokens EXCEPT ![t] = 0]
  PROVE  SorobanRounds(e, ans) + 1 <= SorobanRounds(k, ans)
<1> DEFINE two == {"transfer", "convert"}
<1>1. Positions(e) = {}
  BY DEF Positions
<1>2. Moves(e, ans, two) \subseteq Moves(k, ans, two) /\ t \notin Moves(e, ans, two)
  BY DEF Moves, HeldTokens, Sound
<1>3. IsFiniteSet(Moves(k, ans, two))
  BY PartsAreFinite
<1>4. Cardinality(Moves(e, ans, two)) + 1 <= Cardinality(Moves(k, ans, two))
  BY <1>2, <1>3, PartCounts
<1> QED BY <1>1, <1>4 DEF SorobanRounds

\* A transaction of one operation.
LEMMA OneApplied ==
  ASSUME NEW w, NEW tx, Len(tx.ops) = 1, Applied(w, tx).ok
  PROVE  Can(Charged(w, tx), tx.ops[1]) /\ Applied(w, tx).w = Done(Charged(w, tx), tx.ops[1])
<1>1. Len(tx.ops) \in Nat
  OBVIOUS
<1>2. PICK run : /\ run[0] = [ok |-> TRUE, w |-> Charged(w, tx)]
                 /\ \A i \in 1..Len(tx.ops) : run[i] = Stepped(w, tx, run[i - 1], i)
                 /\ Applied(w, tx) = run[Len(tx.ops)]
  BY ZenonT(60), <1>1, AppliedInSteps
<1> DEFINE c == Charged(w, tx)
           o == tx.ops[1]
<1>3. Applied(w, tx) = IF Can(c, o) THEN [ok |-> TRUE, w |-> Done(c, o)] ELSE [ok |-> FALSE, w |-> c]
  <2>1. run[1] = Stepped(w, tx, run[0], 1)
    BY <1>2
  <2>2. run[0].ok = TRUE /\ run[0].w = c
    BY <1>2
  <2> HIDE DEF c, o
  <2>3. Stepped(w, tx, run[0], 1) = IF Can(c, o) THEN [ok |-> TRUE, w |-> Done(c, o)] ELSE [ok |-> FALSE, w |-> c]
    BY <2>2 DEF Stepped, c, o
  <2> QED BY <1>2, <2>1, <2>3
<1> HIDE DEF c, o
<1>4. CASE Can(c, o)
  BY <1>3, <1>4 DEF c, o
<1>5. CASE ~Can(c, o)
  BY <1>3, <1>5
<1> QED BY <1>4, <1>5

LEMMA FloorIs == ASSUME NEW k, Sound(k) PROVE FeeFloor(k) \in Nat
<1>1. /\ Cardinality(k.extra) \in Nat /\ Cardinality(k.data) \in Nat /\ Cardinality(k.offers) \in Nat
      /\ Cardinality(k.sponsors) \in Nat /\ Cardinality(Held(k)) \in Nat
  BY PartsCount
<1>2. BaseReserve \in Nat /\ OfferXlm \in Nat
  BY ListingAssumption
<1> DEFINE n == 2 + SubEntries(k) + Cardinality(k.sponsors)
           m == Cardinality(k.offers)
<1>3. n \in Nat /\ m \in Nat
  BY <1>1 DEF SubEntries
<1>4. FeeFloor(k) = n * BaseReserve + OfferXlm * m
  BY DEF FeeFloor, MinimumBalance
<1> HIDE DEF n, m
<1> QED BY <1>2, <1>3, <1>4

\* What a Soroban round leaves.
SorobanTaken(v, w, ans) ==
  /\ Whole(v) /\ Alike(v, w) /\ Others(v.acct, w.acct, {"seq", "xlm", "lines", "tokens", "exits"})
  /\ Held(v.acct) = Held(w.acct) /\ (Positions(w.acct) # {} \/ v.acct.lines = w.acct.lines)
  /\ \A p \in ToSet(Exits) : v.acct.exits[p] <= w.acct.exits[p]
  /\ SorobanRounds(v.acct, ans) + 1 <= SorobanRounds(w.acct, ans)

LEMMA SorobanMoved ==
  ASSUME NEW w, Whole(w), NEW ans, NEW o, OpOK(o), SorobanMove(w.acct, ans, o), Foreseen(w.acct)
  PROVE  LET d == Done(w, o) IN SorobanTaken(d, w, ans) /\ d.acct.xlm >= w.acct.xlm /\ d.acct.xlm \in Int
<1> DEFINE k == w.acct
           d == Done(w, o)
           e == d.acct
<1>1. ~Foreign(o)
  BY DEF SorobanMove, Foreign
<1>2. Sound(k) /\ AccountOK(k) /\ WorldOK(w) /\ k.xlm \in Int /\ w.rate \in [Things -> Nat]
      /\ k.exits \in [ToSet(Exits) -> Nat] /\ k.tokens \in [TokenSet -> Nat]
  BY DEF Whole, Sound
<1>3. WorldOK(d)
  BY <1>1, <1>2, DoneOK
<1>4. CASE o.op = "exit"
  <2> DEFINE p == First(k)
  <2>1. Positions(k) # {} /\ o.what = p
    BY <1>4 DEF SorobanMove
  <2>2. p \in ToSet(Exits) /\ k.exits[p] > 0
    <3>1. p \in Positions(k) /\ p \in ToSet(Exits)
      BY <1>2, <2>1, FirstPosition
    <3> QED BY <3>1 DEF Positions
  <2>3. /\ Alike(d, w) /\ Others(e, k, {"xlm", "lines", "tokens", "exits"})
        /\ e.exits = [k.exits EXCEPT ![o.what] = k.exits[o.what] - 1]
        /\ e.xlm \in Int /\ e.xlm >= k.xlm /\ Richer(e, k) /\ e.tokens \in [TokenSet -> Nat]
        /\ \A t \in TokenSet : (k.exits[o.what] > 1 \/ t # ExitPays[o.what]) => e.tokens[t] = k.tokens[t]
    <3>1. o.what \in ToSet(Exits) /\ w.acct.exits[o.what] > 0
      BY <2>1, <2>2
    <3> QED BY <1>1, <1>4, <3>1, SteppedOut
  <2> HIDE DEF d, e, p
  <2>4. /\ e.extra = k.extra /\ e.data = k.data /\ e.offers = k.offers /\ e.sponsors = k.sponsors
        /\ e.high = k.high /\ e.claims = k.claims
    BY <2>3 DEF Others
  <2>5. e = d.acct /\ AccountOK(e)
    BY <1>3 DEF e, WorldOK
  <2>6. e.exits \in [ToSet(Exits) -> Nat] /\ \A q \in ToSet(Exits) : e.exits[q] <= k.exits[q]
    BY <1>2, <2>1, <2>2, <2>3
  <2>7. Sound(e)
    BY <1>2, <2>3, <2>4, <2>5, <2>6, StillSound DEF Sound, Richer
  <2>8. Whole(d)
    BY <1>2, <1>3, <2>3, <2>5, <2>7 DEF Whole, Alike
  <2>9. Held(e) = Held(k)
    BY <2>3 DEF Held, Richer
  <2>10. SorobanRounds(e, ans) + 1 <= SorobanRounds(k, ans)
    BY <1>2, <2>1, <2>3, <2>7, ExitIsARound DEF p
  <2>11. Others(e, k, {"seq", "xlm", "lines", "tokens", "exits"})
    BY <2>3 DEF Others
  <2> QED BY <2>1, <2>3, <2>5, <2>6, <2>8, <2>9, <2>10, <2>11 DEF SorobanTaken, d
<1>5. CASE o.op # "exit"
  <2>1. /\ o.op \in {"sendToken", "swapToken"} /\ Positions(k) = {}
        /\ o.what \in Moves(k, ans, {"transfer", "convert"}) /\ o.amount = k.tokens[o.what]
    BY <1>5 DEF SorobanMove
  <2>2. o.what \in TokenSet
    BY <2>1 DEF Moves, HeldTokens
  <2>3. /\ Alike(d, w) /\ Others(e, k, {"xlm", "tokens"})
        /\ e.tokens = [k.tokens EXCEPT ![o.what] = 0] /\ e.xlm \in Int /\ e.xlm >= k.xlm
    BY <1>1, <2>1, <2>2, TokenMoved
  <2> HIDE DEF d, e
  <2>4. /\ e.extra = k.extra /\ e.data = k.data /\ e.offers = k.offers /\ e.sponsors = k.sponsors
        /\ e.high = k.high /\ e.claims = k.claims /\ e.exits = k.exits /\ e.lines = k.lines
    BY <2>3 DEF Others
  <2>5. e = d.acct /\ AccountOK(e)
    BY <1>3 DEF e, WorldOK
  <2>6. e.tokens \in [TokenSet -> Nat]
    BY <1>2, <2>2, <2>3
  <2>7. Sound(e)
    BY <1>2, <2>3, <2>4, <2>5, <2>6, StillSound DEF Sound
  <2>8. Whole(d)
    BY <1>2, <1>3, <2>3, <2>5, <2>7 DEF Whole, Alike
  <2>9. Held(e) = Held(k)
    BY <2>4 DEF Held
  <2>10. SorobanRounds(e, ans) + 1 <= SorobanRounds(k, ans)
    BY <1>2, <2>1, <2>3, <2>4, <2>7, TokenIsARound
  <2>11. Others(e, k, {"seq", "xlm", "lines", "tokens", "exits"})
    BY <2>3 DEF Others
  <2>12. \A q \in ToSet(Exits) : e.exits[q] <= k.exits[q]
    BY <1>2, <2>4
  <2> QED BY <2>3, <2>4, <2>5, <2>8, <2>9, <2>10, <2>11, <2>12 DEF SorobanTaken, d
<1> QED BY <1>4, <1>5

\* What it leaves there is to do.
LEMMA SorobanLeaves ==
  ASSUME NEW w, Whole(w), NEW ans, NEW v, SorobanTaken(v, w, ans), v.acct.xlm \in Int
  PROVE  LET k == w.acct
             e == v.acct IN
         /\ Pending(e, ans) = Pending(k, ans) /\ Openings(e, ans) = Openings(k, ans)
         /\ Foreseen(k) => Foreseen(e)
         /\ Cleanup(v, ans) <= Cleanup(w, ans)
         /\ FeeFloor(e) = FeeFloor(k)
<1> DEFINE k == w.acct
           e == v.acct
<1>1. /\ Whole(v) /\ Alike(v, w) /\ Others(e, k, {"seq", "xlm", "lines", "tokens", "exits"})
      /\ Held(e) = Held(k) /\ (Positions(k) # {} \/ e.lines = k.lines) /\ \A p \in ToSet(Exits) : e.exits[p] <= k.exits[p]
  BY DEF SorobanTaken
<1>2. Sound(k) /\ Sound(e) /\ k.exits \in [ToSet(Exits) -> Nat] /\ e.exits \in [ToSet(Exits) -> Nat]
  BY <1>1 DEF Whole, Sound
<1>3. /\ e.extra = k.extra /\ e.data = k.data /\ e.offers = k.offers /\ e.sponsors = k.sponsors
      /\ e.high = k.high /\ e.claims = k.claims
  BY <1>1 DEF Others
<1>4. Revocable(e, v) = Revocable(k, w)
  BY <1>1, <1>3 DEF Revocable, Alike
<1> HIDE DEF k, e
<1>5. Pending(e, ans) = Pending(k, ans) /\ Normalizing(e) = Normalizing(k)
  BY <1>3 DEF Pending, Normalizing, NeedsNormalization
<1>6. Openings(e, ans) = Openings(k, ans)
  BY <1>1, <1>5 DEF Openings
<1>7. Foreseen(k) => Foreseen(e)
  <2> SUFFICES ASSUME Foreseen(k), NEW i \in DOMAIN Exits, NEW j \in DOMAIN Exits, i < j, e.exits[Exits[i]] > 0
               PROVE  e.exits[Exits[j]] + (IF ExitPays[Exits[i]] \in TokenSet THEN 1 ELSE 0) <= 2
    BY Zenon DEF Foreseen
  <2>1. Exits[i] \in ToSet(Exits) /\ Exits[j] \in ToSet(Exits)
    BY DEF ToSet
  <2>2. /\ e.exits[Exits[i]] \in Nat /\ k.exits[Exits[i]] \in Nat /\ e.exits[Exits[i]] <= k.exits[Exits[i]]
        /\ e.exits[Exits[j]] \in Nat /\ k.exits[Exits[j]] \in Nat /\ e.exits[Exits[j]] <= k.exits[Exits[j]]
    BY <1>1, <1>2, <2>1
  <2>3. k.exits[Exits[i]] > 0
    BY <2>2
  <2>4. k.exits[Exits[j]] + (IF ExitPays[Exits[i]] \in TokenSet THEN 1 ELSE 0) <= 2
    BY <2>3 DEF Foreseen
  <2> QED BY <2>2, <2>4
<1>8. Cleanup(v, ans) <= Cleanup(w, ans)
  <2>1. Positions(e) \subseteq Positions(k)
    <3> SUFFICES ASSUME NEW p \in Positions(e) PROVE p \in Positions(k)
      OBVIOUS
    <3>1. p \in ToSet(Exits) /\ e.exits[p] > 0 /\ e.exits[p] \in Nat /\ k.exits[p] \in Nat /\ e.exits[p] <= k.exits[p]
      BY <1>1, <1>2 DEF Positions
    <3> QED BY <1>2, <3>1 DEF Positions
  <2>2. Fundable(e, ans) \subseteq Fundable(k, ans)
    BY <1>1, <1>5, <2>1 DEF Fundable
  <2>3. Remains(v, w, ans)
    BY <1>1, <1>3, <1>4, <2>2 DEF Remains, e, k
  <2>4. Chores(v, ans) <= Chores(w, ans)
    BY <1>1, <2>3, ChoresShrink
  <2>5. Chores(v, ans) \in Nat /\ Chores(w, ans) \in Nat /\ Normalizing(k) \in 0..1
    BY <1>1, ChoresAre DEF k
  <2> QED BY <1>5, <2>4, <2>5 DEF Cleanup, e, k
<1>9. FeeFloor(e) = FeeFloor(k)
  BY <1>1, <1>3 DEF FeeFloor, MinimumBalance, SubEntries
<1> QED BY <1>5, <1>6, <1>7, <1>8, <1>9 DEF e, k

\* The transaction of a Soroban round.
LEMMA TransactionMoved ==
  ASSUME NEW w, Whole(w), NEW ans, NEW tx, tx.fee \in Nat, Len(tx.ops) = 1, OpOK(tx.ops[1]),
         SorobanMove(w.acct, ans, tx.ops[1]), Foreseen(w.acct), Applied(w, tx).ok
  PROVE  LET v == Applied(w, tx).w IN
         /\ SorobanTaken(v, w, ans) /\ Foreseen(v.acct) /\ Spare(v.acct) >= Spare(w.acct) - tx.fee
         /\ Cleanup(v, ans) <= Cleanup(w, ans)
         /\ Pending(v.acct, ans) = Pending(w.acct, ans) /\ Openings(v.acct, ans) = Openings(w.acct, ans)
<1> DEFINE c == Charged(w, tx)
           o == tx.ops[1]
           v == Applied(w, tx).w
           k == w.acct
           j == c.acct
           e == v.acct
<1>1. v = Done(c, o)
  BY OneApplied
<1>2. Whole(c) /\ Alike(c, w) /\ Others(j, k, {"seq", "xlm"}) /\ j.xlm >= k.xlm - tx.fee
  BY ChargedIs
<1> HIDE DEF c, v
<1>3. j.exits = k.exits /\ j.tokens = k.tokens /\ j.lines = k.lines
  BY <1>2 DEF Others
<1>4. Positions(j) = Positions(k)
  BY <1>3 DEF Positions
<1>5. First(j) = First(k) /\ SorobanRounds(j, ans) = SorobanRounds(k, ans) /\ Held(j) = Held(k)
  <2>1. First(j) = First(k)
    BY <1>4 DEF First
  <2>2. \A which : Moves(j, ans, which) = Moves(k, ans, which)
    BY <1>3 DEF Moves, HeldTokens
  <2> QED BY <1>3, <1>4, <2>1, <2>2 DEF SorobanRounds, Held
<1>6. SorobanMove(j, ans, o)
  BY <1>3, <1>4, <1>5 DEF SorobanMove, Moves, HeldTokens
<1>7. Foreseen(j)
  BY <1>3 DEF Foreseen
<1>8. SorobanTaken(v, c, ans) /\ e.xlm >= j.xlm /\ e.xlm \in Int
  BY <1>1, <1>2, <1>6, <1>7, SorobanMoved
<1>9. SorobanTaken(v, w, ans)
  <2>1. Others(e, k, {"seq", "xlm", "lines", "tokens", "exits"}) /\ Alike(v, w)
    BY <1>2, <1>8 DEF SorobanTaken, Others, Alike
  <2> QED BY <1>3, <1>4, <1>5, <1>8, <2>1 DEF SorobanTaken
<1>10. /\ Pending(e, ans) = Pending(k, ans) /\ Openings(e, ans) = Openings(k, ans)
       /\ Foreseen(e) /\ Cleanup(v, ans) <= Cleanup(w, ans) /\ FeeFloor(e) = FeeFloor(k)
  BY <1>8, <1>9, SorobanLeaves
<1>11. Spare(e) >= Spare(k) - tx.fee
  <2>1. Spare(k) \in Int /\ k.xlm \in Int /\ j.xlm \in Int
    BY <1>2, SpareIs DEF Whole, Sound
  <2>2. Spare(k) = k.xlm - FeeFloor(k) /\ Spare(e) = e.xlm - FeeFloor(k)
    BY <1>10 DEF Spare
  <2>3. FeeFloor(k) \in Int
    BY FloorIs DEF Whole
  <2> QED BY <1>2, <1>8, <2>1, <2>2, <2>3
<1> QED BY <1>9, <1>10, <1>11 DEF v
-----------------------------------------------------------------------------
(* What a reading shows of what there is to do. *)

\* The beginning of a list.
LEMMA BeginningIs ==
  ASSUME NEW s, IsSeq(s), NEW n \in Nat, n <= Len(s)
  PROVE  /\ IsSeq(SubSeq(s, 1, n)) /\ Len(SubSeq(s, 1, n)) = n /\ \A i \in 1..n : SubSeq(s, 1, n)[i] = s[i]
         /\ ToSet(SubSeq(s, 1, n)) \subseteq ToSet(s)
         /\ IsInjective(s) => Cardinality(ToSet(SubSeq(s, 1, n))) = n
<1>1. Len(s) \in Nat /\ ToSet(s) = {s[i] : i \in 1..Len(s)} /\ DOMAIN s = 1..Len(s)
  BY SeqIs
<1>2. \A i \in 1..n : s[i] \in ToSet(s)
  BY <1>1
<1>3. SubSeq(s, 1, n) \in Seq(ToSet(s)) /\ Len(SubSeq(s, 1, n)) = n /\ \A i \in 1..n : SubSeq(s, 1, n)[i] = s[i]
  BY <1>2, <1>1 DEF IsSeq
<1> DEFINE p == SubSeq(s, 1, n)
<1>4. p \in Seq(ToSet(s))
  BY <1>3
<1>5. IsSeq(p) /\ ToSet(p) \subseteq ToSet(s)
  <2> HIDE DEF p
  <2> QED BY <1>4, InSeq
<1>6. ASSUME IsInjective(s) PROVE Cardinality(ToSet(p)) = n
  <2>1. Len(p) = n /\ \A i \in 1..n : p[i] = s[i]
    BY <1>3
  <2> HIDE DEF p
  <2>2. DOMAIN p = 1..n
    BY <1>5, <2>1, SeqIs
  <2>3. IsInjective(p)
    BY <1>1, <1>6, <2>1, <2>2 DEF IsInjective
  <2> QED BY <1>5, <2>1, <2>3, ListIsCounted
<1> QED BY <1>3, <1>5, <1>6

\* A reading is the account but for the claims beyond its ceiling, and these are no more than those it shows.
LEMMA ReadingShows ==
  ASSUME NEW w, Whole(w)
  PROVE  LET k == Reading(w).account IN
         /\ Others(k, w.acct, {"claims"}) /\ Sound(k) /\ k.claims \subseteq w.acct.claims
         /\ ~Reading(w).more => k.claims = w.acct.claims
         /\ Len(Claims) <= 2 * ReadCeiling => Cardinality(w.acct.claims) <= 2 * Cardinality(k.claims)
<1> DEFINE seen == InOrder(Claims, w.acct.claims)
           last == Min({Len(seen), ReadCeiling})
           part == SubSeq(seen, 1, last)
           e == [w.acct EXCEPT !.claims = ToSet(part)]
<1>0. WorldOK(w) /\ AccountOK(w.acct) /\ w.acct.claims \subseteq ToSet(Claims) /\ Sound(w.acct)
  BY DEF Whole, WorldOK, Sound
<1>1. IsSeq(Claims) /\ IsInjective(Claims)
  BY ListsAre
<1>2. IsSeq(seen) /\ ToSet(seen) = ToSet(Claims) \cap w.acct.claims
  BY <1>1, KeptIs
<1>3. IsInjective(seen) /\ Len(seen) = Cardinality(ToSet(Claims) \cap w.acct.claims)
  BY <1>1, KeptIsCounted
<1>4. ToSet(Claims) \cap w.acct.claims = w.acct.claims
  BY <1>0
<1>5. Cardinality(w.acct.claims) <= Len(Claims) /\ Cardinality(w.acct.claims) \in Nat /\ Len(Claims) \in Nat
  <2>1. IsFiniteSet(ToSet(Claims)) /\ Cardinality(ToSet(Claims)) <= Len(Claims) /\ Len(Claims) \in Nat
    BY <1>1, ListIsFinite, SeqIs
  <2>2. Cardinality(ToSet(Claims)) \in Nat /\ Cardinality(w.acct.claims) \in Nat
         /\ Cardinality(w.acct.claims) <= Cardinality(ToSet(Claims))
    BY <2>1, <1>0, PartCounts
  <2> QED BY <2>1, <2>2
<1>6. Reading(w).account = e /\ Reading(w).more = (Len(seen) > ReadCeiling)
  BY DEF Reading
<1>7. Len(seen) \in Nat /\ ReadCeiling \in Nat
  BY <1>2, SeqIs, LimitsAssumption
<1> HIDE DEF seen
<1>8. last \in {Len(seen), ReadCeiling} /\ last <= Len(seen) /\ last <= ReadCeiling
  <2>1. Len(seen) \in Int /\ ReadCeiling \in Int
    BY <1>7
  <2> QED BY <2>1, MinIs, Zenon
<1> HIDE DEF last
<1>9. last \in Nat
  BY <1>7, <1>8
<1>10. ToSet(part) \subseteq ToSet(seen) /\ Cardinality(ToSet(part)) = last
  BY <1>2, <1>3, <1>8, <1>9, BeginningIs
<1>10a. IsFiniteSet(ToSet(seen))
  BY <1>2, ListIsFinite
<1> HIDE DEF part
<1>11. e.claims = ToSet(part) /\ DOMAIN e = DOMAIN w.acct /\ Others(e, w.acct, {"claims"})
  <2>1. \A v : LET d == [w.acct EXCEPT !["claims"] = v] IN d["claims"] = v /\ DOMAIN d = DOMAIN w.acct /\ Others(d, w.acct, {"claims"})
    BY <1>0, FieldIs
  <2> QED BY <2>1
<1> HIDE DEF e
<1>12. e.claims \subseteq w.acct.claims
  BY <1>2, <1>10, <1>11
<1>13. Sound(e)
  BY <1>0, <1>11, <1>12 DEF Sound, AccountOK, Others
<1>14. Len(seen) <= ReadCeiling => e.claims = w.acct.claims
  <2> SUFFICES ASSUME Len(seen) <= ReadCeiling PROVE ToSet(part) = ToSet(seen)
    BY <1>2, <1>4, <1>11
  <2>0. last = Len(seen)
    BY <1>7, <1>8, <1>9
  <2>1. \A x \in ToSet(seen) : x \notin ToSet(part) => Cardinality(ToSet(part)) + 1 <= Cardinality(ToSet(seen))
    BY <1>10, <1>10a, PartCounts
  <2>2. Cardinality(ToSet(seen)) = Len(seen)
    BY <1>2, <1>3
  <2>3. ASSUME NEW x \in ToSet(seen), x \notin ToSet(part) PROVE FALSE
    <3>1. Cardinality(ToSet(part)) + 1 <= Cardinality(ToSet(seen))
      BY <2>1, <2>3
    <3>2. last + 1 <= Len(seen)
      BY <3>1, <2>2, <1>10
    <3> QED BY <3>2, <2>0, <1>7
  <2> QED BY <2>3, <1>10
<1>15. Len(Claims) <= 2 * ReadCeiling => Cardinality(w.acct.claims) <= 2 * Cardinality(e.claims)
  <2>1. Cardinality(e.claims) = last /\ Cardinality(w.acct.claims) = Len(seen)
    BY <1>3, <1>4, <1>10, <1>11
  <2>2. Len(seen) <= Len(Claims)
    BY <2>1, <1>5
  <2>3. Len(Claims) <= 2 * ReadCeiling => Len(seen) <= 2 * last
    <3>1. CASE last = Len(seen)
      BY <3>1, <1>7
    <3>2. CASE last = ReadCeiling
      BY <3>2, <2>2, <1>5, <1>7
    <3> QED BY <3>1, <3>2, <1>8
  <2> QED BY <2>1, <2>3
<1>16. ~Reading(w).more => Len(seen) <= ReadCeiling
  <2>1. ASSUME ~Reading(w).more PROVE ~(Len(seen) > ReadCeiling)
    BY <1>6, <2>1, Zenon
  <2> QED BY <1>7, <2>1
<1> QED BY <1>6, <1>11, <1>12, <1>13, <1>14, <1>15, <1>16

-----------------------------------------------------------------------------
(* What the rounds to come will cost the account. *)

Direct(p) == IF p = "direct" THEN 1 ELSE 0
MediatedFee(p) == IF p = "mediator" THEN MediatorFee ELSE 0

\* The fees of the classic rounds to come at most, when each operation of them pays its own.
Closing(w, ans, p) == Cleanup(w, ans) + Cardinality(Pending(w.acct, ans)) + Direct(p) + MediatedFee(p)

\* What is to be kept for them; as long as there are Soroban rounds, what assertOwnFeesFit holds an account to.
Owed(w, ans, p) ==
  IF SorobanRounds(w.acct, ans) > 0 THEN LaterOwnFees(Reading(w).account, SorobanRounds(w.acct, ans), p)
  ELSE Closing(w, ans, p)

LEMMA ClosingIs ==
  ASSUME NEW w, Whole(w), NEW ans, NEW p
  PROVE  /\ Closing(w, ans, p) \in Nat /\ Direct(p) \in 0..1 /\ MediatedFee(p) \in {0, 2}
         /\ Cardinality(Pending(w.acct, ans)) \in Nat /\ Cleanup(w, ans) \in Nat
<1>1. Direct(p) \in 0..1 /\ MediatedFee(p) \in {0, 2}
  BY DEF Direct, MediatedFee, MediatorFee
<1>2. Cardinality(Pending(w.acct, ans)) \in Nat /\ Cleanup(w, ans) \in Nat
  BY ChoresAre, PartsCount DEF Whole
<1> QED BY <1>1, <1>2 DEF Closing

\* The bound of remaining-transactions.ts is enough for them.
LEMMA ClosingIsCovered ==
  ASSUME NEW w, Whole(w), NEW ans, NEW p, Len(Claims) <= 2 * ReadCeiling, NEW n \in Nat
  PROVE  LET k == Reading(w).account IN
         /\ ClassicOpsBound(k) \in Nat
         /\ LaterOwnFees(k, n, p) = SorobanEstimate * n + ClassicOpsBound(k) + MediatedFee(p)
         /\ LaterOwnFees(k, n, p) \in Nat /\ Closing(w, ans, p) <= LaterOwnFees(k, n, p)
<1> DEFINE k == Reading(w).account
<1>1. Sound(k) /\ Others(k, w.acct, {"claims"}) /\ k.claims \subseteq w.acct.claims
      /\ Cardinality(w.acct.claims) <= 2 * Cardinality(k.claims)
  BY ReadingShows
<1> HIDE DEF k
<1>2. /\ k.extra = w.acct.extra /\ k.data = w.acct.data /\ k.offers = w.acct.offers /\ k.sponsors = w.acct.sponsors
      /\ Held(k) = Held(w.acct)
  BY <1>1 DEF Others, Held
<1>3. Sound(w.acct)
  BY DEF Whole
<1> DEFINE nExtra == Cardinality(k.extra)
           nData == Cardinality(k.data)
           nOffers == Cardinality(k.offers)
           nHeld == Cardinality(Held(k))
           nClaims == Cardinality(k.claims)
           nSponsors == Cardinality(k.sponsors)
           nRev == Cardinality(Revocable(w.acct, w))
           nFund == Cardinality(Fundable(w.acct, ans))
           nPend == Cardinality(Pending(w.acct, ans))
<1>4. /\ nExtra \in Nat /\ nData \in Nat /\ nOffers \in Nat /\ nHeld \in Nat /\ nClaims \in Nat /\ nSponsors \in Nat
  BY <1>1, PartsCount
<1>5. nFund \in Nat /\ nPend \in Nat /\ nRev \in Nat
  BY <1>3, PartsCount, RevocableCounts
<1>6. nRev <= nSponsors
  <2>1. IsFiniteSet(w.acct.sponsors) /\ Revocable(w.acct, w) \subseteq w.acct.sponsors
    BY <1>3, PartsAreFinite, RevocableCounts
  <2>2. Cardinality(Revocable(w.acct, w)) <= Cardinality(w.acct.sponsors)
    BY <2>1, PartCounts
  <2> QED BY <2>2, <1>2
<1>7. nFund <= nHeld
  <2>1. IsFiniteSet(Held(w.acct)) /\ Fundable(w.acct, ans) \subseteq Held(w.acct)
    BY <1>3, PartsAreFinite DEF Fundable
  <2>2. Cardinality(Fundable(w.acct, ans)) <= Cardinality(Held(w.acct))
    BY <2>1, PartCounts
  <2> QED BY <2>2, <1>2
<1>8. nPend <= 2 * nClaims
  <2>1. IsFiniteSet(w.acct.claims) /\ Pending(w.acct, ans) \subseteq w.acct.claims
    BY <1>3, PartsAreFinite DEF Pending
  <2>2. Cardinality(Pending(w.acct, ans)) <= Cardinality(w.acct.claims) /\ Cardinality(w.acct.claims) \in Nat
    BY <2>1, PartCounts
  <2> QED BY <2>2, <1>1, <1>4, <1>5
<1>9. Cleanup(w, ans) = nExtra + nData + nOffers + nRev + nHeld + nFund + Normalizing(w.acct)
  BY <1>2 DEF Cleanup, Chores
<1>10. Normalizing(w.acct) \in 0..1
  BY ChoresAre
<1>11. ClassicOpsBound(k) = (1 + nExtra) + nData + nOffers + 2 * nHeld + 2 * nClaims + nSponsors + 1
  BY DEF ClassicOpsBound
<1>12. LaterOwnFees(k, n, p) = SorobanEstimate * n + ClassicOpsBound(k) + MediatedFee(p)
  BY DEF LaterOwnFees, MediatedFee
<1>13. SorobanEstimate * n \in Nat
  <2>1. SorobanEstimate \in Nat
    BY LimitsAssumption
  <2> QED BY <2>1
<1>14. Direct(p) \in 0..1 /\ MediatedFee(p) \in {0, 2}
  BY ClosingIs
<1>15. Closing(w, ans, p) = Cleanup(w, ans) + nPend + Direct(p) + MediatedFee(p)
  BY DEF Closing
<1> DEFINE c == Cleanup(w, ans)
           b == ClassicOpsBound(k)
           z == Normalizing(w.acct)
           e == SorobanEstimate * n
           f == MediatedFee(p)
           g == Direct(p)
<1> HIDE DEF nExtra, nData, nOffers, nHeld, nClaims, nSponsors, nRev, nFund, nPend, c, b, z, e, f, g
<1>16. b \in Nat /\ c \in Nat /\ c + nPend + g <= b
  <2>1. b = (1 + nExtra) + nData + nOffers + 2 * nHeld + 2 * nClaims + nSponsors + 1
    BY <1>11 DEF b
  <2>2. c = nExtra + nData + nOffers + nRev + nHeld + nFund + z
    BY <1>9 DEF c, z
  <2>3. z \in 0..1 /\ g \in 0..1
    BY <1>10, <1>14 DEF z, g
  <2> QED BY <2>1, <2>2, <2>3, <1>4, <1>5, <1>6, <1>7, <1>8
<1>17. e \in Nat /\ f \in Nat
  BY <1>13, <1>14 DEF e, f
<1>18. e + b + f \in Nat /\ c + nPend + g + f <= e + b + f
  BY <1>5, <1>14, <1>16, <1>17 DEF g
<1> QED BY <1>12, <1>15, <1>16, <1>18 DEF k, b, c, e, f, g, nPend
-----------------------------------------------------------------------------
(* The Soroban rounds, as they are built. *)

\* One transaction of one move, which leaves the account enough for every later round.
SorobanTxs(txs, w, ans, p) ==
  /\ IsSeq(txs) /\ Len(txs) = 1 /\ Len(txs[1].ops) = 1 /\ txs[1].fee = SorobanFee /\ ~txs[1].sponsored
  /\ SorobanMove(w.acct, ans, txs[1].ops[1])
  /\ SorobanRounds(w.acct, ans) > 0
  /\ Spare(w.acct) >= SorobanFee + LaterOwnFees(Reading(w).account, SorobanRounds(w.acct, ans) - 1, p)

\* A refusal; for want of fees only when the account has less than it owes.
Refused(r, w, ans, p) == r.code # "" /\ (r.code = "close_fee_balance_short" => Spare(w.acct) < Owed(w, ans, p))

SorobanShape(r, w, ans, p) == Refused(r, w, ans, p) \/ (r.code = "" /\ r.again /\ SorobanTxs(r.txs, w, ans, p))

LEMMA RefuseIs == ASSUME NEW code PROVE Refuse(code).code = code /\ NoRound.code = "nothing to do"
BY DEF Refuse, NoRound

LEMMA RefusedFor ==
  ASSUME NEW code, code # "", code # "close_fee_balance_short", NEW w, NEW ans, NEW p
  PROVE  Refused(Refuse(code), w, ans, p) /\ SorobanShape(Refuse(code), w, ans, p)
BY RefuseIs, Zenon DEF Refused, SorobanShape

LEMMA NoRoundShape == ASSUME NEW w, NEW ans, NEW p PROVE SorobanShape(NoRound, w, ans, p) /\ Refused(NoRound, w, ans, p)
<1>1. NoRound.code = "nothing to do" /\ "nothing to do" # "" /\ "nothing to do" # "close_fee_balance_short"
  BY RefuseIs
<1> QED BY <1>1, Zenon DEF Refused, SorobanShape

\* The greater of two numbers.
LEMMA MaxIs == ASSUME NEW n \in Int PROVE Max({0, n}) \in {0, n} /\ Max({0, n}) >= 0 /\ Max({0, n}) >= n
BY DEF Max

LEMMA ShortfallIs ==
  ASSUME NEW k, Sound(k), NEW n \in Int PROVE OwnFeeShortfall(k, n) > 0 <=> Spare(k) < n
<1>1. Spare(k) \in Int
  BY SpareIs
<1>2. OwnFeeShortfall(k, n) = Max({0, n - Spare(k)})
  BY DEF OwnFeeShortfall
<1> DEFINE d == n - Spare(k)
           m == Max({0, d})
<1>3. d \in Int
  BY <1>1
<1> HIDE DEF d
<1>4. m \in {0, d} /\ m >= 0 /\ m >= d
  BY <1>3, MaxIs
<1> HIDE DEF m
<1>5. m > 0 <=> d > 0
  BY <1>3, <1>4
<1>6. d > 0 <=> Spare(k) < n
  BY <1>1 DEF d
<1>7. OwnFeeShortfall(k, n) = m
  BY <1>2 DEF m, d
<1> QED BY <1>5, <1>6, <1>7

\* What is read of the fees.
LEMMA SpareAsRead == ASSUME NEW w, Whole(w) PROVE Spare(Reading(w).account) = Spare(w.acct) /\ Sound(Reading(w).account)
<1> DEFINE k == Reading(w).account
<1>1. Others(k, w.acct, {"claims"}) /\ Sound(k)
  BY ReadingShows
<1> HIDE DEF k
<1>2. Spare(k) = Spare(w.acct)
  BY <1>1 DEF Others, Spare, FeeFloor, MinimumBalance, SubEntries, Held
<1> QED BY <1>1, <1>2 DEF k

\* assertOwnFeesFit.
LEMMA OwnFeesShape ==
  ASSUME NEW w, Whole(w), NEW ans, NEW p, NEW o, SorobanMove(w.acct, ans, o), SorobanFee <= SorobanEstimate,
         Len(Claims) <= 2 * ReadCeiling, SorobanRounds(w.acct, ans) > 0
  PROVE  LET s == Reading(w)
             tx == SorobanTx(s, w, o) IN
         SorobanShape(OwnFeesFit(s, tx, SorobanRounds(w.acct, ans) - 1, p, Batch(<<tx>>, TRUE)), w, ans, p)
<1> DEFINE s == Reading(w)
           tx == SorobanTx(s, w, o)
           n == SorobanRounds(w.acct, ans)
           b == ClassicOpsBound(s.account)
           f == MediatedFee(p)
           round == OwnFeesFit(s, tx, n - 1, p, Batch(<<tx>>, TRUE))
           need == tx.fee + LaterOwnFees(s.account, n - 1, p)
<1>1. n \in Nat \ {0} /\ n - 1 \in Nat
  BY SorobanRoundsAre DEF Whole
<1> HIDE DEF n
<1>2. /\ b \in Nat
      /\ LaterOwnFees(s.account, n - 1, p) = SorobanEstimate * (n - 1) + b + f
      /\ LaterOwnFees(s.account, n, p) = SorobanEstimate * n + b + f
      /\ LaterOwnFees(s.account, n - 1, p) \in Nat
  BY <1>1, ClosingIsCovered
<1>3. tx.ops = <<o>> /\ tx.fee = SorobanFee /\ ~tx.sponsored
  BY DEF SorobanTx
<1>4. Spare(s.account) = Spare(w.acct) /\ Sound(s.account) /\ Spare(w.acct) \in Int
  BY SpareAsRead, SpareIs
<1>5. SorobanFee \in Nat /\ SorobanEstimate \in Nat
  BY FeeAssumption, LimitsAssumption
<1>6. f \in {0, 2}
  BY ClosingIs
<1>7. need = SorobanFee + LaterOwnFees(s.account, n - 1, p)
  BY <1>3
<1>7a. need \in Int
  BY <1>2, <1>5, <1>7
<1>8. SorobanEstimate * n = SorobanEstimate * (n - 1) + SorobanEstimate
  BY <1>1, <1>5
<1>9. need <= LaterOwnFees(s.account, n, p)
  <2> DEFINE e == SorobanEstimate * (n - 1)
             e1 == SorobanEstimate * n
  <2>1. e \in Nat /\ e1 = e + SorobanEstimate
    BY <1>1, <1>5, <1>8
  <2> HIDE DEF e, e1, b, f
  <2>2. need = SorobanFee + (e + b + f) /\ LaterOwnFees(s.account, n, p) = e1 + b + f
    BY <1>2, <1>7 DEF e, e1
  <2>3. b \in Nat /\ f \in Nat
    BY <1>2, <1>6
  <2> HIDE DEF need
  <2>4. SorobanFee + (e + b + f) <= e1 + b + f
    BY <1>5, <2>1, <2>3
  <2> QED BY <2>2, <2>4
<1>10. Owed(w, ans, p) = LaterOwnFees(s.account, n, p) /\ LaterOwnFees(s.account, n, p) \in Int
  <2>1. LaterOwnFees(s.account, n, p) \in Nat
    BY <1>1, ClosingIsCovered
  <2> QED BY <2>1 DEF Owed, n
<1>11. OwnFeeShortfall(s.account, need) > 0 <=> Spare(w.acct) < need
  BY <1>4, <1>7a, ShortfallIs
<1>12. round = IF OwnFeeShortfall(s.account, need) > 0 THEN Refuse("close_fee_balance_short") ELSE Batch(<<tx>>, TRUE)
  BY DEF OwnFeesFit
<1> HIDE DEF round, need, tx, s, b, f
<1>13. CASE Spare(w.acct) < need
  <2>1. round = Refuse("close_fee_balance_short")
    BY <1>11, <1>12, <1>13
  <2>2. Spare(w.acct) < Owed(w, ans, p)
    BY <1>4, <1>7a, <1>9, <1>10, <1>13
  <2>3. round.code = "close_fee_balance_short" /\ "close_fee_balance_short" # ""
    BY <2>1, RefuseIs
  <2> QED BY <2>2, <2>3, Zenon DEF SorobanShape, Refused, round, tx, s, n
<1>14. CASE ~(Spare(w.acct) < need)
  <2>1. round = Batch(<<tx>>, TRUE)
    BY <1>11, <1>12, <1>14
  <2>2. round.code = "" /\ round.again /\ round.txs = <<tx>>
    BY <2>1, BatchIs
  <2>3. IsSeq(<<tx>>) /\ Len(<<tx>>) = 1 /\ <<tx>>[1] = tx /\ Len(tx.ops) = 1 /\ tx.ops[1] = o
    BY <1>3, OneIs
  <2>4. Spare(w.acct) >= need
    BY <1>4, <1>7a, <1>14
  <2>5. Spare(w.acct) >= SorobanFee + LaterOwnFees(Reading(w).account, SorobanRounds(w.acct, ans) - 1, p)
    BY <2>4, <1>7 DEF s, n
  <2>6. SorobanTxs(<<tx>>, w, ans, p)
    BY <1>3, <2>3, <2>5 DEF SorobanTxs
  <2>7. SorobanShape(round, w, ans, p)
    BY <2>2, <2>6, Zenon DEF SorobanShape
  <2> QED BY <2>7 DEF round, tx, s, n
<1> QED BY <1>13, <1>14

\* An exit round.
LEMMA ExitShape ==
  ASSUME NEW w, Whole(w), NEW ans, NEW p, SorobanFee <= SorobanEstimate, Len(Claims) <= 2 * ReadCeiling
  PROVE  LET round == ExitRound(Reading(w), w, ans, p) IN
         SorobanShape(round, w, ans, p) /\ (round = NoRound => Positions(w.acct) = {})
<1> DEFINE s == Reading(w)
           k == w.acct
           targets == InOrder(Exits, Positions(s.account))
           there == InOrder(targets, Positions(k))
           x == Head(there)
           o == Op("exit", x)
           tx == SorobanTx(s, w, o)
           after == Len(targets) - IndexFirstSubSeq(<<x>>, targets)
           later == (k.exits[x] - 1 + after) + Len(targets) + TokenRoundsAhead(s.account, ans, {"none", "convert", "transfer"})
           fit == OwnFeesFit(s, tx, later, p, Batch(<<tx>>, TRUE))
           round == ExitRound(s, w, ans, p)
<1>1. \/ there = <<>> /\ round = NoRound
      \/ there # <<>> /\ round = Refuse("defi_exit_blocked")
      \/ there # <<>> /\ round = fit
  <2> HIDE DEF there
  <2> QED BY Zenon DEF ExitRound, there
<1>2. Sound(k) /\ s.account.exits = k.exits /\ s.account.tokens = k.tokens
  BY ReadingShows DEF Whole, Others
<1>3. Positions(s.account) = Positions(k) /\ Positions(k) \subseteq ToSet(Exits) /\ k.exits \in [ToSet(Exits) -> Nat]
  BY <1>2 DEF Positions, Sound
<1>4. IsSeq(Exits) /\ IsInjective(Exits)
  BY ListsAre
<1>5. IsSeq(targets) /\ ToSet(targets) = Positions(k) /\ Len(targets) = Cardinality(Positions(k))
  <2>1. ToSet(Exits) \cap Positions(s.account) = Positions(k)
    BY <1>3
  <2> QED BY <2>1, <1>4, KeptIs, KeptIsCounted
<1>5a. targets = InOrder(Exits, Positions(k))
  BY <1>3
<1> HIDE DEF targets
<1>6. there = targets
  BY <1>5, KeptPlaces
<1>7. CASE there = <<>> /\ round = NoRound
  <2>1. ToSet(<<>>) = {}
    BY EmptyIs
  <2>2. Positions(k) = {}
    BY <2>1, <1>5, <1>6, <1>7
  <2> HIDE DEF round
  <2>3. SorobanShape(round, w, ans, p)
    BY <1>7, NoRoundShape
  <2> QED BY <2>2, <2>3 DEF round
<1>8. ASSUME there # <<>> PROVE Positions(k) # {} /\ x = First(k) /\ IndexFirstSubSeq(<<x>>, targets) = 1
  <2>1. targets # <<>>
    BY <1>6, <1>8
  <2>2. IndexFirstSubSeq(<<Head(targets)>>, targets) = 1
    BY <2>1, <1>5, FirstIsFirst
  <2>3. Head(targets) \in ToSet(targets)
    BY <2>1, <1>5, HeadIs
  <2>4. x = Head(targets)
    BY <1>6
  <2> QED BY <2>2, <2>3, <2>4, <1>5, <1>5a DEF First
<1>9. CASE there # <<>> /\ round = Refuse("defi_exit_blocked")
  <2>1. SorobanShape(round, w, ans, p)
    <3> HIDE DEF round
    <3> QED BY <1>9, RefusedFor
  <2>2. round.code = "defi_exit_blocked" /\ NoRound.code = "nothing to do"
    <3> HIDE DEF round
    <3> QED BY <1>9, RefuseIs
  <2>3. round # NoRound
    <3> HIDE DEF round
    <3> QED BY <2>2
  <2> QED BY <2>1, <2>3
<1>10. CASE there # <<>> /\ round = fit
  <2>1. Positions(k) # {} /\ x = First(k) /\ IndexFirstSubSeq(<<x>>, targets) = 1
    BY <1>8, <1>10
  <2>2. SorobanMove(k, ans, o)
    <3> HIDE DEF x
    <3> QED BY <2>1 DEF SorobanMove, Op
  <2>3. SorobanRounds(k, ans) > 0
    BY <1>2, <2>1, SorobanRoundsAre
  <2>4. later = SorobanRounds(k, ans) - 1
    <3>1. TokenRoundsAhead(s.account, ans, {"none", "convert", "transfer"}) = Cardinality(Moves(k, ans, {"none", "convert", "transfer"}))
      BY <1>2 DEF TokenRoundsAhead, Moves, HeldTokens
    <3>2. Cardinality(Moves(k, ans, {"none", "convert", "transfer"})) \in Nat /\ Cardinality(Positions(k)) \in Nat
      BY <1>2, PartsCount
    <3>3. SorobanRounds(k, ans) = k.exits[x] + 2 * Cardinality(Positions(k)) - 1
                                    + Cardinality(Moves(k, ans, {"none", "convert", "transfer"}))
      BY <2>1 DEF SorobanRounds
    <3>4. k.exits[x] \in Nat
      BY <1>2, <1>3, <2>1, FirstPosition
    <3> DEFINE c == Cardinality(Positions(k))
               m == Cardinality(Moves(k, ans, {"none", "convert", "transfer"}))
               y == k.exits[x]
    <3>5. later = (y - 1 + (c - 1)) + c + m
      BY <1>5, <2>1, <3>1
    <3> HIDE DEF c, m, y, later
    <3>6. c \in Nat /\ m \in Nat /\ y \in Nat /\ SorobanRounds(k, ans) = y + 2 * c - 1 + m
      BY <3>2, <3>3, <3>4 DEF c, m, y
    <3> QED BY <3>5, <3>6
  <2>5. SorobanShape(fit, w, ans, p)
    <3> HIDE DEF o, later
    <3> QED BY <2>2, <2>3, <2>4, OwnFeesShape
  <2>6. fit # NoRound
    <3> HIDE DEF later, tx
    <3> QED BY OwnFeesAnother
  <2> HIDE DEF fit, round
  <2> QED BY <2>5, <2>6, <1>10 DEF round
<1> QED BY <1>1, <1>7, <1>9, <1>10

\* The tokens due of a choice are all still held.
LEMMA DueShape ==
  ASSUME NEW w, Whole(w), NEW ans, NEW choice
  PROVE  LET due == DueTokens(Reading(w), ans, choice)
             held == StillHeld(due, w) IN
         /\ Len(due) = Cardinality(Moves(w.acct, ans, {choice}))
         /\ held = <<>> => Moves(w.acct, ans, {choice}) = {}
         /\ held # <<>> => Head(held) \in Moves(w.acct, ans, {choice}) /\ IndexFirstSubSeq(<<Head(held)>>, due) = 1
<1> DEFINE s == Reading(w)
           k == w.acct
           m == {t \in HeldTokens(s.account) : ans.asset[t] = choice}
           due == InOrder(Tokens, m)
           held == InOrder(due, HeldTokens(k))
<1>1. s.account.tokens = k.tokens
  BY ReadingShows DEF Others
<1>2. HeldTokens(s.account) = HeldTokens(k) /\ HeldTokens(k) \subseteq ToSet(Tokens)
  BY <1>1 DEF HeldTokens, TokenSet
<1>3. m = Moves(k, ans, {choice}) /\ m \subseteq ToSet(Tokens) /\ m \subseteq HeldTokens(k)
  BY <1>2 DEF Moves
<1>4. IsSeq(Tokens) /\ IsInjective(Tokens)
  BY ListsAre
<1>5. due = DueTokens(s, ans, choice) /\ held = StillHeld(DueTokens(s, ans, choice), w)
  BY DEF DueTokens, StillHeld
<1> HIDE DEF m
<1>6. IsSeq(due) /\ ToSet(due) = m /\ Len(due) = Cardinality(m)
  <2>1. ToSet(Tokens) \cap m = m
    BY <1>3
  <2> QED BY <2>1, <1>4, KeptIs, KeptIsCounted
<1> HIDE DEF due
<1>7. held = due
  <2>1. ToSet(due) \subseteq HeldTokens(k)
    BY <1>3, <1>6
  <2> QED BY <2>1, <1>6, KeptPlaces, Zenon
<1> HIDE DEF held
<1>8. held = <<>> => m = {}
  <2>1. ToSet(<<>>) = {}
    BY EmptyIs
  <2> QED BY <2>1, <1>6, <1>7
<1>9. held # <<>> => Head(held) \in m /\ IndexFirstSubSeq(<<Head(held)>>, due) = 1
  BY <1>6, <1>7, HeadIs, FirstIsFirst
<1> QED BY <1>3, <1>5, <1>6, <1>8, <1>9

\* A token that is sent.
LEMMA TransferShape ==
  ASSUME NEW w, Whole(w), NEW ans, NEW p, SorobanFee <= SorobanEstimate, Len(Claims) <= 2 * ReadCeiling,
         Positions(w.acct) = {}
  PROVE  LET round == TokenTransferRound(Reading(w), w, ans, p) IN
         SorobanShape(round, w, ans, p) /\ (round = NoRound => Moves(w.acct, ans, {"transfer"}) = {})
<1> DEFINE s == Reading(w)
           k == w.acct
           due == DueTokens(s, ans, "transfer")
           held == StillHeld(due, w)
           x == Head(held)
           o == Moving("sendToken", x, k.tokens[x], "chosen")
           tx == SorobanTx(s, w, o)
           later == (Len(due) - IndexFirstSubSeq(<<x>>, due)) + TokenRoundsAhead(s.account, ans, {"convert"})
           fit == OwnFeesFit(s, tx, later, p, Batch(<<tx>>, TRUE))
           round == TokenTransferRound(s, w, ans, p)
<1>1. \/ held = <<>> /\ round = NoRound
      \/ held # <<>> /\ round = fit
  <2> HIDE DEF held
  <2> QED BY Zenon DEF TokenTransferRound, held
<1>2. Sound(k) /\ s.account.tokens = k.tokens
  BY ReadingShows DEF Whole, Others
<1>3. /\ Len(due) = Cardinality(Moves(k, ans, {"transfer"}))
      /\ held = <<>> => Moves(k, ans, {"transfer"}) = {}
      /\ held # <<>> => x \in Moves(k, ans, {"transfer"}) /\ IndexFirstSubSeq(<<x>>, due) = 1
  BY DueShape
<1>4. CASE held = <<>> /\ round = NoRound
  <2> HIDE DEF round, held
  <2>1. SorobanShape(round, w, ans, p)
    BY <1>4, NoRoundShape
  <2> QED BY <2>1, <1>3, <1>4 DEF round
<1>5. CASE held # <<>> /\ round = fit
  <2>1. x \in Moves(k, ans, {"transfer", "convert"}) /\ x \in Moves(k, ans, {"transfer"}) /\ IndexFirstSubSeq(<<x>>, due) = 1
    <3> HIDE DEF held, due
    <3> QED BY <1>3, <1>5 DEF Moves
  <2>2. SorobanMove(k, ans, o)
    <3> HIDE DEF x
    <3> QED BY <2>1 DEF SorobanMove, Op, Moving
  <2> DEFINE T == Moves(k, ans, {"transfer"})
             C == Moves(k, ans, {"convert"})
  <2>3. Moves(k, ans, {"transfer", "convert"}) = T \cup C /\ T \cap C = {}
    BY DEF Moves
  <2>4. IsFiniteSet(T) /\ IsFiniteSet(C) /\ Cardinality(T) \in Nat /\ Cardinality(C) \in Nat
    BY <1>2, PartsAreFinite, PartsCount
  <2>5. TokenRoundsAhead(s.account, ans, {"convert"}) = Cardinality(C)
    BY <1>2 DEF TokenRoundsAhead, Moves, HeldTokens
  <2>5a. T # {}
    BY <2>1
  <2> HIDE DEF T, C
  <2>6. Cardinality(T \cup C) = Cardinality(T) + Cardinality(C)
    <3>1. Cardinality(T \cup C) = Cardinality(T) + Cardinality(C) - Cardinality(T \cap C)
      BY <2>4, FS_Union
    <3>2. Cardinality(T \cap C) = 0
      BY <2>3, FS_EmptySet
    <3> QED BY <3>1, <3>2, <2>4
  <2>7. SorobanRounds(k, ans) = Cardinality(T) + Cardinality(C)
    BY <2>3, <2>6 DEF SorobanRounds
  <2>8. Cardinality(T) # 0
    BY <2>4, <2>5a, FS_EmptySet
  <2>9. later = SorobanRounds(k, ans) - 1
    <3>1. later = (Cardinality(T) - 1) + Cardinality(C)
      BY <1>3, <2>1, <2>5 DEF T
    <3> HIDE DEF later
    <3> QED BY <3>1, <2>4, <2>7
  <2>10. SorobanRounds(k, ans) > 0
    BY <2>4, <2>7, <2>8
  <2>11. SorobanShape(fit, w, ans, p)
    <3> HIDE DEF o, later
    <3> QED BY <2>2, <2>9, <2>10, OwnFeesShape
  <2>12. fit # NoRound
    <3> HIDE DEF later, tx
    <3> QED BY OwnFeesAnother
  <2> HIDE DEF fit, round
  <2> QED BY <2>11, <2>12, <1>5 DEF round
<1> QED BY <1>1, <1>4, <1>5

\* A token that is swapped.
LEMMA ConversionShape ==
  ASSUME NEW w, Whole(w), NEW ans, NEW p, SorobanFee <= SorobanEstimate, Len(Claims) <= 2 * ReadCeiling,
         Positions(w.acct) = {}, Moves(w.acct, ans, {"transfer"}) = {}
  PROVE  LET round == TokenConversionRound(Reading(w), w, ans, p) IN
         SorobanShape(round, w, ans, p) /\ (round = NoRound => SorobanRounds(w.acct, ans) = 0)
<1> DEFINE s == Reading(w)
           k == w.acct
           due == DueTokens(s, ans, "convert")
           held == StillHeld(due, w)
           x == Head(held)
           least == QuotedLeast(w.rate[x], k.tokens[x])
           o == Swapping("swapToken", x, k.tokens[x], least)
           tx == SorobanTx(s, w, o)
           later == Len(due) - IndexFirstSubSeq(<<x>>, due)
           fit == OwnFeesFit(s, tx, later, p, Batch(<<tx>>, TRUE))
           round == TokenConversionRound(s, w, ans, p)
           codes == {"conversion_floor_missing", "soroban_token_route_lost", "quote_drifted"}
<1>1. \/ held = <<>> /\ round = NoRound
      \/ \E code \in codes : round = Refuse(code)
      \/ held # <<>> /\ round = fit
  <2> HIDE DEF held
  <2> QED BY Zenon DEF TokenConversionRound, held
<1>2. Sound(k) /\ s.account.tokens = k.tokens
  BY ReadingShows DEF Whole, Others
<1>3. /\ Len(due) = Cardinality(Moves(k, ans, {"convert"}))
      /\ held = <<>> => Moves(k, ans, {"convert"}) = {}
      /\ held # <<>> => x \in Moves(k, ans, {"convert"}) /\ IndexFirstSubSeq(<<x>>, due) = 1
  BY DueShape
<1>3a. Moves(k, ans, {"transfer", "convert"}) = Moves(k, ans, {"convert"})
  BY DEF Moves
<1>3b. SorobanRounds(k, ans) = Cardinality(Moves(k, ans, {"convert"}))
  BY <1>3a DEF SorobanRounds
<1>4. CASE held = <<>> /\ round = NoRound
  <2> HIDE DEF round, held, due
  <2>1. SorobanShape(round, w, ans, p)
    BY <1>4, NoRoundShape
  <2>2. SorobanRounds(k, ans) = 0
    BY <1>3, <1>3b, <1>4, FS_EmptySet
  <2> QED BY <2>1, <2>2 DEF round
<1>5. CASE \E code \in codes : round = Refuse(code)
  <2>1. PICK code \in codes : round = Refuse(code)
    BY <1>5
  <2> HIDE DEF round
  <2>2. SorobanShape(round, w, ans, p)
    BY <2>1, RefusedFor
  <2>3. round.code = code /\ NoRound.code = "nothing to do"
    BY <2>1, RefuseIs
  <2>4. round # NoRound
    BY <2>3
  <2> QED BY <2>2, <2>4 DEF round
<1>6. CASE held # <<>> /\ round = fit
  <2>1. x \in Moves(k, ans, {"transfer", "convert"}) /\ IndexFirstSubSeq(<<x>>, due) = 1
    <3> HIDE DEF held, due
    <3> QED BY <1>3, <1>3a, <1>6
  <2>2. SorobanMove(k, ans, o)
    <3> HIDE DEF x, least
    <3> QED BY <2>1 DEF SorobanMove, Op, Moving, Swapping
  <2>3. Cardinality(Moves(k, ans, {"convert"})) \in Nat /\ IsFiniteSet(Moves(k, ans, {"convert"}))
    BY <1>2, PartsCount, PartsAreFinite
  <2>4. Cardinality(Moves(k, ans, {"convert"})) # 0
    BY <1>3a, <2>1, <2>3, FS_EmptySet
  <2>5. later = SorobanRounds(k, ans) - 1
    BY <1>3, <1>3b, <2>1
  <2>6. SorobanRounds(k, ans) > 0
    BY <1>3b, <2>3, <2>4
  <2>7. SorobanShape(fit, w, ans, p)
    <3> HIDE DEF o, later
    <3> QED BY <2>2, <2>5, <2>6, OwnFeesShape
  <2>8. fit # NoRound
    <3> HIDE DEF later, tx
    <3> QED BY OwnFeesAnother
  <2> HIDE DEF fit, round
  <2> QED BY <2>7, <2>8, <1>6 DEF round
<1> QED BY <1>1, <1>4, <1>5, <1>6
-----------------------------------------------------------------------------
(* Counters: functions on 0..n in which each value comes of the one before. *)

Follows(a, n, V, e, step) ==
  a \in [0..n -> V] /\ a[0] = e /\ \A i \in 1..n : a[i] = step[<<i, a[i - 1]>>]

\* There is one for every way to step.
LEMMA StepsExist ==
  ASSUME NEW n \in Nat, NEW V, NEW e \in V, NEW step \in [(1..n) \X V -> V]
  PROVE  \E a : Follows(a, n, V, e, step)
<1> DEFINE upTo(f, m) == f = [i \in 0..m |-> IF i = 0 THEN e ELSE step[<<i, f[i - 1]>>]] /\ f \in [0..m -> V]
           bad == {m \in 0..n : ~\E f : upTo(f, m)}
<1>1. ASSUME NEW m \in 0..n, m + 1 \in 0..n, NEW f, upTo(f, m) PROVE \E g : upTo(g, m + 1)
  <2> DEFINE g == [i \in 0..(m + 1) |-> IF i = m + 1 THEN step[<<m + 1, f[m]>>] ELSE f[i]]
  <2>1. f \in [0..m -> V] /\ \A i \in 0..m : f[i] = IF i = 0 THEN e ELSE step[<<i, f[i - 1]>>]
    BY <1>1
  <2>2. step[<<m + 1, f[m]>>] \in V
    BY <1>1, <2>1
  <2>3. g \in [0..(m + 1) -> V]
    BY <2>1, <2>2
  <2>4. ASSUME NEW i \in 0..(m + 1) PROVE g[i] = IF i = 0 THEN e ELSE step[<<i, g[i - 1]>>]
    <3>1. CASE i = m + 1
      <4>1. m + 1 # 0 /\ m \in 0..(m + 1) /\ m # m + 1 /\ (m + 1) - 1 = m
        OBVIOUS
      <4> QED BY <3>1, <4>1
    <3>2. CASE i # m + 1 /\ i # 0
      <4>1. i - 1 \in 0..(m + 1) /\ i - 1 # m + 1 /\ i \in 0..m
        BY <3>2
      <4> QED BY <2>1, <3>2, <4>1
    <3>3. CASE i = 0
      <4>1. 0 \in 0..m /\ 0 \in 0..(m + 1) /\ 0 # m + 1
        OBVIOUS
      <4>2. f[0] = e
        BY <2>1, <4>1
      <4>3. g[0] = e
        BY <4>1, <4>2
      <4> QED BY <3>3, <4>3
    <3> QED BY <3>1, <3>2, <3>3
  <2>5. g = [i \in 0..(m + 1) |-> g[i]]
    OBVIOUS
  <2> HIDE DEF g
  <2> QED BY <2>3, <2>4, <2>5
<1>2. \E f : upTo(f, 0)
  <2>1. upTo([i \in 0..0 |-> e], 0)
    OBVIOUS
  <2> QED BY <2>1
<1> HIDE DEF upTo
<1>3. bad = {}
  <2> SUFFICES ASSUME bad # {} PROVE FALSE
    OBVIOUS
  <2>0. bad \subseteq Nat
    OBVIOUS
  <2>1. PICK m \in bad : \A j \in bad : m <= j
    <3> HIDE DEF bad
    <3> QED BY <2>0, Least
  <2>2. m # 0 /\ m \in 0..n
    BY <1>2, <2>1
  <2>3. m - 1 \in 0..n /\ m - 1 \notin bad /\ (m - 1) + 1 = m
    BY <2>1, <2>2
  <2>4. PICK f : upTo(f, m - 1)
    BY <2>3
  <2> QED BY <1>1, <2>1, <2>2, <2>3, <2>4
<1>4. PICK f : upTo(f, n)
  BY <1>3
<1>5. f \in [0..n -> V] /\ \A i \in 0..n : f[i] = IF i = 0 THEN e ELSE step[<<i, f[i - 1]>>]
  BY <1>4 DEF upTo
<1>6. 0 \in 0..n /\ \A i \in 1..n : i \in 0..n /\ i # 0
  OBVIOUS
<1> QED BY <1>5, <1>6 DEF Follows

\* A sum, by its steps.
Adds(add, f) == add = [i \in 0..Len(f) |-> IF i = 0 THEN 0 ELSE add[i - 1] + f[i]]

LEMMA SumIsAdded == ASSUME NEW f PROVE Sum(f) = (CHOOSE add : Adds(add, f))[Len(f)]
BY DEF Sum, Adds

LEMMA SumInSteps ==
  ASSUME NEW f, IsSeq(f), \A i \in 1..Len(f) : f[i] \in Int
  PROVE  \E add \in [0..Len(f) -> Int] : /\ add[0] = 0 /\ \A i \in 1..Len(f) : add[i] = add[i - 1] + f[i]
                                         /\ Sum(f) = add[Len(f)]
<1> DEFINE n == Len(f)
           step == [c \in (1..n) \X Int |-> c[2] + f[c[1]]]
           add == CHOOSE a : Adds(a, f)
<1>1. n \in Nat
  BY SeqIs
<1>2. step \in [(1..n) \X Int -> Int]
  OBVIOUS
<1>3. \A i \in 1..n : \A v \in Int : step[<<i, v>>] = v + f[i]
  OBVIOUS
<1> HIDE DEF step
<1>4. PICK a : Follows(a, n, Int, 0, step)
  <2>1. 0 \in Int
    OBVIOUS
  <2> HIDE DEF n
  <2> QED BY <1>1, <1>2, <2>1, StepsExist, Zenon
<1>5. Adds(a, f)
  <2>1. \A i \in 0..n : a[i] = IF i = 0 THEN 0 ELSE a[i - 1] + f[i]
    <3> SUFFICES ASSUME NEW i \in 0..n, i # 0 PROVE a[i] = a[i - 1] + f[i]
      BY <1>4 DEF Follows
    <3>1. i \in 1..n /\ i - 1 \in 0..n
      BY <1>1
    <3>2. a[i] = step[<<i, a[i - 1]>>] /\ a[i - 1] \in Int
      BY <1>4, <3>1 DEF Follows
    <3> QED BY <1>3, <3>1, <3>2
  <2>2. a = [i \in 0..n |-> a[i]]
    BY <1>4 DEF Follows
  <2>3. a = [i \in 0..n |-> IF i = 0 THEN 0 ELSE a[i - 1] + f[i]]
    BY <2>1, <2>2
  <2> QED BY <2>3 DEF Adds
<1>6. Adds(add, f)
  BY <1>5
<1> HIDE DEF add
<1>7. add[0] = 0 /\ \A i \in 1..n : add[i] = add[i - 1] + f[i]
  <2>1. add = [i \in 0..n |-> IF i = 0 THEN 0 ELSE add[i - 1] + f[i]]
    BY <1>6 DEF Adds
  <2>2. 0 \in 0..n /\ \A i \in 1..n : i \in 0..n /\ i # 0
    BY <1>1
  <2> QED BY <2>1, <2>2
<1>8. \A i \in 0..n : add[i] \in Int
  <2> DEFINE bad == {i \in 0..n : add[i] \notin Int}
  <2> SUFFICES ASSUME bad # {} PROVE FALSE
    OBVIOUS
  <2>0. bad \subseteq Nat
    OBVIOUS
  <2>1. PICK m \in bad : \A j \in bad : m <= j
    <3> HIDE DEF bad
    <3> QED BY <2>0, Least
  <2>2. m # 0 /\ m \in 1..n
    BY <1>7, <2>1
  <2>3. m - 1 \in 0..n /\ m - 1 \notin bad
    BY <1>1, <2>1, <2>2
  <2> QED BY <1>7, <2>1, <2>2, <2>3
<1>9. add = [i \in 0..n |-> add[i]]
  <2>1. add = [i \in 0..n |-> IF i = 0 THEN 0 ELSE add[i - 1] + f[i]]
    BY <1>6 DEF Adds
  <2> DEFINE h == [i \in 0..n |-> IF i = 0 THEN 0 ELSE add[i - 1] + f[i]]
  <2>2. DOMAIN h = 0..n /\ h = [i \in 0..n |-> h[i]]
    OBVIOUS
  <2> HIDE DEF h
  <2>3. add = h
    BY <2>1 DEF h
  <2> QED BY <2>2, <2>3
<1>10. add \in [0..n -> Int]
  BY <1>8, <1>9
<1>11. Sum(f) = add[n]
  BY SumIsAdded DEF add
<1> QED BY <1>7, <1>10, <1>11

\* A sum of natural numbers, and one whose parts are no longer than the stretches of a line.
LEMMA SumIs ==
  ASSUME NEW f, IsSeq(f), \A i \in 1..Len(f) : f[i] \in Nat
  PROVE  /\ Sum(f) \in Nat
         /\ \A p \in [0..Len(f) -> Nat] : (\A i \in 1..Len(f) : f[i] <= p[i] - p[i - 1]) => Sum(f) <= p[Len(f)]
<1> DEFINE n == Len(f)
<1>1. n \in Nat
  BY SeqIs
<1>2. PICK add \in [0..n -> Int] : add[0] = 0 /\ (\A i \in 1..n : add[i] = add[i - 1] + f[i]) /\ Sum(f) = add[n]
  BY SumInSteps
<1>3. ASSUME NEW p \in [0..n -> Nat], \A i \in 1..n : f[i] <= p[i] - p[i - 1]
      PROVE  \A i \in 0..n : add[i] \in Nat /\ add[i] <= p[i]
  <2> DEFINE bad == {i \in 0..n : ~(add[i] \in Nat /\ add[i] <= p[i])}
  <2> SUFFICES ASSUME bad # {} PROVE FALSE
    OBVIOUS
  <2>0. bad \subseteq Nat
    OBVIOUS
  <2>1. PICK m \in bad : \A j \in bad : m <= j
    <3> HIDE DEF bad
    <3> QED BY <2>0, Least
  <2>2. m # 0 /\ m \in 1..n
    BY <1>1, <1>2, <2>1
  <2>3. m - 1 \in 0..n /\ m - 1 \notin bad
    BY <1>1, <2>1, <2>2
  <2>4. add[m - 1] \in Nat /\ add[m - 1] <= p[m - 1]
    BY <2>3
  <2>5. add[m] = add[m - 1] + f[m] /\ f[m] \in Nat /\ f[m] <= p[m] - p[m - 1] /\ p[m] \in Nat /\ p[m - 1] \in Nat
    BY <1>2, <1>3, <2>2, <2>3
  <2>6. add[m] \in Nat /\ add[m] <= p[m]
    BY SMTT(30), <2>4, <2>5
  <2> QED BY <2>1, <2>6
<1>4. \A i \in 0..n : add[i] \in Nat
  <2> DEFINE bad == {i \in 0..n : add[i] \notin Nat}
  <2> SUFFICES ASSUME bad # {} PROVE FALSE
    OBVIOUS
  <2>0. bad \subseteq Nat
    OBVIOUS
  <2>1. PICK m \in bad : \A j \in bad : m <= j
    <3> HIDE DEF bad
    <3> QED BY <2>0, Least
  <2>2. m # 0 /\ m \in 1..n
    BY <1>1, <1>2, <2>1
  <2>3. m - 1 \in 0..n /\ m - 1 \notin bad
    BY <1>1, <2>1, <2>2
  <2>4. add[m] = add[m - 1] + f[m] /\ f[m] \in Nat
    BY <1>2, <2>2
  <2> QED BY <2>1, <2>3, <2>4
<1>5. n \in 0..n
  BY <1>1
<1> QED BY <1>2, <1>3, <1>4, <1>5

-----------------------------------------------------------------------------
(* Packing. *)

LEMMA Multiples ==
  ASSUME NEW d \in Nat
  PROVE  \A a, b \in Nat : a * d \in Nat /\ (a < b => a * d + d <= b * d) /\ (a <= b => a * d <= b * d)
<1> SUFFICES ASSUME NEW a \in Nat, NEW b \in Nat
             PROVE a * d \in Nat /\ (a < b => a * d + d <= b * d) /\ (a <= b => a * d <= b * d)
  OBVIOUS
<1>1. ASSUME a < b PROVE a * d + d <= b * d
  <2>1. (b - a - 1) \in Nat
    BY <1>1
  <2>2. (b - a - 1) * d \in Nat
    BY <2>1
  <2>3. b * d = a * d + d + (b - a - 1) * d
    BY <1>1
  <2> QED BY <2>2, <2>3
<1>2. a * d \in Nat /\ b * d \in Nat
  OBVIOUS
<1>3. ASSUME a <= b PROVE a * d <= b * d
  <2>1. CASE a = b
    BY <2>1, <1>2
  <2>2. CASE a < b
    <3>1. a * d + d <= b * d
      BY <2>2, <1>1
    <3> DEFINE x == a * d
               y == b * d
    <3>2. x \in Nat /\ y \in Nat /\ x + d <= y
      BY <3>1, <1>2
    <3> HIDE DEF x, y
    <3>3. x <= y
      BY <3>2
    <3> QED BY <3>3 DEF x, y
  <2> QED BY <2>1, <2>2, <1>3
<1> QED BY <1>1, <1>2, <1>3

\* How many operations the first i transactions hold.
Filled(ops, i) == Min({i * OpLimit, Len(ops)})

LEMMA FilledIs ==
  ASSUME NEW ops, IsSeq(ops)
  PROVE  LET n == CeilDiv(Len(ops), OpLimit) IN
         /\ n \in Nat /\ Filled(ops, 0) = 0 /\ Filled(ops, n) = Len(ops)
         /\ \A i \in 0..n : Filled(ops, i) \in Nat /\ Filled(ops, i) <= Len(ops)
         /\ \A i \in 1..n : /\ Filled(ops, i - 1) = (i - 1) * OpLimit /\ Filled(ops, i - 1) < Filled(ops, i)
                            /\ Filled(ops, i) <= Filled(ops, i - 1) + OpLimit
                            /\ i < n => Filled(ops, i) = Filled(ops, i - 1) + OpLimit
<1> DEFINE n == CeilDiv(Len(ops), OpLimit)
           l == Len(ops)
           d == OpLimit
<1>1. l \in Nat /\ d \in Nat \ {0}
  BY SeqIs, LimitsAssumption
<1>2. n \in Nat /\ l <= n * d /\ n * d < l + d
  BY <1>1, RoundsOf
<1> HIDE DEF n, l, d
<1>3. \A a, b \in Nat : a * d \in Nat /\ (a < b => a * d + d <= b * d) /\ (a <= b => a * d <= b * d)
  BY <1>1, Multiples
<1>4. \A i \in Nat : Filled(ops, i) \in {i * d, l} /\ Filled(ops, i) <= i * d /\ Filled(ops, i) <= l
  <2> SUFFICES ASSUME NEW i \in Nat PROVE Filled(ops, i) \in {i * d, l} /\ Filled(ops, i) <= i * d /\ Filled(ops, i) <= l
    OBVIOUS
  <2>1. i * d \in Int /\ l \in Int
    BY <1>1, <1>3
  <2>2. Filled(ops, i) = Min({i * d, l})
    BY DEF Filled, l, d
  <2> QED BY <2>1, <2>2, MinIs
<1>5. \A i \in Nat : Filled(ops, i) \in Nat
  BY <1>1, <1>3, <1>4
<1>6. Filled(ops, 0) = 0
  <2>1. 0 * d = 0
    BY <1>1
  <2>2. Filled(ops, 0) \in Nat /\ Filled(ops, 0) <= 0 * d
    BY <1>4, <1>5
  <2> QED BY <2>1, <2>2
<1>7. Filled(ops, n) = l
  <2>1. Filled(ops, n) \in {n * d, l} /\ Filled(ops, n) <= l /\ n * d \in Nat
    BY <1>2, <1>3, <1>4
  <2> DEFINE x == n * d
  <2>2. x \in Nat /\ l <= x /\ Filled(ops, n) \in {x, l}
    BY <1>2, <2>1
  <2> HIDE DEF x
  <2> QED BY <2>1, <2>2, <1>1
<1>8. ASSUME NEW i \in Nat, i < n PROVE Filled(ops, i) = i * d /\ i * d < l
  <2>1. i * d + d <= n * d /\ i * d \in Nat /\ n * d \in Nat
    BY <1>2, <1>3, <1>8
  <2> DEFINE x == i * d
             y == n * d
  <2>2. x \in Nat /\ y \in Nat /\ x + d <= y /\ y < l + d /\ Filled(ops, i) \in {x, l} /\ Filled(ops, i) <= x
    BY <1>2, <1>4, <2>1
  <2> HIDE DEF x, y
  <2>3. x < l /\ Filled(ops, i) = x
    BY <2>2, <1>1
  <2> QED BY <2>3 DEF x
<1>9. ASSUME NEW i \in 1..n
      PROVE  /\ Filled(ops, i - 1) = (i - 1) * d /\ Filled(ops, i - 1) < Filled(ops, i)
             /\ Filled(ops, i) <= Filled(ops, i - 1) + d
             /\ i < n => Filled(ops, i) = Filled(ops, i - 1) + d
  <2>1. i - 1 \in Nat /\ i \in Nat /\ i - 1 < n
    BY <1>2
  <2>2. Filled(ops, i - 1) = (i - 1) * d /\ (i - 1) * d < l
    BY <1>8, <2>1
  <2>3. i * d = (i - 1) * d + d
    BY <1>1, <2>1
  <2>4. (i - 1) * d \in Nat /\ i * d \in Nat
    BY <1>3, <2>1
  <2> DEFINE x == (i - 1) * d
             y == i * d
             z == Filled(ops, i)
  <2>5. z \in {y, l} /\ z <= y
    BY <1>4, <2>1
  <2>6. i < n => z = y
    BY <1>8, <2>1
  <2>7. x \in Nat /\ y = x + d /\ x < l
    BY <2>2, <2>3, <2>4
  <2>8. Filled(ops, i - 1) = x
    BY <2>2
  <2> HIDE DEF x, y, z
  <2>9. x < z /\ z <= x + d /\ (i < n => z = x + d)
    BY <2>5, <2>6, <2>7, <1>1
  <2> QED BY <2>2, <2>8, <2>9 DEF z
<1> QED BY <1>2, <1>4, <1>5, <1>6, <1>7, <1>9 DEF n, l, d

\* A chunk.
LEMMA ChunkIs ==
  ASSUME NEW ops, IsSeq(ops), NEW i \in 1..CeilDiv(Len(ops), OpLimit)
  PROVE  LET c == Chunks(ops)[i] IN
         /\ IsSeq(c) /\ Len(c) = Filled(ops, i) - Filled(ops, i - 1) /\ Len(c) \in Nat \ {0} /\ Len(c) <= OpLimit
         /\ \A j \in 1..Len(c) : /\ Filled(ops, i - 1) + j \in 1..Len(ops) /\ c[j] = ops[Filled(ops, i - 1) + j]
                                 /\ c[j] \in ToSet(ops)
<1> DEFINE n == CeilDiv(Len(ops), OpLimit)
           b == Filled(ops, i - 1)
           e == Filled(ops, i)
           c == SubSeq(ops, b + 1, e)
<1>1. n \in Nat /\ i \in 1..n /\ i - 1 \in 0..n /\ i \in 0..n
  BY FilledIs
<1>2. b = (i - 1) * OpLimit /\ b < e /\ e <= b + OpLimit /\ b \in Nat /\ e \in Nat /\ e <= Len(ops)
  BY <1>1, FilledIs
<1>3. Chunks(ops)[i] = c
  BY <1>2 DEF Chunks, Filled
<1>4. Len(ops) \in Nat /\ ToSet(ops) = {ops[j] : j \in 1..Len(ops)} /\ OpLimit \in Nat
  BY SeqIs, LimitsAssumption
<1> HIDE DEF b, e, n
<1>5. \A j \in (b + 1)..e : ops[j] \in ToSet(ops)
  BY <1>2, <1>4
<1>6. c \in Seq(ToSet(ops)) /\ Len(c) = e - b /\ \A j \in 1..(e - b) : c[j] = ops[b + j]
  <2>1. /\ c \in Seq(ToSet(ops)) /\ Len(c) = IF b + 1 <= e THEN e - (b + 1) + 1 ELSE 0
        /\ \A j \in 1..(e - (b + 1) + 1) : c[j] = ops[(b + 1) + j - 1]
    BY <1>2, <1>5, SubSeqProperties
  <2>2. e - (b + 1) + 1 = e - b /\ b + 1 <= e
    BY <1>2
  <2>3. \A j \in 1..(e - b) : (b + 1) + j - 1 = b + j
    BY <1>2
  <2> HIDE DEF c
  <2> QED BY <2>1, <2>2, <2>3
<1>7. IsSeq(c)
  <2> HIDE DEF c
  <2> QED BY <1>6, InSeq
<1> HIDE DEF c
<1>8. Len(c) \in Nat \ {0} /\ Len(c) <= OpLimit
  BY <1>2, <1>4, <1>6
<1>9. \A j \in 1..Len(c) : b + j \in 1..Len(ops) /\ b + j \in (b + 1)..e
  BY <1>2, <1>4, <1>6
<1>10. \A j \in 1..Len(c) : b + j \in 1..Len(ops) /\ c[j] = ops[b + j] /\ c[j] \in ToSet(ops)
  BY <1>5, <1>6, <1>9
<1> QED BY <1>3, <1>6, <1>7, <1>8, <1>10 DEF b, e

\* What the transactions so far cost the account, when it has m to spend.
Spending(a, m, chunk) ==
  a = [i \in 0..Len(chunk) |->
         IF i = 0 THEN 0
         ELSE a[i - 1] + (IF m - a[i - 1] >= Len(chunk[i]) THEN Len(chunk[i]) ELSE 0)]

LEMMA SpendingIs ==
  ASSUME NEW m \in Int, NEW chunk, Len(chunk) \in Nat, \A i \in 1..Len(chunk) : Len(chunk[i]) \in Nat
  PROVE  LET a == CHOOSE a : Spending(a, m, chunk) IN
         /\ a \in [0..Len(chunk) -> Nat] /\ a[0] = 0
         /\ \A i \in 1..Len(chunk) :
              a[i] = a[i - 1] + (IF m - a[i - 1] >= Len(chunk[i]) THEN Len(chunk[i]) ELSE 0)
<1> DEFINE n == Len(chunk)
           more(i, v) == IF m - v >= Len(chunk[i]) THEN Len(chunk[i]) ELSE 0
           step == [c \in (1..n) \X Nat |-> c[2] + more(c[1], c[2])]
           a == CHOOSE a : Spending(a, m, chunk)
<1>1. \A i \in 1..n : \A v \in Nat : more(i, v) \in Nat /\ v + more(i, v) \in Nat
  OBVIOUS
<1> HIDE DEF more
<1>2. step \in [(1..n) \X Nat -> Nat] /\ \A i \in 1..n : \A v \in Nat : step[<<i, v>>] = v + more(i, v)
  <2>1. \A c \in (1..n) \X Nat : c[1] \in 1..n /\ c[2] \in Nat
    OBVIOUS
  <2>2. \A c \in (1..n) \X Nat : c[2] + more(c[1], c[2]) \in Nat
    BY <1>1, <2>1
  <2> QED BY <2>2
<1> HIDE DEF step
<1>3. PICK f : Follows(f, n, Nat, 0, step)
  <2>1. 0 \in Nat
    OBVIOUS
  <2> QED BY <1>2, <2>1, StepsExist
<1>4. f \in [0..n -> Nat] /\ f[0] = 0 /\ \A i \in 1..n : f[i] = step[<<i, f[i - 1]>>]
  BY <1>3 DEF Follows
<1>5. \A i \in 1..n : i - 1 \in 0..n /\ i \in 0..n /\ i # 0
  OBVIOUS
<1>6. \A i \in 1..n : f[i] = f[i - 1] + more(i, f[i - 1])
  BY <1>2, <1>4, <1>5
<1>7. f = [i \in 0..n |-> IF i = 0 THEN 0 ELSE f[i - 1] + more(i, f[i - 1])]
  <2>1. f = [i \in 0..n |-> f[i]]
    BY <1>4
  <2>2. \A i \in 0..n : f[i] = IF i = 0 THEN 0 ELSE f[i - 1] + more(i, f[i - 1])
    BY <1>4, <1>6
  <2> QED BY <2>1, <2>2
<1>8. Spending(f, m, chunk)
  BY <1>7 DEF Spending, more
<1>9. Spending(a, m, chunk)
  BY <1>8
<1> HIDE DEF a
<1>10. a = [i \in 0..n |-> IF i = 0 THEN 0 ELSE a[i - 1] + more(i, a[i - 1])]
  BY <1>9 DEF Spending, more
<1>11. DOMAIN a = 0..n /\ a[0] = 0 /\ \A i \in 1..n : a[i] = a[i - 1] + more(i, a[i - 1])
  <2> DEFINE h == [i \in 0..n |-> IF i = 0 THEN 0 ELSE a[i - 1] + more(i, a[i - 1])]
  <2>1. DOMAIN h = 0..n /\ h[0] = 0 /\ \A i \in 1..n : h[i] = a[i - 1] + more(i, a[i - 1])
    BY <1>5
  <2>2. a = h
    BY <1>10
  <2> HIDE DEF h
  <2> QED BY <2>1, <2>2
<1>12. \A i \in 0..n : a[i] \in Nat
  <2> DEFINE bad == {i \in 0..n : a[i] \notin Nat}
  <2> SUFFICES ASSUME bad # {} PROVE FALSE
    OBVIOUS
  <2>0. bad \subseteq Nat
    OBVIOUS
  <2>1. PICK q \in bad : \A j \in bad : q <= j
    <3> HIDE DEF bad
    <3> QED BY <2>0, Least
  <2>2. q # 0 /\ q \in 1..n
    BY <1>11, <2>1
  <2>3. q - 1 \in 0..n /\ q - 1 \notin bad
    BY <2>1, <2>2
  <2>4. a[q] = a[q - 1] + more(q, a[q - 1]) /\ a[q - 1] \in Nat
    BY <1>11, <2>2, <2>3
  <2> QED BY <1>1, <2>1, <2>2, <2>4
<1>13. a \in [0..n -> Nat]
  <2>1. a = [i \in 0..n |-> a[i]]
    <3> DEFINE h == [i \in 0..n |-> IF i = 0 THEN 0 ELSE a[i - 1] + more(i, a[i - 1])]
    <3>1. h = [i \in 0..n |-> h[i]]
      OBVIOUS
    <3>2. a = h
      BY <1>10
    <3> HIDE DEF h
    <3> QED BY <3>1, <3>2
  <2> QED BY <2>1, <1>12
<1> QED BY <1>11, <1>13 DEF a, more

\* A transaction as packed: some of the operations, in order, paid for by the account or by the sponsor.
Packed(tx, ops, i) ==
  /\ IsSeq(tx.ops) /\ Len(tx.ops) = Filled(ops, i) - Filled(ops, i - 1) /\ Len(tx.ops) \in Nat \ {0} /\ Len(tx.ops) <= OpLimit
  /\ \A j \in 1..Len(tx.ops) : /\ Filled(ops, i - 1) + j \in 1..Len(ops) /\ tx.ops[j] = ops[Filled(ops, i - 1) + j]
                               /\ tx.ops[j] \in ToSet(ops)
  /\ tx.fee \in Nat /\ tx.fee <= Len(tx.ops)

\* An account that can pay for all the operations has them packed, and pays no more than one fee for each.
LEMMA PackShape ==
  ASSUME NEW s, NEW w, NEW ops, IsSeq(ops), Spare(s.account) \in Int
  PROVE  LET pack == Pack(s, w, ops) IN
         /\ Spare(s.account) >= Len(ops) => pack.code = ""
         /\ pack.code = "" =>
              /\ IsSeq(pack.txs) /\ Len(pack.txs) = CeilDiv(Len(ops), OpLimit)
              /\ \A i \in 1..Len(pack.txs) : Packed(pack.txs[i], ops, i)
<1> DEFINE chunk == Chunks(ops)
           n == CeilDiv(Len(ops), OpLimit)
           m == Spare(s.account)
           spent == CHOOSE a : Spending(a, m, chunk)
           needs(i) == spent[i] = spent[i - 1]
           tx(i) == [ops |-> chunk[i], fee |-> IF needs(i) THEN 0 ELSE Len(chunk[i]),
                     sponsored |-> needs(i), seq |-> s.account.seq + i - 1,
                     until |-> w.now + Timeout, memo |-> "none"]
           txs == [i \in DOMAIN chunk |-> tx(i)]
           short == \E i \in DOMAIN chunk : needs(i) /\ ~(SponsorConfigured /\ Sponsorable(chunk[i]))
<1>1. Pack(s, w, ops) = IF short THEN Refuse("close_fee_balance_short") ELSE Batch(txs, FALSE)
  BY Zenon DEF Pack, Spending
<1>2. n \in Nat /\ Len(ops) \in Nat
  BY SeqIs, FilledIs
<1>3. DOMAIN chunk = 1..n /\ Len(chunk) = n
  <2>1. DOMAIN chunk = 1..n
    BY DEF Chunks
  <2> HIDE DEF chunk
  <2> QED BY <1>2, <2>1
<1>4. \A i \in 1..n : /\ IsSeq(chunk[i]) /\ Len(chunk[i]) = Filled(ops, i) - Filled(ops, i - 1)
                      /\ Len(chunk[i]) \in Nat \ {0} /\ Len(chunk[i]) <= OpLimit
                      /\ \A j \in 1..Len(chunk[i]) :
                           /\ Filled(ops, i - 1) + j \in 1..Len(ops) /\ chunk[i][j] = ops[Filled(ops, i - 1) + j]
                           /\ chunk[i][j] \in ToSet(ops)
  BY ChunkIs
<1>5. \A i \in 0..n : Filled(ops, i) \in Nat /\ Filled(ops, i) <= Len(ops)
  BY FilledIs
<1>5a. Filled(ops, 0) = 0
  BY FilledIs
<1>6. \A i \in 1..n : tx(i).ops = chunk[i] /\ tx(i).fee = IF needs(i) THEN 0 ELSE Len(chunk[i])
  OBVIOUS
<1> HIDE DEF chunk, n
<1>7. m \in Int /\ Len(chunk) \in Nat /\ \A i \in 1..Len(chunk) : Len(chunk[i]) \in Nat
  BY <1>2, <1>3, <1>4
<1> HIDE DEF m
<1>8. /\ spent \in [0..n -> Nat] /\ spent[0] = 0
      /\ \A i \in 1..n : spent[i] = spent[i - 1] + (IF m - spent[i - 1] >= Len(chunk[i]) THEN Len(chunk[i]) ELSE 0)
  BY <1>7, <1>3, SpendingIs
<1> HIDE DEF spent, tx
<1>9. \A i \in 0..n : spent[i] <= Filled(ops, i)
  <2> DEFINE bad == {i \in 0..n : ~(spent[i] <= Filled(ops, i))}
  <2> SUFFICES ASSUME bad # {} PROVE FALSE
    OBVIOUS
  <2>0. bad \subseteq Nat
    OBVIOUS
  <2>1. PICK q \in bad : \A j \in bad : q <= j
    <3> HIDE DEF bad
    <3> QED BY <2>0, Least
  <2>2. q # 0 /\ q \in 1..n /\ q \in 0..n
    BY <1>2, <1>5a, <1>8, <2>1
  <2>3. q - 1 \in 0..n /\ q - 1 \notin bad
    BY <1>2, <2>1, <2>2
  <2> DEFINE x == spent[q - 1]
             y == spent[q]
             u == Filled(ops, q - 1)
             v == Filled(ops, q)
             l == Len(chunk[q])
  <2>4. x \in Nat /\ x <= u /\ u \in Nat /\ v \in Nat /\ l = v - u /\ l \in Nat
    BY <1>4, <1>5, <1>8, <2>2, <2>3
  <2>5. y = x \/ y = x + l
    <3>1. y = x + (IF m - x >= l THEN l ELSE 0)
      BY <1>8, <2>2
    <3> HIDE DEF x, y, l
    <3> QED BY <3>1, <2>4
  <2>6. ~(y <= v)
    BY <2>1
  <2> HIDE DEF x, y, u, v, l
  <2> QED BY <2>4, <2>5, <2>6
<1>10. ASSUME m >= Len(ops) PROVE ~short
  <2> SUFFICES ASSUME NEW i \in 1..n, needs(i) PROVE FALSE
    BY <1>3
  <2>1. i - 1 \in 0..n /\ i \in 0..n
    BY <1>2
  <2> DEFINE x == spent[i - 1]
             u == Filled(ops, i - 1)
             v == Filled(ops, i)
             l == Len(chunk[i])
  <2>2. x \in Nat /\ x <= u /\ u \in Nat /\ v \in Nat /\ v <= Len(ops) /\ l = v - u /\ l \in Nat \ {0}
    BY <1>4, <1>5, <1>8, <1>9, <2>1
  <2>3. spent[i] = x + (IF m - x >= l THEN l ELSE 0) /\ spent[i] = x
    BY <1>8
  <2> HIDE DEF x, u, v, l
  <2>4. m - x >= l
    BY <1>2, <1>7, <1>10, <2>2
  <2> QED BY <2>2, <2>3, <2>4
<1>11. txs = [i \in 1..n |-> tx(i)]
  BY <1>3
<1>12. IsSeq(txs) /\ Len(txs) = n /\ \A i \in 1..n : txs[i] = tx(i)
  <2> DEFINE S == {tx(i) : i \in 1..n}
  <2>1. txs \in [1..n -> S]
    BY <1>11
  <2> HIDE DEF txs
  <2>2. txs \in Seq(S)
    BY <1>2, <2>1, SeqDef
  <2>3. IsSeq(txs)
    BY <2>2, InSeq
  <2>4. Len(txs) = n
    BY <1>2, <1>11, <2>2
  <2> QED BY <1>11, <2>3, <2>4 DEF txs
<1> HIDE DEF txs, short, needs
<1>13. CASE short
  <2>1. Pack(s, w, ops) = Refuse("close_fee_balance_short")
    BY <1>1, <1>13
  <2>2. Pack(s, w, ops).code = "close_fee_balance_short" /\ "close_fee_balance_short" # ""
    BY <2>1, RefuseIs
  <2> QED BY <2>2, <1>10, <1>13 DEF m
<1>14. CASE ~short
  <2>1. Pack(s, w, ops) = Batch(txs, FALSE)
    BY <1>1, <1>14
  <2>2. Pack(s, w, ops).txs = txs /\ Pack(s, w, ops).code = ""
    <3>1. Batch(txs, FALSE).txs = txs /\ Batch(txs, FALSE).code = ""
      BY BatchIs, Zenon
    <3> QED BY <2>1, <3>1, Zenon
  <2>3. ASSUME NEW i \in 1..n PROVE Packed(txs[i], ops, i)
    <3>1. txs[i].ops = chunk[i] /\ txs[i].fee \in {0, Len(chunk[i])}
      BY <1>6, <1>12
    <3>2. Len(chunk[i]) \in Nat
      BY <1>4
    <3>3. txs[i].fee \in Nat /\ txs[i].fee <= Len(chunk[i])
      BY <3>1, <3>2
    <3> QED BY <1>4, <3>1, <3>3 DEF Packed
  <2> QED BY <1>12, <2>2, <2>3 DEF n
<1> QED BY <1>13, <1>14

\* What a packed round costs, and that what it converts brings in something.
LEMMA PackCosts ==
  ASSUME NEW ops, IsSeq(ops), NEW txs, IsSeq(txs), Len(txs) = CeilDiv(Len(ops), OpLimit),
         \A i \in 1..Len(txs) : Packed(txs[i], ops, i), \A i \in 1..Len(ops) : ops[i].min \in Nat
  PROVE  Fees(txs) \in Nat /\ Fees(txs) <= Len(ops) /\ ConversionFloor(txs) \in Nat
<1> DEFINE n == Len(txs)
           f == [i \in DOMAIN txs |-> txs[i].fee]
           mins(i) == [j \in DOMAIN txs[i].ops |-> txs[i].ops[j].min]
           g == [i \in DOMAIN txs |-> Sum(mins(i))]
           p == [i \in 0..n |-> Filled(ops, i)]
<1>1. n \in Nat /\ DOMAIN txs = 1..n /\ n = CeilDiv(Len(ops), OpLimit)
  BY SeqIs
<1>1a. \A h : h \in [1..n -> Nat] => IsSeq(h) /\ Len(h) = n
  <2> SUFFICES ASSUME NEW h \in [1..n -> Nat] PROVE IsSeq(h) /\ Len(h) = n
    OBVIOUS
  <2>1. h \in Seq(Nat)
    BY <1>1, SeqDef
  <2> HIDE DEF n
  <2>2. Len(h) = n
    BY <1>1, <2>1
  <2> QED BY <2>1, <2>2, InSeq
<1>2. \A i \in 1..n : /\ txs[i].fee \in Nat /\ txs[i].fee <= Filled(ops, i) - Filled(ops, i - 1)
                      /\ IsSeq(txs[i].ops) /\ \A j \in 1..Len(txs[i].ops) : txs[i].ops[j].min \in Nat
  BY <1>1 DEF Packed
<1>3. f \in [1..n -> Nat]
  BY <1>1, <1>2
<1>4. IsSeq(f) /\ Len(f) = n /\ \A i \in 1..n : f[i] = txs[i].fee /\ f[i] \in Nat
  <2>1. \A i \in 1..n : f[i] = txs[i].fee /\ f[i] \in Nat
    BY <1>1, <1>2
  <2> HIDE DEF f, n
  <2> QED BY <1>1a, <1>3, <2>1
<1>5. p \in [0..n -> Nat] /\ (\A i \in 0..n : p[i] = Filled(ops, i)) /\ p[n] = Len(ops)
  <2>1. \A i \in 0..n : Filled(ops, i) \in Nat
    BY <1>1, FilledIs
  <2>2. Filled(ops, n) = Len(ops) /\ n \in 0..n
    BY <1>1, FilledIs
  <2> QED BY <2>1, <2>2
<1>6. \A i \in 1..n : f[i] <= p[i] - p[i - 1]
  <2> SUFFICES ASSUME NEW i \in 1..n PROVE f[i] <= p[i] - p[i - 1]
    OBVIOUS
  <2>1. i \in 0..n /\ i - 1 \in 0..n
    BY <1>1
  <2> HIDE DEF f, p, n
  <2> QED BY <2>1, <1>2, <1>4, <1>5
<1> HIDE DEF p, f
<1>7. Sum(f) \in Nat /\ Sum(f) <= Len(ops)
  <2>1. Sum(f) \in Nat /\ Sum(f) <= p[n]
    BY <1>4, <1>5, <1>6, SumIs
  <2> QED BY <2>1, <1>5
<1>8. \A i \in 1..n : Sum(mins(i)) \in Nat
  <2> SUFFICES ASSUME NEW i \in 1..n PROVE Sum(mins(i)) \in Nat
    OBVIOUS
  <2> DEFINE h == mins(i)
             l == Len(txs[i].ops)
  <2>1. l \in Nat /\ DOMAIN txs[i].ops = 1..l
    BY <1>2, SeqIs
  <2>2. h \in [1..l -> Nat] /\ \A j \in 1..l : h[j] \in Nat
    BY <1>2, <2>1
  <2> HIDE DEF h, l
  <2>3. h \in Seq(Nat)
    BY <2>1, <2>2, SeqDef
  <2>4. IsSeq(h) /\ Len(h) = l
    BY <2>1, <2>2, <2>3, InSeq
  <2>5. Sum(h) \in Nat
    BY <2>2, <2>4, SumIs
  <2> QED BY <2>5 DEF h
<1> HIDE DEF mins
<1>9. g \in [1..n -> Nat] /\ \A i \in 1..n : g[i] \in Nat
  BY <1>1, <1>8
<1> HIDE DEF g
<1>10. Sum(g) \in Nat
  <2>1. IsSeq(g) /\ Len(g) = n
    BY <1>1a, <1>9
  <2> QED BY <2>1, <1>9, SumIs
<1> QED BY <1>7, <1>10 DEF Fees, ConversionFloor, f, g, mins
-----------------------------------------------------------------------------
(* The claim round, as it is built. *)

\* One sequence after another, by place.
LEMMA ConcatAt ==
  ASSUME NEW s, NEW t, IsSeq(s), IsSeq(t)
  PROVE  /\ IsSeq(s \o t) /\ Len(s) \in Nat /\ Len(t) \in Nat /\ Len(s \o t) = Len(s) + Len(t)
         /\ \A i \in 1..Len(s) : (s \o t)[i] = s[i]
         /\ \A i \in 1..Len(t) : (s \o t)[Len(s) + i] = t[i]
<1> DEFINE S == ToSet(s) \cup ToSet(t)
<1>1. s \in Seq(S) /\ t \in Seq(S)
  <2>1. \A Q, R : Q \subseteq R => \A q \in Seq(Q) : q \in Seq(R)
    OBVIOUS
  <2> QED BY <2>1 DEF IsSeq
<1> HIDE DEF S
<1>2. /\ s \o t \in Seq(S) /\ Len(s \o t) = Len(s) + Len(t)
      /\ \A i \in 1..Len(s) + Len(t) : (s \o t)[i] = IF i <= Len(s) THEN s[i] ELSE t[i - Len(s)]
  BY <1>1, ConcatProperties
<1>3. Len(s) \in Nat /\ Len(t) \in Nat /\ IsSeq(s \o t)
  BY <1>2, SeqIs, ConcatIs
<1>4. ASSUME NEW i \in 1..Len(s) PROVE (s \o t)[i] = s[i]
  <2>1. i \in 1..Len(s) + Len(t) /\ i <= Len(s)
    BY <1>3
  <2> QED BY <1>2, <2>1
<1>5. ASSUME NEW i \in 1..Len(t) PROVE (s \o t)[Len(s) + i] = t[i]
  <2>1. Len(s) + i \in 1..Len(s) + Len(t) /\ ~(Len(s) + i <= Len(s)) /\ (Len(s) + i) - Len(s) = i
    BY <1>3
  <2> QED BY <1>2, <2>1
<1> QED BY <1>2, <1>3, <1>4, <1>5

LEMMA EachAt ==
  ASSUME NEW name, NEW whats, IsSeq(whats)
  PROVE  /\ IsSeq(Each(name, whats)) /\ Len(Each(name, whats)) = Len(whats)
         /\ \A i \in 1..Len(whats) : Each(name, whats)[i] = Op(name, whats[i])
<1>1. Len(whats) \in Nat /\ DOMAIN whats = 1..Len(whats)
  BY SeqIs
<1> DEFINE n == Len(whats)
           each == [i \in 1..n |-> Op(name, whats[i])]
<1>2. Each(name, whats) = each
  BY <1>1 DEF Each
<1> HIDE DEF Op
<1>3. DOMAIN each = 1..n /\ \A i \in 1..n : each[i] = Op(name, whats[i])
  OBVIOUS
<1>4. IsSeq(each)
  BY <1>2, EachIs
<1> HIDE DEF each
<1>5. Len(each) = n
  BY <1>1, <1>3, <1>4, SeqIs
<1> QED BY <1>2, <1>3, <1>4, <1>5

\* A stretch of a list without repetitions has none.
LEMMA StretchIs ==
  ASSUME NEW s, IsSeq(s), IsInjective(s), NEW m \in Nat \ {0}, NEW n \in Int, n <= Len(s)
  PROVE  IsSeq(SubSeq(s, m, n)) /\ IsInjective(SubSeq(s, m, n))
<1> DEFINE p == SubSeq(s, m, n)
<1>1. Len(s) \in Nat /\ ToSet(s) = {s[i] : i \in 1..Len(s)} /\ DOMAIN s = 1..Len(s)
  BY SeqIs
<1>2. \A i \in m..n : s[i] \in ToSet(s)
  BY <1>1
<1>3. /\ p \in Seq(ToSet(s)) /\ Len(p) = IF m <= n THEN n - m + 1 ELSE 0
      /\ \A i \in 1..n - m + 1 : p[i] = s[m + i - 1]
  BY <1>2, SubSeqProperties
<1> HIDE DEF p
<1>4. IsSeq(p) /\ DOMAIN p = 1..Len(p)
  BY <1>3, InSeq, SeqIs
<1>5. ASSUME NEW i \in DOMAIN p, NEW j \in DOMAIN p, p[i] = p[j] PROVE i = j
  <2>1. i \in 1..n - m + 1 /\ j \in 1..n - m + 1
    BY <1>3, <1>4
  <2>2. m + i - 1 \in 1..Len(s) /\ m + j - 1 \in 1..Len(s)
    BY <1>1, <2>1
  <2>2a. s[m + i - 1] = s[m + j - 1]
    BY <1>3, <1>5, <2>1
  <2>3. m + i - 1 = m + j - 1
    BY <1>1, <2>2, <2>2a DEF IsInjective
  <2> QED BY <2>1, <2>3
<1>6. IsInjective(p)
  BY <1>5 DEF IsInjective
<1> QED BY <1>4, <1>6 DEF p

\* The next batch is of claims that exist, each once.
LEMMA BatchCounts ==
  ASSUME NEW claims, IsSeq(claims), IsInjective(claims), NEW w
  PROVE  LET batch == FirstExistingBatch(claims, w) IN
         IsSeq(batch) /\ IsInjective(batch) /\ ToSet(batch) \subseteq ToSet(claims) \cap w.acct.claims
<1> DEFINE n == CeilDiv(Len(claims), ClaimBatch)
           part(i) == SubSeq(claims, (i - 1) * ClaimBatch + 1, Min({i * ClaimBatch, Len(claims)}))
           batches == [i \in 1..n |-> InOrder(part(i), w.acct.claims)]
           left == {i \in DOMAIN batches : batches[i] # <<>>}
<1>1. FirstExistingBatch(claims, w) = IF left = {} THEN <<>> ELSE batches[Min(left)]
  BY Zenon DEF FirstExistingBatch
<1>2. Len(claims) \in Nat /\ ClaimBatch \in Nat \ {0} /\ n \in Nat
  BY SeqIs, CeilDivIs, LimitsAssumption
<1>3. ASSUME NEW i \in 1..n PROVE IsSeq(part(i)) /\ IsInjective(part(i)) /\ ToSet(part(i)) \subseteq ToSet(claims)
  <2> DEFINE first == (i - 1) * ClaimBatch + 1
             last == Min({i * ClaimBatch, Len(claims)})
  <2>1. first \in Nat \ {0}
    <3>1. i - 1 \in Nat /\ ClaimBatch \in Nat
      BY <1>2
    <3>2. \A a, b \in Nat : a * b + 1 \in Nat \ {0}
      OBVIOUS
    <3> QED BY <3>1, <3>2
  <2>2. last \in Int /\ last <= Len(claims)
    <3>1. i * ClaimBatch \in Int /\ Len(claims) \in Int
      BY <1>2
    <3> QED BY <3>1, MinIs
  <2> HIDE DEF first, last
  <2>3. /\ IsSeq(SubSeq(claims, first, last)) /\ IsInjective(SubSeq(claims, first, last))
        /\ ToSet(SubSeq(claims, first, last)) \subseteq ToSet(claims)
    BY <2>1, <2>2, PartIs, StretchIs
  <2>4. part(i) = SubSeq(claims, first, last)
    BY DEF first, last
  <2> HIDE DEF part
  <2> QED BY <2>3, <2>4
<1> HIDE DEF part
<1>4. \A i \in 1..n : IsSeq(batches[i]) /\ ToSet(batches[i]) = ToSet(part(i)) \cap w.acct.claims /\ IsInjective(batches[i])
  BY <1>3, KeptIs, KeptIsCounted
<1>5. DOMAIN batches = 1..n
  OBVIOUS
<1> HIDE DEF batches, n
<1>6. CASE left = {}
  <2>1. FirstExistingBatch(claims, w) = <<>>
    BY <1>1, <1>6
  <2>2. IsInjective(<<>>)
    BY DEF IsInjective
  <2> QED BY <2>1, <2>2, EmptyIs
<1>7. CASE left # {}
  <2>1. left \subseteq Nat
    BY <1>2, <1>5
  <2>2. Min(left) \in left
    <3> HIDE DEF left
    <3>1. PICK m \in left : \A k \in left : m <= k
      BY <1>7, <2>1, Least
    <3> QED BY <3>1 DEF Min
  <2> DEFINE b == batches[Min(left)]
  <2>3. FirstExistingBatch(claims, w) = b
    BY <1>1, <1>7
  <2>4. IsSeq(b) /\ IsInjective(b) /\ ToSet(b) \subseteq ToSet(claims) \cap w.acct.claims
    BY <1>3, <1>4, <1>5, <2>2
  <2> HIDE DEF b
  <2> QED BY <2>3, <2>4
<1> QED BY <1>6, <1>7

\* The transactions of a claim round: they open lines, then claim; whatever opens a line starts with that.
ClaimOps(tx, w, ans) ==
  /\ IsSeq(tx.ops) /\ Len(tx.ops) \in Nat \ {0} /\ tx.fee \in Nat /\ tx.fee <= Len(tx.ops)
  /\ \A j \in 1..Len(tx.ops) : /\ ClaimStep(tx.ops[j], ans)
                               /\ tx.ops[j].op = "addLine" => tx.ops[j].what \in Openable(w.acct, ans)
Opens(tx) == \E j \in 1..Len(tx.ops) : tx.ops[j].op = "addLine"
ClaimTxs(txs, w, ans) ==
  /\ IsSeq(txs) /\ \A i \in 1..Len(txs) : ClaimOps(txs[i], w, ans)
  /\ \A i \in 1..Len(txs) : Opens(txs[i]) => txs[1].ops[1].op = "addLine"

LEMMA OpIs == ASSUME NEW name, NEW x PROVE Op(name, x).op = name /\ Op(name, x).what = x /\ Op(name, x).by = "account"
BY DEF Op

\* What such a round asks for, operation by operation.
LEMMA ClaimOpsAre ==
  ASSUME NEW lines, IsSeq(lines), NEW batch, IsSeq(batch)
  PROVE  LET ops == Each("addLine", lines) \o Each("claim", batch) IN
         /\ IsSeq(ops) /\ Len(ops) = Len(lines) + Len(batch) /\ Len(lines) \in Nat /\ Len(batch) \in Nat
         /\ \A j \in 1..Len(ops) : \/ \E x \in ToSet(lines) : ops[j] = Op("addLine", x)
                                   \/ \E x \in ToSet(batch) : ops[j] = Op("claim", x)
         /\ lines # <<>> => 1 \in 1..Len(ops) /\ ops[1].op = "addLine"
<1> DEFINE e == Each("addLine", lines)
           c == Each("claim", batch)
           ops == e \o c
<1>1. /\ IsSeq(e) /\ Len(e) = Len(lines) /\ \A i \in 1..Len(lines) : e[i] = Op("addLine", lines[i])
      /\ IsSeq(c) /\ Len(c) = Len(batch)
  BY EachAt
<1>2. ToSet(e) = {Op("addLine", x) : x \in ToSet(lines)} /\ ToSet(c) = {Op("claim", x) : x \in ToSet(batch)}
  BY EachIs
<1> HIDE DEF e, c
<1>3. /\ IsSeq(ops) /\ Len(e) \in Nat /\ Len(c) \in Nat /\ Len(ops) = Len(e) + Len(c)
      /\ \A i \in 1..Len(e) : ops[i] = e[i]
  BY <1>1, ConcatAt
<1>4. ToSet(ops) = ToSet(e) \cup ToSet(c)
  BY <1>1, ConcatIs
<1> HIDE DEF ops
<1>5. \A j \in 1..Len(ops) : ops[j] \in ToSet(ops)
  BY <1>3, SeqIs
<1>6. ASSUME lines # <<>> PROVE 1 \in 1..Len(ops) /\ ops[1].op = "addLine"
  <2>1. Len(lines) # 0
    <3>1. ToSet(lines) # {}
      BY <1>6, EmptySetIsEmptySeq
    <3>2. ToSet(lines) = {lines[i] : i \in 1..Len(lines)}
      BY SeqIs
    <3> QED BY <3>1, <3>2
  <2>2. 1 \in 1..Len(e) /\ 1 \in 1..Len(lines) /\ 1 \in 1..Len(ops)
    BY <1>1, <1>3, <2>1
  <2>3. ops[1] = Op("addLine", lines[1])
    BY <1>1, <1>3, <2>2
  <2> QED BY <2>2, <2>3, OpIs
<1>7. \A j \in 1..Len(ops) : \/ \E x \in ToSet(lines) : ops[j] = Op("addLine", x)
                             \/ \E x \in ToSet(batch) : ops[j] = Op("claim", x)
  <2> SUFFICES ASSUME NEW j \in 1..Len(ops)
               PROVE  \/ \E x \in ToSet(lines) : ops[j] = Op("addLine", x)
                      \/ \E x \in ToSet(batch) : ops[j] = Op("claim", x)
    OBVIOUS
  <2>1. ops[j] \in ToSet(e) \/ ops[j] \in ToSet(c)
    BY <1>4, <1>5
  <2>2. ASSUME ops[j] \in ToSet(e) PROVE \E x \in ToSet(lines) : ops[j] = Op("addLine", x)
    <3>1. ops[j] \in {Op("addLine", x) : x \in ToSet(lines)}
      BY <1>2, <2>2
    <3> QED BY <3>1
  <2>3. ASSUME ops[j] \in ToSet(c) PROVE \E x \in ToSet(batch) : ops[j] = Op("claim", x)
    <3>1. ops[j] \in {Op("claim", x) : x \in ToSet(batch)}
      BY <1>2, <2>3
    <3> QED BY <3>1
  <2> QED BY <2>1, <2>2, <2>3
<1>8. Len(ops) = Len(lines) + Len(batch) /\ Len(lines) \in Nat /\ Len(batch) \in Nat
  BY <1>1, <1>3
<1> QED BY Zenon, <1>3, <1>6, <1>7, <1>8 DEF ops, e, c

\* What is packed of them.
LEMMA ClaimsPacked ==
  ASSUME NEW w, NEW ans, NEW lines, IsSeq(lines), NEW batch, IsSeq(batch), NEW txs, IsSeq(txs),
         \A i \in 1..Len(txs) : Packed(txs[i], Each("addLine", lines) \o Each("claim", batch), i),
         \A a \in ToSet(lines) : a \in AssetSet /\ a \in Openable(w.acct, ans),
         \A c \in ToSet(batch) : ans.claim[c] # "forfeit"
  PROVE  ClaimTxs(txs, w, ans)
<1> DEFINE ops == Each("addLine", lines) \o Each("claim", batch)
<1>1. /\ IsSeq(ops) /\ Len(ops) = Len(lines) + Len(batch) /\ Len(lines) \in Nat /\ Len(batch) \in Nat
      /\ \A j \in 1..Len(ops) : \/ \E x \in ToSet(lines) : ops[j] = Op("addLine", x)
                                \/ \E x \in ToSet(batch) : ops[j] = Op("claim", x)
      /\ lines # <<>> => 1 \in 1..Len(ops) /\ ops[1].op = "addLine"
  BY ClaimOpsAre
<1> HIDE DEF ops
<1>2. \A i \in 1..Len(txs) : Packed(txs[i], ops, i)
  BY DEF ops
<1>3. \A j \in 1..Len(ops) : /\ ClaimStep(ops[j], ans)
                             /\ ops[j].op = "addLine" => ops[j].what \in Openable(w.acct, ans) /\ lines # <<>>
  <2> SUFFICES ASSUME NEW j \in 1..Len(ops)
               PROVE  /\ ClaimStep(ops[j], ans)
                      /\ ops[j].op = "addLine" => ops[j].what \in Openable(w.acct, ans) /\ lines # <<>>
    OBVIOUS
  <2>1. CASE \E x \in ToSet(lines) : ops[j] = Op("addLine", x)
    <3>1. PICK x \in ToSet(lines) : ops[j] = Op("addLine", x)
      BY <2>1
    <3>2. ops[j].op = "addLine" /\ ops[j].what = x /\ ops[j].by = "account"
      BY <3>1, OpIs
    <3>3. lines # <<>>
      BY EmptyIs
    <3> QED BY <3>2, <3>3 DEF ClaimStep
  <2>2. CASE \E x \in ToSet(batch) : ops[j] = Op("claim", x)
    <3>1. PICK x \in ToSet(batch) : ops[j] = Op("claim", x)
      BY <2>2
    <3>2. ops[j].op = "claim" /\ ops[j].what = x /\ ops[j].by = "account"
      BY <3>1, OpIs
    <3> QED BY <3>2 DEF ClaimStep
  <2> QED BY <1>1, <2>1, <2>2
<1>4. \A i \in 1..Len(txs) : /\ IsSeq(txs[i].ops) /\ txs[i].fee \in Nat /\ txs[i].fee <= Len(txs[i].ops)
                             /\ Len(txs[i].ops) \in Nat \ {0}
                             /\ \A j \in 1..Len(txs[i].ops) : /\ Filled(ops, i - 1) + j \in 1..Len(ops)
                                                              /\ txs[i].ops[j] = ops[Filled(ops, i - 1) + j]
  BY <1>2 DEF Packed
<1>5. \A i \in 1..Len(txs) : ClaimOps(txs[i], w, ans)
  BY ZenonT(60), <1>3, <1>4 DEF ClaimOps
<1>6. ASSUME NEW i \in 1..Len(txs), Opens(txs[i]) PROVE txs[1].ops[1].op = "addLine"
  <2>1. PICK j \in 1..Len(txs[i].ops) : txs[i].ops[j].op = "addLine"
    BY <1>6 DEF Opens
  <2>2. lines # <<>>
    BY <1>3, <1>4, <2>1
  <2>3. 1 \in 1..Len(txs)
    BY SeqIs
  <2>4. 1 \in 1..Len(txs[1].ops)
    BY <1>4, <2>3
  <2>5. txs[1].ops[1] = ops[Filled(ops, 1 - 1) + 1]
    BY <1>4, <2>3, <2>4
  <2>6. Filled(ops, 0) = 0
    BY <1>1, FilledIs
  <2>7. txs[1].ops[1] = ops[1]
    BY <2>5, <2>6
  <2> QED BY <1>1, <2>2, <2>7
<1> QED BY <1>5, <1>6 DEF ClaimTxs

\* The next batch and the lines it opens are of claims that are not given up.
LEMMA BatchIsPending ==
  ASSUME NEW w, Whole(w), NEW t, NEW ans
  PROVE  LET k == Reading(w).account
             due == InOrder(Claims, Due(k, ans.claim, t))
             batch == FirstExistingBatch(due, w)
             lines == InOrder(Assets, {ClaimAsset[c] : c \in {d \in ToSet(batch) : ClaimStatus(k, d, t) = "needs_trustline"}}) IN
         /\ IsSeq(batch) /\ ToSet(batch) \subseteq Pending(w.acct, ans) /\ Len(batch) <= Cardinality(Pending(w.acct, ans))
         /\ IsSeq(lines) /\ ToSet(lines) \subseteq AssetSet /\ ToSet(lines) \subseteq Openable(w.acct, ans)
         /\ \A c \in ToSet(batch) : ans.claim[c] # "forfeit"
<1> DEFINE k == Reading(w).account
           due == InOrder(Claims, Due(k, ans.claim, t))
           batch == FirstExistingBatch(due, w)
           opened == {ClaimAsset[c] : c \in {d \in ToSet(batch) : ClaimStatus(k, d, t) = "needs_trustline"}}
           lines == InOrder(Assets, opened)
<1>1. IsSeq(Claims) /\ IsInjective(Claims) /\ IsSeq(Assets)
  BY ListsAre
<1>2. IsSeq(due) /\ IsInjective(due) /\ ToSet(due) = ToSet(Claims) \cap Due(k, ans.claim, t)
  BY <1>1, KeptIs, KeptIsCounted
<1>3. IsSeq(batch) /\ IsInjective(batch) /\ ToSet(batch) \subseteq ToSet(due) \cap w.acct.claims
  <2> HIDE DEF due
  <2> QED BY <1>2, BatchCounts
<1> HIDE DEF due
<1>4. \A c \in ToSet(batch) : /\ ans.claim[c] # "forfeit" /\ c \in w.acct.claims
                              /\ ClaimStatus(k, c, t) = "needs_trustline" => ans.claim[c] = "add"
  <2> HIDE DEF batch, k
  <2>1. \A c \in ToSet(batch) : c \in w.acct.claims /\ c \in Due(k, ans.claim, t)
    BY <1>2, <1>3
  <2>2. \A c \in Due(k, ans.claim, t) : /\ ans.claim[c] # "forfeit"
                                        /\ ClaimStatus(k, c, t) = "needs_trustline" => ans.claim[c] = "add"
    <3>1. "claimable" # "needs_trustline" /\ "add" # "forfeit"
      OBVIOUS
    <3> QED BY <3>1, Zenon DEF Due
  <2> QED BY <2>1, <2>2
<1> HIDE DEF batch
<1>5. ToSet(batch) \subseteq Pending(w.acct, ans)
  BY <1>4 DEF Pending
<1>6. Len(batch) <= Cardinality(Pending(w.acct, ans))
  <2>1. IsFiniteSet(Pending(w.acct, ans))
    BY PartsAreFinite DEF Whole
  <2>2. Cardinality(ToSet(batch)) <= Cardinality(Pending(w.acct, ans))
    BY <1>5, <2>1, PartCounts
  <2> QED BY <1>3, <2>2, ListIsCounted
<1>7. IsSeq(lines) /\ ToSet(lines) = ToSet(Assets) \cap opened
  <2> HIDE DEF opened
  <2> QED BY <1>1, KeptIs
<1>8. \A a \in AssetSet \cap opened : a \in Openable(w.acct, ans)
  <2> SUFFICES ASSUME NEW a \in AssetSet, a \in opened PROVE a \in Openable(w.acct, ans)
    OBVIOUS
  <2>1. PICK c \in ToSet(batch) : ClaimStatus(k, c, t) = "needs_trustline" /\ a = ClaimAsset[c]
    OBVIOUS
  <2>2. c \in Pending(w.acct, ans) /\ ans.claim[c] = "add"
    BY <1>4, <1>5, <2>1
  <2> QED BY <2>1, <2>2 DEF Openable, Openings
<1> HIDE DEF opened
<1> QED BY <1>3, <1>4, <1>5, <1>6, <1>7, <1>8 DEF batch, due, lines, opened, AssetSet

\* A claim round that is not short.
LEMMA ClaimPack ==
  ASSUME NEW w, Whole(w), NEW ans, NEW p, SorobanRounds(w.acct, ans) = 0, NEW s, Spare(s.account) = Spare(w.acct),
         NEW lines, IsSeq(lines), NEW batch, IsSeq(batch), Len(batch) <= Cardinality(Pending(w.acct, ans)),
         lines # <<>> => ~(TrustlineShortfall(s.account, Len(lines), Len(batch)) > 0),
         \A a \in ToSet(lines) : a \in AssetSet /\ a \in Openable(w.acct, ans),
         \A c \in ToSet(batch) : ans.claim[c] # "forfeit"
  PROVE  LET pack == Pack(s, w, Each("addLine", lines) \o Each("claim", batch)) IN
         /\ pack.code # "" => Refused(pack, w, ans, p)
         /\ pack.code = "" => ClaimTxs(pack.txs, w, ans)
<1> DEFINE ops == Each("addLine", lines) \o Each("claim", batch)
           pack == Pack(s, w, ops)
<1>1. IsSeq(ops) /\ Len(ops) = Len(lines) + Len(batch) /\ Len(lines) \in Nat /\ Len(batch) \in Nat
  BY ClaimOpsAre
<1>2. Spare(w.acct) \in Int
  BY SpareIs DEF Whole
<1> DEFINE m == Spare(w.acct)
<1>3. ASSUME m >= Len(ops) \/ pack.code = "" PROVE pack.code = ""
                                                /\ IsSeq(pack.txs) /\ Len(pack.txs) = CeilDiv(Len(ops), OpLimit)
                                                /\ \A i \in 1..Len(pack.txs) : Packed(pack.txs[i], ops, i)
  <2> HIDE DEF ops
  <2> QED BY <1>1, <1>2, <1>3, PackShape
<1>4. ASSUME lines # <<>> PROVE m >= Len(ops)
  <2> DEFINE b == BaseReserve * Len(lines)
             n == Len(lines)
             c == Len(batch)
             d == b + c + n - m
  <2>1. b \in Nat
    BY <1>1, Times, ListingAssumption
  <2>2. ~(Max({0, d}) > 0)
    BY <1>4, Zenon DEF TrustlineShortfall
  <2>3. d \in Int
    <3> HIDE DEF b, n, c, m
    <3>1. n \in Nat /\ c \in Nat /\ m \in Int
      BY <1>1, <1>2 DEF n, c, m
    <3> QED BY <2>1, <3>1
  <2>4. d <= 0
    <3> HIDE DEF d
    <3> QED BY <2>2, <2>3, MaxIs
  <2>5. n \in Nat /\ c \in Nat /\ m \in Int /\ Len(ops) = n + c
    BY <1>1, <1>2
  <2> HIDE DEF b, n, c, m, ops
  <2> QED BY <2>1, <2>4, <2>5
<1>5. ASSUME pack.code # "" PROVE m < Closing(w, ans, p)
  <2>1. lines = <<>> /\ m < Len(ops)
    <3>1. ~(m >= Len(ops))
      BY <1>3, <1>5
    <3>2. Len(ops) \in Int /\ m \in Int
      BY <1>1, <1>2
    <3> HIDE DEF ops, m
    <3> QED BY <1>4, <3>1, <3>2
  <2>2. Len(lines) = 0
    BY <2>1, EmptyIs
  <2> DEFINE x == Cleanup(w, ans)
             y == Cardinality(Pending(w.acct, ans))
             f == MediatedFee(p)
             g == Direct(p)
  <2>3. x \in Nat /\ y \in Nat /\ f \in Nat /\ g \in Nat
    BY ClosingIs
  <2>4. Closing(w, ans, p) = x + y + g + f
    BY DEF Closing
  <2>5. Len(ops) <= y /\ Len(ops) \in Nat /\ m \in Int
    BY <1>1, <1>2, <2>2
  <2> HIDE DEF x, y, f, g, ops, m
  <2> QED BY <2>1, <2>3, <2>4, <2>5
<1>6. ASSUME pack.code # "" PROVE Refused(pack, w, ans, p)
  <2>1. Owed(w, ans, p) = Closing(w, ans, p)
    BY DEF Owed
  <2> HIDE DEF pack
  <2> QED BY <1>5, <1>6, <2>1 DEF Refused
<1>7. ASSUME pack.code = "" PROVE ClaimTxs(pack.txs, w, ans)
  <2>1. IsSeq(pack.txs) /\ \A i \in 1..Len(pack.txs) : Packed(pack.txs[i], ops, i)
    BY <1>3, <1>7
  <2> HIDE DEF pack
  <2> QED BY <2>1, ClaimsPacked
<1> QED BY <1>6, <1>7

LEMMA ClaimShape ==
  ASSUME NEW w, Whole(w), NEW t, NEW ans, NEW p, SorobanRounds(w.acct, ans) = 0
  PROVE  LET round == ClaimRound(Reading(w), w, t, ans) IN
         /\ Refused(round, w, ans, p) \/ (round.code = "" /\ round.again /\ ClaimTxs(round.txs, w, ans))
         /\ round = NoRound => Pending(w.acct, ans) = {}
<1> DEFINE s == Reading(w)
           k == s.account
           due == InOrder(Claims, Due(k, ans.claim, t))
           unaccounted == InOrder(Claims, {c \in k.claims \ ToSet(due) : ans.claim[c] # "forfeit"})
           batch == FirstExistingBatch(due, w)
           lines == InOrder(Assets, {ClaimAsset[c] : c \in {d \in ToSet(batch) : ClaimStatus(k, d, t) = "needs_trustline"}})
           ops == Each("addLine", lines) \o Each("claim", batch)
           pack == Pack(s, w, ops)
           round == ClaimRound(s, w, t, ans)
           codes == {"claimable_balance_not_claimable_now", "claimable_balance_reserve_short",
                     "claimable_balances_too_many", "transfer_destination_unusable"}
           none == k.claims = {} \/ (FirstExistingBatch(unaccounted, w) = <<>> /\ batch = <<>>)
           fits == /\ Refused(round, w, ans, p) \/ (round.code = "" /\ round.again /\ ClaimTxs(round.txs, w, ans))
                   /\ round = NoRound => Pending(w.acct, ans) = {}
           covered == lines # <<>> => ~(TrustlineShortfall(k, Len(lines), Len(batch)) > 0)
<1>1. \/ none /\ ~s.more /\ round = NoRound
      \/ \E code \in codes : round = Refuse(code)
      \/ covered /\ pack.code # "" /\ round = pack
      \/ covered /\ pack.code = "" /\ round = Batch(pack.txs, TRUE)
  BY Zenon DEF ClaimRound
<1>2. /\ IsSeq(batch) /\ Len(batch) <= Cardinality(Pending(w.acct, ans))
      /\ IsSeq(lines) /\ \A a \in ToSet(lines) : a \in AssetSet /\ a \in Openable(w.acct, ans)
      /\ \A c \in ToSet(batch) : ans.claim[c] # "forfeit"
  BY BatchIsPending
<1>3. Spare(k) = Spare(w.acct)
  BY SpareAsRead
<1>4. none /\ ~s.more => Pending(w.acct, ans) = {}
  <2> SUFFICES ASSUME none, ~s.more PROVE Pending(w.acct, ans) = {}
    OBVIOUS
  <2>1. k.claims = w.acct.claims /\ w.acct.claims \subseteq ToSet(Claims)
    BY ReadingShows DEF Whole, Sound
  <2>2. IsSeq(Claims)
    BY ListsAre
  <2>3. /\ IsSeq(due) /\ IsSeq(unaccounted)
        /\ ToSet(unaccounted) = ToSet(Claims) \cap {c \in k.claims \ ToSet(due) : ans.claim[c] # "forfeit"}
    BY <2>2, KeptIs
  <2> HIDE DEF due, unaccounted, k, s
  <2>4. /\ batch = <<>> => ToSet(due) \cap w.acct.claims = {}
        /\ FirstExistingBatch(unaccounted, w) = <<>> => ToSet(unaccounted) \cap w.acct.claims = {}
    BY <2>3, FirstBatchIs
  <2> HIDE DEF batch
  <2> QED BY <2>1, <2>3, <2>4 DEF Pending
<1>5. covered => /\ pack.code # "" => Refused(pack, w, ans, p)
                 /\ pack.code = "" => ClaimTxs(pack.txs, w, ans)
  <2> HIDE DEF lines, batch, s
  <2> SUFFICES ASSUME covered
               PROVE  /\ pack.code # "" => Refused(pack, w, ans, p)
                      /\ pack.code = "" => ClaimTxs(pack.txs, w, ans)
    OBVIOUS
  <2> QED BY <1>2, <1>3, ClaimPack
<1>6. IsSeq(ops)
  BY <1>2, ClaimOpsAre
<1>7. NoRound.code = "nothing to do" /\ "nothing to do" # "close_fee_balance_short" /\ "nothing to do" # ""
  BY RefuseIs
<1>8. pack.code \in {"", "close_fee_balance_short"}
  <2> HIDE DEF ops
  <2> QED BY <1>6, PackIs
<1> HIDE DEF pack, none, covered
<1>9. ASSUME none /\ ~s.more /\ round = NoRound PROVE fits
  <2> HIDE DEF round
  <2>1. Refused(round, w, ans, p)
    BY <1>9, NoRoundShape
  <2> QED BY <1>4, <1>9, <2>1
<1>10. ASSUME \E code \in codes : round = Refuse(code) PROVE fits
  <2> HIDE DEF round
  <2>1. PICK code \in codes : round = Refuse(code)
    BY <1>10
  <2>2. code # "" /\ code # "close_fee_balance_short" /\ code # "nothing to do"
    OBVIOUS
  <2>3. Refused(round, w, ans, p) /\ round.code # "nothing to do"
    BY <2>1, <2>2, RefusedFor, RefuseIs
  <2>4. round # NoRound
    BY <1>7, <2>3
  <2> QED BY <2>3, <2>4
<1>11. ASSUME covered /\ pack.code # "" /\ round = pack PROVE fits
  <2> HIDE DEF round
  <2> QED BY <1>5, <1>7, <1>8, <1>11
<1>12. ASSUME covered /\ pack.code = "" /\ round = Batch(pack.txs, TRUE) PROVE fits
  <2> HIDE DEF round
  <2>1. round.code = "" /\ round.again /\ round.txs = pack.txs
    BY ZenonT(60), <1>12, BatchIs
  <2> QED BY <1>5, <1>7, <1>12, <2>1
<1>13. fits
  <2> HIDE DEF fits, round
  <2> QED BY <1>1, <1>9, <1>10, <1>11, <1>12
<1> QED BY Zenon, <1>13 DEF round, s
-----------------------------------------------------------------------------
(* The close itself, as it is built. *)

\* An operation that takes one thing off the account.
Plain(k, o) == Exact(k, o) /\ o.op # "setThresholds" /\ o.min \in Nat

\* A list that begins like another and goes on with such operations.
Continues(ops, head, k) ==
  /\ IsSeq(ops) /\ Len(head) <= Len(ops) /\ \A j \in 1..Len(head) : ops[j] = head[j]
  /\ \A j \in 1..Len(ops) : j > Len(head) => Plain(k, ops[j])
PlainOnes(ops, k) == IsSeq(ops) /\ \A j \in 1..Len(ops) : Plain(k, ops[j])

LEMMA ContinuesOn ==
  ASSUME NEW head, IsSeq(head), NEW k, NEW ops, Continues(ops, head, k), NEW more, PlainOnes(more, k)
  PROVE  Continues(ops \o more, head, k) /\ Len(ops \o more) = Len(ops) + Len(more)
<1> DEFINE all == ops \o more
<1>1. /\ IsSeq(all) /\ Len(ops) \in Nat /\ Len(more) \in Nat /\ Len(all) = Len(ops) + Len(more) /\ Len(head) \in Nat
      /\ \A i \in 1..Len(ops) : all[i] = ops[i]
      /\ \A i \in 1..Len(more) : all[Len(ops) + i] = more[i]
  BY ConcatAt, SeqIs DEF Continues, PlainOnes
<1> HIDE DEF all
<1>2. /\ Len(head) <= Len(ops) /\ \A j \in 1..Len(head) : ops[j] = head[j]
      /\ \A j \in 1..Len(ops) : j > Len(head) => Plain(k, ops[j])
      /\ \A j \in 1..Len(more) : Plain(k, more[j])
  BY DEF Continues, PlainOnes
<1>3. \A j \in 1..Len(head) : all[j] = head[j]
  BY <1>1, <1>2
<1>4. ASSUME NEW j \in 1..Len(all), j > Len(head) PROVE Plain(k, all[j])
  <2>1. CASE j <= Len(ops)
    BY <1>1, <1>2, <1>4, <2>1
  <2>2. CASE j > Len(ops)
    <3>1. j - Len(ops) \in 1..Len(more) /\ Len(ops) + (j - Len(ops)) = j
      BY <1>1, <2>2
    <3>2. all[j] = more[j - Len(ops)]
      BY <1>1, <3>1
    <3> QED BY <1>2, <3>1, <3>2
  <2> QED BY <1>1, <2>1, <2>2
<1>5. Len(head) <= Len(all)
  BY <1>1, <1>2
<1> QED BY <1>1, <1>3, <1>4, <1>5 DEF Continues, all

\* One such operation for each of a kind of entry.
LEMMA EntriesNamed ==
  ASSUME NEW name, NEW kind, IsSeq(kind), IsInjective(kind), NEW S, S \subseteq ToSet(kind)
  PROVE  LET ops == Each(name, InOrder(kind, S)) IN
         /\ IsSeq(ops) /\ Len(ops) = Cardinality(S)
         /\ \A j \in 1..Len(ops) : \E x \in S : ops[j] = Op(name, x)
         /\ \A x \in S : \E j \in 1..Len(ops) : ops[j] = Op(name, x)
<1> DEFINE all == InOrder(kind, S)
           ops == Each(name, all)
<1>1. IsSeq(all) /\ ToSet(all) = ToSet(kind) \cap S /\ Len(all) = Cardinality(ToSet(kind) \cap S)
  BY KeptIs, KeptIsCounted
<1>2. ToSet(kind) \cap S = S
  OBVIOUS
<1> HIDE DEF all
<1>3. IsSeq(ops) /\ Len(ops) = Len(all) /\ \A i \in 1..Len(all) : ops[i] = Op(name, all[i])
  BY <1>1, EachAt
<1>4. ToSet(all) = {all[i] : i \in 1..Len(all)}
  BY <1>1, SeqIs
<1> HIDE DEF ops
<1>5. \A j \in 1..Len(ops) : \E x \in S : ops[j] = Op(name, x)
  BY <1>1, <1>2, <1>3, <1>4
<1>6. \A x \in S : \E j \in 1..Len(ops) : ops[j] = Op(name, x)
  <2> SUFFICES ASSUME NEW x \in S PROVE \E j \in 1..Len(ops) : ops[j] = Op(name, x)
    OBVIOUS
  <2>1. PICK j \in 1..Len(all) : all[j] = x
    BY <1>1, <1>2, <1>4
  <2> QED BY <1>3, <2>1
<1>7. Len(ops) = Cardinality(S)
  BY <1>1, <1>2, <1>3
<1> QED BY <1>3, <1>5, <1>6, <1>7 DEF ops, all

LEMMA EntriesPlain ==
  ASSUME NEW k, NEW name, name \in {"removeSigner", "revoke", "removeData", "cancelOffer", "removeLine"},
         NEW kind, IsSeq(kind), IsInjective(kind), NEW S, S \subseteq ToSet(kind),
         name = "removeLine" => S \subseteq AssetSet
  PROVE  PlainOnes(Each(name, InOrder(kind, S)), k) /\ Len(Each(name, InOrder(kind, S))) = Cardinality(S)
<1> DEFINE ops == Each(name, InOrder(kind, S))
<1>1. IsSeq(ops) /\ Len(ops) = Cardinality(S) /\ \A j \in 1..Len(ops) : \E x \in S : ops[j] = Op(name, x)
  BY EntriesNamed
<1> HIDE DEF ops
<1>2. \A x \in S : Plain(k, Op(name, x))
  <2> SUFFICES ASSUME NEW x \in S PROVE Plain(k, Op(name, x))
    OBVIOUS
  <2> DEFINE o == Op(name, x)
  <2>1. o.op = name /\ o.what = x /\ o.by = "account" /\ o.min = 0
    BY DEF Op
  <2> HIDE DEF o
  <2>2. Plain(k, o)
    BY <2>1 DEF Plain, Exact, TakeNames
  <2> QED BY <2>2 DEF o
<1>3. PlainOnes(ops, k)
  BY <1>1, <1>2 DEF PlainOnes
<1> QED BY <1>1, <1>3 DEF ops

\* What is done with what a line holds empties it.
LEMMA AssetOpPlain ==
  ASSUME NEW w, Whole(w), NEW ans, NEW a \in AssetSet, ans.asset[a] \in {"none", "convert", "transfer", "issuer"},
         LiveBalance(w, a) > 0
  PROVE  Plain(w.acct, AssetOp(w, ans, a))
<1> DEFINE n == LiveBalance(w, a)
           least == QuotedLeast(w.rate[a], n)
           o == AssetOp(w, ans, a)
           k == w.acct
<1>1. k.lines[a].balance \in Nat /\ w.rate[a] \in Nat
  BY DEF Whole, Sound, Things
<1>2. n \in Nat \ {0} /\ k.lines[a].balance = n
  BY <1>1 DEF LiveBalance
<1> HIDE DEF n, k
<1>3. least \in Nat
  <2>1. CASE w.rate[a] = 0
    BY <2>1 DEF QuotedLeast
  <2>2. CASE w.rate[a] # 0
    <3>1. w.rate[a] - 1 \in Nat /\ n \in Nat
      BY <1>1, <1>2, <2>2
    <3>2. (w.rate[a] - 1) * n \in Nat
      <4> DEFINE r == w.rate[a] - 1
      <4> HIDE DEF r
      <4>1. r \in Nat => r * n \in Nat
        BY <3>1
      <4> QED BY <3>1, <4>1 DEF r
    <3> QED BY <2>2, <3>2 DEF QuotedLeast
  <2> QED BY <2>1, <2>2
<1> HIDE DEF least
<1>4. \/ o = Swapping("convert", a, n, least)
      \/ o = Moving("pay", a, n, "chosen") \/ o = Moving("pay", a, n, "issuer")
  <2>1. Disposed(ans, a) \in {"convert", "transfer", "issuer"}
    BY DEF Disposed
  <2> QED BY <2>1, Zenon DEF AssetOp, n, least
<1> HIDE DEF o
<1>5. o.op \in {"convert", "pay"} /\ o.what = a /\ o.by = "account" /\ o.amount = n /\ o.min \in Nat
  <2>1. CASE o = Swapping("convert", a, n, least)
    BY <1>3, <2>1 DEF Swapping, Moving, Op
  <2>2. ASSUME NEW to, o = Moving("pay", a, n, to)
        PROVE  o.op \in {"convert", "pay"} /\ o.what = a /\ o.by = "account" /\ o.amount = n /\ o.min \in Nat
    <3>1. o.op = "pay" /\ o.what = a /\ o.by = "account" /\ o.amount = n /\ o.min = 0
      BY <2>2 DEF Moving, Op
    <3> QED BY <3>1
  <2> QED BY <1>4, <2>1, <2>2
<1>6. Plain(k, o)
  BY <1>2, <1>5 DEF Plain, Exact, TakeNames
<1> QED BY <1>6 DEF o, k

\* The lines that hold something.
LEMMA FundedPlain ==
  ASSUME NEW w, Whole(w), NEW ans, Quiescent(w.acct, ans),
         \A a \in AssetSet : ans.asset[a] \in {"none", "convert", "transfer", "issuer"}
  PROVE  LET funded == Funded(Reading(w), w)
             ops == [i \in DOMAIN funded |-> AssetOp(w, ans, funded[i])] IN
         PlainOnes(ops, w.acct) /\ Len(ops) = Cardinality(Fundable(w.acct, ans))
<1> DEFINE k == w.acct
           live == {a \in Held(Reading(w).account) : LiveBalance(w, a) > 0}
           funded == InOrder(Assets, live)
           ops == [i \in DOMAIN funded |-> AssetOp(w, ans, funded[i])]
<1>1. IsSeq(Assets) /\ IsInjective(Assets)
  BY ListsAre
<1>2. IsSeq(funded) /\ ToSet(funded) = ToSet(Assets) \cap live /\ Len(funded) = Cardinality(ToSet(Assets) \cap live)
  <2> HIDE DEF live
  <2> QED BY <1>1, KeptIs, KeptIsCounted
<1>3. Reading(w).account.lines = k.lines
  BY ReadingShows DEF Others
<1>4. live = Fundable(k, ans) /\ live \subseteq AssetSet
  <2>1. Held(Reading(w).account) = Held(k)
    BY <1>3 DEF Held
  <2>2. \A a \in Held(k) : LiveBalance(w, a) = k.lines[a].balance
    BY DEF Held, LiveBalance
  <2>3. Fundable(k, ans) = {a \in Held(k) : k.lines[a].balance > 0}
    BY QuiescentIs
  <2> QED BY <2>1, <2>2, <2>3 DEF Held
<1>5. Len(funded) = Cardinality(Fundable(k, ans))
  <2>1. ToSet(Assets) \cap live = Fundable(k, ans)
    BY <1>4 DEF AssetSet
  <2> QED BY <1>2, <2>1
<1>6. \A a \in ToSet(funded) : a \in AssetSet /\ LiveBalance(w, a) > 0
  BY <1>2, <1>4
<1> HIDE DEF funded
<1>7. Len(funded) \in Nat /\ DOMAIN funded = 1..Len(funded) /\ \A i \in 1..Len(funded) : funded[i] \in ToSet(funded)
  <2>1. IsSeq(funded)
    BY <1>2
  <2> HIDE DEF live, ops
  <2>2. /\ Len(funded) \in Nat /\ DOMAIN funded = 1..Len(funded)
        /\ ToSet(funded) = {funded[i] : i \in 1..Len(funded)}
    BY <2>1, SeqIs
  <2> QED BY <2>2
<1>8. \A i \in 1..Len(funded) : Plain(k, AssetOp(w, ans, funded[i]))
  BY <1>6, <1>7, AssetOpPlain
<1> DEFINE S == {AssetOp(w, ans, funded[i]) : i \in 1..Len(funded)}
<1>9. ops \in [1..Len(funded) -> S] /\ \A i \in 1..Len(funded) : ops[i] = AssetOp(w, ans, funded[i])
  BY <1>7
<1> HIDE DEF S, ops
<1>10. ops \in Seq(S) /\ Len(ops) = Len(funded)
  <2>1. ops \in Seq(S)
    BY <1>7, <1>9, SeqDef
  <2>2. ops \in [1..Len(ops) -> S]
    BY <2>1
  <2> QED BY <1>7, <1>9, <2>1, <2>2
<1>11. PlainOnes(ops, k)
  BY <1>8, <1>9, <1>10, InSeq DEF PlainOnes
<1> QED BY <1>5, <1>10, <1>11 DEF ops, funded, Funded

\* The signers go first, then the thresholds are set.
LEMMA SignersAre ==
  ASSUME NEW k, Sound(k)
  PROVE  LET head == SignerOps(k) IN
         /\ IsSeq(head) /\ Len(head) = Cardinality(k.extra) + Normalizing(k) /\ Len(head) <= OpLimit
         /\ \A j \in 1..Len(head) : Exact(k, head[j]) /\ head[j].min \in Nat
         /\ \A j \in 1..Len(head) : head[j].op = "setThresholds" =>
              /\ j = Len(head) /\ NeedsNormalization(k)
              /\ \A x \in k.extra : \E i \in 1..(j - 1) : head[i].op = "removeSigner" /\ head[i].what = x
<1> DEFINE head == SignerOps(k)
           each == Each("removeSigner", InOrder(Signers, k.extra))
           all == Moving("setThresholds", "master", 1, "")
           n == Cardinality(k.extra)
<1>1. /\ PlainOnes(each, k) /\ Len(each) = n /\ \A j \in 1..Len(each) : each[j].op = "removeSigner"
      /\ \A x \in k.extra : \E j \in 1..Len(each) : each[j].op = "removeSigner" /\ each[j].what = x
  <2>1. IsSeq(Signers) /\ IsInjective(Signers) /\ k.extra \subseteq ToSet(Signers)
    BY ListsAre DEF Sound
  <2>2. "removeSigner" \in {"removeSigner", "revoke", "removeData", "cancelOffer", "removeLine"}
        /\ "removeSigner" # "removeLine"
    OBVIOUS
  <2>3. PlainOnes(each, k) /\ Len(each) = n
    BY <2>1, <2>2, EntriesPlain
  <2>4. /\ \A j \in 1..Len(each) : \E x \in k.extra : each[j] = Op("removeSigner", x)
        /\ \A x \in k.extra : \E j \in 1..Len(each) : each[j] = Op("removeSigner", x)
    <3> DEFINE S == k.extra
    <3>1. S \subseteq ToSet(Signers)
      BY <2>1
    <3> HIDE DEF S
    <3>2. LET ops == Each("removeSigner", InOrder(Signers, S)) IN
          /\ IsSeq(ops) /\ Len(ops) = Cardinality(S)
          /\ \A j \in 1..Len(ops) : \E x \in S : ops[j] = Op("removeSigner", x)
          /\ \A x \in S : \E j \in 1..Len(ops) : ops[j] = Op("removeSigner", x)
      BY <2>1, <3>1, EntriesNamed
    <3> QED BY Zenon, <3>2 DEF S
  <2> HIDE DEF each
  <2> QED BY <2>3, <2>4, OpIs
<1>2. n \in Nat /\ n < OpLimit
  <2>1. IsSeq(Signers) /\ IsInjective(Signers)
    BY ListsAre
  <2>2. IsFiniteSet(ToSet(Signers)) /\ Cardinality(ToSet(Signers)) = Len(Signers)
    BY <2>1, ListIsFinite, ListIsCounted
  <2>3. n \in Nat /\ n <= Cardinality(ToSet(Signers))
    BY <2>2, PartCounts DEF Sound
  <2>4. Len(Signers) \in Nat /\ OpLimit \in Nat /\ Len(Signers) < OpLimit
    BY <2>1, SeqIs, LimitsAssumption
  <2> QED BY <2>2, <2>3, <2>4
<1>3. /\ all.op = "setThresholds" /\ all.amount = 1 /\ all.min = 0 /\ all.by = "account"
  BY DEF Moving, Op
<1> HIDE DEF all, each, n
<1>4. Exact(k, all) /\ all.min \in Nat
  BY <1>3 DEF Exact, TakeNames
<1>5. ASSUME NeedsNormalization(k) PROVE head = each \o <<all>>
  BY <1>5 DEF SignerOps, each, all
<1>6. ASSUME ~NeedsNormalization(k) PROVE head = <<>> /\ k.extra = {}
  BY <1>6 DEF SignerOps, NeedsNormalization
<1> HIDE DEF head
<1> DEFINE fits == /\ IsSeq(head) /\ Len(head) = n + Normalizing(k) /\ Len(head) <= OpLimit
                   /\ \A j \in 1..Len(head) : Exact(k, head[j]) /\ head[j].min \in Nat
                   /\ \A j \in 1..Len(head) : head[j].op = "setThresholds" =>
                        /\ j = Len(head) /\ NeedsNormalization(k)
                        /\ \A x \in k.extra : \E i \in 1..(j - 1) : head[i].op = "removeSigner" /\ head[i].what = x
<1>7. ASSUME NeedsNormalization(k) PROVE fits
  <2>1. IsSeq(<<all>>) /\ Len(<<all>>) = 1 /\ <<all>>[1] = all
    BY OneIs
  <2>2. /\ IsSeq(head) /\ Len(head) = n + 1 /\ \A i \in 1..n : head[i] = each[i]
        /\ head[n + 1] = all
    <3>1. IsSeq(each) /\ Len(each) = n
      BY <1>1 DEF PlainOnes
    <3>2. 1 \in 1..1 /\ n \in Nat
      BY <1>2
    <3>3. /\ IsSeq(each \o <<all>>) /\ Len(each \o <<all>>) = Len(each) + Len(<<all>>)
          /\ \A i \in 1..Len(each) : (each \o <<all>>)[i] = each[i]
          /\ \A i \in 1..Len(<<all>>) : (each \o <<all>>)[Len(each) + i] = <<all>>[i]
      BY <2>1, <3>1, ConcatAt
    <3> DEFINE one == <<all>>
               both == each \o <<all>>
    <3>4. head = both
      BY <1>5, <1>7
    <3>5. Len(one) = 1 /\ one[1] = all
      BY <2>1
    <3> HIDE DEF one, both
    <3> QED BY <3>1, <3>2, <3>3, <3>4, <3>5 DEF one, both
  <2>3. Normalizing(k) = 1
    BY <1>7 DEF Normalizing
  <2>4. \A j \in 1..n : Exact(k, head[j]) /\ head[j].min \in Nat /\ head[j].op = "removeSigner"
    BY <1>1, <2>2 DEF PlainOnes, Plain
  <2>5. \A j \in 1..Len(head) : j \in 1..n \/ j = n + 1
    BY <1>2, <2>2
  <2>6. \A j \in 1..Len(head) : Exact(k, head[j]) /\ head[j].min \in Nat
    BY <1>4, <2>2, <2>4, <2>5
  <2>7. \A j \in 1..Len(head) : head[j].op = "setThresholds" => j = n + 1
    BY <2>4, <2>5
  <2>8. \A x \in k.extra : \E i \in 1..n : head[i].op = "removeSigner" /\ head[i].what = x
    BY <1>1, <2>2
  <2>9. \A j \in 1..Len(head) : head[j].op = "setThresholds" =>
             \A x \in k.extra : \E i \in 1..(j - 1) : head[i].op = "removeSigner" /\ head[i].what = x
    <3>1. (n + 1) - 1 = n
      BY <1>2
    <3> QED BY <2>7, <2>8, <3>1
  <2>10. Len(head) <= OpLimit
    BY <1>2, <2>2, LimitsAssumption
  <2> QED BY <1>7, <2>2, <2>3, <2>6, <2>7, <2>9, <2>10
<1>8. ASSUME ~NeedsNormalization(k) PROVE fits
  <2>1. head = <<>> /\ n = 0 /\ Normalizing(k) = 0
    BY <1>6, <1>8, FS_EmptySet DEF n, Normalizing
  <2>2. IsSeq(head) /\ Len(head) = 0
    BY <2>1, EmptyIs
  <2>3. \A j \in 1..Len(head) : FALSE
    BY <2>2
  <2>4. 0 <= OpLimit
    BY LimitsAssumption
  <2> QED BY <2>1, <2>2, <2>3, <2>4
<1> QED BY <1>7, <1>8 DEF head, n

\* The operations of a close: signers, entries, what the lines hold, the lines, then the merge.
CloseList(ops, w, ans, p) ==
  /\ IsSeq(ops) /\ Len(ops) <= Cleanup(w, ans) + Direct(p)
  /\ \A j \in 1..Len(ops) : ops[j].min \in Nat /\ (Exact(w.acct, ops[j]) \/ (p = "direct" /\ j = Len(ops)))
  /\ \A j \in 1..Len(ops) : ops[j].op = "setThresholds" =>
       /\ j <= OpLimit /\ NeedsNormalization(w.acct)
       /\ \A x \in w.acct.extra : \E i \in 1..(j - 1) : ops[i].op = "removeSigner" /\ ops[i].what = x
       /\ \A i \in 1..Len(ops) : ops[i].op = "setThresholds" => i = j

LEMMA CloseOpsAre ==
  ASSUME NEW w, Whole(w), NEW ans, NEW p, Quiescent(w.acct, ans),
         \A a \in AssetSet : ans.asset[a] \in {"none", "convert", "transfer", "issuer"}
  PROVE  CloseList(CloseOps(Reading(w), w, ans, p), w, ans, p)
<1> DEFINE k == w.acct
           e == Reading(w).account
           funded == Funded(Reading(w), w)
           head == SignerOps(k)
           revokes == Each("revoke", InOrder(Sponsored, Revocable(k, w)))
           datas == Each("removeData", InOrder(DataKeys, k.data))
           offers == Each("cancelOffer", InOrder(Offers, k.offers))
           assets == [i \in DOMAIN funded |-> AssetOp(w, ans, funded[i])]
           lines == Each("removeLine", InOrder(Assets, Held(k)))
           merge == IF p = "direct" THEN <<Moving("merge", "xlm", 0, "destination")>> ELSE <<>>
           body == head \o revokes \o datas \o offers \o assets \o lines
           ops == body \o merge
<1>1. CloseOps(Reading(w), w, ans, p) = ops
  <2>1. /\ e.extra = k.extra /\ e.high = k.high /\ e.data = k.data /\ e.offers = k.offers
        /\ e.sponsors = k.sponsors /\ e.lines = k.lines
    BY ReadingShows DEF Others
  <2>2. SignerOps(e) = head
    <3>1. NeedsNormalization(e) <=> NeedsNormalization(k)
      BY <2>1, Zenon DEF NeedsNormalization
    <3> QED BY <2>1, <3>1, Zenon DEF SignerOps
  <2>3. Revocable(e, w) = Revocable(k, w) /\ Held(e) = Held(k)
    BY <2>1, Zenon DEF Revocable, Held
  <2> QED BY <2>1, <2>2, <2>3, Zenon DEF CloseOps
<1> DEFINE nr == Cardinality(Revocable(k, w))
           nd == Cardinality(k.data)
           no == Cardinality(k.offers)
           nf == Cardinality(Fundable(k, ans))
           nh == Cardinality(Held(k))
<1>2. /\ PlainOnes(revokes, k) /\ Len(revokes) = nr /\ PlainOnes(datas, k) /\ Len(datas) = nd
      /\ PlainOnes(offers, k) /\ Len(offers) = no /\ PlainOnes(lines, k) /\ Len(lines) = nh
  <2>1. /\ k.data \subseteq ToSet(DataKeys) /\ k.offers \subseteq ToSet(Offers)
        /\ Revocable(k, w) \subseteq ToSet(Sponsored) /\ Held(k) \subseteq AssetSet /\ AssetSet = ToSet(Assets)
    BY RevocableCounts DEF Whole, Sound, Held, AssetSet
  <2>1a. /\ IsSeq(Sponsored) /\ IsInjective(Sponsored) /\ IsSeq(DataKeys) /\ IsInjective(DataKeys)
         /\ IsSeq(Offers) /\ IsInjective(Offers) /\ IsSeq(Assets) /\ IsInjective(Assets)
    BY ListsAre
  <2> HIDE DEF k
  <2>2. PlainOnes(revokes, k) /\ Len(revokes) = nr
    <3>1. /\ "revoke" \in {"removeSigner", "revoke", "removeData", "cancelOffer", "removeLine"}
          /\ "revoke" # "removeLine"
      OBVIOUS
    <3> QED BY <2>1, <2>1a, <3>1, EntriesPlain
  <2>3. PlainOnes(datas, k) /\ Len(datas) = nd
    <3>1. /\ "removeData" \in {"removeSigner", "revoke", "removeData", "cancelOffer", "removeLine"}
          /\ "removeData" # "removeLine"
      OBVIOUS
    <3> QED BY <2>1, <2>1a, <3>1, EntriesPlain
  <2>4. PlainOnes(offers, k) /\ Len(offers) = no
    <3>1. /\ "cancelOffer" \in {"removeSigner", "revoke", "removeData", "cancelOffer", "removeLine"}
          /\ "cancelOffer" # "removeLine"
      OBVIOUS
    <3> QED BY <2>1, <2>1a, <3>1, EntriesPlain
  <2>5. PlainOnes(lines, k) /\ Len(lines) = nh
    <3>1. "removeLine" \in {"removeSigner", "revoke", "removeData", "cancelOffer", "removeLine"}
      OBVIOUS
    <3> QED BY <2>1, <2>1a, <3>1, EntriesPlain
  <2> QED BY <2>2, <2>3, <2>4, <2>5
<1>3. PlainOnes(assets, k) /\ Len(assets) = nf
  BY FundedPlain
<1>4. /\ IsSeq(head) /\ Len(head) = Cardinality(k.extra) + Normalizing(k) /\ Len(head) <= OpLimit
      /\ \A j \in 1..Len(head) : Exact(k, head[j]) /\ head[j].min \in Nat
      /\ \A j \in 1..Len(head) : head[j].op = "setThresholds" =>
           /\ j = Len(head) /\ NeedsNormalization(k)
           /\ \A x \in k.extra : \E i \in 1..(j - 1) : head[i].op = "removeSigner" /\ head[i].what = x
  BY SignersAre DEF Whole
<1>5. Continues(head, head, k)
  <2>1. Len(head) \in Nat
    BY <1>4, SeqIs
  <2> HIDE DEF head
  <2> QED BY <1>4, <2>1 DEF Continues
<1> HIDE DEF revokes, datas, offers, assets, lines, merge, head
<1> HIDE DEF body
<1>6. /\ Continues(body, head, k)
      /\ Len(body) = Len(head) + nr + nd + no + nf + nh
  <2>0. IsSeq(head)
    BY <1>4
  <2>0a. PlainOnes(revokes, k) /\ Len(revokes) = nr
    BY <1>2
  <2>0b. PlainOnes(datas, k) /\ Len(datas) = nd
    BY <1>2
  <2>0c. PlainOnes(offers, k) /\ Len(offers) = no
    BY <1>2
  <2>0d. PlainOnes(lines, k) /\ Len(lines) = nh
    BY <1>2
  <2> HIDE DEF nr, nd, no, nf, nh, k
  <2>1. Continues(head \o revokes, head, k) /\ Len(head \o revokes) = Len(head) + nr
    BY <1>5, <2>0, <2>0a, ContinuesOn
  <2>2. Continues(head \o revokes \o datas, head, k) /\ Len(head \o revokes \o datas) = Len(head) + nr + nd
    BY <2>1, <2>0, <2>0b, ContinuesOn
  <2>3. /\ Continues(head \o revokes \o datas \o offers, head, k)
        /\ Len(head \o revokes \o datas \o offers) = Len(head) + nr + nd + no
    BY <2>2, <2>0, <2>0c, ContinuesOn
  <2>4. /\ Continues(head \o revokes \o datas \o offers \o assets, head, k)
        /\ Len(head \o revokes \o datas \o offers \o assets) = Len(head) + nr + nd + no + nf
    BY <1>3, <2>3, <2>0, ContinuesOn
  <2>5. /\ Continues(head \o revokes \o datas \o offers \o assets \o lines, head, k)
        /\ Len(head \o revokes \o datas \o offers \o assets \o lines) = Len(head) + nr + nd + no + nf + nh
    BY <2>4, <2>0, <2>0d, ContinuesOn
  <2> QED BY <2>5 DEF body
<1>7. Len(body) = Cleanup(w, ans)
  <2> DEFINE nx == Cardinality(k.extra)
             z == Normalizing(k)
  <2>1. nx \in Nat /\ nr \in Nat /\ nd \in Nat /\ no \in Nat /\ nf \in Nat /\ nh \in Nat /\ z \in Nat
    BY PartsCount, RevocableCounts, ChoresAre DEF Whole
  <2>2. Cleanup(w, ans) = nx + nd + no + nr + nh + nf + z
    BY DEF Cleanup, Chores
  <2>3. Len(head) = nx + z
    BY <1>4
  <2> HIDE DEF nx, nr, nd, no, nf, nh, z
  <2> QED BY <1>6, <2>1, <2>2, <2>3
<1>8. /\ IsSeq(merge) /\ Len(merge) = Direct(p) /\ (Len(merge) > 0 => p = "direct") /\ Len(merge) <= 1
      /\ \A j \in 1..Len(merge) : merge[j].min = 0 /\ merge[j].op = "merge"
  <2> DEFINE o == Moving("merge", "xlm", 0, "destination")
  <2>1. o.min = 0 /\ o.op = "merge"
    BY DEF Moving, Op
  <2> HIDE DEF o
  <2>2. CASE p = "direct"
    <3>1. merge = <<o>>
      BY <2>2 DEF merge, o
    <3>2. IsSeq(merge) /\ Len(merge) = 1 /\ merge[1] = o /\ \A j \in 1..1 : j = 1
      BY <3>1, OneIs
    <3> QED BY <2>1, <2>2, <3>2 DEF Direct
  <2>3. CASE p # "direct"
    <3>1. merge = <<>>
      BY <2>3 DEF merge
    <3>2. IsSeq(merge) /\ Len(merge) = 0 /\ \A j \in 1..0 : FALSE
      BY <3>1, EmptyIs
    <3> QED BY <2>3, <3>2 DEF Direct
  <2> QED BY <2>2, <2>3
<1>9. /\ IsSeq(body) /\ Len(head) <= Len(body) /\ \A j \in 1..Len(head) : body[j] = head[j]
      /\ \A j \in 1..Len(body) : j > Len(head) => Plain(k, body[j])
  BY <1>6 DEF Continues
<1>10. /\ IsSeq(ops) /\ Len(body) \in Nat /\ Len(merge) \in Nat /\ Len(ops) = Len(body) + Len(merge) /\ Len(head) \in Nat
       /\ \A i \in 1..Len(body) : ops[i] = body[i]
       /\ \A i \in 1..Len(merge) : ops[Len(body) + i] = merge[i]
  BY <1>4, <1>8, <1>9, ConcatAt, SeqIs
<1> HIDE DEF ops
<1>11. \A j \in 1..Len(body) : ops[j].min \in Nat /\ Exact(k, ops[j])
  <2> SUFFICES ASSUME NEW j \in 1..Len(body) PROVE ops[j].min \in Nat /\ Exact(k, ops[j])
    OBVIOUS
  <2>1. ops[j] = body[j]
    BY <1>10
  <2>2. CASE j <= Len(head)
    <3>1. j \in 1..Len(head)
      BY <1>10, <2>2
    <3> QED BY <1>4, <1>9, <2>1, <3>1
  <2>3. CASE j > Len(head)
    BY <1>9, <2>1, <2>3 DEF Plain
  <2> QED BY <1>10, <2>2, <2>3
<1>12. ASSUME NEW j \in 1..Len(ops), j \notin 1..Len(body)
       PROVE  p = "direct" /\ j = Len(ops) /\ ops[j].min = 0 /\ ops[j].op = "merge"
  <2>1. j - Len(body) \in 1..Len(merge) /\ Len(body) + (j - Len(body)) = j /\ Len(merge) > 0
    BY <1>10, <1>12
  <2>2. ops[j] = merge[j - Len(body)]
    BY <1>10, <2>1
  <2>3. j = Len(ops)
    BY <1>8, <1>10, <2>1
  <2> QED BY <1>8, <2>1, <2>2, <2>3
<1>13. \A j \in 1..Len(ops) : ops[j].min \in Nat /\ (Exact(k, ops[j]) \/ (p = "direct" /\ j = Len(ops)))
  BY <1>11, <1>12
<1>14. \A j \in 1..Len(ops) : ops[j].op = "setThresholds" =>
         j \in 1..Len(head) /\ j = Len(head) /\ ops[j] = head[j] /\ head[j].op = "setThresholds"
  <2> SUFFICES ASSUME NEW j \in 1..Len(ops), ops[j].op = "setThresholds"
               PROVE  j \in 1..Len(head) /\ j = Len(head) /\ ops[j] = head[j] /\ head[j].op = "setThresholds"
    OBVIOUS
  <2>1. j \in 1..Len(body)
    <3>1. "merge" # "setThresholds"
      OBVIOUS
    <3> QED BY <1>12, <3>1
  <2>2. ops[j] = body[j]
    BY <1>10, <2>1
  <2>3. ~(j > Len(head))
    BY <1>9, <2>1, <2>2 DEF Plain
  <2>4. j \in 1..Len(head)
    BY <1>10, <2>3
  <2> QED BY <1>4, <1>9, <2>2, <2>4
<1>15. \A j \in 1..Len(head) : ops[j] = head[j]
  BY <1>9, <1>10
<1>16. ASSUME NEW j \in 1..Len(ops), ops[j].op = "setThresholds"
       PROVE  /\ j <= OpLimit /\ NeedsNormalization(k)
              /\ \A x \in k.extra : \E i \in 1..(j - 1) : ops[i].op = "removeSigner" /\ ops[i].what = x
              /\ \A i \in 1..Len(ops) : ops[i].op = "setThresholds" => i = j
  <2>1. j \in 1..Len(head) /\ j = Len(head) /\ head[j].op = "setThresholds"
    BY <1>14, <1>16
  <2>2. /\ NeedsNormalization(k)
        /\ \A x \in k.extra : \E i \in 1..(j - 1) : head[i].op = "removeSigner" /\ head[i].what = x
    BY <1>4, <2>1
  <2>3. \A i \in 1..(j - 1) : i \in 1..Len(head)
    BY <1>10, <2>1
  <2> QED BY <1>4, <1>14, <1>15, <2>1, <2>2, <2>3
<1>17. Len(ops) <= Cleanup(w, ans) + Direct(p)
  BY <1>7, <1>8, <1>10
<1>18. CloseList(ops, w, ans, p)
  BY <1>10, <1>13, <1>16, <1>17 DEF CloseList
<1> QED BY <1>1, <1>18

\* An account keeps the reserve of two entries whatever it holds.
LEMMA LeastFloor == ASSUME NEW k, Sound(k) PROVE FeeFloor(k) \in Nat /\ FeeFloor(k) >= 2 * BaseReserve
<1> DEFINE s == SubEntries(k)
           c == Cardinality(k.sponsors)
           o == OfferXlm * Cardinality(k.offers)
           n == 2 + s + c
           r == n * BaseReserve
<1>1. /\ Cardinality(k.extra) \in Nat /\ Cardinality(k.data) \in Nat /\ Cardinality(k.offers) \in Nat
      /\ Cardinality(k.sponsors) \in Nat /\ Cardinality(Held(k)) \in Nat
  BY PartsCount
<1>2. s \in Nat /\ c \in Nat /\ BaseReserve \in Nat /\ OfferXlm \in Nat
  BY <1>1, ListingAssumption DEF SubEntries
<1>3. o \in Nat
  BY <1>1, <1>2, Times
<1>4. FeeFloor(k) = r + o
  BY DEF FeeFloor, MinimumBalance
<1> HIDE DEF s, c
<1>5. n \in Nat /\ 2 <= n
  BY <1>2
<1> HIDE DEF n
<1>6. r \in Nat /\ 2 * BaseReserve <= r
  BY <1>2, <1>5, Times
<1> HIDE DEF r, o
<1> QED BY <1>2, <1>3, <1>4, <1>6

\* The transactions of a close that is not over yet: each operation takes one thing off the account.
CloseTxs(txs, w) ==
  /\ IsSeq(txs)
  /\ \A i \in 1..Len(txs) :
       /\ IsSeq(txs[i].ops) /\ Len(txs[i].ops) \in Nat \ {0} /\ txs[i].fee \in Nat /\ txs[i].fee <= Len(txs[i].ops)
       /\ \A j \in 1..Len(txs[i].ops) : Exact(w.acct, txs[i].ops[j])
       /\ i = 1 => Normalizes(w.acct, txs[i].ops)
       /\ i > 1 => \A j \in 1..Len(txs[i].ops) : txs[i].ops[j].op # "setThresholds"

\* A packed transaction that does not hold the last operation, the merge.
LEMMA ClosePacked ==
  ASSUME NEW w, NEW ans, NEW p, NEW ops, CloseList(ops, w, ans, p), NEW tx,
         NEW i \in 1..CeilDiv(Len(ops), OpLimit), Packed(tx, ops, i),
         p = "direct" => i < CeilDiv(Len(ops), OpLimit)
  PROVE  /\ IsSeq(tx.ops) /\ Len(tx.ops) \in Nat \ {0} /\ tx.fee \in Nat /\ tx.fee <= Len(tx.ops)
         /\ \A j \in 1..Len(tx.ops) : Exact(w.acct, tx.ops[j])
         /\ i = 1 => Normalizes(w.acct, tx.ops)
         /\ i > 1 => \A j \in 1..Len(tx.ops) : tx.ops[j].op # "setThresholds"
<1> DEFINE n == CeilDiv(Len(ops), OpLimit)
           b == Filled(ops, i - 1)
           l == Len(tx.ops)
<1>1. /\ IsSeq(ops) /\ \A j \in 1..Len(ops) : Exact(w.acct, ops[j]) \/ (p = "direct" /\ j = Len(ops))
      /\ \A j \in 1..Len(ops) : ops[j].op = "setThresholds" =>
           /\ j <= OpLimit /\ NeedsNormalization(w.acct)
           /\ \A x \in w.acct.extra : \E q \in 1..(j - 1) : ops[q].op = "removeSigner" /\ ops[q].what = x
           /\ \A q \in 1..Len(ops) : ops[q].op = "setThresholds" => q = j
  BY DEF CloseList
<1>2. /\ IsSeq(tx.ops) /\ tx.fee \in Nat /\ tx.fee <= l /\ l = Filled(ops, i) - b /\ l \in Nat
      /\ \A j \in 1..l : b + j \in 1..Len(ops) /\ tx.ops[j] = ops[b + j]
  BY DEF Packed
<1>2a. l \in Nat \ {0}
  BY DEF Packed
<1>3. /\ n \in Nat /\ b \in Nat /\ Filled(ops, i) \in Nat /\ b = (i - 1) * OpLimit /\ Filled(ops, 0) = 0
      /\ \A q \in 1..n : Filled(ops, q - 1) < Filled(ops, q)
      /\ \A q \in 0..n : Filled(ops, q) \in Nat /\ Filled(ops, q) <= Len(ops)
  <2>1. i \in 1..n /\ i - 1 \in 0..n /\ i \in 0..n
    BY <1>1, FilledIs
  <2> QED BY <1>1, <2>1, FilledIs
<1> HIDE DEF n
<1>4. p = "direct" => Filled(ops, i) < Len(ops)
  <2> SUFFICES ASSUME p = "direct" PROVE Filled(ops, i) < Len(ops)
    OBVIOUS
  <2>1. i + 1 \in 1..n /\ i + 1 \in 0..n /\ (i + 1) - 1 = i
    BY <1>3 DEF n
  <2>2. Filled(ops, i) < Filled(ops, i + 1) /\ Filled(ops, i + 1) <= Len(ops) /\ Filled(ops, i + 1) \in Nat
    BY <1>3, <2>1
  <2>3. Len(ops) \in Nat /\ Filled(ops, i) \in Nat
    BY <1>1, <1>3, SeqIs
  <2> QED BY <2>2, <2>3
<1> DEFINE f == Filled(ops, i)
<1> HIDE DEF b, l, f
<1>5. Len(ops) \in Nat /\ OpLimit \in Nat \ {0} /\ i \in Nat \ {0} /\ f \in Nat /\ b \in Nat /\ l = f - b
  <2>1. Len(ops) \in Nat /\ OpLimit \in Nat \ {0} /\ i \in Nat \ {0}
    <3>1. Len(ops) \in Nat
      BY <1>1, SeqIs
    <3>2. CeilDiv(Len(ops), OpLimit) \in Nat
      BY <1>3 DEF n
    <3> QED BY <3>1, <3>2, LimitsAssumption
  <2>2. f \in Nat /\ b \in Nat /\ l = f - b
    BY <1>2, <1>3 DEF f, b
  <2> QED BY <2>1, <2>2
<1>6. \A j \in 1..l : b + j # Len(ops) \/ p # "direct"
  <2>1. p = "direct" => f < Len(ops)
    BY <1>4 DEF f
  <2> QED BY <1>5, <2>1
<1>7. \A j \in 1..l : Exact(w.acct, tx.ops[j])
  BY <1>1, <1>2, <1>6
<1>8. ASSUME i > 1 PROVE \A j \in 1..l : tx.ops[j].op # "setThresholds"
  <2>1. b >= OpLimit
    <3>1. 1 <= i - 1 /\ i - 1 \in Nat /\ 1 \in Nat /\ OpLimit \in Nat /\ 1 * OpLimit = OpLimit
      BY <1>5, <1>8
    <3>2. 1 * OpLimit <= (i - 1) * OpLimit
      BY <3>1, Times
    <3> QED BY <1>3, <3>1, <3>2 DEF b
  <2>2. \A j \in 1..l : ~(b + j <= OpLimit)
    BY <1>5, <2>1
  <2> QED BY <1>1, <1>2, <2>2
<1>9. ASSUME i = 1 PROVE Normalizes(w.acct, tx.ops)
  <2>1. b = 0
    BY <1>3, <1>9 DEF b
  <2>2. \A j \in 1..l : j \in 1..Len(ops) /\ tx.ops[j] = ops[j]
    <3>1. \A j \in 1..l : b + j = j
      BY <2>1
    <3> QED BY <1>2, <3>1
  <2> SUFFICES ASSUME NEW m \in 1..Len(tx.ops), tx.ops[m].op = "setThresholds"
               PROVE  /\ NeedsNormalization(w.acct)
                      /\ \A x \in w.acct.extra : \E j \in 1..(m - 1) : tx.ops[j].op = "removeSigner" /\ tx.ops[j].what = x
                      /\ \A j \in 1..Len(tx.ops) : tx.ops[j].op = "setThresholds" => j = m
    BY DEF Normalizes
  <2>3. m \in 1..l /\ m \in 1..Len(ops) /\ ops[m].op = "setThresholds" /\ \A j \in 1..(m - 1) : j \in 1..l
    BY <1>5, <2>2 DEF l
  <2>4. /\ NeedsNormalization(w.acct)
        /\ \A x \in w.acct.extra : \E q \in 1..(m - 1) : ops[q].op = "removeSigner" /\ ops[q].what = x
        /\ \A q \in 1..Len(ops) : ops[q].op = "setThresholds" => q = m
    BY <1>1, <2>3
  <2> QED BY <2>2, <2>3, <2>4 DEF l
<1> QED BY <1>2, <1>2a, <1>7, <1>8, <1>9 DEF l

\* The merge through an intermediary.
LEMMA MediatorShape ==
  ASSUME NEW w, Whole(w), NEW ans, SorobanRounds(w.acct, ans) = 0, MinForward <= 2 * BaseReserve
  PROVE  LET r == MediatorMerge(Reading(w), w) IN
         \/ Refused(r, w, ans, "mediator")
         \/ r.code = "" /\ ~r.again /\ IsSeq(r.txs) /\ Len(r.txs) = 1
<1> DEFINE k == Reading(w).account
           tx == [ops |-> <<Moving("merge", "xlm", 0, "mediator"),
                           [Moving("forward", "xlm", k.xlm - MediatorFee, "destination") EXCEPT !.by = "mediator"]>>,
                 fee |-> MediatorFee, sponsored |-> FALSE, seq |-> k.seq,
                 until |-> w.now + Timeout, memo |-> "memo"]
           r == MediatorMerge(Reading(w), w)
           a == OwnFeeShortfall(k, MediatorFee)
           b == MinForward + MediatorFee - k.xlm
           short == Max({a, b}) > 0
           m == Spare(w.acct)
<1>1. r = IF short THEN Refuse("close_fee_balance_short") ELSE Batch(<<tx>>, FALSE)
  BY Zenon DEF MediatorMerge
<1> HIDE DEF tx, r
<1>2. ASSUME ~short PROVE r.code = "" /\ ~r.again /\ IsSeq(r.txs) /\ Len(r.txs) = 1
  <2>1. r = Batch(<<tx>>, FALSE)
    BY <1>1, <1>2
  <2>2. IsSeq(<<tx>>) /\ Len(<<tx>>) = 1
    BY OneIs
  <2>3. r.code = "" /\ r.txs = <<tx>> /\ r.again = FALSE
    BY <2>1, BatchIs, Zenon
  <2> QED BY <2>2, <2>3
<1>3. ASSUME short PROVE m < Owed(w, ans, "mediator")
  <2>1. Spare(k) = m /\ Sound(k) /\ FeeFloor(k) \in Nat /\ FeeFloor(k) >= 2 * BaseReserve /\ Spare(k) \in Int
    BY SpareAsRead, LeastFloor, SpareIs
  <2>2. k.xlm = m + FeeFloor(k)
    <3>1. Spare(k) = k.xlm - FeeFloor(k) /\ k.xlm \in Int
      BY <2>1 DEF Spare, Sound
    <3> QED BY <2>1, <3>1
  <2>3. a > 0 \/ b > 0
    <3>1. a \in Int /\ b \in Int
      <4>1. MediatorFee = 2
        BY DEF MediatorFee
      <4>2. a \in Int
        <5> DEFINE d == MediatorFee - Spare(k)
        <5>1. d \in Int
          BY <2>1, <4>1
        <5>2. a = Max({0, d})
          BY DEF OwnFeeShortfall
        <5> HIDE DEF d, a
        <5>3. Max({0, d}) \in {0, d}
          BY <5>1, MaxIs
        <5> QED BY <5>1, <5>2, <5>3
      <4>3. MinForward \in Nat /\ k.xlm \in Int
        BY <2>1, LimitsAssumption DEF Sound
      <4>4. b \in Int
        BY <4>1, <4>3
      <4> QED BY <4>2, <4>4
    <3> HIDE DEF a, b
    <3>2. Max({a, b}) \in {a, b}
      <4>1. \E x \in {a, b} : \A y \in {a, b} : x >= y
        BY <3>1
      <4>2. Max({a, b}) = CHOOSE x \in {a, b} : \A y \in {a, b} : x >= y
        BY DEF Max
      <4> QED BY <4>1, <4>2
    <3> QED BY <1>3, <3>1, <3>2
  <2>4. a > 0 => m < 2
    <3>1. MediatorFee = 2 /\ 2 \in Int
      BY DEF MediatorFee
    <3>2. OwnFeeShortfall(k, 2) > 0 <=> Spare(k) < 2
      BY <2>1, <3>1, ShortfallIs
    <3> QED BY <2>1, <3>1, <3>2
  <2>5. b > 0 => m < 2
    <3> DEFINE f == FeeFloor(k)
               d == 2 * BaseReserve
    <3>1. f \in Nat /\ f >= d /\ k.xlm = m + f /\ m \in Int
      BY <2>1, <2>2
    <3>2. MinForward \in Nat /\ d \in Nat /\ MinForward <= d /\ MediatorFee = 2
      BY LimitsAssumption, ListingAssumption DEF MediatorFee
    <3> HIDE DEF f, d, m, k
    <3> QED BY <3>1, <3>2
  <2>6. Owed(w, ans, "mediator") >= 2 /\ Owed(w, ans, "mediator") \in Nat
    <3> DEFINE x == Cleanup(w, ans)
               y == Cardinality(Pending(w.acct, ans))
    <3>1. x \in Nat /\ y \in Nat
      BY ClosingIs
    <3>2. Owed(w, ans, "mediator") = x + y + Direct("mediator") + MediatedFee("mediator")
      BY DEF Owed, Closing
    <3>3. Direct("mediator") = 0 /\ MediatedFee("mediator") = 2
      BY DEF Direct, MediatedFee, MediatorFee
    <3> HIDE DEF x, y
    <3> QED BY <3>1, <3>2, <3>3
  <2>7. m < 2 /\ m \in Int
    BY <2>1, <2>3, <2>4, <2>5
  <2> HIDE DEF m
  <2> QED BY <2>6, <2>7
<1>4. ASSUME short PROVE Refused(r, w, ans, "mediator")
  <2>1. r = Refuse("close_fee_balance_short")
    BY <1>1, <1>4
  <2>2. r.code = "close_fee_balance_short" /\ "close_fee_balance_short" # ""
    BY <2>1, RefuseIs
  <2> HIDE DEF short
  <2> QED BY <1>3, <1>4, <2>2 DEF Refused
<1> HIDE DEF short
<1> QED BY <1>2, <1>4 DEF r

LEMMA BatchAgain ==
  ASSUME NEW txs PROVE Batch(txs, TRUE).code = "" /\ Batch(txs, TRUE).again /\ Batch(txs, TRUE).txs = txs
BY DEF Batch

\* The last round is refused for fees only when the account has less than it owes; one that is not the
\* last is of operations that each take something off the account.
LEMMA CloseShape ==
  ASSUME NEW w, Whole(w), NEW ans, NEW p, p \in {"direct", "mediator"}, SorobanRounds(w.acct, ans) = 0,
         Pending(w.acct, ans) = {}, MinForward <= 2 * BaseReserve,
         \A a \in AssetSet : ans.asset[a] \in {"none", "convert", "transfer", "issuer"}
  PROVE  LET r == CloseRound(Reading(w), w, ans, p) IN
         \/ Refused(r, w, ans, p)
         \/ r.code = "" /\ r.again /\ CloseTxs(r.txs, w)
         \/ r.code = "" /\ ~r.again /\ IsSeq(r.txs) /\ Len(r.txs) <= 1
<1> DEFINE s == Reading(w)
           ops == CloseOps(s, w, ans, p)
           pack == Pack(s, w, ops)
           round == CloseRound(s, w, ans, p)
           txs == pack.txs
           m == Spare(w.acct)
           n == CeilDiv(Len(ops), OpLimit)
           x == Cleanup(w, ans)
           codes == {"asset_route_lost", "quote_drifted", "transfer_destination_unusable"}
           tooLittle == s.account.xlm - Fees(txs) + ConversionFloor(txs) < MinForward + MediatorFee
           fits == \/ Refused(round, w, ans, p)
                   \/ round.code = "" /\ round.again /\ CloseTxs(round.txs, w)
                   \/ round.code = "" /\ ~round.again /\ IsSeq(round.txs) /\ Len(round.txs) <= 1
<1>1. \/ \E code \in codes : round = Refuse(code)
      \/ pack.code # "" /\ round = pack
      \/ /\ pack.code = ""
         /\ \/ p = "direct" /\ Len(txs) > 1 /\ round = Batch(<<Head(txs)>>, TRUE)
            \/ p = "direct" /\ ~(Len(txs) > 1) /\ round = pack
            \/ p # "direct" /\ round = MediatorMerge(s, w)
            \/ p # "direct" /\ tooLittle /\ round = Refuse("close_fee_balance_short")
            \/ p # "direct" /\ round = Batch(txs, TRUE)
  BY Zenon DEF CloseRound
<1>2. Quiescent(w.acct, ans) /\ Owed(w, ans, p) = Closing(w, ans, p)
  BY SorobanRoundsAre DEF Quiescent, Owed, Whole
<1>3. CloseList(ops, w, ans, p)
  BY <1>2, CloseOpsAre
<1>4. IsSeq(ops) /\ Len(ops) \in Nat /\ Len(ops) <= x + Direct(p) /\ \A j \in 1..Len(ops) : ops[j].min \in Nat
  BY <1>3, SeqIs DEF CloseList
<1>5. /\ x \in Nat /\ Direct(p) \in Nat /\ MediatedFee(p) \in Nat /\ Closing(w, ans, p) = x + Direct(p) + MediatedFee(p)
  <2>1. Cardinality(Pending(w.acct, ans)) = 0
    BY FS_EmptySet
  <2>2. x \in Nat /\ Direct(p) \in Nat /\ MediatedFee(p) \in Nat
    BY ClosingIs
  <2>3. Closing(w, ans, p) = x + 0 + Direct(p) + MediatedFee(p)
    BY <2>1 DEF Closing
  <2> HIDE DEF x
  <2> QED BY <2>2, <2>3
<1>6. Spare(s.account) = m /\ m \in Int /\ Sound(s.account)
  BY SpareAsRead, SpareIs DEF Whole
<1> HIDE DEF ops, n
<1>7. /\ Spare(s.account) >= Len(ops) => pack.code = ""
      /\ pack.code = "" => IsSeq(txs) /\ Len(txs) = n /\ \A i \in 1..Len(txs) : Packed(txs[i], ops, i)
      /\ ~pack.again
  BY ZenonT(60), <1>4, <1>6, PackShape, PackIs DEF n
<1> HIDE DEF pack, txs, x, m, s
<1>8. ASSUME pack.code # "" PROVE m < Owed(w, ans, p)
  <2>1. ~(m >= Len(ops)) /\ m \in Int /\ Len(ops) \in Nat
    BY <1>4, <1>6, <1>7, <1>8
  <2>2. Owed(w, ans, p) = x + Direct(p) + MediatedFee(p)
    BY <1>2, <1>5
  <2>3. x \in Nat /\ Direct(p) \in Nat /\ MediatedFee(p) \in Nat /\ Len(ops) <= x + Direct(p)
    BY <1>4, <1>5
  <2> QED BY <2>1, <2>2, <2>3
<1>9. pack.code \in {"", "close_fee_balance_short"}
  BY <1>4, PackIs DEF pack
<1>10. ASSUME pack.code = "", NEW i \in 1..Len(txs), p = "direct" => i < Len(txs)
       PROVE  /\ IsSeq(txs[i].ops) /\ Len(txs[i].ops) \in Nat \ {0} /\ txs[i].fee \in Nat /\ txs[i].fee <= Len(txs[i].ops)
              /\ \A j \in 1..Len(txs[i].ops) : Exact(w.acct, txs[i].ops[j])
              /\ i = 1 => Normalizes(w.acct, txs[i].ops)
              /\ i > 1 => \A j \in 1..Len(txs[i].ops) : txs[i].ops[j].op # "setThresholds"
  <2>1. i \in 1..CeilDiv(Len(ops), OpLimit) /\ Packed(txs[i], ops, i) /\ (p = "direct" => i < CeilDiv(Len(ops), OpLimit))
    BY <1>7, <1>10 DEF n
  <2> QED BY <1>3, <2>1, ClosePacked
<1> HIDE DEF round, codes
<1>11. ASSUME \E code \in codes : round = Refuse(code) PROVE fits
  <2>1. PICK code \in codes : round = Refuse(code)
    BY <1>11
  <2>2. code # "" /\ code # "close_fee_balance_short"
    BY DEF codes
  <2>3. Refused(round, w, ans, p)
    BY <2>1, <2>2, RefusedFor
  <2> QED BY <2>3
<1>12. ASSUME pack.code # "" /\ round = pack PROVE fits
  <2>1. Refused(round, w, ans, p)
    <3>1. m < Owed(w, ans, p) /\ round.code # ""
      BY <1>8, <1>12
    <3> QED BY <3>1 DEF Refused, m
  <2> QED BY <2>1
<1>13. ASSUME pack.code = "", p = "direct", Len(txs) > 1, round = Batch(<<Head(txs)>>, TRUE) PROVE fits
  <2> DEFINE first == Head(txs)
  <2>1. IsSeq(txs) /\ txs # <<>> /\ Len(txs) \in Nat
    <3>1. IsSeq(txs)
      BY <1>7, <1>13
    <3>1a. Len(txs) > 1
      BY <1>13, Zenon
    <3>2. Len(txs) # 0 /\ Len(txs) \in Nat
      BY <3>1, <3>1a, SeqIs
    <3> QED BY <3>1, <3>2, EmptyIs
  <2>2. first = txs[1] /\ 1 \in 1..Len(txs) /\ 1 < Len(txs)
    BY <1>13, <2>1, HeadIs
  <2> HIDE DEF first
  <2>3. /\ IsSeq(first.ops) /\ Len(first.ops) \in Nat \ {0} /\ first.fee \in Nat /\ first.fee <= Len(first.ops)
        /\ \A j \in 1..Len(first.ops) : Exact(w.acct, first.ops[j])
        /\ Normalizes(w.acct, first.ops)
    BY <1>10, <1>13, <2>2
  <2>4. IsSeq(<<first>>) /\ Len(<<first>>) = 1 /\ <<first>>[1] = first /\ \A i \in 1..1 : i = 1 /\ ~(i > 1)
    BY OneIs
  <2>5. round.code = "" /\ round.again /\ round.txs = <<first>>
    <3>1. round = Batch(<<first>>, TRUE)
      BY <1>13 DEF first
    <3> DEFINE one == <<first>>
    <3> HIDE DEF one
    <3>2a. Batch(one, TRUE).code = "" /\ Batch(one, TRUE).again /\ Batch(one, TRUE).txs = one
      BY BatchAgain, Zenon
    <3>2. Batch(<<first>>, TRUE).code = "" /\ Batch(<<first>>, TRUE).again /\ Batch(<<first>>, TRUE).txs = <<first>>
      BY <3>2a, Zenon DEF one
    <3> QED BY <3>1, <3>2, Zenon
  <2> DEFINE one == <<first>>
  <2>6. IsSeq(one) /\ \A i \in 1..Len(one) : one[i] = first /\ i = 1 /\ ~(i > 1)
    BY <2>4
  <2> HIDE DEF one
  <2>7. CloseTxs(one, w)
    BY <2>3, <2>6 DEF CloseTxs
  <2>8. CloseTxs(round.txs, w)
    BY <2>5, <2>7 DEF one
  <2> QED BY <2>5, <2>8
<1>14. ASSUME pack.code = "", ~(Len(txs) > 1), round = pack PROVE fits
  <2>1. IsSeq(txs) /\ Len(txs) <= 1 /\ round.txs = txs /\ round.code = "" /\ ~round.again
    <3>1. IsSeq(txs) /\ ~pack.again
      BY <1>7, <1>14
    <3>2. Len(txs) \in Nat
      BY <3>1, SeqIs
    <3>2a. ~(Len(txs) > 1)
      BY <1>14, Zenon
    <3>3. Len(txs) <= 1
      BY <3>2, <3>2a
    <3>4. round.txs = txs /\ round.code = "" /\ ~round.again
      BY <1>14, <3>1, Zenon DEF txs
    <3> QED BY <3>1, <3>3, <3>4
  <2> QED BY <2>1
<1>15. ASSUME p # "direct", round = MediatorMerge(s, w) PROVE fits
  <2>1. p = "mediator"
    BY <1>15
  <2> DEFINE r == MediatorMerge(s, w)
  <2>2. Refused(r, w, ans, p) \/ (r.code = "" /\ ~r.again /\ IsSeq(r.txs) /\ Len(r.txs) = 1)
    <3>1. \A v : v = "mediator" =>
            Refused(r, w, ans, v) \/ (r.code = "" /\ ~r.again /\ IsSeq(r.txs) /\ Len(r.txs) = 1)
      BY MediatorShape DEF s
    <3> HIDE DEF r
    <3> QED BY <2>1, <3>1, Zenon
  <2> HIDE DEF r
  <2>3. Refused(round, w, ans, p) \/ (round.code = "" /\ ~round.again /\ IsSeq(round.txs) /\ Len(round.txs) = 1)
    <3>1. round = r /\ r = round
      BY <1>15, Zenon DEF r
    <3>2. Refused(r, w, ans, p) \/ (r.code = "" /\ ~r.again /\ IsSeq(r.txs) /\ Len(r.txs) = 1)
      BY <2>2
    <3> QED BY <3>1, <3>2, Zenon
  <2>4. \A u1 : u1 = 1 => u1 <= 1
    OBVIOUS
  <2>5. Refused(round, w, ans, p) \/ (round.code = "" /\ ~round.again /\ IsSeq(round.txs) /\ Len(round.txs) <= 1)
    BY <2>3, <2>4, Zenon
  <2> QED BY <2>5, Zenon
<1>16. ASSUME pack.code = "", p # "direct", tooLittle, round = Refuse("close_fee_balance_short") PROVE fits
  <2> DEFINE f == Fees(txs)
             c == ConversionFloor(txs)
             g == FeeFloor(s.account)
             d == 2 * BaseReserve
             y == s.account.xlm
  <2>1. f \in Nat /\ f <= Len(ops) /\ c \in Nat
    BY <1>4, <1>7, <1>16, PackCosts DEF n
  <2>2. g \in Nat /\ g >= d /\ y = m + g
    <3>1. g \in Nat /\ g >= d
      BY <1>6, LeastFloor
    <3>2. m = y - g /\ y \in Int
      BY <1>6 DEF Spare, Sound
    <3> HIDE DEF g, d, y
    <3> QED BY <3>1, <3>2
  <2>3. MinForward \in Nat /\ d \in Nat /\ MinForward <= d /\ MediatorFee = 2 /\ MediatedFee(p) = 2 /\ Direct(p) = 0
    <3>1. MinForward \in Nat /\ BaseReserve \in Nat
      BY LimitsAssumption, ListingAssumption
    <3>2. p = "mediator"
      BY <1>16
    <3> QED BY <3>1, <3>2 DEF MediatorFee, MediatedFee, Direct, d
  <2>4. y - f + c < MinForward + MediatorFee
    BY <1>16
  <2> HIDE DEF f, c, g, d, y
  <2>5. m < x + 2
    BY <1>4, <1>5, <1>6, <2>1, <2>2, <2>3, <2>4
  <2>6. m < Owed(w, ans, p)
    BY <1>2, <1>5, <2>3, <2>5
  <2>7. round.code = "close_fee_balance_short" /\ "close_fee_balance_short" # ""
    BY <1>16, RefuseIs
  <2>8. Refused(round, w, ans, p)
    BY <2>6, <2>7 DEF Refused, m
  <2> QED BY <2>8
<1>17. ASSUME pack.code = "", p # "direct", round = Batch(txs, TRUE) PROVE fits
  <2>1. CloseTxs(txs, w)
    <3>1. IsSeq(txs)
      BY <1>7, <1>17
    <3>2. \A i \in 1..Len(txs) :
              /\ IsSeq(txs[i].ops) /\ Len(txs[i].ops) \in Nat \ {0} /\ txs[i].fee \in Nat /\ txs[i].fee <= Len(txs[i].ops)
              /\ \A j \in 1..Len(txs[i].ops) : Exact(w.acct, txs[i].ops[j])
              /\ i = 1 => Normalizes(w.acct, txs[i].ops)
              /\ i > 1 => \A j \in 1..Len(txs[i].ops) : txs[i].ops[j].op # "setThresholds"
      BY <1>10, <1>17
    <3> QED BY <3>1, <3>2 DEF CloseTxs
  <2>2. round.code = "" /\ round.again /\ round.txs = txs
    <3>1. Batch(txs, TRUE).code = "" /\ Batch(txs, TRUE).again /\ Batch(txs, TRUE).txs = txs
      <4> DEFINE all == txs
      <4> HIDE DEF all
      <4>1. Batch(all, TRUE).code = "" /\ Batch(all, TRUE).again /\ Batch(all, TRUE).txs = all
        BY BatchAgain, Zenon
      <4> QED BY <4>1, Zenon DEF all
    <3> QED BY <1>17, <3>1, Zenon
  <2> QED BY <2>1, <2>2
<1>18. fits
  <2> HIDE DEF fits, tooLittle
  <2> QED BY <1>1, <1>11, <1>12, <1>13, <1>14, <1>15, <1>16, <1>17
<1> QED BY Zenon, <1>18 DEF round, s

\* What a round is, for the account it was built for: one Soroban move, the claims, what takes the classic
\* account apart, or the last.
QueueShape(q, more, w, ans, p) ==
  \/ more /\ SorobanTxs(q, w, ans, p)
  \/ more /\ SorobanRounds(w.acct, ans) = 0 /\ ClaimTxs(q, w, ans)
  \/ more /\ SorobanRounds(w.acct, ans) = 0 /\ Quiescent(w.acct, ans) /\ CloseTxs(q, w)
  \/ ~more /\ IsSeq(q) /\ Len(q) <= 1

LEMMA BuildShape ==
  ASSUME NEW w, Whole(w), NEW t, NEW ans, NEW p, p \in {"direct", "mediator"},
         \A a \in AssetSet : ans.asset[a] \in {"none", "convert", "transfer", "issuer"},
         SorobanFee <= SorobanEstimate, Len(Claims) <= 2 * ReadCeiling, MinForward <= 2 * BaseReserve
  PROVE  LET r == BuildRound(Reading(w), w, t, ans, p) IN
         Refused(r, w, ans, p) \/ (r.code = "" /\ QueueShape(r.txs, r.again, w, ans, p))
<1> DEFINE s == Reading(w)
           exit == ExitRound(s, w, ans, p)
           send == TokenTransferRound(s, w, ans, p)
           swap == TokenConversionRound(s, w, ans, p)
           claim == ClaimRound(s, w, t, ans)
           close == CloseRound(s, w, ans, p)
           round == BuildRound(s, w, t, ans, p)
           fits(r) == Refused(r, w, ans, p) \/ (r.code = "" /\ QueueShape(r.txs, r.again, w, ans, p))
<1>1. \/ exit # NoRound /\ round = exit
      \/ exit = NoRound /\ send # NoRound /\ round = send
      \/ exit = NoRound /\ send = NoRound /\ swap # NoRound /\ round = swap
      \/ exit = NoRound /\ send = NoRound /\ swap = NoRound /\ claim # NoRound /\ round = claim
      \/ exit = NoRound /\ send = NoRound /\ swap = NoRound /\ claim = NoRound /\ round = close
  BY Zenon DEF BuildRound
<1>2. ASSUME NEW r, SorobanShape(r, w, ans, p) PROVE fits(r)
  BY <1>2 DEF SorobanShape, QueueShape
<1>3. fits(exit) /\ (exit = NoRound => Positions(w.acct) = {})
  <2>1. SorobanShape(exit, w, ans, p) /\ (exit = NoRound => Positions(w.acct) = {})
    BY ExitShape
  <2> HIDE DEF exit, fits
  <2> QED BY <1>2, <2>1
<1>4. ASSUME exit = NoRound
      PROVE  fits(send) /\ (send = NoRound => Positions(w.acct) = {} /\ Moves(w.acct, ans, {"transfer"}) = {})
  <2>1. SorobanShape(send, w, ans, p) /\ (send = NoRound => Moves(w.acct, ans, {"transfer"}) = {})
    BY <1>3, <1>4, TransferShape
  <2> HIDE DEF exit, send, fits
  <2> QED BY <1>2, <1>3, <1>4, <2>1
<1>5. ASSUME exit = NoRound, send = NoRound PROVE fits(swap) /\ (swap = NoRound => SorobanRounds(w.acct, ans) = 0)
  <2>1. SorobanShape(swap, w, ans, p) /\ (swap = NoRound => SorobanRounds(w.acct, ans) = 0)
    BY <1>4, <1>5, ConversionShape
  <2> HIDE DEF swap, fits
  <2> QED BY <1>2, <2>1
<1>6. ASSUME exit = NoRound, send = NoRound, swap = NoRound
      PROVE  fits(claim) /\ SorobanRounds(w.acct, ans) = 0 /\ (claim = NoRound => Pending(w.acct, ans) = {})
  <2>1. SorobanRounds(w.acct, ans) = 0
    BY <1>5, <1>6
  <2>2. /\ Refused(claim, w, ans, p) \/ (claim.code = "" /\ claim.again /\ ClaimTxs(claim.txs, w, ans))
        /\ claim = NoRound => Pending(w.acct, ans) = {}
    BY <2>1, ClaimShape
  <2> HIDE DEF claim
  <2> QED BY <2>1, <2>2 DEF QueueShape
<1>7. ASSUME exit = NoRound, send = NoRound, swap = NoRound, claim = NoRound PROVE fits(close)
  <2>1. SorobanRounds(w.acct, ans) = 0 /\ Pending(w.acct, ans) = {}
    BY <1>6, <1>7
  <2>2. \/ Refused(close, w, ans, p)
        \/ close.code = "" /\ close.again /\ CloseTxs(close.txs, w)
        \/ close.code = "" /\ ~close.again /\ IsSeq(close.txs) /\ Len(close.txs) <= 1
    BY <2>1, CloseShape
  <2>3. Quiescent(w.acct, ans)
    BY <2>1, SorobanRoundsAre DEF Quiescent, Whole
  <2> HIDE DEF close
  <2> QED BY <2>1, <2>2, <2>3 DEF QueueShape
<1> HIDE DEF fits, exit, send, swap, claim, close, round
<1>8. fits(round)
  BY <1>1, <1>3, <1>4, <1>5, <1>6, <1>7
<1> QED BY <1>8 DEF fits, round, s

\* The claims of a reading are those of the account it lists first.
Listed(claims) ==
  LET seen == InOrder(Claims, claims) IN ToSet(SubSeq(seen, 1, Min({Len(seen), ReadCeiling})))

LEMMA ListedIs == ASSUME NEW w, Whole(w) PROVE Reading(w).account.claims = Listed(w.acct.claims)
<1>1. Reading(w).account = [w.acct EXCEPT !.claims = Listed(w.acct.claims)]
  BY DEF Reading, Listed
<1>2. "claims" \in DOMAIN w.acct
  BY DEF Whole, Sound, AccountOK
<1> QED BY <1>1, <1>2

\* What the bound of remaining-transactions.ts counts is not changed by a Soroban round.
LEMMA BoundSame ==
  ASSUME NEW w, Whole(w), NEW v, Whole(v), Others(v.acct, w.acct, {"seq", "xlm", "lines", "tokens", "exits"}),
         Held(v.acct) = Held(w.acct)
  PROVE  ClassicOpsBound(Reading(v).account) = ClassicOpsBound(Reading(w).account)
<1> DEFINE k == Reading(w).account
           e == Reading(v).account
<1>1. /\ v.acct.extra = w.acct.extra /\ v.acct.data = w.acct.data /\ v.acct.offers = w.acct.offers
      /\ v.acct.sponsors = w.acct.sponsors /\ v.acct.claims = w.acct.claims
  BY DEF Others
<1>2. k.claims = e.claims
  BY <1>1, ListedIs
<1>3. Others(k, w.acct, {"claims"}) /\ Others(e, v.acct, {"claims"})
  BY ReadingShows
<1> HIDE DEF k, e
<1>4. /\ k.extra = e.extra /\ k.data = e.data /\ k.offers = e.offers /\ k.sponsors = e.sponsors
      /\ k.lines = w.acct.lines /\ e.lines = v.acct.lines
  BY <1>1, <1>3 DEF Others
<1>5. Held(k) = Held(e)
  BY <1>4 DEF Held
<1>6. ClassicOpsBound(k) = ClassicOpsBound(e)
  BY <1>2, <1>4, <1>5 DEF ClassicOpsBound
<1> QED BY <1>6 DEF k, e

\* After a Soroban round the account has what it still owes.
LEMMA SorobanLeavesEnough ==
  ASSUME NEW w, Whole(w), NEW ans, NEW p, NEW q, SorobanTxs(q, w, ans, p), NEW v, SorobanTaken(v, w, ans),
         Spare(v.acct) >= Spare(w.acct) - q[1].fee, Len(Claims) <= 2 * ReadCeiling
  PROVE  Spare(v.acct) >= Owed(v, ans, p)
<1> DEFINE n == SorobanRounds(w.acct, ans)
           m == SorobanRounds(v.acct, ans)
           k == Reading(w).account
           e == Reading(v).account
           b == ClassicOpsBound(k)
           x == Spare(v.acct)
           y == Spare(w.acct)
           z == Owed(v, ans, p)
           f == MediatedFee(p)
<1>1. Whole(v) /\ ClassicOpsBound(e) = b
  BY BoundSame DEF SorobanTaken
<1>2. n \in Nat \ {0} /\ m \in Nat /\ m + 1 <= n /\ x \in Int /\ y \in Int
  BY <1>1, SorobanRoundsAre, SpareIs DEF Whole, SorobanTaken, SorobanTxs
<1>3. y >= SorobanFee + LaterOwnFees(k, n - 1, p) /\ x >= y - SorobanFee
  BY DEF SorobanTxs
<1>4. LaterOwnFees(k, n - 1, p) = SorobanEstimate * (n - 1) + b + f /\ b \in Nat
  <2> DEFINE c == n - 1
  <2>1. c \in Nat
    BY <1>2
  <2> HIDE DEF c
  <2>2. /\ ClassicOpsBound(k) \in Nat
        /\ LaterOwnFees(k, c, p) = SorobanEstimate * c + ClassicOpsBound(k) + MediatedFee(p)
    BY <2>1, ClosingIsCovered
  <2> HIDE DEF k
  <2> QED BY <2>2 DEF c
<1>5. z <= SorobanEstimate * m + b + f /\ z \in Nat
  <2>1. /\ LaterOwnFees(e, m, p) = SorobanEstimate * m + ClassicOpsBound(e) + MediatedFee(p)
        /\ LaterOwnFees(e, m, p) \in Nat /\ Closing(v, ans, p) <= LaterOwnFees(e, m, p)
    BY <1>1, <1>2, ClosingIsCovered
  <2>2. Closing(v, ans, p) \in Nat
    BY <1>1, ClosingIs
  <2>3. z \in {LaterOwnFees(e, m, p), Closing(v, ans, p)}
    BY DEF Owed
  <2>4. LaterOwnFees(e, m, p) = SorobanEstimate * m + b + f
    BY <1>1, <2>1
  <2> DEFINE l == LaterOwnFees(e, m, p)
             c == Closing(v, ans, p)
             d == SorobanEstimate * m + b + f
  <2>5. l = d /\ l \in Nat /\ c <= l /\ c \in Nat /\ z \in {l, c}
    BY <2>1, <2>2, <2>3, <2>4
  <2> HIDE DEF z, l, c, d
  <2>6. z <= d /\ z \in Nat
    BY <2>5
  <2> QED BY <2>6 DEF d
<1>6. SorobanFee \in Nat /\ SorobanEstimate \in Nat /\ f \in Nat
  <2>1. f \in {0, 2}
    BY ClosingIs
  <2> HIDE DEF f
  <2> QED BY <2>1, FeeAssumption, LimitsAssumption
<1> HIDE DEF n, m, b, x, y, z, f
<1>7. SorobanEstimate * m <= SorobanEstimate * (n - 1) /\ SorobanEstimate * m \in Nat /\ SorobanEstimate * (n - 1) \in Nat
  <2>1. m \in Nat /\ n - 1 \in Nat /\ m <= n - 1
    BY <1>2
  <2>2. m * SorobanEstimate \in Nat /\ (n - 1) * SorobanEstimate \in Nat /\ m * SorobanEstimate <= (n - 1) * SorobanEstimate
    BY <1>6, <2>1, Times
  <2> QED BY <1>6, <2>1, <2>2
<1> DEFINE l == LaterOwnFees(k, n - 1, p)
           g == SorobanEstimate * m
           h == SorobanEstimate * (n - 1)
<1>8. l = h + b + f /\ y >= SorobanFee + l /\ x >= y - SorobanFee /\ z <= g + b + f /\ g <= h
  BY <1>3, <1>4, <1>5, <1>7 DEF f
<1>9. l \in Int /\ h \in Nat /\ g \in Nat /\ b \in Nat /\ z \in Nat
  BY <1>4, <1>5, <1>6, <1>7, <1>8
<1> HIDE DEF l, g, h
<1>10. x >= z
  BY <1>2, <1>6, <1>8, <1>9
<1> QED BY <1>10 DEF x, z

\* The names of the rounds that have landed: whether a Soroban round is among them, or one that opened lines.
Moved(names) == \E n \in ToSet(names) : n \in SorobanOps
Opened(names) == "addLine" \in ToSet(names)

LEMMA NamesAfter ==
  ASSUME NEW names, IsSeq(names), NEW x
  PROVE  /\ IsSeq(Append(names, x)) /\ ToSet(Append(names, x)) = ToSet(names) \cup {x}
         /\ Moved(Append(names, x)) <=> (Moved(names) \/ x \in SorobanOps)
         /\ Opened(Append(names, x)) <=> (Opened(names) \/ x = "addLine")
<1> DEFINE S == ToSet(names) \cup {x}
           more == Append(names, x)
           n == Len(names)
<1>1. names \in Seq(S) /\ x \in S /\ n \in Nat /\ ToSet(names) = {names[i] : i \in 1..n}
  <2>1. names \in Seq(ToSet(names)) /\ n \in Nat /\ ToSet(names) = {names[i] : i \in 1..n}
    BY SeqIs DEF IsSeq
  <2>2. \A Q, R : Q \subseteq R => \A q \in Seq(Q) : q \in Seq(R)
    OBVIOUS
  <2> QED BY <2>1, <2>2
<1> HIDE DEF S, n
<1>2. /\ more \in Seq(S) /\ Len(more) = n + 1 /\ more[n + 1] = x /\ \A i \in 1..n : more[i] = names[i]
  BY <1>1, AppendProperties DEF n
<1> HIDE DEF more
<1>3. IsSeq(more) /\ ToSet(more) \subseteq S
  BY <1>2, InSeq
<1>4. ToSet(more) = {more[i] : i \in 1..(n + 1)}
  BY <1>2, <1>3, SeqIs
<1>5. S \subseteq ToSet(more)
  <2>1. \A i \in 1..n : i \in 1..(n + 1) /\ n + 1 \in 1..(n + 1)
    BY <1>1
  <2>2. n + 1 \in 1..(n + 1)
    BY <1>1
  <2> QED BY <1>1, <1>2, <1>4, <2>1, <2>2 DEF S
<1>6. IsSeq(more) /\ ToSet(more) = ToSet(names) \cup {x}
  BY <1>3, <1>5 DEF S
<1>7. (Moved(more) <=> (Moved(names) \/ x \in SorobanOps)) /\ (Opened(more) <=> (Opened(names) \/ x = "addLine"))
  BY <1>6 DEF Moved, Opened
<1> QED BY <1>6, <1>7 DEF more

\* The Soroban rounds to come depend on the tokens and the positions alone.
LEMMA RoundsSame ==
  ASSUME NEW k, NEW e, e.tokens = k.tokens, e.exits = k.exits, NEW ans
  PROVE  /\ SorobanRounds(e, ans) = SorobanRounds(k, ans) /\ (Foreseen(k) => Foreseen(e))
         /\ Positions(e) = Positions(k)
<1>1. Positions(e) = Positions(k) /\ HeldTokens(e) = HeldTokens(k)
  BY DEF Positions, HeldTokens
<1>2. First(e) = First(k) /\ \A which : Moves(e, ans, which) = Moves(k, ans, which)
  BY <1>1 DEF First, Moves
<1>3. SorobanRounds(e, ans) = SorobanRounds(k, ans)
  BY <1>1, <1>2 DEF SorobanRounds
<1>4. Foreseen(k) => Foreseen(e)
  BY DEF Foreseen
<1> QED BY <1>1, <1>3, <1>4

\* What is kept for the rounds to come, once a Soroban round has landed and no line was opened.
Kept(w, ans, p, names) == Moved(names) /\ ~Opened(names) => Spare(w.acct) >= Owed(w, ans, p)

\* The transactions of a round that are still to submit.
ClaimRest(q, w, ans, names) ==
  /\ SorobanRounds(w.acct, ans) = 0 /\ IsSeq(q) /\ \A i \in 1..Len(q) : ClaimOps(q[i], w, ans)
  /\ \A i \in 1..Len(q) : Opens(q[i]) => Opened(names) \/ q[1].ops[1].op = "addLine"
CloseRest(q, w, ans) == SorobanRounds(w.acct, ans) = 0 /\ Quiescent(w.acct, ans) /\ CloseTxs(q, w)

QueueIs(q, more, w, ans, p, names) ==
  \/ more /\ SorobanTxs(q, w, ans, p)
  \/ more /\ ClaimRest(q, w, ans, names)
  \/ more /\ CloseRest(q, w, ans)
  \/ ~more /\ IsSeq(q) /\ Len(q) <= 1

LEMMA BuiltIs ==
  ASSUME NEW q, NEW more, NEW w, NEW ans, NEW p, NEW names, QueueShape(q, more, w, ans, p)
  PROVE  QueueIs(q, more, w, ans, p, names)
BY DEF QueueShape, QueueIs, ClaimRest, CloseRest, ClaimTxs

\* A Soroban round is sent.
LEMMA SorobanSent ==
  ASSUME NEW w, Whole(w), Foreseen(w.acct), NEW ans, NEW p, NEW q, SorobanTxs(q, w, ans, p), NEW names, IsSeq(names),
         OpOK(q[1].ops[1]), Applied(w, q[1]).ok, Len(Claims) <= 2 * ReadCeiling
  PROVE  LET v == Applied(w, q[1]).w IN
         Whole(v) /\ Foreseen(v.acct) /\ Kept(v, ans, p, Append(names, q[1].ops[1].op)) /\ Tail(q) = <<>>
<1> DEFINE tx == q[1]
           v == Applied(w, tx).w
<1>1. /\ IsSeq(q) /\ Len(q) = 1 /\ Len(tx.ops) = 1 /\ tx.fee \in Nat /\ SorobanMove(w.acct, ans, tx.ops[1])
  BY FeeAssumption DEF SorobanTxs
<1>2. SorobanTaken(v, w, ans) /\ Foreseen(v.acct) /\ Spare(v.acct) >= Spare(w.acct) - tx.fee
  BY <1>1, TransactionMoved
<1>3. Whole(v)
  BY <1>2 DEF SorobanTaken
<1> HIDE DEF v, tx
<1>4. Spare(v.acct) >= Owed(v, ans, p)
  BY <1>2, SorobanLeavesEnough DEF tx
<1>5. Tail(q) = <<>>
  <2>1. q # <<>>
    BY <1>1, EmptyIs
  <2>2. IsSeq(Tail(q)) /\ \A i \in 1..Len(Tail(q)) : i + 1 \in 1..Len(q)
    BY <1>1, <2>1, HeadIs
  <2> DEFINE m == Len(Tail(q))
  <2>3. m \in Nat /\ \A i \in 1..m : i + 1 \in 1..1
    BY <1>1, <2>2, SeqIs
  <2> HIDE DEF m
  <2>4. m = 0
    BY <2>3
  <2> DEFINE rest == Tail(q)
  <2>5. IsSeq(rest) /\ Len(rest) = 0
    BY <2>2, <2>4 DEF m
  <2> HIDE DEF rest
  <2>6. rest = <<>>
    <3>1. ToSet(rest) = {}
      BY <2>5, SeqIs
    <3> QED BY <2>5, <3>1, EmptySetIsEmptySeq
  <2> QED BY <2>6 DEF rest
<1> QED BY <1>2, <1>3, <1>4, <1>5 DEF Kept, v, tx

\* The next transaction, and those after it.
LEMMA RestIs ==
  ASSUME NEW q, IsSeq(q), q # <<>>
  PROVE  /\ 1 \in 1..Len(q) /\ Head(q) = q[1] /\ IsSeq(Tail(q))
         /\ \A i \in 1..Len(Tail(q)) : i + 1 \in 1..Len(q) /\ i + 1 > 1 /\ Tail(q)[i] = q[i + 1]
<1>1. /\ 1 \in 1..Len(q) /\ Head(q) = q[1] /\ IsSeq(Tail(q))
      /\ \A i \in 1..Len(Tail(q)) : i + 1 \in 1..Len(q) /\ Tail(q)[i] = q[i + 1]
  BY HeadIs
<1>2. \A i \in 1..Len(Tail(q)) : i + 1 > 1
  OBVIOUS
<1> QED BY <1>1, <1>2

\* A transaction of claims alone is paid for out of what was kept for it.
LEMMA ClaimsPaid ==
  ASSUME NEW w, Whole(w), NEW ans, NEW p, NEW tx, tx.fee \in Nat, tx.fee <= Len(tx.ops), Len(tx.ops) \in Nat,
         SorobanRounds(w.acct, ans) = 0, \A j \in 1..Len(tx.ops) : tx.ops[j].op = "claim",
         NEW v, ClaimedUpto(v, w, ans, tx, Len(tx.ops)), SorobanRounds(v.acct, ans) = 0,
         Spare(w.acct) >= Owed(w, ans, p)
  PROVE  Spare(v.acct) >= Owed(v, ans, p)
<1> DEFINE n == Len(tx.ops)
           a == Cardinality(Pending(w.acct, ans))
           b == Cardinality(Pending(v.acct, ans))
           c == Cleanup(w, ans)
           d == Cleanup(v, ans)
           e == Direct(p)
           f == MediatedFee(p)
           x == Spare(w.acct)
           y == Spare(v.acct)
           fee == tx.fee
<1>1. Whole(v) /\ b + n <= a /\ d <= c /\ y >= x - fee
  BY DEF ClaimedUpto
<1>2. /\ a \in Nat /\ b \in Nat /\ c \in Nat /\ d \in Nat /\ e \in 0..1 /\ f \in {0, 2}
  BY <1>1, ClosingIs
<1>3. x \in Int /\ y \in Int
  BY <1>1, SpareIs DEF Whole
<1>4. Owed(w, ans, p) = c + a + e + f /\ Owed(v, ans, p) = d + b + e + f
  BY DEF Owed, Closing
<1>5. fee \in Nat /\ n \in Nat /\ fee <= n
  OBVIOUS
<1> DEFINE g == Owed(w, ans, p)
           h == Owed(v, ans, p)
<1>6. g = c + a + e + f /\ h = d + b + e + f /\ x >= g
  BY <1>4
<1> HIDE DEF n, a, b, c, d, e, f, x, y, fee, g, h
<1>7. y >= h
  BY <1>1, <1>2, <1>3, <1>5, <1>6
<1> QED BY <1>7 DEF y, h

\* A transaction of a claim round is sent.
LEMMA ClaimSent ==
  ASSUME NEW w, Whole(w), Foreseen(w.acct), NEW ans, NEW p, NEW names, IsSeq(names), Kept(w, ans, p, names),
         NEW q, ClaimRest(q, w, ans, names), q # <<>>,
         \A i \in 1..Len(q[1].ops) : OpOK(q[1].ops[i]), Applied(w, q[1]).ok
  PROVE  LET v == Applied(w, q[1]).w
             after == Append(names, q[1].ops[1].op) IN
         Whole(v) /\ Foreseen(v.acct) /\ Kept(v, ans, p, after) /\ ClaimRest(Tail(q), v, ans, after)
<1> DEFINE tx == q[1]
           v == Applied(w, tx).w
           after == Append(names, tx.ops[1].op)
<1>1. /\ SorobanRounds(w.acct, ans) = 0 /\ IsSeq(q) /\ \A i \in 1..Len(q) : ClaimOps(q[i], w, ans)
      /\ \A i \in 1..Len(q) : Opens(q[i]) => Opened(names) \/ tx.ops[1].op = "addLine"
  BY DEF ClaimRest
<1>2. /\ 1 \in 1..Len(q) /\ IsSeq(Tail(q))
      /\ \A i \in 1..Len(Tail(q)) : i + 1 \in 1..Len(q) /\ Tail(q)[i] = q[i + 1]
  BY <1>1, RestIs
<1>3. ClaimOps(tx, w, ans) /\ (Opens(tx) => Opened(names) \/ tx.ops[1].op = "addLine")
  BY <1>1, <1>2
<1>4. Applied(w, tx).ok /\ \A i \in 1..Len(tx.ops) : OpOK(tx.ops[i])
  OBVIOUS
<1> HIDE DEF tx
<1>5. /\ IsSeq(tx.ops) /\ Len(tx.ops) \in Nat \ {0} /\ tx.fee \in Nat /\ tx.fee <= Len(tx.ops)
      /\ \A j \in 1..Len(tx.ops) : ClaimStep(tx.ops[j], ans)
      /\ \A j \in 1..Len(tx.ops) : tx.ops[j].op = "addLine" => tx.ops[j].what \in Openable(w.acct, ans)
  BY <1>3 DEF ClaimOps
<1>6. ClaimedUpto(v, w, ans, tx, Len(tx.ops))
  BY <1>4, <1>5, TransactionClaimed
<1> HIDE DEF v
<1>7. Whole(v) /\ v.acct.tokens = w.acct.tokens /\ v.acct.exits = w.acct.exits
  BY <1>6 DEF ClaimedUpto
<1>8. SorobanRounds(v.acct, ans) = 0 /\ Foreseen(v.acct)
  <2>1. SorobanRounds(v.acct, ans) = SorobanRounds(w.acct, ans) /\ (Foreseen(w.acct) => Foreseen(v.acct))
    BY <1>7, RoundsSame
  <2>2. SorobanRounds(w.acct, ans) = 0
    BY <1>1
  <2> QED BY <2>1, <2>2
<1>9. Openable(w.acct, ans) \subseteq Openable(v.acct, ans)
  BY <1>6 DEF ClaimedUpto
<1>10. \A i \in 1..Len(q) : ClaimOps(q[i], v, ans)
  BY <1>1, <1>9 DEF ClaimOps
<1>11. /\ Moved(after) <=> (Moved(names) \/ tx.ops[1].op \in SorobanOps)
       /\ Opened(after) <=> (Opened(names) \/ tx.ops[1].op = "addLine")
  BY NamesAfter
<1> HIDE DEF after
<1>12. \A i \in 1..Len(q) : Opens(q[i]) => Opened(after)
  BY <1>1, <1>11
<1>13. ClaimRest(Tail(q), v, ans, after)
  BY <1>2, <1>8, <1>10, <1>12 DEF ClaimRest
<1>14. ASSUME Moved(after), ~Opened(after) PROVE Spare(v.acct) >= Owed(v, ans, p)
  <2>1. ~Opened(names) /\ tx.ops[1].op # "addLine" /\ ~Opens(tx)
    BY <1>3, <1>11, <1>14
  <2>2. \A j \in 1..Len(tx.ops) : tx.ops[j].op = "claim"
    BY <1>5, <2>1 DEF Opens, ClaimStep
  <2>3. tx.ops[1].op = "claim"
    BY <1>5, <2>2
  <2>4. tx.ops[1].op \notin SorobanOps
    BY <2>3 DEF SorobanOps
  <2>5. Moved(names)
    BY <1>11, <1>14, <2>4
  <2>6. Spare(w.acct) >= Owed(w, ans, p)
    BY <2>1, <2>5 DEF Kept
  <2> QED BY <1>1, <1>5, <1>6, <1>8, <2>2, <2>6, ClaimsPaid
<1>15. Kept(v, ans, p, after)
  BY <1>14 DEF Kept
<1> QED BY <1>7, <1>8, <1>13, <1>15 DEF v, after, tx

\* A transaction that takes the account apart is paid for out of what was kept for it.
LEMMA CleanupPaid ==
  ASSUME NEW w, Whole(w), NEW ans, NEW p, NEW tx, tx.fee \in Nat, tx.fee <= Len(tx.ops), Len(tx.ops) \in Nat,
         SorobanRounds(w.acct, ans) = 0, NEW v, TxTaken(v, w, ans, tx), SorobanRounds(v.acct, ans) = 0,
         Spare(w.acct) >= Owed(w, ans, p)
  PROVE  Spare(v.acct) >= Owed(v, ans, p)
<1> DEFINE n == Len(tx.ops)
           a == Cardinality(Pending(w.acct, ans))
           b == Cardinality(Pending(v.acct, ans))
           c == Cleanup(w, ans)
           d == Cleanup(v, ans)
           e == Direct(p)
           f == MediatedFee(p)
           x == Spare(w.acct)
           y == Spare(v.acct)
           fee == tx.fee
<1>1. Whole(v) /\ d + n <= c /\ y >= x - fee /\ v.acct.claims = w.acct.claims
  BY DEF TxTaken
<1>2. /\ a \in Nat /\ b \in Nat /\ c \in Nat /\ d \in Nat /\ e \in 0..1 /\ f \in {0, 2}
  BY <1>1, ClosingIs
<1>3. x \in Int /\ y \in Int
  BY <1>1, SpareIs DEF Whole
<1>4. Owed(w, ans, p) = c + a + e + f /\ Owed(v, ans, p) = d + b + e + f
  BY DEF Owed, Closing
<1>4a. a = b
  BY <1>1 DEF Pending
<1>5. fee \in Nat /\ n \in Nat /\ fee <= n
  OBVIOUS
<1> DEFINE g == Owed(w, ans, p)
           h == Owed(v, ans, p)
<1>6. g = c + a + e + f /\ h = d + b + e + f /\ x >= g
  BY <1>4
<1> HIDE DEF n, a, b, c, d, e, f, x, y, fee, g, h
<1>7. y >= h
  BY <1>1, <1>2, <1>3, <1>4a, <1>5, <1>6
<1> QED BY <1>7 DEF y, h

\* A transaction that takes the account apart is sent.
LEMMA CloseSent ==
  ASSUME NEW w, Whole(w), Foreseen(w.acct), NEW ans, NEW p, NEW names, IsSeq(names), Kept(w, ans, p, names),
         NEW q, CloseRest(q, w, ans), q # <<>>,
         \A i \in 1..Len(q[1].ops) : OpOK(q[1].ops[i]), Applied(w, q[1]).ok
  PROVE  LET v == Applied(w, q[1]).w
             after == Append(names, q[1].ops[1].op) IN
         Whole(v) /\ Foreseen(v.acct) /\ Kept(v, ans, p, after) /\ CloseRest(Tail(q), v, ans)
<1> DEFINE tx == q[1]
           v == Applied(w, tx).w
           after == Append(names, tx.ops[1].op)
<1>1. /\ SorobanRounds(w.acct, ans) = 0 /\ Quiescent(w.acct, ans) /\ IsSeq(q)
      /\ \A i \in 1..Len(q) :
           /\ IsSeq(q[i].ops) /\ Len(q[i].ops) \in Nat \ {0} /\ q[i].fee \in Nat /\ q[i].fee <= Len(q[i].ops)
           /\ \A j \in 1..Len(q[i].ops) : Exact(w.acct, q[i].ops[j])
           /\ i = 1 => Normalizes(w.acct, q[i].ops)
           /\ i > 1 => \A j \in 1..Len(q[i].ops) : q[i].ops[j].op # "setThresholds"
  BY DEF CloseRest, CloseTxs
<1>2. /\ 1 \in 1..Len(q) /\ IsSeq(Tail(q))
      /\ \A i \in 1..Len(Tail(q)) : i + 1 \in 1..Len(q) /\ i + 1 > 1 /\ Tail(q)[i] = q[i + 1]
  BY <1>1, RestIs
<1>3. /\ IsSeq(tx.ops) /\ Len(tx.ops) \in Nat \ {0} /\ tx.fee \in Nat /\ tx.fee <= Len(tx.ops)
      /\ \A j \in 1..Len(tx.ops) : Exact(w.acct, tx.ops[j])
      /\ Normalizes(w.acct, tx.ops)
  BY <1>1, <1>2
<1>4. Applied(w, tx).ok /\ \A i \in 1..Len(tx.ops) : OpOK(tx.ops[i])
  OBVIOUS
<1> HIDE DEF tx
<1>5. TxTaken(v, w, ans, tx)
  BY <1>1, <1>3, <1>4, TransactionTaken
<1> HIDE DEF v
<1>6. /\ Whole(v) /\ v.acct.tokens = w.acct.tokens /\ v.acct.exits = w.acct.exits /\ v.acct.claims = w.acct.claims
      /\ \A a \in AssetSet : v.acct.lines[a].balance <= w.acct.lines[a].balance
  BY <1>5 DEF TxTaken
<1>7. SorobanRounds(v.acct, ans) = 0 /\ Foreseen(v.acct)
  <2>1. SorobanRounds(v.acct, ans) = SorobanRounds(w.acct, ans) /\ (Foreseen(w.acct) => Foreseen(v.acct))
    BY <1>6, RoundsSame
  <2>2. SorobanRounds(w.acct, ans) = 0
    BY <1>1
  <2> QED BY <2>1, <2>2
<1>8. Quiescent(v.acct, ans)
  BY <1>1, <1>6, QuiescentStays
<1>9. ASSUME NEW o, Exact(w.acct, o) PROVE Exact(v.acct, o)
  <2>1. \A a \in AssetSet : v.acct.lines[a].balance \in Nat /\ w.acct.lines[a].balance \in Nat
    BY <1>6 DEF Whole, Sound
  <2>2. o.op \in {"convert", "pay"} => o.what \in AssetSet /\ o.amount \in Nat \ {0} /\ w.acct.lines[o.what].balance <= o.amount
    BY <1>9 DEF Exact
  <2>3. o.op \in {"convert", "pay"} => v.acct.lines[o.what].balance <= o.amount
    <3> SUFFICES ASSUME o.op \in {"convert", "pay"} PROVE v.acct.lines[o.what].balance <= o.amount
      OBVIOUS
    <3> DEFINE x == v.acct.lines[o.what].balance
               y == w.acct.lines[o.what].balance
               z == o.amount
    <3>1. x \in Nat /\ y \in Nat /\ x <= y /\ z \in Nat /\ y <= z
      BY <1>6, <2>1, <2>2
    <3> HIDE DEF x, y, z
    <3>2. x <= z
      BY <3>1
    <3> QED BY <3>2 DEF x, z
  <2> QED BY <1>9, <2>3 DEF Exact
<1>10. CloseTxs(Tail(q), v)
  <2> DEFINE rest == Tail(q)
  <2>1. IsSeq(rest) /\ \A i \in 1..Len(rest) : i + 1 \in 1..Len(q) /\ i + 1 > 1 /\ rest[i] = q[i + 1]
    BY <1>2
  <2> HIDE DEF rest
  <2>2. \A i \in 1..Len(rest) :
          /\ IsSeq(rest[i].ops) /\ Len(rest[i].ops) \in Nat \ {0} /\ rest[i].fee \in Nat /\ rest[i].fee <= Len(rest[i].ops)
          /\ \A j \in 1..Len(rest[i].ops) : Exact(w.acct, rest[i].ops[j]) /\ rest[i].ops[j].op # "setThresholds"
    BY <1>1, <2>1
  <2>3. \A i \in 1..Len(rest) : Normalizes(v.acct, rest[i].ops)
    BY <2>2 DEF Normalizes
  <2>4. CloseTxs(rest, v)
    BY <1>9, <2>1, <2>2, <2>3 DEF CloseTxs
  <2> QED BY <2>4 DEF rest
<1>11. /\ Moved(after) <=> (Moved(names) \/ tx.ops[1].op \in SorobanOps)
       /\ Opened(after) <=> (Opened(names) \/ tx.ops[1].op = "addLine")
  BY NamesAfter
<1> HIDE DEF after
<1>12. ASSUME Moved(after), ~Opened(after) PROVE Spare(v.acct) >= Owed(v, ans, p)
  <2>1. Exact(w.acct, tx.ops[1])
    BY <1>3
  <2>2. tx.ops[1].op \notin SorobanOps
    BY <2>1 DEF Exact, TakeNames, SorobanOps
  <2>3. Moved(names) /\ ~Opened(names)
    BY <1>11, <1>12, <2>2
  <2>4. Spare(w.acct) >= Owed(w, ans, p)
    BY <2>3 DEF Kept
  <2>5. Len(tx.ops) \in Nat
    BY <1>3
  <2> QED BY <1>1, <1>3, <1>5, <1>7, <2>4, <2>5, CleanupPaid
<1>13. Kept(v, ans, p, after)
  BY <1>12 DEF Kept
<1>14. CloseRest(Tail(q), v, ans)
  BY <1>7, <1>8, <1>10 DEF CloseRest
<1> QED BY <1>6, <1>7, <1>13, <1>14 DEF v, after, tx

\* The next transaction of a round is sent.
LEMMA Sent ==
  ASSUME NEW w, Whole(w), Foreseen(w.acct), NEW ans, NEW p, NEW names, IsSeq(names), Kept(w, ans, p, names),
         NEW q, IsSeq(q), q # <<>>, NEW more, QueueIs(q, more, w, ans, p, names), more,
         \A i \in 1..Len(q[1].ops) : OpOK(q[1].ops[i]), Applied(w, q[1]).ok, Len(Claims) <= 2 * ReadCeiling
  PROVE  LET v == Applied(w, q[1]).w
             after == Append(names, q[1].ops[1].op) IN
         /\ Whole(v) /\ Foreseen(v.acct) /\ Kept(v, ans, p, after)
         /\ Tail(q) # <<>> => QueueIs(Tail(q), more, v, ans, p, after)
<1> DEFINE v == Applied(w, q[1]).w
           after == Append(names, q[1].ops[1].op)
           fine == /\ Whole(v) /\ Foreseen(v.acct) /\ Kept(v, ans, p, after)
                   /\ Tail(q) # <<>> => QueueIs(Tail(q), more, v, ans, p, after)
<1>1. SorobanTxs(q, w, ans, p) \/ ClaimRest(q, w, ans, names) \/ CloseRest(q, w, ans)
  BY DEF QueueIs
<1>2. ASSUME SorobanTxs(q, w, ans, p) PROVE fine
  <2>1. OpOK(q[1].ops[1])
    BY <1>2 DEF SorobanTxs
  <2>2. Whole(v) /\ Foreseen(v.acct) /\ Kept(v, ans, p, after) /\ Tail(q) = <<>>
    BY <1>2, <2>1, SorobanSent
  <2> HIDE DEF v, after
  <2> QED BY <2>2
<1>3. ASSUME ClaimRest(q, w, ans, names) PROVE fine
  <2>1. Whole(v) /\ Foreseen(v.acct) /\ Kept(v, ans, p, after) /\ ClaimRest(Tail(q), v, ans, after)
    BY <1>3, ClaimSent
  <2> HIDE DEF v, after
  <2> QED BY <2>1 DEF QueueIs
<1>4. ASSUME CloseRest(q, w, ans) PROVE fine
  <2>1. Whole(v) /\ Foreseen(v.acct) /\ Kept(v, ans, p, after) /\ CloseRest(Tail(q), v, ans)
    BY <1>4, CloseSent
  <2> HIDE DEF v, after
  <2> QED BY <2>1 DEF QueueIs
<1> HIDE DEF fine
<1>5. fine
  BY <1>1, <1>2, <1>3, <1>4
<1> QED BY <1>5 DEF fine

-----------------------------------------------------------------------------
\* What the fees kept for the later rounds are enough for: a Soroban round is charged no more than the estimate,
\* the least a mediator forwards is no more than the two reserves of an account, an account has no more claims
\* than twice those a reading lists, and the positions after the first take no more rounds than are counted.
FeesForeseen ==
  /\ SorobanFee <= SorobanEstimate /\ MinForward <= 2 * BaseReserve /\ Len(Claims) <= 2 * ReadCeiling
  /\ \A start \in Starts : Foreseen(start.world.acct)

\* A close that is left alone, while it runs.
Live ==
  /\ Whole(world) /\ Foreseen(world.acct) /\ Kept(world, answers, payout, landed)
  /\ phase \in {"read", "confirmed"} => reading = Reading(world)
  /\ phase = "sending" => QueueIs(queue, again, world, answers, payout, landed)

FeesInv ==
  /\ IsSeq(landed) /\ (phase = "plan" => landed = <<>>)
  /\ quiet /\ phase \notin {"closed", "stopped"} => Live
  /\ SorobanSeenThrough

LEMMA NamesAre == (SorobanBefore <=> Moved(landed)) /\ (Before("addLine") <=> Opened(landed))
<1>1. \A name : Before(name) <=> name \in ToSet(landed)
  BY DEF Before, ToSet
<1> QED BY <1>1 DEF SorobanBefore, Moved, Opened

\* Nothing to say of a close that goes on.
LEMMA GoesOn == phase # "stopped" => SorobanSeenThrough
BY DEF SorobanSeenThrough
LEMMA OtherReason == why # "close_fee_balance_short" => SorobanSeenThrough
BY DEF SorobanSeenThrough

LEMMA FeesInit == ASSUME FeesForeseen, Init PROVE FeesInv
<1>1. PICK start \in Starts : world = start.world
  BY DEF Init
<1>2. world \in WorldRecord
  BY <1>1, StartsAssumption
<1>3. phase = "plan" /\ landed = <<>>
  BY DEF Init
<1>4. world.acct \in AccountRecord /\ world.rate \in [Things -> Nat]
  BY <1>2 DEF WorldRecord
<1>5. WorldOK(world)
  BY RoundsInit DEF RoundsInv, Placed
<1>6. AccountOK(world.acct)
  BY <1>5 DEF WorldOK
<1>7. Sound(world.acct)
  <2> DEFINE k == world.acct
  <2>1. /\ k.xlm \in Int /\ k.high \in Nat
        /\ k.extra \subseteq ToSet(Signers) /\ k.data \subseteq ToSet(DataKeys) /\ k.offers \subseteq ToSet(Offers)
        /\ k.sponsors \subseteq ToSet(Sponsored) /\ k.claims \subseteq ToSet(Claims)
        /\ k.tokens \in [TokenSet -> Nat] /\ k.exits \in [ToSet(Exits) -> Nat]
    <3>1. k \in AccountRecord
      BY <1>4
    <3> HIDE DEF k
    <3>2. k.xlm \in Int
      BY <3>1 DEF AccountRecord
    <3>2a. k.high \in Nat
      BY <3>1 DEF AccountRecord
    <3>3. k.extra \subseteq ToSet(Signers) /\ k.data \subseteq ToSet(DataKeys)
      BY <3>1 DEF AccountRecord
    <3>4. k.offers \subseteq ToSet(Offers) /\ k.sponsors \subseteq ToSet(Sponsored)
      BY <3>1 DEF AccountRecord
    <3>5. k.claims \subseteq ToSet(Claims) /\ k.tokens \in [TokenSet -> Nat]
      BY <3>1 DEF AccountRecord
    <3>6. k.exits \in [ToSet(Exits) -> Nat]
      BY <3>1 DEF AccountRecord
    <3> QED BY <3>2, <3>2a, <3>3, <3>4, <3>5, <3>6
  <2>2. \A a \in AssetSet : k.lines[a].balance \in Nat
    BY <1>4 DEF AccountRecord
  <2> HIDE DEF k
  <2>3. AccountOK(k)
    BY <1>6 DEF k
  <2>4. k.xlm \in Int /\ k.high \in Int
    BY <2>1
  <2>5. Sound(k)
    BY <2>1, <2>2, <2>3, <2>4 DEF Sound
  <2> QED BY <2>5 DEF k
<1>8. Whole(world)
  BY <1>4, <1>5, <1>7 DEF Whole
<1>9. Foreseen(world.acct)
  BY <1>1 DEF FeesForeseen
<1>10. ~Moved(landed) /\ IsSeq(landed)
  BY <1>3, EmptyIs DEF Moved
<1>11. Live
  BY <1>3, <1>8, <1>9, <1>10 DEF Live, Kept
<1>12. SorobanSeenThrough
  BY <1>3, GoesOn
<1> QED BY <1>3, <1>10, <1>11, <1>12 DEF FeesInv

\* The caller's answers.
LEMMA FeesAnswer == ASSUME RoundsInv, FeesInv, Answer PROVE FeesInv'
<1>1. phase = "plan" /\ landed = <<>> /\ UNCHANGED <<world, landed, quiet>>
  BY DEF Answer, FeesInv
<1>2. (phase' = "stopped" /\ why' = "not ready") \/ phase' = "ask"
  BY DEF Answer, Stop
<1>3. IsSeq(landed') /\ phase' # "plan" /\ ~Moved(landed')
  BY <1>1, <1>2, EmptyIs DEF Moved
<1>4. SorobanSeenThrough'
  BY <1>2 DEF SorobanSeenThrough
<1>5. quiet' /\ phase' \notin {"closed", "stopped"} => Live'
  <2> SUFFICES ASSUME quiet', phase' \notin {"closed", "stopped"} PROVE Live'
    OBVIOUS
  <2>1. Live /\ phase' = "ask"
    BY <1>1, <1>2 DEF FeesInv
  <2> QED BY <1>1, <1>3, <2>1 DEF Live, Kept
<1> QED BY <1>3, <1>4, <1>5 DEF FeesInv

\* No gate of the reading is about fees.
LEMMA RefusalIsNotFees ==
  ASSUME NEW w, NEW s, NEW ans, NEW p PROVE Refusal(w, s, ans, p) # "close_fee_balance_short"
<1> DEFINE gate(code, refuse) == [code |-> code, refuse |-> refuse]
<1>1. PICK r1, r2, r3, r4, r5, r6, r7 :
        Refusal(w, s, ans, p) = FirstBad(<<
          gate("claimable_balance_not_claimable_now", r1), gate("needs_decisions", r2),
          gate("source_sequence_too_far", r3), gate("merge_destination_unusable", r4),
          gate("transfer_destination_unusable", r5), gate("signer_normalization_unsafe", r6),
          gate("trustline_blocked", r7) >>)
  BY Zenon DEF Refusal
<1> DEFINE g1 == gate("claimable_balance_not_claimable_now", r1)
           g2 == gate("needs_decisions", r2)
           g3 == gate("source_sequence_too_far", r3)
           g4 == gate("merge_destination_unusable", r4)
           g5 == gate("transfer_destination_unusable", r5)
           g6 == gate("signer_normalization_unsafe", r6)
           g7 == gate("trustline_blocked", r7)
           gates == <<g1, g2, g3, g4, g5, g6, g7>>
           codes == {"claimable_balance_not_claimable_now", "needs_decisions", "source_sequence_too_far",
                     "merge_destination_unusable", "transfer_destination_unusable", "signer_normalization_unsafe",
                     "trustline_blocked"}
<1> HIDE DEF gate
<1>2. \A g \in {g1, g2, g3, g4, g5, g6, g7} : g.code \in codes
  <2>1. \A c, r : gate(c, r).code = c
    BY GateIs, Zenon DEF gate
  <2>2. /\ g1.code \in codes /\ g2.code \in codes /\ g3.code \in codes /\ g4.code \in codes /\ g5.code \in codes
        /\ g6.code \in codes /\ g7.code \in codes
    BY <2>1, Zenon
  <2> HIDE DEF g1, g2, g3, g4, g5, g6, g7, codes
  <2> QED BY <2>2, Zenon
<1>3. Refusal(w, s, ans, p) = FirstBad(gates)
  BY <1>1
<1> HIDE DEF g1, g2, g3, g4, g5, g6, g7
<1>4. DOMAIN gates = 1..7 /\ \A i \in 1..7 : gates[i].code \in codes
  <2>1. DOMAIN gates = 1..7 /\ gates[2] = g2 /\ \A i \in 1..7 : gates[i] \in {g1, g2, g3, g4, g5, g6, g7}
    BY SevenAre, Zenon
  <2> HIDE DEF codes, gates
  <2> QED BY <1>2, <2>1, Zenon
<1> HIDE DEF gates, codes
<1>5. FirstBad(gates) \in codes \cup {""}
  <2> DEFINE bad == {i \in DOMAIN gates : gates[i].refuse}
  <2>1. FirstBad(gates) = IF bad = {} THEN "" ELSE gates[Min(bad)].code
    BY Zenon DEF FirstBad
  <2>2. ASSUME bad # {} PROVE Min(bad) \in 1..7
    <3>1. bad \subseteq 1..7
      BY <1>4
    <3> HIDE DEF bad
    <3>2. PICK m \in bad : \A k \in bad : m <= k
      <4>1. 1..7 \subseteq Nat
        BY OfSeven, Zenon
      <4>2. bad \subseteq Nat
        BY <3>1, <4>1, Zenon
      <4> QED BY <2>2, <4>2, Least, Zenon
    <3>3. Min(bad) \in bad
      BY <3>2 DEF Min
    <3> QED BY <3>1, <3>3, Zenon
  <2> HIDE DEF bad
  <2>3. ASSUME bad # {} PROVE FirstBad(gates) \in codes
    BY <1>4, <2>1, <2>2, <2>3
  <2> QED BY <2>1, <2>3
<1>6. "close_fee_balance_short" \notin codes \cup {""}
  BY DEF codes
<1> QED BY <1>3, <1>5, <1>6, Zenon

\* What is owed is a number.
LEMMA OwedIs ==
  ASSUME NEW w, Whole(w), Len(Claims) <= 2 * ReadCeiling, NEW ans, NEW p
  PROVE Owed(w, ans, p) \in Int /\ Spare(w.acct) \in Int
<1>1. Closing(w, ans, p) \in Nat
  BY ClosingIs
<1>2. SorobanRounds(w.acct, ans) \in Nat
  BY SorobanRoundsAre DEF Whole
<1>3. LaterOwnFees(Reading(w).account, SorobanRounds(w.acct, ans), p) \in Nat
  BY <1>2, ClosingIsCovered
<1>4. Owed(w, ans, p) \in Int
  BY <1>1, <1>3 DEF Owed
<1>5. Spare(w.acct) \in Int
  BY SpareIs DEF Whole
<1> QED BY <1>4, <1>5

\* A close that stops for another reason.
LEMMA FeesStop ==
  ASSUME FeesInv, phase' = "stopped", why' # "close_fee_balance_short", landed' = landed
  PROVE  FeesInv'
<1>1. SorobanSeenThrough'
  BY DEF SorobanSeenThrough
<1>2. IsSeq(landed')
  BY DEF FeesInv
<1> QED BY <1>1, <1>2 DEF FeesInv

\* The account is read.
LEMMA FeesRead == ASSUME FeesInv, Read PROVE FeesInv'
<1> DEFINE s == Reading(world)
           code == IF planSeq # -1 /\ planSeq # s.account.seq THEN "state_changed"
                   ELSE Refusal(world, s, answers, payout)
<1>1. phase = "ask" /\ UNCHANGED <<world, payout, answers, landed, quiet>>
  BY DEF Read
<1>2. code # "close_fee_balance_short"
  BY RefusalIsNotFees, Zenon
<1>3. \/ phase' = "stopped" /\ (why' = "account_not_found" \/ why' = code)
      \/ phase' = "read" /\ reading' = Reading(world)
  BY DEF Read, Stop
<1> HIDE DEF code
<1>4. CASE phase' = "stopped"
  <2>1. why' # "close_fee_balance_short"
    BY <1>2, <1>3, <1>4
  <2> QED BY <1>1, <1>4, <2>1, FeesStop
<1>5. CASE phase' = "read" /\ reading' = Reading(world)
  <2>1. SorobanSeenThrough'
    BY <1>5 DEF SorobanSeenThrough
  <2>2. IsSeq(landed')
    BY <1>1 DEF FeesInv
  <2>3. quiet' => Live'
    <3> SUFFICES ASSUME quiet' PROVE Live'
      OBVIOUS
    <3>1. Live
      BY <1>1 DEF FeesInv
    <3>2. reading' = Reading(world')
      BY <1>1, <1>5
    <3>3. Whole(world') /\ Foreseen(world.acct') /\ Kept(world', answers', payout', landed')
      BY <1>1, <3>1 DEF Live
    <3> QED BY <1>5, <3>2, <3>3 DEF Live
  <2> QED BY <1>5, <2>1, <2>2, <2>3 DEF FeesInv
<1> QED BY <1>3, <1>4, <1>5

\* The reading is confirmed.
LEMMA FeesConfirm == ASSUME FeesInv, Confirm PROVE FeesInv'
<1>1. phase = "read" /\ UNCHANGED <<world, payout, answers, landed, quiet>>
  BY DEF Confirm
<1>2. \/ phase' = "stopped" /\ why' = "state_changed"
      \/ phase' = "ask"
      \/ phase' = "confirmed" /\ reading' = reading
  BY DEF Confirm, Stop
<1>3. CASE phase' = "stopped"
  BY <1>1, <1>2, <1>3, FeesStop
<1>4. CASE phase' # "stopped"
  <2>1. SorobanSeenThrough'
    BY <1>4 DEF SorobanSeenThrough
  <2>2. IsSeq(landed')
    BY <1>1 DEF FeesInv
  <2>3. quiet' => Live'
    <3> SUFFICES ASSUME quiet' PROVE Live'
      OBVIOUS
    <3>1. Live /\ reading = Reading(world)
      BY <1>1 DEF FeesInv, Live
    <3>2. phase' = "confirmed" => reading' = Reading(world')
      BY <1>1, <1>2, <3>1
    <3>3. Whole(world') /\ Foreseen(world.acct') /\ Kept(world', answers', payout', landed')
      BY <1>1, <3>1 DEF Live
    <3> QED BY <1>2, <1>4, <3>2, <3>3 DEF Live
  <2> QED BY <1>2, <1>4, <2>1, <2>2, <2>3 DEF FeesInv
<1> QED BY <1>3, <1>4

\* A round is built from what the account holds.
LEMMA FeesBuild == ASSUME FeesForeseen, RoundsInv, FeesInv, Build PROVE FeesInv'
<1> DEFINE r == BuildRound(reading, world, ledgerTime, answers, payout)
<1>1. phase = "confirmed" /\ UNCHANGED <<world, payout, answers, landed, quiet>>
  BY DEF Build
<1>2. payout \in {"direct", "mediator"} /\ AnswersOK
  BY <1>1 DEF RoundsInv, Placed
<1>3. \/ phase' = "stopped" /\ why' = r.code /\ r.code # ""
      \/ phase' = "sending" /\ r.code = "" /\ queue' = r.txs /\ again' = r.again
  BY Zenon DEF Build, Stop
<1>4. ASSUME quiet
      PROVE  /\ Live /\ (Refused(r, world, answers, payout)
                          \/ (r.code = "" /\ QueueShape(r.txs, r.again, world, answers, payout)))
  <2>1. Live /\ reading = Reading(world) /\ Whole(world)
    BY <1>1, <1>4 DEF FeesInv, Live
  <2>2. SorobanFee <= SorobanEstimate /\ Len(Claims) <= 2 * ReadCeiling /\ MinForward <= 2 * BaseReserve
    BY DEF FeesForeseen
  <2>3. \A a \in AssetSet : answers.asset[a] \in {"none", "convert", "transfer", "issuer"}
    BY <1>2 DEF AnswersOK
  <2>4. LET t == BuildRound(Reading(world), world, ledgerTime, answers, payout) IN
        Refused(t, world, answers, payout)
          \/ (t.code = "" /\ QueueShape(t.txs, t.again, world, answers, payout))
    BY <1>2, <2>1, <2>2, <2>3, BuildShape
  <2> QED BY <2>1, <2>4
<1>5. landed' = landed /\ IsSeq(landed')
  BY <1>1 DEF FeesInv
<1> HIDE DEF r
<1>6. CASE phase' = "stopped"
  <2> SUFFICES ASSUME quiet', why' = "close_fee_balance_short", ~Before("addLine")' PROVE ~SorobanBefore'
    BY <1>5, <1>6 DEF FeesInv, SorobanSeenThrough
  <2>1. quiet /\ r.code = "close_fee_balance_short" /\ ~Before("addLine")
    BY <1>1, <1>3, <1>6 DEF Before
  <2>2. Spare(world.acct) < Owed(world, answers, payout) /\ Kept(world, answers, payout, landed) /\ Whole(world)
    BY <1>4, <2>1 DEF Refused, Live
  <2>3. Owed(world, answers, payout) \in Int /\ Spare(world.acct) \in Int
    BY <2>2, OwedIs DEF FeesForeseen
  <2>4. ~(Moved(landed) /\ ~Opened(landed))
    BY <2>2, <2>3 DEF Kept
  <2>5. ~SorobanBefore
    BY <2>1, <2>4, NamesAre
  <2> QED BY <1>1, <2>5 DEF SorobanBefore, Before
<1>7. CASE phase' = "sending" /\ r.code = "" /\ queue' = r.txs /\ again' = r.again
  <2>1. SorobanSeenThrough'
    BY <1>7 DEF SorobanSeenThrough
  <2>2. quiet' => Live'
    <3> SUFFICES ASSUME quiet' PROVE Live'
      OBVIOUS
    <3>1. Live /\ QueueShape(r.txs, r.again, world, answers, payout)
      BY <1>1, <1>4, <1>7 DEF Refused
    <3>2. QueueIs(r.txs, r.again, world, answers, payout, landed)
      BY <3>1, BuiltIs
    <3>3. QueueIs(queue', again', world', answers', payout', landed')
      BY <1>1, <1>7, <3>2
    <3>4. Whole(world') /\ Foreseen(world.acct') /\ Kept(world', answers', payout', landed')
      BY <1>1, <3>1 DEF Live
    <3> QED BY <1>7, <3>3, <3>4 DEF Live
  <2> QED BY <1>5, <1>7, <2>1, <2>2 DEF FeesInv
<1> QED BY <1>3, <1>6, <1>7

\* A round that was built wrong disturbs the close.
LEMMA FeesBuildOther == ASSUME FeesInv, BuildOther PROVE FeesInv'
<1>1. landed' = landed /\ phase = "confirmed"
  BY DEF BuildOther
<1>2. \/ phase' = "sending" /\ ~quiet'
      \/ phase' = "stopped" /\ why' = "refused"
  BY Zenon DEF BuildOther, Stop
<1>3. CASE phase' = "sending" /\ ~quiet'
  <2>1. SorobanSeenThrough'
    BY <1>3 DEF SorobanSeenThrough
  <2> QED BY <1>1, <1>3, <2>1 DEF FeesInv
<1>4. CASE phase' = "stopped" /\ why' = "refused"
  BY <1>1, <1>4, FeesStop
<1> QED BY <1>2, <1>3, <1>4

\* The world moves.
LEMMA FeesDisturb == ASSUME FeesInv, NEW w, Disturb(w) PROVE FeesInv'
<1>1. landed' = landed /\ phase' = phase /\ phase # "plan" /\ phase # "stopped" /\ ~quiet'
  BY DEF Disturb, Running
<1>2. SorobanSeenThrough'
  BY <1>1 DEF SorobanSeenThrough
<1> QED BY <1>1, <1>2 DEF FeesInv

\* Nothing follows the last transaction of a round.
LEMMA LastLeaves == ASSUME NEW q, IsSeq(q), q # <<>>, Len(q) <= 1 PROVE Tail(q) = <<>>
<1> DEFINE rest == Tail(q)
           m == Len(rest)
<1>1. IsSeq(rest) /\ \A i \in 1..m : i + 1 \in 1..Len(q)
  BY HeadIs
<1>2. m \in Nat /\ Len(q) \in Nat /\ ToSet(rest) = {rest[i] : i \in 1..m}
  BY <1>1, SeqIs
<1> HIDE DEF m
<1>3. m = 0
  BY <1>1, <1>2
<1> HIDE DEF rest
<1>4. ToSet(rest) = {}
  BY <1>2, <1>3
<1>5. rest = <<>>
  BY <1>1, <1>4, EmptySetIsEmptySeq
<1> QED BY <1>5 DEF rest

\* A submission that lands adds to what has landed; one that stops the close does not stop it for the fees.
LEMMA SubmitLands ==
  ASSUME Submit
  PROVE  /\ phase = "sending" /\ queue # <<>> /\ UNCHANGED <<payout, answers, again, quiet>>
         /\ \/ phase' = "stopped" /\ landed' = landed /\ why' # "close_fee_balance_short"
            \/ LET tx == Head(queue) IN
               /\ Accepted(tx) /\ Applied(world, tx).ok /\ world' = Applied(world, tx).w
               /\ landed' = Append(landed, tx.ops[1].op) /\ queue' = Tail(queue)
               /\ phase' = IF Tail(queue) # <<>> THEN "sending" ELSE IF again THEN "ask" ELSE "closed"
<1> DEFINE tx == Head(queue)
           after == Applied(world, tx)
           verdict == IF planned THEN Verdict(reviewed, answers, payout, tx, world.now) ELSE ""
           next == IF Tail(queue) # <<>> THEN "sending" ELSE IF again THEN "ask" ELSE "closed"
<1>1. phase = "sending" /\ queue # <<>> /\ UNCHANGED <<payout, answers, again, quiet>>
  BY Zenon DEF Submit
<1>2. verdict # "close_fee_balance_short"
  BY Zenon DEF Verdict
<1>3. \/ /\ phase' = "stopped" /\ landed' = landed
         /\ \/ why' = verdict \/ why' = "forward_amount_exceeds_balance"
            \/ why' = "transaction not included" \/ why' = "transaction failed"
      \/ /\ verdict = "" /\ after.ok /\ world' = after.w /\ landed' = Append(landed, tx.ops[1].op)
         /\ queue' = Tail(queue) /\ phase' = next
  BY Zenon DEF Submit, Stop
<1>4. verdict = "" => Accepted(tx)
  BY Zenon DEF Accepted
<1> HIDE DEF verdict, next, after
<1>5. \/ phase' = "stopped" /\ landed' = landed /\ why' # "close_fee_balance_short"
      \/ /\ Accepted(tx) /\ after.ok /\ world' = after.w /\ landed' = Append(landed, tx.ops[1].op)
         /\ queue' = Tail(queue) /\ phase' = next
  BY <1>2, <1>3, <1>4
<1> QED BY <1>1, <1>5 DEF next, after

\* A transaction is submitted.
LEMMA FeesSubmit == ASSUME FeesForeseen, RoundsInv, FeesInv, Submit PROVE FeesInv'
<1> DEFINE tx == Head(queue)
           v == Applied(world, tx).w
           after == Append(landed, tx.ops[1].op)
<1>1. phase = "sending" /\ queue # <<>> /\ UNCHANGED <<payout, answers, again, quiet>>
  BY SubmitLands
<1>2. \/ phase' = "stopped" /\ landed' = landed /\ why' # "close_fee_balance_short"
      \/ /\ Accepted(tx) /\ Applied(world, tx).ok /\ world' = v /\ landed' = after /\ queue' = Tail(queue)
         /\ phase' = IF Tail(queue) # <<>> THEN "sending" ELSE IF again THEN "ask" ELSE "closed"
  BY SubmitLands
<1>3. CASE phase' = "stopped" /\ landed' = landed /\ why' # "close_fee_balance_short"
  BY <1>3, FeesStop
<1>4. CASE /\ Accepted(tx) /\ Applied(world, tx).ok /\ world' = v /\ landed' = after /\ queue' = Tail(queue)
           /\ phase' = IF Tail(queue) # <<>> THEN "sending" ELSE IF again THEN "ask" ELSE "closed"
  <2>1. IsSeq(landed) /\ IsSeq(queue) /\ QueueFits
    BY <1>1 DEF FeesInv, RoundsInv, QueueFits
  <2>2. tx = queue[1]
    BY <1>1, <2>1, HeadIs
  <2>3. \A i \in 1..Len(tx.ops) : OpOK(tx.ops[i])
    BY <1>1, <1>4, <2>1, AcceptedFits
  <2>4. IsSeq(landed')
    <3>1. IsSeq(after)
      BY <2>1, NamesAfter
    <3> QED BY <1>4, <3>1
  <2>5. SorobanSeenThrough'
    BY <1>4 DEF SorobanSeenThrough
  <2>6. ASSUME quiet', phase' # "closed" PROVE Live'
    <3>1. Live
      BY <1>1, <2>6 DEF FeesInv
    <3>2. /\ Whole(world) /\ Foreseen(world.acct) /\ Kept(world, answers, payout, landed)
          /\ QueueIs(queue, again, world, answers, payout, landed)
      BY <1>1, <3>1 DEF Live
    <3>3. again
      <4> SUFFICES ASSUME ~again PROVE FALSE
        OBVIOUS
      <4>1. Len(queue) <= 1
        BY <3>2 DEF QueueIs
      <4>2. Tail(queue) = <<>>
        BY <1>1, <2>1, <4>1, LastLeaves
      <4> QED BY <1>4, <2>6, <4>2
    <3>4. /\ \A i \in 1..Len(queue[1].ops) : OpOK(queue[1].ops[i])
          /\ Applied(world, queue[1]).ok /\ Len(Claims) <= 2 * ReadCeiling
      BY <1>4, <2>2, <2>3 DEF FeesForeseen
    <3>5. LET u == Applied(world, queue[1]).w
              names == Append(landed, queue[1].ops[1].op) IN
          /\ Whole(u) /\ Foreseen(u.acct) /\ Kept(u, answers, payout, names)
          /\ Tail(queue) # <<>> => QueueIs(Tail(queue), again, u, answers, payout, names)
      BY <1>1, <2>1, <3>2, <3>3, <3>4, Sent
    <3>6. /\ Whole(v) /\ Foreseen(v.acct) /\ Kept(v, answers, payout, after)
          /\ Tail(queue) # <<>> => QueueIs(Tail(queue), again, v, answers, payout, after)
      BY <2>2, <3>5
    <3>7. /\ world' = v /\ landed' = after /\ queue' = Tail(queue)
          /\ phase' = IF Tail(queue) # <<>> THEN "sending" ELSE IF again THEN "ask" ELSE "closed"
      BY <1>4
    <3> HIDE DEF v, after, tx
    <3>8. Whole(world') /\ Foreseen(world.acct') /\ Kept(world', answers', payout', landed')
      BY <1>1, <3>6, <3>7
    <3>9. phase' = "sending" => QueueIs(queue', again', world', answers', payout', landed')
      BY <1>1, <3>6, <3>7
    <3>10. phase' \notin {"read", "confirmed"}
      BY <3>7
    <3> QED BY <3>8, <3>9, <3>10 DEF Live
  <2>7. phase' # "plan"
    BY <1>4
  <2> QED BY <2>4, <2>5, <2>6, <2>7 DEF FeesInv
<1> HIDE DEF v, after, tx
<1> QED BY <1>2, <1>3, <1>4

\* Every step.
LEMMA FeesNext == ASSUME FeesForeseen, RoundsInv, FeesInv, [Next]_vars PROVE FeesInv'
<1>1. CASE Answer
  BY <1>1, FeesAnswer
<1>2. CASE Read
  BY <1>2, FeesRead
<1>3. CASE Confirm
  BY <1>3, FeesConfirm
<1>4. CASE Build
  BY <1>4, FeesBuild
<1>5. CASE BuildOther
  BY <1>5, FeesBuildOther
<1>6. CASE Submit
  BY <1>6, FeesSubmit
<1>7. CASE Deposit
  BY <1>7, FeesDisturb DEF Deposit
<1>8. CASE AddData
  BY <1>8, FeesDisturb DEF AddData
<1>9. CASE MarketMoves
  BY <1>9, FeesDisturb DEF MarketMoves
<1>10. CASE DestinationFills
  BY <1>10, FeesDisturb DEF DestinationFills
<1>11. CASE DestinationGone
  BY <1>11, FeesDisturb DEF DestinationGone
<1>12. CASE ClaimTaken
  BY <1>12, FeesDisturb DEF ClaimTaken
<1>13. CASE ClaimArrives
  BY <1>13, FeesDisturb DEF ClaimArrives
<1>14. CASE OwnerSpends
  BY <1>14, FeesDisturb DEF OwnerSpends
<1>15. CASE Tick
  BY <1>15, FeesDisturb DEF Tick
<1>16. CASE UNCHANGED vars
  <2>1. UNCHANGED <<world, payout, answers, phase, reading, queue, again, landed, quiet, why>>
    BY <1>16 DEF vars
  <2>2. Live => Live'
    BY <2>1 DEF Live
  <2>3. SorobanSeenThrough => SorobanSeenThrough'
    BY <2>1 DEF SorobanSeenThrough, SorobanBefore, Before
  <2> QED BY <2>1, <2>2, <2>3 DEF FeesInv
<1>17. CASE Over
  BY <1>16, <1>17 DEF Over
<1> QED BY <1>1, <1>2, <1>3, <1>4, <1>5, <1>6, <1>7, <1>8, <1>9, <1>10, <1>11, <1>12, <1>13, <1>14, <1>15, <1>16,
           <1>17 DEF Next

-----------------------------------------------------------------------------
\* Once a Soroban round of a close that is left alone has landed, the close does not find its own fees short, as
\* long as it opens no line (build-transactions.ts: assertOwnFeesFit, LaterOwnFees), provided the fees kept were
\* enough to begin with.
THEOREM SorobanIsSeenThrough == FeesForeseen => (Spec => []SorobanSeenThrough)
<1> SUFFICES ASSUME FeesForeseen PROVE Spec => []SorobanSeenThrough
  OBVIOUS
<1>1. Init => FeesInv
  BY FeesInit
<1>2. RoundsInv /\ FeesInv /\ [Next]_vars => FeesInv'
  BY FeesNext
<1>3. FeesInv => SorobanSeenThrough
  BY DEF FeesInv
<1> QED BY <1>1, <1>2, <1>3, RoundsInit, RoundsNext, PTL DEF Spec
=============================================================================
