---------------------------- MODULE ServiceProofs ----------------------------
(***************************************************************************)
(* Proofs about the services that keep state in one process, and about the *)
(* readings that are put together from many requests, each for every value *)
(* of its constants and every order its steps can take.                    *)
(***************************************************************************)
EXTENDS ServiceSafety, ReadingSafety, FiniteSetTheorems, WellFoundedInduction, TLAPS

-----------------------------------------------------------------------------
(* Sums over a finite set.  The sum of the numbers f[x] is the number of    *)
(* cells of a table that has f[x] of them in the row of x, so adding a row, *)
(* changing one, or taking fewer rows is a matter of cardinalities.         *)

Cells(f, S) == {c \in S \X Nat : 1 <= c[2] /\ c[2] <= f[c[1]]}

Counts(f, S) == \A x \in S : f[x] \in Nat

\* What a smallest subset lacks, all have: induction over the subsets of a finite set.
LEMMA SmallestSubset ==
    ASSUME NEW S, IsFiniteSet(S), NEW T, T \subseteq SUBSET S, T # {}
    PROVE  \E s \in T : \A t \in T : t \subseteq s => t = s
<1>1. T \subseteq FiniteSubsetsOf(S)
    BY FS_Subset DEF FiniteSubsetsOf
<1>2. PICK s \in T : \A t \in T : ~(<<t, s>> \in StrictSubsetOrdering(S))
    BY <1>1, FS_StrictSubsetOrderingWellFounded, WFMin
<1>3. \A t \in T : t \subseteq s => t = s
    BY <1>2 DEF StrictSubsetOrdering
<1> QED BY <1>3

-----------------------------------------------------------------------------
LEMMA CellsOfRow ==
    ASSUME NEW f, NEW x, f[x] \in Nat
    PROVE  IsFiniteSet(Cells(f, {x})) /\ Cardinality(Cells(f, {x})) = f[x]
<1>1. Cells(f, {x}) = {x} \X (1 .. f[x])
    BY DEF Cells
<1>2. IsFiniteSet({x}) /\ Cardinality({x}) = 1
    BY FS_Singleton
<1>3. PICK n \in Nat : n = f[x]
    OBVIOUS
<1>4. IsFiniteSet(1 .. n) /\ Cardinality(1 .. n) = IF 1 > n THEN 0 ELSE n - 1 + 1
    BY 1 \in Int, n \in Int, FS_Interval, Zenon
<1>5. Cardinality(1 .. n) = n
    BY <1>4
<1>6. /\ IsFiniteSet({x} \X (1 .. n))
      /\ Cardinality({x} \X (1 .. n)) = Cardinality({x}) * Cardinality(1 .. n)
    BY <1>2, <1>4, FS_Product, Zenon
<1>7. Cardinality({x} \X (1 .. n)) = 1 * n
    BY <1>2, <1>5, <1>6, Zenon
<1>8. Cells(f, {x}) = {x} \X (1 .. n)
    BY <1>1, <1>3, Zenon
<1>9. 1 * n = n
    OBVIOUS
<1> QED BY <1>3, <1>6, <1>7, <1>8, <1>9, Zenon

LEMMA CellsSplit ==
    ASSUME NEW f, NEW S, NEW x \in S
    PROVE  /\ Cells(f, S) = Cells(f, S \ {x}) \cup Cells(f, {x})
           /\ Cells(f, S \ {x}) \cap Cells(f, {x}) = {}
BY DEF Cells

LEMMA CellsFinite ==
    ASSUME NEW f, NEW S, IsFiniteSet(S), Counts(f, S)
    PROVE  IsFiniteSet(Cells(f, S))
<1> DEFINE T == {s \in SUBSET S : ~IsFiniteSet(Cells(f, s))}
<1> SUFFICES ASSUME T # {} PROVE FALSE
    OBVIOUS
<1>0. T \subseteq SUBSET S
    OBVIOUS
<1>1. PICK s \in T : \A t \in T : t \subseteq s => t = s
    <2> HIDE DEF T
    <2> QED BY <1>0, SmallestSubset
<1>2. CASE s = {}
    <2>1. Cells(f, {}) = {}
        BY DEF Cells
    <2> QED BY <1>2, <2>1, FS_EmptySet
<1>3. CASE s # {}
    <2>1. PICK x \in s : TRUE
        BY <1>3
    <2>2. IsFiniteSet(Cells(f, s \ {x}))
        BY <1>1
    <2>3. IsFiniteSet(Cells(f, {x}))
        BY CellsOfRow DEF Counts
    <2>4. Cells(f, s) = Cells(f, s \ {x}) \cup Cells(f, {x})
        BY CellsSplit
    <2> HIDE DEF T
    <2>5. IsFiniteSet(Cells(f, s))
        BY <2>2, <2>3, <2>4, FS_Union
    <2> QED BY <2>5 DEF T
<1> QED BY <1>2, <1>3

LEMMA SizeSplit ==
    ASSUME NEW f, NEW S, IsFiniteSet(S), Counts(f, S), NEW x \in S
    PROVE  Cardinality(Cells(f, S)) = f[x] + Cardinality(Cells(f, S \ {x}))
<1>1. IsFiniteSet(S \ {x}) /\ Counts(f, S \ {x}) /\ f[x] \in Nat
    BY FS_RemoveElement DEF Counts
<1>2. IsFiniteSet(Cells(f, S \ {x})) /\ IsFiniteSet(Cells(f, {x})) /\ Cardinality(Cells(f, {x})) = f[x]
    BY <1>1, CellsFinite, CellsOfRow
<1>3. Cardinality(Cells(f, S)) = Cardinality(Cells(f, S \ {x})) + f[x] - Cardinality({})
    BY <1>2, CellsSplit, FS_Union
<1> QED BY <1>1, <1>2, <1>3, FS_EmptySet, FS_CardinalityType
-----------------------------------------------------------------------------
Any(s) == CHOOSE x \in s : TRUE

\* What the recursive function of MapThenFoldSet has to satisfy.
Folds0(g, f, S) == g = [s \in SUBSET S |-> IF s = {} THEN 0 ELSE f[Any(s)] + g[s \ {Any(s)}]]

LEMMA SumIsFold ==
    ASSUME NEW f, NEW S PROVE SumFunctionOnSet(f, S) = (CHOOSE g : Folds0(g, f, S))[S]
BY DEF SumFunctionOnSet, FoldFunctionOnSet, MapThenFoldSet, Folds0, Any

LEMMA SumIsSize ==
    ASSUME NEW f, NEW S, IsFiniteSet(S), Counts(f, S)
    PROVE  SumFunctionOnSet(f, S) = Cardinality(Cells(f, S))
<1> DEFINE size == [s \in SUBSET S |-> Cardinality(Cells(f, s))]
<1>1. Folds0(size, f, S)
    <2>1. ASSUME NEW s \in SUBSET S
          PROVE  size[s] = IF s = {} THEN 0 ELSE f[Any(s)] + size[s \ {Any(s)}]
        <3>1. CASE s = {}
            <4>1. Cells(f, {}) = {}
                BY DEF Cells
            <4> QED BY <3>1, <4>1, FS_EmptySet
        <3>2. CASE s # {}
            <4>1. Any(s) \in s
                BY <3>2 DEF Any
            <4>2. IsFiniteSet(s) /\ Counts(f, s)
                BY FS_Subset DEF Counts
            <4>3. s \ {Any(s)} \in SUBSET S
                OBVIOUS
            <4> QED BY <3>2, <4>1, <4>2, <4>3, SizeSplit
        <3> QED BY <3>1, <3>2
    <2>2. size = [s \in SUBSET S |-> size[s]]
        OBVIOUS
    <2> HIDE DEF size
    <2> QED BY <2>1, <2>2 DEF Folds0
<1> DEFINE g == CHOOSE h : Folds0(h, f, S)
<1>2. Folds0(g, f, S)
    BY <1>1
<1>3. \A s \in SUBSET S : g[s] = size[s]
    <2> DEFINE T == {s \in SUBSET S : g[s] # size[s]}
    <2> SUFFICES ASSUME T # {} PROVE FALSE
        OBVIOUS
    <2> HIDE DEF size, g
    <2>0. T \subseteq SUBSET S
        OBVIOUS
    <2>1. PICK s \in T : \A t \in T : t \subseteq s => t = s
        <3> HIDE DEF T
        <3> QED BY <2>0, SmallestSubset
    <2>2. /\ g[s] = IF s = {} THEN 0 ELSE f[Any(s)] + g[s \ {Any(s)}]
          /\ size[s] = IF s = {} THEN 0 ELSE f[Any(s)] + size[s \ {Any(s)}]
        BY <1>1, <1>2 DEF Folds0
    <2>3. s # {} => Any(s) \in s
        BY DEF Any
    <2>4. s # {} => g[s \ {Any(s)}] = size[s \ {Any(s)}]
        BY <2>1, <2>3
    <2> QED BY <2>1, <2>2, <2>4
<1> QED BY <1>3, SumIsFold

LEMMA SumOfNone == ASSUME NEW f PROVE SumFunctionOnSet(f, {}) = 0
<1>1. Cells(f, {}) = {} /\ Counts(f, {})
    BY DEF Cells, Counts
<1> QED BY <1>1, SumIsSize, FS_EmptySet

LEMMA SumIsNat ==
    ASSUME NEW f, NEW S, IsFiniteSet(S), Counts(f, S) PROVE SumFunctionOnSet(f, S) \in Nat
BY SumIsSize, CellsFinite, FS_CardinalityType

\* One term aside.
LEMMA SumTakesOut ==
    ASSUME NEW f, NEW S, IsFiniteSet(S), Counts(f, S), NEW x \in S
    PROVE  SumFunctionOnSet(f, S) = f[x] + SumFunctionOnSet(f, S \ {x})
<1>1. IsFiniteSet(S \ {x}) /\ Counts(f, S \ {x})
    BY FS_RemoveElement DEF Counts
<1> QED BY <1>1, SumIsSize, SizeSplit

\* Only the terms of the set count.
LEMMA SumOfSame ==
    ASSUME NEW f, NEW g, NEW S, IsFiniteSet(S), Counts(f, S), \A x \in S : f[x] = g[x]
    PROVE  SumFunctionOnSet(f, S) = SumFunctionOnSet(g, S)
<1>1. Counts(g, S) /\ Cells(f, S) = Cells(g, S)
    BY DEF Counts, Cells
<1> QED BY <1>1, SumIsSize

\* A term that is replaced changes the sum by the difference.
LEMMA SumReplaces ==
    ASSUME NEW f, NEW g, NEW S, IsFiniteSet(S), Counts(f, S), Counts(g, S), NEW x \in S,
           \A y \in S : y # x => f[y] = g[y]
    PROVE  SumFunctionOnSet(g, S) = SumFunctionOnSet(f, S) - f[x] + g[x]
<1>1. IsFiniteSet(S \ {x}) /\ Counts(f, S \ {x}) /\ \A y \in S \ {x} : f[y] = g[y]
    BY FS_RemoveElement DEF Counts
<1>2. SumFunctionOnSet(f, S \ {x}) = SumFunctionOnSet(g, S \ {x})
    BY <1>1, SumOfSame
<1>3. /\ SumFunctionOnSet(f, S) = f[x] + SumFunctionOnSet(f, S \ {x})
      /\ SumFunctionOnSet(g, S) = g[x] + SumFunctionOnSet(g, S \ {x})
    BY SumTakesOut
<1>4. SumFunctionOnSet(f, S \ {x}) \in Nat /\ f[x] \in Nat /\ g[x] \in Nat
    BY <1>1, SumIsNat DEF Counts
<1> QED BY <1>2, <1>3, <1>4

\* Fewer or smaller terms make no larger sum.
LEMMA SumGrows ==
    ASSUME NEW f, NEW g, NEW S, NEW T, IsFiniteSet(T), S \subseteq T, Counts(f, S), Counts(g, T),
           \A x \in S : f[x] <= g[x]
    PROVE  SumFunctionOnSet(f, S) <= SumFunctionOnSet(g, T)
<1>1. IsFiniteSet(S)
    BY FS_Subset
<1>2. Cells(f, S) \in SUBSET Cells(g, T)
    BY DEF Cells, Counts
<1>3. IsFiniteSet(Cells(g, T))
    BY CellsFinite
<1> QED BY <1>1, <1>2, <1>3, SumIsSize, FS_Subset

\* Terms that are zero do not count.
LEMMA SumSkipsZeros ==
    ASSUME NEW f, NEW S, NEW T, IsFiniteSet(T), S \subseteq T, Counts(f, T),
           \A x \in T \ S : f[x] = 0
    PROVE  SumFunctionOnSet(f, T) = SumFunctionOnSet(f, S)
<1>1. IsFiniteSet(S) /\ Counts(f, S)
    BY FS_Subset DEF Counts
<1>2. Cells(f, T) = Cells(f, S)
    BY DEF Cells, Counts
<1> QED BY <1>1, <1>2, SumIsSize

\* The sum of sums.
LEMMA SumAdds ==
    ASSUME NEW f, NEW g, NEW h, NEW S, IsFiniteSet(S), Counts(f, S), Counts(g, S),
           \A x \in S : h[x] = f[x] + g[x]
    PROVE  SumFunctionOnSet(h, S) = SumFunctionOnSet(f, S) + SumFunctionOnSet(g, S)
<1> DEFINE Sums(s) == SumFunctionOnSet(h, s) = SumFunctionOnSet(f, s) + SumFunctionOnSet(g, s)
<1> DEFINE T == {s \in SUBSET S : ~Sums(s)}
<1> SUFFICES ASSUME T # {} PROVE FALSE
    OBVIOUS
<1>0. T \subseteq SUBSET S
    OBVIOUS
<1>1. PICK s \in T : \A t \in T : t \subseteq s => t = s
    <2> HIDE DEF T
    <2> QED BY <1>0, SmallestSubset
<1>2. CASE s = {}
    <2>1. Sums({})
        BY SumOfNone
    <2> QED BY <1>2, <2>1
<1>3. CASE s # {}
    <2>1. PICK x \in s : TRUE
        BY <1>3
    <2>2. s \ {x} \in SUBSET S /\ s \ {x} \subseteq s /\ s \ {x} # s
        BY <2>1
    <2>3. Sums(s \ {x})
        <3> HIDE DEF Sums
        <3> QED BY <1>1, <2>2
    <2>4. /\ IsFiniteSet(s) /\ IsFiniteSet(s \ {x})
          /\ Counts(f, s) /\ Counts(g, s) /\ Counts(h, s)
          /\ Counts(f, s \ {x}) /\ Counts(g, s \ {x}) /\ Counts(h, s \ {x})
        BY <1>0, FS_Subset DEF Counts
    <2>5. /\ SumFunctionOnSet(f, s) = f[x] + SumFunctionOnSet(f, s \ {x})
          /\ SumFunctionOnSet(g, s) = g[x] + SumFunctionOnSet(g, s \ {x})
          /\ SumFunctionOnSet(h, s) = h[x] + SumFunctionOnSet(h, s \ {x})
        BY <2>1, <2>4, SumTakesOut
    <2>6. /\ SumFunctionOnSet(f, s \ {x}) \in Nat /\ SumFunctionOnSet(g, s \ {x}) \in Nat
          /\ f[x] \in Nat /\ g[x] \in Nat /\ h[x] = f[x] + g[x]
        BY <2>1, <2>4, SumIsNat DEF Counts
    <2>7. Sums(s)
        BY <2>3, <2>5, <2>6
    <2> QED BY <2>7
<1> QED BY <1>2, <1>3

-----------------------------------------------------------------------------
(* The counts of upstream calls. *)

FlushTyped ==
    /\ made \in Nat /\ pending \in Nat /\ stored \in Nat
    /\ write \in [Writes -> Nat]

LEMMA WritePut ==
    ASSUME IsFiniteSet(Writes), FlushTyped, NEW w \in Writes, NEW n \in Nat,
           write' = [write EXCEPT ![w] = n]
    PROVE  /\ write' \in [Writes -> Nat]
           /\ SumFunction(write) \in Nat /\ SumFunction(write') \in Nat
           /\ SumFunction(write') = SumFunction(write) - write[w] + n
<1>1. /\ write' \in [Writes -> Nat] /\ write'[w] = n
      /\ \A v \in Writes : v # w => write[v] = write'[v]
    BY DEF FlushTyped
<1>2. Counts(write, Writes) /\ Counts(write', Writes)
    BY <1>1 DEF Counts, FlushTyped
<1>3. /\ SumFunction(write) = SumFunctionOnSet(write, Writes)
      /\ SumFunction(write') = SumFunctionOnSet(write', Writes)
    <2>1. DOMAIN write = Writes /\ DOMAIN write' = Writes
        BY <1>1 DEF FlushTyped
    <2> QED BY <2>1, Zenon DEF SumFunction
<1>4. SumFunctionOnSet(write', Writes) = SumFunctionOnSet(write, Writes) - write[w] + write'[w]
    <2> DEFINE new == write'
    <2>1. IsFiniteSet(Writes) /\ Counts(write, Writes) /\ Counts(new, Writes)
          /\ \A v \in Writes : v # w => write[v] = new[v]
        BY <1>1, <1>2
    <2> HIDE DEF new
    <2>2. SumFunctionOnSet(new, Writes) = SumFunctionOnSet(write, Writes) - write[w] + new[w]
        BY <2>1, SumReplaces
    <2> QED BY <2>2 DEF new
<1>5. SumFunctionOnSet(write, Writes) \in Nat /\ SumFunctionOnSet(write', Writes) \in Nat
    BY <1>2, SumIsNat, Zenon
<1> QED BY <1>1, <1>3, <1>4, <1>5, Zenon

LEMMA WritesSum ==
    ASSUME IsFiniteSet(Writes), FlushTyped PROVE SumFunction(write) \in Nat
<1>1. Counts(write, Writes) /\ DOMAIN write = Writes
    BY DEF Counts, FlushTyped
<1> QED BY <1>1, SumIsNat, Zenon DEF SumFunction

LEMMA StartWriteConserves ==
    ASSUME IsFiniteSet(Writes), FlushTyped, CallsConserved, StartWrite, UNCHANGED <<made, stored>>
    PROVE  FlushTyped' /\ CallsConserved'
<1>1. CASE UNCHANGED <<pending, write>>
    BY <1>1 DEF FlushTyped, CallsConserved
<1>2. CASE ~UNCHANGED <<pending, write>>
    <2>1. PICK w \in Writes : write[w] = 0 /\ write' = [write EXCEPT ![w] = pending] /\ pending' = 0
        BY <1>2 DEF StartWrite
    <2>2. /\ write' \in [Writes -> Nat] /\ SumFunction(write) \in Nat
          /\ SumFunction(write') = SumFunction(write) - write[w] + pending
        BY <2>1, WritePut DEF FlushTyped
    <2> QED BY <2>1, <2>2 DEF FlushTyped, CallsConserved
<1> QED BY <1>1, <1>2

LEMMA FlushInvariant ==
    ASSUME IsFiniteSet(Writes), FlushTyped, CallsConserved, [FlushNext]_flushVars
    PROVE  FlushTyped' /\ CallsConserved'
<1>1. CASE UNCHANGED <<made, pending, write, stored>>
    BY <1>1 DEF FlushTyped, CallsConserved
<1>2. CASE RecordUpstream
    BY <1>2, WritesSum DEF RecordUpstream, FlushTyped, CallsConserved
<1>3. CASE FlushIfDue \/ LastWrite
    BY <1>3, StartWriteConserves DEF FlushIfDue, LastWrite
<1>4. ASSUME NEW w \in Writes, WriteLands(w) PROVE FlushTyped' /\ CallsConserved'
    <2>1. /\ write' \in [Writes -> Nat] /\ SumFunction(write) \in Nat
          /\ SumFunction(write') = SumFunction(write) - write[w] + 0
        BY <1>4, WritePut, 0 \in Nat DEF WriteLands
    <2>2. write[w] \in Nat
        BY DEF FlushTyped
    <2> QED BY <1>4, <2>1, <2>2 DEF WriteLands, FlushTyped, CallsConserved
<1>5. ASSUME NEW w \in Writes, WriteRejected(w) PROVE FlushTyped' /\ CallsConserved'
    <2>1. /\ write' \in [Writes -> Nat] /\ SumFunction(write) \in Nat
          /\ SumFunction(write') = SumFunction(write) - write[w] + 0
        BY <1>5, WritePut, 0 \in Nat DEF WriteRejected
    <2>2. write[w] \in Nat
        BY DEF FlushTyped
    <2> QED BY <1>5, <2>1, <2>2 DEF WriteRejected, Restored, FlushTyped, CallsConserved
<1> QED
    BY <1>1, <1>2, <1>3, <1>4, <1>5
    DEF FlushNext, flushVars, WaitTimesOut, AfterWaiting, Shutdown, Exit, FlushTick

LEMMA FlushStarts ==
    ASSUME IsFiniteSet(Writes), FlushInit PROVE FlushTyped /\ CallsConserved
<1>1. FlushTyped /\ DOMAIN write = Writes /\ Counts(write, Writes)
    BY DEF FlushInit, FlushTyped, Counts
<1>2. Cells(write, Writes) = {}
    BY DEF FlushInit, Cells
<1>3. SumFunction(write) = 0
    BY <1>1, <1>2, SumIsSize, FS_EmptySet DEF SumFunction
<1> QED BY <1>1, <1>3 DEF FlushInit, CallsConserved

\* No upstream call is lost or counted twice, whatever writes time out, are refused or
\* land late, and whenever the process shuts down.
THEOREM UpstreamCallsConserved ==
    ASSUME IsFiniteSet(Writes) PROVE FlushSpec => []CallsConserved
<1>1. FlushInit => FlushTyped /\ CallsConserved
    BY FlushStarts
<1>2. FlushTyped /\ CallsConserved /\ [FlushNext]_flushVars => FlushTyped' /\ CallsConserved'
    BY FlushInvariant
<1> QED BY <1>1, <1>2, PTL DEF FlushSpec

-----------------------------------------------------------------------------
(* The chain of providers. *)

FailoverTyped ==
    /\ providers \in Nat \ {0}
    /\ elapsed \in 0 .. ReadDeadline
    /\ at \in 1 .. providers
    /\ cap \in Nat
    /\ attempt \in Nat \ {0}
    /\ pieces \in Seq(Nat)
    /\ deadSoFar \in BOOLEAN

\* The pieces read so far are all from the provider that is asked, which is asked once
\* per piece unless it is the last.
FromOne ==
    /\ \A m \in DOMAIN pieces : pieces[m] = at
    /\ at < providers => attempt = 1

\* The cap of a provider before the last is its even share of the time that was left
\* when it was reached, all of which is left while it has answered nothing.
CapIsShare ==
    result = "pending" /\ deadSoFar /\ pieces = <<>> /\ attempt = 1 /\ at < providers =>
        cap * (providers - at + 1) <= Remaining

Failing == FailoverTyped /\ FromOne

LEMMA CapIsNat ==
    ASSUME NEW left \in Nat \ {0}, NEW remaining \in Nat
    PROVE  /\ Cap(left, remaining) \in Nat
           /\ left > 1 => Cap(left, remaining) * left <= remaining
<1> USE FailoverAssumption
<1>1. /\ remaining \div left \in Nat
      /\ (remaining \div left) * left <= remaining
    OBVIOUS
<1> DEFINE q == remaining \div left
<1>2. q \in Nat /\ q * left <= remaining
    BY <1>1
<1>3. Cap(left, remaining) = IF left = 1 THEN PerAttempt ELSE IF PerAttempt < q THEN PerAttempt ELSE q
    BY DEF Cap, Smaller
<1> HIDE DEF q
<1>4. ASSUME PerAttempt < q PROVE PerAttempt * left <= q * left
    BY <1>2, <1>4
<1> QED BY <1>2, <1>3, <1>4

LEMMA MovesOnKeeps ==
    ASSUME Failing, Asking, NEW d \in 0 .. Allowance, NEW silent \in BOOLEAN, MovesOn(d, silent)
    PROVE  Failing'
<1> USE FailoverAssumption
<1>1. d \in Nat /\ Remaining \in Nat /\ d <= Remaining /\ Remaining = ReadDeadline - elapsed
    BY DEF Failing, FailoverTyped, Allowance, Remaining, Smaller
<1>2. CASE at < providers /\ elapsed + d < ReadDeadline
    <2>1. Cap(providers - at, Remaining - d) \in Nat
        <3>1. Remaining - d \in Nat /\ providers - at \in Nat \ {0}
            BY <1>1, <1>2 DEF Failing, FailoverTyped
        <3> QED BY <3>1, CapIsNat
    <2> QED BY <1>1, <1>2, <2>1 DEF Failing, FailoverTyped, FromOne, MovesOn, Restarted
<1>3. CASE ~(at < providers /\ elapsed + d < ReadDeadline)
    BY <1>1, <1>3 DEF Failing, FailoverTyped, FromOne, MovesOn
<1> QED BY <1>2, <1>3

LEMMA AllowanceFits ==
    ASSUME Failing
    PROVE  Allowance \in Nat /\ Allowance <= Remaining /\ Allowance <= cap /\ Remaining \in Nat
BY FailoverAssumption DEF Failing, FailoverTyped, Allowance, Remaining, Smaller

LEMMA FailingHolds ==
    ASSUME Failing, [FailoverNext]_failoverVars PROVE Failing'
<1> USE FailoverAssumption
<1>1. CASE UNCHANGED <<providers, elapsed, at, cap, attempt, pieces, deadSoFar>>
    BY <1>1 DEF Failing, FailoverTyped, FromOne
<1>2. CASE Answers
    <2>1. PICK d \in 0 .. Allowance : elapsed' = elapsed + d
        BY <1>2 DEF Answers
    <2>2. elapsed' \in 0 .. ReadDeadline
        BY <2>1, AllowanceFits DEF Failing, FailoverTyped, Remaining
    <2>3. pieces' = Append(pieces, at) /\ attempt' = 1 /\ UNCHANGED <<providers, at, cap, deadSoFar>>
        BY <1>2 DEF Answers
    <2>4. pieces' \in Seq(Nat) /\ \A m \in DOMAIN pieces' : pieces'[m] = at
        BY <2>3 DEF Failing, FailoverTyped, FromOne
    <2> QED BY <2>2, <2>3, <2>4 DEF Failing, FailoverTyped, FromOne
<1>3. CASE Fails
    <2>1. PICK d \in 0 .. Allowance, w \in 0 .. MaxWait :
              IF attempt < AttemptsAllowed /\ w < Remaining - d
              THEN /\ elapsed' = elapsed + d + w
                   /\ attempt' = attempt + 1
                   /\ UNCHANGED <<providers, at, cap, pieces, deadSoFar, result>>
              ELSE MovesOn(d, FALSE)
        BY <1>3 DEF Fails
    <2>2. CASE attempt < AttemptsAllowed /\ w < Remaining - d
        BY <2>1, <2>2, AllowanceFits DEF Failing, FailoverTyped, FromOne, AttemptsAllowed, Remaining
    <2>3. CASE ~(attempt < AttemptsAllowed /\ w < Remaining - d)
        BY <1>3, <2>1, <2>3, MovesOnKeeps DEF Fails
    <2> QED BY <2>2, <2>3
<1>4. CASE TimesOut
    <2>1. PICK w \in 0 .. MaxWait :
              IF attempt < AttemptsAllowed /\ w < Remaining - Allowance
              THEN /\ elapsed' = elapsed + Allowance + w
                   /\ attempt' = attempt + 1
                   /\ UNCHANGED <<providers, at, cap, pieces, deadSoFar, result>>
              ELSE MovesOn(Allowance, pieces = <<>>)
        BY <1>4 DEF TimesOut
    <2>2. CASE attempt < AttemptsAllowed /\ w < Remaining - Allowance
        BY <2>1, <2>2, AllowanceFits DEF Failing, FailoverTyped, FromOne, AttemptsAllowed, Remaining
    <2>3. CASE ~(attempt < AttemptsAllowed /\ w < Remaining - Allowance)
        <3>1. MovesOn(Allowance, pieces = <<>>) /\ Asking
            BY <1>4, <2>1, <2>3 DEF TimesOut
        <3>2. Allowance \in 0 .. Allowance /\ (pieces = <<>>) \in BOOLEAN
            BY AllowanceFits
        <3> QED BY <3>1, <3>2, MovesOnKeeps
    <2> QED BY <2>2, <2>3
<1>5. CASE Malforms
    BY <1>5, MovesOnKeeps DEF Malforms
<1>6. CASE Misses
    <2>1. PICK d \in 0 .. Allowance :
              IF Believed
              THEN elapsed' = elapsed + d /\ UNCHANGED <<providers, at, cap, attempt, pieces, deadSoFar>>
              ELSE MovesOn(d, FALSE)
        BY <1>6 DEF Misses
    <2>2. CASE Believed
        BY <2>1, <2>2, AllowanceFits DEF Failing, FailoverTyped, FromOne, Remaining
    <2>3. CASE ~Believed
        BY <1>6, <2>1, <2>3, MovesOnKeeps DEF Misses
    <2> QED BY <2>2, <2>3
<1> QED BY <1>1, <1>2, <1>3, <1>4, <1>5, <1>6 DEF FailoverNext, failoverVars, Breaks, Expires

LEMMA FailingStarts == FailoverInit => Failing
<1> USE FailoverAssumption
<1> SUFFICES ASSUME FailoverInit PROVE Failing
    OBVIOUS
<1>1. providers \in Nat \ {0}
    BY DEF FailoverInit
<1>2. cap \in Nat
    BY <1>1, CapIsNat DEF FailoverInit
<1> QED BY <1>1, <1>2 DEF FailoverInit, Failing, FailoverTyped, FromOne

\* A read is never pieced together from two providers, whichever of its requests fail.
THEOREM OneSourceHolds == FailoverSpec => []OneSource
<1>1. FailoverInit => Failing
    BY FailingStarts
<1>2. Failing /\ [FailoverNext]_failoverVars => Failing'
    BY FailingHolds
<1>3. Failing => OneSource
    BY DEF Failing, FromOne, OneSource
<1> QED BY <1>1, <1>2, <1>3, PTL DEF FailoverSpec

\* What is left when one of k providers took at most its share is enough for the rest.
LEMMA RestIsEven ==
    ASSUME NEW remaining \in Nat, NEW n \in Nat, NEW deadline \in Nat, NEW k \in Nat \ {0}, NEW c \in Nat,
           c <= remaining, c * k <= remaining, remaining * n >= deadline * k
    PROVE  (remaining - c) * n >= deadline * (k - 1)
<1>1. PICK x \in Nat : x = c * n
    OBVIOUS
<1>2. PICK b \in Nat : b = remaining * n
    OBVIOUS
<1>3. (c * k) * n <= remaining * n
    BY (c * k) \in Nat
<1>4. (c * k) * n = (c * n) * k
    OBVIOUS
<1>5. x * k <= b
    BY <1>1, <1>2, <1>3, <1>4
<1>6. (remaining - c) * n = b - x
    BY <1>1, <1>2
<1>7. deadline * (k - 1) = deadline * k - deadline
    OBVIOUS
<1>8. CASE x <= deadline
    BY <1>2, <1>6, <1>7, <1>8
<1>9. CASE x > deadline
    <2>1. b - x >= x * (k - 1)
        BY <1>5
    <2>2. x * (k - 1) >= deadline * (k - 1)
        BY <1>9
    <2> QED BY <1>6, <2>1, <2>2
<1> QED BY <1>8, <1>9

Sharing == Failing /\ CapIsShare /\ SharesAreEven

LEMMA SharingMovesOn ==
    ASSUME Sharing, Asking, NEW d \in 0 .. Allowance, NEW silent \in BOOLEAN, MovesOn(d, silent),
           silent => pieces = <<>>
    PROVE  (CapIsShare /\ SharesAreEven)'
<1> USE FailoverAssumption DEF Sharing
<1>1. d \in Nat /\ Remaining \in Nat /\ d <= Remaining /\ d <= cap
    BY AllowanceFits DEF Failing, FailoverTyped
<1>2. CASE at < providers /\ elapsed + d < ReadDeadline
    <2>1. /\ at' = at + 1 /\ cap' = Cap(providers - at, Remaining - d) /\ attempt' = 1
          /\ pieces' = <<>> /\ deadSoFar' = (deadSoFar /\ silent) /\ UNCHANGED <<providers, result>>
          /\ elapsed' = elapsed + d
        BY <1>2 DEF MovesOn, Restarted
    <2>2. Remaining' = Remaining - d /\ Remaining - d \in Nat
        BY <1>1, <2>1 DEF Remaining, Failing, FailoverTyped
    <2>3. CapIsShare'
        <3>1. at' < providers' => providers - at \in Nat \ {0} /\ providers - at > 1
            BY <2>1 DEF Failing, FailoverTyped
        <3>2. at' < providers' => cap' * (providers - at) <= Remaining - d
            BY <2>1, <2>2, <3>1, CapIsNat
        <3>3. providers' - at' + 1 = providers - at
            BY <2>1 DEF Failing, FailoverTyped
        <3> QED BY <2>2, <3>2, <3>3 DEF CapIsShare
    <2>4. SharesAreEven'
        <3> SUFFICES ASSUME deadSoFar, silent
                     PROVE  Remaining' * providers >= ReadDeadline * (providers' - at' + 1)
            BY <2>1 DEF SharesAreEven
        <3>1. pieces = <<>> /\ attempt = 1 /\ result = "pending"
            BY <1>2 DEF Asking, Failing, FromOne
        <3> DEFINE k == providers - at + 1
        <3>2. k \in Nat \ {0} /\ providers' - at' + 1 = k - 1 /\ providers \in Nat
            BY <2>1 DEF Failing, FailoverTyped
        <3>3. Remaining * providers >= ReadDeadline * k /\ cap * k <= Remaining
            BY <1>2, <3>1 DEF SharesAreEven, CapIsShare
        <3> HIDE DEF k
        <3>4. d * k <= cap * k /\ cap * k \in Nat /\ d * k \in Nat
            BY <1>1, <3>2 DEF Failing, FailoverTyped
        <3>5. d * k <= Remaining
            BY <1>1, <3>3, <3>4
        <3>6. (Remaining - d) * providers >= ReadDeadline * (k - 1)
            BY <1>1, <3>2, <3>3, <3>5, RestIsEven
        <3> QED BY <2>2, <3>2, <3>6
    <2> QED BY <2>3, <2>4
<1>3. CASE ~(at < providers /\ elapsed + d < ReadDeadline)
    <2>1. result' = "unavailable" /\ UNCHANGED <<providers, at, cap, attempt, pieces, deadSoFar>>
          /\ elapsed' = elapsed + d
        BY <1>3 DEF MovesOn
    <2>2. SharesAreEven'
        BY <2>1 DEF SharesAreEven
    <2>3. CapIsShare'
        BY <2>1 DEF CapIsShare
    <2> QED BY <2>2, <2>3
<1> QED BY <1>2, <1>3

LEMMA SharingHolds ==
    ASSUME Sharing, [FailoverNext]_failoverVars PROVE Sharing'
<1> USE FailoverAssumption
<1> SUFFICES (CapIsShare /\ SharesAreEven)'
    BY FailingHolds DEF Sharing
<1>1. CASE UNCHANGED failoverVars
    BY <1>1 DEF failoverVars, Sharing, CapIsShare, SharesAreEven, Remaining
<1>2. CASE Answers
    <2>1. pieces' = Append(pieces, at) /\ pieces \in Seq(Nat)
        BY <1>2 DEF Answers, Sharing, Failing, FailoverTyped
    <2>2. pieces' # <<>>
        BY <2>1
    <2> QED BY <2>2 DEF CapIsShare, SharesAreEven
<1>3. CASE Fails
    <2>1. PICK d \in 0 .. Allowance, w \in 0 .. MaxWait :
              IF attempt < AttemptsAllowed /\ w < Remaining - d
              THEN attempt' = attempt + 1
              ELSE MovesOn(d, FALSE)
        BY <1>3, Zenon DEF Fails
    <2>2. CASE attempt < AttemptsAllowed /\ w < Remaining - d
        BY <2>1, <2>2 DEF Sharing, Failing, FailoverTyped, CapIsShare, SharesAreEven
    <2>3. CASE ~(attempt < AttemptsAllowed /\ w < Remaining - d)
        BY <1>3, <2>1, <2>3, SharingMovesOn DEF Fails
    <2> QED BY <2>2, <2>3
<1>4. CASE TimesOut
    <2>1. PICK w \in 0 .. MaxWait :
              IF attempt < AttemptsAllowed /\ w < Remaining - Allowance
              THEN attempt' = attempt + 1
              ELSE MovesOn(Allowance, pieces = <<>>)
        BY <1>4, Zenon DEF TimesOut
    <2>2. CASE attempt < AttemptsAllowed /\ w < Remaining - Allowance
        BY <2>1, <2>2 DEF Sharing, Failing, FailoverTyped, CapIsShare, SharesAreEven
    <2>3. CASE ~(attempt < AttemptsAllowed /\ w < Remaining - Allowance)
        <3>1. MovesOn(Allowance, pieces = <<>>) /\ Asking
            BY <1>4, <2>1, <2>3 DEF TimesOut
        <3>2. Allowance \in 0 .. Allowance /\ (pieces = <<>>) \in BOOLEAN
            BY AllowanceFits DEF Sharing
        <3> QED BY <3>1, <3>2, SharingMovesOn
    <2> QED BY <2>2, <2>3
<1>5. CASE Malforms
    BY <1>5, SharingMovesOn DEF Malforms
<1>6. CASE Misses
    <2>1. PICK d \in 0 .. Allowance : IF Believed THEN result' = "missing" ELSE MovesOn(d, FALSE)
        BY <1>6, Zenon DEF Misses
    <2>2. CASE Believed
        BY <2>1, <2>2 DEF CapIsShare, SharesAreEven
    <2>3. CASE ~Believed
        BY <1>6, <2>1, <2>3, SharingMovesOn DEF Misses
    <2> QED BY <2>2, <2>3
<1>7. CASE Breaks \/ Expires
    BY <1>7 DEF Breaks, Expires, CapIsShare, SharesAreEven
<1> QED BY <1>1, <1>2, <1>3, <1>4, <1>5, <1>6, <1>7 DEF FailoverNext

LEMMA SharingStarts == FailoverInit => Sharing
<1> USE FailoverAssumption
<1> SUFFICES ASSUME FailoverInit PROVE CapIsShare /\ SharesAreEven
    BY FailingStarts DEF Sharing
<1>1. providers \in Nat \ {0} /\ at = 1 /\ Remaining = ReadDeadline /\ cap = Cap(providers, ReadDeadline)
    BY DEF FailoverInit, Remaining
<1>2. providers > 1 => cap * providers <= ReadDeadline
    BY <1>1, CapIsNat
<1>3. providers - at + 1 = providers
    BY <1>1
<1>4. CapIsShare
    BY <1>1, <1>2, <1>3 DEF CapIsShare
<1>5. SharesAreEven
    BY <1>1, <1>3 DEF SharesAreEven
<1> QED BY <1>4, <1>5

\* However many providers are silent, each that is reached after them has its even share
\* of the deadline left.
THEOREM SharesHold == FailoverSpec => []SharesAreEven
<1>1. FailoverInit => Sharing
    BY SharingStarts
<1>2. Sharing /\ [FailoverNext]_failoverVars => Sharing'
    BY SharingHolds
<1>3. Sharing => SharesAreEven
    BY DEF Sharing
<1> QED BY <1>1, <1>2, <1>3, PTL DEF FailoverSpec

-----------------------------------------------------------------------------
(* The count of closes. *)

Readings == [pc : {"waiting", "done", "failed"}, of : Loads \cup {NoLoad}, at : Nat,
             known : SUBSET Closes, in : SUBSET Closes]
Reportings == [pc : {"verified", "built", "counted"}, p : Processes, of : Closes]

StatsTyped ==
    /\ moment \in Nat
    /\ counted \subseteq Closes
    /\ entry \in [Processes -> [of : Loads \cup {NoLoad}, until : Nat]]
    /\ load \in [Loads -> [pc : {"asked", "read", "kept", "broken"}, in : SUBSET Closes]]
    /\ reader \in [Readers -> {Idle} \cup Readings]
    /\ report \in [Reports -> {Idle} \cup Reportings]
    /\ countedAt \in [Closes -> Nat]
    /\ announced \in [Processes -> SUBSET Closes]

\* What an answer owes to someone who knew of these closes and asked at t.
Owed(known, t, in) ==
    /\ known \subseteq in
    /\ \A h \in counted : countedAt[h] + TotalsWindow < t => h \in in

\* An entry is of a read that has not failed, is no older than its window, and holds
\* what its instance has announced: it was dropped when more was.
EntryIsGood(p, l) ==
    /\ load[l].pc # "broken"
    /\ entry[p].until <= moment + TotalsWindow
    /\ load[l].pc \in {"read", "kept"} => Owed(announced[p], entry[p].until, load[l].in)

EntriesAreGood ==
    \A p \in Processes, l \in Loads : entry[p].of = l => EntryIsGood(p, l)

\* Who waits, waits for a read under way, and will be owed what it will hold.
WaiterIsGood(r) ==
    /\ reader[r].of \in Loads
    /\ load[reader[r].of].pc \in {"asked", "read"}
    /\ reader[r].at <= moment /\ reader[r].known \subseteq counted
    /\ load[reader[r].of].pc = "read" =>
          Owed(reader[r].known, reader[r].at, load[reader[r].of].in)

WaitersAreGood ==
    \A r \in Readers : reader[r].pc = "waiting" => WaiterIsGood(r)

DoneAreGood ==
    \A r \in Readers : reader[r].pc = "done" =>
        reader[r].at <= moment /\ Owed(reader[r].known, reader[r].at, reader[r].in)

AnnouncedAreCounted ==
    /\ \A p \in Processes : announced[p] \subseteq counted
    /\ \A r \in Reports : report[r].pc = "counted" => report[r].of \in counted

StatsInv ==
    /\ StatsTyped
    /\ EntriesAreGood
    /\ WaitersAreGood
    /\ DoneAreGood
    /\ AnnouncedAreCounted

LEMMA StatsStarts == StatsInit => StatsInv
<1> SUFFICES ASSUME StatsInit PROVE StatsInv
    OBVIOUS
<1>1. StatsTyped
    BY DEF StatsInit, StatsTyped, NoEntry, NoRead, Idle
<1>2. EntriesAreGood
    BY StatsAssumption DEF StatsInit, EntriesAreGood, NoEntry
<1>3. WaitersAreGood /\ DoneAreGood /\ AnnouncedAreCounted
    BY DEF StatsInit, WaitersAreGood, DoneAreGood, AnnouncedAreCounted, Idle
<1> QED BY <1>1, <1>2, <1>3 DEF StatsInv

LEMMA OwedEarlier ==
    ASSUME StatsTyped, NEW known, NEW in, NEW u \in Nat, NEW t \in Nat, t < u, Owed(known, u, in)
    PROVE  Owed(known, t, in)
<1>1. ASSUME NEW h \in counted, countedAt[h] + TotalsWindow < t PROVE h \in in
    <2>1. countedAt[h] \in Nat /\ TotalsWindow \in Nat
        BY StatsAssumption DEF StatsTyped
    <2>2. countedAt[h] + TotalsWindow < u
        BY <1>1, <2>1
    <2> QED BY <2>2 DEF Owed
<1> QED BY <1>1 DEF Owed

\* A reader joins the read of an entry that still holds.
LEMMA AskHit ==
    ASSUME StatsInv, NEW r \in Readers, NEW p \in Processes, reader[r].pc # "waiting", Hit(p),
           AskTotals(r, p)
    PROVE  StatsInv' /\ reader'[r].pc # "failed"
<1>1. PICK l \in Loads : l = entry[p].of
    BY DEF Hit, StatsInv, StatsTyped
<1> DEFINE me == Given(Outcome(load[l]), [at |-> moment, known |-> announced[p]], l)
<1>2. /\ reader' = [reader EXCEPT ![r] = me]
      /\ UNCHANGED <<moment, counted, total, entry, load, report, countedAt, announced>>
    BY <1>1 DEF AskTotals, Joins
<1>3. EntryIsGood(p, l) /\ moment < entry[p].until
    BY <1>1 DEF StatsInv, EntriesAreGood, Hit, StatsTyped
<1>4. /\ me \in Readings /\ me.at = moment /\ me.known = announced[p] /\ me.in = load[l].in
      /\ me.pc = Outcome(load[l]) /\ (me.pc = "waiting" => me.of = l)
    BY DEF Given, Outcome, StatsInv, StatsTyped, Readings
<1>5. load[l].pc = "kept" => Owed(announced[p], moment, load[l].in)
    BY <1>3, OwedEarlier DEF EntryIsGood, StatsInv, StatsTyped
<1>6. load[l].pc = "read" => Owed(announced[p], moment, load[l].in)
    BY <1>3, OwedEarlier DEF EntryIsGood, StatsInv, StatsTyped
<1>7. /\ me.pc \in {"waiting", "done"}
      /\ me.pc = "done" => load[l].pc = "kept"
      /\ me.pc = "waiting" => load[l].pc \in {"asked", "read"}
    BY <1>3, <1>4 DEF EntryIsGood, Outcome, StatsInv, StatsTyped
<1> HIDE DEF me
<1>8. /\ reader'[r] = me /\ \A s \in Readers : s # r => reader'[s] = reader[s]
      /\ reader' \in [Readers -> {Idle} \cup Readings]
    BY <1>2, <1>4 DEF StatsInv, StatsTyped
<1>9. StatsTyped'
    BY <1>2, <1>8 DEF StatsInv, StatsTyped
<1>10. EntriesAreGood' /\ AnnouncedAreCounted'
    BY <1>2 DEF StatsInv, EntriesAreGood, EntryIsGood, AnnouncedAreCounted, Owed
<1>11. WaitersAreGood'
    <2>1. ASSUME NEW s \in Readers, reader'[s].pc = "waiting" PROVE WaiterIsGood(s)'
        <3>1. CASE s = r
            <4>1. announced[p] \subseteq counted /\ moment <= moment
                BY DEF StatsInv, AnnouncedAreCounted, StatsTyped
            <4> QED BY <1>2, <1>4, <1>6, <1>7, <1>8, <2>1, <3>1, <4>1 DEF WaiterIsGood, Owed
        <3>2. CASE s # r
            BY <1>2, <1>8, <2>1, <3>2 DEF StatsInv, WaitersAreGood, WaiterIsGood, Owed
        <3> QED BY <3>1, <3>2
    <2> QED BY <2>1 DEF WaitersAreGood
<1>12. DoneAreGood'
    <2>1. ASSUME NEW s \in Readers, reader'[s].pc = "done"
          PROVE  reader'[s].at <= moment /\ Owed(reader'[s].known, reader'[s].at, reader'[s].in)
        <3>1. CASE s = r
            BY <1>4, <1>5, <1>7, <1>8, <2>1, <3>1 DEF StatsInv, StatsTyped
        <3>2. CASE s # r
            BY <1>8, <2>1, <3>2 DEF StatsInv, DoneAreGood
        <3> QED BY <3>1, <3>2
    <2> QED BY <1>2, <2>1 DEF DoneAreGood, Owed
<1> QED BY <1>7, <1>8, <1>9, <1>10, <1>11, <1>12 DEF StatsInv

\* A reader starts a read of its own.
LEMMA AskMiss ==
    ASSUME StatsInv, NEW r \in Readers, NEW p \in Processes, reader[r].pc # "waiting", ~Hit(p),
           AskTotals(r, p)
    PROVE  StatsInv' /\ reader'[r].pc # "failed"
<1>1. PICK l \in Loads :
          /\ Free(l)
          /\ load' = [load EXCEPT ![l] = NoRead]
          /\ entry' = [entry EXCEPT ![p] = [of |-> l, until |-> moment + TotalsWindow]]
          /\ Joins(r, p, l)
    BY DEF AskTotals
<1> DEFINE me == Given("waiting", [at |-> moment, known |-> announced[p]], l)
<1>2. /\ reader' = [reader EXCEPT ![r] = me]
      /\ UNCHANGED <<moment, counted, total, report, countedAt, announced>>
    BY <1>1 DEF AskTotals, Joins, NoRead, Outcome, StatsInv, StatsTyped
<1>3. /\ me \in Readings /\ me.at = moment /\ me.known = announced[p] /\ me.pc = "waiting" /\ me.of = l
    BY DEF Given, StatsInv, StatsTyped, Readings
<1> HIDE DEF me
<1>4. /\ reader'[r] = me /\ \A s \in Readers : s # r => reader'[s] = reader[s]
      /\ reader' \in [Readers -> {Idle} \cup Readings]
    BY <1>2, <1>3 DEF StatsInv, StatsTyped
<1>5. /\ load'[l] = NoRead /\ \A m \in Loads : m # l => load'[m] = load[m]
      /\ load' \in [Loads -> [pc : {"asked", "read", "kept", "broken"}, in : SUBSET Closes]]
    BY <1>1 DEF StatsInv, StatsTyped, NoRead
<1>6. /\ entry'[p] = [of |-> l, until |-> moment + TotalsWindow]
      /\ \A q \in Processes : q # p => entry'[q] = entry[q]
      /\ entry' \in [Processes -> [of : Loads \cup {NoLoad}, until : Nat]]
    BY <1>1, StatsAssumption DEF StatsInv, StatsTyped
<1>7. StatsTyped'
    BY <1>2, <1>4, <1>5, <1>6 DEF StatsInv, StatsTyped
<1>8. EntriesAreGood'
    <2>1. ASSUME NEW q \in Processes, NEW m \in Loads, entry'[q].of = m PROVE EntryIsGood(q, m)'
        <3>1. CASE q = p
            BY <1>2, <1>5, <1>6, <2>1, <3>1, StatsAssumption
            DEF EntryIsGood, NoRead, StatsInv, StatsTyped
        <3>2. CASE q # p
            <4>1. m # l /\ entry'[q] = entry[q] /\ load'[m] = load[m] /\ EntryIsGood(q, m)
                BY <1>1, <1>5, <1>6, <2>1, <3>2 DEF Free, StatsInv, EntriesAreGood
            <4> QED BY <1>2, <4>1 DEF EntryIsGood, Owed
        <3> QED BY <3>1, <3>2
    <2> QED BY <2>1 DEF EntriesAreGood
<1>9. WaitersAreGood'
    <2>1. ASSUME NEW s \in Readers, reader'[s].pc = "waiting" PROVE WaiterIsGood(s)'
        <3>1. CASE s = r
            <4>1. announced[p] \subseteq counted /\ moment <= moment
                BY DEF StatsInv, AnnouncedAreCounted, StatsTyped
            <4> QED BY <1>2, <1>3, <1>4, <1>5, <3>1, <4>1 DEF WaiterIsGood, NoRead
        <3>2. CASE s # r
            <4>1. reader'[s] = reader[s] /\ reader[s].of # l /\ WaiterIsGood(s)
                BY <1>1, <1>4, <2>1, <3>2 DEF Free, StatsInv, WaitersAreGood
            <4>2. load'[reader[s].of] = load[reader[s].of]
                BY <1>5, <4>1 DEF WaiterIsGood
            <4> QED BY <1>2, <4>1, <4>2 DEF WaiterIsGood, Owed
        <3> QED BY <3>1, <3>2
    <2> QED BY <2>1 DEF WaitersAreGood
<1>10. DoneAreGood'
    <2>1. \A s \in Readers : reader'[s].pc = "done" => s # r
        BY <1>3, <1>4
    <2> QED BY <1>2, <1>4, <2>1 DEF StatsInv, DoneAreGood, Owed
<1>11. AnnouncedAreCounted'
    BY <1>2 DEF StatsInv, AnnouncedAreCounted
<1> QED BY <1>3, <1>4, <1>7, <1>8, <1>9, <1>10, <1>11 DEF StatsInv

\* The store answers: the read holds every close counted so far.
LEMMA ReadIsAnswered ==
    ASSUME StatsInv, NEW l \in Loads, StoreReads(l) PROVE StatsInv'
<1>1. /\ load[l].pc = "asked" /\ load' = [load EXCEPT ![l] = [pc |-> "read", in |-> counted]]
      /\ UNCHANGED <<moment, counted, total, entry, reader, report, countedAt, announced>>
    BY DEF StoreReads
<1>2. /\ load'[l] = [pc |-> "read", in |-> counted] /\ \A m \in Loads : m # l => load'[m] = load[m]
      /\ load' \in [Loads -> [pc : {"asked", "read", "kept", "broken"}, in : SUBSET Closes]]
    BY <1>1 DEF StatsInv, StatsTyped
<1>3. \A known, t : known \subseteq counted => Owed(known, t, counted)
    BY DEF Owed
<1>4. StatsTyped'
    BY <1>1, <1>2 DEF StatsInv, StatsTyped
<1>5. EntriesAreGood'
    <2>1. ASSUME NEW p \in Processes, NEW m \in Loads, entry[p].of = m PROVE EntryIsGood(p, m)'
        <3>1. EntryIsGood(p, m) /\ announced[p] \subseteq counted
            BY <2>1 DEF StatsInv, EntriesAreGood, AnnouncedAreCounted
        <3>2. CASE m = l
            <4>1. Owed(announced[p], entry[p].until, counted)
                BY <1>3, <3>1
            <4> QED BY <1>1, <1>2, <3>1, <3>2, <4>1 DEF EntryIsGood, Owed
        <3>3. CASE m # l
            BY <1>1, <1>2, <3>1, <3>3 DEF EntryIsGood, Owed
        <3> QED BY <3>2, <3>3
    <2> QED BY <1>1, <2>1 DEF EntriesAreGood
<1>6. WaitersAreGood'
    <2>1. ASSUME NEW r \in Readers, reader[r].pc = "waiting" PROVE WaiterIsGood(r)'
        <3>1. WaiterIsGood(r)
            BY <2>1 DEF StatsInv, WaitersAreGood
        <3>2. CASE reader[r].of = l
            <4>1. Owed(reader[r].known, reader[r].at, counted)
                BY <1>3, <3>1 DEF WaiterIsGood
            <4> QED BY <1>1, <1>2, <3>1, <3>2, <4>1 DEF WaiterIsGood, Owed
        <3>3. CASE reader[r].of # l
            BY <1>1, <1>2, <3>1, <3>3 DEF WaiterIsGood, Owed
        <3> QED BY <3>2, <3>3
    <2> QED BY <1>1, <2>1 DEF WaitersAreGood
<1>7. DoneAreGood' /\ AnnouncedAreCounted'
    BY <1>1 DEF StatsInv, DoneAreGood, AnnouncedAreCounted, Owed
<1> QED BY <1>4, <1>5, <1>6, <1>7 DEF StatsInv

\* A read that ends answers those who wait for it, and is left by them: pc is what they get.
LEMMA WaitersLeave ==
    ASSUME StatsInv, NEW l \in Loads, NEW pc \in {"done", "failed"}, reader' = WaitersGet(l, pc),
           NEW now \in {"kept", "broken"}, load' = [load EXCEPT ![l].pc = now],
           pc = "done" => load[l].pc = "read",
           UNCHANGED <<moment, counted, report, countedAt, announced>>
    PROVE  /\ reader' \in [Readers -> {Idle} \cup Readings]
           /\ load' \in [Loads -> [pc : {"asked", "read", "kept", "broken"}, in : SUBSET Closes]]
           /\ WaitersAreGood' /\ DoneAreGood' /\ AnnouncedAreCounted'
           /\ \A r \in Readers : reader[r].pc # "waiting" => reader'[r] = reader[r]
           /\ load'[l] = [load[l] EXCEPT !.pc = now]
           /\ \A m \in Loads : m # l => load'[m] = load[m]
<1>1. /\ load'[l] = [load[l] EXCEPT !.pc = now] /\ \A m \in Loads : m # l => load'[m] = load[m]
      /\ load' \in [Loads -> [pc : {"asked", "read", "kept", "broken"}, in : SUBSET Closes]]
    BY DEF StatsInv, StatsTyped
<1>2. \A r \in Readers :
          reader'[r] = IF reader[r].pc = "waiting" /\ reader[r].of = l
                       THEN Given(pc, reader[r], l) ELSE reader[r]
    BY DEF WaitersGet
<1>3. ASSUME NEW r \in Readers, reader[r].pc = "waiting", reader[r].of = l
      PROVE  /\ reader'[r] \in Readings /\ reader'[r].pc = pc /\ reader'[r].at = reader[r].at
             /\ reader'[r].known = reader[r].known /\ reader'[r].in = load[l].in
    <2>1. reader[r] \in Readings
        BY <1>3 DEF StatsInv, StatsTyped, Idle
    <2>2. /\ reader[r].at \in Nat /\ reader[r].known \in SUBSET Closes /\ load[l].in \in SUBSET Closes
          /\ pc # "waiting" /\ pc \in {"waiting", "done", "failed"}
        BY <2>1 DEF Readings, StatsInv, StatsTyped
    <2>3. reader'[r] = [pc |-> pc, of |-> NoLoad, at |-> reader[r].at, known |-> reader[r].known,
                        in |-> load[l].in]
        BY <1>2, <1>3, <2>2 DEF Given
    <2> QED BY <2>2, <2>3 DEF Readings
<1>4. reader' \in [Readers -> {Idle} \cup Readings]
    <2>1. \A r \in Readers : reader'[r] \in {Idle} \cup Readings
        BY <1>2, <1>3 DEF StatsInv, StatsTyped
    <2> QED BY <2>1 DEF WaitersGet
<1>5. WaitersAreGood'
    <2>1. ASSUME NEW r \in Readers, reader'[r].pc = "waiting" PROVE WaiterIsGood(r)'
        <3>1. reader'[r] = reader[r] /\ reader[r].of # l /\ WaiterIsGood(r)
            BY <1>2, <1>3, <2>1 DEF StatsInv, WaitersAreGood
        <3>2. load'[reader[r].of] = load[reader[r].of]
            BY <1>1, <3>1 DEF WaiterIsGood
        <3> QED BY <3>1, <3>2 DEF WaiterIsGood, Owed
    <2> QED BY <2>1 DEF WaitersAreGood
<1>6. DoneAreGood'
    <2>1. ASSUME NEW r \in Readers, reader'[r].pc = "done"
          PROVE  reader'[r].at <= moment /\ Owed(reader'[r].known, reader'[r].at, reader'[r].in)
        <3>1. CASE reader[r].pc = "waiting" /\ reader[r].of = l
            <4>1. WaiterIsGood(r)
                BY <3>1 DEF StatsInv, WaitersAreGood
            <4>2. load[l].pc = "read"
                BY <1>3, <2>1, <3>1
            <4> QED BY <1>3, <3>1, <4>1, <4>2 DEF WaiterIsGood
        <3>2. CASE ~(reader[r].pc = "waiting" /\ reader[r].of = l)
            BY <1>2, <2>1, <3>2 DEF StatsInv, DoneAreGood
        <3> QED BY <3>1, <3>2
    <2> QED BY <2>1 DEF DoneAreGood, Owed
<1>7. AnnouncedAreCounted'
    BY DEF StatsInv, AnnouncedAreCounted
<1> QED BY <1>1, <1>2, <1>4, <1>5, <1>6, <1>7

LEMMA KeepHolds ==
    ASSUME StatsInv, NEW l \in Loads, Keep(l) PROVE StatsInv'
<1>1. /\ load[l].pc = "read" /\ load' = [load EXCEPT ![l].pc = "kept"] /\ reader' = WaitersGet(l, "done")
      /\ UNCHANGED <<moment, counted, total, entry, report, countedAt, announced>>
    BY DEF Keep
<1>2. /\ WaitersAreGood' /\ DoneAreGood' /\ AnnouncedAreCounted'
      /\ reader' \in [Readers -> {Idle} \cup Readings]
      /\ load' \in [Loads -> [pc : {"asked", "read", "kept", "broken"}, in : SUBSET Closes]]
      /\ load'[l] = [load[l] EXCEPT !.pc = "kept"]
      /\ \A m \in Loads : m # l => load'[m] = load[m]
    BY <1>1, WaitersLeave
<1>3. StatsTyped'
    BY <1>1, <1>2 DEF StatsInv, StatsTyped
<1>4. load'[l].pc = "kept" /\ load'[l].in = load[l].in
    BY <1>2 DEF StatsInv, StatsTyped
<1>5. EntriesAreGood'
    <2>1. ASSUME NEW p \in Processes, NEW m \in Loads, entry[p].of = m PROVE EntryIsGood(p, m)'
        <3>1. EntryIsGood(p, m)
            BY <2>1 DEF StatsInv, EntriesAreGood
        <3> QED BY <1>1, <1>2, <1>4, <3>1 DEF EntryIsGood, Owed
    <2> QED BY <1>1, <2>1 DEF EntriesAreGood
<1> QED BY <1>2, <1>3, <1>5 DEF StatsInv

\* A read that fails is evicted from every instance that had cached it.
LEMMA BreakHolds ==
    ASSUME StatsInv, NEW l \in Loads, Break(l) PROVE StatsInv'
<1>1. /\ load' = [load EXCEPT ![l].pc = "broken"] /\ reader' = WaitersGet(l, "failed")
      /\ entry' = Evicted(l)
      /\ UNCHANGED <<moment, counted, total, report, countedAt, announced>>
    BY DEF Break
<1>2. /\ WaitersAreGood' /\ DoneAreGood' /\ AnnouncedAreCounted'
      /\ reader' \in [Readers -> {Idle} \cup Readings]
      /\ load' \in [Loads -> [pc : {"asked", "read", "kept", "broken"}, in : SUBSET Closes]]
      /\ \A m \in Loads : m # l => load'[m] = load[m]
    BY <1>1, WaitersLeave
<1>3. \A p \in Processes : entry'[p] = IF entry[p].of = l THEN NoEntry ELSE entry[p]
    BY <1>1 DEF Evicted
<1>4. entry' \in [Processes -> [of : Loads \cup {NoLoad}, until : Nat]]
    BY <1>1 DEF Evicted, NoEntry, StatsInv, StatsTyped
<1>5. StatsTyped'
    BY <1>1, <1>2, <1>4 DEF StatsInv, StatsTyped
<1>6. EntriesAreGood'
    <2>1. ASSUME NEW p \in Processes, NEW m \in Loads, entry'[p].of = m PROVE EntryIsGood(p, m)'
        <3>1. m # l /\ entry'[p] = entry[p] /\ EntryIsGood(p, m)
            BY <1>3, <2>1, StatsAssumption DEF NoEntry, StatsInv, EntriesAreGood
        <3> QED BY <1>1, <1>2, <3>1 DEF EntryIsGood, Owed
    <2> QED BY <2>1 DEF EntriesAreGood
<1> QED BY <1>2, <1>5, <1>6 DEF StatsInv

\* A close that is counted now was not counted before any read that has been answered.
LEMMA CommitHolds ==
    ASSUME StatsInv, NEW r \in Reports, Commit(r) PROVE StatsInv'
<1> DEFINE h == report[r].of
<1>1. h \in Closes /\ report[r] \in Reportings
    BY DEF Commit, Idle, Reportings, StatsInv, StatsTyped
<1>2. UNCHANGED <<moment, entry, load, reader, announced>>
    BY DEF Commit
<1>3. CASE ~IsNew(h)
    <2>1. report' = [report EXCEPT ![r] = Idle] /\ UNCHANGED <<counted, total, countedAt>>
        BY <1>3 DEF Commit
    <2>2. StatsTyped' /\ AnnouncedAreCounted'
        BY <1>2, <2>1 DEF StatsInv, StatsTyped, AnnouncedAreCounted, Idle
    <2> QED
        BY <1>2, <2>1, <2>2
        DEF StatsInv, EntriesAreGood, EntryIsGood, WaitersAreGood, WaiterIsGood, DoneAreGood, Owed
<1>4. CASE IsNew(h)
    <2>1. /\ counted' = counted \cup {h} /\ countedAt' = [countedAt EXCEPT ![h] = moment]
          /\ report' = [report EXCEPT ![r].pc = "counted"]
        BY <1>4 DEF Commit
    <2>2. /\ countedAt' \in [Closes -> Nat] /\ countedAt'[h] = moment
          /\ \A g \in counted : countedAt'[g] = countedAt[g]
        BY <1>1, <1>4, <2>1 DEF IsNew, StatsInv, StatsTyped
    <2>3. report' \in [Reports -> {Idle} \cup Reportings]
        BY <1>1, <2>1 DEF Reportings, StatsInv, StatsTyped
    <2>4. \A q \in Reports : report'[q].of = report[q].of /\ (q # r => report'[q] = report[q])
        BY <1>1, <2>1 DEF Reportings, StatsInv, StatsTyped
    <2>5. StatsTyped'
        BY <1>1, <1>2, <2>1, <2>2, <2>3 DEF StatsInv, StatsTyped
    <2>6. ASSUME NEW known, NEW in, NEW t \in Nat, t <= moment + TotalsWindow, Owed(known, t, in)
          PROVE  known \subseteq in /\ \A g \in counted' : countedAt'[g] + TotalsWindow < t => g \in in
        BY <2>1, <2>2, <2>6, StatsAssumption DEF Owed, StatsInv, StatsTyped
    <2>7. EntriesAreGood'
        <3>1. ASSUME NEW p \in Processes, NEW l \in Loads, entry[p].of = l PROVE EntryIsGood(p, l)'
            <4>1. EntryIsGood(p, l) /\ entry[p].until \in Nat
                BY <3>1 DEF StatsInv, EntriesAreGood, StatsTyped
            <4>2. load[l].pc \in {"read", "kept"} =>
                      /\ announced[p] \subseteq load[l].in
                      /\ \A g \in counted' : countedAt'[g] + TotalsWindow < entry[p].until => g \in load[l].in
                BY <2>6, <4>1 DEF EntryIsGood
            <4> QED BY <1>2, <4>1, <4>2 DEF EntryIsGood, Owed
        <3> QED BY <1>2, <3>1 DEF EntriesAreGood
    <2>8. \A q \in Readers : reader[q].pc # "idle" => reader[q] \in Readings
        BY DEF StatsInv, StatsTyped, Idle
    <2>9. \A t \in Nat : t <= moment => t <= moment + TotalsWindow
        BY StatsAssumption DEF StatsInv, StatsTyped
    <2>10. WaitersAreGood'
        <3>1. ASSUME NEW q \in Readers, reader[q].pc = "waiting" PROVE WaiterIsGood(q)'
            <4>1. WaiterIsGood(q) /\ reader[q].at \in Nat
                BY <2>8, <3>1 DEF StatsInv, WaitersAreGood, Readings
            <4>2. reader[q].at <= moment + TotalsWindow
                BY <2>9, <4>1 DEF WaiterIsGood
            <4>3. load[reader[q].of].pc = "read" =>
                      /\ reader[q].known \subseteq load[reader[q].of].in
                      /\ \A g \in counted' : countedAt'[g] + TotalsWindow < reader[q].at =>
                             g \in load[reader[q].of].in
                BY <2>6, <4>1, <4>2 DEF WaiterIsGood
            <4> QED BY <1>2, <2>1, <4>1, <4>3 DEF WaiterIsGood, Owed
        <3> QED BY <1>2, <3>1 DEF WaitersAreGood
    <2>11. DoneAreGood'
        <3>1. ASSUME NEW q \in Readers, reader[q].pc = "done"
              PROVE  (reader[q].at <= moment /\ Owed(reader[q].known, reader[q].at, reader[q].in))'
            <4>1. /\ reader[q].at <= moment /\ Owed(reader[q].known, reader[q].at, reader[q].in)
                  /\ reader[q].at \in Nat
                BY <2>8, <3>1 DEF StatsInv, DoneAreGood, Readings
            <4>2. reader[q].at <= moment + TotalsWindow
                BY <2>9, <4>1
            <4>3. /\ reader[q].known \subseteq reader[q].in
                  /\ \A g \in counted' : countedAt'[g] + TotalsWindow < reader[q].at => g \in reader[q].in
                BY <2>6, <4>1, <4>2
            <4> QED BY <1>2, <4>1, <4>3 DEF Owed
        <3> QED BY <1>2, <3>1 DEF DoneAreGood
    <2>12. AnnouncedAreCounted'
        BY <1>2, <2>1, <2>4 DEF StatsInv, AnnouncedAreCounted
    <2> QED BY <2>5, <2>7, <2>10, <2>11, <2>12 DEF StatsInv
<1> QED BY <1>3, <1>4

\* An instance that announces a close no longer has a read that may not hold it.
LEMMA AnnounceHolds ==
    ASSUME StatsInv, NEW r \in Reports, Announce(r) PROVE StatsInv'
<1> DEFINE q == report[r].p
<1>1. /\ report[r] \in Reportings /\ report[r].of \in counted
      /\ entry' = [entry EXCEPT ![q] = NoEntry]
      /\ announced' = [announced EXCEPT ![q] = @ \cup {report[r].of}]
      /\ report' = [report EXCEPT ![r] = Idle]
      /\ UNCHANGED <<moment, counted, total, load, reader, countedAt>>
    BY DEF Announce, Dropped, Idle, StatsInv, StatsTyped, AnnouncedAreCounted
<1>2. q \in Processes /\ report[r].of \in Closes
    BY <1>1 DEF Reportings
<1> HIDE DEF q
<1>3. /\ entry'[q] = NoEntry /\ \A p \in Processes : p # q => entry'[p] = entry[p]
      /\ entry' \in [Processes -> [of : Loads \cup {NoLoad}, until : Nat]]
    BY <1>1, <1>2 DEF NoEntry, StatsInv, StatsTyped
<1>4. /\ \A p \in Processes : p # q => announced'[p] = announced[p]
      /\ announced'[q] = announced[q] \cup {report[r].of}
      /\ announced' \in [Processes -> SUBSET Closes]
    BY <1>1, <1>2 DEF StatsInv, StatsTyped
<1>5. StatsTyped'
    BY <1>1, <1>3, <1>4 DEF StatsInv, StatsTyped
<1>6. EntriesAreGood'
    <2>1. ASSUME NEW p \in Processes, NEW l \in Loads, entry'[p].of = l PROVE EntryIsGood(p, l)'
        <3>1. p # q
            BY <1>3, <2>1, StatsAssumption DEF NoEntry
        <3>2. EntryIsGood(p, l)
            BY <1>3, <2>1, <3>1 DEF StatsInv, EntriesAreGood
        <3> QED BY <1>1, <1>3, <1>4, <3>1, <3>2 DEF EntryIsGood, Owed
    <2> QED BY <2>1 DEF EntriesAreGood
<1>7. WaitersAreGood' /\ DoneAreGood'
    BY <1>1 DEF StatsInv, WaitersAreGood, WaiterIsGood, DoneAreGood, Owed
<1>8. AnnouncedAreCounted'
    <2>1. \A s \in Reports : report'[s].pc = "counted" => report'[s] = report[s]
        BY <1>1 DEF Idle, StatsInv, StatsTyped
    <2> QED BY <1>1, <1>4, <2>1 DEF StatsInv, AnnouncedAreCounted
<1> QED BY <1>5, <1>6, <1>7, <1>8 DEF StatsInv

\* A report on its way to the store.
LEMMA ReportHolds ==
    ASSUME StatsInv, NEW r \in Reports, NEW new \in {Idle} \cup Reportings, new.pc # "counted",
           report' = [report EXCEPT ![r] = new],
           UNCHANGED <<moment, counted, total, entry, load, reader, countedAt, announced>>
    PROVE  StatsInv'
<1>1. StatsTyped'
    BY DEF StatsInv, StatsTyped
<1>2. AnnouncedAreCounted'
    BY DEF StatsInv, AnnouncedAreCounted, StatsTyped
<1> QED
    BY <1>1, <1>2
    DEF StatsInv, EntriesAreGood, EntryIsGood, WaitersAreGood, WaiterIsGood, DoneAreGood, Owed

LEMMA StillLater ==
    ASSUME NEW a \in Nat, NEW b \in Nat, a <= b, NEW n \in Nat, NEW w \in Nat
    PROVE  (n <= a => n <= b) /\ (n <= a + w => n <= b + w)
OBVIOUS

LEMMA StatsInvHolds ==
    ASSUME StatsInv, [StatsNext]_statsVars PROVE StatsInv'
<1>1. ASSUME NEW r \in Readers, NEW p \in Processes, AskTotals(r, p) PROVE StatsInv'
    <2>1. reader[r].pc # "waiting"
        BY <1>1 DEF AskTotals
    <2> QED BY <1>1, <2>1, AskHit, AskMiss
<1>2. ASSUME NEW l \in Loads, StoreReads(l) \/ Keep(l) \/ Break(l) PROVE StatsInv'
    BY <1>2, ReadIsAnswered, KeepHolds, BreakHolds
<1>3. ASSUME NEW r \in Reports, NEW p \in Processes, NEW h \in Closes, Verify(r, p, h) PROVE StatsInv'
    <2>1. /\ [pc |-> "verified", p |-> p, of |-> h] \in Reportings
          /\ [pc |-> "verified", p |-> p, of |-> h].pc # "counted"
        BY DEF Reportings
    <2> QED BY <1>3, <2>1, ReportHolds DEF Verify
<1>4. ASSUME NEW r \in Reports, AskBuilt(r) PROVE StatsInv'
    <2>1. report[r] \in Reportings
        BY <1>4 DEF AskBuilt, Idle, StatsInv, StatsTyped
    <2>2. /\ [report[r] EXCEPT !.pc = "built"] \in Reportings
          /\ [report[r] EXCEPT !.pc = "built"].pc # "counted"
          /\ Idle.pc # "counted"
        BY <2>1 DEF Reportings, Idle
    <2>3. CASE report[r].of \in BuiltHere
        BY <1>4, <2>2, <2>3, ReportHolds DEF AskBuilt
    <2>4. CASE report[r].of \notin BuiltHere
        BY <1>4, <2>2, <2>4, ReportHolds DEF AskBuilt
    <2> QED BY <2>3, <2>4
<1>5. ASSUME NEW r \in Reports, Commit(r) \/ Announce(r) PROVE StatsInv'
    BY <1>5, CommitHolds, AnnounceHolds
<1>6. ASSUME NEW r \in Reports, ReportFails(r) PROVE StatsInv'
    <2>1. Idle.pc # "counted"
        BY DEF Idle
    <2> QED BY <1>6, <2>1, ReportHolds DEF ReportFails
<1>7. ASSUME moment' \in Nat, moment <= moment',
             UNCHANGED <<counted, total, entry, load, reader, report, countedAt, announced>>
      PROVE  StatsInv'
    <2>0. moment \in Nat /\ TotalsWindow \in Nat
        BY StatsAssumption DEF StatsInv, StatsTyped
    <2>1. /\ \A n \in Nat : n <= moment => n <= moment'
          /\ \A n \in Nat : n <= moment + TotalsWindow => n <= moment' + TotalsWindow
        BY <1>7, <2>0, StillLater
    <2>2. StatsTyped' /\ AnnouncedAreCounted'
        BY <1>7 DEF StatsInv, StatsTyped, AnnouncedAreCounted
    <2>3. EntriesAreGood'
        BY <1>7, <2>1 DEF StatsInv, EntriesAreGood, EntryIsGood, Owed, StatsTyped
    <2>4. \A r \in Readers : reader[r].pc # "idle" => reader[r].at \in Nat
        BY DEF StatsInv, StatsTyped, Idle, Readings
    <2>5. WaitersAreGood' /\ DoneAreGood'
        BY <1>7, <2>1, <2>4 DEF StatsInv, WaitersAreGood, WaiterIsGood, DoneAreGood, Owed
    <2> QED BY <2>2, <2>3, <2>5 DEF StatsInv
<1>8. CASE UNCHANGED statsVars
    BY <1>7, <1>8 DEF statsVars, StatsInv, StatsTyped
<1>9. CASE StatsTick
    BY <1>7, <1>9 DEF StatsTick, StatsInv, StatsTyped
<1> QED BY <1>1, <1>2, <1>3, <1>4, <1>5, <1>6, <1>8, <1>9 DEF StatsNext

\* Whoever asks is owed what its instance has announced, and what was counted a window
\* before; and gets it, whatever reads fail, overlap or come late.
THEOREM ClosesSeen == StatsSpec => []ClosesAreSeen
<1>1. StatsInit => StatsInv
    BY StatsStarts
<1>2. StatsInv /\ [StatsNext]_statsVars => StatsInv'
    BY StatsInvHolds
<1>3. StatsInv => ClosesAreSeen
    BY DEF StatsInv, DoneAreGood, ClosesAreSeen, Owed
<1> QED BY <1>1, <1>2, <1>3, PTL DEF StatsSpec

\* No reader is answered by a read that had failed when it asked.
THEOREM OutageIsNotCached == StatsSpec => OutageNotCached
<1>1. StatsInit => StatsInv
    BY StatsStarts
<1>2. StatsInv /\ [StatsNext]_statsVars => StatsInv'
    BY StatsInvHolds
<1>3. StatsInv /\ [StatsNext]_statsVars =>
          [\A r \in Readers : reader[r].pc # "waiting" => reader'[r].pc # "failed" \/ UNCHANGED reader[r]]_statsVars
    <2> SUFFICES ASSUME StatsInv, StatsNext, NEW r \in Readers, reader[r].pc # "waiting"
                 PROVE  reader'[r].pc # "failed" \/ reader'[r] = reader[r]
        OBVIOUS
    <2>1. ASSUME NEW q \in Readers, NEW p \in Processes, AskTotals(q, p)
          PROVE  reader'[r].pc # "failed" \/ reader'[r] = reader[r]
        <3>1. reader[q].pc # "waiting"
            BY <2>1 DEF AskTotals
        <3>2. reader'[q].pc # "failed"
            BY <2>1, <3>1, AskHit, AskMiss
        <3>3. q # r => reader'[r] = reader[r]
            BY <2>1 DEF AskTotals, Joins, StatsInv, StatsTyped
        <3> QED BY <3>2, <3>3
    <2>2. ASSUME NEW l \in Loads, Keep(l) \/ Break(l) PROVE reader'[r] = reader[r]
        BY <2>2 DEF Keep, Break, WaitersGet
    <2>3. CASE UNCHANGED reader
        BY <2>3
    <2> QED
        BY <2>1, <2>2, <2>3
        DEF StatsNext, StoreReads, Verify, AskBuilt, Commit, Announce, ReportFails, StatsTick
<1> QED BY <1>1, <1>2, <1>3, PTL DEF StatsSpec, OutageNotCached

-----------------------------------------------------------------------------
(* The fee sponsor's budget. *)

Requests == [pc : {"reading"}, inner : Inners, key : Integrators, day : 0 .. LastDay]

BudgetTyped ==
    /\ today \in shown /\ shown \subseteq 0 .. LastDay
    /\ budgetDay \in Int
    /\ spent \in [Scopes -> Nat] /\ granted \in [Scopes -> Nat]
    /\ asking \in [Sponsorings -> {NotAsking} \cup Requests]
    /\ sequence \in [Sources -> Nat]
    /\ charged \subseteq envelopes /\ envelopes \subseteq Inners /\ IsFiniteSet(envelopes)
    /\ paid \in Nat
    /\ daysShown \in Nat /\ Cardinality(shown) <= daysShown

\* A request has seen its day on the clock since the last restart, and so has the budget.
DaysWereShown ==
    /\ \A r \in Sponsorings : asking[r].pc = "reading" => asking[r].day \in shown
    /\ budgetDay \in shown \/ (budgetDay = -1 /\ spent = NothingSpent)

\* The budgets that are used up: those of earlier processes, and of this one's earlier days.
Earlier == {d \in shown : d < budgetDay}
DaysGone == daysShown - Cardinality(shown) + Cardinality(Earlier)

GrantedByDay ==
    \A s \in Scopes : /\ spent[s] <= LimitOfScope(s)
                      /\ granted[s] <= LimitOfScope(s) * DaysGone + spent[s]

\* The envelopes that can still land, with all their fees, are paid for.
CanLand == {i \in envelopes : sequence[InnerSource[i]] < InnerSequence[i]}
PaidFromGranted == paid + SumFunctionOnSet(InnerFee, CanLand) <= granted["day"]

BudgetInv == BudgetTyped /\ DaysWereShown /\ GrantedByDay /\ PaidFromGranted

LEMMA LimitsAreNat ==
    /\ \A s \in Scopes : LimitOfScope(s) \in Nat
    /\ "day" \in Scopes
BY BudgetAssumption DEF LimitOfScope, Scopes

LEMMA MoreDays ==
    ASSUME NEW limit \in Nat, NEW k \in Nat, NEW n \in Nat
    PROVE  /\ k <= n => limit * k <= limit * n
           /\ limit * (k + 1) = limit * k + limit
           /\ limit * k \in Nat
           /\ k + 1 <= n => limit * k + limit <= limit * n
<1>1. limit * (k + 1) = limit * k + limit
    OBVIOUS
<1>2. \A m \in Nat : k <= m => limit * k <= limit * m
    OBVIOUS
<1>3. \A m \in Nat : k + 1 <= m => limit * (k + 1) <= limit * m
    OBVIOUS
<1>4. limit * k \in Nat
    OBVIOUS
<1> QED BY <1>1, <1>2, <1>3, <1>4

LEMMA ShownAreNat == BudgetTyped => \A d \in shown : d \in Nat
BY BudgetAssumption DEF BudgetTyped

LEMMA DaysCount ==
    ASSUME BudgetTyped
    PROVE  /\ IsFiniteSet(shown) /\ IsFiniteSet(Earlier)
           /\ Cardinality(shown) \in Nat /\ Cardinality(Earlier) \in Nat
           /\ Cardinality(Earlier) <= Cardinality(shown)
           /\ DaysGone \in Nat /\ DaysGone <= daysShown
           /\ budgetDay \in shown => DaysGone + 1 <= daysShown
<1>1. IsFiniteSet(0 .. LastDay)
    BY BudgetAssumption, FS_Interval
<1>2. IsFiniteSet(shown)
    BY <1>1, FS_Subset DEF BudgetTyped
<1>3. Earlier \in SUBSET shown
    BY DEF Earlier
<1>4. IsFiniteSet(Earlier) /\ Cardinality(Earlier) <= Cardinality(shown)
    BY <1>2, <1>3, FS_Subset
<1>5. Cardinality(shown) \in Nat /\ Cardinality(Earlier) \in Nat
    BY <1>2, <1>4, FS_CardinalityType
<1>6. budgetDay \in shown => Cardinality(Earlier) + 1 <= Cardinality(shown)
    <2> SUFFICES ASSUME budgetDay \in shown PROVE Cardinality(Earlier) + 1 <= Cardinality(shown)
        OBVIOUS
    <2>1. Earlier \in SUBSET (shown \ {budgetDay})
        BY DEF Earlier, BudgetTyped
    <2>2. IsFiniteSet(shown \ {budgetDay}) /\ Cardinality(shown \ {budgetDay}) = Cardinality(shown) - 1
        BY <1>2, FS_RemoveElement
    <2>3. Cardinality(Earlier) <= Cardinality(shown \ {budgetDay})
        BY <2>1, <2>2, FS_Subset
    <2> QED BY <1>5, <2>2, <2>3
<1> QED BY <1>2, <1>4, <1>5, <1>6 DEF DaysGone, BudgetTyped

LEMMA CanLandSum ==
    ASSUME BudgetTyped
    PROVE  /\ IsFiniteSet(CanLand) /\ CanLand \subseteq Inners
           /\ SumFunctionOnSet(InnerFee, CanLand) \in Nat
           /\ \A S \in SUBSET Inners : Counts(InnerFee, S)
<1>1. IsFiniteSet(CanLand) /\ CanLand \subseteq Inners
    BY FS_Subset DEF CanLand, BudgetTyped
<1>2. \A S \in SUBSET Inners : Counts(InnerFee, S)
    BY BudgetAssumption DEF Counts
<1> QED BY <1>1, <1>2, SumIsNat

LEMMA BudgetStarts == BudgetInit => BudgetInv
<1> USE BudgetAssumption
<1> SUFFICES ASSUME BudgetInit PROVE BudgetInv
    OBVIOUS
<1>1. IsFiniteSet({}) /\ IsFiniteSet(shown) /\ Cardinality(shown) = 1
    BY FS_EmptySet, FS_Singleton DEF BudgetInit
<1>2. NothingSpent \in [Scopes -> Nat]
    BY DEF NothingSpent
<1>3. BudgetTyped
    BY <1>1, <1>2 DEF BudgetInit, BudgetTyped
<1>4. DaysWereShown
    BY DEF BudgetInit, DaysWereShown, NotAsking
<1>5. CanLand = {}
    BY DEF CanLand, BudgetInit
<1>6. PaidFromGranted
    BY <1>5, SumOfNone, LimitsAreNat DEF PaidFromGranted, BudgetInit, NothingSpent
<1>7. GrantedByDay
    BY <1>3, DaysCount, LimitsAreNat, MoreDays DEF GrantedByDay, BudgetInit, NothingSpent
<1> QED BY <1>3, <1>4, <1>6, <1>7 DEF BudgetInv

\* What was granted fits the budgets of the days shown.
LEMMA GrantedFits ==
    ASSUME BudgetInv PROVE \A s \in Scopes : granted[s] <= LimitOfScope(s) * daysShown
<1> SUFFICES ASSUME NEW s \in Scopes PROVE granted[s] <= LimitOfScope(s) * daysShown
    OBVIOUS
<1>1. /\ spent[s] <= LimitOfScope(s) /\ granted[s] <= LimitOfScope(s) * DaysGone + spent[s]
      /\ spent[s] \in Nat /\ granted[s] \in Nat /\ LimitOfScope(s) \in Nat
      /\ daysShown \in Nat /\ DaysGone \in Nat
    BY LimitsAreNat, DaysCount DEF BudgetInv, GrantedByDay, BudgetTyped
<1>2. LimitOfScope(s) * DaysGone \in Nat /\ LimitOfScope(s) * daysShown \in Nat
    BY <1>1, MoreDays
<1>3. CASE budgetDay \in shown
    <2>1. LimitOfScope(s) * DaysGone + LimitOfScope(s) <= LimitOfScope(s) * daysShown
        BY <1>1, <1>3, DaysCount, MoreDays DEF BudgetInv
    <2> QED BY <1>1, <1>2, <2>1
<1>4. CASE budgetDay \notin shown
    <2>1. spent[s] = 0
        BY <1>4 DEF BudgetInv, DaysWereShown, NothingSpent
    <2>2. LimitOfScope(s) * DaysGone <= LimitOfScope(s) * daysShown
        BY <1>1, DaysCount, MoreDays DEF BudgetInv
    <2> QED BY <1>1, <1>2, <2>1, <2>2
<1> QED BY <1>3, <1>4

\* The steps that charge nothing and leave the days alone.
LEMMA NothingCharged ==
    ASSUME BudgetInv,
           UNCHANGED <<today, budgetDay, spent, charged, sequence, envelopes, granted, paid, shown, daysShown>>,
           asking' \in [Sponsorings -> {NotAsking} \cup Requests],
           \A r \in Sponsorings : asking'[r].pc = "reading" => asking'[r].day \in shown
    PROVE  BudgetInv'
<1>1. BudgetTyped' /\ DaysWereShown'
    BY DEF BudgetInv, BudgetTyped, DaysWereShown
<1>2. Earlier' = Earlier /\ CanLand' = CanLand
    BY DEF Earlier, CanLand
<1>3. GrantedByDay' /\ PaidFromGranted'
    BY <1>2 DEF BudgetInv, GrantedByDay, PaidFromGranted, DaysGone
<1> QED BY <1>1, <1>3 DEF BudgetInv

LEMMA AskHolds ==
    ASSUME BudgetInv, NEW r \in Sponsorings, AskSponsor(r) \/ RefuseSponsoring(r) PROVE BudgetInv'
<1>1. CASE RefuseSponsoring(r)
    <2>1. /\ asking' \in [Sponsorings -> {NotAsking} \cup Requests]
          /\ \A q \in Sponsorings : asking'[q].pc = "reading" => asking'[q] = asking[q]
        BY <1>1 DEF RefuseSponsoring, BudgetInv, BudgetTyped, NotAsking
    <2>2. \A q \in Sponsorings : asking'[q].pc = "reading" => asking'[q].day \in shown
        BY <2>1 DEF BudgetInv, DaysWereShown
    <2> QED BY <1>1, <2>1, <2>2, NothingCharged DEF RefuseSponsoring, Observed
<1>2. CASE AskSponsor(r)
    <2>1. PICK i \in Inners, k \in Integrators :
              asking' = [asking EXCEPT ![r] = [pc |-> "reading", inner |-> i, key |-> k, day |-> today]]
        BY <1>2 DEF AskSponsor
    <2>2. [pc |-> "reading", inner |-> i, key |-> k, day |-> today] \in Requests /\ today \in shown
        BY DEF Requests, BudgetInv, BudgetTyped
    <2>3. /\ asking' \in [Sponsorings -> {NotAsking} \cup Requests]
          /\ asking'[r].day = today
          /\ \A q \in Sponsorings : q # r => asking'[q] = asking[q]
        BY <2>1, <2>2 DEF BudgetInv, BudgetTyped
    <2>4. \A q \in Sponsorings : asking'[q].pc = "reading" => asking'[q].day \in shown
        BY <2>2, <2>3 DEF BudgetInv, DaysWereShown
    <2> QED BY <1>2, <2>3, <2>4, NothingCharged DEF AskSponsor, Observed
<1> QED BY <1>1, <1>2

\* An envelope that lands is paid for, and it and its rivals cannot land again.
LEMMA LandHolds ==
    ASSUME BudgetInv, LandSponsored PROVE BudgetInv'
<1> USE BudgetAssumption
<1>1. PICK i \in envelopes :
          /\ IsNext(i)
          /\ sequence' = [sequence EXCEPT ![InnerSource[i]] = InnerSequence[i]]
          /\ paid' = paid + InnerFee[i]
    BY DEF LandSponsored
<1>2. UNCHANGED <<today, budgetDay, spent, charged, asking, envelopes, granted, shown, daysShown>>
    BY DEF LandSponsored, Observed
<1>3. i \in Inners /\ InnerSource[i] \in Sources /\ InnerSequence[i] \in Nat /\ InnerFee[i] \in Nat
    BY DEF BudgetInv, BudgetTyped
<1>4. /\ sequence' \in [Sources -> Nat]
      /\ sequence'[InnerSource[i]] = InnerSequence[i]
      /\ \A a \in Sources : sequence[a] <= sequence'[a]
    <2>1. sequence[InnerSource[i]] <= InnerSequence[i]
        BY <1>1, <1>3 DEF IsNext, BudgetInv, BudgetTyped
    <2> QED BY <1>1, <1>3, <2>1 DEF BudgetInv, BudgetTyped
<1>5. BudgetTyped' /\ DaysWereShown'
    BY <1>1, <1>2, <1>3, <1>4 DEF BudgetInv, BudgetTyped, DaysWereShown
<1>6. GrantedByDay'
    BY <1>2 DEF BudgetInv, GrantedByDay, DaysGone, Earlier
<1>7. i \in CanLand
    BY <1>1, <1>3 DEF CanLand, IsNext, BudgetInv, BudgetTyped
<1>8. CanLand' \subseteq CanLand \ {i}
    <2> SUFFICES ASSUME NEW j \in CanLand' PROVE j \in CanLand /\ j # i
        OBVIOUS
    <2>1. j \in Inners /\ j \in envelopes /\ sequence'[InnerSource[j]] < InnerSequence[j]
        BY <1>2, <1>5 DEF CanLand, BudgetInv, BudgetTyped
    <2>2. InnerSource[j] \in Sources /\ InnerSequence[j] \in Nat
        BY <2>1
    <2>3. j # i
        BY <1>3, <1>4, <2>1
    <2>4. sequence[InnerSource[j]] < InnerSequence[j]
        BY <1>4, <2>1, <2>2 DEF BudgetInv, BudgetTyped
    <2> QED BY <2>1, <2>3, <2>4 DEF CanLand
<1>9. IsFiniteSet(CanLand) /\ Counts(InnerFee, CanLand) /\ Counts(InnerFee, CanLand \ {i})
    BY CanLandSum DEF BudgetInv
<1>10. IsFiniteSet(CanLand \ {i}) /\ Counts(InnerFee, CanLand')
    BY <1>8, <1>9, FS_RemoveElement DEF Counts
<1>11. SumFunctionOnSet(InnerFee, CanLand) = InnerFee[i] + SumFunctionOnSet(InnerFee, CanLand \ {i})
    BY <1>7, <1>9, SumTakesOut
<1>12. SumFunctionOnSet(InnerFee, CanLand') <= SumFunctionOnSet(InnerFee, CanLand \ {i})
    <2> DEFINE after == CanLand'
    <2>1. after \subseteq CanLand \ {i} /\ Counts(InnerFee, after) /\ \A x \in after : InnerFee[x] <= InnerFee[x]
        BY <1>8, <1>10 DEF Counts
    <2> HIDE DEF after
    <2>2. SumFunctionOnSet(InnerFee, after) <= SumFunctionOnSet(InnerFee, CanLand \ {i})
        BY <1>9, <1>10, <2>1, SumGrows
    <2> QED BY <2>2 DEF after
<1>13. /\ SumFunctionOnSet(InnerFee, CanLand \ {i}) \in Nat
       /\ SumFunctionOnSet(InnerFee, CanLand') \in Nat
    <2>1. BudgetTyped' => IsFiniteSet(CanLand')
        BY <1>8, <1>10, FS_Subset
    <2> QED BY <1>5, <1>9, <1>10, <2>1, SumIsNat
<1>14. PaidFromGranted'
    BY <1>1, <1>2, <1>3, <1>11, <1>12, <1>13, LimitsAreNat DEF BudgetInv, PaidFromGranted, BudgetTyped
<1> QED BY <1>5, <1>6, <1>14 DEF BudgetInv

\* The clock shows another day: one more budget, and no more of them used up.
LEMMA ClockHolds ==
    ASSUME BudgetInv, ClockMoves PROVE BudgetInv'
<1>1. PICK d \in 0 .. LastDay :
          /\ today' = d /\ shown' = shown \cup {d}
          /\ daysShown' = IF d \in shown THEN daysShown ELSE daysShown + 1
    BY DEF ClockMoves
<1>2. UNCHANGED <<budgetDay, spent, charged, asking, sequence, envelopes, granted, paid>>
    BY DEF ClockMoves
<1>3. IsFiniteSet(shown) /\ Cardinality(shown) \in Nat /\ DaysGone \in Nat
    BY DaysCount DEF BudgetInv
<1>4. Cardinality(shown') = IF d \in shown THEN Cardinality(shown) ELSE Cardinality(shown) + 1
    BY <1>1, <1>3, FS_AddElement
<1>5. BudgetTyped'
    BY <1>1, <1>2, <1>3, <1>4 DEF BudgetInv, BudgetTyped
<1>6. DaysWereShown'
    BY <1>1, <1>2 DEF BudgetInv, DaysWereShown
<1>7. DaysGone <= DaysGone' /\ DaysGone' \in Nat
    <2>1. IsFiniteSet(Earlier') /\ Cardinality(Earlier') \in Nat /\ DaysGone' \in Nat
        <3>1. BudgetTyped' => IsFiniteSet(shown')
            BY <1>1, <1>3, FS_AddElement
        <3>2. Earlier' \in SUBSET shown'
            BY DEF Earlier
        <3>3. IsFiniteSet(Earlier')
            BY <1>5, <3>1, <3>2, FS_Subset
        <3>4. Cardinality(Earlier') \in Nat
            BY <3>3, FS_CardinalityType
        <3> QED BY <1>3, <1>4, <1>5, <3>3, <3>4 DEF DaysGone, BudgetTyped
    <2>2. Earlier \in SUBSET Earlier'
        BY <1>1, <1>2 DEF Earlier
    <2>3. Cardinality(Earlier) <= Cardinality(Earlier') /\ Cardinality(Earlier) \in Nat
        BY <2>1, <2>2, FS_Subset, FS_CardinalityType
    <2> QED BY <1>1, <1>3, <1>4, <2>1, <2>3 DEF DaysGone, BudgetInv, BudgetTyped
<1>8. GrantedByDay'
    <2> SUFFICES ASSUME NEW s \in Scopes
                 PROVE  spent[s] <= LimitOfScope(s) /\ granted[s] <= LimitOfScope(s) * DaysGone' + spent[s]
        BY <1>2 DEF GrantedByDay
    <2>1. /\ LimitOfScope(s) \in Nat /\ spent[s] \in Nat /\ granted[s] \in Nat
          /\ spent[s] <= LimitOfScope(s) /\ granted[s] <= LimitOfScope(s) * DaysGone + spent[s]
        BY LimitsAreNat DEF BudgetInv, BudgetTyped, GrantedByDay
    <2>2. /\ LimitOfScope(s) * DaysGone <= LimitOfScope(s) * DaysGone'
          /\ LimitOfScope(s) * DaysGone \in Nat /\ LimitOfScope(s) * DaysGone' \in Nat
        BY <1>3, <1>7, <2>1, MoreDays
    <2> QED BY <2>1, <2>2
<1>9. CanLand' = CanLand
    BY <1>2 DEF CanLand
<1>10. PaidFromGranted'
    BY <1>2, <1>9 DEF BudgetInv, PaidFromGranted
<1> QED BY <1>5, <1>6, <1>8, <1>10 DEF BudgetInv

\* A restart grants the budget of the day once more.
LEMMA RestartHolds ==
    ASSUME BudgetInv, RestartSponsor PROVE BudgetInv'
<1>1. /\ budgetDay' = -1 /\ spent' = NothingSpent /\ charged' = {}
      /\ asking' = [r \in Sponsorings |-> NotAsking]
      /\ shown' = {today} /\ daysShown' = daysShown + 1
      /\ UNCHANGED <<today, sequence, envelopes, granted, paid>>
    BY DEF RestartSponsor
<1>2. IsFiniteSet(shown') /\ Cardinality(shown') = 1
    BY <1>1, FS_Singleton
<1>3. NothingSpent \in [Scopes -> Nat]
    BY DEF NothingSpent
<1>4. today \in 0 .. LastDay
    BY DEF BudgetInv, BudgetTyped
<1>5. BudgetTyped'
    BY <1>1, <1>2, <1>3, <1>4 DEF BudgetInv, BudgetTyped
<1>6. DaysWereShown'
    BY <1>1 DEF DaysWereShown, NotAsking
<1>7. Earlier' = {}
    BY <1>1, <1>4, BudgetAssumption DEF Earlier
<1>8. DaysGone' = daysShown
    BY <1>1, <1>2, <1>7, FS_EmptySet DEF DaysGone, BudgetInv, BudgetTyped
<1>9. GrantedByDay'
    <2>1. \A s \in Scopes : spent'[s] = 0 /\ LimitOfScope(s) \in Nat /\ granted[s] \in Nat
        BY <1>1, LimitsAreNat DEF NothingSpent, BudgetInv, BudgetTyped
    <2>2. \A s \in Scopes : LimitOfScope(s) * daysShown \in Nat
        BY <2>1, MoreDays DEF BudgetInv, BudgetTyped
    <2> QED BY <1>1, <1>8, <2>1, <2>2, GrantedFits DEF GrantedByDay
<1>10. CanLand' = CanLand
    BY <1>1 DEF CanLand
<1>11. PaidFromGranted'
    BY <1>1, <1>10 DEF BudgetInv, PaidFromGranted
<1> QED BY <1>5, <1>6, <1>9, <1>11 DEF BudgetInv

\* The day the budget is in, and what is spent of it, once a request has its turn.
TurnDay(r) == IF NewDay(asking[r].day) THEN asking[r].day ELSE budgetDay
TurnSpent(r) == IF NewDay(asking[r].day) THEN NothingSpent ELSE spent
EarlierThan(t) == {d \in shown : d < t}
GoneAt(t) == daysShown - Cardinality(shown) + Cardinality(EarlierThan(t))

\* A new day leaves the day before behind, whatever was left of its budget.
LEMMA TurnOfDay ==
    ASSUME BudgetInv, NEW r \in Sponsorings, asking[r].pc = "reading"
    PROVE  /\ TurnDay(r) \in Int
           /\ TurnDay(r) \in shown \/ (TurnDay(r) = -1 /\ TurnSpent(r) = NothingSpent)
           /\ TurnSpent(r) \in [Scopes -> Nat]
           /\ GoneAt(TurnDay(r)) \in Nat
           /\ \A s \in Scopes : /\ TurnSpent(r)[s] <= LimitOfScope(s)
                                /\ granted[s] <= LimitOfScope(s) * GoneAt(TurnDay(r)) + TurnSpent(r)[s]
<1>1. CASE ~NewDay(asking[r].day)
    BY <1>1, DaysCount
    DEF TurnDay, TurnSpent, GoneAt, EarlierThan, DaysGone, Earlier, BudgetInv, BudgetTyped,
        DaysWereShown, GrantedByDay
<1>2. CASE NewDay(asking[r].day)
    <2> DEFINE t == asking[r].day
    <2>0. budgetDay \in Int /\ \A d \in shown : d \in Int
        BY ShownAreNat DEF BudgetInv, BudgetTyped
    <2>1. t \in shown /\ t \in Int /\ budgetDay < t
        BY <1>2, <2>0 DEF NewDay, BudgetInv, DaysWereShown
    <2>2. TurnDay(r) = t /\ TurnSpent(r) = NothingSpent
        BY <1>2 DEF TurnDay, TurnSpent
    <2> HIDE DEF t
    <2>3. /\ IsFiniteSet(shown) /\ IsFiniteSet(Earlier) /\ DaysGone \in Nat
          /\ Cardinality(shown) \in Nat /\ Cardinality(Earlier) \in Nat
        BY DaysCount DEF BudgetInv
    <2>4. EarlierThan(t) \in SUBSET shown /\ Earlier \in SUBSET EarlierThan(t)
        <3>1. ASSUME NEW d \in shown, d < budgetDay PROVE d < t
            BY <2>0, <2>1, <3>1
        <3> QED BY <3>1 DEF EarlierThan, Earlier
    <2>5. IsFiniteSet(EarlierThan(t)) /\ Cardinality(EarlierThan(t)) \in Nat
          /\ Cardinality(Earlier) <= Cardinality(EarlierThan(t))
        BY <2>3, <2>4, FS_Subset, FS_CardinalityType
    <2>6. GoneAt(t) \in Nat /\ DaysGone <= GoneAt(t)
        BY <2>3, <2>5 DEF GoneAt, DaysGone, BudgetInv, BudgetTyped
    <2>7. budgetDay \in shown => DaysGone + 1 <= GoneAt(t)
        <3> SUFFICES ASSUME budgetDay \in shown PROVE DaysGone + 1 <= GoneAt(t)
            OBVIOUS
        <3>1. Earlier \cup {budgetDay} \in SUBSET EarlierThan(t) /\ budgetDay \notin Earlier
            BY <2>1, <2>4 DEF EarlierThan, Earlier, BudgetInv, BudgetTyped
        <3>2. Cardinality(Earlier \cup {budgetDay}) = Cardinality(Earlier) + 1
            BY <2>3, <3>1, FS_AddElement
        <3>3. Cardinality(Earlier) + 1 <= Cardinality(EarlierThan(t))
            BY <2>5, <3>1, <3>2, FS_Subset
        <3> QED BY <2>3, <2>5, <3>3 DEF GoneAt, DaysGone, BudgetInv, BudgetTyped
    <2>8. ASSUME NEW s \in Scopes
          PROVE  NothingSpent[s] = 0 /\ 0 <= LimitOfScope(s) /\ granted[s] <= LimitOfScope(s) * GoneAt(t) + 0
        <3>1. /\ LimitOfScope(s) \in Nat /\ spent[s] \in Nat /\ granted[s] \in Nat
              /\ spent[s] <= LimitOfScope(s) /\ granted[s] <= LimitOfScope(s) * DaysGone + spent[s]
            BY LimitsAreNat DEF BudgetInv, BudgetTyped, GrantedByDay
        <3>2. LimitOfScope(s) * DaysGone \in Nat /\ LimitOfScope(s) * GoneAt(t) \in Nat
            BY <2>3, <2>6, <3>1, MoreDays
        <3>3. CASE budgetDay \in shown
            <4>1. LimitOfScope(s) * DaysGone + LimitOfScope(s) <= LimitOfScope(s) * GoneAt(t)
                BY <2>3, <2>6, <2>7, <3>1, <3>3, MoreDays
            <4> QED BY <3>1, <3>2, <4>1 DEF NothingSpent
        <3>4. CASE budgetDay \notin shown
            <4>1. spent[s] = 0
                BY <3>4 DEF BudgetInv, DaysWereShown, NothingSpent
            <4>2. LimitOfScope(s) * DaysGone <= LimitOfScope(s) * GoneAt(t)
                BY <2>3, <2>6, <3>1, MoreDays
            <4> QED BY <3>1, <3>2, <4>1, <4>2 DEF NothingSpent
        <3> QED BY <3>3, <3>4
    <2>9. NothingSpent \in [Scopes -> Nat]
        BY DEF NothingSpent
    <2> QED BY <2>1, <2>2, <2>6, <2>8, <2>9
<1> QED BY <1>1, <1>2

\* A request that has its turn charges its fee to what is left of the day, or nothing.
LEMMA SponsorHolds ==
    ASSUME BudgetInv, NEW r \in Sponsorings, Sponsor(r) PROVE BudgetInv'
<1> USE BudgetAssumption
<1> DEFINE i == asking[r].inner
           fee == InnerFee[asking[r].inner]
           hashes == IF NewDay(asking[r].day) THEN {} ELSE charged
           again == AlreadyCharged(hashes, i)
           after == Plus(TurnSpent(r), r)
           signs == again \/ Fits(after)
<1>1. /\ asking[r].pc = "reading" /\ IsNext(i)
      /\ budgetDay' = TurnDay(r)
      /\ spent' = IF signs /\ ~again THEN after ELSE TurnSpent(r)
      /\ charged' = IF signs THEN hashes \cup {i} ELSE hashes
      /\ granted' = IF signs /\ ~again THEN Plus(granted, r) ELSE granted
      /\ envelopes' = IF signs THEN envelopes \cup {i} ELSE envelopes
      /\ asking' = [asking EXCEPT ![r] = NotAsking]
    BY DEF Sponsor, TurnDay, TurnSpent
<1>2. UNCHANGED <<today, sequence, paid, shown, daysShown>>
    BY DEF Sponsor, Observed
<1>3. asking[r] \in Requests /\ i \in Inners /\ fee \in Nat
    BY <1>1 DEF BudgetInv, BudgetTyped, NotAsking, Requests
<1>4. /\ TurnDay(r) \in Int
      /\ TurnDay(r) \in shown \/ (TurnDay(r) = -1 /\ TurnSpent(r) = NothingSpent)
      /\ TurnSpent(r) \in [Scopes -> Nat] /\ GoneAt(TurnDay(r)) \in Nat
      /\ \A s \in Scopes : /\ TurnSpent(r)[s] <= LimitOfScope(s)
                           /\ granted[s] <= LimitOfScope(s) * GoneAt(TurnDay(r)) + TurnSpent(r)[s]
    BY <1>1, TurnOfDay
<1>5. ASSUME NEW f \in [Scopes -> Nat]
      PROVE  /\ Plus(f, r) \in [Scopes -> Nat]
             /\ \A s \in Scopes : Plus(f, r)[s] = f[s] + IF s \in ScopesOf(r) THEN fee ELSE 0
             /\ Plus(f, r)["day"] = f["day"] + fee
    BY <1>3, LimitsAreNat DEF Plus, ScopesOf
<1>6. /\ asking' \in [Sponsorings -> {NotAsking} \cup Requests]
      /\ \A q \in Sponsorings : asking'[q].pc = "reading" => asking'[q] = asking[q]
    BY <1>1 DEF BudgetInv, BudgetTyped, NotAsking
<1>7. Earlier' = EarlierThan(TurnDay(r)) /\ DaysGone' = GoneAt(TurnDay(r))
    BY <1>1, <1>2 DEF Earlier, EarlierThan, DaysGone, GoneAt
<1>8. hashes \subseteq envelopes /\ envelopes \subseteq Inners /\ IsFiniteSet(envelopes)
      /\ IsFiniteSet(envelopes \cup {i}) /\ granted \in [Scopes -> Nat] /\ paid \in Nat
      /\ sequence \in [Sources -> Nat]
    BY FS_AddElement DEF BudgetInv, BudgetTyped
<1>9. again => i \in envelopes
    BY <1>8 DEF AlreadyCharged
<1>10. TurnSpent(r) = NothingSpent => TurnSpent(r)["day"] = 0
    BY LimitsAreNat DEF NothingSpent
<1>11. i \in CanLand'  <=> i \in envelopes'
    BY <1>1, <1>2, <1>3, <1>8 DEF IsNext, CanLand
<1>12. CASE signs /\ ~again
    <2>1. /\ spent' = after /\ granted' = Plus(granted, r) /\ envelopes' = envelopes \cup {i}
          /\ charged' = hashes \cup {i} /\ Fits(after)
        BY <1>1, <1>12
    <2>2. after \in [Scopes -> Nat] /\ granted' \in [Scopes -> Nat]
        BY <1>4, <1>5, <1>8, <2>1
    <2>3. BudgetTyped'
        BY <1>1, <1>2, <1>3, <1>4, <1>6, <1>8, <2>1, <2>2 DEF BudgetInv, BudgetTyped
    <2>4. GrantedByDay'
        <3> SUFFICES ASSUME NEW s \in Scopes
                     PROVE  /\ after[s] <= LimitOfScope(s)
                            /\ granted'[s] <= LimitOfScope(s) * DaysGone' + after[s]
            BY <2>1 DEF GrantedByDay
        <3>1. PICK n \in Nat : n = IF s \in ScopesOf(r) THEN fee ELSE 0
            BY <1>3
        <3>2. after[s] = TurnSpent(r)[s] + n /\ granted'[s] = granted[s] + n
            BY <1>4, <1>5, <1>8, <2>1, <3>1
        <3>3. /\ LimitOfScope(s) * GoneAt(TurnDay(r)) \in Nat
              /\ TurnSpent(r)[s] \in Nat /\ granted[s] \in Nat
              /\ granted[s] <= LimitOfScope(s) * GoneAt(TurnDay(r)) + TurnSpent(r)[s]
            BY <1>4, <1>8, LimitsAreNat, MoreDays
        <3> QED BY <1>7, <2>1, <3>2, <3>3 DEF Fits
    <2>5. DaysWereShown'
        <3>1. TurnDay(r) \in shown
            <4> SUFFICES ASSUME TurnDay(r) \notin shown PROVE FALSE
                OBVIOUS
            <4>1. TurnDay(r) = -1 /\ asking[r].day \in shown /\ asking[r].day \in Nat
                BY <1>1, <1>4, ShownAreNat DEF BudgetInv, DaysWereShown
            <4> QED BY <4>1 DEF TurnDay, NewDay
        <3> QED BY <1>1, <1>2, <1>6, <3>1 DEF DaysWereShown, BudgetInv
    <2>6. PaidFromGranted'
        <3> DEFINE new == CanLand'
        <3>1. new \subseteq CanLand \cup {i} /\ i \in new /\ new \ {i} \subseteq CanLand
            BY <1>2, <1>11, <2>1 DEF CanLand
        <3>2. BudgetTyped
            BY DEF BudgetInv
        <3>3. IsFiniteSet(CanLand) /\ CanLand \subseteq Inners /\ SumFunctionOnSet(InnerFee, CanLand) \in Nat
            BY <3>2, CanLandSum
        <3> HIDE DEF new
        <3>4. IsFiniteSet(new) /\ Counts(InnerFee, new) /\ Counts(InnerFee, CanLand)
              /\ Counts(InnerFee, new \ {i}) /\ IsFiniteSet(new \ {i})
            <4>1. IsFiniteSet(CanLand \cup {i})
                BY <3>3, FS_AddElement
            <4>2. IsFiniteSet(new) /\ IsFiniteSet(new \ {i})
                BY <3>1, <4>1, FS_Subset
            <4> QED BY <1>3, <3>1, <3>3, <4>2 DEF Counts
        <3>5. SumFunctionOnSet(InnerFee, new) = fee + SumFunctionOnSet(InnerFee, new \ {i})
            BY <3>1, <3>4, SumTakesOut
        <3>6. \A x \in new \ {i} : InnerFee[x] <= InnerFee[x]
            BY <3>4 DEF Counts
        <3>7. SumFunctionOnSet(InnerFee, new \ {i}) <= SumFunctionOnSet(InnerFee, CanLand)
            BY <3>1, <3>3, <3>4, <3>6, SumGrows
        <3>8. SumFunctionOnSet(InnerFee, new \ {i}) \in Nat
            BY <3>4, SumIsNat
        <3>9. granted'["day"] = granted["day"] + fee /\ granted["day"] \in Nat
            BY <1>5, <1>8, <2>1, LimitsAreNat
        <3>10. paid + SumFunctionOnSet(InnerFee, new) <= granted'["day"]
            BY <1>3, <1>8, <3>3, <3>5, <3>7, <3>8, <3>9 DEF BudgetInv, PaidFromGranted
        <3> QED BY <1>2, <3>10 DEF PaidFromGranted, new
    <2> QED BY <2>3, <2>4, <2>5, <2>6 DEF BudgetInv
<1>13. CASE ~(signs /\ ~again)
    <2>1. spent' = TurnSpent(r) /\ granted' = granted /\ envelopes' = envelopes /\ charged' \subseteq envelopes
        BY <1>1, <1>8, <1>9, <1>13
    <2>2. BudgetTyped'
        BY <1>1, <1>2, <1>4, <1>6, <1>8, <2>1 DEF BudgetInv, BudgetTyped
    <2>3. GrantedByDay'
        BY <1>4, <1>7, <2>1 DEF GrantedByDay
    <2>4. DaysWereShown'
        BY <1>1, <1>2, <1>4, <1>6, <2>1 DEF DaysWereShown, BudgetInv
    <2>5. CanLand' = CanLand
        BY <1>2, <2>1 DEF CanLand
    <2>6. PaidFromGranted'
        BY <1>2, <2>1, <2>5 DEF BudgetInv, PaidFromGranted
    <2> QED BY <2>2, <2>3, <2>4, <2>6 DEF BudgetInv
<1> QED BY <1>12, <1>13

LEMMA BudgetInvHolds ==
    ASSUME BudgetInv, [BudgetNext]_budgetVars PROVE BudgetInv'
<1>1. CASE UNCHANGED budgetVars
    <2>1. UNCHANGED <<today, budgetDay, spent, charged, sequence, envelopes, granted, paid, shown, daysShown, asking>>
        BY <1>1 DEF budgetVars
    <2> QED BY <2>1, NothingCharged DEF BudgetInv, BudgetTyped, DaysWereShown
<1> QED
    BY <1>1, AskHolds, SponsorHolds, LandHolds, ClockHolds, RestartHolds DEF BudgetNext

\* In every scope the sponsor grants at most one budget per day its clock has shown since
\* a restart, and no fee its account pays was not granted: whatever requests overtake
\* each other, wherever the clock steps, and however often a transaction is asked for.
THEOREM SponsorKeepsItsBudget == BudgetSpec => []SponsorPaysItsBudget
<1>1. BudgetInit => BudgetInv
    BY BudgetStarts
<1>2. BudgetInv /\ [BudgetNext]_budgetVars => BudgetInv'
    BY BudgetInvHolds
<1>3. BudgetInv => SponsorPaysItsBudget
    <2> SUFFICES ASSUME BudgetInv PROVE paid <= granted["day"]
        BY GrantedFits DEF SponsorPaysItsBudget
    <2>1. SumFunctionOnSet(InnerFee, CanLand) \in Nat
        BY CanLandSum DEF BudgetInv
    <2> QED BY <2>1, LimitsAreNat DEF BudgetInv, PaidFromGranted, BudgetTyped
<1> QED BY <1>1, <1>2, <1>3, PTL DEF BudgetSpec

-----------------------------------------------------------------------------
(* The request budgets. *)

CallRecords ==
    [pc : {"idle", "throttled", "lookup", "guard", "reading"}, bearer : Bearers \cup {Malformed},
     by : Trackers, at : Instants, lost : BOOLEAN]

LimiterTyped ==
    /\ instant \in Instants
    /\ hits \in [Trackers -> [Instants -> Nat]]
    /\ blocked \in [Trackers -> Nat]
    /\ call \in [Callers -> CallRecords]
    /\ asked \in [Instants -> Nat]
    /\ passed \in [Trackers -> [Instants -> Nat]]

\* The windows in which b keeps its limit: no longer than a block lasts.
Span(b) == Smaller(WindowOf(b), DefaultWindow)

\* While b is not blocked the storage remembers, of the window that ends now, all that
\* was let through; while it is, nothing was let through since the block began.
BudgetOf(b) ==
    /\ \A s \in Instants : s > instant => passed[b][s] = 0
    /\ blocked[b] = 0 =>
          \A s \in Instants : instant - Span(b) < s /\ s <= instant => passed[b][s] <= hits[b][s]
    /\ blocked[b] # 0 => \A s \in Instants : blocked[b] - DefaultWindow < s => passed[b][s] = 0
    /\ \A t \in Instants : WindowEnding(passed[b], t, Span(b)) <= LimitOf(b)

\* The requests that the client's budget let through at s and that the guard has yet to see.
Pending(s) == {c \in Callers : call[c].pc = "guard" /\ call[c].by = OfClient /\ call[c].at = s}

\* Every store read was a look-up that was let through, or is the guard's for a request
\* that was: each request reads once.
ReadsArePaid ==
    \A s \in Instants :
        /\ IsFiniteSet(Pending(s))
        /\ asked[s] + Cardinality(Pending(s)) <= passed[OfLookups][s] + passed[OfClient][s]

KeysAreSpared ==
    \A c \in Callers :
        call[c].pc = "throttled" /\ call[c].bearer \in LimitedKeys /\ call[c].by = OfClient => call[c].lost

LimiterInv ==
    /\ LimiterTyped
    /\ \A b \in Trackers : BudgetOf(b)
    /\ ReadsArePaid
    /\ KeysAreSpared

LEMMA SpanIsNat ==
    ASSUME NEW b \in Trackers
    PROVE  /\ Span(b) \in Nat \ {0} /\ Span(b) <= WindowOf(b) /\ Span(b) <= DefaultWindow
           /\ WindowOf(b) \in Nat \ {0} /\ LimitOf(b) \in Nat \ {0} /\ DefaultWindow \in Nat \ {0}
BY LimiterAssumption DEF Span, Smaller, WindowOf, LimitOf

LEMMA InstantsAreNat == Instants \subseteq Nat /\ IsFiniteSet(Instants)
BY LimiterAssumption, FS_Interval DEF Instants

LEMMA FinitelyMany ==
    ASSUME NEW f \in [Instants -> Nat], NEW S \in SUBSET Instants
    PROVE  IsFiniteSet(S) /\ Counts(f, S) /\ SumFunctionOnSet(f, S) \in Nat
<1>1. IsFiniteSet(S) /\ Counts(f, S)
    BY InstantsAreNat, FS_Subset DEF Counts
<1> QED BY <1>1, SumIsNat

\* A budget that does not refuse has room in every window that the present belongs to.
LEMMA HasRoom ==
    ASSUME LimiterTyped, NEW b \in Trackers, BudgetOf(b), ~Refuses(b), NEW t \in Instants, instant <= t
    PROVE  WindowEnding(passed[b], t, Span(b)) < LimitOf(b)
<1> DEFINE f == passed[b]
           S == {s \in Instants : t - Span(b) < s /\ s <= t}
           S0 == {s \in Instants : t - Span(b) < s /\ s <= instant}
           T == {s \in Instants : s > instant - WindowOf(b) /\ s <= instant}
<1>1. f \in [Instants -> Nat] /\ hits[b] \in [Instants -> Nat] /\ instant \in Nat /\ t \in Nat
    BY InstantsAreNat DEF LimiterTyped
<1>2. S \in SUBSET Instants /\ S0 \in SUBSET Instants /\ T \in SUBSET Instants
    OBVIOUS
<1>3. S0 \subseteq S /\ S0 \subseteq T
    <2>1. ASSUME NEW s \in Instants, t - Span(b) < s, s <= instant
          PROVE  s <= t /\ s > instant - WindowOf(b)
        BY <1>1, <2>1, SpanIsNat, InstantsAreNat
    <2> QED BY <2>1
<1>4. \A s \in S \ S0 : f[s] = 0
    BY InstantsAreNat, <1>1 DEF BudgetOf
<1>5. SumFunctionOnSet(f, S) = SumFunctionOnSet(f, S0)
    <2>1. IsFiniteSet(S) /\ Counts(f, S)
        BY <1>1, <1>2, FinitelyMany
    <2> HIDE DEF S, S0, f
    <2> QED BY <1>3, <1>4, <2>1, SumSkipsZeros
<1>6. CASE blocked[b] = 0
    <2>1. SumFunctionOnSet(hits[b], T) < LimitOf(b)
        <3>1. SumFunctionOnSet(hits[b], T) \in Nat
            BY <1>1, <1>2, FinitelyMany
        <3> QED BY <1>6, <3>1, SpanIsNat DEF Refuses, TotalHits, Within
    <2>2. \A s \in S0 : f[s] <= hits[b][s]
        <3>1. ASSUME NEW s \in Instants, t - Span(b) < s PROVE instant - Span(b) < s
            <4>1. Span(b) \in Nat /\ s \in Nat
                BY SpanIsNat, InstantsAreNat
            <4> QED BY <1>1, <3>1, <4>1
        <3> QED BY <1>6, <3>1 DEF BudgetOf
    <2>3. SumFunctionOnSet(f, S0) <= SumFunctionOnSet(hits[b], T)
        <3>1. IsFiniteSet(T) /\ Counts(f, S0) /\ Counts(hits[b], T)
            BY <1>1, <1>2, FinitelyMany
        <3> HIDE DEF S0, T, f
        <3> QED BY <1>3, <2>2, <3>1, SumGrows
    <2>4. SumFunctionOnSet(f, S0) \in Nat /\ SumFunctionOnSet(hits[b], T) \in Nat
        BY <1>1, <1>2, FinitelyMany
    <2> QED BY <1>5, <2>1, <2>3, <2>4, SpanIsNat DEF WindowEnding
<1>7. CASE blocked[b] # 0
    <2>1. blocked[b] <= instant /\ blocked[b] \in Nat
        BY <1>1, <1>7 DEF Refuses, LimiterTyped
    <2>2. \A s \in S0 : f[s] = 0
        <3>1. ASSUME NEW s \in Instants, t - Span(b) < s PROVE blocked[b] - DefaultWindow < s
            <4>1. s \in Int
                BY InstantsAreNat
            <4>2. t \in Int /\ instant \in Int /\ instant <= t
                BY <1>1
            <4>3. Span(b) \in Int /\ DefaultWindow \in Int /\ Span(b) <= DefaultWindow
                BY SpanIsNat
            <4> QED BY <2>1, <3>1, <4>1, <4>2, <4>3
        <3> QED BY <1>7, <3>1 DEF BudgetOf
    <2>3. IsFiniteSet(S0) /\ Counts(f, S0)
        BY <1>1, <1>2, FinitelyMany
    <2>4. SumFunctionOnSet(f, S0) = SumFunctionOnSet(f, {})
        <3>1. {} \subseteq S0 /\ \A s \in S0 \ {} : f[s] = 0
            BY <2>2
        <3> HIDE DEF S0, f
        <3> QED BY <2>3, <3>1, SumSkipsZeros
    <2> QED BY <1>5, <2>4, SumOfNone, SpanIsNat DEF WindowEnding
<1> QED BY <1>6, <1>7

\* A request is let through.
LEMMA CountPasses ==
    ASSUME LimiterTyped, NEW b \in Trackers, BudgetOf(b), ~Refuses(b), instant' = instant,
           hits'[b] = Incremented(b), blocked'[b] = BlockedAfter(b),
           passed'[b] = [passed[b] EXCEPT ![instant] = @ + 1]
    PROVE  BudgetOf(b)'
<1> DEFINE f == passed[b]
           g == passed'[b]
<1>1. /\ f \in [Instants -> Nat] /\ hits[b] \in [Instants -> Nat]
      /\ instant \in Instants /\ instant \in Nat
    BY InstantsAreNat DEF LimiterTyped
<1>2. /\ g \in [Instants -> Nat] /\ g[instant] = f[instant] + 1
      /\ \A s \in Instants : s # instant => g[s] = f[s]
    BY <1>1
<1>3. blocked'[b] = 0 /\ blocked[b] \in Nat
    BY <1>1 DEF BlockedAfter, Refuses, LimiterTyped
<1> HIDE DEF g
<1>4. \A s \in Instants : s > instant => g[s] = 0
    BY <1>1, <1>2 DEF BudgetOf
<1>5. ASSUME NEW s \in Instants, instant - Span(b) < s, s <= instant PROVE g[s] <= hits'[b][s]
    <2>1. CASE blocked[b] = 0
        <3>1. hits'[b] = [hits[b] EXCEPT ![instant] = @ + 1] /\ f[s] <= hits[b][s]
            BY <1>5, <2>1 DEF Incremented, BudgetOf
        <3> QED BY <1>1, <1>2, <3>1
    <2>2. CASE blocked[b] # 0
        <3>1. blocked[b] <= instant
            BY <1>1, <1>3, <2>2 DEF Refuses
        <3>2. hits'[b] = OneHit
            BY <1>1, <1>3, <2>2, <3>1 DEF Incremented
        <3>3. hits'[b][instant] = 1 /\ hits'[b][s] \in Nat
            BY <1>1, <3>2 DEF OneHit, NoHits
        <3>4. f[s] = 0 /\ f[instant] = 0
            <4>1. blocked[b] - DefaultWindow < s /\ blocked[b] - DefaultWindow < instant
                BY <1>1, <1>3, <1>5, <3>1, SpanIsNat, InstantsAreNat
            <4> QED BY <1>1, <2>2, <4>1 DEF BudgetOf
        <3> QED BY <1>1, <1>2, <3>3, <3>4
    <2> QED BY <2>1, <2>2
<1>6. ASSUME NEW t \in Instants PROVE WindowEnding(g, t, Span(b)) <= LimitOf(b)
    <2> DEFINE S == {s \in Instants : t - Span(b) < s /\ s <= t}
    <2>1. /\ IsFiniteSet(S) /\ Counts(f, S) /\ Counts(g, S)
          /\ SumFunctionOnSet(f, S) \in Nat /\ LimitOf(b) \in Nat
        BY <1>1, <1>2, FinitelyMany, SpanIsNat
    <2>2. /\ WindowEnding(f, t, Span(b)) = SumFunctionOnSet(f, S)
          /\ WindowEnding(g, t, Span(b)) = SumFunctionOnSet(g, S)
        BY DEF WindowEnding
    <2>3. CASE instant \in S
        <3>1. instant <= t
            BY <2>3
        <3>2. SumFunctionOnSet(f, S) < LimitOf(b)
            BY <2>2, <3>1, HasRoom
        <3>3. SumFunctionOnSet(g, S) = SumFunctionOnSet(f, S) - f[instant] + g[instant]
            <4>1. \A s \in S : s # instant => f[s] = g[s]
                BY <1>2
            <4> HIDE DEF S, f
            <4> QED BY <2>1, <2>3, <4>1, SumReplaces
        <3>4. f[instant] \in Nat /\ g[instant] = f[instant] + 1
            BY <1>1, <1>2
        <3> QED BY <2>1, <2>2, <3>2, <3>3, <3>4
    <2>4. CASE instant \notin S
        <3>1. SumFunctionOnSet(f, S) = SumFunctionOnSet(g, S)
            <4>1. \A s \in S : f[s] = g[s]
                BY <1>2, <2>4
            <4> HIDE DEF S, f
            <4> QED BY <2>1, <4>1, SumOfSame
        <3> QED BY <2>2, <3>1 DEF BudgetOf
    <2> QED BY <2>3, <2>4
<1>7. /\ \A s \in Instants : s > instant' => passed'[b][s] = 0
      /\ blocked'[b] = 0
      /\ \A s \in Instants : instant' - Span(b) < s /\ s <= instant' => passed'[b][s] <= hits'[b][s]
      /\ \A t \in Instants : WindowEnding(passed'[b], t, Span(b)) <= LimitOf(b)
    BY <1>3, <1>4, <1>5, <1>6 DEF g
<1> QED BY <1>7 DEF BudgetOf, WindowEnding

\* A request is refused: the budget is blocked, or was.
LEMMA CountRefuses ==
    ASSUME LimiterTyped, NEW b \in Trackers, BudgetOf(b), Refuses(b), instant' = instant,
           blocked'[b] = BlockedAfter(b), passed'[b] = passed[b]
    PROVE  BudgetOf(b)'
<1>1. instant \in Nat /\ DefaultWindow \in Nat \ {0} /\ blocked[b] \in Nat
    BY InstantsAreNat, LimiterAssumption DEF LimiterTyped
<1>2. CASE blocked[b] = 0
    <2>1. blocked'[b] = instant + DefaultWindow
        BY <1>2 DEF BlockedAfter
    <2>2. \A s \in Instants : blocked'[b] - DefaultWindow < s => passed[b][s] = 0
        BY <1>1, <2>1, InstantsAreNat DEF BudgetOf
    <2>3. blocked'[b] # 0
        BY <1>1, <2>1
    <2> QED BY <2>2, <2>3 DEF BudgetOf, WindowEnding
<1>3. CASE blocked[b] # 0
    <2>1. blocked'[b] = blocked[b]
        BY <1>1, <1>3 DEF BlockedAfter, Refuses
    <2> QED BY <1>3, <2>1 DEF BudgetOf, WindowEnding
<1> QED BY <1>2, <1>3

LEMMA CountTyped ==
    ASSUME LimiterTyped, NEW b \in Trackers
    PROVE  Incremented(b) \in [Instants -> Nat] /\ BlockedAfter(b) \in Nat
<1>1. /\ instant \in Nat /\ DefaultWindow \in Nat /\ instant \in Instants
      /\ hits[b] \in [Instants -> Nat] /\ blocked[b] \in Nat
    BY InstantsAreNat, LimiterAssumption DEF LimiterTyped
<1>2. OneHit \in [Instants -> Nat]
    BY <1>1 DEF OneHit, NoHits
<1> QED BY <1>1, <1>2 DEF Incremented, BlockedAfter

LEMMA Untouched ==
    ASSUME NEW b \in Trackers, BudgetOf(b), instant' = instant, hits'[b] = hits[b],
           blocked'[b] = blocked[b], passed'[b] = passed[b]
    PROVE  BudgetOf(b)'
BY DEF BudgetOf, WindowEnding

\* The middleware's answer, for whatever it counted besides.
LEMMA DecidedHolds ==
    ASSUME LimiterInv, NEW c \in Callers, call[c].pc # "guard",
           NEW v \in Bearers \cup {Malformed}, NEW b \in Trackers, b # OfLookups, NEW lost \in BOOLEAN,
           v \in LimitedKeys /\ b = OfClient => lost,
           Decided(c, v, b, lost), UNCHANGED <<instant, asked>>,
           hits' \in [Trackers -> [Instants -> Nat]], blocked' \in [Trackers -> Nat],
           hits'[b] = Incremented(b), blocked'[b] = BlockedAfter(b),
           NEW bs \in SUBSET (Trackers \ {b}),
           \A d \in Trackers \ (bs \cup {b}) : hits'[d] = hits[d] /\ blocked'[d] = blocked[d],
           \A d \in bs : Refuses(d) /\ blocked'[d] = BlockedAfter(d)
    PROVE  LimiterInv'
<1> DEFINE rec == [pc |-> IF Refuses(b) THEN "throttled" ELSE "guard", bearer |-> v, by |-> b,
                   at |-> IF Refuses(b) THEN 0 ELSE instant, lost |-> lost]
<1>1. /\ call' = [call EXCEPT ![c] = rec]
      /\ passed' = IF Refuses(b) THEN passed ELSE [passed EXCEPT ![b][instant] = @ + 1]
    BY DEF Decided
<1>2. instant \in Instants /\ 0 \in Instants /\ instant \in Nat
    BY LimiterAssumption DEF LimiterInv, LimiterTyped, Instants
<1>3. rec \in CallRecords
    BY <1>2 DEF CallRecords
<1>4. /\ rec.pc = IF Refuses(b) THEN "throttled" ELSE "guard"
      /\ rec.bearer = v /\ rec.by = b /\ rec.lost = lost /\ (~Refuses(b) => rec.at = instant)
    OBVIOUS
<1> HIDE DEF rec
<1>5. /\ call' \in [Callers -> CallRecords] /\ call'[c] = rec
      /\ \A d \in Callers : d # c => call'[d] = call[d]
    BY <1>1, <1>3 DEF LimiterInv, LimiterTyped
<1>6. /\ passed' \in [Trackers -> [Instants -> Nat]]
      /\ \A d \in Trackers : d # b => passed'[d] = passed[d]
      /\ Refuses(b) => passed'[b] = passed[b]
      /\ ~Refuses(b) => passed'[b] = [passed[b] EXCEPT ![instant] = @ + 1]
    <2>1. passed \in [Trackers -> [Instants -> Nat]]
        BY DEF LimiterInv, LimiterTyped
    <2>2. [passed[b] EXCEPT ![instant] = @ + 1] \in [Instants -> Nat]
        BY <1>2, <2>1
    <2> QED BY <1>1, <2>1, <2>2
<1>7. LimiterTyped'
    BY <1>5, <1>6 DEF LimiterInv, LimiterTyped
<1>8. \A d \in Trackers : BudgetOf(d)'
    <2> SUFFICES ASSUME NEW d \in Trackers PROVE BudgetOf(d)'
        OBVIOUS
    <2>1. LimiterTyped /\ BudgetOf(d) /\ instant' = instant
        BY DEF LimiterInv
    <2>2. CASE d = b /\ ~Refuses(b)
        BY <1>6, <2>1, <2>2, CountPasses
    <2>3. CASE d = b /\ Refuses(b)
        BY <1>6, <2>1, <2>3, CountRefuses
    <2>4. CASE d \in bs
        BY <1>6, <2>1, <2>4, CountRefuses
    <2>5. CASE d \notin bs \cup {b}
        BY <1>6, <2>1, <2>5, Untouched
    <2> QED BY <2>2, <2>3, <2>4, <2>5
<1>9. ReadsArePaid'
    <2> SUFFICES ASSUME NEW s \in Instants
                 PROVE  /\ IsFiniteSet(Pending(s)')
                        /\ asked[s] + Cardinality(Pending(s)') <= passed'[OfLookups][s] + passed'[OfClient][s]
        BY DEF ReadsArePaid
    <2>1. /\ IsFiniteSet(Pending(s))
          /\ asked[s] + Cardinality(Pending(s)) <= passed[OfLookups][s] + passed[OfClient][s]
          /\ asked[s] \in Nat /\ Cardinality(Pending(s)) \in Nat
          /\ passed[OfLookups] \in [Instants -> Nat] /\ passed[OfClient] \in [Instants -> Nat]
        BY FS_CardinalityType DEF LimiterInv, LimiterTyped, ReadsArePaid, Trackers
    <2>2. passed'[OfLookups] = passed[OfLookups] /\ OfClient \in Trackers
        BY <1>6 DEF Trackers
    <2>3. CASE b = OfClient /\ ~Refuses(b)
        <3>1. Pending(s)' = IF s = instant THEN Pending(s) \cup {c} ELSE Pending(s)
            BY <1>4, <1>5, <2>3 DEF Pending
        <3>2. c \notin Pending(s)
            BY DEF Pending
        <3>3. /\ IsFiniteSet(Pending(s)')
              /\ Cardinality(Pending(s)') = Cardinality(Pending(s)) + IF s = instant THEN 1 ELSE 0
            <4>1. IsFiniteSet(Pending(s) \cup {c}) /\ Cardinality(Pending(s) \cup {c}) = Cardinality(Pending(s)) + 1
                BY <2>1, <3>2, FS_AddElement
            <4>2. CASE s = instant
                BY <3>1, <4>1, <4>2
            <4>3. CASE s # instant
                BY <2>1, <3>1, <4>3
            <4> QED BY <4>2, <4>3
        <3>4. passed'[OfClient][s] = passed[OfClient][s] + IF s = instant THEN 1 ELSE 0
            BY <1>2, <1>6, <2>1, <2>3
        <3> QED BY <2>1, <2>2, <3>3, <3>4
    <2>4. CASE ~(b = OfClient /\ ~Refuses(b))
        <3>1. Pending(s)' = Pending(s)
            BY <1>4, <1>5, <2>4 DEF Pending
        <3>2. passed'[OfClient] = passed[OfClient]
            BY <1>6, <2>2, <2>4
        <3> QED BY <2>1, <2>2, <3>1, <3>2
    <2> QED BY <2>3, <2>4
<1>10. KeysAreSpared'
    BY <1>4, <1>5 DEF LimiterInv, KeysAreSpared
<1> QED BY <1>7, <1>8, <1>9, <1>10 DEF LimiterInv

LEMMA ArriveKnownHolds ==
    ASSUME LimiterInv, NEW c \in Callers, ArriveKnown(c) PROVE LimiterInv'
<1> USE LimiterAssumption
<1>1. PICK v \in Bearers \cup {Malformed} :
          Count({Payer(v, TRUE)}) /\ Decided(c, v, Payer(v, TRUE), FALSE)
    BY DEF ArriveKnown
<1> DEFINE b == Payer(v, TRUE)
<1>2. /\ b \in Trackers /\ b # OfLookups /\ ~(v \in LimitedKeys /\ b = OfClient)
      /\ call[c].pc # "guard" /\ UNCHANGED <<instant, asked>>
    BY DEF Payer, Trackers, ArriveKnown, OfClient, OfLookups
<1> HIDE DEF b
<1>3. /\ hits' = [d \in Trackers |-> IF d \in {b} THEN Incremented(d) ELSE hits[d]]
      /\ blocked' = [d \in Trackers |-> IF d \in {b} THEN BlockedAfter(d) ELSE blocked[d]]
    BY <1>1 DEF Count, b
<1>4. hits' \in [Trackers -> [Instants -> Nat]] /\ blocked' \in [Trackers -> Nat]
    BY <1>3, CountTyped DEF LimiterInv, LimiterTyped
<1>5. {} \in SUBSET (Trackers \ {b}) /\ Decided(c, v, b, FALSE)
    BY <1>1 DEF b
<1> QED BY <1>2, <1>3, <1>4, <1>5, DecidedHolds

LEMMA LookedUpHolds ==
    ASSUME LimiterInv, NEW c \in Callers, LookedUp(c) PROVE LimiterInv'
<1> USE LimiterAssumption
<1> DEFINE v == call[c].bearer
<1>1. PICK answered \in BOOLEAN :
          Count({Payer(v, answered)}) /\ Decided(c, v, Payer(v, answered), ~answered)
    BY DEF LookedUp
<1> DEFINE b == Payer(v, answered)
<1>2. /\ b \in Trackers /\ b # OfLookups /\ (v \in LimitedKeys /\ b = OfClient => ~answered)
      /\ call[c].pc # "guard" /\ UNCHANGED <<instant, asked>>
      /\ v \in Bearers \cup {Malformed} /\ (~answered) \in BOOLEAN
    BY DEF Payer, Trackers, LookedUp, OfClient, OfLookups, LimiterInv, LimiterTyped, CallRecords
<1> HIDE DEF b, v
<1>3. /\ hits' = [d \in Trackers |-> IF d \in {b} THEN Incremented(d) ELSE hits[d]]
      /\ blocked' = [d \in Trackers |-> IF d \in {b} THEN BlockedAfter(d) ELSE blocked[d]]
    BY <1>1 DEF Count, b
<1>4. hits' \in [Trackers -> [Instants -> Nat]] /\ blocked' \in [Trackers -> Nat]
    BY <1>3, CountTyped DEF LimiterInv, LimiterTyped
<1>5. {} \in SUBSET (Trackers \ {b}) /\ Decided(c, v, b, ~answered)
    BY <1>1 DEF b
<1> QED BY <1>2, <1>3, <1>4, <1>5, DecidedHolds

\* A request that is neither decided nor pending any more, and reads at most what it may.
LEMMA ReadsHold ==
    ASSUME LimiterInv, NEW c \in Callers, NEW rec \in CallRecords, rec.pc \notin {"guard", "throttled"},
           call' = [call EXCEPT ![c] = rec],
           UNCHANGED <<instant, hits, blocked, passed>>,
           \/ asked' = asked
           \/ /\ call[c].pc = "guard" /\ call[c].by = OfClient
              /\ asked' = [asked EXCEPT ![call[c].at] = @ + 1]
    PROVE  LimiterInv'
<1>1. /\ call' \in [Callers -> CallRecords] /\ call'[c] = rec
      /\ \A d \in Callers : d # c => call'[d] = call[d]
    BY DEF LimiterInv, LimiterTyped
<1>2. call[c].at \in Instants /\ asked \in [Instants -> Nat]
    BY DEF LimiterInv, LimiterTyped, CallRecords
<1>3. asked' \in [Instants -> Nat]
    BY <1>2
<1>4. LimiterTyped'
    BY <1>1, <1>3 DEF LimiterInv, LimiterTyped
<1>5. \A b \in Trackers : BudgetOf(b)'
    BY Untouched DEF LimiterInv
<1>6. KeysAreSpared'
    BY <1>1 DEF LimiterInv, KeysAreSpared
<1>7. ReadsArePaid'
    <2> SUFFICES ASSUME NEW s \in Instants
                 PROVE  /\ IsFiniteSet(Pending(s)')
                        /\ asked'[s] + Cardinality(Pending(s)') <= passed[OfLookups][s] + passed[OfClient][s]
        BY DEF ReadsArePaid
    <2>1. /\ IsFiniteSet(Pending(s))
          /\ asked[s] + Cardinality(Pending(s)) <= passed[OfLookups][s] + passed[OfClient][s]
          /\ asked[s] \in Nat /\ Cardinality(Pending(s)) \in Nat
          /\ passed[OfLookups][s] \in Nat /\ passed[OfClient][s] \in Nat
        BY FS_CardinalityType DEF LimiterInv, LimiterTyped, ReadsArePaid, Trackers
    <2>2. Pending(s)' = Pending(s) \ {c}
        BY <1>1 DEF Pending
    <2>3. /\ IsFiniteSet(Pending(s)')
          /\ Cardinality(Pending(s) \ {c}) =
                 IF c \in Pending(s) THEN Cardinality(Pending(s)) - 1 ELSE Cardinality(Pending(s))
        <3> DEFINE these == Pending(s)
        <3>1. IsFiniteSet(these)
            BY <2>1
        <3> HIDE DEF these
        <3>2. /\ IsFiniteSet(these \ {c})
              /\ Cardinality(these \ {c}) =
                     IF c \in these THEN Cardinality(these) - 1 ELSE Cardinality(these)
            BY <3>1, FS_RemoveElement
        <3> QED BY <2>2, <3>2 DEF these
    <2>4. CASE asked'[s] = asked[s]
        BY <2>1, <2>2, <2>3, <2>4
    <2>5. CASE asked'[s] # asked[s]
        <3>1. c \in Pending(s) /\ asked'[s] = asked[s] + 1
            BY <1>2, <2>5 DEF Pending
        <3> QED BY <2>1, <2>2, <2>3, <3>1
    <2> QED BY <2>4, <2>5
<1> QED BY <1>4, <1>5, <1>6, <1>7 DEF LimiterInv

LEMMA GuardHolds ==
    ASSUME LimiterInv, NEW c \in Callers, Guard(c) \/ GuardAnswered(c) PROVE LimiterInv'
<1>1. NoCall \in CallRecords /\ NoCall.pc \notin {"guard", "throttled"}
    BY LimiterAssumption DEF NoCall, CallRecords, Trackers, Instants
<1>2. CASE GuardAnswered(c)
    BY <1>1, <1>2, ReadsHold DEF GuardAnswered
<1>3. CASE Guard(c)
    <2>1. CASE Remembered(call[c].bearer)
        BY <1>1, <1>3, <2>1, ReadsHold DEF Guard
    <2>2. CASE ~Remembered(call[c].bearer)
        <3> DEFINE rec == [call[c] EXCEPT !.pc = "reading"]
        <3>1. rec \in CallRecords /\ rec.pc = "reading"
            BY DEF LimiterInv, LimiterTyped, CallRecords
        <3>2. /\ call' = [call EXCEPT ![c] = rec] /\ UNCHANGED <<instant, hits, blocked, passed>>
              /\ call[c].pc = "guard"
              /\ asked' = IF call[c].by = OfClient THEN [asked EXCEPT ![call[c].at] = @ + 1] ELSE asked
            BY <1>3, <2>2 DEF Guard
        <3> HIDE DEF rec
        <3> QED BY <3>1, <3>2, ReadsHold
    <2> QED BY <2>1, <2>2
<1> QED BY <1>2, <1>3

\* A look-up that has no room falls on the client; one that has is read.
LEMMA ArriveUnknownHolds ==
    ASSUME LimiterInv, NEW c \in Callers, ArriveUnknown(c) PROVE LimiterInv'
<1> USE LimiterAssumption
<1>1. /\ OfLookups \in Trackers /\ OfClient \in Trackers /\ OfLookups # OfClient
      /\ call[c].pc \in {"idle", "throttled"}
    BY DEF Trackers, OfLookups, OfClient, ArriveUnknown
<1>2. CASE Refuses(OfLookups)
    <2>1. PICK v \in Bearers : Count({OfLookups, OfClient}) /\ Decided(c, v, OfClient, TRUE)
        BY <1>2 DEF ArriveUnknown
    <2>2. UNCHANGED <<instant, asked>>
        BY <1>2 DEF ArriveUnknown
    <2>3. /\ hits' = [d \in Trackers |-> IF d \in {OfLookups, OfClient} THEN Incremented(d) ELSE hits[d]]
          /\ blocked' = [d \in Trackers |-> IF d \in {OfLookups, OfClient} THEN BlockedAfter(d) ELSE blocked[d]]
        BY <2>1 DEF Count
    <2>4. hits' \in [Trackers -> [Instants -> Nat]] /\ blocked' \in [Trackers -> Nat]
        BY <2>3, CountTyped DEF LimiterInv, LimiterTyped
    <2>5. /\ {OfLookups} \in SUBSET (Trackers \ {OfClient})
          /\ hits'[OfClient] = Incremented(OfClient) /\ blocked'[OfClient] = BlockedAfter(OfClient)
          /\ \A d \in Trackers \ ({OfLookups} \cup {OfClient}) : hits'[d] = hits[d] /\ blocked'[d] = blocked[d]
          /\ \A d \in {OfLookups} : Refuses(d) /\ blocked'[d] = BlockedAfter(d)
        BY <1>1, <1>2, <2>3
    <2>6. call[c].pc # "guard" /\ v \in Bearers \cup {Malformed} /\ TRUE \in BOOLEAN
        BY <1>1
    <2>7. PICK bs \in SUBSET (Trackers \ {OfClient}) :
              /\ \A d \in Trackers \ (bs \cup {OfClient}) : hits'[d] = hits[d] /\ blocked'[d] = blocked[d]
              /\ \A d \in bs : Refuses(d) /\ blocked'[d] = BlockedAfter(d)
        BY <2>5
    <2> QED BY <1>1, <2>1, <2>2, <2>4, <2>5, <2>6, <2>7, DecidedHolds
<1>3. CASE ~Refuses(OfLookups)
    <2>1. PICK v \in Bearers :
              /\ Count({OfLookups}) /\ ReadStarted
              /\ call' = [call EXCEPT ![c] = [pc |-> "lookup", bearer |-> v, by |-> OfLookups,
                                              at |-> instant, lost |-> FALSE]]
              /\ passed' = [passed EXCEPT ![OfLookups][instant] = @ + 1]
        BY <1>3 DEF ArriveUnknown
    <2> DEFINE rec == [pc |-> "lookup", bearer |-> v, by |-> OfLookups, at |-> instant, lost |-> FALSE]
    <2>2. /\ instant \in Instants /\ instant' = instant /\ asked \in [Instants -> Nat]
          /\ passed \in [Trackers -> [Instants -> Nat]]
        BY DEF ArriveUnknown, LimiterInv, LimiterTyped
    <2>3. rec \in CallRecords /\ rec.pc = "lookup"
        BY <1>1, <2>2 DEF CallRecords
    <2> HIDE DEF rec
    <2>4. /\ call' \in [Callers -> CallRecords] /\ call'[c] = rec
          /\ \A d \in Callers : d # c => call'[d] = call[d]
        BY <2>1, <2>3 DEF LimiterInv, LimiterTyped, rec
    <2>5. /\ hits' = [d \in Trackers |-> IF d \in {OfLookups} THEN Incremented(d) ELSE hits[d]]
          /\ blocked' = [d \in Trackers |-> IF d \in {OfLookups} THEN BlockedAfter(d) ELSE blocked[d]]
        BY <2>1 DEF Count
    <2>6. hits' \in [Trackers -> [Instants -> Nat]] /\ blocked' \in [Trackers -> Nat]
        BY <2>5, CountTyped DEF LimiterInv, LimiterTyped
    <2>7. /\ passed' \in [Trackers -> [Instants -> Nat]]
          /\ passed'[OfLookups] = [passed[OfLookups] EXCEPT ![instant] = @ + 1]
          /\ \A d \in Trackers : d # OfLookups => passed'[d] = passed[d]
        <3>1. [passed[OfLookups] EXCEPT ![instant] = @ + 1] \in [Instants -> Nat]
            BY <1>1, <2>2
        <3>2. passed' = [passed EXCEPT ![OfLookups] = [passed[OfLookups] EXCEPT ![instant] = @ + 1]]
            BY <2>1
        <3> QED BY <1>1, <2>2, <3>1, <3>2
    <2>8. asked' = [asked EXCEPT ![instant] = @ + 1] /\ asked' \in [Instants -> Nat]
        BY <2>1, <2>2 DEF ReadStarted
    <2>9. LimiterTyped'
        BY <2>2, <2>4, <2>6, <2>7, <2>8 DEF LimiterTyped
    <2>10. \A d \in Trackers : BudgetOf(d)'
        <3>1. BudgetOf(OfLookups)'
            BY <1>1, <1>3, <2>2, <2>5, <2>7, CountPasses DEF LimiterInv
        <3>2. ASSUME NEW d \in Trackers, d # OfLookups PROVE BudgetOf(d)'
            BY <2>2, <2>5, <2>7, <3>2, Untouched DEF LimiterInv
        <3> QED BY <3>1, <3>2
    <2>11. KeysAreSpared'
        BY <2>3, <2>4 DEF LimiterInv, KeysAreSpared
    <2>12. ReadsArePaid'
        <3> SUFFICES ASSUME NEW s \in Instants
                     PROVE  /\ IsFiniteSet(Pending(s)')
                            /\ asked'[s] + Cardinality(Pending(s)') <= passed'[OfLookups][s] + passed'[OfClient][s]
            BY DEF ReadsArePaid
        <3>1. /\ IsFiniteSet(Pending(s))
              /\ asked[s] + Cardinality(Pending(s)) <= passed[OfLookups][s] + passed[OfClient][s]
              /\ asked[s] \in Nat /\ Cardinality(Pending(s)) \in Nat
              /\ passed[OfLookups] \in [Instants -> Nat] /\ passed[OfClient][s] \in Nat
            BY <1>1, FS_CardinalityType DEF LimiterInv, LimiterTyped, ReadsArePaid
        <3>2. Pending(s)' = Pending(s)
            BY <1>1, <2>3, <2>4 DEF Pending
        <3>3. passed'[OfClient] = passed[OfClient]
            BY <1>1, <2>7
        <3>4. CASE s = instant
            BY <2>2, <2>7, <2>8, <3>1, <3>2, <3>3, <3>4
        <3>5. CASE s # instant
            BY <2>2, <2>7, <2>8, <3>1, <3>2, <3>3, <3>5
        <3> QED BY <3>4, <3>5
    <2> QED BY <2>9, <2>10, <2>11, <2>12 DEF LimiterInv
<1> QED BY <1>2, <1>3

LEMMA LimiterTickHolds ==
    ASSUME LimiterInv, LimiterTick PROVE LimiterInv'
<1>1. /\ instant < LastInstant /\ instant' = instant + 1
      /\ UNCHANGED <<hits, blocked, call, asked, passed>>
    BY DEF LimiterTick
<1>2. instant \in Nat
    BY InstantsAreNat DEF LimiterInv, LimiterTyped
<1>3. LimiterTyped'
    BY <1>1, <1>2, LimiterAssumption DEF LimiterInv, LimiterTyped, Instants
<1>4. ASSUME NEW b \in Trackers PROVE BudgetOf(b)'
    <2>1. /\ BudgetOf(b) /\ hits[b] \in [Instants -> Nat] /\ passed[b] \in [Instants -> Nat]
          /\ Span(b) \in Nat
        BY SpanIsNat DEF LimiterInv, LimiterTyped
    <2>2. \A s \in Instants : s > instant + 1 => passed[b][s] = 0
        <3>1. ASSUME NEW s \in Instants, s > instant + 1 PROVE s > instant
            BY <1>2, <3>1, InstantsAreNat
        <3> QED BY <2>1, <3>1 DEF BudgetOf
    <2>3. ASSUME blocked[b] = 0, NEW s \in Instants, instant + 1 - Span(b) < s, s <= instant + 1
          PROVE  passed[b][s] <= hits[b][s]
        <3>1. s \in Nat /\ hits[b][s] \in Nat
            BY <2>1, InstantsAreNat
        <3>2. CASE s <= instant
            <4>1. instant - Span(b) < s
                BY <1>2, <2>1, <2>3, <3>1
            <4> QED BY <2>1, <2>3, <3>2, <4>1 DEF BudgetOf
        <3>3. CASE s > instant
            <4>1. passed[b][s] = 0
                BY <2>1, <3>3 DEF BudgetOf
            <4> QED BY <3>1, <4>1
        <3> QED BY <1>2, <3>1, <3>2, <3>3
    <2>4. /\ \A s \in Instants : s > instant' => passed'[b][s] = 0
          /\ blocked'[b] = 0 =>
                \A s \in Instants : instant' - Span(b) < s /\ s <= instant' => passed'[b][s] <= hits'[b][s]
        <3>2. instant' = instant + 1 /\ passed' = passed /\ hits' = hits /\ blocked' = blocked
            BY <1>1
        <3>3. ASSUME NEW s \in Instants, s > instant' PROVE passed'[b][s] = 0
            BY <2>2, <3>2, <3>3
        <3>4. ASSUME blocked[b] = 0, NEW s \in Instants, instant' - Span(b) < s, s <= instant'
              PROVE  passed'[b][s] <= hits'[b][s]
            <4>1. s \in Nat /\ Span(b) \in Nat /\ instant \in Nat
                BY <1>2, <2>1, InstantsAreNat
            <4>2. instant + 1 - Span(b) < s /\ s <= instant + 1
                BY <3>2, <3>4, <4>1
            <4>3. passed[b][s] <= hits[b][s]
                BY <2>3, <3>2, <3>4, <4>2
            <4> QED BY <3>2, <4>3, Zenon
        <3> QED BY <3>2, <3>3, <3>4
    <2> QED BY <1>1, <2>1, <2>4 DEF BudgetOf, WindowEnding
<1>5. ReadsArePaid' /\ KeysAreSpared'
    BY <1>1 DEF LimiterInv, ReadsArePaid, Pending, KeysAreSpared
<1> QED BY <1>3, <1>4, <1>5 DEF LimiterInv

LEMMA LimiterInvHolds ==
    ASSUME LimiterInv, [LimiterNext]_limiterVars PROVE LimiterInv'
<1>1. CASE UNCHANGED limiterVars
    BY <1>1 DEF limiterVars, LimiterInv, LimiterTyped, BudgetOf, WindowEnding, ReadsArePaid, Pending,
        KeysAreSpared
<1> QED
    BY <1>1, ArriveKnownHolds, ArriveUnknownHolds, LookedUpHolds, GuardHolds, LimiterTickHolds
    DEF LimiterNext

LEMMA LimiterStarts == LimiterInit => LimiterInv
<1> SUFFICES ASSUME LimiterInit PROVE LimiterInv
    OBVIOUS
<1>1. NoHits \in [Instants -> Nat] /\ \A t \in Instants : NoHits[t] = 0
    BY DEF NoHits
<1>2. NoCall \in CallRecords /\ NoCall.pc = "idle"
    BY LimiterAssumption DEF NoCall, CallRecords, Trackers, Instants
<1>3. LimiterTyped
    BY <1>1, <1>2, LimiterAssumption DEF LimiterInit, LimiterTyped, Instants
<1>4. ASSUME NEW b \in Trackers PROVE BudgetOf(b)
    <2>1. /\ passed[b] = NoHits /\ hits[b] = NoHits /\ blocked[b] = 0
        BY DEF LimiterInit
    <2>2. ASSUME NEW t \in Instants PROVE WindowEnding(NoHits, t, Span(b)) <= LimitOf(b)
        <3> DEFINE S == {s \in Instants : t - Span(b) < s /\ s <= t}
        <3>1. IsFiniteSet(S) /\ Counts(NoHits, S) /\ {} \subseteq S /\ \A s \in S \ {} : NoHits[s] = 0
            BY <1>1, FinitelyMany, Zenon
        <3>2. WindowEnding(NoHits, t, Span(b)) = SumFunctionOnSet(NoHits, S)
            BY DEF WindowEnding
        <3> HIDE DEF S
        <3>3. SumFunctionOnSet(NoHits, S) = 0
            BY <3>1, SumSkipsZeros, SumOfNone
        <3> QED BY <3>2, <3>3, SpanIsNat
    <2> QED BY <1>1, <2>1, <2>2 DEF BudgetOf
<1>5. KeysAreSpared
    BY <1>2 DEF KeysAreSpared, LimiterInit
<1>6. ReadsArePaid
    <2>1. \A s \in Instants : Pending(s) = {}
        BY <1>2 DEF Pending, LimiterInit
    <2>2. IsFiniteSet({}) /\ Cardinality({}) = 0
        BY FS_EmptySet
    <2>3. \A s \in Instants : asked[s] = 0 /\ passed[OfLookups][s] = 0 /\ passed[OfClient][s] = 0
        BY <1>1 DEF LimiterInit, Trackers
    <2> QED BY <2>1, <2>2, <2>3 DEF ReadsArePaid
<1> QED BY <1>3, <1>4, <1>5, <1>6 DEF LimiterInv

\* No budget lets more than its limit through in a window, whatever is invented, forgotten,
\* blocked or looked up in between; and no stranger's requests cost a known key its answer.
THEOREM BudgetsAlwaysHold == LimiterSpec => []BudgetsHold
<1>1. LimiterInit => LimiterInv
    BY LimiterStarts
<1>2. LimiterInv /\ [LimiterNext]_limiterVars => LimiterInv'
    BY LimiterInvHolds
<1>3. LimiterInv => BudgetsHold
    BY DEF LimiterInv, BudgetOf, KeysAreSpared, BudgetsHold, Span
<1> QED BY <1>1, <1>2, <1>3, PTL DEF LimiterSpec

\* The store is read at most twice a limit in a window for what a client sends.
THEOREM StoreReadsAreBounded == LimiterSpec => []StoreReadsBounded
<1>1. LimiterInit => LimiterInv
    BY LimiterStarts
<1>2. LimiterInv /\ [LimiterNext]_limiterVars => LimiterInv'
    BY LimiterInvHolds
<1>3. LimiterInv => StoreReadsBounded
    <2> SUFFICES ASSUME LimiterInv, NEW t \in Instants
                 PROVE  WindowEnding(asked, t, DefaultWindow) <= 2 * DefaultLimit
        BY DEF StoreReadsBounded
    <2> DEFINE S == {s \in Instants : t - DefaultWindow < s /\ s <= t}
               looked == passed[OfLookups]
               served == passed[OfClient]
               both == [s \in Instants |-> looked[s] + served[s]]
    <2>1. /\ OfLookups \in Trackers /\ OfClient \in Trackers
          /\ OfLookups \notin LimitedKeys /\ OfClient \notin LimitedKeys
        BY LimiterAssumption DEF Trackers
    <2>2. asked \in [Instants -> Nat] /\ looked \in [Instants -> Nat] /\ served \in [Instants -> Nat]
        BY <2>1 DEF LimiterInv, LimiterTyped
    <2>3. both \in [Instants -> Nat] /\ \A s \in Instants : both[s] = looked[s] + served[s]
        BY <2>2
    <2>4. \A s \in Instants : asked[s] <= both[s]
        <3> SUFFICES ASSUME NEW s \in Instants PROVE asked[s] <= looked[s] + served[s]
            OBVIOUS
        <3>1. IsFiniteSet(Pending(s)) /\ asked[s] + Cardinality(Pending(s)) <= looked[s] + served[s]
            BY DEF LimiterInv, ReadsArePaid
        <3> QED BY <2>2, <3>1, FS_CardinalityType
    <2>5. /\ Span(OfLookups) = DefaultWindow /\ LimitOf(OfLookups) = DefaultLimit
          /\ Span(OfClient) = DefaultWindow /\ LimitOf(OfClient) = DefaultLimit
          /\ DefaultLimit \in Nat
        BY <2>1, LimiterAssumption DEF Span, Smaller, WindowOf, LimitOf
    <2>6. SumFunctionOnSet(looked, S) <= DefaultLimit /\ SumFunctionOnSet(served, S) <= DefaultLimit
        BY <2>1, <2>5 DEF LimiterInv, BudgetOf, WindowEnding
    <2> HIDE DEF looked, served, both
    <2>7. /\ IsFiniteSet(S) /\ Counts(asked, S) /\ Counts(looked, S) /\ Counts(served, S) /\ Counts(both, S)
          /\ SumFunctionOnSet(asked, S) \in Nat /\ SumFunctionOnSet(looked, S) \in Nat
          /\ SumFunctionOnSet(served, S) \in Nat
        BY <2>2, <2>3, FinitelyMany
    <2>8. (\A s \in S : asked[s] <= both[s]) /\ (\A s \in S : both[s] = looked[s] + served[s])
        BY <2>3, <2>4
    <2>9. WindowEnding(asked, t, DefaultWindow) = SumFunctionOnSet(asked, S)
        BY DEF WindowEnding
    <2> HIDE DEF S
    <2>10. SumFunctionOnSet(asked, S) <= SumFunctionOnSet(both, S)
        BY <2>7, <2>8, SumGrows
    <2>11. SumFunctionOnSet(both, S) = SumFunctionOnSet(looked, S) + SumFunctionOnSet(served, S)
        BY <2>7, <2>8, SumAdds
    <2> QED BY <2>5, <2>6, <2>7, <2>9, <2>10, <2>11
<1> QED BY <1>1, <1>2, <1>3, PTL DEF LimiterSpec

-----------------------------------------------------------------------------
(* What an account sponsors for others. *)

\* The count was taken of a set that covers what is sponsored since and what was listed.
CountCovers ==
    listing.pc = "parts" /\ ~listing.incomplete /\ joined = {} =>
        \E all \in SUBSET Entries :
            listing.counted = ReservesOf(all) /\ sponsored \subseteq all /\ listing.listed \subseteq all

ListingInv ==
    /\ sponsored \in SUBSET Entries
    /\ DOMAIN listing = DOMAIN NoListing
    /\ CountCovers
    /\ ListedCoversSponsored

\* Reserves are what they are of each entry: a part holds less than the whole.
LEMMA ReservesOfPart ==
    ASSUME IsFiniteSet(Entries), NEW all \in SUBSET Entries, NEW part \in SUBSET all
    PROVE  ReservesOf(part) \in Nat /\ (ReservesOf(part) >= ReservesOf(all) => part = all)
<1>1. /\ IsFiniteSet(all) /\ IsFiniteSet(part)
      /\ Counts(Reserve, all) /\ Counts(Reserve, part)
      /\ \A e \in all : Reserve[e] \in Nat /\ Reserve[e] > 0
    BY FS_Subset, SponsorshipAssumption DEF Counts
<1>2. ReservesOf(part) \in Nat /\ ReservesOf(all) \in Nat
    BY <1>1, SumIsNat, Zenon DEF ReservesOf
<1>3. ASSUME part # all PROVE ReservesOf(part) < ReservesOf(all)
    <2>1. PICK e \in all : e \notin part
        BY <1>3
    <2>2. IsFiniteSet(all \ {e}) /\ Counts(Reserve, all \ {e}) /\ part \subseteq all \ {e}
        <3>1. IsFiniteSet(all \ {e})
            BY <1>1, FS_Subset
        <3> QED BY <1>1, <2>1, <3>1 DEF Counts
    <2>3. ReservesOf(all) = Reserve[e] + SumFunctionOnSet(Reserve, all \ {e})
        <3>1. IsFiniteSet(all) /\ Counts(Reserve, all) /\ e \in all
            BY <1>1, <2>1
        <3>2. SumFunctionOnSet(Reserve, all) = Reserve[e] + SumFunctionOnSet(Reserve, all \ {e})
            BY <3>1, SumTakesOut
        <3> QED BY <3>2 DEF ReservesOf
    <2>4. ReservesOf(part) <= SumFunctionOnSet(Reserve, all \ {e})
        <3>1. \A x \in part : Reserve[x] <= Reserve[x]
            BY <1>1
        <3> QED BY <1>1, <2>2, <3>1, SumGrows, Zenon DEF ReservesOf
    <2>5. SumFunctionOnSet(Reserve, all \ {e}) \in Nat
        BY <2>2, SumIsNat, Zenon
    <2> QED BY <1>1, <1>2, <2>3, <2>4, <2>5
<1> QED BY <1>2, <1>3

LEMMA ListingKept ==
    ASSUME IsFiniteSet(Entries), ListingInv, [SponsorshipNext]_sponsorshipVars PROVE ListingInv'
<1> USE DEF ListingInv, CountCovers, ListedCoversSponsored, NoListing
<1>1. CASE Moves
    BY <1>1 DEF Moves
<1>2. ASSUME NEW known \in BOOLEAN, AskListing(known) PROVE ListingInv'
    <2>1. CASE listing' = [NoListing EXCEPT !.pc = "listed"] /\ sponsored = {}
        BY <1>2, <2>1 DEF AskListing
    <2>2. CASE listing' = [NoListing EXCEPT !.pc = "parts", !.parts = {"history", "balances"},
                             !.counted = IF known THEN ReservesOf(sponsored) ELSE 0, !.incomplete = ~known]
        <3>1. /\ listing'.pc = "parts" /\ listing'.incomplete = ~known /\ listing'.listed = {}
              /\ listing'.counted = IF known THEN ReservesOf(sponsored) ELSE 0
              /\ DOMAIN listing' = DOMAIN NoListing
            BY <2>2
        <3>2. sponsored' = sponsored
            BY <1>2 DEF AskListing
        <3> QED BY <3>1, <3>2
    <2> QED BY <1>2, <2>1, <2>2 DEF AskListing
<1>3. ASSUME NEW found, NEW ends \in BOOLEAN, ReadHistory(found, ends) PROVE ListingInv'
    <2> DEFINE left == {<<o, part>> : o \in found, part \in {"body", "paged"}}
    <2>1. /\ listing.pc = "parts" /\ UNCHANGED <<sponsored, joined>>
          /\ listing' = [listing EXCEPT !.parts = @ \ {"history"}, !.left = left, !.incomplete = @ \/ ends]
        BY <1>3 DEF ReadHistory
    <2> HIDE DEF left
    <2> QED BY <2>1
<1>4. ASSUME NEW fails \in BOOLEAN, ReadBalances(fails) PROVE ListingInv'
    <2>1. PICK some \in SUBSET sponsored :
            listing' = [listing EXCEPT !.parts = @ \ {"balances"}, !.listed = @ \cup some,
                           !.incomplete = @ \/ fails \/ Cardinality(some) = BalanceCeiling]
        BY <1>4 DEF ReadBalances
    <2>2. listing.pc = "parts" /\ UNCHANGED <<sponsored, joined>>
        BY <1>4 DEF ReadBalances
    <2>3. /\ listing'.pc = "parts" /\ listing'.listed = listing.listed \cup some
          /\ listing'.counted = listing.counted /\ DOMAIN listing' = DOMAIN listing
          /\ listing.incomplete => listing'.incomplete
        BY <2>1, <2>2
    <2> QED BY <2>2, <2>3
<1>5. ASSUME NEW o, NEW part, ReadOwner(o, part) PROVE ListingInv'
    BY <1>5 DEF ReadOwner, Shown
<1>6. ASSUME NEW o, OwnerFails(o) PROVE ListingInv'
    BY <1>6 DEF OwnerFails
<1>7. CASE Reconcile
    <2>1. /\ listing.pc = "parts" /\ UNCHANGED <<sponsored, joined>>
          /\ listing' = [listing EXCEPT !.pc = "listed", !.incomplete = @ \/ Undercount(listing)]
        BY <1>7 DEF Reconcile
    <2>2. ASSUME ~listing.incomplete, ~Undercount(listing), joined = {}
          PROVE  sponsored \subseteq listing.listed
        <3>1. PICK all \in SUBSET Entries :
                listing.counted = ReservesOf(all) /\ sponsored \subseteq all /\ listing.listed \subseteq all
            BY <2>1, <2>2
        <3>2. ReservesOf(listing.listed) \in Nat /\ ReservesOf(all) \in Nat
            BY <3>1, ReservesOfPart
        <3>3. ReservesOf(listing.listed) >= ReservesOf(all)
            BY <2>2, <3>1, <3>2 DEF Undercount
        <3> QED BY <3>1, <3>3, ReservesOfPart
    <2> QED BY <2>1, <2>2
<1>8. CASE UNCHANGED sponsorshipVars
    BY <1>8 DEF sponsorshipVars
<1> QED BY <1>1, <1>2, <1>3, <1>4, <1>5, <1>6, <1>7, <1>8 DEF SponsorshipNext

\* A listing that calls itself whole covers what the account sponsors (sponsored-entries.ts): what
\* it adds up to is compared with what the ledger counts.
THEOREM ListedIsCovered == IsFiniteSet(Entries) => (SponsorshipSpec => []ListedCoversSponsored)
<1> SUFFICES ASSUME IsFiniteSet(Entries) PROVE SponsorshipSpec => []ListedCoversSponsored
    OBVIOUS
<1>1. SponsorshipInit => ListingInv
    BY DEF SponsorshipInit, ListingInv, CountCovers, ListedCoversSponsored, NoListing
<1>2. ListingInv /\ [SponsorshipNext]_sponsorshipVars => ListingInv'
    BY ListingKept
<1>3. ListingInv => ListedCoversSponsored
    BY DEF ListingInv
<1> QED BY <1>1, <1>2, <1>3, PTL DEF SponsorshipSpec

-----------------------------------------------------------------------------
(* A reading of the account. *)

Accounts ==
    [sequence : Nat, lines : SUBSET Lines, offers : SUBSET Offers, claims : SUBSET Balances]

ReadingRecord ==
    [pc : {"idle", "body", "pages", "read", "confirm", "end"}, source : Nat, again : BOOLEAN,
     reference : Nat, ledgers : SUBSET Nat, missing : BOOLEAN, sequence : Nat, count : Nat,
     lines : SUBSET Lines, offers : SUBSET Offers, offersLeft : BOOLEAN, claims : SUBSET Balances,
     claimsLeft : BOOLEAN, more : BOOLEAN, cut : BOOLEAN, keysLeft : SUBSET Nat,
     liveLedgers : SUBSET Nat, liveSequence : Nat, liveCount : Nat, live : SUBSET Nat,
     result : {"none", "confirmed", "changed", "unread", "unsettled", "unavailable", "too_large"}]

ReadingTyped ==
    /\ history \in Seq(Accounts) /\ history # <<>>
    /\ reading \in ReadingRecord
    /\ reading.ledgers \subseteq Ledgers /\ reading.liveLedgers \subseteq Ledgers
    /\ reading.pc # "end" => reading.result = "none"
    /\ sources > 1 /\ reading.pc # "idle" => reading.reference # 0

StartsBlank ==
    /\ reading.pc = "body" => /\ reading.offers = {} /\ reading.claims = {}
                              /\ reading.claimsLeft /\ ~reading.more
    /\ reading.pc \notin {"confirm", "end"} => reading.live = {}

\* What was read stood in the ledgers the answers name, if they name them.
PagesAreFrom ==
    reading.pc \in {"pages", "read", "confirm"} /\ ~reading.missing =>
        /\ \E n \in reading.ledgers :
              /\ reading.sequence = history[n].sequence /\ reading.count = EntryCount(history[n])
              /\ reading.lines = history[n].lines \ Unlisted
        /\ \A o \in reading.offers : \E n \in reading.ledgers : o \in history[n].offers

\* A claimable balance that was there in each of them was read, or comes in a later page.
ClaimsComeInOrder ==
    reading.pc = "pages" =>
        /\ reading.claimsLeft => ~reading.more
        /\ ~reading.missing /\ ~reading.cut /\ ~reading.more =>
              \A c \in Balances :
                  (\A n \in reading.ledgers : c \in history[n].claims) =>
                      c \in reading.claims \/ (reading.claimsLeft /\ \A g \in reading.claims : c > g)

\* With further providers configured, what was kept is of ledgers near the one asked for.
KeptIsRecent ==
    reading.pc \in {"read", "confirm"} /\ sources > 1 =>
        ~reading.missing /\ reading.ledgers \subseteq Since(reading)

\* What the confirmation has read so far.
ConfirmedSoFar ==
    reading.pc = "confirm" =>
        /\ ~Mismatch(reading)
        /\ TheAccount \notin reading.keysLeft =>
              \E n \in reading.liveLedgers :
                  /\ reading.liveSequence = history[n].sequence
                  /\ reading.liveCount = EntryCount(history[n])
        /\ reading.keysLeft \subseteq {TheAccount} \cup Enumerated(reading)
        /\ reading.live \subseteq Enumerated(reading)
        /\ \A e \in reading.live : \E n \in reading.liveLedgers : e \in SubEntries(history[n])
        /\ \A e \in Enumerated(reading) \ (reading.live \cup reading.keysLeft) :
              \E n \in reading.liveLedgers : e \notin SubEntries(history[n])

ReadingInv ==
    /\ ReadingTyped /\ StartsBlank /\ PagesAreFrom /\ ClaimsComeInOrder /\ KeptIsRecent /\ ConfirmedSoFar
    /\ ReadingIsWhole /\ ChangedIsRecent

LEMMA OldestIs ==
    ASSUME NEW S, S \subseteq Nat, S # {} PROVE Oldest(S) \in S /\ \A n \in S : Oldest(S) <= n
<1> DEFINE Less == {ss \in Nat \X Nat : ss[1] < ss[2]}
<1>1. IsWellFoundedOn(Less, Nat)
    BY NatLessThanWellFounded DEF OpToRel
<1> HIDE DEF Less
<1>2. PICK m \in S : \A n \in S : ~(<<n, m>> \in Less)
    BY <1>1, WFMin
<1>3. ASSUME NEW n \in S PROVE m <= n
    <2>1. n \in Nat /\ m \in Nat /\ <<n, m>> \notin Less
        BY <1>2
    <2> QED BY <2>1 DEF Less
<1> QED BY <1>3, Zenon DEF Oldest

LEMMA NewestIs ==
    ASSUME NEW S, NEW top \in Nat, S \subseteq 0 .. top, S # {}
    PROVE  Newest(S) \in S /\ \A n \in S : n <= Newest(S)
<1> DEFINE U == {k \in Nat : \A n \in S : n <= k}
           k == Oldest(U)
<1>1. k \in U /\ \A j \in U : k <= j
    <2>1. U \subseteq Nat /\ top \in U
        OBVIOUS
    <2> HIDE DEF U
    <2> QED BY <2>1, OldestIs
<1>2. k \in Nat /\ \A n \in S : n <= k
    BY <1>1
<1>4. \A j \in Nat : (\A n \in S : n <= j) => k <= j
    BY <1>1
<1> HIDE DEF U, k
<1>3. k \in S
    <2> SUFFICES ASSUME k \notin S PROVE FALSE
        OBVIOUS
    <2>1. \A n \in S : n \in Nat /\ n <= k - 1
        BY <1>2
    <2>2. k - 1 \in Nat
        <3>1. PICK n \in S : TRUE
            OBVIOUS
        <3>2. n \in Nat /\ n <= k - 1 /\ k \in Nat
            BY <1>2, <2>1
        <3> QED BY <3>2
    <2> QED BY <1>2, <1>4, <2>1, <2>2
<1> QED BY <1>2, <1>3, Zenon DEF Newest

\* A page holds the first of what follows: what it leaves out comes after all of it, and then it is full.
LEMMA PageIsFirst ==
    ASSUME NEW all \in SUBSET Balances, NEW got \in SUBSET Balances, NEW k \in Nat,
           NEW c \in all, \A g \in got : c > g, c \notin Following(all, got, k)
    PROVE  Cardinality(Following(all, got, k)) = k /\ \A i \in Following(all, got, k) : c > i
<1> DEFINE next == {i \in all : \A g \in got : i > g}
           upto(i) == {j \in next : j <= i}
           page == {i \in next : Cardinality(upto(i)) <= k}
<1>1. Following(all, got, k) = page
    BY Zenon DEF Following
<1>2. next \subseteq Nat /\ IsFiniteSet(next) /\ c \in next
    BY SnapshotAssumption, FS_Subset
<1> HIDE DEF next
<1>3. \A i \in next : IsFiniteSet(upto(i)) /\ Cardinality(upto(i)) \in Nat
    BY <1>2, FS_Subset, FS_CardinalityType
<1>12. \A i, j : j \in upto(i) <=> j \in next /\ j <= i
    OBVIOUS
<1>10. /\ \A i, j \in next : j \in upto(i) <=> j <= i
       /\ \A i, j \in next : i <= j => upto(i) \subseteq upto(j)
       /\ \A i \in next : upto(i) \subseteq next
    <2> HIDE DEF upto
    <2>1. \A i, j \in next : j \in upto(i) <=> j <= i
        BY <1>12
    <2>2. \A i \in next : upto(i) \subseteq next
        BY <1>12
    <2>3. ASSUME NEW i \in next, NEW j \in next, i <= j PROVE upto(i) \subseteq upto(j)
        <3> SUFFICES ASSUME NEW m \in upto(i) PROVE m \in upto(j)
            OBVIOUS
        <3>1. m \in next /\ m <= i
            BY <1>12
        <3>2. m <= j
            BY <1>2, <2>3, <3>1
        <3> QED BY <1>12, <3>1, <3>2
    <2> QED BY <2>1, <2>2, <2>3
<1> HIDE DEF upto
<1>11. page \subseteq next /\ \A i \in next : i \in page <=> Cardinality(upto(i)) <= k
    OBVIOUS
<1> HIDE DEF page
<1>4. ASSUME NEW i \in next, NEW j \in page, i <= j PROVE i \in page
    <2>1. j \in next /\ Cardinality(upto(j)) <= k /\ upto(i) \subseteq upto(j)
        BY <1>4, <1>10, <1>11
    <2>2. Cardinality(upto(i)) <= Cardinality(upto(j))
        BY <1>3, <2>1, FS_Subset
    <2>3. Cardinality(upto(i)) <= k
        BY <1>3, <2>1, <2>2
    <2> QED BY <1>11, <2>3
<1>5. c \notin page
    BY <1>1
<1>6. \A i \in page : c > i
    <2> SUFFICES ASSUME NEW i \in page PROVE c > i
        OBVIOUS
    <2>1. ~(c <= i) /\ i \in Nat /\ c \in Nat
        BY <1>2, <1>4, <1>5, <1>11
    <2> QED BY <2>1
<1>7. IsFiniteSet(page) /\ Cardinality(page) \in Nat
    BY <1>2, <1>11, FS_Subset, FS_CardinalityType
<1>8. Cardinality(page) <= k
    <2>1. CASE page = {}
        BY <2>1, FS_EmptySet
    <2>2. CASE page # {}
        <3>1. PICK m \in page : \A j \in page : j <= m
            <4>1. \A j \in page : j \in 0 .. c
                BY <1>2, <1>6, <1>11
            <4>2. Newest(page) \in page /\ \A j \in page : j <= Newest(page)
                BY <1>2, <2>2, <4>1, NewestIs
            <4> QED BY <4>2
        <3>2. page \subseteq upto(m) /\ m \in next /\ Cardinality(upto(m)) <= k
            BY <1>10, <1>11, <3>1
        <3>3. Cardinality(page) <= Cardinality(upto(m))
            BY <1>3, <3>2, FS_Subset
        <3> QED BY <1>3, <1>7, <3>2, <3>3
    <2> QED BY <2>1, <2>2
<1>9. Cardinality(page) >= k
    <2> DEFINE rest == next \ page
               d == Oldest(rest)
    <2>1. d \in rest /\ \A n \in rest : d <= n
        <3>1. rest \subseteq Nat /\ rest # {}
            BY <1>2, <1>5
        <3> HIDE DEF rest
        <3> QED BY <3>1, OldestIs
    <2> HIDE DEF d
    <2>2. upto(d) \subseteq page \cup {d}
        <3> SUFFICES ASSUME NEW j \in upto(d), j \notin page PROVE j = d
            OBVIOUS
        <3>1. j \in next /\ d \in next /\ j <= d /\ d <= j
            BY <1>10, <2>1
        <3> QED BY <1>2, <3>1
    <2>3. d \notin page /\ d \in next
        BY <2>1
    <2>4. Cardinality(upto(d)) > k
        BY <1>3, <1>11, <2>3
    <2>5. Cardinality(page \cup {d}) = Cardinality(page) + 1 /\ IsFiniteSet(page \cup {d})
        BY <1>7, <2>3, FS_AddElement
    <2>6. Cardinality(upto(d)) <= Cardinality(page \cup {d})
        BY <2>2, <2>5, FS_Subset
    <2> QED BY <1>3, <1>7, <2>3, <2>4, <2>5, <2>6
<1> QED BY <1>1, <1>6, <1>7, <1>8, <1>9

-----------------------------------------------------------------------------
\* The account in one ledger.
LEMMA LedgerIs ==
    ASSUME ReadingTyped, NEW n \in Ledgers
    PROVE  /\ n \in Nat /\ n >= 1 /\ history[n] \in Accounts
           /\ SubEntries(history[n]) \subseteq Lines \cup Offers
           /\ IsFiniteSet(SubEntries(history[n])) /\ EntryCount(history[n]) \in Nat
<1>1. n \in Nat /\ n >= 1 /\ history[n] \in Accounts
    BY DEF ReadingTyped, Ledgers, Tip
<1>2. SubEntries(history[n]) \subseteq Lines \cup Offers
    BY <1>1 DEF SubEntries, Accounts
<1>3. IsFiniteSet(Lines \cup Offers)
    BY SnapshotAssumption, FS_Union
<1> QED BY <1>1, <1>2, <1>3, FS_Subset, FS_CardinalityType DEF EntryCount

LEMMA ReadingStarts == SnapshotInit => ReadingInv
<1> SUFFICES ASSUME SnapshotInit PROVE ReadingInv
    OBVIOUS
<1>1. reading = Blank /\ Len(history) = 1 /\ history \in Seq(Accounts)
    BY DEF SnapshotInit, Accounts
<1>2. ReadingTyped
    <2>1. Blank \in ReadingRecord /\ Blank.ledgers = {} /\ Blank.liveLedgers = {} /\ Blank.result = "none"
          /\ Blank.pc = "idle"
        BY DEF ReadingRecord, Blank
    <2>2. history # <<>>
        BY <1>1
    <2> QED BY <1>1, <2>1, <2>2 DEF ReadingTyped
<1>3. StartsBlank /\ PagesAreFrom /\ ClaimsComeInOrder /\ KeptIsRecent /\ ConfirmedSoFar
    BY <1>1 DEF StartsBlank, PagesAreFrom, ClaimsComeInOrder, KeptIsRecent, ConfirmedSoFar, Blank
<1>4. ReadingIsWhole /\ ChangedIsRecent
    BY <1>1 DEF ReadingIsWhole, ConfirmedIsWhole, ClaimsAreSeen, ChangedIsRecent, Blank
<1> QED BY <1>2, <1>3, <1>4 DEF ReadingInv

\* The properties speak of what has ended.
LEMMA NotEnded ==
    ASSUME ReadingTyped, reading.pc # "end" PROVE ConfirmedIsWhole /\ ChangedIsRecent
BY DEF ReadingTyped, ConfirmedIsWhole, ChangedIsRecent

\* A ledger closes: those before it stay.
LEMMA LedgerClosesKeeps == ASSUME ReadingInv, LedgerCloses PROVE ReadingInv'
<1>1. /\ UNCHANGED <<sources, naming, reading>> /\ reading.pc # "end"
      /\ Tip \in Nat \ {0} /\ Tip \in Ledgers /\ history \in Seq(Accounts) /\ history[Tip] \in Accounts
    BY DEF LedgerCloses, ReadingInv, ReadingTyped, Tip, Ledgers
<1>2. PICK next \in Accounts : history' = Append(history, next)
    <2>1. CASE history' = Append(history, history[Tip])
        BY <1>1, <2>1
    <2>2. CASE \E next \in Changed(history[Tip]) : history' = Append(history, next)
        <3>1. PICK next \in Changed(history[Tip]) : history' = Append(history, next)
            BY <2>2
        <3>2. PICK account \in Accounts : account = history[Tip]
            BY <1>1
        <3>3. next \in Accounts
            <4>1. CASE next = [account EXCEPT !.sequence = @ + 1]
                BY <4>1 DEF Accounts
            <4>2. CASE \E e \in Lines : next = [account EXCEPT !.lines = Toggled(@, e)]
                BY <4>2 DEF Accounts, Toggled
            <4>3. CASE \E e \in Offers : next = [account EXCEPT !.offers = Toggled(@, e)]
                BY <4>3 DEF Accounts, Toggled
            <4>4. CASE \E e \in Balances : next = [account EXCEPT !.claims = Toggled(@, e)]
                BY <4>4 DEF Accounts, Toggled
            <4>5. /\ \A es : account.offers \cup Fresh(Offers, es) \subseteq Offers
                  /\ \A es : account.claims \cup Fresh(Balances, es) \subseteq Balances
                BY DEF Accounts, Fresh
            <4> QED BY <3>1, <3>2, <4>1, <4>2, <4>3, <4>4, <4>5, Zenon DEF Changed
        <3> QED BY <3>1, <3>3
    <2> QED BY <2>1, <2>2 DEF LedgerCloses
<1>3. /\ history' \in Seq(Accounts) /\ history' # <<>> /\ Ledgers \subseteq Ledgers'
      /\ \A n \in Ledgers : history'[n] = history[n]
    BY <1>1, <1>2 DEF Ledgers, Tip
<1>4. Since(reading) \subseteq Since(reading)'
    BY <1>1, <1>3 DEF Since
<1>5. ReadingTyped' /\ StartsBlank'
    BY <1>1, <1>3 DEF ReadingInv, ReadingTyped, StartsBlank
<1>6. reading.ledgers \subseteq Ledgers /\ reading.liveLedgers \subseteq Ledgers
    BY DEF ReadingInv, ReadingTyped
<1>7. PagesAreFrom' /\ ClaimsComeInOrder'
    BY <1>1, <1>3, <1>6 DEF ReadingInv, PagesAreFrom, ClaimsComeInOrder, EntryCount, SubEntries
<1>8. KeptIsRecent' /\ ClaimsAreSeen'
    <2>1. \A n \in Since(reading) : n \in Since(reading)' /\ history'[n] = history[n]
        BY <1>3, <1>4 DEF Since
    <2> QED BY <1>1, <2>1 DEF ReadingInv, KeptIsRecent, ReadingIsWhole, ClaimsAreSeen
<1>9. ConfirmedSoFar'
    BY <1>1, <1>3, <1>6 DEF ReadingInv, ConfirmedSoFar, EntryCount, SubEntries, Enumerated, Mismatch
<1> QED BY <1>1, <1>5, <1>7, <1>8, <1>9, NotEnded DEF ReadingInv, ReadingIsWhole, ReadingTyped, ConfirmedIsWhole,
                                                  ChangedIsRecent

\* A reading that starts, or starts again, has read nothing.
LEMMA BlankFits ==
    ASSUME ReadingInv, UNCHANGED <<history, changes, sources, naming>>, NEW r \in ReadingRecord,
           reading' = r, r.pc = "body", r.result = "none", r.ledgers = {}, r.liveLedgers = {},
           r.offers = {}, r.claims = {}, r.claimsLeft, ~r.more, r.live = {}, sources > 1 => r.reference # 0
    PROVE  ReadingInv'
<1>1. ReadingTyped'
    BY DEF ReadingInv, ReadingTyped, Ledgers, Tip
<1>2. StartsBlank' /\ PagesAreFrom' /\ ClaimsComeInOrder' /\ KeptIsRecent' /\ ConfirmedSoFar' /\ ClaimsAreSeen'
    BY DEF StartsBlank, PagesAreFrom, ClaimsComeInOrder, KeptIsRecent, ConfirmedSoFar, ClaimsAreSeen
<1>3. ConfirmedIsWhole' /\ ChangedIsRecent'
    BY DEF ConfirmedIsWhole, ChangedIsRecent
<1> QED BY <1>1, <1>2, <1>3 DEF ReadingInv, ReadingIsWhole

\* A reading that ended without a verdict says nothing.
LEMMA EndFits ==
    ASSUME ReadingInv, UNCHANGED <<history, changes, sources, naming>>, NEW r \in ReadingRecord,
           reading' = r, r.pc = "end", r.result \notin {"confirmed", "changed"},
           r.ledgers \subseteq Ledgers, r.liveLedgers \subseteq Ledgers, sources > 1 => r.reference # 0
    PROVE  ReadingInv'
<1>1. ReadingTyped'
    BY DEF ReadingInv, ReadingTyped, Ledgers, Tip
<1>2. StartsBlank' /\ PagesAreFrom' /\ ClaimsComeInOrder' /\ KeptIsRecent' /\ ConfirmedSoFar' /\ ClaimsAreSeen'
    BY DEF StartsBlank, PagesAreFrom, ClaimsComeInOrder, KeptIsRecent, ConfirmedSoFar, ClaimsAreSeen
<1>3. ConfirmedIsWhole' /\ ChangedIsRecent'
    BY DEF ConfirmedIsWhole, ChangedIsRecent
<1> QED BY <1>1, <1>2, <1>3 DEF ReadingInv, ReadingIsWhole

LEMMA AskAccountKeeps == ASSUME ReadingInv, AskAccount PROVE ReadingInv'
<1>1. PICK n \in IF sources > 1 THEN Ledgers ELSE {0} : reading' = [Blank EXCEPT !.pc = "body", !.reference = n]
    BY DEF AskAccount
<1> DEFINE r == [Blank EXCEPT !.pc = "body", !.reference = n]
<1>2. n \in Nat /\ (sources > 1 => n # 0)
    BY DEF ReadingInv, ReadingTyped, Ledgers, Tip
<1>3. r \in ReadingRecord /\ r.pc = "body" /\ r.result = "none" /\ r.ledgers = {} /\ r.liveLedgers = {}
      /\ r.offers = {} /\ r.claims = {} /\ r.claimsLeft /\ ~r.more /\ r.live = {} /\ r.reference = n
    BY <1>2 DEF ReadingRecord, Blank
<1>4. UNCHANGED <<history, changes, sources, naming>>
    BY DEF AskAccount
<1> HIDE DEF r
<1> QED BY <1>1, <1>2, <1>3, <1>4, BlankFits DEF r

\* The next provider, or the end.
LEMMA NextSourceFits ==
    ASSUME ReadingInv, UNCHANGED <<history, changes, sources, naming>>, reading' = NextSource, reading.pc # "idle"
    PROVE  ReadingInv'
<1>1. sources > 1 => reading.reference # 0
    BY DEF ReadingInv, ReadingTyped
<1>2. /\ reading \in ReadingRecord /\ reading.ledgers \subseteq Ledgers /\ reading.liveLedgers \subseteq Ledgers
    BY DEF ReadingInv, ReadingTyped
<1>3. CASE reading.source < sources
    <2> DEFINE r == [Blank EXCEPT !.pc = "body", !.source = reading.source + 1, !.reference = reading.reference]
    <2>3. reading.source + 1 \in Nat /\ reading.reference \in Nat
        BY <1>2 DEF ReadingRecord
    <2>1. r \in ReadingRecord /\ r.pc = "body" /\ r.result = "none" /\ r.ledgers = {} /\ r.liveLedgers = {}
          /\ r.offers = {} /\ r.claims = {} /\ r.claimsLeft /\ ~r.more /\ r.live = {} /\ r.reference = reading.reference
        BY <2>3 DEF ReadingRecord, Blank
    <2>2. reading' = r
        BY <1>3 DEF NextSource
    <2> HIDE DEF r
    <2> QED BY <1>1, <2>1, <2>2, BlankFits
<1>4. CASE ~(reading.source < sources)
    <2> DEFINE r == [reading EXCEPT !.pc = "end", !.result = "unavailable"]
    <2>1. r \in ReadingRecord /\ r.pc = "end" /\ r.result = "unavailable" /\ r.ledgers = reading.ledgers
          /\ r.liveLedgers = reading.liveLedgers /\ r.reference = reading.reference
        BY <1>2 DEF ReadingRecord
    <2>2. reading' = r
        BY <1>4 DEF NextSource
    <2> HIDE DEF r
    <2> QED BY <1>1, <1>2, <2>1, <2>2, EndFits
<1> QED BY <1>3, <1>4

LEMMA ReadFailsKeeps == ASSUME ReadingInv, ReadFails PROVE ReadingInv'
BY NextSourceFits DEF ReadFails

\* An answer adds its ledger, or shows that some answers name none.
LEMMA NotedIs ==
    ASSUME NEW r \in ReadingRecord, NEW n \in Ledgers, ReadingTyped
    PROVE  /\ Noted(r, n) \in ReadingRecord
           /\ \A f \in DOMAIN Blank \ {"ledgers", "missing"} : Noted(r, n)[f] = r[f]
           /\ Noted(r, n).ledgers \in {r.ledgers, r.ledgers \cup {n}}
           /\ ~Noted(r, n).missing => ~r.missing /\ Noted(r, n).ledgers = r.ledgers \cup {n}
<1>1. n \in Nat
    BY LedgerIs
<1>2. CASE r.source \in naming
    <2>1. Noted(r, n) = [r EXCEPT !.ledgers = @ \cup {n}]
        BY <1>2 DEF Noted
    <2>2. [r EXCEPT !.ledgers = @ \cup {n}] \in ReadingRecord
        BY <1>1 DEF ReadingRecord
    <2> QED BY <2>1, <2>2 DEF ReadingRecord, Blank
<1>3. CASE r.source \notin naming
    <2>1. Noted(r, n) = [r EXCEPT !.missing = TRUE]
        BY <1>3 DEF Noted
    <2>2. [r EXCEPT !.missing = TRUE] \in ReadingRecord
        BY DEF ReadingRecord
    <2> QED BY <2>1, <2>2 DEF ReadingRecord, Blank
<1> QED BY <1>2, <1>3

LEMMA ReadBodyKeeps == ASSUME ReadingInv, ReadBody PROVE ReadingInv'
<1>1. reading.pc = "body" /\ UNCHANGED <<history, changes, sources, naming>>
    BY DEF ReadBody
<1>2. PICK n \in Ledgers :
        reading' = Noted([reading EXCEPT !.pc = "pages", !.sequence = history[n].sequence, !.count = EntryCount(history[n]),
                              !.lines = history[n].lines \ Unlisted], n)
    BY DEF ReadBody
<1> DEFINE r == [reading EXCEPT !.pc = "pages", !.sequence = history[n].sequence, !.count = EntryCount(history[n]),
                    !.lines = history[n].lines \ Unlisted]
<1>3. /\ n \in Nat /\ n >= 1 /\ history[n] \in Accounts /\ EntryCount(history[n]) \in Nat
      /\ reading \in ReadingRecord /\ reading.ledgers \subseteq Ledgers /\ reading.liveLedgers \subseteq Ledgers
      /\ reading.result = "none" /\ (sources > 1 => reading.reference # 0)
    BY <1>1, LedgerIs DEF ReadingInv, ReadingTyped
<1>4. /\ r \in ReadingRecord /\ r.pc = "pages" /\ r.sequence = history[n].sequence /\ r.count = EntryCount(history[n])
      /\ r.lines = history[n].lines \ Unlisted
      /\ r = [reading EXCEPT !.pc = r.pc, !.sequence = r.sequence, !.count = r.count, !.lines = r.lines]
    BY <1>3 DEF ReadingRecord, Accounts
<1>5. /\ r.ledgers = reading.ledgers /\ r.liveLedgers = reading.liveLedgers /\ r.result = reading.result
      /\ r.reference = reading.reference /\ r.offers = {} /\ r.claims = {} /\ r.claimsLeft /\ r.live = {}
      /\ ~r.more
    BY <1>1, <1>3 DEF ReadingRecord, ReadingInv, StartsBlank
<1> HIDE DEF r
<1>6. reading' = Noted(r, n)
    BY <1>2 DEF r
<1>7. /\ reading' \in ReadingRecord /\ \A f \in DOMAIN Blank \ {"ledgers", "missing"} : reading'[f] = r[f]
      /\ reading'.ledgers \in {r.ledgers, r.ledgers \cup {n}}
      /\ ~reading'.missing => reading'.ledgers = r.ledgers \cup {n}
    <2>1. ReadingTyped
        BY DEF ReadingInv
    <2>2. /\ Noted(r, n) \in ReadingRecord /\ \A f \in DOMAIN Blank \ {"ledgers", "missing"} : Noted(r, n)[f] = r[f]
          /\ Noted(r, n).ledgers \in {r.ledgers, r.ledgers \cup {n}}
          /\ ~Noted(r, n).missing => Noted(r, n).ledgers = r.ledgers \cup {n}
        BY <1>4, <2>1, NotedIs
    <2> QED BY <1>6, <2>2, Zenon
<1>8. /\ reading'.pc = "pages" /\ reading'.result = "none" /\ reading'.reference = reading.reference
      /\ reading'.liveLedgers = reading.liveLedgers /\ reading'.offers = {} /\ reading'.claims = {} /\ reading'.live = {}
      /\ reading'.claimsLeft /\ ~reading'.more /\ reading'.sequence = history[n].sequence /\ reading'.count = EntryCount(history[n])
      /\ reading'.lines = history[n].lines \ Unlisted
    BY <1>3, <1>4, <1>5, <1>7 DEF Blank
<1>9. ReadingTyped' /\ StartsBlank'
    BY <1>1, <1>3, <1>5, <1>7, <1>8 DEF ReadingInv, ReadingTyped, StartsBlank, Ledgers, Tip
<1>10. PagesAreFrom'
    BY <1>1, <1>7, <1>8 DEF PagesAreFrom, EntryCount, SubEntries
<1>11. ClaimsComeInOrder' /\ KeptIsRecent' /\ ConfirmedSoFar' /\ ClaimsAreSeen'
    BY <1>8 DEF ClaimsComeInOrder, KeptIsRecent, ConfirmedSoFar, ClaimsAreSeen
<1>12. ConfirmedIsWhole' /\ ChangedIsRecent'
    BY <1>8 DEF ConfirmedIsWhole, ChangedIsRecent
<1> QED BY <1>9, <1>10, <1>11, <1>12 DEF ReadingInv, ReadingIsWhole

LEMMA ReadOffersKeeps == ASSUME ReadingInv, ReadOffers PROVE ReadingInv'
<1>1. reading.pc = "pages" /\ UNCHANGED <<history, changes, sources, naming>>
    BY DEF ReadOffers
<1>2. PICK n \in Ledgers, k \in 0 .. PageLimit :
        LET page == Following(history[n].offers, reading.offers, k)
            r == Noted([reading EXCEPT !.offers = @ \cup page,
                                       !.offersLeft = (Cardinality(page) = PageLimit)], n)
        IN  reading' = IF Cardinality(r.offers) > OfferCeiling
                       THEN [r EXCEPT !.pc = "end", !.result = "too_large"] ELSE r
    BY DEF ReadOffers
<1> DEFINE page == Following(history[n].offers, reading.offers, k)
           left == Cardinality(page) = PageLimit
           q == [reading EXCEPT !.offers = @ \cup page, !.offersLeft = left]
           r == Noted(q, n)
<1>3. /\ n \in Nat /\ history[n] \in Accounts /\ page \subseteq history[n].offers
      /\ reading \in ReadingRecord /\ reading.ledgers \subseteq Ledgers /\ reading.liveLedgers \subseteq Ledgers
      /\ reading.result = "none" /\ (sources > 1 => reading.reference # 0)
    BY <1>1, <1>2, LedgerIs DEF ReadingInv, ReadingTyped, Following
<1>4. q \in ReadingRecord
    <2>1. left \in BOOLEAN /\ page \subseteq Offers
        BY <1>3 DEF Accounts
    <2> HIDE DEF left, page
    <2> QED BY <1>3, <2>1 DEF ReadingRecord
<1>5. /\ q.ledgers = reading.ledgers /\ q.offers = reading.offers \cup page /\ q.missing = reading.missing
      /\ \A f \in DOMAIN Blank \ {"offers", "offersLeft"} : q[f] = reading[f]
    <2> HIDE DEF left, page
    <2> QED BY <1>3 DEF ReadingRecord, Blank
<1>6. r = Noted(q, n) /\ (reading' = r \/ reading' = [r EXCEPT !.pc = "end", !.result = "too_large"])
    BY <1>2
<1> HIDE DEF q, r
<1>7. /\ r \in ReadingRecord /\ \A f \in DOMAIN Blank \ {"ledgers", "missing"} : r[f] = q[f]
      /\ r.ledgers \in {q.ledgers, q.ledgers \cup {n}}
      /\ ~r.missing => ~q.missing /\ r.ledgers = q.ledgers \cup {n}
    BY <1>4, <1>6, NotedIs DEF ReadingInv
<1>8. /\ r.pc = "pages" /\ r.result = "none" /\ r.reference = reading.reference
      /\ r.liveLedgers = reading.liveLedgers /\ r.offers = reading.offers \cup page /\ r.claims = reading.claims
      /\ r.claimsLeft = reading.claimsLeft /\ r.sequence = reading.sequence /\ r.count = reading.count
      /\ r.lines = reading.lines /\ r.more = reading.more /\ r.cut = reading.cut /\ r.live = reading.live
    BY <1>1, <1>3, <1>5, <1>7 DEF Blank
<1>9. CASE reading' = r
    <2>1. ReadingTyped' /\ StartsBlank'
        <3>1. r.ledgers \subseteq Ledgers /\ r.liveLedgers \subseteq Ledgers
            BY <1>3, <1>5, <1>7, <1>8
        <3>2. r.live = {}
            BY <1>1, <1>8 DEF ReadingInv, StartsBlank
        <3> QED BY <1>1, <1>3, <1>7, <1>8, <1>9, <3>1, <3>2 DEF ReadingInv, ReadingTyped, StartsBlank, Ledgers, Tip
    <2>2. PagesAreFrom'
        BY <1>1, <1>2, <1>3, <1>5, <1>7, <1>8, <1>9 DEF ReadingInv, PagesAreFrom, EntryCount, SubEntries
    <2>3. ClaimsComeInOrder'
        BY <1>1, <1>5, <1>7, <1>8, <1>9 DEF ReadingInv, ClaimsComeInOrder
    <2>4. KeptIsRecent' /\ ConfirmedSoFar' /\ ClaimsAreSeen' /\ ConfirmedIsWhole' /\ ChangedIsRecent'
        BY <1>8, <1>9 DEF KeptIsRecent, ConfirmedSoFar, ClaimsAreSeen, ConfirmedIsWhole, ChangedIsRecent
    <2> QED BY <2>1, <2>2, <2>3, <2>4 DEF ReadingInv, ReadingIsWhole
<1>10. CASE reading' = [r EXCEPT !.pc = "end", !.result = "too_large"]
    <2> DEFINE e == [r EXCEPT !.pc = "end", !.result = "too_large"]
    <2>1. /\ e \in ReadingRecord /\ e.pc = "end" /\ e.result = "too_large" /\ e.ledgers = r.ledgers
          /\ e.liveLedgers = r.liveLedgers /\ e.reference = r.reference
        BY <1>7 DEF ReadingRecord
    <2>2. e.ledgers \subseteq Ledgers /\ e.liveLedgers \subseteq Ledgers
        BY <1>2, <1>3, <1>5, <1>7, <1>8, <2>1
    <2>3. reading' = e
        BY <1>10
    <2> HIDE DEF e
    <2> QED BY <1>1, <1>3, <1>8, <2>1, <2>2, <2>3, EndFits
<1> QED BY <1>6, <1>9, <1>10

LEMMA ReadClaimsKeeps == ASSUME ReadingInv, ReadClaims PROVE ReadingInv'
<1>1. reading.pc = "pages" /\ reading.claimsLeft /\ UNCHANGED <<history, changes, sources, naming>>
    BY DEF ReadClaims
<1>2. PICK n \in Ledgers, k \in 0 .. PageLimit :
        LET page == Following(history[n].claims, reading.claims, k)
            all == reading.claims \cup page
            over == Cardinality(all) > ClaimCeiling
        IN  reading' = Noted([reading EXCEPT
               !.claims = IF over THEN Following(all, {}, ClaimCeiling) ELSE all,
               !.more = over,
               !.claimsLeft = (~over /\ Cardinality(page) = PageLimit),
               !.cut = @ \/ page # Following(history[n].claims, reading.claims, PageLimit)], n)
    BY DEF ReadClaims
<1> DEFINE page == Following(history[n].claims, reading.claims, k)
           all == reading.claims \cup page
           over == Cardinality(all) > ClaimCeiling
           got == IF over THEN Following(all, {}, ClaimCeiling) ELSE all
           left == ~over /\ Cardinality(page) = PageLimit
           cut == reading.cut \/ page # Following(history[n].claims, reading.claims, PageLimit)
           q == [reading EXCEPT !.claims = got, !.more = over, !.claimsLeft = left, !.cut = cut]
<1>3. /\ n \in Nat /\ history[n] \in Accounts /\ page \subseteq history[n].claims /\ got \subseteq Balances
      /\ reading \in ReadingRecord /\ reading.ledgers \subseteq Ledgers /\ reading.liveLedgers \subseteq Ledgers
      /\ reading.result = "none" /\ (sources > 1 => reading.reference # 0)
    <2>1. /\ n \in Nat /\ history[n] \in Accounts
          /\ reading \in ReadingRecord /\ reading.ledgers \subseteq Ledgers /\ reading.liveLedgers \subseteq Ledgers
          /\ reading.result = "none" /\ (sources > 1 => reading.reference # 0)
        BY <1>1, <1>2, LedgerIs DEF ReadingInv, ReadingTyped
    <2>2. page \subseteq history[n].claims /\ got \subseteq all
        BY DEF Following
    <2>3. all \subseteq Balances
        BY <2>1, <2>2 DEF ReadingRecord, Accounts
    <2> QED BY <2>1, <2>2, <2>3
<1>4. reading' = Noted(q, n)
    <2>1. q = [reading EXCEPT !.claims = got, !.more = over, !.claimsLeft = left, !.cut = @ \/ page # Following(history[n].claims, reading.claims, PageLimit)]
        BY DEF q
    <2> QED BY <1>2, <2>1, Zenon
<1>5. over \in BOOLEAN /\ left \in BOOLEAN /\ cut \in BOOLEAN
    BY <1>3 DEF ReadingRecord
<1>6. q \in ReadingRecord
    <2> HIDE DEF got, over, left, cut
    <2> QED BY <1>3, <1>5 DEF ReadingRecord
<1>7. /\ q.claims = got /\ q.more = over /\ q.claimsLeft = left /\ q.cut = cut
      /\ \A f \in DOMAIN Blank \ {"claims", "more", "claimsLeft", "cut"} : q[f] = reading[f]
    <2> HIDE DEF got, over, left, cut
    <2> QED BY <1>3 DEF ReadingRecord, Blank
<1> HIDE DEF q
<1>8. /\ reading' \in ReadingRecord
      /\ \A f \in DOMAIN Blank \ {"ledgers", "missing"} : reading'[f] = q[f]
      /\ reading'.ledgers \in {q.ledgers, q.ledgers \cup {n}}
      /\ ~reading'.missing => ~q.missing /\ reading'.ledgers = q.ledgers \cup {n}
    BY <1>4, <1>6, NotedIs DEF ReadingInv
<1>9. /\ reading'.pc = "pages" /\ reading'.result = "none" /\ reading'.reference = reading.reference
      /\ reading'.liveLedgers = reading.liveLedgers /\ reading'.offers = reading.offers
      /\ reading'.sequence = reading.sequence /\ reading'.count = reading.count /\ reading'.lines = reading.lines
      /\ q.ledgers = reading.ledgers /\ q.missing = reading.missing /\ reading'.live = reading.live
    <2> HIDE DEF got, over, left, cut
    <2> QED BY <1>1, <1>3, <1>7, <1>8 DEF Blank
<1>10. /\ reading'.claims = got /\ reading'.more = over /\ reading'.claimsLeft = left /\ reading'.cut = cut
    <2> HIDE DEF got, over, left, cut
    <2> QED BY <1>7, <1>8 DEF Blank
<1>11. ReadingTyped' /\ StartsBlank'
    <2>1. reading'.ledgers \subseteq Ledgers /\ reading'.liveLedgers \subseteq Ledgers
        BY <1>3, <1>8, <1>9
    <2>2. reading'.live = {}
        BY <1>1, <1>9 DEF ReadingInv, StartsBlank
    <2> QED BY <1>1, <1>3, <1>8, <1>9, <2>1, <2>2 DEF ReadingInv, ReadingTyped, StartsBlank, Ledgers, Tip
<1>12. PagesAreFrom'
    BY <1>1, <1>8, <1>9 DEF ReadingInv, PagesAreFrom, EntryCount, SubEntries
<1>13. ClaimsComeInOrder'
    <2>6. left => ~over
        OBVIOUS
    <2> SUFFICES ASSUME ~reading'.missing, ~cut, ~over, NEW c \in Balances,
                        \A m \in reading'.ledgers : history[m].claims = history'[m].claims /\ c \in history[m].claims
                 PROVE  c \in got \/ (left /\ \A g \in got : c > g)
        BY <1>1, <1>10, <2>6 DEF ClaimsComeInOrder
    <2>1. c \in history[n].claims /\ history[n].claims \subseteq Balances /\ reading.claims \subseteq Balances
          /\ PageLimit \in Nat
        BY <1>3, <1>8, SnapshotAssumption DEF Accounts, ReadingRecord
    <2>2. c \in reading.claims \/ \A g \in reading.claims : c > g
        BY <1>1, <1>8, <1>9 DEF ReadingInv, ClaimsComeInOrder
    <2>3. page = Following(history[n].claims, reading.claims, PageLimit)
        OBVIOUS
    <2>4. got = all
        OBVIOUS
    <2>5. ASSUME c \notin reading.claims, c \notin page
          PROVE  Cardinality(page) = PageLimit /\ \A i \in page : c > i
        <3> HIDE DEF page
        <3> QED BY <2>1, <2>2, <2>3, <2>5, PageIsFirst
    <2> HIDE DEF page
    <2> QED BY <2>2, <2>4, <2>5
<1>14. KeptIsRecent' /\ ConfirmedSoFar' /\ ClaimsAreSeen' /\ ConfirmedIsWhole' /\ ChangedIsRecent'
    BY <1>9 DEF KeptIsRecent, ConfirmedSoFar, ClaimsAreSeen, ConfirmedIsWhole, ChangedIsRecent
<1> QED BY <1>11, <1>12, <1>13, <1>14 DEF ReadingInv, ReadingIsWhole

\* The pages are read: the snapshot is kept, read again, or the next provider's turn comes.
LEMMA JudgeKeeps == ASSUME ReadingInv, Judge PROVE ReadingInv'
<1>1. /\ reading.pc = "pages" /\ ~reading.claimsLeft /\ UNCHANGED <<history, changes, sources, naming>>
      /\ reading \in ReadingRecord /\ reading.ledgers \subseteq Ledgers /\ reading.liveLedgers \subseteq Ledgers
      /\ reading.result = "none" /\ (sources > 1 => reading.reference # 0)
    BY DEF Judge, ReadingInv, ReadingTyped
<1>2. CASE reading' = NextSource
    BY <1>1, <1>2, NextSourceFits
<1>3. CASE KeepsUp(reading) /\ reading' = [reading EXCEPT !.pc = "read"]
    <2>1. /\ reading' \in ReadingRecord /\ reading'.pc = "read" /\ DOMAIN reading' = DOMAIN reading
          /\ \A f \in DOMAIN reading \ {"pc"} : reading'[f] = reading[f]
          /\ DOMAIN reading = DOMAIN Blank
        BY <1>1, <1>3 DEF ReadingRecord, Blank
    <2>2. /\ reading'.ledgers = reading.ledgers /\ reading'.missing = reading.missing /\ reading'.claims = reading.claims
          /\ reading'.offers = reading.offers /\ reading'.lines = reading.lines /\ reading'.count = reading.count
          /\ reading'.sequence = reading.sequence /\ reading'.reference = reading.reference
          /\ reading'.liveLedgers = reading.liveLedgers /\ reading'.result = "none"
          /\ reading'.cut = reading.cut /\ reading'.more = reading.more /\ reading'.live = reading.live
        BY <1>1, <2>1 DEF Blank
    <2>3. ReadingTyped' /\ StartsBlank'
        BY <1>1, <2>1, <2>2 DEF ReadingInv, ReadingTyped, StartsBlank, Ledgers, Tip
    <2>4. PagesAreFrom'
        BY <1>1, <2>1, <2>2 DEF ReadingInv, PagesAreFrom, EntryCount, SubEntries
    <2>5. sources > 1 => ~reading.missing /\ reading.ledgers \subseteq Since(reading)
        <3> SUFFICES ASSUME sources > 1 PROVE ~reading.missing /\ reading.ledgers \subseteq Since(reading)
            OBVIOUS
        <3>1. ~Behind(reading)
            BY <1>1, <1>3 DEF KeepsUp
        <3>2. /\ ~reading.missing /\ reading.ledgers # {} /\ ~(reading.reference - Oldest(reading.ledgers) > LedgerSpan)
            BY <3>1 DEF Behind
        <3>3. reading.ledgers \subseteq Nat /\ reading.reference \in Nat /\ LedgerSpan \in Nat
            BY <1>1, SnapshotAssumption DEF ReadingRecord
        <3>4. Oldest(reading.ledgers) \in Nat /\ \A n \in reading.ledgers : Oldest(reading.ledgers) <= n
            BY <3>2, <3>3, OldestIs
        <3>5. \A n \in reading.ledgers : n >= reading.reference - LedgerSpan
            BY <3>2, <3>3, <3>4
        <3> QED BY <1>1, <3>2, <3>5 DEF Since
    <2>6. Since(reading)' = Since(reading)
        BY <1>1, <2>2 DEF Since, Ledgers, Tip
    <2>7. KeptIsRecent'
        BY <1>1, <2>2, <2>5, <2>6 DEF KeptIsRecent
    <2>8. ClaimsAreSeen'
        <3> SUFFICES ASSUME sources > 1, ~reading.cut, ~reading.more, NEW c \in Balances,
                            \A n \in Since(reading) : c \in history[n].claims
                     PROVE  c \in reading.claims
            BY <1>1, <2>2, <2>6 DEF ClaimsAreSeen
        <3> QED BY <1>1, <2>5 DEF ReadingInv, ClaimsComeInOrder
    <2>9. ClaimsComeInOrder' /\ ConfirmedSoFar' /\ ConfirmedIsWhole' /\ ChangedIsRecent'
        BY <2>1, <2>2 DEF ClaimsComeInOrder, ConfirmedSoFar, ConfirmedIsWhole, ChangedIsRecent
    <2> QED BY <2>3, <2>4, <2>7, <2>8, <2>9 DEF ReadingInv, ReadingIsWhole
<1>4. CASE reading' = [Blank EXCEPT !.pc = "body", !.again = TRUE, !.source = reading.source, !.reference = reading.reference]
    <2> DEFINE r == [Blank EXCEPT !.pc = "body", !.again = TRUE, !.source = reading.source,
                                  !.reference = reading.reference]
    <2>1. r \in ReadingRecord /\ r.pc = "body" /\ r.result = "none" /\ r.ledgers = {} /\ r.liveLedgers = {}
          /\ r.offers = {} /\ r.claims = {} /\ r.claimsLeft /\ ~r.more /\ r.live = {} /\ r.reference = reading.reference
        <3>1. reading.source \in Nat /\ reading.reference \in Nat
            BY <1>1 DEF ReadingRecord
        <3> QED BY <3>1 DEF ReadingRecord, Blank
    <2>2. reading' = r
        BY <1>4
    <2> HIDE DEF r
    <2> QED BY <1>1, <2>1, <2>2, BlankFits
<1>5. CASE reading' = [reading EXCEPT !.pc = "end", !.result = "unsettled"]
    <2> DEFINE r == [reading EXCEPT !.pc = "end", !.result = "unsettled"]
    <2>1. r \in ReadingRecord /\ r.pc = "end" /\ r.result = "unsettled" /\ r.ledgers = reading.ledgers
          /\ r.liveLedgers = reading.liveLedgers /\ r.reference = reading.reference
        BY <1>1 DEF ReadingRecord
    <2>2. reading' = r
        BY <1>5
    <2> HIDE DEF r
    <2> QED BY <1>1, <2>1, <2>2, EndFits
<1>6. \/ reading' = NextSource
      \/ KeepsUp(reading) /\ reading' = [reading EXCEPT !.pc = "read"]
      \/ reading' = [Blank EXCEPT !.pc = "body", !.again = TRUE, !.source = reading.source,
                                  !.reference = reading.reference]
      \/ reading' = [reading EXCEPT !.pc = "end", !.result = "unsettled"]
    <2> DEFINE kept == [reading EXCEPT !.pc = "read"]
               again == [Blank EXCEPT !.pc = "body", !.again = TRUE, !.source = reading.source,
                                      !.reference = reading.reference]
               ended == [reading EXCEPT !.pc = "end", !.result = "unsettled"]
    <2>1. reading' = IF ~KeepsUp(reading) THEN NextSource
                     ELSE IF WithinSpan(reading) THEN kept ELSE IF reading.again THEN ended ELSE again
        BY DEF Judge
    <2>2. \/ reading' = NextSource \/ (KeepsUp(reading) /\ reading' = kept) \/ reading' = again \/ reading' = ended
        <3> HIDE DEF kept, again, ended
        <3> QED BY <2>1
    <2> QED BY <2>2, Zenon
<1> QED BY <1>2, <1>3, <1>4, <1>5, <1>6, Zenon

\* What the confirmation leaves alone.
LEMMA ConfirmingIs ==
    ASSUME ReadingInv, UNCHANGED <<history, changes, sources, naming>>, reading' \in ReadingRecord,
           reading.pc \in {"read", "confirm"}, reading'.pc \in {"confirm", "end"},
           reading'.pc = "confirm" => reading'.result = "none",
           reading'.liveLedgers \subseteq Ledgers,
           \A f \in DOMAIN Blank \ {"pc", "result", "keysLeft", "liveLedgers", "live", "liveSequence", "liveCount"} :
              reading'[f] = reading[f]
    PROVE  ReadingTyped' /\ StartsBlank' /\ PagesAreFrom' /\ ClaimsComeInOrder' /\ KeptIsRecent' /\ ClaimsAreSeen'
<1>1. /\ reading'.ledgers = reading.ledgers /\ reading'.missing = reading.missing /\ reading'.claims = reading.claims
      /\ reading'.offers = reading.offers /\ reading'.lines = reading.lines /\ reading'.count = reading.count
      /\ reading'.sequence = reading.sequence /\ reading'.reference = reading.reference
      /\ reading'.cut = reading.cut /\ reading'.more = reading.more
    BY DEF Blank
<1>2. ReadingTyped' /\ StartsBlank'
    BY <1>1 DEF ReadingInv, ReadingTyped, StartsBlank, Ledgers, Tip
<1>3. PagesAreFrom' /\ ClaimsComeInOrder'
    BY <1>1 DEF ReadingInv, PagesAreFrom, ClaimsComeInOrder, EntryCount, SubEntries
<1>4. Since(reading)' = Since(reading)
    BY <1>1 DEF Since, Ledgers, Tip
<1>5. KeptIsRecent' /\ ClaimsAreSeen'
    BY <1>1, <1>4 DEF ReadingInv, KeptIsRecent, ReadingIsWhole, ClaimsAreSeen
<1> QED BY <1>2, <1>3, <1>5

LEMMA ConfirmKeeps == ASSUME ReadingInv, Confirm PROVE ReadingInv'
<1>1. /\ reading.pc = "read" /\ ~Mismatch(reading) /\ UNCHANGED <<history, changes, sources, naming>>
      /\ reading' = [reading EXCEPT !.pc = "confirm", !.keysLeft = {TheAccount} \cup Enumerated(reading)]
      /\ reading \in ReadingRecord /\ reading.ledgers \subseteq Ledgers /\ reading.liveLedgers \subseteq Ledgers
      /\ reading.result = "none"
    BY DEF Confirm, ReadingInv, ReadingTyped
<1>2. {TheAccount} \cup Enumerated(reading) \in SUBSET Nat
    BY <1>1, SnapshotAssumption DEF TheAccount, Enumerated, ReadingRecord
<1>3. /\ reading' \in ReadingRecord /\ reading'.pc = "confirm" /\ reading'.result = "none"
      /\ reading'.keysLeft = {TheAccount} \cup Enumerated(reading) /\ reading'.live = reading.live
      /\ reading'.lines = reading.lines /\ reading'.offers = reading.offers /\ reading'.count = reading.count
      /\ reading'.liveLedgers = reading.liveLedgers
      /\ \A f \in DOMAIN Blank \ {"pc", "result", "keysLeft", "liveLedgers", "live", "liveSequence", "liveCount"} :
            reading'[f] = reading[f]
    <2> DEFINE keys == {TheAccount} \cup Enumerated(reading)
    <2>1. reading' = [reading EXCEPT !.pc = "confirm", !.keysLeft = keys] /\ keys \in SUBSET Nat
        BY <1>1, <1>2
    <2> HIDE DEF keys
    <2>2. reading' \in ReadingRecord /\ reading'.keysLeft = keys
        <3>1. reading \in ReadingRecord /\ reading' = [reading EXCEPT !.pc = "confirm", !.keysLeft = keys]
              /\ keys \in SUBSET Nat
            BY <1>1, <2>1
        <3> QED BY <3>1 DEF ReadingRecord
    <2>3. keys = {TheAccount} \cup Enumerated(reading)
        BY DEF keys
    <2> QED BY <1>1, <2>1, <2>2, <2>3 DEF ReadingRecord, Blank
<1>4. ConfirmedSoFar'
    BY <1>1, <1>3 DEF ReadingInv, StartsBlank, ConfirmedSoFar, Mismatch, Enumerated
<1>5. ConfirmedIsWhole' /\ ChangedIsRecent'
    BY <1>3 DEF ConfirmedIsWhole, ChangedIsRecent
<1> QED BY <1>1, <1>3, <1>4, <1>5, ConfirmingIs DEF ReadingInv, ReadingIsWhole

LEMMA ReadKeysKeeps == ASSUME ReadingInv, ReadKeys PROVE ReadingInv'
<1>1. /\ reading.pc = "confirm" /\ UNCHANGED <<history, changes, sources, naming>>
      /\ reading \in ReadingRecord /\ reading.ledgers \subseteq Ledgers /\ reading.liveLedgers \subseteq Ledgers
      /\ reading.result = "none"
    BY DEF ReadKeys, ReadingInv, ReadingTyped
<1>2. PICK n \in Ledgers, keys \in SUBSET reading.keysLeft :
          /\ TheAccount \in reading.keysLeft => TheAccount \in keys
          /\ reading' = [reading EXCEPT
                !.keysLeft = @ \ keys,
                !.liveLedgers = @ \cup {n},
                !.live = @ \cup (keys \cap SubEntries(history[n])),
                !.liveSequence = IF TheAccount \in keys THEN history[n].sequence ELSE @,
                !.liveCount = IF TheAccount \in keys THEN EntryCount(history[n]) ELSE @]
    BY DEF ReadKeys
<1>3. n \in Nat /\ history[n] \in Accounts /\ EntryCount(history[n]) \in Nat
      /\ SubEntries(history[n]) \subseteq Nat
    BY SnapshotAssumption, LedgerIs DEF ReadingInv
<1> DEFINE found == keys \cap SubEntries(history[n])
           number == IF TheAccount \in keys THEN history[n].sequence ELSE reading.liveSequence
           count == IF TheAccount \in keys THEN EntryCount(history[n]) ELSE reading.liveCount
<1>4. found \subseteq Nat /\ number \in Nat /\ count \in Nat
    BY <1>1, <1>3 DEF ReadingRecord, Accounts
<1>5. reading' = [reading EXCEPT !.keysLeft = @ \ keys, !.liveLedgers = @ \cup {n}, !.live = @ \cup found,
                                 !.liveSequence = number, !.liveCount = count]
    BY <1>2
<1>6. /\ reading' \in ReadingRecord /\ reading'.pc = "confirm" /\ reading'.result = "none"
      /\ reading'.keysLeft = reading.keysLeft \ keys /\ reading'.liveLedgers = reading.liveLedgers \cup {n}
      /\ reading'.live = reading.live \cup found /\ reading'.liveSequence = number /\ reading'.liveCount = count
      /\ reading'.lines = reading.lines /\ reading'.offers = reading.offers /\ reading'.count = reading.count
      /\ \A f \in DOMAIN Blank \ {"pc", "result", "keysLeft", "liveLedgers", "live", "liveSequence", "liveCount"} :
            reading'[f] = reading[f]
    <2> HIDE DEF found, number, count
    <2> QED BY <1>1, <1>3, <1>4, <1>5 DEF ReadingRecord, Blank
<1>7. reading'.liveLedgers \subseteq Ledgers
    BY <1>1, <1>6
<1>8. ConfirmedSoFar'
    <2>1. ConfirmedSoFar /\ reading.keysLeft \subseteq Nat
        BY <1>1 DEF ReadingInv, ReadingRecord
    <2>2. Enumerated(reading)' = Enumerated(reading) /\ Mismatch(reading)' = Mismatch(reading)
        BY <1>6 DEF Enumerated, Mismatch
    <2>3. TheAccount \notin reading'.keysLeft =>
             \E m \in reading'.liveLedgers :
                 reading'.liveSequence = history[m].sequence /\ reading'.liveCount = EntryCount(history[m])
        BY <1>1, <1>2, <1>6, <2>1 DEF ConfirmedSoFar
    <2>4. TheAccount \notin found
        <3>1. SubEntries(history[n]) \subseteq Nat \ {0}
            BY SnapshotAssumption, LedgerIs DEF ReadingInv
        <3> QED BY <3>1 DEF TheAccount
    <2>5. /\ reading'.keysLeft \subseteq {TheAccount} \cup Enumerated(reading)
          /\ reading'.live \subseteq Enumerated(reading)
        BY <1>1, <1>6, <2>1, <2>4 DEF ConfirmedSoFar
    <2>6. \A e \in reading'.live : \E m \in reading'.liveLedgers : e \in SubEntries(history[m])
        BY <1>1, <1>6, <2>1 DEF ConfirmedSoFar
    <2>7. \A e \in Enumerated(reading) \ (reading'.live \cup reading'.keysLeft) :
              \E m \in reading'.liveLedgers : e \notin SubEntries(history[m])
        BY <1>1, <1>6, <2>1 DEF ConfirmedSoFar
    <2>8. ~Mismatch(reading)
        BY <1>1, <2>1 DEF ConfirmedSoFar
    <2>9. /\ history' = history
          /\ \A m : SubEntries(history[m])' = SubEntries(history[m])
          /\ \A m : EntryCount(history[m])' = EntryCount(history[m])
        BY <1>1 DEF SubEntries, EntryCount
    <2> QED BY <2>2, <2>3, <2>5, <2>6, <2>7, <2>8, <1>1, Zenon DEF ConfirmedSoFar, SubEntries, EntryCount
<1>9. ConfirmedIsWhole' /\ ChangedIsRecent'
    BY <1>6 DEF ConfirmedIsWhole, ChangedIsRecent
<1> QED BY <1>1, <1>6, <1>7, <1>8, <1>9, ConfirmingIs DEF ReadingInv, ReadingIsWhole

LEMMA KeysUnreadKeeps == ASSUME ReadingInv, KeysUnread PROVE ReadingInv'
<1>1. /\ reading.pc = "confirm" /\ UNCHANGED <<history, changes, sources, naming>>
      /\ reading \in ReadingRecord /\ reading.ledgers \subseteq Ledgers /\ reading.liveLedgers \subseteq Ledgers
      /\ (sources > 1 => reading.reference # 0) /\ reading' = [reading EXCEPT !.pc = "end", !.result = "unread"]
    BY DEF KeysUnread, ReadingInv, ReadingTyped
<1> DEFINE r == [reading EXCEPT !.pc = "end", !.result = "unread"]
<1>2. /\ r \in ReadingRecord /\ r.pc = "end" /\ r.result = "unread" /\ r.ledgers = reading.ledgers
      /\ r.liveLedgers = reading.liveLedgers /\ r.reference = reading.reference
    BY <1>1 DEF ReadingRecord
<1>3. reading' = r
    BY <1>1
<1> HIDE DEF r
<1> QED BY <1>1, <1>2, <1>3, EndFits

\* The verdict.  What agrees was confirmed entry by entry and by its number.
LEMMA AgreedIsWhole ==
    ASSUME ReadingInv, reading.pc = "confirm", reading.keysLeft = {}, ~Drift(reading),
           NEW n \in Ledgers, reading.liveLedgers = {n}
    PROVE  reading.sequence = history[n].sequence /\ Enumerated(reading) = SubEntries(history[n])
<1>1. ConfirmedSoFar /\ reading \in ReadingRecord
    BY DEF ReadingInv, ReadingTyped
<1>2. /\ reading.sequence = history[n].sequence /\ reading.count = EntryCount(history[n])
      /\ reading.live = Enumerated(reading)
    BY <1>1 DEF ConfirmedSoFar, Drift
<1>3. Enumerated(reading) \subseteq SubEntries(history[n])
    BY <1>1, <1>2 DEF ConfirmedSoFar
<1>4. IsFiniteSet(SubEntries(history[n])) /\ EntryCount(history[n]) \in Nat
    BY LedgerIs DEF ReadingInv
<1>5. IsFiniteSet(Enumerated(reading)) /\ Cardinality(Enumerated(reading)) \in Nat
      /\ Cardinality(Enumerated(reading)) <= EntryCount(history[n])
    BY <1>3, <1>4, FS_Subset, FS_CardinalityType DEF EntryCount
<1>6. ~(Cardinality(Enumerated(reading)) < EntryCount(history[n]))
    BY <1>1, <1>2 DEF ConfirmedSoFar, Mismatch
<1>7. Cardinality(Enumerated(reading)) = Cardinality(SubEntries(history[n]))
    BY <1>4, <1>5, <1>6 DEF EntryCount
<1> QED BY <1>2, <1>3, <1>4, <1>7, FS_Subset

\* What differs while nothing moved near the ledger asked for was read by a node that trails.
LEMMA DifferentIsRecent ==
    ASSUME ReadingInv, reading.pc = "confirm", reading.keysLeft = {}, sources > 1, ~RpcIsLate(reading),
           \A m, n \in Since(reading) :
              history[m].sequence = history[n].sequence /\ SubEntries(history[m]) = SubEntries(history[n])
    PROVE  ~Drift(reading)
<1>1. /\ reading \in ReadingRecord /\ reading.ledgers \subseteq Ledgers /\ reading.liveLedgers \subseteq Ledgers
      /\ ConfirmedSoFar /\ PagesAreFrom /\ ~reading.missing /\ reading.ledgers \subseteq Since(reading)
    BY DEF ReadingInv, ReadingTyped, KeptIsRecent
<1>2. PICK m \in reading.ledgers :
          /\ reading.sequence = history[m].sequence /\ reading.count = EntryCount(history[m])
          /\ reading.lines = history[m].lines \ Unlisted
    BY <1>1 DEF PagesAreFrom
<1>3. PICK n \in reading.liveLedgers :
          reading.liveSequence = history[n].sequence /\ reading.liveCount = EntryCount(history[n])
    BY <1>1 DEF ConfirmedSoFar
<1>4. \A l \in reading.liveLedgers : l \in Since(reading)
    <2>1. reading.ledgers \subseteq 0 .. Tip /\ Tip \in Nat /\ reading.liveLedgers \subseteq Nat
        BY <1>1, LedgerIs DEF ReadingInv, ReadingTyped, Ledgers, Tip
    <2>2. Newest(reading.ledgers) \in reading.ledgers
        BY <1>2, <2>1, NewestIs
    <2>3. ~(Oldest(reading.liveLedgers) < Newest(reading.ledgers))
        BY <1>2 DEF RpcIsLate
    <2>4. Oldest(reading.liveLedgers) \in Nat /\ \A l \in reading.liveLedgers : Oldest(reading.liveLedgers) <= l
        BY <1>3, <2>1, OldestIs
    <2>5. Newest(reading.ledgers) \in Nat /\ Newest(reading.ledgers) >= reading.reference - LedgerSpan
        BY <1>1, <2>1, <2>2 DEF Since
    <2>6. reading.reference \in Nat /\ LedgerSpan \in Nat
        BY <1>1, SnapshotAssumption DEF ReadingRecord
    <2>7. \A l \in reading.liveLedgers : l >= reading.reference - LedgerSpan
        BY <2>1, <2>3, <2>4, <2>5, <2>6
    <2> QED BY <1>1, <2>7 DEF Since
<1> DEFINE whole == SubEntries(history[m])
<1>5. \A l \in reading.ledgers \cup reading.liveLedgers :
          history[l].sequence = reading.sequence /\ SubEntries(history[l]) = whole
    BY <1>1, <1>2, <1>4
<1>6. Enumerated(reading) \subseteq whole
    BY <1>1, <1>2, <1>5 DEF Enumerated, PagesAreFrom, SubEntries
<1>7. Enumerated(reading) = whole
    <2>1. IsFiniteSet(whole) /\ EntryCount(history[m]) \in Nat
        BY <1>1, <1>2, LedgerIs DEF ReadingInv
    <2>2. ~(Cardinality(Enumerated(reading)) < EntryCount(history[m]))
        BY <1>1, <1>2 DEF ConfirmedSoFar, Mismatch
    <2> HIDE DEF whole
    <2>3. Cardinality(Enumerated(reading)) \in Nat /\ Cardinality(Enumerated(reading)) <= Cardinality(whole)
        BY <1>6, <2>1, FS_Subset, FS_CardinalityType
    <2>4. Cardinality(Enumerated(reading)) = Cardinality(whole)
        BY <2>1, <2>2, <2>3 DEF EntryCount, whole
    <2> QED BY <1>6, <2>1, <2>4, FS_Subset
<1>8. reading.live = Enumerated(reading)
    <2>1. /\ reading.live \subseteq Enumerated(reading)
          /\ \A e \in Enumerated(reading) \ reading.live :
                \E l \in reading.liveLedgers : e \notin SubEntries(history[l])
        BY <1>1 DEF ConfirmedSoFar
    <2>2. \A l \in reading.liveLedgers : SubEntries(history[l]) = Enumerated(reading)
        BY <1>5, <1>7
    <2> QED BY <2>1, <2>2
<1>9. reading.liveCount = reading.count
    BY <1>2, <1>3, <1>5 DEF EntryCount
<1> QED BY <1>3, <1>5, <1>8, <1>9 DEF Drift

LEMMA CompareKeeps == ASSUME ReadingInv, Compare PROVE ReadingInv'
<1>1. /\ reading.pc = "confirm" /\ reading.keysLeft = {} /\ UNCHANGED <<history, changes, sources, naming>>
      /\ reading \in ReadingRecord /\ reading.liveLedgers \subseteq Ledgers
    BY DEF Compare, ReadingInv, ReadingTyped
<1> DEFINE verdict == IF ~Drift(reading) THEN "confirmed" ELSE IF RpcIsLate(reading) THEN "unread" ELSE "changed"
<1>2. /\ verdict \in {"confirmed", "unread", "changed"}
      /\ reading' = [reading EXCEPT !.pc = "end", !.result = verdict]
      /\ verdict = "confirmed" => ~Drift(reading)
      /\ verdict = "changed" => Drift(reading) /\ ~RpcIsLate(reading)
    BY DEF Compare
<1> HIDE DEF verdict
<1>3. /\ reading' \in ReadingRecord /\ reading'.pc = "end" /\ reading'.result = verdict
      /\ reading'.liveLedgers = reading.liveLedgers /\ reading'.sequence = reading.sequence
      /\ reading'.lines = reading.lines /\ reading'.offers = reading.offers /\ reading'.reference = reading.reference
      /\ \A f \in DOMAIN Blank \ {"pc", "result", "keysLeft", "liveLedgers", "live", "liveSequence", "liveCount"} :
            reading'[f] = reading[f]
    BY <1>1, <1>2 DEF ReadingRecord, Blank
<1>4. Enumerated(reading)' = Enumerated(reading) /\ Since(reading)' = Since(reading) /\ Ledgers' = Ledgers
    BY <1>1, <1>3 DEF Enumerated, Since, Ledgers, Tip
<1>5. ConfirmedIsWhole'
    <2> SUFFICES ASSUME verdict = "confirmed", NEW n \in Ledgers, reading.liveLedgers = {n}
                 PROVE  reading.sequence = history[n].sequence /\ Enumerated(reading) = SubEntries(history[n])
        BY <1>1, <1>3, <1>4 DEF ConfirmedIsWhole, SubEntries
    <2> QED BY <1>1, <1>2, AgreedIsWhole
<1>6. ChangedIsRecent'
    <2> SUFFICES ASSUME verdict = "changed", sources > 1
                 PROVE  \E m, n \in Since(reading) : \/ history[m].sequence # history[n].sequence
                                                     \/ SubEntries(history[m]) # SubEntries(history[n])
        BY <1>1, <1>3, <1>4 DEF ChangedIsRecent, SubEntries
    <2> QED BY <1>1, <1>2, DifferentIsRecent
<1>7. ConfirmedSoFar'
    BY <1>3 DEF ConfirmedSoFar
<1> QED BY <1>1, <1>3, <1>5, <1>6, <1>7, ConfirmingIs DEF ReadingInv, ReadingIsWhole

LEMMA ReadingKept == ASSUME ReadingInv, [SnapshotNext]_snapshotVars PROVE ReadingInv'
<1>1. CASE UNCHANGED snapshotVars
    <2>1. history' = history /\ sources' = sources /\ reading' = reading
        BY <1>1 DEF snapshotVars
    <2>2. ReadingTyped' /\ StartsBlank' /\ PagesAreFrom'
        BY <2>1 DEF ReadingInv, ReadingTyped, StartsBlank, PagesAreFrom, Ledgers, Tip, EntryCount, SubEntries
    <2>3. ClaimsComeInOrder' /\ KeptIsRecent'
        BY <2>1 DEF ReadingInv, ClaimsComeInOrder, KeptIsRecent, Since, Ledgers, Tip
    <2>4. ConfirmedSoFar'
        BY <2>1 DEF ReadingInv, ConfirmedSoFar, Enumerated, Mismatch, EntryCount, SubEntries
    <2>5. ReadingIsWhole' /\ ChangedIsRecent'
        BY <2>1 DEF ReadingInv, ReadingIsWhole, ConfirmedIsWhole, ClaimsAreSeen, ChangedIsRecent, Since, Ledgers, Tip,
                    Enumerated, SubEntries
    <2> QED BY <2>2, <2>3, <2>4, <2>5 DEF ReadingInv
<1> QED BY <1>1, LedgerClosesKeeps, AskAccountKeeps, ReadBodyKeeps, ReadOffersKeeps, ReadClaimsKeeps, ReadFailsKeeps,
           JudgeKeeps, ConfirmKeeps, ReadKeysKeeps, KeysUnreadKeeps, CompareKeeps DEF SnapshotNext

\* Nothing that was there all along is left out of what a close is planned from, and a reading that one
\* ledger confirmed is the whole account (account-state.ts, state-drift.ts).
THEOREM ReadingsAreWhole == SnapshotSpec => []ReadingIsWhole
<1>1. ReadingInv => ReadingIsWhole
    BY DEF ReadingInv
<1> QED BY <1>1, ReadingStarts, ReadingKept, PTL DEF SnapshotSpec

\* "The account changed" is never the answer of nodes that trail (readAccountStateFrom, findStateDrift).
THEOREM ChangesAreRecent == SnapshotSpec => []ChangedIsRecent
<1>1. ReadingInv => ChangedIsRecent
    BY DEF ReadingInv
<1> QED BY <1>1, ReadingStarts, ReadingKept, PTL DEF SnapshotSpec
=============================================================================
