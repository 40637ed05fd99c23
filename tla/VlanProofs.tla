----------------------------- MODULE VlanProofs -----------------------------
(***************************************************************************)
(* BubbleSort sorts every list.  Row i finds the positions before it in    *)
(* order and, from the second row on, the greatest element just before it: *)
(* the first half of the row inserts the element at i, the comparison with *)
(* the position before it brings the greatest element to i, and the second *)
(* half of the row changes nothing.  CombineRanges and SplitRanges then    *)
(* take every sorted list to ranges and back: what their loops compute is  *)
(* shown by the least position at which it would be wrong.                 *)
(***************************************************************************)
EXTENDS VlanRanges, SequenceTheorems, FiniteSetTheorems, FunctionTheorems, WellFoundedInduction,
        TLAPS

PrefixSorted == \A a, b \in 1..N : a <= b /\ b < i => lst[a] <= lst[b]
Inserted == i <= N => \A a \in 1..N : a < j /\ a < i => lst[a] <= lst[i]
GreatestBefore == i >= 2 /\ j <= i - 1 => \A k \in 1..N : lst[k] <= lst[i - 1]
GreatestHere == i >= 2 /\ i <= N /\ j >= i => \A k \in 1..N : lst[k] <= lst[i]
FirstRow == i = 1 => \A k \in 1..N : k < j => lst[k] <= lst[1]

\* The inductive invariant of the order.
SortInv ==
    /\ SortTypeOK
    /\ PrefixSorted
    /\ Inserted
    /\ GreatestBefore
    /\ GreatestHere
    /\ FirstRow

\* The length of a given list is a natural number, and the list is a function
\* on its positions.
LEMMA GivenList ==
  ASSUME given \in Inputs
  PROVE  N \in Nat /\ given \in [1..N -> Nat]
  BY InputsAssumption DEF N

\* Initially there is no row to look back at.
LEMMA SortInvInit == SortInit => SortInv
<1> SUFFICES ASSUME SortInit PROVE SortInv
  OBVIOUS
<1>1. N \in Nat /\ given \in [1..N -> Nat]
  BY GivenList DEF SortInit
<1>2. SortTypeOK
  BY <1>1 DEF SortInit, SortTypeOK
<1>3. PrefixSorted /\ Inserted /\ GreatestBefore /\ GreatestHere /\ FirstRow
  BY <1>1 DEF SortInit, PrefixSorted, Inserted, GreatestBefore, GreatestHere, FirstRow
<1> QED
  BY <1>2, <1>3 DEF SortInv

\* Every comparison and every new row keeps the types.
LEMMA SortTypeStep == SortTypeOK /\ [SortNext]_sortVars => SortTypeOK'
<1> SUFFICES ASSUME SortTypeOK, [SortNext]_sortVars PROVE SortTypeOK'
  OBVIOUS
<1>1. N \in Nat
  BY GivenList DEF SortTypeOK
<1>2. CASE Compare
  <2>1. /\ N' = N /\ given' = given /\ i' = i /\ j' = j + 1
        /\ i \in 1..N /\ j \in 1..N /\ lst \in [1..N -> Nat] /\ perm \in [1..N -> 1..N]
    BY <1>1, <1>2 DEF Compare, SortTypeOK, N
  <2>2. lst' \in [1..N -> Nat]
    BY <1>2, <2>1 DEF Compare, Swap
  <2>3. perm' \in [1..N -> 1..N]
    BY <1>2, <2>1 DEF Compare, Swap
  <2>4. given' \in Inputs
    BY <2>1 DEF SortTypeOK
  <2>5. i' \in 1..(N + 1) /\ j' \in 1..(N + 1)
    BY <1>1, <2>1
  <2> QED
    BY <2>1, <2>2, <2>3, <2>4, <2>5 DEF SortTypeOK
<1>3. CASE NextRow
  BY <1>1, <1>3 DEF NextRow, SortTypeOK, InnerStart, N
<1>4. CASE UNCHANGED sortVars
  BY <1>4 DEF sortVars, SortTypeOK, N
<1> QED
  BY <1>2, <1>3, <1>4 DEF SortNext

\* A comparison that swaps: before position i it inserts, at i and behind it,
\* it only happens in the first row.
LEMMA SwapStep ==
  ASSUME SortInv, Compare, lst[i] < lst[j]
  PROVE  PrefixSorted' /\ Inserted' /\ GreatestBefore' /\ GreatestHere' /\ FirstRow'
<1>0. /\ N \in Nat /\ N' = N /\ i' = i /\ j' = j + 1
      /\ i \in 1..N /\ j \in 1..N /\ lst \in [1..N -> Nat]
  BY GivenList DEF SortInv, SortTypeOK, Compare, N
<1>1. /\ lst' \in [1..N -> Nat]
      /\ lst'[i] = lst[j] /\ lst'[j] = lst[i]
      /\ \A k \in 1..N : k # i /\ k # j => lst'[k] = lst[k]
  BY <1>0 DEF Compare, Swap
<1>2. j # i
  BY <1>0
<1>3. CASE j < i
  <2>1. \A a, b \in 1..N : a <= b /\ b < i => lst[a] <= lst[b]
    BY DEF SortInv, PrefixSorted
  <2>2. \A a \in 1..N : a < j => lst[a] <= lst[i]
    BY <1>0, <1>3 DEF SortInv, Inserted
  <2>3. \A k \in 1..N : lst[k] <= lst[i - 1]
    BY <1>0, <1>3 DEF SortInv, GreatestBefore
  <2>4. PrefixSorted'
    <3> SUFFICES ASSUME NEW a \in 1..N, NEW b \in 1..N, a <= b, b < i
                 PROVE  lst'[a] <= lst'[b]
      BY <1>0 DEF PrefixSorted
    <3>0. a # i /\ b # i /\ lst[a] \in Nat /\ lst[b] \in Nat /\ lst[i] \in Nat /\ lst[j] \in Nat
      BY <1>0
    <3>1. CASE a # j /\ b # j
      BY <1>1, <2>1, <3>0, <3>1
    <3>2. CASE a = j /\ b = j
      BY <1>1, <3>0, <3>2
    <3>3. CASE a # j /\ b = j
      <4>1. lst'[a] = lst[a] /\ lst'[b] = lst[i]
        BY <1>1, <3>0, <3>3
      <4>2. a < j
        BY <1>0, <3>3
      <4> QED
        BY <2>2, <4>1, <4>2
    <3>4. CASE a = j /\ b # j
      <4>1. lst'[a] = lst[i] /\ lst'[b] = lst[b]
        BY <1>1, <3>0, <3>4
      <4>2. lst[j] <= lst[b]
        BY <1>0, <2>1, <3>4
      <4> QED
        BY <3>0, <4>1, <4>2
    <3> QED
      BY <3>1, <3>2, <3>3, <3>4
  <2>5. Inserted'
    <3> SUFFICES ASSUME NEW a \in 1..N, a <= j, a < i PROVE lst'[a] <= lst'[i]
      BY <1>0 DEF Inserted
    <3>1. CASE a = j
      BY <1>0, <1>1, <3>1
    <3>2. CASE a # j
      <4>1. lst'[a] = lst[a] /\ lst'[i] = lst[j]
        BY <1>0, <1>1, <3>2
      <4> QED
        BY <1>0, <1>3, <2>1, <4>1
    <3> QED
      BY <3>1, <3>2
  <2>6. GreatestBefore'
    <3> SUFFICES ASSUME j + 1 <= i - 1, NEW k \in 1..N PROVE lst'[k] <= lst'[i - 1]
      BY <1>0 DEF GreatestBefore
    <3>1. i - 1 \in 1..N /\ lst'[i - 1] = lst[i - 1]
      BY <1>0, <1>1, <1>3
    <3>2. \E m \in 1..N : lst'[k] = lst[m]
      BY <1>0, <1>1
    <3> QED
      BY <2>3, <3>1, <3>2
  <2>7. GreatestHere'
    <3> SUFFICES ASSUME j + 1 >= i, NEW k \in 1..N PROVE lst'[k] <= lst'[i]
      BY <1>0 DEF GreatestHere
    <3>1. lst'[i] = lst[i - 1]
      BY <1>0, <1>1, <1>3
    <3>2. \E m \in 1..N : lst'[k] = lst[m]
      BY <1>0, <1>1
    <3> QED
      BY <2>3, <3>1, <3>2
  <2>8. FirstRow'
    BY <1>0, <1>3 DEF FirstRow
  <2> QED
    BY <2>4, <2>5, <2>6, <2>7, <2>8
<1>4. CASE j > i
  <2>1. i = 1
    BY <1>0, <1>4 DEF SortInv, GreatestHere
  <2>2. \A k \in 1..N : k < j => lst[k] <= lst[1]
    BY <2>1 DEF SortInv, FirstRow
  <2>3. FirstRow'
    BY <1>0, <1>1, <2>1, <2>2 DEF FirstRow
  <2> QED
    BY <1>0, <2>1, <2>3 DEF PrefixSorted, Inserted, GreatestBefore, GreatestHere
<1> QED
  BY <1>0, <1>2, <1>3, <1>4

\* A comparison that leaves the list alone.
LEMMA KeepStep ==
  ASSUME SortInv, Compare, ~(lst[i] < lst[j])
  PROVE  PrefixSorted' /\ Inserted' /\ GreatestBefore' /\ GreatestHere' /\ FirstRow'
<1>0. /\ N \in Nat /\ N' = N /\ i' = i /\ j' = j + 1 /\ lst' = lst
      /\ i \in 1..N /\ j \in 1..N /\ lst \in [1..N -> Nat]
  BY GivenList DEF SortInv, SortTypeOK, Compare, N
<1>1. lst[j] <= lst[i]
  BY <1>0
<1>2. PrefixSorted'
  BY <1>0 DEF SortInv, PrefixSorted
<1>3. Inserted'
  BY <1>0, <1>1 DEF SortInv, Inserted
<1>4. GreatestBefore'
  BY <1>0 DEF SortInv, GreatestBefore
<1>5. GreatestHere'
  <2> SUFFICES ASSUME i >= 2, j + 1 >= i, NEW k \in 1..N PROVE lst[k] <= lst[i]
    BY <1>0 DEF GreatestHere
  <2>1. CASE j >= i
    BY <1>0, <2>1 DEF SortInv, GreatestHere
  <2>2. CASE j < i
    <3>1. j = i - 1
      BY <1>0, <2>2
    <3>2. lst[k] <= lst[i - 1]
      BY <1>0, <3>1 DEF SortInv, GreatestBefore
    <3> QED
      BY <1>0, <1>1, <3>1, <3>2
  <2> QED
    BY <1>0, <2>1, <2>2
<1>6. FirstRow'
  BY <1>0, <1>1 DEF SortInv, FirstRow
<1> QED
  BY <1>2, <1>3, <1>4, <1>5, <1>6

\* A new row finds what the rows before have left.
LEMMA RowStep ==
  ASSUME SortInv, NextRow
  PROVE  PrefixSorted' /\ Inserted' /\ GreatestBefore' /\ GreatestHere' /\ FirstRow'
<1>0. /\ N \in Nat /\ N' = N /\ i' = i + 1 /\ j' = 1 /\ lst' = lst
      /\ i \in 1..N /\ j = N + 1 /\ lst \in [1..N -> Nat]
  BY GivenList DEF SortInv, SortTypeOK, NextRow, InnerStart, N
<1>1. \A a \in 1..N : a < i => lst[a] <= lst[i]
  BY <1>0 DEF SortInv, Inserted
<1>2. \A k \in 1..N : lst[k] <= lst[i]
  BY <1>0 DEF SortInv, GreatestHere, FirstRow
<1>3. PrefixSorted'
  BY <1>0, <1>1 DEF SortInv, PrefixSorted
<1>4. GreatestBefore'
  <2>1. (i + 1) - 1 = i
    BY <1>0
  <2> QED
    BY <1>0, <1>2, <2>1 DEF GreatestBefore
<1> QED
  BY <1>0, <1>3, <1>4 DEF Inserted, GreatestHere, FirstRow

LEMMA SortInvStep == SortInv /\ [SortNext]_sortVars => SortInv'
<1> SUFFICES ASSUME SortInv, [SortNext]_sortVars PROVE SortInv'
  OBVIOUS
<1>1. SortTypeOK'
  BY SortTypeStep DEF SortInv
<1>2. CASE Compare
  BY <1>1, <1>2, SwapStep, KeepStep DEF SortInv
<1>3. CASE NextRow
  BY <1>1, <1>3, RowStep DEF SortInv
<1>4. CASE UNCHANGED sortVars
  BY <1>4 DEF sortVars, SortInv, SortTypeOK, PrefixSorted, Inserted, GreatestBefore,
              GreatestHere, FirstRow, N
<1> QED
  BY <1>2, <1>3, <1>4 DEF SortNext

LEMMA SortInvAlways == SortSpec => []SortInv
<1> QED
  BY SortInvInit, SortInvStep, PTL DEF SortSpec

\* BubbleSort never reads or writes outside the list, for lists of any
\* length: its two indices stay within it as long as they are used.
THEOREM SortTypeSafe == SortSpec => []SortTypeOK
<1>1. SortInv => SortTypeOK
  BY DEF SortInv
<1> QED
  BY <1>1, SortInvAlways, PTL

\* Whatever list BubbleSort is given, it is in ascending order at the end.
THEOREM Sorts == SortSpec => []SortedAtEnd
<1>1. SortInv => SortedAtEnd
  <2> SUFFICES ASSUME SortInv, ~Sorting PROVE SortedAtEnd
    BY DEF SortedAtEnd
  <2>1. N \in Nat /\ i = N + 1
    BY GivenList DEF SortInv, SortTypeOK, Sorting
  <2> QED
    BY <2>1 DEF SortInv, PrefixSorted, SortedAtEnd
<1> QED
  BY <1>1, SortInvAlways, PTL

-----------------------------------------------------------------------------
\* The positions are exchanged together with the elements.
LEMMA KeepsInit == SortInit => KeepsElements
<1> SUFFICES ASSUME SortInit PROVE KeepsElements
  OBVIOUS
<1>1. N \in Nat
  BY GivenList DEF SortInit
<1> QED
  BY <1>1 DEF SortInit, KeepsElements

LEMMA KeepsStep ==
  SortTypeOK /\ KeepsElements /\ [SortNext]_sortVars => KeepsElements'
<1> SUFFICES ASSUME SortTypeOK, KeepsElements, [SortNext]_sortVars PROVE KeepsElements'
  OBVIOUS
<1>1. CASE UNCHANGED <<given, lst, perm>>
  BY <1>1 DEF KeepsElements, N
<1>2. CASE Compare /\ lst[i] < lst[j]
  <2>0. /\ N \in Nat /\ N' = N /\ given' = given
        /\ i \in 1..N /\ j \in 1..N /\ lst \in [1..N -> Nat] /\ perm \in [1..N -> 1..N]
    BY <1>2, GivenList DEF SortTypeOK, Compare, N
  <2>1. /\ lst'[i] = lst[j] /\ lst'[j] = lst[i]
        /\ \A k \in 1..N : k # i /\ k # j => lst'[k] = lst[k]
    BY <1>2, <2>0 DEF Compare, Swap
  <2>2. /\ perm'[i] = perm[j] /\ perm'[j] = perm[i]
        /\ \A k \in 1..N : k # i /\ k # j => perm'[k] = perm[k]
    BY <1>2, <2>0 DEF Compare, Swap
  <2>3. ASSUME NEW a \in 1..N PROVE lst'[a] = given[perm'[a]]
    <3>1. \A k \in 1..N : lst[k] = given[perm[k]]
      BY DEF KeepsElements
    <3> QED
      BY <2>0, <2>1, <2>2, <3>1
  <2>4. \A a, b \in 1..N : a # b => perm'[a] # perm'[b]
    <3>1. \A a, b \in 1..N : a # b => perm[a] # perm[b]
      BY DEF KeepsElements
    <3> SUFFICES ASSUME NEW a \in 1..N, NEW b \in 1..N, a # b PROVE perm'[a] # perm'[b]
      OBVIOUS
    <3> QED
      BY <2>0, <2>2, <3>1
  <2>5. ASSUME NEW c \in 1..N PROVE \E a \in 1..N : perm'[a] = c
    <3>1. PICK a \in 1..N : perm[a] = c
      BY DEF KeepsElements
    <3> QED
      BY <2>0, <2>2, <3>1
  <2> QED
    BY <2>0, <2>3, <2>4, <2>5 DEF KeepsElements
<1> QED
  BY <1>1, <1>2 DEF SortNext, Compare, NextRow, sortVars

\* BubbleSort neither loses nor doubles a VLAN, at any moment of the sort.
THEOREM KeepsAll == SortSpec => []KeepsElements
<1> QED
  BY SortTypeSafe, KeepsInit, KeepsStep, PTL DEF SortSpec

-----------------------------------------------------------------------------
(***************************************************************************)
(* Recursion and induction, by the least number at which they would fail.  *)
(***************************************************************************)
\* Every set of numbers has a least one.
LEMMA LeastNumber ==
  ASSUME NEW T, T \subseteq Nat, T # {}
  PROVE  \E x \in T : \A y \in T : x <= y
<1>1. \E x \in T : \A y \in T : ~(<<y, x>> \in OpToRel(<, Nat))
  BY NatLessThanWellFounded, WFMin
<1>2. \A y \in Nat, x \in Nat : y < x => <<y, x>> \in OpToRel(<, Nat)
  BY Zenon DEF OpToRel
<1>3. \E x \in T : \A y \in T : ~(y < x)
  BY <1>1, <1>2, Zenon
<1> QED
  BY <1>3, SMT

\* A set of numbers with 0 that goes on to the next one up to n has all.
LEMMA Climb ==
  ASSUME NEW n \in Nat, NEW T, 0 \in T, \A m \in 0..n : m + 1 <= n /\ m \in T => m + 1 \in T
  PROVE  \A m \in 0..n : m \in T
<1> DEFINE B == {m \in 0..n : m \notin T}
<1>1. ASSUME B # {} PROVE FALSE
  <2>1. B \subseteq Nat
    OBVIOUS
  <2>2. \E x \in B : \A y \in B : x <= y
    <3> HIDE DEF B
    <3> QED
      BY <1>1, <2>1, LeastNumber
  <2>3. PICK m \in B : \A y \in B : m <= y
    BY <2>2
  <2>4. m \in 0..n /\ m \notin T /\ m # 0
    BY <2>3
  <2>5. m - 1 \in 0..n /\ (m - 1) + 1 = m
    BY <2>4
  <2>6. m - 1 \notin B
    <3> HIDE DEF B
    <3> QED
      BY <2>3, <2>4, <2>5
  <2>7. m - 1 \in T
    BY <2>5, <2>6
  <2> QED
    BY <2>4, <2>5, <2>7
<1> QED
  BY <1>1

\* A function can be built value by value.
Built(f, n, base, G) == f[0] = base /\ \A k \in 1..n : f[k] = G[k][f[k - 1]]

LEMMA Recursion ==
  ASSUME NEW n \in Nat, NEW T, NEW base \in T, NEW G \in [1..n -> [T -> T]]
  PROVE  \E f \in [0..n -> T] : Built(f, n, base, G)
<1> DEFINE Good(m) == {f \in [0..m -> T] : f[0] = base /\ \A k \in 1..m : f[k] = G[k][f[k - 1]]}
           A == {m \in 0..n : Good(m) # {}}
<1>1. 0 \in A
  <2> DEFINE f == [k \in 0..0 |-> base]
  <2>1. f \in [0..0 -> T] /\ f[0] = base
    OBVIOUS
  <2> HIDE DEF f
  <2>2. f \in Good(0)
    BY <2>1
  <2> QED
    BY <2>2
<1>2. ASSUME NEW m \in 0..n, m + 1 <= n, m \in A PROVE m + 1 \in A
  <2>1. PICK g : g \in Good(m)
    BY <1>2
  <2>2. g \in [0..m -> T] /\ g[0] = base /\ \A k \in 1..m : g[k] = G[k][g[k - 1]]
    BY <2>1
  <2> DEFINE e == G[m + 1][g[m]]
             f == [k \in 0..(m + 1) |-> IF k = m + 1 THEN e ELSE g[k]]
  <2>3. m \in 0..m /\ m + 1 \in 1..n
    BY <1>2
  <2>4. g[m] \in T
    BY <2>2, <2>3
  <2>5. e \in T
    BY <2>3, <2>4
  <2> HIDE DEF e
  <2>6. \A k \in 0..(m + 1) : k = m + 1 \/ k \in 0..m
    BY <1>2
  <2>7. f \in [0..(m + 1) -> T] /\ f[m + 1] = e /\ \A k \in 0..m : f[k] = g[k]
    BY <1>2, <2>2, <2>5, <2>6
  <2> HIDE DEF f
  <2>8. ASSUME NEW k \in 1..(m + 1) PROVE f[k] = G[k][f[k - 1]]
    <3>1. CASE k = m + 1
      <4>1. k - 1 = m /\ f[m] = g[m]
        BY <1>2, <2>3, <2>7, <3>1
      <4> QED
        BY <2>7, <3>1, <4>1 DEF e
    <3>2. CASE k # m + 1
      <4>1. k \in 1..m /\ f[k] = g[k] /\ f[k - 1] = g[k - 1]
        BY <1>2, <2>7, <3>2
      <4> QED
        BY <2>2, <4>1
    <3> QED
      BY <3>1, <3>2
  <2>9. f[0] = base
    BY <1>2, <2>2, <2>7
  <2>10. f \in Good(m + 1)
    BY <2>7, <2>8, <2>9
  <2> QED
    BY <1>2, <2>3, <2>10
<1> HIDE DEF A
<1>3. \A m \in 0..n : m + 1 <= n /\ m \in A => m + 1 \in A
  BY <1>2
<1>4. \A m \in 0..n : m \in A
  BY <1>1, <1>3, Climb, Zenon
<1>5. n \in 0..n
  OBVIOUS
<1>6. n \in A
  BY <1>4, <1>5
<1> QED
  BY <1>6 DEF A, Built

-----------------------------------------------------------------------------
(***************************************************************************)
(* CombineRanges: the groups.                                              *)
(***************************************************************************)
\* The groups of the first k numbers begin at the positions q.
Begins(q, k) ==
    /\ q \in Seq(1..N)
    /\ \A a, b \in 1..Len(q) : a < b => q[a] < q[b]
    /\ \A m \in 1..N : m <= k /\ ~SameGroup(m) <=> \E a \in 1..Len(q) : q[a] = m

LEMMA BeginsNext ==
  ASSUME N \in Nat, NEW q, NEW k \in 0..N, k + 1 <= N, Begins(q, k)
  PROVE  Begins(IF SameGroup(k + 1) THEN q ELSE Append(q, k + 1), k + 1)
<1>0. k + 1 \in 1..N /\ q \in Seq(1..N) /\ \A m \in 1..N : m <= k + 1 <=> m <= k \/ m = k + 1
  BY DEF Begins
<1>1. CASE SameGroup(k + 1)
  BY <1>0, <1>1 DEF Begins
<1>2. CASE ~SameGroup(k + 1)
  <2> DEFINE p == Append(q, k + 1)
  <2>1. /\ p \in Seq(1..N) /\ Len(q) \in Nat /\ Len(p) = Len(q) + 1
        /\ p[Len(q) + 1] = k + 1 /\ \A a \in 1..Len(q) : p[a] = q[a]
        /\ \A a \in 1..Len(q) : q[a] \in 1..N
    BY <1>0, LenProperties, AppendProperties
  <2> HIDE DEF p
  <2>2. \A a \in 1..Len(q) : q[a] <= k
    BY <2>1 DEF Begins
  <2>3. \A a \in 1..Len(p) : a \in 1..Len(q) \/ a = Len(q) + 1
    BY <2>1
  <2>4. \A a, b \in 1..Len(p) : a < b => p[a] < p[b]
    <3> SUFFICES ASSUME NEW a \in 1..Len(p), NEW b \in 1..Len(p), a < b PROVE p[a] < p[b]
      OBVIOUS
    <3>1. a \in 1..Len(q)
      BY <2>1
    <3>2. CASE b \in 1..Len(q)
      BY <2>1, <3>1, <3>2 DEF Begins
    <3>3. CASE b = Len(q) + 1
      <4>1. p[a] = q[a] /\ q[a] \in 1..N /\ q[a] <= k /\ p[b] = k + 1
        BY <2>1, <2>2, <3>1, <3>3
      <4> QED
        BY <4>1
    <3> QED
      BY <2>3, <3>2, <3>3
  <2>5. ASSUME NEW m \in 1..N
        PROVE  m <= k + 1 /\ ~SameGroup(m) <=> \E a \in 1..Len(p) : p[a] = m
    <3>1. (\E a \in 1..Len(p) : p[a] = m) <=> (\E a \in 1..Len(q) : q[a] = m) \/ m = k + 1
      <4>1. \A a \in 1..Len(q) : a \in 1..Len(p)
        BY <2>1
      <4>2. Len(q) + 1 \in 1..Len(p)
        BY <2>1
      <4> QED
        BY <2>1, <2>3, <4>1, <4>2
    <3>2. (\E a \in 1..Len(q) : q[a] = m) <=> m <= k /\ ~SameGroup(m)
      BY DEF Begins
    <3> QED
      BY <1>0, <1>2, <3>1, <3>2
  <2>6. Begins(p, k + 1)
    BY <2>1, <2>4, <2>5 DEF Begins
  <2> QED
    BY <1>2, <2>6 DEF p
<1> QED
  BY <1>1, <1>2

\* groupby begins a group at every number that does not continue the one
\* before it, in the order of the list.
LEMMA StartsForm ==
  ASSUME N \in Nat
  PROVE  Begins(Starts, N)
<1> DEFINE G == [k \in 1..N |-> [q \in Seq(1..N) |-> IF SameGroup(k) THEN q ELSE Append(q, k)]]
           h == CHOOSE f : f = [k \in 0..N |-> IF k = 0 THEN <<>>
                                               ELSE IF SameGroup(k) THEN f[k - 1]
                                               ELSE Append(f[k - 1], k)]
<1>1. G \in [1..N -> [Seq(1..N) -> Seq(1..N)]]
  BY AppendProperties
<1>2. \A k \in 1..N : \A q \in Seq(1..N) :
         G[k][q] = IF SameGroup(k) THEN q ELSE Append(q, k)
  OBVIOUS
<1> HIDE DEF G
<1>3. PICK f \in [0..N -> Seq(1..N)] : f[0] = <<>> /\ \A k \in 1..N : f[k] = G[k][f[k - 1]]
  <2> DEFINE T == Seq(1..N)
             base == <<>>
  <2>1. base \in T /\ G \in [1..N -> [T -> T]]
    BY <1>1, EmptySeq
  <2> HIDE DEF T, base
  <2>2. \E f \in [0..N -> T] : Built(f, N, base, G)
    BY <2>1, Recursion
  <2> QED
    BY <2>2 DEF T, base, Built
<1>4. \A k \in 1..N : k - 1 \in 0..N /\ k \in 0..N /\ k # 0
  OBVIOUS
<1>5. \A k \in 1..N : f[k] = IF SameGroup(k) THEN f[k - 1] ELSE Append(f[k - 1], k)
  BY <1>2, <1>3, <1>4
<1>6. f = [k \in 0..N |-> IF k = 0 THEN <<>>
                          ELSE IF SameGroup(k) THEN f[k - 1] ELSE Append(f[k - 1], k)]
  <2>1. \A k \in 0..N : k = 0 \/ k \in 1..N
    OBVIOUS
  <2>2. \A k \in 0..N : f[k] = IF k = 0 THEN <<>>
                               ELSE IF SameGroup(k) THEN f[k - 1] ELSE Append(f[k - 1], k)
    BY <1>3, <1>4, <1>5, <2>1
  <2> QED
    BY <1>3, <2>2, Zenon
<1>7. h = [k \in 0..N |-> IF k = 0 THEN <<>>
                          ELSE IF SameGroup(k) THEN h[k - 1] ELSE Append(h[k - 1], k)]
  BY <1>6
<1>8. Starts = h[N]
  BY DEF Starts
<1> HIDE DEF h
<1>9. h[0] = <<>> /\ \A k \in 0..N : k + 1 <= N =>
         h[k + 1] = IF SameGroup(k + 1) THEN h[k] ELSE Append(h[k], k + 1)
  <2>1. h[0] = <<>>
    BY <1>7
  <2>2. ASSUME NEW k \in 0..N, k + 1 <= N
        PROVE  h[k + 1] = IF SameGroup(k + 1) THEN h[k] ELSE Append(h[k], k + 1)
    <3>1. k + 1 \in 0..N /\ k + 1 # 0 /\ (k + 1) - 1 = k
      BY <2>2
    <3> QED
      BY <1>7, <3>1
  <2> QED
    BY <2>1, <2>2
<1> DEFINE A == {k \in 0..N : Begins(h[k], k)}
<1>10. 0 \in A
  <2>1. Begins(<<>>, 0)
    BY EmptySeq DEF Begins
  <2> QED
    BY <1>9, <2>1
<1>11. ASSUME NEW k \in 0..N, k + 1 <= N, k \in A PROVE k + 1 \in A
  <2>1. Begins(IF SameGroup(k + 1) THEN h[k] ELSE Append(h[k], k + 1), k + 1)
    BY <1>11, BeginsNext
  <2>2. k + 1 \in 0..N
    BY <1>11
  <2> QED
    BY <1>9, <1>11, <2>1, <2>2
<1> HIDE DEF A
<1>12. \A k \in 0..N : k + 1 <= N /\ k \in A => k + 1 \in A
  BY <1>11
<1>13. \A k \in 0..N : k \in A
  BY <1>10, <1>12, Climb, Zenon
<1>14. N \in 0..N
  OBVIOUS
<1> QED
  BY <1>8, <1>13, <1>14 DEF A

\* A group of CombineRanges: where it begins and ends, and that its numbers
\* are consecutive.
Group(s) ==
    /\ Starts[s] \in 1..N /\ LastOf(s) \in Starts[s]..N
    /\ s = 1 => Starts[s] = 1
    /\ s < Len(Starts) => Starts[s + 1] = LastOf(s) + 1 /\ ~SameGroup(LastOf(s) + 1)
    /\ s = Len(Starts) => LastOf(s) = N
    /\ \A k \in Starts[s]..LastOf(s) : lst[k] = lst[Starts[s]] + (k - Starts[s])

\* Numbers that continue each other are consecutive.
LEMMA Consecutive ==
  ASSUME N \in Nat, lst \in [1..N -> Nat], NEW a \in 1..N, NEW b \in a..N,
         \A k \in 1..N : a < k /\ k <= b => SameGroup(k)
  PROVE  \A k \in a..b : lst[k] = lst[a] + (k - a)
<1> DEFINE A == {m \in 0..(b - a) : lst[a + m] = lst[a] + m}
<1>0. b - a \in Nat /\ lst[a] \in Nat /\ a \in Nat /\ b \in Nat
  OBVIOUS
<1>1. 0 \in A
  BY <1>0
<1>2. ASSUME NEW m \in 0..(b - a), m + 1 <= b - a, m \in A PROVE m + 1 \in A
  <2>1. /\ a + m \in 1..N /\ a + m + 1 \in 1..N /\ a < a + m + 1 /\ a + m + 1 <= b
        /\ lst[a + m] = lst[a] + m /\ m + 1 \in 0..(b - a)
    BY <1>0, <1>2
  <2>2. SameGroup(a + m + 1)
    BY <2>1
  <2>3. lst[a + m + 1] + ((a + m + 1) - 1) = lst[(a + m + 1) - 1] + (a + m + 1)
    BY <2>2 DEF SameGroup
  <2>4. (a + m + 1) - 1 = a + m /\ a + (m + 1) = a + m + 1
    BY <1>0, <1>2
  <2>5. lst[a + m + 1] \in Nat /\ lst[a + m + 1] + (a + m) = lst[a + m] + (a + m + 1)
    BY <2>1, <2>3, <2>4
  <2>6. lst[a + m + 1] = lst[a] + (m + 1)
    <3> DEFINE x == lst[a]
               y == lst[a + m]
               z == lst[a + m + 1]
    <3>1. x \in Nat /\ z \in Nat /\ y = x + m /\ z + (a + m) = y + (a + m + 1)
      BY <1>0, <2>1, <2>5
    <3> HIDE DEF x, y, z
    <3>2. z = x + (m + 1)
      BY <1>0, <3>1
    <3> QED
      BY <3>2 DEF x, z
  <2> QED
    BY <2>1, <2>4, <2>6
<1>3. \A m \in 0..(b - a) : m + 1 <= b - a /\ m \in A => m + 1 \in A
  BY <1>2
<1>4. \A m \in 0..(b - a) : m \in A
  <2> HIDE DEF A
  <2> QED
    BY <1>0, <1>1, <1>3, Climb, Zenon
<1>5. ASSUME NEW k \in a..b PROVE lst[k] = lst[a] + (k - a)
  <2>1. k - a \in 0..(b - a) /\ a + (k - a) = k
    BY <1>0
  <2>2. k - a \in A
    BY <1>4, <2>1
  <2> QED
    BY <2>1, <2>2
<1> QED
  BY <1>5

LEMMA Groups ==
  ASSUME N \in Nat, lst \in [1..N -> Nat], NEW s \in 1..Len(Starts)
  PROVE  Group(s)
<1> DEFINE q == Starts
           L == Len(q)
<1>0. Begins(q, N)
  BY StartsForm
<1> HIDE DEF q
<1>1. /\ q \in Seq(1..N) /\ L \in Nat /\ \A c \in 1..L : q[c] \in 1..N
      /\ \A c, d \in 1..L : c < d => q[c] < q[d]
      /\ \A m \in 1..N : ~SameGroup(m) <=> \E c \in 1..L : q[c] = m
  <2>1. q \in Seq(1..N)
    BY <1>0 DEF Begins
  <2>2. L \in Nat /\ \A c \in 1..L : q[c] \in 1..N
    BY <2>1, LenProperties
  <2>3. \A c, d \in 1..L : c < d => q[c] < q[d]
    BY <1>0, Zenon DEF Begins
  <2>4. \A m \in 1..N : m <= N
    OBVIOUS
  <2>5. \A m \in 1..N : m <= N /\ ~SameGroup(m) <=> \E c \in 1..L : q[c] = m
    BY <1>0, Zenon DEF Begins
  <2> QED
    BY <2>1, <2>2, <2>3, <2>4, <2>5, Zenon
<1> HIDE DEF L
<1>2. s \in 1..L
  BY DEF q, L
<1>3. LastOf(s) = IF s < L THEN q[s + 1] - 1 ELSE N
  BY DEF LastOf, q, L
<1> DEFINE a == q[s]
           b == LastOf(s)
<1>4. s < L => s + 1 \in 1..L /\ q[s + 1] \in 1..N /\ a < q[s + 1]
  <2> SUFFICES ASSUME s < L PROVE s + 1 \in 1..L /\ q[s + 1] \in 1..N /\ a < q[s + 1]
    OBVIOUS
  <2>1. s + 1 \in 1..L /\ s < s + 1
    BY <1>1, <1>2
  <2> QED
    BY <1>1, <1>2, <2>1
<1>5. a \in 1..N /\ b \in a..N
  <2>1. a \in 1..N
    BY <1>1, <1>2
  <2>2. b = IF s < L THEN q[s + 1] - 1 ELSE N
    BY <1>3
  <2> HIDE DEF a, b
  <2>3. CASE s < L
    <3> DEFINE c == q[s + 1]
    <3>1. c \in 1..N /\ a < c /\ b = c - 1
      BY <1>4, <2>2, <2>3 DEF a
    <3> HIDE DEF c
    <3> QED
      BY <2>1, <3>1
  <2>4. CASE ~(s < L)
    BY <2>1, <2>2, <2>4
  <2> QED
    BY <2>3, <2>4
<1>6. s = 1 => a = 1
  <2> SUFFICES ASSUME s = 1 PROVE a = 1
    OBVIOUS
  <2>1. 1 \in 1..N /\ ~SameGroup(1)
    BY <1>5 DEF SameGroup
  <2>2. PICK c \in 1..L : q[c] = 1
    BY <1>1, <2>1
  <2>3. CASE c = s
    BY <2>2, <2>3
  <2>4. CASE c # s
    BY <1>1, <1>2, <1>5, <2>2, <2>4
  <2> QED
    BY <2>3, <2>4
<1>7. s < L => q[s + 1] = b + 1 /\ ~SameGroup(b + 1)
  <2> SUFFICES ASSUME s < L PROVE q[s + 1] = b + 1 /\ ~SameGroup(b + 1)
    OBVIOUS
  <2>1. q[s + 1] = b + 1 /\ b + 1 \in 1..N
    BY <1>3, <1>4
  <2> QED
    BY <1>1, <1>4, <2>1
<1>8. s = L => b = N
  BY <1>1, <1>3
<1> HIDE DEF b
<1>9. ASSUME NEW k \in 1..N, a < k, k <= b PROVE SameGroup(k)
  <2> SUFFICES ASSUME ~SameGroup(k) PROVE FALSE
    OBVIOUS
  <2>1. PICK c \in 1..L : q[c] = k
    BY <1>1
  <2>2. c > s
    <3>1. c # s
      BY <1>5, <1>9, <2>1
    <3>2. c < s => q[c] < a
      BY <1>1, <1>2
    <3>3. ~(c < s)
      BY <1>5, <1>9, <2>1, <3>2
    <3> QED
      BY <1>1, <1>2, <3>1, <3>3
  <2>3. s < L /\ s + 1 \in 1..L /\ q[s + 1] = b + 1
    BY <1>1, <1>2, <1>4, <1>7, <2>2
  <2>4. CASE c = s + 1
    BY <1>5, <1>9, <2>1, <2>3, <2>4
  <2>5. CASE c # s + 1
    <3>1. s + 1 < c
      BY <1>1, <1>2, <2>2, <2>5
    <3>2. q[s + 1] < q[c]
      BY <1>1, <2>3, <3>1
    <3> QED
      BY <1>5, <1>9, <2>1, <2>3, <3>2
  <2> QED
    BY <2>4, <2>5
<1>10. \A k \in a..b : lst[k] = lst[a] + (k - a)
  <2> HIDE DEF a
  <2> QED
    BY <1>5, <1>9, Consecutive
<1> QED
  BY <1>5, <1>6, <1>7, <1>8, <1>10 DEF Group, q, L, b

-----------------------------------------------------------------------------
(***************************************************************************)
(* SplitRanges: the ranges are expanded one after the other.               *)
(***************************************************************************)
LEMMA FlattenForm ==
  ASSUME NEW S, NEW q \in Seq(Seq(S)), Len(q) # 0
  PROVE  \E f : /\ FlattenSeq(q) = f[Len(q)] /\ f[1] = q[1]
                /\ \A k \in 1..Len(q) : k # 1 => f[k] = f[k - 1] \o q[k]
<1> DEFINE L == Len(q)
           T == Seq(S)
           base == <<>>
           G == [k \in 1..L |-> [t \in T |-> t \o q[k]]]
           h == CHOOSE f : f = [k \in 1..L |-> IF k = 1 THEN q[k] ELSE f[k - 1] \o q[k]]
<1>1. L \in Nat /\ L # 0 /\ base \in T /\ \A k \in 1..L : q[k] \in T
  BY LenProperties, EmptySeq
<1>2. G \in [1..L -> [T -> T]]
  BY <1>1, ConcatProperties
<1>3. \A k \in 1..L : \A t \in T : G[k][t] = t \o q[k]
  OBVIOUS
<1>4. FlattenSeq(q) = h[L]
  BY DEF FlattenSeq
<1>5. \A t \in T : base \o t = t
  BY ConcatEmptySeq
<1> HIDE DEF L, T, base, G
<1>6. PICK g \in [0..L -> T] : Built(g, L, base, G)
  BY <1>1, <1>2, Recursion
<1>7. \A k \in 1..L : k - 1 \in 0..L /\ (k # 1 => k - 1 \in 1..L) /\ (k = 1 => k - 1 = 0)
  BY <1>1
<1>8. g[0] = base /\ \A k \in 1..L : g[k] = g[k - 1] \o q[k]
  BY <1>3, <1>6, <1>7 DEF Built
<1>9. \A k \in 1..L : g[k] = IF k = 1 THEN q[k] ELSE g[k - 1] \o q[k]
  BY <1>1, <1>5, <1>7, <1>8
<1> DEFINE f == [k \in 1..L |-> g[k]]
<1>10. f = [k \in 1..L |-> IF k = 1 THEN q[k] ELSE f[k - 1] \o q[k]]
  <2>1. \A k \in 1..L : f[k] = IF k = 1 THEN q[k] ELSE f[k - 1] \o q[k]
    BY <1>7, <1>9
  <2>2. f = [k \in 1..L |-> f[k]]
    OBVIOUS
  <2> HIDE DEF f
  <2> QED
    BY <2>1, <2>2, Zenon
<1>11. h = [k \in 1..L |-> IF k = 1 THEN q[k] ELSE h[k - 1] \o q[k]]
  <2> HIDE DEF f
  <2>1. PICK d : d = [k \in 1..L |-> IF k = 1 THEN q[k] ELSE d[k - 1] \o q[k]]
    BY <1>10, Zenon
  <2> QED
    BY <2>1
<1> HIDE DEF h
<1>12. 1 \in 1..L /\ \A k \in 1..L : h[k] = IF k = 1 THEN q[k] ELSE h[k - 1] \o q[k]
  <2>1. 1 \in 1..L
    BY <1>1
  <2> QED
    BY <1>11, <2>1, Zenon
<1>13. h[1] = q[1] /\ \A k \in 1..L : k # 1 => h[k] = h[k - 1] \o q[k]
  BY <1>12
<1> QED
  BY <1>4, <1>13 DEF L

\* What a range expands to is the part of the list that it stands for.
LEMMA ExpandGroup ==
  ASSUME N \in Nat, lst \in [1..N -> Nat], NEW s \in 1..Len(Starts)
  PROVE  LET e == Expand(Scope(s))
         IN  /\ e \in Seq(Nat) /\ Len(e) = LastOf(s) - Starts[s] + 1
             /\ \A k \in 1..Len(e) : e[k] = lst[Starts[s] + k - 1]
<1> DEFINE a == Starts[s]
           b == LastOf(s)
           r == Scope(s)
           e == Expand(r)
<1>1. /\ a \in 1..N /\ b \in a..N /\ \A k \in a..b : lst[k] = lst[a] + (k - a)
  BY Groups DEF Group
<1>2. r = IF a = b THEN <<lst[a]>> ELSE <<lst[a], lst[b]>>
  BY DEF Scope
<1> HIDE DEF a, b, r
<1>3. r[1] = lst[a] /\ r[Len(r)] = lst[b]
  <2>1. CASE a = b
    BY <1>2, <2>1
  <2>2. CASE a # b
    BY <1>2, <2>2
  <2> QED
    BY <2>1, <2>2
<1>4. lst[a] \in Nat /\ lst[b] = lst[a] + (b - a)
  BY <1>1
<1>5. r[Len(r)] - r[1] + 1 = b - a + 1 /\ b - a + 1 \in Nat
  BY <1>1, <1>3, <1>4
<1>6. e = [k \in 1..(b - a + 1) |-> lst[a] + k - 1]
  BY <1>3, <1>5 DEF Expand
<1>7. \A k \in 1..(b - a + 1) : lst[a] + k - 1 \in Nat /\ lst[a] + k - 1 = lst[a + k - 1]
  <2> SUFFICES ASSUME NEW k \in 1..(b - a + 1)
               PROVE  lst[a] + k - 1 \in Nat /\ lst[a] + k - 1 = lst[a + k - 1]
    OBVIOUS
  <2>1. a + k - 1 \in a..b /\ (a + k - 1) - a = k - 1
    BY <1>1
  <2>2. lst[a + k - 1] = lst[a] + ((a + k - 1) - a)
    BY <1>1, <2>1
  <2> QED
    BY <1>4, <2>1, <2>2
<1> HIDE DEF e
<1>8. e \in [1..(b - a + 1) -> Nat]
  BY <1>6, <1>7
<1>9. e \in Seq(Nat) /\ Len(e) = b - a + 1
  BY <1>5, <1>8, IsASeq
<1>10. \A k \in 1..Len(e) : e[k] = lst[a + k - 1]
  BY <1>6, <1>7, <1>9
<1> QED
  BY <1>9, <1>10 DEF a, b, e, r

\* Ranges that CombineRanges has made are expanded to the list again.
LEMMA SplitCombined ==
  ASSUME N \in Nat, N # 0, lst \in [1..N -> Nat],
         NEW q, q = [s \in 1..Len(Starts) |-> Expand(Scope(s))]
  PROVE  /\ FlattenSeq(q) \in Seq(Nat) /\ Len(FlattenSeq(q)) = N
         /\ \A k \in 1..N : FlattenSeq(q)[k] = lst[k]
<1> DEFINE L == Len(Starts)
<1>1. L \in Nat /\ L # 0
  <2>1. Begins(Starts, N)
    BY StartsForm
  <2>2. L \in Nat
    BY <2>1, LenProperties DEF Begins
  <2>3. 1 \in 1..N /\ ~SameGroup(1)
    BY DEF SameGroup
  <2>4. PICK c \in 1..L : Starts[c] = 1
    BY <2>1, <2>3 DEF Begins
  <2> QED
    BY <2>2, <2>4
<1>2. ASSUME NEW s \in 1..L
      PROVE  /\ q[s] \in Seq(Nat) /\ Len(q[s]) = LastOf(s) - Starts[s] + 1
             /\ \A k \in 1..Len(q[s]) : q[s][k] = lst[Starts[s] + k - 1]
             /\ Group(s)
  BY ExpandGroup, Groups
<1>3. q \in Seq(Seq(Nat)) /\ Len(q) = L
  <2> DEFINE T == Seq(Nat)
  <2>1. q \in [1..L -> T]
    BY <1>2
  <2> HIDE DEF T
  <2>2. q \in Seq(T) /\ Len(q) = L
    BY <1>1, <2>1, IsASeq
  <2> QED
    BY <2>2 DEF T
<1>4. PICK f : /\ FlattenSeq(q) = f[L] /\ f[1] = q[1]
               /\ \A k \in 1..L : k # 1 => f[k] = f[k - 1] \o q[k]
  <2>1. Len(q) # 0
    BY <1>1, <1>3
  <2>2. \E f : /\ FlattenSeq(q) = f[Len(q)] /\ f[1] = q[1]
               /\ \A k \in 1..Len(q) : k # 1 => f[k] = f[k - 1] \o q[k]
    BY <1>3, <2>1, FlattenForm, Zenon
  <2> QED
    BY <1>3, <2>2, Zenon
<1> DEFINE Right(m) == /\ f[m] \in Seq(Nat) /\ Len(f[m]) = LastOf(m)
                       /\ \A k \in 1..LastOf(m) : f[m][k] = lst[k]
           A == {m \in 0..L : m # 0 => Right(m)}
<1> HIDE DEF L
<1>5. Right(1)
  <2>1. 1 \in 1..L
    BY <1>1
  <2>2. Starts[1] = 1 /\ LastOf(1) \in 1..N
    BY <1>2, <2>1 DEF Group
  <2>3. /\ q[1] \in Seq(Nat) /\ Len(q[1]) = LastOf(1) - Starts[1] + 1
        /\ \A k \in 1..Len(q[1]) : q[1][k] = lst[Starts[1] + k - 1]
    BY <1>2, <2>1
  <2> DEFINE e == q[1]
             b == LastOf(1)
  <2>4. /\ b \in 1..N /\ e \in Seq(Nat) /\ Len(e) = b - 1 + 1
        /\ \A k \in 1..Len(e) : e[k] = lst[1 + k - 1]
    BY <2>2, <2>3
  <2> HIDE DEF b, e
  <2>5. Len(e) = b
    BY <2>4
  <2>6. \A k \in 1..b : 1 + k - 1 = k
    BY <2>4
  <2>7. \A k \in 1..b : e[k] = lst[k]
    BY <2>4, <2>5, <2>6
  <2> QED
    BY <1>4, <2>4, <2>5, <2>7 DEF b, e
<1>6. ASSUME NEW m \in 1..L, m + 1 <= L, Right(m) PROVE Right(m + 1)
  <2>1. m + 1 \in 1..L /\ m + 1 # 1 /\ (m + 1) - 1 = m /\ m < L
    <3> HIDE DEF Right
    <3> QED
      BY <1>1, <1>6
  <2> DEFINE a == LastOf(m)
             b == LastOf(m + 1)
             g == f[m]
             e == q[m + 1]
             w == g \o e
  <2>2. f[m + 1] = w
    BY <1>4, <2>1
  <2>3. /\ Starts[m + 1] = a + 1 /\ a \in 1..N /\ b \in (a + 1)..N
    <3>1. Group(m) /\ Group(m + 1)
      BY <1>2, <2>1
    <3>2. Starts[m + 1] = a + 1
      BY <2>1, <3>1 DEF Group, L
    <3>3. a \in 1..N
      BY <3>1 DEF Group
    <3>4. b \in Starts[m + 1]..N
      BY <3>1 DEF Group
    <3> QED
      BY <3>2, <3>3, <3>4
  <2>4. /\ e \in Seq(Nat) /\ Len(e) = b - (a + 1) + 1
        /\ \A k \in 1..Len(e) : e[k] = lst[(a + 1) + k - 1]
    BY <1>2, <2>1, <2>3
  <2>5. g \in Seq(Nat) /\ Len(g) = a /\ \A k \in 1..a : g[k] = lst[k]
    BY <1>6
  <2> HIDE DEF a, b, g, e
  <2>6. /\ w \in Seq(Nat) /\ Len(w) = Len(g) + Len(e)
        /\ \A k \in 1..(Len(g) + Len(e)) :
              w[k] = IF k <= Len(g) THEN g[k] ELSE e[k - Len(g)]
    BY <2>4, <2>5, ConcatProperties
  <2> HIDE DEF w
  <2>7. Len(w) = b
    BY <2>3, <2>4, <2>5, <2>6
  <2>8. ASSUME NEW k \in 1..b PROVE w[k] = lst[k]
    <3>0. k \in 1..(Len(g) + Len(e))
      BY <2>6, <2>7
    <3>1. w[k] = IF k <= a THEN g[k] ELSE e[k - a]
      BY <2>5, <2>6, <3>0
    <3>2. CASE k <= a
      BY <2>3, <2>5, <3>1, <3>2
    <3>3. CASE ~(k <= a)
      <4>1. k - a \in 1..Len(e) /\ (a + 1) + (k - a) - 1 = k
        BY <2>3, <2>4, <3>3
      <4> QED
        BY <2>4, <3>1, <3>3, <4>1
    <3> QED
      BY <3>2, <3>3
  <2> QED
    BY <2>2, <2>6, <2>7, <2>8 DEF b
<1>7. ASSUME NEW m \in 0..L, m + 1 <= L, m \in A PROVE m + 1 \in A
  <2>1. CASE m = 0
    BY <1>1, <1>5, <2>1
  <2>2. CASE m # 0
    <3>1. m \in 1..L /\ Right(m) /\ m + 1 \in 0..L
      BY <1>1, <1>7, <2>2
    <3>2. Right(m + 1)
      BY <1>6, <1>7, <3>1
    <3> QED
      BY <3>1, <3>2
  <2> QED
    BY <2>1, <2>2
<1>8. 0 \in A
  BY <1>1
<1>9. \A m \in 0..L : m \in A
  <2>1. \A m \in 0..L : m + 1 <= L /\ m \in A => m + 1 \in A
    BY <1>7
  <2> HIDE DEF A
  <2> QED
    BY <1>1, <1>8, <2>1, Climb, Zenon
<1>10. Right(L)
  <2>1. L \in 0..L
    BY <1>1
  <2>2. L \in A
    BY <1>9, <2>1
  <2> QED
    BY <1>1, <2>2
<1>11. LastOf(L) = N
  BY <1>1, <1>2 DEF Group, L
<1> QED
  BY <1>4, <1>10, <1>11

-----------------------------------------------------------------------------
(***************************************************************************)
(* The round trip.                                                         *)
(***************************************************************************)
\* What SplitRanges makes of a text.
Unfold(t) == FlattenSeq([s \in 1..Len(t) |-> Expand(t[s])])

\* The list of VLAN 1 alone, and its text.
ListOne == <<1>>
TextOne == <<ListOne>>

\* A text of CombineRanges unfolds to the sorted list, and only the list of
\* VLAN 1 alone has the text that means `no VLAN'.
Faithful(t) ==
    /\ N = 0 => t = <<>>
    /\ N # 0 => Len(Unfold(t)) = N /\ \A k \in 1..N : Unfold(t)[k] = lst[k]
    /\ t = TextOne => N = 1 /\ lst[1] = 1

\* Two ranges of a text meet at neighbours of the list that are not of one
\* group.
Separate(t) ==
    \A s \in 1..(Len(t) - 1) : \E a \in 1..N :
        /\ a + 1 \in 1..N /\ ~SameGroup(a + 1)
        /\ t[s][Len(t[s])] = lst[a] /\ t[s + 1][1] = lst[a + 1]

\* The inductive invariant of the round trip.
RangesInv ==
    /\ SortInv
    /\ KeepsElements
    /\ phase # "combine" => ~Sorting /\ Faithful(text) /\ Separate(text)
    /\ phase = "stored" =>
          back = IF text = TextOne THEN <<Dashes>> ELSE Unfold(text)
    /\ phase = "stored" => text # <<>>

\* A range begins and ends with the first and the last number of its group.
LEMMA ScopeEnds ==
  ASSUME N \in Nat, lst \in [1..N -> Nat], NEW s \in 1..Len(Starts)
  PROVE  Scope(s)[1] = lst[Starts[s]] /\ Scope(s)[Len(Scope(s))] = lst[LastOf(s)]
<1> DEFINE a == Starts[s]
           b == LastOf(s)
           r == Scope(s)
<1>1. r = IF a = b THEN <<lst[a]>> ELSE <<lst[a], lst[b]>>
  BY DEF Scope
<1> HIDE DEF a, b, r
<1>2. CASE a = b
  BY <1>1, <1>2 DEF a, b, r
<1>3. CASE a # b
  BY <1>1, <1>3 DEF a, b, r
<1> QED
  BY <1>2, <1>3

\* CombineRanges makes a faithful text of separate ranges.
LEMMA CombinedText ==
  ASSUME N \in Nat, lst \in [1..N -> Nat], NEW t, t = [s \in 1..Len(Starts) |-> Scope(s)]
  PROVE  Faithful(t) /\ Separate(t)
<1> DEFINE L == Len(Starts)
<1>1. L \in Nat /\ (N = 0 => L = 0)
  <2>1. Begins(Starts, N)
    BY StartsForm
  <2>2. Starts \in Seq(1..N)
    BY <2>1 DEF Begins
  <2>3. L \in Nat /\ \A c \in 1..L : Starts[c] \in 1..N
    BY <2>2, LenProperties
  <2> HIDE DEF L
  <2>4. ASSUME N = 0, L # 0 PROVE FALSE
    <3>1. 1 \in 1..L
      BY <2>3, <2>4
    <3> QED
      BY <2>3, <2>4, <3>1
  <2> QED
    BY <2>3, <2>4
<1>2. Len(t) = L /\ DOMAIN t = 1..L /\ \A s \in 1..L : t[s] = Scope(s)
  BY <1>1
<1>3. ASSUME NEW s \in 1..L
      PROVE  /\ Group(s)
             /\ t[s][1] = lst[Starts[s]] /\ t[s][Len(t[s])] = lst[LastOf(s)]
  BY <1>2, Groups, ScopeEnds
<1>4. N = 0 => t = <<>>
  <2> SUFFICES ASSUME N = 0 PROVE t = <<>>
    OBVIOUS
  <2>1. L = 0
    BY <1>1
  <2> QED
    BY <2>1
<1>5. N # 0 => Len(Unfold(t)) = N /\ \A k \in 1..N : Unfold(t)[k] = lst[k]
  <2> SUFFICES ASSUME N # 0 PROVE Len(Unfold(t)) = N /\ \A k \in 1..N : Unfold(t)[k] = lst[k]
    OBVIOUS
  <2> DEFINE q == [s \in 1..L |-> Expand(Scope(s))]
  <2>1. [s \in 1..Len(t) |-> Expand(t[s])] = q
    <3>1. \A s \in 1..L : Expand(t[s]) = Expand(Scope(s))
      BY <1>2, Zenon
    <3> QED
      BY <1>2, <3>1, Zenon
  <2>2. /\ Len(FlattenSeq(q)) = N /\ \A k \in 1..N : FlattenSeq(q)[k] = lst[k]
    BY SplitCombined
  <2> HIDE DEF q
  <2>3. Unfold(t) = FlattenSeq(q)
    BY <2>1, Zenon DEF Unfold
  <2> QED
    BY <2>2, <2>3
<1> HIDE DEF L
<1>6. t = TextOne => N = 1 /\ lst[1] = 1
  <2> SUFFICES ASSUME t = TextOne PROVE N = 1 /\ lst[1] = 1
    OBVIOUS
  <2>1. L = 1 /\ t[1] = ListOne /\ 1 \in 1..L
    <3>1. Len(t) = 1 /\ t[1] = ListOne
      BY DEF TextOne
    <3>2. Len(t) = L
      BY <1>2
    <3>3. 1 \in 1..1
      OBVIOUS
    <3> QED
      BY <3>1, <3>2, <3>3, Zenon
  <2>2. Starts[1] = 1 /\ LastOf(1) = N /\ N \in 1..N
    BY <1>3, <2>1 DEF Group, L
  <2>3. Scope(1) = ListOne
    BY <1>2, <2>1
  <2>4. Scope(1) = IF 1 = N THEN <<lst[1]>> ELSE <<lst[1], lst[N]>>
    BY <2>2 DEF Scope
  <2>5. N = 1
    <3> SUFFICES ASSUME N # 1 PROVE FALSE
      OBVIOUS
    <3>1. ListOne = <<lst[1], lst[N]>>
      BY <2>3, <2>4, Zenon
    <3>2. Len(ListOne) # Len(<<lst[1], lst[N]>>)
      BY DEF ListOne
    <3> QED
      BY <3>1, <3>2, Zenon
  <2>6. ListOne = <<lst[1]>>
    BY <2>3, <2>4, <2>5, Zenon
  <2> QED
    BY <2>5, <2>6 DEF ListOne
<1>7. Separate(t)
  <2> SUFFICES ASSUME NEW s \in 1..(Len(t) - 1)
               PROVE  \E a \in 1..N : /\ a + 1 \in 1..N /\ ~SameGroup(a + 1)
                                      /\ t[s][Len(t[s])] = lst[a] /\ t[s + 1][1] = lst[a + 1]
    BY DEF Separate
  <2>1. s \in 1..L /\ s + 1 \in 1..L /\ s < L
    BY <1>1, <1>2
  <2> DEFINE a == LastOf(s)
             b == Starts[s + 1]
  <2>2. a \in 1..N /\ b = a + 1 /\ b \in 1..N /\ ~SameGroup(a + 1)
    <3>1. Group(s) /\ Group(s + 1)
      BY <1>3, <2>1
    <3>2. a \in Starts[s]..N /\ Starts[s] \in 1..N
      BY <3>1 DEF Group
    <3>3. b = a + 1 /\ ~SameGroup(a + 1)
      BY <2>1, <3>1 DEF Group, L
    <3>4. b \in 1..N
      BY <3>1 DEF Group
    <3> QED
      BY <3>2, <3>3, <3>4
  <2>3. t[s][Len(t[s])] = lst[a] /\ t[s + 1][1] = lst[b]
    BY <1>3, <2>1
  <2> HIDE DEF a, b
  <2> QED
    BY <2>2, <2>3
<1> QED
  BY <1>4, <1>5, <1>6, <1>7 DEF Faithful

LEMMA RangesInvInit == RangesInit => RangesInv
  BY SortInvInit, KeepsInit DEF RangesInit, RangesInv

LEMMA RangesInvStep == RangesInv /\ [RangesNext]_rangeVars => RangesInv'
<1> SUFFICES ASSUME RangesInv, [RangesNext]_rangeVars PROVE RangesInv'
  OBVIOUS
<1>1. CASE BubbleSort
  <2>1. SortInv' /\ KeepsElements'
    <3>1. [SortNext]_sortVars
      BY <1>1 DEF BubbleSort
    <3> QED
      BY <3>1, SortInvStep, KeepsStep DEF RangesInv, SortInv
  <2>2. Sorting
    BY <1>1 DEF BubbleSort, SortNext, Compare, NextRow, Sorting
  <2>3. phase = "combine" /\ phase' = phase
    BY <1>1, <2>2 DEF RangesInv, BubbleSort
  <2> QED
    BY <2>1, <2>3 DEF RangesInv
<1>2. CASE ~BubbleSort
  <2>1. UNCHANGED <<given, lst, i, j, perm>>
    BY <1>2 DEF RangesNext, CombineRanges, Refuse, SplitRanges, rangeVars
  <2>2. SortInv' /\ KeepsElements'
    <3>1. [SortNext]_sortVars
      BY <2>1 DEF sortVars
    <3> QED
      BY <3>1, SortInvStep, KeepsStep DEF RangesInv, SortInv
  <2>3. Sorting' <=> Sorting
    BY <2>1 DEF Sorting, N
  <2>4. N' = N /\ \A t : (Faithful(t) => Faithful(t)') /\ (Separate(t) => Separate(t)')
    BY <2>1 DEF Faithful, Separate, SameGroup, N
  <2>5. CASE CombineRanges
    <3>1. N \in Nat /\ lst \in [1..N -> Nat]
      BY GivenList DEF RangesInv, SortInv, SortTypeOK
    <3>2. PICK t : t = [s \in 1..Len(Starts) |-> Scope(s)]
      OBVIOUS
    <3>3. text' = t /\ phase' = "form" /\ ~Sorting
      BY <2>5, <3>2 DEF CombineRanges
    <3>4. Faithful(t) /\ Separate(t)
      BY <3>1, <3>2, CombinedText
    <3>5. Faithful(t)' /\ Separate(t)'
      BY <2>4, <3>4
    <3>6. Faithful(text)' /\ Separate(text)'
      BY <3>3, <3>5 DEF Faithful, Separate
    <3> QED
      BY <2>2, <2>3, <3>3, <3>6 DEF RangesInv
  <2>6. CASE text' = text /\ (phase = "combine" => phase' = "combine")
    <3>1. Faithful(text) => Faithful(text)'
      BY <2>1, <2>6 DEF Faithful, N
    <3>2. Separate(text) => Separate(text)'
      BY <2>1, <2>6 DEF Separate, SameGroup, N
    <3>3. phase' = "stored" => /\ text # <<>>
                               /\ back' = IF text = TextOne THEN <<Dashes>> ELSE Unfold(text)
      <4>1. CASE SplitRanges
        BY <4>1, Zenon DEF SplitRanges, Unfold, TextOne, ListOne
      <4>2. CASE Refuse
        BY <4>2 DEF Refuse
      <4>3. CASE UNCHANGED rangeVars
        BY <4>3 DEF rangeVars, RangesInv
      <4>4. CASE CombineRanges
        BY <4>4 DEF CombineRanges
      <4> QED
        BY <1>2, <4>1, <4>2, <4>3, <4>4 DEF RangesNext
    <3> QED
      BY <2>2, <2>3, <2>6, <3>1, <3>2, <3>3 DEF RangesInv
  <2> QED
    BY <1>2, <2>5, <2>6 DEF RangesNext, Refuse, SplitRanges, rangeVars
<1> QED
  BY <1>1, <1>2

LEMMA RangesInvAlways == RangesSpec => []RangesInv
<1> QED
  BY RangesInvInit, RangesInvStep, PTL DEF RangesSpec

\* The same numbers, each as often: the permutation of the sort is a
\* bijection between the positions of a number before and after it.
LEMMA SameCounts ==
  ASSUME N \in Nat, perm \in [1..N -> 1..N], KeepsElements, NEW n
  PROVE  Cardinality({a \in 1..N : given[a] = n}) = Cardinality({a \in 1..N : lst[a] = n})
<1> DEFINE S == {a \in 1..N : lst[a] = n}
           T == {a \in 1..N : given[a] = n}
           F == [a \in S |-> perm[a]]
<1>1. IsFiniteSet(S)
  <2>1. IsFiniteSet(1..N)
    BY FS_Interval
  <2>2. S \in SUBSET (1..N)
    OBVIOUS
  <2> HIDE DEF S
  <2> QED
    BY <2>1, <2>2, FS_Subset
<1>2. F \in [S -> T]
  BY DEF KeepsElements
<1>3. \A a, b \in S : F[a] = F[b] => a = b
  BY DEF KeepsElements
<1>4. ASSUME NEW c \in T PROVE \E a \in S : F[a] = c
  <2>1. PICK a \in 1..N : perm[a] = c
    BY DEF KeepsElements
  <2>2. a \in S
    BY <2>1 DEF KeepsElements
  <2> QED
    BY <2>1, <2>2
<1> HIDE DEF S, T, F
<1>5. F \in Bijection(S, T)
  BY <1>2, <1>3, <1>4, Fun_IsBij
<1>6. Cardinality(T) = Cardinality(S)
  BY <1>1, <1>5, FS_Bijection DEF ExistsBijection
<1> QED
  BY <1>6 DEF S, T

\* Whatever VLANs a user has, BubbleSort, CombineRanges and SplitRanges give
\* them back, each as often as before, when the form is saved unchanged;
\* VLAN 1 alone is the one exception.
THEOREM RangesSurvive == RangesSpec => []RoundTrip
<1>1. RangesInv => RoundTrip
  <2> SUFFICES ASSUME RangesInv, phase = "stored", given # ListOne
               PROVE  /\ Len(back) = N
                      /\ \A n : Cardinality({a \in 1..N : given[a] = n})
                                = Cardinality({a \in 1..N : back[a] = n})
    BY DEF RoundTrip, ListOne
  <2>1. N \in Nat /\ perm \in [1..N -> 1..N] /\ KeepsElements /\ given \in [1..N -> Nat]
    BY GivenList DEF RangesInv, SortInv, SortTypeOK
  <2>2. text # <<>> /\ Faithful(text)
    BY DEF RangesInv
  <2>3. text # TextOne
    <3> SUFFICES ASSUME text = TextOne PROVE FALSE
      OBVIOUS
    <3>1. N = 1 /\ lst[1] = 1
      BY <2>2 DEF Faithful
    <3>2. 1 \in 1..N /\ perm[1] = 1
      BY <2>1, <3>1
    <3>3. given[1] = 1
      BY <2>1, <3>1, <3>2 DEF KeepsElements
    <3>4. given = ListOne
      BY <2>1, <3>1, <3>3 DEF ListOne
    <3> QED
      BY <3>4
  <2>4. back = Unfold(text) /\ N # 0
    BY <2>2, <2>3 DEF RangesInv, Faithful
  <2>5. Len(back) = N /\ \A k \in 1..N : back[k] = lst[k]
    BY <2>2, <2>4 DEF Faithful
  <2>6. ASSUME NEW n PROVE Cardinality({a \in 1..N : given[a] = n})
                           = Cardinality({a \in 1..N : back[a] = n})
    <3>1. {a \in 1..N : back[a] = n} = {a \in 1..N : lst[a] = n}
      BY <2>5
    <3>2. Cardinality({a \in 1..N : given[a] = n}) = Cardinality({a \in 1..N : lst[a] = n})
      BY <2>1, SameCounts
    <3> QED
      BY <3>1, <3>2, Zenon
  <2> QED
    BY <2>5, <2>6
<1> QED
  BY <1>1, RangesInvAlways, PTL

\* The ranges shown in the form are the longest: two of them never touch
\* when no VLAN is given twice.
THEOREM RangesAreMaximal == RangesSpec => []RangesMaximal
<1>1. RangesInv => RangesMaximal
  <2> SUFFICES ASSUME RangesInv, phase = "form", IsInjective(given),
                      NEW s \in 1..(Len(text) - 1)
               PROVE  text[s][Len(text[s])] + 1 < text[s + 1][1]
    BY DEF RangesMaximal
  <2>1. /\ N \in Nat /\ i \in 1..(N + 1) /\ ~Sorting /\ Separate(text) /\ KeepsElements
        /\ lst \in [1..N -> Nat] /\ perm \in [1..N -> 1..N] /\ given \in [1..N -> Nat]
    BY GivenList DEF RangesInv, SortInv, SortTypeOK
  <2>2. PICK a \in 1..N : /\ a + 1 \in 1..N /\ ~SameGroup(a + 1)
                          /\ text[s][Len(text[s])] = lst[a] /\ text[s + 1][1] = lst[a + 1]
    BY <2>1 DEF Separate
  <2> DEFINE x == lst[a]
             y == lst[a + 1]
  <2>3. x <= y
    BY <2>1, <2>2 DEF RangesInv, SortInv, PrefixSorted, Sorting
  <2>4. x # y
    <3>1. perm[a] # perm[a + 1]
      BY <2>1, <2>2 DEF KeepsElements
    <3>2. x = given[perm[a]] /\ y = given[perm[a + 1]]
      BY <2>1, <2>2 DEF KeepsElements
    <3>3. perm[a] \in DOMAIN given /\ perm[a + 1] \in DOMAIN given
      BY <2>1, <2>2
    <3> QED
      BY <3>1, <3>2, <3>3 DEF IsInjective
  <2>5. y # x + 1
    BY <2>1, <2>2 DEF SameGroup
  <2> HIDE DEF x, y
  <2>6. x \in Nat /\ y \in Nat
    BY <2>1, <2>2 DEF x, y
  <2>7. x + 1 < y
    BY <2>3, <2>4, <2>5, <2>6
  <2> QED
    BY <2>2, <2>7 DEF x, y
<1> QED
  BY <1>1, RangesInvAlways, PTL
=============================================================================
