------------------------------ MODULE VlanSort ------------------------------
(***************************************************************************)
(* BubbleSort of app/lib/dbcollect.py.  Its inner loop is meant to begin   *)
(* at i + 1 but runs over the whole list, and it swaps when the element at *)
(* i is the smaller one; the comment calls the order ascending.  One step  *)
(* is one comparison; positions count from 1.                              *)
(***************************************************************************)
EXTENDS Naturals, Sequences

CONSTANT Inputs      \* lists of VLAN numbers, after ConventInt

ASSUME InputsAssumption == Inputs \subseteq Seq(Nat)

VARIABLES
    given,      \* the list as it was
    lst,        \* the list that is sorted in place
    i, j,       \* the two loop variables
    perm        \* history: where the element at each position came from

sortVars == <<given, lst, i, j, perm>>

N == Len(given)

\* The type invariant.
SortTypeOK ==
    /\ given \in Inputs
    /\ lst \in [1..N -> Nat]
    /\ i \in 1..(N + 1)
    /\ j \in 1..(N + 1)
    /\ perm \in [1..N -> 1..N]

SortInit ==
    /\ given \in Inputs
    /\ lst = given
    /\ i = 1
    /\ j = 1
    /\ perm = [k \in 1..N |-> k]

\* Variants named Bug... are what the code would be with one mistake in it;
\* they show that the properties can fail, and no action uses them.
BugSwapOverwrites(f, a, b) == [f EXCEPT ![a] = f[b]]
Swap(f, a, b) == [f EXCEPT ![a] = f[b], ![b] = f[a]]

BugInnerFromOuter == i + 2
BugSkipsFirst == 2
\* range(len(lst)): the assignment j = i + 1 before the loop has no effect.
InnerStart == 1

Compare ==
    /\ i <= N /\ j <= N
    /\ IF lst[i] < lst[j]
       THEN lst' = Swap(lst, i, j) /\ perm' = Swap(perm, i, j)
       ELSE UNCHANGED <<lst, perm>>
    /\ j' = j + 1
    /\ UNCHANGED <<given, i>>

NextRow ==
    /\ i <= N /\ j > N
    /\ i' = i + 1
    /\ j' = InnerStart
    /\ UNCHANGED <<given, lst, perm>>

SortNext == Compare \/ NextRow

SortSpec == SortInit /\ [][SortNext]_sortVars

Sorting == i <= N

-----------------------------------------------------------------------------
(***************************************************************************)
(* Properties.                                                             *)
(***************************************************************************)

\* When the loops have ended, the list is in ascending order, in spite of the
\* comparison and of an inner loop that starts over from the beginning.
SortedAtEnd ==
    ~Sorting => \A a, b \in 1..N : a <= b => lst[a] <= lst[b]

\* At every moment the list holds the numbers it was given, none lost and none
\* doubled: each position has one origin and each origin has a position.
KeepsElements ==
    /\ \A a \in 1..N : lst[a] = given[perm[a]]
    /\ \A a, b \in 1..N : a # b => perm[a] # perm[b]
    /\ \A c \in 1..N : \E a \in 1..N : perm[a] = c
=============================================================================
