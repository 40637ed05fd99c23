----------------------------- MODULE VlanRanges -----------------------------
(***************************************************************************)
(* The VLANs of a user on their way through the page usersetting.  When a  *)
(* user has been added or edited the list in the database becomes a text   *)
(* of ranges (CombineRanges), which is shown in the form; sent back as it  *)
(* is, in an edit, it becomes a list again (SplitRanges).  A text          *)
(* `104-106,911' is <<<<104, 106>>, <<911>>>>.                             *)
(***************************************************************************)
EXTENDS VlanSort, SequencesExt

CONSTANT Dashes      \* the text '--'

VARIABLES
    phase,
    text,        \* the ranges
    back         \* the list that is stored

rangeVars == <<given, lst, i, j, perm, phase, text, back>>

RangesInit ==
    /\ SortInit
    /\ phase = "combine"
    /\ text = <<>>
    /\ back = <<>>

-----------------------------------------------------------------------------
BugKeyIsSum(k) == k > 1 /\ lst[k] + k = lst[k - 1] + (k - 1)
\* groupby: an element is in the group of its predecessor if the differences
\* of value and index are equal.
SameGroup(k) == k > 1 /\ lst[k] + (k - 1) = lst[k - 1] + k

\* The positions at which a group begins.
Starts ==
    LET starts[k \in 0..N] ==
            IF k = 0 THEN <<>>
            ELSE IF SameGroup(k) THEN starts[k - 1]
            ELSE Append(starts[k - 1], k)
    IN  starts[N]
LastOf(s) == IF s < Len(Starts) THEN Starts[s + 1] - 1 ELSE N

\* A group of one is a number, a longer one a range from its least to its
\* greatest member.
Scope(s) ==
    IF Starts[s] = LastOf(s) THEN <<lst[Starts[s]]>> ELSE <<lst[Starts[s]], lst[LastOf(s)]>>

CombineRanges ==
    /\ phase = "combine" /\ ~Sorting
    /\ text' = [s \in 1..Len(Starts) |-> Scope(s)]
    /\ phase' = "form"
    /\ UNCHANGED <<given, lst, i, j, perm, back>>

\* An empty field is refused.
Refuse ==
    /\ phase = "form" /\ text = <<>>
    /\ phase' = "refused"
    /\ UNCHANGED <<given, lst, i, j, perm, text, back>>

BugRangeOpen(r) == [k \in 1..(r[Len(r)] - r[1]) |-> r[1] + k - 1]
\* range(first, last + 1), where a single number is first and last.
Expand(r) == [k \in 1..(r[Len(r)] - r[1] + 1) |-> r[1] + k - 1]

SplitRanges ==
    /\ phase = "form" /\ text # <<>>
    /\ back' = IF text = <<<<1>>>> THEN <<Dashes>>
               ELSE FlattenSeq([s \in 1..Len(text) |-> Expand(text[s])])
    /\ phase' = "stored"
    /\ UNCHANGED <<given, lst, i, j, perm, text>>

BubbleSort == SortNext /\ UNCHANGED <<phase, text, back>>

RangesNext == BubbleSort \/ CombineRanges \/ Refuse \/ SplitRanges

RangesSpec == RangesInit /\ [][RangesNext]_rangeVars

-----------------------------------------------------------------------------
(***************************************************************************)
(* Properties.                                                             *)
(***************************************************************************)

\* Saving the form unchanged stores the VLANs that were there, each as often
\* as it was there.  The one exception is VLAN 1 alone, whose text means `no
\* VLAN' to SplitRanges.
RoundTrip ==
    phase = "stored" /\ given # <<1>> =>
        /\ Len(back) = N
        /\ \A n \in Range(given) \cup Range(back) :
              Cardinality({a \in 1..N : given[a] = n}) = Cardinality({a \in 1..N : back[a] = n})

\* The text is the shortest one: for a list without repetitions no two ranges
\* touch, so adjacent ranges have been joined.
RangesMaximal ==
    phase = "form" /\ IsInjective(given) =>
        \A s \in 1..(Len(text) - 1) : text[s][Len(text[s])] + 1 < text[s + 1][1]
=============================================================================
