--------------------------- MODULE CountersProofs ---------------------------
(***************************************************************************)
(* The totals of the dashboard are never too large by more than the calls  *)
(* that a recount has met between their log document and their total, for  *)
(* any number of requests and outages, and of calls that overlap at least  *)
(* one that writes its total stays counted.                                *)
(*                                                                         *)
(* The argument is an account per total: every call that has begun and has *)
(* not yet written its total (Waiting) keeps one unit of `started' in      *)
(* reserve.  The value that a call has read, and the number that a recount *)
(* has found, leave the reserves of all waiting calls untouched, so that   *)
(* writing it, however late, cannot use up what belongs to another.        *)
(*                                                                         *)
(* For the lower bound, a call that is about to write has read at least    *)
(* the floor there was before the first of the calls it overlaps with      *)
(* wrote: it owes at most one.                                             *)
(***************************************************************************)
EXTENDS Counters, FiniteSetTheorems, TLAPS

\* 1 if a call in state n waits to be counted in total f.
Waits(n, f) == IF n.step \in Pending /\ n.field = f THEN 1 ELSE 0
\* 1 if, in addition, its log document is not in the database.
Misses(n, f) == IF n.step \in Pending /\ n.field = f /\ ~n.logged THEN 1 ELSE 0

WaitingSet(f) == {q \in Requests : Waits(cnt[q], f) = 1}
MissingSet(f) == {q \in Requests : Misses(cnt[q], f) = 1}
Waiting == [f \in Fields |-> Cardinality(WaitingSet(f))]
Missing == [f \in Fields |-> Cardinality(MissingSet(f))]

TotalsInv == \A f \in Fields : totals[f] + Waiting[f] <= started[f] + slack[f]
SeenInv ==
    \A q \in Requests, f \in Fields :
        cnt[q].step \in {"update", "total"} /\ cnt[q].field = f =>
            cnt[q].seen + Waiting[f] <= started[f] + slack[f]
LogInv == \A f \in Fields : configlog[f] + Missing[f] <= started[f]
FlagInv ==
    \A q \in Requests : /\ cnt[q].step \in {"off", "insert"} => ~cnt[q].logged
                        /\ cnt[q].step = "report" => cnt[q].left # 0

\* The inductive invariant of the upper bound.
CountInv == CountersTypeOK /\ TotalsInv /\ SeenInv /\ LogInv /\ FlagInv

FloorType == floor \in [Fields -> Nat] /\ counted \subseteq Fields

\* One, once a call of the overlap has raised the floor.
Owed(f) == IF f \in counted THEN 1 ELSE 0

ReadInv ==
    \A q \in Requests, f \in Fields :
        cnt[q].step = "update" /\ cnt[q].field = f => floor[f] <= cnt[q].seen + Owed(f)

\* The inductive invariant of the lower bound.
FloorInv == TotalsKept /\ ReadInv

-----------------------------------------------------------------------------
(***************************************************************************)
(* Counting.                                                               *)
(***************************************************************************)
\* How the number of the requests with a property changes with one request.
LEMMA CountOne ==
  ASSUME NEW R, IsFiniteSet(R), NEW r \in R, NEW A, NEW B, A \subseteq R, B \subseteq R,
         A \ {r} = B \ {r}
  PROVE  /\ Cardinality(A) \in Nat /\ Cardinality(B) \in Nat
         /\ Cardinality(B) = Cardinality(A) - (IF r \in A THEN 1 ELSE 0)
                                            + (IF r \in B THEN 1 ELSE 0)
<1>1. IsFiniteSet(A) /\ IsFiniteSet(B)
  BY FS_Subset
<1>2. Cardinality(A) \in Nat /\ Cardinality(B) \in Nat
  BY <1>1, FS_CardinalityType
<1>3. CASE (r \in A) <=> (r \in B)
  <2>1. A = B
    BY <1>3
  <2> QED
    BY <1>2, <2>1
<1>4. CASE r \in A /\ r \notin B
  <2>1. B = A \ {r}
    BY <1>4
  <2>2. Cardinality(B) = Cardinality(A) - 1
    BY <1>1, <1>4, <2>1, FS_RemoveElement
  <2> QED
    BY <1>2, <1>4, <2>2
<1>5. CASE r \notin A /\ r \in B
  <2>1. B = A \cup {r}
    BY <1>5
  <2>2. Cardinality(B) = Cardinality(A) + 1
    BY <1>1, <1>5, <2>1, FS_AddElement
  <2> QED
    BY <1>2, <1>5, <2>2
<1> QED
  BY <1>3, <1>4, <1>5

\* The reserves are natural numbers, and the calls that wait are those in the
\* log and those that are not.
LEMMA Reserves ==
  ASSUME CountersTypeOK
  PROVE  /\ Waiting \in [Fields -> Nat] /\ Missing \in [Fields -> Nat]
         /\ \A f \in Fields : Waiting[f] = Missing[f] + Cardinality(Logged(f))
         /\ \A f \in Fields : Cardinality(Logged(f)) \in Nat
<1> SUFFICES ASSUME NEW f \in Fields
             PROVE  /\ Cardinality(WaitingSet(f)) \in Nat
                    /\ Cardinality(MissingSet(f)) \in Nat
                    /\ Cardinality(Logged(f)) \in Nat
                    /\ Cardinality(WaitingSet(f)) =
                          Cardinality(MissingSet(f)) + Cardinality(Logged(f))
  BY DEF Waiting, Missing
<1>1. /\ WaitingSet(f) = MissingSet(f) \cup Logged(f)
      /\ MissingSet(f) \cap Logged(f) = {}
  BY DEF WaitingSet, MissingSet, Logged, Active, Waits, Misses, CountersTypeOK, Counting
<1>2. IsFiniteSet(WaitingSet(f)) /\ IsFiniteSet(MissingSet(f)) /\ IsFiniteSet(Logged(f))
  BY CountersAssumption, FS_Subset DEF WaitingSet, MissingSet, Logged, Active
<1>3. /\ Cardinality(WaitingSet(f)) \in Nat /\ Cardinality(MissingSet(f)) \in Nat
      /\ Cardinality(Logged(f)) \in Nat
  BY <1>2, FS_CardinalityType
<1>4. MissingSet(f) \cap Logged(f) = {} => Cardinality(MissingSet(f) \cap Logged(f)) = 0
  BY FS_EmptySet
<1>5. Cardinality(MissingSet(f) \cup Logged(f)) =
         Cardinality(MissingSet(f)) + Cardinality(Logged(f))
                                    - Cardinality(MissingSet(f) \cap Logged(f))
  BY <1>2, FS_Union
<1> QED
  BY <1>1, <1>3, <1>4, <1>5

\* A step of one request changes the reserves by what that request waits for.
LEMMA ReserveStep ==
  ASSUME CountersTypeOK, NEW r \in Requests, NEW n \in Counting,
         cnt' = [cnt EXCEPT ![r] = n]
  PROVE  /\ Waiting' \in [Fields -> Nat] /\ Missing' \in [Fields -> Nat]
         /\ \A f \in Fields :
               /\ Waiting'[f] = Waiting[f] - Waits(cnt[r], f) + Waits(n, f)
               /\ Missing'[f] = Missing[f] - Misses(cnt[r], f) + Misses(n, f)
<1>0. /\ cnt \in [Requests -> Counting] /\ cnt' \in [Requests -> Counting]
      /\ cnt'[r] = n /\ \A q \in Requests : q # r => cnt'[q] = cnt[q]
  BY DEF CountersTypeOK
<1>1. ASSUME NEW f \in Fields
      PROVE  /\ Cardinality(WaitingSet(f)') \in Nat
             /\ Cardinality(WaitingSet(f)') =
                   Cardinality(WaitingSet(f)) - Waits(cnt[r], f) + Waits(n, f)
  <2> DEFINE A == {q \in Requests : Waits(cnt[q], f) = 1}
             B == {q \in Requests : Waits(cnt'[q], f) = 1}
  <2>1. A \ {r} = B \ {r}
    BY <1>0
  <2>2. /\ (r \in A) <=> (Waits(cnt[r], f) = 1)
        /\ (r \in B) <=> (Waits(n, f) = 1)
    BY <1>0
  <2>3. Waits(cnt[r], f) \in {0, 1} /\ Waits(n, f) \in {0, 1}
    BY DEF Waits
  <2>4. A \subseteq Requests /\ B \subseteq Requests
    OBVIOUS
  <2> HIDE DEF A, B
  <2>5. /\ Cardinality(A) \in Nat /\ Cardinality(B) \in Nat
        /\ Cardinality(B) = Cardinality(A) - (IF r \in A THEN 1 ELSE 0)
                                           + (IF r \in B THEN 1 ELSE 0)
    BY <2>1, <2>4, CountersAssumption, CountOne
  <2>6. Cardinality(B) = Cardinality(A) - Waits(cnt[r], f) + Waits(n, f)
    BY <2>2, <2>3, <2>5
  <2>7. A = WaitingSet(f) /\ B = WaitingSet(f)'
    BY DEF A, B, WaitingSet, Waits
  <2> QED
    BY <2>5, <2>6, <2>7
<1>2. ASSUME NEW f \in Fields
      PROVE  /\ Cardinality(MissingSet(f)') \in Nat
             /\ Cardinality(MissingSet(f)') =
                   Cardinality(MissingSet(f)) - Misses(cnt[r], f) + Misses(n, f)
  <2> DEFINE A == {q \in Requests : Misses(cnt[q], f) = 1}
             B == {q \in Requests : Misses(cnt'[q], f) = 1}
  <2>1. A \ {r} = B \ {r}
    BY <1>0
  <2>2. /\ (r \in A) <=> (Misses(cnt[r], f) = 1)
        /\ (r \in B) <=> (Misses(n, f) = 1)
    BY <1>0
  <2>3. Misses(cnt[r], f) \in {0, 1} /\ Misses(n, f) \in {0, 1}
    BY DEF Misses
  <2>4. A \subseteq Requests /\ B \subseteq Requests
    OBVIOUS
  <2> HIDE DEF A, B
  <2>5. /\ Cardinality(A) \in Nat /\ Cardinality(B) \in Nat
        /\ Cardinality(B) = Cardinality(A) - (IF r \in A THEN 1 ELSE 0)
                                           + (IF r \in B THEN 1 ELSE 0)
    BY <2>1, <2>4, CountersAssumption, CountOne
  <2>6. Cardinality(B) = Cardinality(A) - Misses(cnt[r], f) + Misses(n, f)
    BY <2>2, <2>3, <2>5
  <2>7. A = MissingSet(f) /\ B = MissingSet(f)'
    BY DEF A, B, MissingSet, Misses
  <2> QED
    BY <2>5, <2>6, <2>7
<1> QED
  BY <1>1, <1>2 DEF Waiting, Missing

-----------------------------------------------------------------------------
(***************************************************************************)
(* One step of one request.                                                *)
(***************************************************************************)
\* The account balances after a step of r to the state n if the step pays for
\* the reserve it takes and what it writes or has read leaves the reserves.
LEMMA Account ==
  ASSUME CountInv, NEW r \in Requests, NEW n \in Counting,
         cnt' = [cnt EXCEPT ![r] = n],
         configlog' \in [Fields -> Nat], totals' \in [Fields -> Nat],
         started' \in [Fields -> Nat], slack' \in [Fields -> Nat], faults' \in 0..MaxFaults,
         FloorType',
         n.step \in {"off", "insert"} => ~n.logged,
         n.step = "report" => n.left # 0,
         \A f \in Fields :
            started[f] + slack[f] + Waits(n, f) <= started'[f] + slack'[f] + Waits(cnt[r], f),
         \A f \in Fields :
            totals'[f] + Waiting[f] + Waits(n, f) <= started'[f] + slack'[f] + Waits(cnt[r], f),
         \A f \in Fields :
            n.step \in {"update", "total"} /\ n.field = f =>
               n.seen + Waiting[f] + Waits(n, f) <= started'[f] + slack'[f] + Waits(cnt[r], f),
         \A f \in Fields :
            configlog'[f] + Missing[f] + Misses(n, f) <= started'[f] + Misses(cnt[r], f)
  PROVE  CountInv'
<1>0. /\ cnt \in [Requests -> Counting] /\ cnt' \in [Requests -> Counting]
      /\ cnt'[r] = n /\ \A q \in Requests : q # r => cnt'[q] = cnt[q]
      /\ started \in [Fields -> Nat] /\ slack \in [Fields -> Nat]
  BY DEF CountInv, CountersTypeOK
<1>1. /\ Waiting' \in [Fields -> Nat] /\ Missing' \in [Fields -> Nat]
      /\ Waiting \in [Fields -> Nat] /\ Missing \in [Fields -> Nat]
      /\ \A f \in Fields :
            /\ Waiting'[f] = Waiting[f] - Waits(cnt[r], f) + Waits(n, f)
            /\ Missing'[f] = Missing[f] - Misses(cnt[r], f) + Misses(n, f)
  BY Reserves, ReserveStep DEF CountInv
<1>2. \A f \in Fields : /\ Waits(n, f) \in {0, 1} /\ Waits(cnt[r], f) \in {0, 1}
                        /\ Misses(n, f) \in {0, 1} /\ Misses(cnt[r], f) \in {0, 1}
  BY DEF Waits, Misses
<1>3. CountersTypeOK'
  BY <1>0 DEF CountersTypeOK, FloorType
<1>4. TotalsInv'
  <2> SUFFICES ASSUME NEW f \in Fields PROVE totals'[f] + Waiting'[f] <= started'[f] + slack'[f]
    BY DEF TotalsInv
  <2> QED
    BY <1>1, <1>2
<1>5. SeenInv'
  <2> SUFFICES ASSUME NEW q \in Requests, NEW f \in Fields,
                      cnt'[q].step \in {"update", "total"}, cnt'[q].field = f
               PROVE  cnt'[q].seen + Waiting'[f] <= started'[f] + slack'[f]
    BY DEF SeenInv
  <2>1. CASE q = r
    <3>1. n.seen + Waiting[f] + Waits(n, f) <= started'[f] + slack'[f] + Waits(cnt[r], f)
      BY <1>0, <2>1
    <3>2. n.seen \in Nat /\ cnt'[q].seen = n.seen
      BY <1>0, <2>1 DEF Counting
    <3> QED
      BY <1>1, <1>2, <3>1, <3>2
  <2>2. CASE q # r
    <3>1. cnt[q].seen + Waiting[f] <= started[f] + slack[f]
      BY <1>0, <2>2 DEF CountInv, SeenInv
    <3>2. cnt[q].seen \in Nat /\ cnt'[q].seen = cnt[q].seen
      BY <1>0, <2>2 DEF Counting
    <3> QED
      BY <1>0, <1>1, <1>2, <3>1, <3>2
  <2> QED
    BY <2>1, <2>2
<1>6. LogInv'
  <2> SUFFICES ASSUME NEW f \in Fields PROVE configlog'[f] + Missing'[f] <= started'[f]
    BY DEF LogInv
  <2> QED
    BY <1>1, <1>2
<1>7. FlagInv'
  BY <1>0 DEF CountInv, FlagInv
<1> QED
  BY <1>3, <1>4, <1>5, <1>6, <1>7 DEF CountInv

\* The inequalities of the invariant, with the types they need.
LEMMA Balance ==
  ASSUME CountInv
  PROVE  /\ cnt \in [Requests -> Counting]
         /\ configlog \in [Fields -> Nat] /\ totals \in [Fields -> Nat]
         /\ started \in [Fields -> Nat] /\ slack \in [Fields -> Nat]
         /\ faults \in 0..MaxFaults
         /\ Waiting \in [Fields -> Nat] /\ Missing \in [Fields -> Nat]
         /\ \A f \in Fields : totals[f] + Waiting[f] <= started[f] + slack[f]
         /\ \A f \in Fields : configlog[f] + Missing[f] <= started[f]
  BY Reserves DEF CountInv, CountersTypeOK, TotalsInv, LogInv

LEMMA FaultType ==
  ASSUME faults \in 0..MaxFaults, Fault \/ NoFault
  PROVE  faults' \in 0..MaxFaults
  BY CountersAssumption DEF Fault, NoFault

-----------------------------------------------------------------------------
(***************************************************************************)
(* The actions.                                                            *)
(***************************************************************************)
\* A call begins on total g.
LEMMA BeginStep ==
  ASSUME CountInv, FloorType', NEW r \in Requests, NEW g \in Fields, NEW n \in Counting,
         cnt[r].step \notin Pending, cnt' = [cnt EXCEPT ![r] = n],
         n.step \in {"insert", "find"}, n.field = g, n.logged = FALSE,
         Begin(g), faults' \in 0..MaxFaults
  PROVE  CountInv'
<1>1. \A f \in Fields : /\ Waits(cnt[r], f) = 0 /\ Misses(cnt[r], f) = 0
                        /\ Waits(n, f) = (IF f = g THEN 1 ELSE 0)
                        /\ Misses(n, f) = (IF f = g THEN 1 ELSE 0)
  BY DEF Waits, Misses, Pending
<1>2. /\ started' \in [Fields -> Nat] /\ UNCHANGED <<configlog, totals, slack>>
      /\ \A f \in Fields : started'[f] = started[f] + (IF f = g THEN 1 ELSE 0)
  BY Balance DEF Begin
<1>3. /\ \A f \in Fields :
            started[f] + slack[f] + Waits(n, f) <= started'[f] + slack'[f] + Waits(cnt[r], f)
      /\ \A f \in Fields :
            totals'[f] + Waiting[f] + Waits(n, f) <= started'[f] + slack'[f] + Waits(cnt[r], f)
      /\ \A f \in Fields :
            configlog'[f] + Missing[f] + Misses(n, f) <= started'[f] + Misses(cnt[r], f)
  BY <1>1, <1>2, Balance
<1> QED
  BY <1>2, <1>3, Balance, Account

LEMMA StartCountStep ==
  ASSUME CountInv, FloorType', NEW r \in Requests, NEW g \in Fields, NEW logged \in BOOLEAN,
         StartCount(r, g, logged), faults' \in 0..MaxFaults
  PROVE  CountInv'
<1> DEFINE n == [cnt[r] EXCEPT !.step = IF logged THEN "insert" ELSE "find", !.field = g]
<1>1. /\ cnt' = [cnt EXCEPT ![r] = n] /\ n \in Counting
      /\ n.step \in {"insert", "find"} /\ n.field = g /\ n.logged = FALSE
  BY Balance DEF StartCount, Counting, Pending, CountInv, FlagInv
<1>2. cnt[r].step \notin Pending /\ Begin(g)
  BY DEF StartCount, Pending
<1> HIDE DEF n
<1> QED
  BY <1>1, <1>2, BeginStep

LEMMA InsertStep ==
  ASSUME CountInv, FloorType', NEW r \in Requests, insert_log(r)
  PROVE  CountInv'
<1>0. Fault \/ NoFault
  BY DEF insert_log
<1>1. faults' \in 0..MaxFaults
  BY <1>0, Balance, FaultType
<1> DEFINE g == cnt[r].field
<1>2. g \in Fields /\ cnt[r].logged = FALSE
  BY Balance DEF insert_log, CountInv, FlagInv, Counting
<1>3. ASSUME NEW ok \in BOOLEAN,
             cnt' = [cnt EXCEPT ![r] = [cnt[r] EXCEPT !.step = "find", !.logged = ok]],
             configlog' = [configlog EXCEPT ![g] = configlog[g] + (IF ok THEN 1 ELSE 0)],
             UNCHANGED <<totals, started, slack>>
      PROVE  CountInv'
  <2> DEFINE n == [cnt[r] EXCEPT !.step = "find", !.logged = ok]
  <2>1. n \in Counting /\ n.step = "find" /\ n.field = g /\ n.logged = ok
    BY Balance DEF Counting, Pending
  <2>2. \A f \in Fields : /\ Waits(n, f) = Waits(cnt[r], f) /\ Waits(n, f) \in {0, 1}
                          /\ Misses(cnt[r], f) = (IF f = g THEN 1 ELSE 0)
                          /\ Misses(n, f) = (IF f = g /\ ~ok THEN 1 ELSE 0)
    BY <1>2, <2>1 DEF insert_log, Waits, Misses, Pending
  <2>3. cnt' = [cnt EXCEPT ![r] = n]
    BY <1>3
  <2> HIDE DEF n, g
  <2>4. /\ configlog' \in [Fields -> Nat]
        /\ \A f \in Fields : configlog'[f] = configlog[f] + (IF f = g /\ ok THEN 1 ELSE 0)
    BY <1>2, <1>3, Balance
  <2>5. /\ \A f \in Fields :
              started[f] + slack[f] + Waits(n, f) <= started'[f] + slack'[f] + Waits(cnt[r], f)
        /\ \A f \in Fields :
              totals'[f] + Waiting[f] + Waits(n, f) <= started'[f] + slack'[f] + Waits(cnt[r], f)
        /\ \A f \in Fields :
              configlog'[f] + Missing[f] + Misses(n, f) <= started'[f] + Misses(cnt[r], f)
    BY <1>3, <2>2, <2>4, Balance
  <2> QED
    BY <1>1, <1>3, <2>1, <2>3, <2>4, <2>5, Balance, Account
<1>4. CASE /\ configlog' = [configlog EXCEPT ![g] = configlog[g] + 1]
           /\ cnt' = [cnt EXCEPT ![r].step = "find", ![r].logged = TRUE]
  <2>1. cnt' = [cnt EXCEPT ![r] = [cnt[r] EXCEPT !.step = "find", !.logged = TRUE]]
    BY <1>4, Balance
  <2>2. configlog' = [configlog EXCEPT ![g] = configlog[g] + (IF TRUE THEN 1 ELSE 0)]
    BY <1>4
  <2> QED
    BY <1>3, <2>1, <2>2 DEF insert_log
<1>5. CASE cnt' = [cnt EXCEPT ![r].step = "find"] /\ UNCHANGED configlog
  <2>1. cnt' = [cnt EXCEPT ![r] = [cnt[r] EXCEPT !.step = "find", !.logged = FALSE]]
    BY <1>2, <1>5, Balance DEF Counting
  <2>2. configlog' = [configlog EXCEPT ![g] = configlog[g] + (IF FALSE THEN 1 ELSE 0)]
    BY <1>2, <1>5, Balance
  <2> QED
    BY <1>3, <2>1, <2>2 DEF insert_log
<1> QED
  BY <1>4, <1>5 DEF insert_log

\* A call that ends early, or a step after which the request waits for
\* nothing and has read nothing, only frees reserves.
LEMMA LeaveStep ==
  ASSUME CountInv, FloorType', NEW r \in Requests, NEW n \in Counting,
         cnt' = [cnt EXCEPT ![r] = n],
         n.step \in {"recount", "done"}, faults' \in 0..MaxFaults,
         UNCHANGED <<configlog, totals, started, slack>>
  PROVE  CountInv'
<1>1. \A f \in Fields : /\ Waits(n, f) = 0 /\ Misses(n, f) = 0
                        /\ Waits(cnt[r], f) \in {0, 1} /\ Misses(cnt[r], f) \in {0, 1}
  BY DEF Waits, Misses, Pending
<1>2. /\ \A f \in Fields :
            started[f] + slack[f] + Waits(n, f) <= started'[f] + slack'[f] + Waits(cnt[r], f)
      /\ \A f \in Fields :
            totals'[f] + Waiting[f] + Waits(n, f) <= started'[f] + slack'[f] + Waits(cnt[r], f)
      /\ \A f \in Fields :
            configlog'[f] + Missing[f] + Misses(n, f) <= started'[f] + Misses(cnt[r], f)
  BY <1>1, Balance
<1> QED
  BY <1>2, Balance, Account

LEMMA FindStep ==
  ASSUME CountInv, FloorType', NEW r \in Requests, find_totals(r)
  PROVE  CountInv'
<1>0. Fault \/ NoFault
  BY DEF find_totals
<1>1. faults' \in 0..MaxFaults
  BY <1>0, Balance, FaultType
<1>2. CASE cnt' = [cnt EXCEPT ![r] = NoCall("done")]
  <2>1. NoCall("done") \in Counting /\ NoCall("done").step = "done"
    BY DEF NoCall, Call, Counting, Fields
  <2> QED
    BY <1>1, <1>2, <2>1, LeaveStep DEF find_totals
<1>3. CASE cnt' = [cnt EXCEPT ![r].step = "update", ![r].seen = totals[cnt[r].field]]
  <2> DEFINE g == cnt[r].field
             n == [cnt[r] EXCEPT !.step = "update", !.seen = totals[g]]
  <2>1. /\ cnt' = [cnt EXCEPT ![r] = n] /\ n \in Counting /\ g \in Fields
        /\ n.step = "update" /\ n.field = g /\ n.logged = cnt[r].logged /\ n.seen = totals[g]
    BY <1>3, Balance DEF Counting, Pending
  <2>2. \A f \in Fields : /\ Waits(n, f) = Waits(cnt[r], f) /\ Waits(n, f) \in {0, 1}
                          /\ Misses(n, f) = Misses(cnt[r], f) /\ Misses(n, f) \in {0, 1}
    BY <2>1 DEF find_totals, Waits, Misses, Pending
  <2>3. UNCHANGED <<configlog, totals, started, slack>>
    BY DEF find_totals
  <2> HIDE DEF n, g
  <2>4. /\ \A f \in Fields :
              started[f] + slack[f] + Waits(n, f) <= started'[f] + slack'[f] + Waits(cnt[r], f)
        /\ \A f \in Fields :
              totals'[f] + Waiting[f] + Waits(n, f) <= started'[f] + slack'[f] + Waits(cnt[r], f)
        /\ \A f \in Fields :
              n.step \in {"update", "total"} /\ n.field = f =>
                 n.seen + Waiting[f] + Waits(n, f) <= started'[f] + slack'[f] + Waits(cnt[r], f)
        /\ \A f \in Fields :
              configlog'[f] + Missing[f] + Misses(n, f) <= started'[f] + Misses(cnt[r], f)
    BY <2>1, <2>2, <2>3, Balance
  <2> QED
    BY <1>1, <2>1, <2>3, <2>4, Balance, Account
<1> QED
  BY <1>2, <1>3 DEF find_totals

\* A total is written, or not because of an outage, and the request goes on
\* to a state n in which it waits for nothing.
LEMMA WriteStep ==
  ASSUME CountInv, FloorType', NEW r \in Requests, NEW n \in Counting,
         cnt' = [cnt EXCEPT ![r] = n],
         n.step \in {"recount", "report", "done"}, n.logged = FALSE,
         n.step = "report" => n.left # 0,
         totals' \in [Fields -> Nat], faults' \in 0..MaxFaults,
         \A f \in Fields : totals'[f] + Waiting[f] <= started[f] + slack[f] + Waits(cnt[r], f),
         UNCHANGED <<configlog, started, slack>>
  PROVE  CountInv'
<1>1. \A f \in Fields : /\ Misses(n, f) = 0 /\ Waits(n, f) = 0
                        /\ Waits(cnt[r], f) \in {0, 1} /\ Misses(cnt[r], f) \in {0, 1}
  BY DEF Waits, Misses, Pending
<1>2. /\ \A f \in Fields :
            started[f] + slack[f] + Waits(n, f) <= started'[f] + slack'[f] + Waits(cnt[r], f)
      /\ \A f \in Fields :
            totals'[f] + Waiting[f] + Waits(n, f) <= started'[f] + slack'[f] + Waits(cnt[r], f)
      /\ \A f \in Fields :
            configlog'[f] + Missing[f] + Misses(n, f) <= started'[f] + Misses(cnt[r], f)
  BY <1>1, Balance
<1> QED
  BY <1>2, Balance, Account

\* The states a request goes on to.
LEMMA CallShape ==
  ASSUME NEW m \in 0..3
  PROVE  /\ \A s \in {"find", "report"} :
               LET n == Call(s, "effective", m)
               IN  /\ n \in Counting /\ n.step = s /\ n.field = "effective"
                   /\ n.logged = FALSE /\ n.left = m
         /\ LET n == Call("recount", "invalid", 0)
            IN  n \in Counting /\ n.step = "recount" /\ n.logged = FALSE
  BY DEF Counting, Pending, Call, Fields

\* Where a request goes after it has written a total.
LEMMA UpdateShape ==
  ASSUME CountInv, NEW r \in Requests, AfterUpdate(r)
  PROVE  \E n \in Counting : /\ cnt' = [cnt EXCEPT ![r] = n]
                             /\ n.step \in {"report", "done"} /\ n.logged = FALSE
                             /\ n.step = "report" => n.left # 0
<1>0. cnt[r].left \in 0..3
  BY Balance DEF Counting
<1>1. CASE cnt' = [cnt EXCEPT ![r] = NoCall("done")]
  <2>1. NoCall("done") \in Counting /\ NoCall("done").step = "done" /\ NoCall("done").logged = FALSE
    BY DEF NoCall, Call, Counting, Fields
  <2> QED
    BY <1>1, <2>1
<1>2. CASE /\ cnt[r].left # 0
           /\ cnt' = [cnt EXCEPT ![r] = Call("report", "effective", cnt[r].left)]
  <2>1. cnt' = [cnt EXCEPT ![r] = Call("report", "effective", cnt[r].left)] /\ "effective" \in Fields
    BY <1>2 DEF Fields
  <2>2. PICK n : n = Call("report", "effective", cnt[r].left)
    OBVIOUS
  <2>3. n \in Counting /\ n.step = "report" /\ n.logged = FALSE /\ n.left = cnt[r].left
    BY <1>0, <2>2, CallShape, Zenon
  <2>4. cnt' = [cnt EXCEPT ![r] = n]
    BY <2>1, <2>2
  <2> QED
    BY <1>2, <2>3, <2>4
<1> QED
  BY <1>1, <1>2 DEF AfterUpdate

LEMMA WriteShape ==
  ASSUME CountInv, NEW r \in Requests, write_total(r)
  PROVE  \E n \in Counting : /\ cnt' = [cnt EXCEPT ![r] = n]
                             /\ n.step \in {"recount", "report"} /\ n.logged = FALSE
                             /\ n.step = "report" => n.left # 0
<1>0. "effective" \in Fields /\ "invalid" \in Fields
  BY DEF Fields
<1>1. CASE cnt' = [cnt EXCEPT ![r] = Call("recount", "invalid", 0)]
  <2>1. 0 \in 0..3
    OBVIOUS
  <2>2. /\ Call("recount", "invalid", 0) \in Counting
        /\ Call("recount", "invalid", 0).step = "recount"
        /\ Call("recount", "invalid", 0).logged = FALSE
    BY <1>0, <2>1, CallShape, Zenon
  <2> QED
    BY <1>1, <2>2, Zenon
<1>2. CASE cnt' = [cnt EXCEPT ![r] = Call("report", "effective", 3)]
  <2>1. PICK m \in 0..3 : m # 0 /\ cnt' = [cnt EXCEPT ![r] = Call("report", "effective", m)]
    <3>1. 3 \in 0..3 /\ 3 # 0
      OBVIOUS
    <3> QED
      BY <1>2, <3>1, Zenon
  <2>2. PICK n : n = Call("report", "effective", m)
    OBVIOUS
  <2>3. n \in Counting /\ n.step = "report" /\ n.logged = FALSE /\ n.left = m
    BY <2>2, CallShape, Zenon
  <2>4. m # 0 /\ cnt' = [cnt EXCEPT ![r] = n]
    BY <2>1, <2>2
  <2> QED
    BY <2>3, <2>4
<1> QED
  BY <1>1, <1>2 DEF write_total

LEMMA UpdateStep ==
  ASSUME CountInv, FloorType', NEW r \in Requests, update_totals(r)
  PROVE  CountInv'
<1>0. Fault \/ NoFault
  BY DEF update_totals
<1>1. faults' \in 0..MaxFaults
  BY <1>0, Balance, FaultType
<1> DEFINE g == cnt[r].field
<1>2. /\ g \in Fields /\ cnt[r].seen \in Nat
      /\ cnt[r].seen + Waiting[g] <= started[g] + slack[g]
  BY Balance DEF update_totals, CountInv, SeenInv, Counting
<1>3. \A f \in Fields : Waits(cnt[r], f) = (IF f = g THEN 1 ELSE 0)
  BY DEF update_totals, Waits, Pending
<1>4. \/ totals' = totals
      \/ totals' = [totals EXCEPT ![g] = cnt[r].seen + 1]
  BY DEF update_totals, Incremented
<1> HIDE DEF g
<1>5. /\ totals' \in [Fields -> Nat]
      /\ \A f \in Fields : totals'[f] + Waiting[f] <= started[f] + slack[f] + Waits(cnt[r], f)
  BY <1>2, <1>3, <1>4, Balance
<1>6. PICK n \in Counting : /\ cnt' = [cnt EXCEPT ![r] = n]
                            /\ n.step \in {"report", "done"} /\ n.logged = FALSE
                            /\ n.step = "report" => n.left # 0
  BY UpdateShape DEF update_totals
<1> QED
  BY <1>1, <1>5, <1>6, WriteStep DEF update_totals

LEMMA WriteTotalStep ==
  ASSUME CountInv, FloorType', NEW r \in Requests, write_total(r)
  PROVE  CountInv'
<1>0. Fault \/ NoFault
  BY DEF write_total
<1>1. faults' \in 0..MaxFaults
  BY <1>0, Balance, FaultType
<1> DEFINE g == cnt[r].field
<1>2. /\ g \in Fields /\ cnt[r].seen \in Nat
      /\ cnt[r].seen + Waiting[g] <= started[g] + slack[g]
  BY Balance DEF write_total, CountInv, SeenInv, Counting
<1>3. \A f \in Fields : Waits(cnt[r], f) = 0
  BY DEF write_total, Waits, Pending
<1>4. \/ totals' = totals
      \/ totals' = [totals EXCEPT ![g] = cnt[r].seen]
  BY DEF write_total
<1> HIDE DEF g
<1>5. /\ totals' \in [Fields -> Nat]
      /\ \A f \in Fields : totals'[f] + Waiting[f] <= started[f] + slack[f] + Waits(cnt[r], f)
  BY <1>2, <1>3, <1>4, Balance
<1>6. PICK n \in Counting : /\ cnt' = [cnt EXCEPT ![r] = n]
                            /\ n.step \in {"recount", "report"} /\ n.logged = FALSE
                            /\ n.step = "report" => n.left # 0
  BY WriteShape
<1> QED
  BY <1>1, <1>5, <1>6, WriteStep DEF write_total

LEMMA ReportStep ==
  ASSUME CountInv, FloorType', NEW r \in Requests, Report(r)
  PROVE  CountInv'
<1>0. Fault \/ NoFault
  BY DEF Report
<1>1. faults' \in 0..MaxFaults
  BY <1>0, Balance, FaultType
<1>2. CASE /\ cnt' = [cnt EXCEPT ![r] = NoCall("done")]
           /\ UNCHANGED <<configlog, totals, started, slack>>
  <2>1. NoCall("done") \in Counting /\ NoCall("done").step = "done"
    BY DEF NoCall, Call, Counting, Fields
  <2> QED
    BY <1>1, <1>2, <2>1, LeaveStep
<1>3. CASE /\ cnt' = [cnt EXCEPT ![r] = Call("find", "effective", cnt[r].left - 1)]
           /\ Begin("effective")
  <2>0. cnt[r].left \in 1..3 /\ cnt[r].step \notin Pending
    BY Balance DEF CountInv, FlagInv, Report, Pending, Counting
  <2>1. cnt[r].left - 1 \in 0..3 /\ "effective" \in Fields
    BY <2>0 DEF Fields
  <2>2. PICK n : n = Call("find", "effective", cnt[r].left - 1)
    OBVIOUS
  <2>3. n \in Counting /\ n.step = "find" /\ n.logged = FALSE /\ n.field = "effective"
    BY <2>1, <2>2, CallShape, Zenon
  <2>4. cnt' = [cnt EXCEPT ![r] = n]
    BY <1>3, <2>2
  <2> QED
    BY <1>1, <1>3, <2>0, <2>1, <2>3, <2>4, BeginStep
<1> QED
  BY <1>2, <1>3 DEF Report

LEMMA RefreshStep ==
  ASSUME CountInv, FloorType', NEW r \in Requests, refreshdesh(r)
  PROVE  CountInv'
<1> DEFINE n == [cnt[r] EXCEPT !.step = "recount", !.field = "effective"]
<1>0. cnt[r] \in Counting
  BY Balance
<1>1. cnt' = [cnt EXCEPT ![r] = n] /\ n \in Counting /\ n.step = "recount"
  <2>1. n \in Counting /\ n.step = "recount"
    BY <1>0 DEF Counting, Fields
  <2>2. cnt' = [cnt EXCEPT ![r] = n]
    BY DEF refreshdesh
  <2> QED
    BY <2>1, <2>2
<1> HIDE DEF n
<1> QED
  BY <1>1, Balance, LeaveStep DEF refreshdesh

\* A recount reads the log.  The calls that are in the log and still wait
\* enlarge the slack; those that are not in the log have their reserve.
LEMMA RecountStep ==
  ASSUME CountInv, FloorType', NEW r \in Requests, recount(r)
  PROVE  CountInv'
<1>0. Fault \/ NoFault
  BY DEF recount
<1>1. faults' \in 0..MaxFaults
  BY <1>0, Balance, FaultType
<1>2. CASE cnt' = [cnt EXCEPT ![r] = NoCall("done")] /\ UNCHANGED slack
  <2>1. NoCall("done") \in Counting /\ NoCall("done").step = "done"
    BY DEF NoCall, Call, Counting, Fields
  <2> QED
    BY <1>1, <1>2, <2>1, LeaveStep DEF recount
<1>3. CASE /\ cnt' = [cnt EXCEPT ![r].step = "total", ![r].seen = Recounted(r)]
           /\ slack' = [slack EXCEPT ![cnt[r].field] =
                           slack[cnt[r].field] + Cardinality(Logged(cnt[r].field))]
  <2> DEFINE g == cnt[r].field
             n == [cnt[r] EXCEPT !.step = "total", !.seen = configlog[g]]
             k == Cardinality(Logged(g))
  <2>1. /\ cnt' = [cnt EXCEPT ![r] = n] /\ n \in Counting /\ g \in Fields
        /\ n.step = "total" /\ n.field = g /\ n.seen = configlog[g]
    BY <1>3, Balance DEF Counting, Recounted
  <2>2. \A f \in Fields : /\ Waits(n, f) = 0 /\ Waits(cnt[r], f) = 0
                          /\ Misses(n, f) = 0 /\ Misses(cnt[r], f) = 0
    BY <2>1 DEF recount, Waits, Misses, Pending
  <2>3. k \in Nat /\ Waiting[g] = Missing[g] + k
    BY <2>1, Reserves DEF CountInv
  <2>4. slack' = [slack EXCEPT ![g] = slack[g] + k] /\ UNCHANGED <<configlog, totals, started>>
    BY <1>3 DEF recount
  <2> HIDE DEF g, n, k
  <2>5. /\ slack' \in [Fields -> Nat] /\ slack'[g] = slack[g] + k
        /\ \A f \in Fields : slack[f] <= slack'[f]
    BY <2>1, <2>3, <2>4, Balance
  <2>6. \A f \in Fields :
           n.step \in {"update", "total"} /\ n.field = f =>
              n.seen + Waiting[f] + Waits(n, f) <= started'[f] + slack'[f] + Waits(cnt[r], f)
    <3>1. configlog[g] + Waiting[g] <= started[g] + slack[g] + k
      BY <2>1, <2>3, Balance
    <3> QED
      BY <2>1, <2>2, <2>3, <2>4, <2>5, <3>1, Balance
  <2>7. /\ \A f \in Fields :
              started[f] + slack[f] + Waits(n, f) <= started'[f] + slack'[f] + Waits(cnt[r], f)
        /\ \A f \in Fields :
              totals'[f] + Waiting[f] + Waits(n, f) <= started'[f] + slack'[f] + Waits(cnt[r], f)
        /\ \A f \in Fields :
              configlog'[f] + Missing[f] + Misses(n, f) <= started'[f] + Misses(cnt[r], f)
    BY <2>2, <2>4, <2>5, Balance
  <2> QED
    BY <1>1, <2>1, <2>4, <2>5, <2>6, <2>7, Balance, Account
<1> QED
  BY <1>2, <1>3 DEF recount

-----------------------------------------------------------------------------
(***************************************************************************)
(* The lower bound.                                                        *)
(***************************************************************************)
LEMMA Floors ==
  ASSUME CountInv, FloorInv
  PROVE  /\ cnt \in [Requests -> Counting] /\ totals \in [Fields -> Nat]
         /\ floor \in [Fields -> Nat] /\ counted \subseteq Fields
         /\ \A f \in Fields : floor[f] <= totals[f] /\ Owed(f) \in {0, 1}
  BY DEF CountInv, CountersTypeOK, FloorInv, TotalsKept, Owed

\* A step of r that writes no total leaves what the other calls owe alone.
LEMMA FloorKept ==
  ASSUME CountInv, FloorInv, NEW r \in Requests, NEW n \in Counting,
         cnt' = [cnt EXCEPT ![r] = n], UNCHANGED <<totals, floor>>,
         n.step = "update" => n.seen = totals[n.field],
         \/ counted' = counted
         \/ \E f \in Fields : Active(f) = {} /\ counted' = counted \ {f}
  PROVE  FloorType' /\ FloorInv'
<1>0. /\ cnt' \in [Requests -> Counting] /\ cnt'[r] = n
      /\ \A q \in Requests : q # r => cnt'[q] = cnt[q]
  BY Floors
<1>1. FloorType' /\ TotalsKept'
  BY Floors DEF FloorType, FloorInv, TotalsKept
<1>2. ReadInv'
  <2> SUFFICES ASSUME NEW q \in Requests, NEW f \in Fields,
                      cnt'[q].step = "update", cnt'[q].field = f
               PROVE  floor'[f] <= cnt'[q].seen + Owed(f)'
    BY DEF ReadInv
  <2>1. Owed(f)' \in {0, 1}
    BY DEF Owed
  <2>2. CASE q = r
    <3>1. cnt'[q].seen = totals[f]
      BY <1>0, <2>2
    <3> QED
      BY <2>1, <3>1, Floors
  <2>3. CASE q # r
    <3>1. cnt'[q] = cnt[q] /\ floor[f] <= cnt[q].seen + Owed(f)
      BY <1>0, <2>3 DEF FloorInv, ReadInv
    <3>2. Owed(f)' = Owed(f)
      <4>1. q \in Active(f)
        BY <3>1 DEF Active, Pending
      <4> QED
        BY <4>1 DEF Owed
    <3> QED
      BY <3>1, <3>2
  <2> QED
    BY <2>2, <2>3
<1> QED
  BY <1>1, <1>2 DEF FloorInv

\* The first call of an overlap that writes raises the floor by the one it
\* adds; a later one owes it and pays it back.
LEMMA UpdateFloor ==
  ASSUME CountInv, FloorInv, NEW r \in Requests, update_totals(r)
  PROVE  FloorType' /\ FloorInv'
<1>1. PICK n \in Counting : /\ cnt' = [cnt EXCEPT ![r] = n]
                            /\ n.step \in {"report", "done"} /\ n.logged = FALSE
  BY UpdateShape DEF update_totals
<1>2. CASE UNCHANGED <<totals, floor, counted>>
  BY <1>1, <1>2, FloorKept
<1>3. CASE ~UNCHANGED <<totals, floor, counted>>
  <2>0. PICK g, s, o : g = cnt[r].field /\ s = cnt[r].seen /\ o = Owed(g)
    OBVIOUS
  <2>1. g \in Fields /\ s \in Nat /\ o \in {0, 1} /\ floor[g] <= s + o
    BY <2>0, Floors DEF FloorInv, ReadInv, update_totals, Counting
  <2>2. /\ totals' = [totals EXCEPT ![g] = s + 1]
        /\ floor' = [floor EXCEPT ![g] = IF g \in counted THEN floor[g] ELSE floor[g] + 1]
        /\ counted' = counted \cup {g}
    BY <1>3, <2>0 DEF update_totals, Incremented
  <2>3. (g \in counted /\ o = 1) \/ (g \notin counted /\ o = 0)
    BY <2>0 DEF Owed
  <2>4. /\ cnt'[r] = n /\ \A q \in Requests : q # r => cnt'[q] = cnt[q]
    BY <1>1, Floors
  <2>5. /\ \A f \in Fields : f # g => Owed(f)' = Owed(f)
        /\ Owed(g)' = 1
    BY <2>2 DEF Owed
  <2>6. \A q \in Requests, f \in Fields :
           cnt[q].step = "update" /\ cnt[q].field = f =>
              floor[f] <= cnt[q].seen + Owed(f) /\ cnt[q].seen \in Nat
    BY Floors DEF FloorInv, ReadInv, Counting
  <2>7. /\ totals'[g] = s + 1 /\ \A f \in Fields : f # g => totals'[f] = totals[f]
        /\ floor'[g] = floor[g] + 1 - o /\ \A f \in Fields : f # g => floor'[f] = floor[f]
        /\ floor' \in [Fields -> Nat] /\ counted' \subseteq Fields
    BY <2>1, <2>2, <2>3, Floors
  <2>8. TotalsKept'
    <3> SUFFICES ASSUME NEW f \in Fields PROVE floor'[f] <= totals'[f]
      BY <2>1, <2>2, <2>7, Floors DEF TotalsKept
    <3>1. CASE f = g
      BY <2>1, <2>7, <3>1, Floors
    <3>2. CASE f # g
      BY <2>7, <3>2, Floors
    <3> QED
      BY <3>1, <3>2
  <2>9. ReadInv'
    <3> SUFFICES ASSUME NEW q \in Requests, NEW f \in Fields,
                        cnt'[q].step = "update", cnt'[q].field = f
                 PROVE  floor'[f] <= cnt'[q].seen + Owed(f)'
      BY DEF ReadInv
    <3>1. q # r /\ cnt'[q] = cnt[q]
      BY <1>1, <2>4
    <3>2. floor[f] <= cnt[q].seen + Owed(f) /\ cnt[q].seen \in Nat
      BY <2>6, <3>1
    <3>3. CASE f = g
      <4>1. Owed(f) = o
        BY <2>0, <3>3
      <4> QED
        BY <2>1, <2>5, <2>7, <3>1, <3>2, <3>3, <4>1, Floors
    <3>4. CASE f # g
      BY <2>5, <2>7, <3>1, <3>2, <3>4
    <3> QED
      BY <3>3, <3>4
  <2> QED
    BY <2>7, <2>8, <2>9 DEF FloorType, FloorInv
<1> QED
  BY <1>2, <1>3

\* A recount may lower a total, and lowers the floor with it.
LEMMA WriteFloor ==
  ASSUME CountInv, FloorInv, NEW r \in Requests, write_total(r)
  PROVE  FloorType' /\ FloorInv'
<1>1. PICK n \in Counting : /\ cnt' = [cnt EXCEPT ![r] = n]
                            /\ n.step \in {"recount", "report"} /\ n.logged = FALSE
  BY WriteShape
<1>2. CASE UNCHANGED <<totals, floor>>
  BY <1>1, <1>2, FloorKept DEF write_total
<1>3. CASE ~UNCHANGED <<totals, floor>>
  <2> DEFINE g == cnt[r].field
             s == cnt[r].seen
  <2>1. g \in Fields /\ s \in Nat
    BY Floors DEF Counting
  <2>2. /\ totals' = [totals EXCEPT ![g] = s]
        /\ floor' = [floor EXCEPT ![g] = IF s < floor[g] THEN s ELSE floor[g]]
        /\ counted' = counted
    BY <1>3 DEF write_total
  <2>3. /\ cnt'[r] = n /\ \A q \in Requests : q # r => cnt'[q] = cnt[q]
    BY <1>1, Floors
  <2> HIDE DEF g, s
  <2>4. /\ \A f \in Fields : floor'[f] <= floor[f] /\ floor'[f] <= totals'[f]
        /\ floor' \in [Fields -> Nat] /\ totals' \in [Fields -> Nat]
    BY <2>1, <2>2, Floors
  <2>5. ReadInv'
    <3> SUFFICES ASSUME NEW q \in Requests, NEW f \in Fields,
                        cnt'[q].step = "update", cnt'[q].field = f
                 PROVE  floor'[f] <= cnt'[q].seen + Owed(f)'
      BY DEF ReadInv
    <3>1. q # r /\ cnt'[q] = cnt[q]
      BY <1>1, <2>3
    <3>2. floor[f] <= cnt[q].seen + Owed(f) /\ cnt[q].seen \in Nat /\ Owed(f) \in {0, 1}
      BY <3>1, Floors DEF FloorInv, ReadInv, Counting
    <3>3. Owed(f)' = Owed(f)
      BY <2>2 DEF Owed
    <3> QED
      BY <2>4, <3>1, <3>2, <3>3, Floors
  <2>6. TotalsKept'
    BY <2>4 DEF TotalsKept
  <2> QED
    BY <2>2, <2>4, <2>5, <2>6, Floors DEF FloorType, FloorInv
<1> QED
  BY <1>2, <1>3

\* Where a request goes in the steps that write no total.
LEMMA QuietFloor ==
  ASSUME CountInv, FloorInv, NEW r \in Requests,
         \/ refreshdesh(r) \/ insert_log(r) \/ find_totals(r) \/ recount(r) \/ Report(r)
         \/ \E f \in Fields, logged \in BOOLEAN : StartCount(r, f, logged)
  PROVE  FloorType' /\ FloorInv'
<1>0. cnt[r] \in Counting /\ NoCall("done") \in Counting /\ NoCall("done").step = "done"
  BY Floors DEF NoCall, Call, Counting, Fields
<1>1. CASE refreshdesh(r)
  <2>1. PICK n : n = [cnt[r] EXCEPT !.step = "recount", !.field = "effective"]
    OBVIOUS
  <2>2. n \in Counting /\ n.step = "recount"
    BY <1>0, <2>1 DEF Counting, Fields
  <2> QED
    BY <1>1, <2>1, <2>2, FloorKept DEF refreshdesh
<1>2. CASE insert_log(r)
  <2>1. PICK n : /\ cnt' = [cnt EXCEPT ![r] = n]
                 /\ \/ n = [cnt[r] EXCEPT !.step = "find", !.logged = TRUE]
                    \/ n = [cnt[r] EXCEPT !.step = "find"]
    BY <1>2, Floors DEF insert_log
  <2>2. n \in Counting /\ n.step = "find"
    BY <1>0, <2>1 DEF Counting, Pending
  <2> QED
    BY <1>2, <2>1, <2>2, FloorKept DEF insert_log
<1>3. CASE find_totals(r)
  <2>1. CASE cnt' = [cnt EXCEPT ![r] = NoCall("done")]
    BY <1>0, <1>3, <2>1, FloorKept DEF find_totals
  <2>2. CASE cnt' = [cnt EXCEPT ![r].step = "update", ![r].seen = totals[cnt[r].field]]
    <3>1. PICK n : n = [cnt[r] EXCEPT !.step = "update", !.seen = totals[cnt[r].field]]
      OBVIOUS
    <3>2. cnt' = [cnt EXCEPT ![r] = n]
      BY <2>2, <3>1, Floors
    <3>3. n \in Counting /\ n.step = "update" /\ n.seen = totals[n.field]
      BY <1>0, <3>1, Floors DEF Counting, Pending
    <3> QED
      BY <1>3, <3>2, <3>3, FloorKept DEF find_totals
  <2> QED
    BY <1>3, <2>1, <2>2 DEF find_totals
<1>4. CASE recount(r)
  <2>1. CASE cnt' = [cnt EXCEPT ![r] = NoCall("done")]
    BY <1>0, <1>4, <2>1, FloorKept DEF recount
  <2>2. CASE cnt' = [cnt EXCEPT ![r].step = "total", ![r].seen = Recounted(r)]
    <3>1. PICK n : n = [cnt[r] EXCEPT !.step = "total", !.seen = Recounted(r)]
      OBVIOUS
    <3>2. cnt' = [cnt EXCEPT ![r] = n]
      BY <2>2, <3>1, Floors
    <3>3. n \in Counting /\ n.step = "total"
      <4>1. Recounted(r) \in Nat
        BY <1>0, Balance DEF Recounted, Counting
      <4> QED
        BY <1>0, <3>1, <4>1 DEF Counting, Pending
    <3> QED
      BY <1>4, <3>2, <3>3, FloorKept DEF recount
  <2> QED
    BY <1>4, <2>1, <2>2 DEF recount
<1>5. CASE Report(r)
  <2>1. CASE cnt' = [cnt EXCEPT ![r] = NoCall("done")] /\ UNCHANGED <<totals, floor, counted>>
    BY <1>0, <2>1, FloorKept
  <2>2. CASE /\ cnt' = [cnt EXCEPT ![r] = Call("find", "effective", cnt[r].left - 1)]
             /\ Begin("effective")
    <3>1. PICK n : n = Call("find", "effective", cnt[r].left - 1)
      OBVIOUS
    <3>2. cnt[r].left \in 1..3
      BY <1>0, <1>5 DEF CountInv, FlagInv, Report, Counting
    <3>3. cnt[r].left - 1 \in 0..3 /\ "effective" \in Fields
      BY <3>2 DEF Fields
    <3>4. n \in Counting /\ n.step = "find"
      BY <3>1, <3>3, CallShape, Zenon
    <3>5. cnt' = [cnt EXCEPT ![r] = n]
      BY <2>2, <3>1
    <3> QED
      BY <2>2, <3>3, <3>4, <3>5, FloorKept DEF Begin
  <2> QED
    BY <1>5, <2>1, <2>2 DEF Report
<1>6. ASSUME NEW f \in Fields, NEW logged \in BOOLEAN, StartCount(r, f, logged)
      PROVE  FloorType' /\ FloorInv'
  <2>1. PICK n : n = [cnt[r] EXCEPT !.step = IF logged THEN "insert" ELSE "find", !.field = f]
    OBVIOUS
  <2>2. n \in Counting /\ n.step \in {"insert", "find"}
    BY <1>0, <2>1 DEF Counting, Pending
  <2>3. cnt' = [cnt EXCEPT ![r] = n]
    BY <1>6, <2>1, Floors DEF StartCount
  <2>4. /\ UNCHANGED <<totals, floor>>
        /\ \/ counted' = counted
           \/ Active(f) = {} /\ counted' = counted \ {f}
    BY <1>6 DEF StartCount, Begin
  <2> QED
    BY <2>2, <2>3, <2>4, FloorKept
<1> QED
  BY <1>1, <1>2, <1>3, <1>4, <1>5, <1>6

-----------------------------------------------------------------------------
LEMMA CountInvInit == CountersInit => CountInv /\ FloorInv
<1> SUFFICES ASSUME CountersInit PROVE CountInv /\ FloorInv
  OBVIOUS
<1>1. CountersTypeOK
  BY CountersAssumption DEF CountersInit, CountersTypeOK, Counting, NoCall, Call, Fields
<1>2. ASSUME NEW f \in Fields PROVE Waiting[f] = 0 /\ Missing[f] = 0
  <2>1. WaitingSet(f) = {} /\ MissingSet(f) = {}
    BY DEF CountersInit, WaitingSet, MissingSet, Waits, Misses, NoCall, Call, Pending
  <2> QED
    BY <2>1, FS_EmptySet DEF Waiting, Missing
<1>3. TotalsInv /\ LogInv
  BY <1>2 DEF CountersInit, TotalsInv, LogInv
<1>4. SeenInv /\ FlagInv /\ ReadInv
  BY DEF CountersInit, SeenInv, FlagInv, ReadInv, NoCall, Call
<1>5. TotalsKept
  BY DEF CountersInit, TotalsKept
<1> QED
  BY <1>1, <1>3, <1>4, <1>5 DEF CountInv, FloorInv

\* The invariant does not depend on the number of outages.
LEMMA OutageStep ==
  ASSUME CountInv, FloorInv, faults' \in 0..MaxFaults,
         UNCHANGED <<configlog, totals, cnt, started, slack, floor, counted>>
  PROVE  CountInv' /\ FloorInv'
<1>1. CountInv'
  BY DEF CountInv, CountersTypeOK, TotalsInv, SeenInv, LogInv, FlagInv,
         Waiting, Missing, WaitingSet, MissingSet, Waits, Misses
<1>2. FloorInv'
  BY DEF FloorInv, TotalsKept, ReadInv, Owed
<1> QED
  BY <1>1, <1>2

LEMMA CountInvStep ==
  CountInv /\ FloorInv /\ [CountersNext]_countVars => CountInv' /\ FloorInv'
<1> SUFFICES ASSUME CountInv, FloorInv, [CountersNext]_countVars PROVE CountInv' /\ FloorInv'
  OBVIOUS
<1>0. (Fault \/ NoFault) => faults' \in 0..MaxFaults
  BY Balance, FaultType
<1>1. CASE UNCHANGED countVars
  BY <1>1, Balance, OutageStep DEF countVars
<1>2. ASSUME NEW r \in Requests, CountArrival(r) PROVE CountInv' /\ FloorInv'
  <2>1. FloorType' /\ FloorInv'
    BY <1>2, QuietFloor DEF CountArrival
  <2> QED
    BY <1>0, <1>2, <2>1, RefreshStep, StartCountStep DEF CountArrival
<1>3. ASSUME NEW r \in Requests, CountStep(r) PROVE CountInv' /\ FloorInv'
  <2>1. FloorType' /\ FloorInv'
    BY <1>3, QuietFloor, UpdateFloor, WriteFloor DEF CountStep
  <2> QED
    BY <1>3, <2>1, InsertStep, FindStep, UpdateStep, RecountStep, WriteTotalStep, ReportStep
       DEF CountStep
<1>4. ASSUME NEW r \in Requests, OtherPage(r) PROVE CountInv' /\ FloorInv'
  <2>1. CASE \E f \in Fields, logged \in BOOLEAN : StartCount(r, f, logged)
    <3>1. FloorType' /\ FloorInv'
      BY <2>1, QuietFloor
    <3> QED
      BY <1>0, <1>4, <2>1, <3>1, StartCountStep DEF OtherPage
  <2> QED
    BY <1>0, <1>4, <2>1, OutageStep DEF OtherPage
<1> QED
  BY <1>1, <1>2, <1>3, <1>4 DEF CountersNext

LEMMA CountInvAlways == CountersSpec => [](CountInv /\ FloorInv)
<1> QED
  BY CountInvInit, CountInvStep, PTL DEF CountersSpec

\* The state of the counting is well typed, for any number of requests and of
\* outages.
THEOREM CountersTypeSafe == CountersSpec => []CountersTypeOK
<1>1. CountInv => CountersTypeOK
  BY DEF CountInv
<1> QED
  BY <1>1, CountInvAlways, PTL

\* A total of the dashboard never exceeds the calls that were to be counted by
\* more than those a recount found in the log and not yet in the total, for
\* any number of overlapping calls, recounts and outages.
THEOREM TotalsStayBounded == CountersSpec => []TotalsBounded
<1>1. CountInv => TotalsBounded
  <2> SUFFICES ASSUME CountInv, NEW f \in Fields PROVE totals[f] <= started[f] + slack[f]
    BY DEF TotalsBounded
  <2> QED
    BY Balance
<1> QED
  BY <1>1, CountInvAlways, PTL

\* Of calls of LogAndCounts and flash_and_log_info that overlap, at least one
\* that has written its total stays counted, and a call that overlaps no
\* other always does, unless a recount has found less in the log: for any
\* number of overlapping calls, recounts and outages.
THEOREM TotalsStayKept == CountersSpec => []TotalsKept
<1>1. FloorInv => TotalsKept
  BY DEF FloorInv
<1> QED
  BY <1>1, CountInvAlways, PTL
=============================================================================
