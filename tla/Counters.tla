------------------------------ MODULE Counters ------------------------------
(***************************************************************************)
(* The totals of the dashboard.  Every page ends in LogAndCounts or        *)
(* flash_and_log_info/error (app/lib/flashandlog.py), which read a total   *)
(* and write it back plus one; refreshdesh counts the log again.  A total  *)
(* is a text in the database that is converted by int() and str().         *)
(***************************************************************************)
EXTENDS Naturals, FiniteSets

CONSTANTS
    Requests,
    MaxFaults      \* bound: database calls that fail

Fields == {"effective", "invalid"}

ASSUME CountersAssumption ==
    /\ IsFiniteSet(Requests)
    /\ MaxFaults \in Nat

VARIABLES
    configlog,   \* number of log documents per value of `effective'
    totals,      \* the two totals of the document `totals'
    cnt,         \* the local state of every call
    started,     \* history: calls that count, per total
    slack,       \* history: calls in flight when a recount read the log
    floor,       \* history: what the total must not fall below
    counted,     \* history: totals that a call of the current overlap has written
    faults

countVars == <<configlog, totals, cnt, started, slack, floor, counted, faults>>

Pending == {"insert", "find", "update"}

Counting == [step : {"off", "recount", "total", "report", "done"} \cup Pending,
             field : Fields,
             seen : Nat,
             logged : BOOLEAN,   \* its log document is in the database
             left : 0..3]        \* calls of flash_and_log_info that may follow

\* The type invariant.
CountersTypeOK ==
    /\ configlog \in [Fields -> Nat]
    /\ totals \in [Fields -> Nat]
    /\ cnt \in [Requests -> Counting]
    /\ started \in [Fields -> Nat]
    /\ slack \in [Fields -> Nat]
    /\ floor \in [Fields -> Nat]
    /\ counted \subseteq Fields
    /\ faults \in 0..MaxFaults

\* A call that has read and logged nothing, and no call at all.
Call(s, f, n) == [step |-> s, field |-> f, seen |-> 0, logged |-> FALSE, left |-> n]
NoCall(s) == Call(s, "effective", 0)

CountersInit ==
    /\ configlog = [f \in Fields |-> 0]
    /\ totals = [f \in Fields |-> 0]
    /\ cnt = [r \in Requests |-> NoCall("off")]
    /\ started = [f \in Fields |-> 0]
    /\ slack = [f \in Fields |-> 0]
    /\ floor = [f \in Fields |-> 0]
    /\ counted = {}
    /\ faults = 0

Fault == faults < MaxFaults /\ faults' = faults + 1
NoFault == UNCHANGED faults

-----------------------------------------------------------------------------
\* The calls on a total that have begun and have not yet written it.
Active(f) == {q \in Requests : cnt[q].step \in Pending /\ cnt[q].field = f}

\* A call on total f begins; if it meets no other, so does a new overlap.
Begin(f) ==
    /\ started' = [started EXCEPT ![f] = started[f] + 1]
    /\ counted' = IF Active(f) = {} THEN counted \ {f} ELSE counted
    /\ UNCHANGED <<configlog, totals, slack, floor>>

\* A call begins: LogAndCounts writes a log document first, flash_and_log_info
\* and flash_and_log_error do not.
StartCount(r, f, logged) ==
    /\ cnt[r].step = "off"
    /\ cnt' = [cnt EXCEPT ![r].step = IF logged THEN "insert" ELSE "find", ![r].field = f]
    /\ Begin(f)

insert_log(r) ==
    /\ cnt[r].step = "insert"
    /\ \/ /\ NoFault
          /\ configlog' = [configlog EXCEPT ![cnt[r].field] = configlog[cnt[r].field] + 1]
          /\ cnt' = [cnt EXCEPT ![r].step = "find", ![r].logged = TRUE]
       \/ /\ Fault
          /\ cnt' = [cnt EXCEPT ![r].step = "find"]
          /\ UNCHANGED configlog
    /\ UNCHANGED <<totals, started, slack, floor, counted>>

\* Without the document the subscript raises and the page fails.
find_totals(r) ==
    /\ cnt[r].step = "find"
    /\ \/ /\ NoFault
          /\ cnt' = [cnt EXCEPT ![r].step = "update", ![r].seen = totals[cnt[r].field]]
       \/ /\ Fault
          /\ cnt' = [cnt EXCEPT ![r] = NoCall("done")]
    /\ UNCHANGED <<configlog, totals, started, slack, floor, counted>>

\* Variants named Bug... are what the code would be with one mistake in it;
\* they show that the properties can fail, and no action uses them.
BugCountsEffective(r) == IF cnt[r].field = "effective" THEN cnt[r].seen + 1 ELSE cnt[r].seen
Incremented(r) == cnt[r].seen + 1

\* The end, or what refreshdesh does before its next flash_and_log_info.
AfterUpdate(r) ==
    \/ cnt' = [cnt EXCEPT ![r] = NoCall("done")]
    \/ /\ cnt[r].left # 0
       /\ cnt' = [cnt EXCEPT ![r] = Call("report", "effective", cnt[r].left)]

\* The first of the overlapping calls that writes the total raises the floor.
update_totals(r) ==
    /\ cnt[r].step = "update"
    /\ AfterUpdate(r)
    /\ LET f == cnt[r].field
       IN  \/ /\ NoFault
              /\ totals' = [totals EXCEPT ![f] = Incremented(r)]
              /\ floor' = [floor EXCEPT ![f] = IF f \in counted THEN floor[f] ELSE floor[f] + 1]
              /\ counted' = counted \cup {f}
           \/ Fault /\ UNCHANGED <<totals, floor, counted>>
    /\ UNCHANGED <<configlog, started, slack>>

-----------------------------------------------------------------------------
refreshdesh(r) ==
    /\ cnt[r].step = "off"
    /\ cnt' = [cnt EXCEPT ![r].step = "recount", ![r].field = "effective"]
    /\ UNCHANGED <<configlog, totals, started, slack, floor, counted, faults>>

\* The calls on a total that are in the log and not yet in the total.
Logged(f) == {q \in Active(f) : cnt[q].logged}

BugRecountsAll(r) == configlog["effective"] + configlog["invalid"]
Recounted(r) == configlog[cnt[r].field]

recount(r) ==
    /\ cnt[r].step = "recount"
    /\ \/ /\ NoFault
          /\ cnt' = [cnt EXCEPT ![r].step = "total", ![r].seen = Recounted(r)]
          /\ slack' = [slack EXCEPT ![cnt[r].field] =
                          slack[cnt[r].field] + Cardinality(Logged(cnt[r].field))]
       \/ /\ Fault
          /\ cnt' = [cnt EXCEPT ![r] = NoCall("done")]
          /\ UNCHANGED slack
    /\ UNCHANGED <<configlog, totals, started, floor, counted>>

\* A total that is counted again may fall, to what was in the log.  After the
\* second one come one to three calls of flash_and_log_info: two of them
\* report that fewer than six devices, or users, are in the log.
write_total(r) ==
    /\ cnt[r].step = "total"
    /\ LET f == cnt[r].field
       IN  \/ /\ NoFault
              /\ totals' = [totals EXCEPT ![f] = cnt[r].seen]
              /\ floor' = [floor EXCEPT ![f] = IF cnt[r].seen < floor[f] THEN cnt[r].seen
                                                                        ELSE floor[f]]
           \/ Fault /\ UNCHANGED <<totals, floor>>
    /\ \/ /\ cnt[r].field = "effective"
          /\ cnt' = [cnt EXCEPT ![r] = Call("recount", "invalid", 0)]
       \/ /\ cnt[r].field = "invalid"
          /\ cnt' = [cnt EXCEPT ![r] = Call("report", "effective", 3)]
    /\ UNCHANGED <<configlog, started, slack, counted>>

\* The reads of log and users, if any, before a flash_and_log_info of
\* refreshdesh, a failure of which raises, and the begin of the call.
Report(r) ==
    /\ cnt[r].step = "report"
    /\ \/ /\ NoFault
          /\ cnt' = [cnt EXCEPT ![r] = Call("find", "effective", cnt[r].left - 1)]
          /\ Begin("effective")
       \/ /\ Fault
          /\ cnt' = [cnt EXCEPT ![r] = NoCall("done")]
          /\ UNCHANGED <<configlog, totals, started, slack, floor, counted>>

CountStep(r) ==
    \/ insert_log(r) \/ find_totals(r) \/ update_totals(r)
    \/ recount(r) \/ write_total(r) \/ Report(r)

\* A page that only reports, or the button that recounts.
CountArrival(r) ==
    \/ refreshdesh(r)
    \/ NoFault /\ \E f \in Fields, logged \in BOOLEAN : StartCount(r, f, logged)

\* What other pages do to the state of this module: the call that ends a
\* page, and calls of the database that fail elsewhere.
OtherPage(r) ==
    /\ Fault \/ NoFault
    /\ \/ \E f \in Fields, logged \in BOOLEAN : StartCount(r, f, logged)
       \/ UNCHANGED <<configlog, totals, cnt, started, slack, floor, counted>>

CountersNext == \E r \in Requests : CountArrival(r) \/ CountStep(r) \/ OtherPage(r)

CountersSpec == CountersInit /\ [][CountersNext]_countVars

-----------------------------------------------------------------------------
(***************************************************************************)
(* Properties.                                                             *)
(***************************************************************************)

\* Lost updates make a total too small; it is too large by at most the calls
\* that were between their log document and their total when a recount read
\* the log: refreshdesh counts those once and they count themselves again,
\* and no interleaving or outage adds more.
TotalsBounded ==
    \A f \in Fields : totals[f] <= started[f] + slack[f]

\* Calls that overlap may overwrite each other's increment, but one of them
\* stays: a total is at least the number of times that calls overlapped, or a
\* call ran alone, and one of them wrote the total.  Only a recount lowers it,
\* to the number it has found in the log.
TotalsKept == \A f \in Fields : totals[f] >= floor[f]
=============================================================================
