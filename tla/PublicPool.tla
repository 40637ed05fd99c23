----------------------------- MODULE PublicPool -----------------------------
(***************************************************************************)
(* A device of the public pool: its field `User' is a list of names joined *)
(* by commas, and publicuserconfig (app/main/views.py) reads it, puts the  *)
(* current user in or takes him out, and writes the whole list back.       *)
(***************************************************************************)
EXTENDS Counters, SequencesExt

CONSTANTS
    Users,
    NoUser

ASSUME PoolAssumption == NoUser \notin Users

VARIABLES
    users,       \* the names in `User', in their order
    preq,        \* the local state of every request
    joined       \* history: who asked to join

poolVars == <<users, preq, joined>>

Request == [op : {"none", "join", "leave"},
            who : Users \cup {NoUser},
            seen : Seq(Users),
            step : {"idle", "find", "update", "done"}]

\* The type invariant.
PoolTypeOK ==
    /\ users \in Seq(Users)
    /\ preq \in [Requests -> Request]
    /\ joined \subseteq Users

\* A request that has no local state, before it arrives or after it has ended.
NoRequest(s) == [op |-> "none", who |-> NoUser, seen |-> <<>>, step |-> s]

PoolInit ==
    /\ users = <<>>
    /\ preq = [r \in Requests |-> NoRequest("idle")]
    /\ joined = {}

Ask(r, o, u) ==
    /\ preq[r].step = "idle"
    /\ preq' = [preq EXCEPT ![r] = [op |-> o, who |-> u, seen |-> <<>>, step |-> "find"]]
    /\ joined' = IF o = "join" THEN joined \cup {u} ELSE joined
    /\ UNCHANGED users
    /\ UNCHANGED countVars

\* Without a document the page raises.
find_device(r) ==
    /\ preq[r].step = "find"
    /\ \/ NoFault /\ preq' = [preq EXCEPT ![r].seen = users, ![r].step = "update"]
       \/ Fault /\ preq' = [preq EXCEPT ![r] = NoRequest("done")]
    /\ UNCHANGED <<users, joined>>
    /\ UNCHANGED <<configlog, totals, cnt, started, slack, floor, counted>>

\* The loop over the names of the list that puts together all but one.
Others(names, u) ==
    LET kept[i \in 0..Len(names)] ==
            IF i = 0 THEN <<>>
            ELSE IF names[i] = u THEN kept[i - 1]
            ELSE Append(kept[i - 1], names[i])
    IN  kept[Len(names)]

\* Variants named Bug... are what the code would be with one mistake in it;
\* they show that the properties can fail, and no action uses them.
BugLeavesOnce(r) ==
    IF preq[r].op = "join" THEN Append(preq[r].seen, preq[r].who)
    ELSE RemoveFirst(preq[r].seen, preq[r].who)
BugToggles(r) ==
    IF preq[r].who \in ToSet(preq[r].seen)
    THEN Others(preq[r].seen, preq[r].who)
    ELSE Append(preq[r].seen, preq[r].who)
\* A user may be in the list more than once; leaving removes every mention.
NewList(r) ==
    IF preq[r].op = "join" THEN Append(preq[r].seen, preq[r].who)
    ELSE Others(preq[r].seen, preq[r].who)

\* The result of the update is not looked at; flash_and_log_info follows.
update_device(r) ==
    /\ preq[r].step = "update"
    /\ \/ NoFault /\ users' = NewList(r)
       \/ Fault /\ UNCHANGED users
    /\ preq' = [preq EXCEPT ![r] = NoRequest("done")]
    /\ StartCount(r, "effective", FALSE)
    /\ UNCHANGED joined

PoolStep(r) == find_device(r) \/ update_device(r)

PoolArrival(r) == \E u \in Users, o \in {"join", "leave"} : Ask(r, o, u)

-----------------------------------------------------------------------------
(***************************************************************************)
(* Properties.                                                             *)
(***************************************************************************)
M == INSTANCE Membership WITH members <- ToSet(users)

\* A request works on a copy of the list that is out of date.
Stale(r) == preq[r].seen # users

\* The list, which may name a user several times, stands for a set that a
\* request changes by its own user only; what else happens to it is done by
\* a request whose copy of the list is out of date, and by no outage.
MembershipRespected ==
    M!Init /\ [][\E r \in Requests :
                   /\ preq[r].step = "update" /\ preq'[r].step = "done"
                   /\ \/ Stale(r)
                      \/ IF preq[r].op = "join" THEN M!Join(preq[r].who)
                                                ELSE M!Leave(preq[r].who)]_<<users>>

\* Overlapping requests lose changes of others and never invent a member:
\* whoever is in the list asked to join.
MembersJoined == ToSet(users) \subseteq joined
=============================================================================
