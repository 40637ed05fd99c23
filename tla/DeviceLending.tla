--------------------------- MODULE DeviceLending ---------------------------
(***************************************************************************)
(* Lending of devices: the `User' field of a device document in MongoDB    *)
(* and the handlers that lend or return one: the API (app/api/views.py),   *)
(* the AI search (app/lib/ai_search.py) and the pages (app/main/views.py). *)
(*                                                                         *)
(* The server is threaded and the database calls of a handler are separate *)
(* operations: a handler reads the document, decides, and writes later.    *)
(* Any database call may fail; lib/mongodb.py turns that into None.        *)
(***************************************************************************)
EXTENDS Naturals

CONSTANTS
    Users,          \* svnames of the collection `User'
    Strangers,      \* names that are not in it (`Unknown', a name the LLM read)
    DUTs,           \* ids in the collection `DUT'
    SonicPoints,    \* ids in the collection `SonicPoint'
    Owner,          \* whose full name the document's `Owner' is
    Contained,      \* the names that occur in the text of `Owner'
    Requests,
    Kinds,          \* the entry points in use
    MaxFaults,      \* bound: outages of the database, the mail or the broker
    NoDevice, NoName

Names == Users \cup Strangers
Collections == {"DUT", "SonicPoint"}
Devices == ({"DUT"} \X DUTs) \cup ({"SonicPoint"} \X SonicPoints)
Ids == DUTs \cup SonicPoints

Borrows == {"borrow", "ai", "page_borrow"}
Returns == {"return", "page_return"}
Pages == {"page_borrow", "page_return"}

ASSUME SetupAssumption ==
    /\ Owner \in [Devices -> Names]
    /\ Contained \in [Devices -> SUBSET Names]
    \* `khuang' in `khuang (Jason Huang)'
    /\ \A d \in Devices : Owner[d] \in Contained[d]
    /\ Kinds \subseteq Borrows \cup Returns
    /\ MaxFaults \in Nat
    /\ NoDevice \notin Devices
    /\ NoName \notin Names

VARIABLES
    holder,      \* the field `User' of every device
    req,         \* the local state of every request
    mails,       \* notifications handed to the mail thread
    tasks,       \* page requests whose port initialisation is queued
    transfers,   \* page requests with a document in `transferdevices'
    overtaken,   \* history: requests whose device another one wrote between
                 \* their own read of it and their mail
    faults       \* outages so far; each hits one or more calls of one handler

vars == <<holder, req, mails, tasks, transfers, overtaken, faults>>

Steps == {"idle", "find", "update", "notify", "ports", "transfer", "done"}
\* The HTTP statuses the callers tell apart.
Outcomes == {"none", "success", "not_found", "refused", "error"}

Request == [kind : Kinds \cup {"none"},
            name : Names \cup {NoName},     \* requester_name, svname of the page's user
            id : Ids \cup {NoName},
            dev : Devices \cup {NoDevice},  \* the document that was found
            seen : Names \cup {NoName},     \* its `User' when it was read
            loser : Names \cup {NoName},    \* its `User' when it was written
            step : Steps,
            outcome : Outcomes]

Mail == [req : Requests, to : Users, says : Names]

\* The type invariant.
TypeOK ==
    /\ holder \in [Devices -> Names]
    /\ req \in [Requests -> Request]
    /\ mails \subseteq Mail
    /\ tasks \subseteq Requests
    /\ transfers \subseteq Requests
    /\ overtaken \subseteq Requests
    /\ faults \in 0..MaxFaults

-----------------------------------------------------------------------------
Applied(r) == req[r].loser # NoName

Fault == faults < MaxFaults /\ faults' = faults + 1
NoFault == UNCHANGED faults

Finish(r, why) == req' = [req EXCEPT ![r].step = "done", ![r].outcome = why]

\* Variants named Bug... are what the code would be with one mistake in it;
\* they show that the properties can fail, and no action uses them.
BugWritesId(r) == IF req[r].kind \in Borrows THEN req[r].name ELSE req[r].id
BugWritesCaller(r) == req[r].name
\* The name that is to be written.
NewUser(r) == IF req[r].kind \in Borrows THEN req[r].name ELSE Owner[req[r].dev]

IdleRequest ==
    [kind |-> "none", name |-> NoName, id |-> NoName, dev |-> NoDevice,
     seen |-> NoName, loser |-> NoName, step |-> "idle", outcome |-> "none"]

Init ==
    /\ holder = Owner
    /\ req = [r \in Requests |-> IdleRequest]
    /\ mails = {} /\ tasks = {} /\ transfers = {} /\ overtaken = {}
    /\ faults = 0

\* A page runs with the account of a logged-in user; the API and the AI search
\* take any name from the body.
Arrive(r, k, n, i) ==
    /\ req[r].step = "idle"
    /\ k \in Pages => n \in Users
    /\ req' = [req EXCEPT ![r] = [IdleRequest EXCEPT
                 !.kind = k, !.name = n, !.id = i, !.step = "find"]]
    /\ UNCHANGED <<holder, mails, tasks, transfers, overtaken, faults>>

-----------------------------------------------------------------------------
(***************************************************************************)
(* Finding the document.  A page names the collection; the API and the AI  *)
(* search try `DUT' and then `SonicPoint', and cannot tell an id that is   *)
(* missing from a call that failed.                                        *)
(***************************************************************************)
Found(d, i, k) ==
    /\ d \in Devices
    /\ d[2] = i
    /\ k \notin Pages /\ d[1] = "SonicPoint" => i \notin DUTs

BugNoCheck(r, d) ==
    req' = [req EXCEPT ![r].dev = d, ![r].seen = holder[d], ![r].step = "update"]
\* What the handler does with the document it read, d.  The owner of d is
\* looked up before the write only to return a device.
Decide(r, d) ==
    LET free == holder[d] \in Contained[d]
        known == Owner[d] \in Users
        missing == IF req[r].kind \in Pages THEN "error" ELSE "not_found"
    IN  req' = [req EXCEPT ![r] =
           CASE req[r].kind \in {"borrow", "ai"} /\ ~free ->
                    [@ EXCEPT !.dev = d, !.seen = holder[d], !.step = "done",
                              !.outcome = "refused"]
             [] req[r].kind \in Returns /\ ~known ->
                    [@ EXCEPT !.dev = d, !.seen = holder[d], !.step = "done",
                              !.outcome = missing]
             [] OTHER ->
                    [@ EXCEPT !.dev = d, !.seen = holder[d], !.step = "update"]]

find_one(r) ==
    /\ req[r].step = "find"
    /\ \/ /\ NoFault
          /\ \E d \in Devices : Found(d, req[r].id, req[r].kind) /\ Decide(r, d)
       \/ /\ NoFault
          /\ \A d \in Devices : ~Found(d, req[r].id, req[r].kind)
          /\ Finish(r, IF req[r].kind \in Pages THEN "error" ELSE "not_found")
       \* the call on `DUT' failed: a SonicPoint with this id is taken instead
       \/ /\ Fault
          /\ req[r].kind \notin Pages
          /\ req[r].id \in DUTs \cap SonicPoints
          /\ Decide(r, <<"SonicPoint", req[r].id>>)
       \/ /\ Fault
          /\ Finish(r, IF req[r].kind \in Pages THEN "error" ELSE "not_found")
    /\ UNCHANGED <<holder, mails, tasks, transfers, overtaken>>

(***************************************************************************)
(* update_one sets `User', whatever it is by now.  An outage loses the     *)
(* call or only its answer; both look the same to the handler.  The API    *)
(* and the AI search look at the result, the pages do not.                 *)
(***************************************************************************)
AfterUpdate(k) == IF k = "ai" THEN "done" ELSE "notify"
BugResultIgnored(k) == k # "ai"
IgnoresResult(k) == k \in Pages

\* Those who have read the device of r and not yet sent their mail about it.
Reading(r) == {q \in Requests \ {r} : /\ req[q].dev = req[r].dev
                                      /\ req[q].step \in {"update", "notify"}}

\* The write reaches the database.
Write(r) ==
    /\ holder' = [holder EXCEPT ![req[r].dev] = NewUser(r)]
    /\ overtaken' = overtaken \cup Reading(r)

\* The handler goes on after a write that took `User' from loser, if any.
GoesOn(r, loser) ==
    req' = [req EXCEPT ![r].loser = loser,
                       ![r].step = AfterUpdate(req[r].kind),
                       ![r].outcome = IF req[r].kind = "ai" THEN "success" ELSE "none"]
\* It has seen None: a page goes on, the others answer 500.
Unanswered(r, loser) ==
    IF IgnoresResult(req[r].kind)
    THEN GoesOn(r, loser)
    ELSE req' = [req EXCEPT ![r].loser = loser, ![r].step = "done", ![r].outcome = "error"]

update_one(r) ==
    /\ req[r].step = "update"
    /\ \/ NoFault /\ Write(r) /\ GoesOn(r, holder[req[r].dev])
       \/ Fault /\ Write(r) /\ Unanswered(r, holder[req[r].dev])
       \/ Fault /\ UNCHANGED <<holder, overtaken>> /\ Unanswered(r, NoName)
    /\ UNCHANGED <<mails, tasks, transfers>>

(***************************************************************************)
(* The notification.  A borrow is announced to the user the handler had    *)
(* read, a return to the owner; the mail's text comes from the document as *)
(* it is read again here.  A page raises when nobody has that name; the    *)
(* API goes on without a mail.                                             *)
(***************************************************************************)
BugOwnerToldOnly(r) == Owner[req[r].dev]
Recipient(r) == IF req[r].kind \in Borrows THEN req[r].seen ELSE Owner[req[r].dev]
BugMailFromSnapshot(r) == req[r].seen
Says(r) == IF req[r].kind \in Borrows THEN holder[req[r].dev] ELSE req[r].seen

Told(r) ==
    req' = [req EXCEPT ![r].step = IF req[r].kind \in Pages THEN "ports" ELSE "done",
                       ![r].outcome = IF req[r].kind \in Pages THEN "none" ELSE "success"]

dut_change_user_email(r) ==
    /\ req[r].step = "notify"
    /\ \/ /\ NoFault
          /\ Recipient(r) \in Users
          /\ mails' = mails \cup {[req |-> r, to |-> Recipient(r), says |-> Says(r)]}
          /\ Told(r)
       \/ /\ NoFault
          /\ Recipient(r) \notin Users
          /\ IF req[r].kind \in Pages THEN Finish(r, "error") ELSE Told(r)
          /\ UNCHANGED mails
       \* reading the document again fails: the template raises
       \/ /\ Fault
          /\ Finish(r, "error")
          /\ UNCHANGED mails
       \* the look-up of the borrower's name before the write has failed
       \/ /\ Fault
          /\ req[r].kind = "borrow"
          /\ Told(r)
          /\ UNCHANGED mails
    /\ UNCHANGED <<holder, tasks, transfers, overtaken>>

BugReturnsEarly(r) ==
    /\ req[r].step = "ports"
    /\ tasks' = tasks \cup {r}
    /\ Finish(r, "success")
    /\ UNCHANGED <<holder, mails, transfers, overtaken, faults>>
\* A page queues the initialisation of the device's ports.
async_initialdutports(r) ==
    /\ req[r].step = "ports"
    /\ \/ /\ NoFault
          /\ tasks' = tasks \cup {r}
          /\ req' = [req EXCEPT ![r].step = "transfer"]
       \/ /\ Fault
          /\ Finish(r, "error")
          /\ UNCHANGED tasks
    /\ UNCHANGED <<holder, mails, transfers, overtaken>>

\* The lender of the record is the owner; without an account the page raises.
\* A failing insert is not noticed.
TransferDevice(r) ==
    /\ req[r].step = "transfer"
    /\ \/ /\ NoFault
          /\ Owner[req[r].dev] \in Users
          /\ transfers' = transfers \cup {r}
          /\ Finish(r, "success")
       \/ /\ NoFault
          /\ Owner[req[r].dev] \notin Users
          /\ Finish(r, "error")
          /\ UNCHANGED transfers
       \/ /\ Fault
          /\ \E why \in {"success", "error"} : Finish(r, why)
          /\ UNCHANGED transfers
    /\ UNCHANGED <<holder, mails, tasks, overtaken>>

-----------------------------------------------------------------------------
Handle(r) ==
    \/ find_one(r) \/ update_one(r) \/ dut_change_user_email(r)
    \/ async_initialdutports(r) \/ TransferDevice(r)

Arrival(r) == \E k \in Kinds, n \in Names, i \in Ids : Arrive(r, k, n, i)

Next == \E r \in Requests : Arrival(r) \/ Handle(r)

Spec == Init /\ [][Next]_vars

-----------------------------------------------------------------------------
(***************************************************************************)
(* Properties.                                                             *)
(***************************************************************************)
L == INSTANCE Lending WITH Devices <- Devices, Names <- Names, Owner <- Owner, holder <- holder

\* A write that does more than lending allows, and why.
WriteOf(r) == update_one(r) /\ holder' # holder
\* dutborrow does not look at the holder; the page asks the user to.
PageBorrow(r) == WriteOf(r) /\ req[r].kind = "page_borrow"
\* The holder has changed since the handler looked at it.
StaleBorrow(r) == WriteOf(r) /\ holder[req[r].dev] # req[r].seen
\* The holder is not the owner, but his name occurs in the text of `Owner'.
MistakenBorrow(r) ==
    /\ WriteOf(r)
    /\ holder[req[r].dev] \in Contained[req[r].dev] \ {Owner[req[r].dev]}

\* A device that is lent is not lent on before it has come back, except by the
\* page, by a handler whose read is out of date, and from a holder whose name
\* occurs in the owner's: there is no fourth way, in any interleaving of the
\* reads and writes of the handlers, and with outages.
LendingIsRespected ==
    L!Init /\ [][L!Next \/ \E r \in Requests :
                    PageBorrow(r) \/ StaleBorrow(r) \/ MistakenBorrow(r)]_holder

\* `Check if device can be borrowed': the API and the AI search never lend a
\* device that is away from its owner.
OnlyFreeIsLent == L!Init /\ [][L!Next \/ \E r \in Requests : PageBorrow(r)]_holder

\* Whoever has a device that is not his asked for that very device with a
\* request that was not refused: no outage, mix-up of the two collections or
\* interleaving of handlers gives it to anybody else.
HolderAccountable ==
    \A d \in Devices : holder[d] # Owner[d] =>
        \E r \in Requests : /\ req[r].kind \in Borrows
                            /\ req[r].name = holder[d]
                            /\ req[r].id = d[2]
                            /\ req[r].outcome \notin {"refused", "not_found"}

\* The mail on a borrow, `<User> borrowed your VLAB device', names the one who
\* borrowed it, although its text is read from the database after the write;
\* or, when another request wrote the device in between, a name that one wrote.
MailNamesBorrower ==
    \A m \in mails :
        req[m.req].kind \in Borrows /\ Applied(m.req) =>
            \/ m.says = req[m.req].name
            \/ /\ m.req \in overtaken
               /\ \E q \in Requests \ {m.req} : /\ Applied(q)
                                                /\ req[q].dev = req[m.req].dev
                                                /\ m.says = NewUser(q)

\* Whoever loses a device to a borrower is told, unless another request wrote
\* the device while this one was at work: the recipient is looked up by the
\* name that was read, the device is taken from the one that is there when
\* `User' is written.
LoserIsTold ==
    \A r \in Requests \ overtaken :
        /\ req[r].kind \in {"borrow", "page_borrow"}
        /\ req[r].outcome = "success"
        /\ req[r].loser \in Users
        /\ faults = 0
        => \E m \in mails : m.req = r /\ m.to = req[r].loser

\* A page that has moved a device also sent the mail, queued the ports and
\* recorded the transfer, unless a service was down or the device came from,
\* or belongs to, a name without an account: dutborrow and dutreturn fail
\* halfway for no other reason.
PageComplete ==
    \A r \in Requests :
        /\ req[r].kind \in Pages
        /\ req[r].step = "done"
        /\ Applied(r)
        /\ faults = 0
        /\ {req[r].seen, Owner[req[r].dev]} \subseteq Users
        => r \in tasks /\ r \in transfers /\ \E m \in mails : m.req = r
=============================================================================
