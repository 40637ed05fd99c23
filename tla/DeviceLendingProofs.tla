------------------------ MODULE DeviceLendingProofs ------------------------
(***************************************************************************)
(* Theorems about lending, for any devices, users and requests.            *)
(*                                                                         *)
(* Every step of a handler replaces the local state of one request.  The   *)
(* lemmas named ...Shape say by which state, so that the invariants are    *)
(* proved from five shapes and not from the actions' text.                 *)
(***************************************************************************)
EXTENDS DeviceLending, TLAPS

\* The document of q was found and is the one that q names.
Located(q) == q.dev \in Devices /\ q.dev[2] = q.id /\ q.seen \in Names

\* What a request has fixed by the time it reaches a step.
RequestInv(q) ==
    /\ q.step # "idle" => q.kind \in Kinds /\ q.name \in Names /\ q.id \in Ids
    /\ q.step \in {"update", "notify", "ports", "transfer"} => Located(q)
    /\ q.step \in {"idle", "find", "update"} => q.loser = NoName
    /\ q.loser # NoName => Located(q) /\ q.outcome \notin {"refused", "not_found"}
    /\ q.step \in {"ports", "transfer"} => q.kind \in Pages
    /\ q.step = "notify" /\ q.kind \notin Pages => q.loser # NoName
    /\ q.outcome = "success" /\ q.kind \notin Pages => q.loser # NoName
    /\ q.step = "done" <=> q.outcome # "none"

\* A device is away from its owner because of a write of its holder's request.
HolderInv ==
    \A d \in Devices : holder[d] # Owner[d] =>
        \E r \in Requests : /\ Applied(r)
                            /\ req[r].kind \in Borrows
                            /\ req[r].name = holder[d]
                            /\ req[r].dev = d

\* What a page has done after a write, step by step.
Unhindered(r) ==
    /\ req[r].kind \in Pages
    /\ Applied(r)
    /\ faults = 0
    /\ {req[r].seen, Owner[req[r].dev]} \subseteq Users
Paged(r) ==
    Unhindered(r) =>
        /\ req[r].step \in {"ports", "transfer", "done"} => \E m \in mails : m.req = r
        /\ req[r].step \in {"transfer", "done"} => r \in tasks
        /\ req[r].step = "done" => r \in transfers
PageInv == \A r \in Requests : Paged(r)

\* The inductive invariant about requests, holders and pages.
LendInv ==
    /\ TypeOK
    /\ \A r \in Requests : RequestInv(req[r])
    /\ HolderInv
    /\ PageInv

-----------------------------------------------------------------------------
(***************************************************************************)
(* The shapes of the steps.                                                *)
(***************************************************************************)
SameCaller(n, q) == n.kind = q.kind /\ n.name = q.name /\ n.id = q.id
SameDocument(n, q) == SameCaller(n, q) /\ n.dev = q.dev /\ n.seen = q.seen

\* A document that was read is one of the devices with the id asked for.
LEMMA FoundLocated ==
  ASSUME NEW d, NEW i, NEW k, Found(d, i, k)
  PROVE  d \in Devices /\ d[2] = i
BY DEF Found

LEMMA DecideShape ==
  ASSUME TypeOK, NEW r \in Requests, NEW d \in Devices,
         d[2] = req[r].id, req[r].loser = NoName, req[r].outcome = "none",
         req[r].kind \in Kinds, Decide(r, d)
  PROVE  \E n \in Request :
            /\ req' = [req EXCEPT ![r] = n]
            /\ SameCaller(n, req[r]) /\ n.loser = NoName
            /\ Located(n) /\ n.seen = holder[n.dev]
            /\ \/ /\ n.step = "update" /\ n.outcome = "none"
                  /\ n.kind \in {"borrow", "ai"} => n.seen \in Contained[n.dev]
               \/ n.step = "done" /\ n.outcome \in {"refused", "not_found", "error"}
<1> DEFINE q == req[r]
           missing == IF q.kind \in Pages THEN "error" ELSE "not_found"
           refused == [q EXCEPT !.dev = d, !.seen = holder[d], !.step = "done",
                                !.outcome = "refused"]
           lost == [q EXCEPT !.dev = d, !.seen = holder[d], !.step = "done",
                             !.outcome = missing]
           goes == [q EXCEPT !.dev = d, !.seen = holder[d], !.step = "update"]
<1>0. req \in [Requests -> Request] /\ q \in Request /\ holder[d] \in Names
  BY DEF TypeOK
<1>1. /\ refused \in Request /\ lost \in Request /\ goes \in Request
  <2>1. refused \in Request
    BY <1>0 DEF Request, Steps, Outcomes
  <2>2. lost \in Request
    <3>1. missing \in Outcomes
      BY DEF Outcomes
    <3>2. ASSUME NEW o \in Outcomes
          PROVE  [q EXCEPT !.dev = d, !.seen = holder[d], !.step = "done", !.outcome = o] \in Request
      <4> HIDE DEF q
      <4> QED
        BY <1>0 DEF Request, Steps
    <3> HIDE DEF missing
    <3> QED
      BY <3>1, <3>2
  <2>3. goes \in Request
    BY <1>0 DEF Request, Steps, Outcomes
  <2> QED
    BY <2>1, <2>2, <2>3
<1>2. /\ \A n \in {refused, lost, goes} :
            /\ SameCaller(n, q) /\ n.loser = NoName /\ n.dev = d /\ n.seen = holder[d]
      /\ refused.step = "done" /\ refused.outcome = "refused"
      /\ lost.step = "done" /\ lost.outcome \in {"not_found", "error"}
      /\ goes.step = "update" /\ goes.outcome = "none"
  BY <1>0 DEF Request, SameCaller
<1>3. \/ req' = [req EXCEPT ![r] = refused]
      \/ req' = [req EXCEPT ![r] = lost]
      \/ /\ req' = [req EXCEPT ![r] = goes]
         /\ q.kind \in {"borrow", "ai"} => holder[d] \in Contained[d]
  <2> DEFINE taken == q.kind \in {"borrow", "ai"} /\ ~(holder[d] \in Contained[d])
             gone == q.kind \in Returns /\ ~(Owner[d] \in Users)
  <2>1. req' = [req EXCEPT ![r] = CASE taken -> refused [] gone -> lost [] OTHER -> goes]
    BY Zenon DEF Decide
  <2> HIDE DEF refused, lost, goes
  <2>2. gone => ~taken
    BY DEF Returns
  <2>3. CASE taken
    <3>1. (CASE taken -> refused [] gone -> lost [] OTHER -> goes) = refused
      BY <2>2, <2>3
    <3> QED
      BY <2>1, <3>1
  <2>4. CASE ~taken /\ gone
    <3>1. (CASE taken -> refused [] gone -> lost [] OTHER -> goes) = lost
      BY <2>2, <2>4
    <3> QED
      BY <2>1, <3>1
  <2>5. CASE ~taken /\ ~gone
    <3>1. (CASE taken -> refused [] gone -> lost [] OTHER -> goes) = goes
      BY <2>5
    <3> QED
      BY <2>1, <2>5, <3>1
  <2> QED
    BY <2>3, <2>4, <2>5
<1> HIDE DEF refused, lost, goes
<1>4. CASE req' = [req EXCEPT ![r] = refused]
  BY <1>0, <1>1, <1>2, <1>4 DEF SameCaller, Located
<1>5. CASE req' = [req EXCEPT ![r] = lost]
  BY <1>0, <1>1, <1>2, <1>5 DEF SameCaller, Located
<1>6. CASE /\ req' = [req EXCEPT ![r] = goes]
           /\ q.kind \in {"borrow", "ai"} => holder[d] \in Contained[d]
  BY <1>0, <1>1, <1>2, <1>6 DEF SameCaller, Located
<1> QED
  BY <1>3, <1>4, <1>5, <1>6

\* The end of a request.
LEMMA FinishShape ==
  ASSUME TypeOK, NEW r \in Requests, NEW why \in Outcomes, Finish(r, why)
  PROVE  \E n \in Request :
            /\ req' = [req EXCEPT ![r] = n]
            /\ SameDocument(n, req[r]) /\ n.loser = req[r].loser
            /\ n.step = "done" /\ n.outcome = why
<1> DEFINE n == [req[r] EXCEPT !.step = "done", !.outcome = why]
<1>0. req \in [Requests -> Request] /\ req[r] \in Request
  BY DEF TypeOK
<1>1. n \in Request
  BY <1>0 DEF Request, Steps
<1>2. req' = [req EXCEPT ![r] = n]
  BY <1>0 DEF Finish, Request
<1>3. /\ SameDocument(n, req[r]) /\ n.loser = req[r].loser
      /\ n.step = "done" /\ n.outcome = why
  BY <1>0 DEF Request, SameDocument, SameCaller
<1> HIDE DEF n
<1> QED
  BY <1>1, <1>2, <1>3

\* A request whose document is unread is decided upon or ends.
LEMMA FindShape ==
  ASSUME TypeOK, NEW r \in Requests, RequestInv(req[r]), find_one(r)
  PROVE  /\ req[r].step = "find"
         /\ UNCHANGED <<holder, mails, tasks, transfers, overtaken>>
         /\ faults' \in {faults, faults + 1} /\ faults' \in 0..MaxFaults
         /\ \E n \in Request :
              /\ req' = [req EXCEPT ![r] = n]
              /\ SameCaller(n, req[r]) /\ n.loser = NoName
              /\ \/ /\ Located(n) /\ n.seen = holder[n.dev]
                    /\ n.step = "update" /\ n.outcome = "none"
                    /\ n.kind \in {"borrow", "ai"} => n.seen \in Contained[n.dev]
                 \/ n.step = "done" /\ n.outcome \in {"refused", "not_found", "error"}
<1>0. /\ req[r].loser = NoName /\ req[r].outcome = "none" /\ req[r].kind \in Kinds
      /\ req[r].id \in Ids
  BY DEF find_one, RequestInv
<1>1. /\ req[r].step = "find"
      /\ UNCHANGED <<holder, mails, tasks, transfers, overtaken>>
      /\ faults' \in {faults, faults + 1} /\ faults' \in 0..MaxFaults
  BY SetupAssumption DEF find_one, TypeOK, Fault, NoFault
<1>2. \/ \E d \in Devices : d[2] = req[r].id /\ Decide(r, d)
      \/ \E why \in {"not_found", "error"} : Finish(r, why)
  <2>1. CASE \E d \in Devices : Found(d, req[r].id, req[r].kind) /\ Decide(r, d)
    BY <2>1, FoundLocated
  <2>2. CASE /\ req[r].id \in DUTs \cap SonicPoints
             /\ Decide(r, <<"SonicPoint", req[r].id>>)
    BY <2>2 DEF Devices
  <2> QED
    BY <2>1, <2>2 DEF find_one
<1>3. CASE \E d \in Devices : d[2] = req[r].id /\ Decide(r, d)
  BY <1>0, <1>1, <1>3, DecideShape
<1>4. CASE \E why \in {"not_found", "error"} : Finish(r, why)
  BY <1>0, <1>1, <1>4, FinishShape DEF Outcomes, SameDocument
<1> QED
  BY <1>2, <1>3, <1>4

\* A write takes effect or not, and is answered or not: without an answer a
\* page goes on, the others end.
LEMMA UpdateShape ==
  ASSUME TypeOK, NEW r \in Requests, RequestInv(req[r]), update_one(r)
  PROVE  /\ req[r].step = "update"
         /\ UNCHANGED <<mails, tasks, transfers>>
         /\ faults' \in {faults, faults + 1} /\ faults' \in 0..MaxFaults
         /\ NewUser(r) \in Names
         /\ \E n \in Request :
              /\ req' = [req EXCEPT ![r] = n]
              /\ SameDocument(n, req[r])
              /\ \/ /\ holder' = [holder EXCEPT ![req[r].dev] = NewUser(r)]
                    /\ overtaken' = overtaken \cup Reading(r)
                    /\ n.loser = holder[req[r].dev] /\ n.loser # NoName
                 \/ /\ UNCHANGED <<holder, overtaken>>
                    /\ n.loser = NoName
                    /\ faults' = faults + 1
              /\ \/ n.step = "notify" /\ n.outcome = "none" /\ n.kind # "ai"
                    /\ (n.loser # NoName \/ n.kind \in Pages)
                 \/ n.step = "done" /\ n.outcome = "success" /\ n.kind = "ai" /\ n.loser # NoName
                 \/ n.step = "done" /\ n.outcome = "error" /\ n.kind \notin Pages
<1> DEFINE q == req[r]
           ends == IF q.kind = "ai" THEN "success" ELSE "none"
           next == AfterUpdate(q.kind)
           goes(loser) == [q EXCEPT !.loser = loser, !.step = next, !.outcome = ends]
           stops(loser) == [q EXCEPT !.loser = loser, !.step = "done", !.outcome = "error"]
<1>0. /\ req \in [Requests -> Request] /\ q \in Request
      /\ q.step = "update" /\ q.loser = NoName /\ q.outcome = "none"
      /\ Located(q) /\ q.name \in Names
  BY DEF TypeOK, update_one, RequestInv
<1>1. /\ q.step = "update"
      /\ UNCHANGED <<mails, tasks, transfers>>
      /\ faults' \in {faults, faults + 1} /\ faults' \in 0..MaxFaults
  BY SetupAssumption DEF update_one, TypeOK, Fault, NoFault
<1>2. NewUser(r) \in Names
  BY <1>0, SetupAssumption DEF NewUser, Located
<1>3. holder[q.dev] \in Names /\ holder[q.dev] # NoName
  BY <1>0, SetupAssumption DEF TypeOK, Located
<1>4. ends \in Outcomes /\ next \in Steps
  BY DEF Outcomes, Steps, AfterUpdate
<1>5. /\ q.kind = "ai" => next = "done" /\ ends = "success"
      /\ q.kind # "ai" => next = "notify" /\ ends = "none"
      /\ q.kind \in Pages => q.kind # "ai"
  BY DEF AfterUpdate, Pages
<1>6. PICK loser \in {holder[q.dev], NoName} :
        /\ \/ Write(r) /\ loser = holder[q.dev]
           \/ UNCHANGED <<holder, overtaken>> /\ loser = NoName /\ faults' = faults + 1
        /\ \/ GoesOn(r, loser) /\ (loser = holder[q.dev] \/ q.kind \in Pages)
           \/ /\ q.kind \notin Pages
              /\ req' = [req EXCEPT ![r].loser = loser, ![r].step = "done", ![r].outcome = "error"]
  BY DEF update_one, Unanswered, Fault, IgnoresResult
<1>7. loser \in Names \cup {NoName}
  BY <1>3
<1>8. \/ req' = [req EXCEPT ![r] = goes(loser)] /\ (loser = holder[q.dev] \/ q.kind \in Pages)
      \/ req' = [req EXCEPT ![r] = stops(loser)] /\ q.kind \notin Pages
  BY <1>0, <1>6 DEF GoesOn, Request
<1> HIDE DEF ends, next
<1>9. CASE req' = [req EXCEPT ![r] = goes(loser)] /\ (loser = holder[q.dev] \/ q.kind \in Pages)
  <2> DEFINE n == goes(loser)
  <2>1. n \in Request
    BY <1>0, <1>4, <1>7 DEF Request
  <2>2. /\ SameDocument(n, q) /\ n.loser = loser /\ n.step = next /\ n.outcome = ends
    BY <1>0 DEF Request, SameDocument, SameCaller
  <2>3. req' = [req EXCEPT ![r] = n]
    BY <1>9
  <2> HIDE DEF n
  <2> QED
    BY <1>1, <1>2, <1>3, <1>5, <1>6, <1>9, <2>1, <2>2, <2>3 DEF SameDocument, SameCaller, Write
<1>10. CASE req' = [req EXCEPT ![r] = stops(loser)] /\ q.kind \notin Pages
  <2> DEFINE n == stops(loser)
  <2>1. n \in Request
    BY <1>0, <1>7 DEF Request, Steps, Outcomes
  <2>2. /\ SameDocument(n, q) /\ n.loser = loser /\ n.step = "done" /\ n.outcome = "error"
    BY <1>0 DEF Request, SameDocument, SameCaller
  <2>3. req' = [req EXCEPT ![r] = n]
    BY <1>10
  <2> HIDE DEF n
  <2> QED
    BY <1>1, <1>2, <1>3, <1>6, <1>10, <2>1, <2>2, <2>3 DEF SameDocument, SameCaller, Write
<1> QED
  BY <1>8, <1>9, <1>10

\* After the mail a page goes on to the ports, the others succeed.
LEMMA ToldShape ==
  ASSUME TypeOK, NEW r \in Requests, Told(r)
  PROVE  \E n \in Request :
            /\ req' = [req EXCEPT ![r] = n]
            /\ SameDocument(n, req[r]) /\ n.loser = req[r].loser
            /\ IF n.kind \in Pages THEN n.step = "ports" /\ n.outcome = "none"
                                   ELSE n.step = "done" /\ n.outcome = "success"
<1> DEFINE q == req[r]
           next == IF q.kind \in Pages THEN "ports" ELSE "done"
           ends == IF q.kind \in Pages THEN "none" ELSE "success"
           n == [q EXCEPT !.step = next, !.outcome = ends]
<1>0. req \in [Requests -> Request] /\ q \in Request
  BY DEF TypeOK
<1>1. ends \in Outcomes /\ next \in Steps
  BY DEF Outcomes, Steps
<1>2. /\ q.kind \in Pages => next = "ports" /\ ends = "none"
      /\ q.kind \notin Pages => next = "done" /\ ends = "success"
  OBVIOUS
<1>3. req' = [req EXCEPT ![r] = n]
  BY <1>0 DEF Told, Request
<1> HIDE DEF next, ends
<1>4. n \in Request
  BY <1>0, <1>1 DEF Request
<1>5. /\ SameDocument(n, q) /\ n.loser = q.loser
      /\ n.step = next /\ n.outcome = ends
  BY <1>0 DEF Request, SameDocument, SameCaller
<1> HIDE DEF n
<1> QED
  BY <1>2, <1>3, <1>4, <1>5 DEF SameDocument, SameCaller

\* Without an outage a page that can tell the recipient goes on with a mail
\* sent, whatever a request does here keeps its document and its loser.
LEMMA MailShape ==
  ASSUME TypeOK, NEW r \in Requests, RequestInv(req[r]), dut_change_user_email(r)
  PROVE  /\ req[r].step = "notify"
         /\ UNCHANGED <<holder, tasks, transfers, overtaken>>
         /\ faults' \in {faults, faults + 1} /\ faults' \in 0..MaxFaults
         /\ mails' \in {mails, mails \cup {[req |-> r, to |-> Recipient(r), says |-> Says(r)]}}
         /\ mails' \subseteq Mail
         /\ \E n \in Request :
              /\ req' = [req EXCEPT ![r] = n]
              /\ SameDocument(n, req[r]) /\ n.loser = req[r].loser
              /\ \/ n.kind \in Pages /\ n.step = "ports" /\ n.outcome = "none"
                 \/ n.kind \notin Pages /\ n.step = "done" /\ n.outcome = "success"
                 \/ n.step = "done" /\ n.outcome = "error"
              /\ faults' = faults /\ Recipient(r) \in Users =>
                   /\ mails' = mails \cup {[req |-> r, to |-> Recipient(r), says |-> Says(r)]}
                   /\ n.outcome # "error"
<1> DEFINE q == req[r]
           mail == [req |-> r, to |-> Recipient(r), says |-> Says(r)]
<1>0. /\ Located(q) /\ q.name \in Names /\ faults \in 0..MaxFaults
      /\ Says(r) \in Names
  BY DEF TypeOK, dut_change_user_email, RequestInv, Located, Says
<1>1. /\ q.step = "notify"
      /\ UNCHANGED <<holder, tasks, transfers, overtaken>>
      /\ faults' \in {faults, faults + 1} /\ faults' \in 0..MaxFaults
      /\ mails' \in {mails, mails \cup {mail}}
  BY SetupAssumption DEF dut_change_user_email, TypeOK, Fault, NoFault
<1>2. \/ faults' = faults /\ Recipient(r) \in Users /\ mails' = mails \cup {mail} /\ Told(r)
      \/ faults' = faults /\ Recipient(r) \notin Users /\ UNCHANGED mails
         /\ (Told(r) \/ Finish(r, "error"))
      \/ faults' = faults + 1 /\ UNCHANGED mails /\ (Told(r) \/ Finish(r, "error"))
  BY DEF dut_change_user_email, Fault, NoFault
<1>3. faults + 1 # faults
  BY <1>0, SetupAssumption
<1>4. mails' \subseteq Mail
  BY <1>0, <1>2 DEF TypeOK, Mail
<1>5. CASE Told(r)
  <2>1. faults' = faults /\ Recipient(r) \in Users => mails' = mails \cup {mail}
    BY <1>2, <1>3
  <2> HIDE DEF mail
  <2> QED
    BY <1>1, <1>4, <1>5, <2>1, ToldShape DEF SameDocument, SameCaller, mail
<1>6. CASE Finish(r, "error") /\ ~(faults' = faults /\ Recipient(r) \in Users)
  BY <1>1, <1>4, <1>6, FinishShape DEF Outcomes, SameDocument, SameCaller
<1> QED
  BY <1>2, <1>3, <1>5, <1>6

\* The ports are queued, or an outage ends the request.
LEMMA PortsShape ==
  ASSUME TypeOK, NEW r \in Requests, RequestInv(req[r]), async_initialdutports(r)
  PROVE  /\ req[r].step = "ports"
         /\ UNCHANGED <<holder, mails, transfers, overtaken>>
         /\ faults' \in {faults, faults + 1} /\ faults' \in 0..MaxFaults
         /\ tasks' \in {tasks, tasks \cup {r}}
         /\ \E n \in Request :
              /\ req' = [req EXCEPT ![r] = n]
              /\ SameDocument(n, req[r]) /\ n.loser = req[r].loser
              /\ \/ n.step = "transfer" /\ n.outcome = "none" /\ r \in tasks'
                 \/ n.step = "done" /\ n.outcome = "error" /\ faults' = faults + 1
<1> DEFINE q == req[r]
           goes == [q EXCEPT !.step = "transfer"]
<1>0. /\ req \in [Requests -> Request] /\ q \in Request /\ q.outcome = "none"
  BY DEF TypeOK, async_initialdutports, RequestInv
<1>1. /\ q.step = "ports"
      /\ UNCHANGED <<holder, mails, transfers, overtaken>>
      /\ faults' \in {faults, faults + 1} /\ faults' \in 0..MaxFaults
      /\ tasks' \in {tasks, tasks \cup {r}}
  BY SetupAssumption DEF async_initialdutports, TypeOK, Fault, NoFault
<1>2. \/ r \in tasks' /\ req' = [req EXCEPT ![r] = goes]
      \/ faults' = faults + 1 /\ Finish(r, "error")
  BY <1>0 DEF async_initialdutports, Fault
<1>3. CASE r \in tasks' /\ req' = [req EXCEPT ![r] = goes]
  <2>1. goes \in Request
    BY <1>0 DEF Request, Steps
  <2>2. /\ SameDocument(goes, q) /\ goes.loser = q.loser
        /\ goes.step = "transfer" /\ goes.outcome = "none"
    BY <1>0 DEF Request, SameDocument, SameCaller
  <2> HIDE DEF goes
  <2> QED
    BY <1>1, <1>3, <2>1, <2>2
<1>4. CASE faults' = faults + 1 /\ Finish(r, "error")
  BY <1>1, <1>4, FinishShape DEF Outcomes
<1> QED
  BY <1>2, <1>3, <1>4

\* Without an outage the transfer of an owner with an account is recorded.
LEMMA TransferShape ==
  ASSUME TypeOK, NEW r \in Requests, RequestInv(req[r]), TransferDevice(r)
  PROVE  /\ req[r].step = "transfer"
         /\ UNCHANGED <<holder, mails, tasks, overtaken>>
         /\ faults' \in {faults, faults + 1} /\ faults' \in 0..MaxFaults
         /\ transfers' \in {transfers, transfers \cup {r}}
         /\ faults' = faults /\ Owner[req[r].dev] \in Users => r \in transfers'
         /\ \E n \in Request :
              /\ req' = [req EXCEPT ![r] = n]
              /\ SameDocument(n, req[r]) /\ n.loser = req[r].loser
              /\ n.step = "done" /\ n.outcome \in {"success", "error"}
<1>1. /\ req[r].step = "transfer"
      /\ UNCHANGED <<holder, mails, tasks, overtaken>>
      /\ faults' \in {faults, faults + 1} /\ faults' \in 0..MaxFaults
      /\ transfers' \in {transfers, transfers \cup {r}}
      /\ faults' = faults /\ Owner[req[r].dev] \in Users => r \in transfers'
  BY SetupAssumption DEF TransferDevice, TypeOK, Fault, NoFault
<1>2. \E why \in {"success", "error"} : Finish(r, why)
  BY DEF TransferDevice
<1> QED
  BY <1>1, <1>2, FinishShape DEF Outcomes

\* A request arrives with nothing found, lost or decided.
LEMMA ArriveShape ==
  ASSUME TypeOK, NEW r \in Requests, NEW k \in Kinds, NEW i \in Ids, NEW u \in Names,
         Arrive(r, k, u, i)
  PROVE  /\ req[r].step = "idle"
         /\ UNCHANGED <<holder, mails, tasks, transfers, overtaken, faults>>
         /\ \E n \in Request :
              /\ req' = [req EXCEPT ![r] = n]
              /\ n.kind = k /\ n.name = u /\ n.id = i
              /\ n.loser = NoName /\ n.step = "find" /\ n.outcome = "none"
<1> DEFINE n == [IdleRequest EXCEPT !.kind = k, !.name = u, !.id = i, !.step = "find"]
<1>1. /\ IdleRequest \in Request
      /\ IdleRequest.loser = NoName /\ IdleRequest.outcome = "none"
  BY DEF IdleRequest, Request, Steps, Outcomes
<1>2. req' = [req EXCEPT ![r] = n]
  BY DEF Arrive
<1>3. n \in Request
  BY <1>1 DEF Request, Steps
<1>4. /\ n.kind = k /\ n.name = u /\ n.id = i
      /\ n.loser = NoName /\ n.step = "find" /\ n.outcome = "none"
  BY <1>1 DEF Request
<1> HIDE DEF n
<1> QED
  BY <1>2, <1>3, <1>4 DEF Arrive

-----------------------------------------------------------------------------
(***************************************************************************)
(* The invariant about requests, holders and pages.                        *)
(***************************************************************************)
LEMMA OneRequest ==
  ASSUME TypeOK, NEW r \in Requests, NEW n \in Request, req' = [req EXCEPT ![r] = n]
  PROVE  /\ req' \in [Requests -> Request]
         /\ req'[r] = n
         /\ \A q \in Requests \ {r} : req'[q] = req[q]
BY DEF TypeOK

\* The invariants about single requests carry over to all but one.
LEMMA OthersKept ==
  ASSUME LendInv, NEW r \in Requests, NEW n \in Request, req' = [req EXCEPT ![r] = n],
         mails \subseteq mails', tasks \subseteq tasks', transfers \subseteq transfers',
         faults' = 0 => faults = 0,
         RequestInv(n), Paged(r)'
  PROVE  (\A q \in Requests : RequestInv(req[q]))' /\ PageInv'
<1>1. /\ req'[r] = n
      /\ \A q \in Requests \ {r} : req'[q] = req[q]
  BY OneRequest DEF LendInv
<1>2. (\A q \in Requests : RequestInv(req[q]))'
  BY <1>1 DEF LendInv
<1>3. ASSUME NEW q \in Requests \ {r}
      PROVE  Paged(q)'
  <2>1. Paged(q) /\ req'[q] = req[q]
    BY <1>1 DEF LendInv, PageInv
  <2> QED
    BY <2>1 DEF Paged, Unhindered, Applied
<1> QED
  BY <1>2, <1>3 DEF PageInv

\* A request that keeps what it has written keeps its claim to a device.
LEMMA HolderKept ==
  ASSUME LendInv, NEW r \in Requests, NEW n \in Request, req' = [req EXCEPT ![r] = n],
         UNCHANGED holder,
         Applied(r) => SameDocument(n, req[r]) /\ n.loser = req[r].loser
  PROVE  HolderInv'
<1>1. /\ req'[r] = n
      /\ \A q \in Requests \ {r} : req'[q] = req[q]
  BY OneRequest DEF LendInv
<1>2. \A q \in Requests : Applied(q) =>
         /\ req'[q].loser = req[q].loser /\ req'[q].kind = req[q].kind
         /\ req'[q].name = req[q].name /\ req'[q].dev = req[q].dev
  BY <1>1 DEF SameDocument, SameCaller
<1> QED
  BY <1>2 DEF LendInv, HolderInv, Applied

LEMMA ArriveKeeps ==
  ASSUME LendInv, NEW r \in Requests, NEW k \in Kinds, NEW i \in Ids, NEW u \in Names,
         Arrive(r, k, u, i)
  PROVE  LendInv'
<1>0. TypeOK /\ RequestInv(req[r])
  BY DEF LendInv
<1>1. /\ req[r].step = "idle"
      /\ UNCHANGED <<holder, mails, tasks, transfers, overtaken, faults>>
  BY <1>0, ArriveShape
<1>2. PICK n \in Request :
              /\ req' = [req EXCEPT ![r] = n]
              /\ n.kind = k /\ n.name = u /\ n.id = i
              /\ n.loser = NoName /\ n.step = "find" /\ n.outcome = "none"
  BY <1>0, ArriveShape
<1>3. req'[r] = n /\ TypeOK'
  BY <1>0, <1>1, <1>2, OneRequest DEF TypeOK
<1>4. RequestInv(n) /\ Paged(r)'
  BY <1>2, <1>3 DEF RequestInv, Paged, Unhindered, Applied
<1>5. HolderInv'
  BY <1>0, <1>1, <1>2, HolderKept DEF RequestInv, Applied
<1> QED
  BY <1>1, <1>2, <1>3, <1>4, <1>5, OthersKept DEF LendInv

LEMMA FindKeeps ==
  ASSUME LendInv, NEW r \in Requests, find_one(r)
  PROVE  LendInv'
<1>0. TypeOK /\ RequestInv(req[r])
  BY DEF LendInv
<1>1. /\ req[r].step = "find"
      /\ UNCHANGED <<holder, mails, tasks, transfers, overtaken>>
      /\ faults' \in {faults, faults + 1} /\ faults' \in 0..MaxFaults
  BY <1>0, FindShape
<1>2. PICK n \in Request :
              /\ req' = [req EXCEPT ![r] = n]
              /\ SameCaller(n, req[r]) /\ n.loser = NoName
              /\ \/ /\ Located(n) /\ n.seen = holder[n.dev]
                    /\ n.step = "update" /\ n.outcome = "none"
                    /\ n.kind \in {"borrow", "ai"} => n.seen \in Contained[n.dev]
                 \/ n.step = "done" /\ n.outcome \in {"refused", "not_found", "error"}
  BY <1>0, FindShape
<1>3. req'[r] = n /\ TypeOK'
  BY <1>0, <1>1, <1>2, OneRequest DEF TypeOK
<1>4. RequestInv(n) /\ Paged(r)'
  BY <1>0, <1>1, <1>2, <1>3 DEF RequestInv, Paged, Unhindered, Applied, SameCaller
<1>5. HolderInv'
  BY <1>0, <1>1, <1>2, HolderKept DEF RequestInv, Applied
<1>6. faults' = 0 => faults = 0
  BY <1>0, <1>1, SetupAssumption DEF TypeOK
<1> QED
  BY <1>1, <1>2, <1>3, <1>4, <1>5, <1>6, OthersKept DEF LendInv

LEMMA UpdateKeeps ==
  ASSUME LendInv, NEW r \in Requests, update_one(r)
  PROVE  LendInv'
<1>0. TypeOK /\ RequestInv(req[r])
  BY DEF LendInv
<1>1. /\ req[r].step = "update"
      /\ UNCHANGED <<mails, tasks, transfers>>
      /\ faults' \in {faults, faults + 1} /\ faults' \in 0..MaxFaults
      /\ NewUser(r) \in Names
  BY <1>0, UpdateShape
<1>2. PICK n \in Request :
              /\ req' = [req EXCEPT ![r] = n]
              /\ SameDocument(n, req[r])
              /\ \/ /\ holder' = [holder EXCEPT ![req[r].dev] = NewUser(r)]
                    /\ overtaken' = overtaken \cup Reading(r)
                    /\ n.loser = holder[req[r].dev] /\ n.loser # NoName
                 \/ /\ UNCHANGED <<holder, overtaken>>
                    /\ n.loser = NoName
                    /\ faults' = faults + 1
              /\ \/ n.step = "notify" /\ n.outcome = "none" /\ n.kind # "ai"
                    /\ (n.loser # NoName \/ n.kind \in Pages)
                 \/ n.step = "done" /\ n.outcome = "success" /\ n.kind = "ai" /\ n.loser # NoName
                 \/ n.step = "done" /\ n.outcome = "error" /\ n.kind \notin Pages
  BY <1>0, UpdateShape
<1>3. req'[r] = n /\ (\A q \in Requests \ {r} : req'[q] = req[q]) /\ TypeOK'
  <2>1. /\ req' \in [Requests -> Request] /\ req'[r] = n
        /\ \A q \in Requests \ {r} : req'[q] = req[q]
    BY <1>0, <1>2, OneRequest
  <2>2. holder' \in [Devices -> Names]
    BY <1>0, <1>1, <1>2 DEF TypeOK
  <2>3. overtaken' \subseteq Requests
    BY <1>0, <1>2 DEF TypeOK, Reading
  <2> QED
    BY <1>0, <1>1, <2>1, <2>2, <2>3 DEF TypeOK
<1>4. RequestInv(n)
  BY <1>0, <1>1, <1>2 DEF RequestInv, SameDocument, SameCaller, Located, Pages
<1>5. Paged(r)'
  BY <1>2, <1>3 DEF Paged, Unhindered, Applied, Pages
<1>6. req[r].loser = NoName /\ req[r].dev \in Devices
  BY <1>0, <1>1 DEF RequestInv, Located
<1>7. HolderInv'
  <2>1. CASE UNCHANGED holder
    BY <1>2, <1>6, <2>1, HolderKept DEF Applied
  <2>2. CASE /\ holder' = [holder EXCEPT ![req[r].dev] = NewUser(r)]
             /\ n.loser # NoName
    <3> SUFFICES ASSUME NEW d \in Devices, holder'[d] # Owner[d]
                 PROVE  \E q \in Requests : /\ Applied(q)'
                                            /\ req'[q].kind \in Borrows
                                            /\ req'[q].name = holder'[d]
                                            /\ req'[q].dev = d
      BY DEF HolderInv
    <3>1. CASE d = req[r].dev
      <4>1. holder'[d] = NewUser(r)
        BY <1>0, <1>6, <2>2, <3>1 DEF TypeOK
      <4>2. n.kind \in Borrows /\ n.name = holder'[d]
        BY <1>2, <3>1, <4>1 DEF NewUser, SameDocument, SameCaller
      <4> QED
        BY <1>2, <1>3, <2>2, <3>1, <4>2 DEF Applied, SameDocument
    <3>2. CASE d # req[r].dev
      <4>1. holder'[d] = holder[d]
        BY <1>0, <2>2, <3>2 DEF TypeOK
      <4>2. PICK q \in Requests : /\ Applied(q)
                                  /\ req[q].kind \in Borrows
                                  /\ req[q].name = holder[d]
                                  /\ req[q].dev = d
        BY <4>1 DEF LendInv, HolderInv
      <4>3. req'[q] = req[q]
        BY <1>3, <1>6, <4>2 DEF Applied
      <4> QED
        BY <4>1, <4>2, <4>3 DEF Applied
    <3> QED
      BY <3>1, <3>2
  <2> QED
    BY <1>2, <2>1, <2>2
<1>8. faults' = 0 => faults = 0
  BY <1>0, <1>1, SetupAssumption DEF TypeOK
<1> QED
  BY <1>1, <1>2, <1>3, <1>4, <1>5, <1>7, <1>8, OthersKept DEF LendInv

LEMMA MailKeeps ==
  ASSUME LendInv, NEW r \in Requests, dut_change_user_email(r)
  PROVE  LendInv'
<1>0. TypeOK /\ RequestInv(req[r]) /\ Paged(r)
  BY DEF LendInv, PageInv
<1> DEFINE mail == [req |-> r, to |-> Recipient(r), says |-> Says(r)]
<1>1. /\ req[r].step = "notify"
      /\ UNCHANGED <<holder, tasks, transfers, overtaken>>
      /\ faults' \in {faults, faults + 1} /\ faults' \in 0..MaxFaults
      /\ mails' \in {mails, mails \cup {mail}}
      /\ mails' \subseteq Mail
  BY <1>0, MailShape
<1>2. PICK n \in Request :
              /\ req' = [req EXCEPT ![r] = n]
              /\ SameDocument(n, req[r]) /\ n.loser = req[r].loser
              /\ \/ n.kind \in Pages /\ n.step = "ports" /\ n.outcome = "none"
                 \/ n.kind \notin Pages /\ n.step = "done" /\ n.outcome = "success"
                 \/ n.step = "done" /\ n.outcome = "error"
              /\ faults' = faults /\ Recipient(r) \in Users =>
                   /\ mails' = mails \cup {mail}
                   /\ n.outcome # "error"
  BY <1>0, MailShape
<1>3. req'[r] = n /\ TypeOK'
  BY <1>0, <1>1, <1>2, OneRequest DEF TypeOK
<1>4. RequestInv(n)
  BY <1>0, <1>1, <1>2 DEF RequestInv, SameDocument, SameCaller, Located
<1>5. faults' = 0 => faults = 0 /\ faults' = faults
  BY <1>0, <1>1, SetupAssumption DEF TypeOK
<1>6. Paged(r)'
  <2> SUFFICES ASSUME Unhindered(r)'
               PROVE  /\ \E m \in mails' : m.req = r
                      /\ n.step = "ports"
    BY <1>3 DEF Paged
  <2>1. /\ n.kind \in Pages /\ n.kind = req[r].kind /\ faults' = faults
        /\ {req[r].seen, Owner[req[r].dev]} \subseteq Users
    BY <1>2, <1>3, <1>5 DEF Unhindered, SameDocument, SameCaller
  <2>2. Recipient(r) \in Users
    BY <2>1 DEF Recipient
  <2>3. mail \in mails' /\ mail.req = r
    BY <1>2, <2>1, <2>2
  <2> QED
    BY <1>2, <2>1, <2>2, <2>3
<1>7. HolderInv'
  BY <1>1, <1>2, HolderKept
<1>8. mails \subseteq mails' /\ tasks \subseteq tasks' /\ transfers \subseteq transfers'
  BY <1>1
<1> QED
  BY <1>2, <1>3, <1>4, <1>5, <1>6, <1>7, <1>8, OthersKept DEF LendInv

LEMMA PortsKeeps ==
  ASSUME LendInv, NEW r \in Requests, async_initialdutports(r)
  PROVE  LendInv'
<1>0. TypeOK /\ RequestInv(req[r]) /\ Paged(r)
  BY DEF LendInv, PageInv
<1>1. /\ req[r].step = "ports"
      /\ UNCHANGED <<holder, mails, transfers, overtaken>>
      /\ faults' \in {faults, faults + 1} /\ faults' \in 0..MaxFaults
      /\ tasks' \in {tasks, tasks \cup {r}}
  BY <1>0, PortsShape
<1>2. PICK n \in Request :
              /\ req' = [req EXCEPT ![r] = n]
              /\ SameDocument(n, req[r]) /\ n.loser = req[r].loser
              /\ \/ n.step = "transfer" /\ n.outcome = "none" /\ r \in tasks'
                 \/ n.step = "done" /\ n.outcome = "error" /\ faults' = faults + 1
  BY <1>0, PortsShape
<1>3. req'[r] = n /\ TypeOK'
  BY <1>0, <1>1, <1>2, OneRequest DEF TypeOK
<1>4. RequestInv(n)
  BY <1>0, <1>1, <1>2 DEF RequestInv, SameDocument, SameCaller, Located
<1>5. /\ faults' = 0 => faults = 0
      /\ faults' = faults + 1 => faults' # 0
  BY <1>0, <1>1, SetupAssumption DEF TypeOK
<1>6. Paged(r)'
  BY <1>0, <1>1, <1>2, <1>3, <1>5 DEF Paged, Unhindered, Applied, SameDocument, SameCaller
<1>7. HolderInv'
  BY <1>1, <1>2, HolderKept
<1>8. mails \subseteq mails' /\ tasks \subseteq tasks' /\ transfers \subseteq transfers'
  BY <1>1
<1> QED
  BY <1>2, <1>3, <1>4, <1>5, <1>6, <1>7, <1>8, OthersKept DEF LendInv

LEMMA TransferKeeps ==
  ASSUME LendInv, NEW r \in Requests, TransferDevice(r)
  PROVE  LendInv'
<1>0. TypeOK /\ RequestInv(req[r]) /\ Paged(r)
  BY DEF LendInv, PageInv
<1>1. /\ req[r].step = "transfer"
      /\ UNCHANGED <<holder, mails, tasks, overtaken>>
      /\ faults' \in {faults, faults + 1} /\ faults' \in 0..MaxFaults
      /\ transfers' \in {transfers, transfers \cup {r}}
      /\ faults' = faults /\ Owner[req[r].dev] \in Users => r \in transfers'
  BY <1>0, TransferShape
<1>2. PICK n \in Request :
              /\ req' = [req EXCEPT ![r] = n]
              /\ SameDocument(n, req[r]) /\ n.loser = req[r].loser
              /\ n.step = "done" /\ n.outcome \in {"success", "error"}
  BY <1>0, TransferShape
<1>3. req'[r] = n /\ TypeOK'
  BY <1>0, <1>1, <1>2, OneRequest DEF TypeOK
<1>4. RequestInv(n)
  BY <1>0, <1>1, <1>2 DEF RequestInv, SameDocument, SameCaller, Located
<1>5. faults' = 0 => faults = 0 /\ faults' = faults
  BY <1>0, <1>1, SetupAssumption DEF TypeOK
<1>6. Paged(r)'
  BY <1>0, <1>1, <1>2, <1>3, <1>5 DEF Paged, Unhindered, Applied, SameDocument, SameCaller
<1>7. HolderInv'
  BY <1>1, <1>2, HolderKept
<1>8. mails \subseteq mails' /\ tasks \subseteq tasks' /\ transfers \subseteq transfers'
  BY <1>1
<1> QED
  BY <1>2, <1>3, <1>4, <1>5, <1>6, <1>7, <1>8, OthersKept DEF LendInv

\* The invariant holds at first, and a handler's step keeps it.
LEMMA LendInit == Init => LendInv
<1> SUFFICES ASSUME Init PROVE LendInv
  OBVIOUS
<1>1. /\ IdleRequest \in Request /\ IdleRequest.loser = NoName
      /\ IdleRequest.outcome = "none" /\ IdleRequest.step = "idle"
  BY DEF IdleRequest, Request, Steps, Outcomes
<1>2. TypeOK
  BY <1>1, SetupAssumption DEF Init, TypeOK
<1>3. \A r \in Requests : req[r] = IdleRequest
  BY DEF Init
<1>4. \A r \in Requests : RequestInv(req[r]) /\ Paged(r)
  BY <1>1, <1>3 DEF RequestInv, Paged, Unhindered, Applied
<1>5. HolderInv
  BY DEF Init, HolderInv
<1> QED
  BY <1>2, <1>4, <1>5 DEF LendInv, PageInv

LEMMA HandleKeeps ==
  ASSUME LendInv, NEW r \in Requests, Handle(r)
  PROVE  LendInv'
BY FindKeeps, UpdateKeeps, MailKeeps, PortsKeeps, TransferKeeps DEF Handle

LEMMA ArrivalKeeps ==
  ASSUME LendInv, NEW r \in Requests, Arrival(r)
  PROVE  LendInv'
BY ArriveKeeps DEF Arrival

LEMMA LendStutter ==
  ASSUME LendInv, UNCHANGED vars
  PROVE  LendInv'
<1>1. \A r \in Requests : Paged(r)'
  BY DEF LendInv, PageInv, Paged, Unhindered, Applied, vars
<1> QED
  BY <1>1 DEF LendInv, TypeOK, HolderInv, PageInv, Applied, vars

LEMMA LendInvariant == Spec => []LendInv
<1>1. LendInv /\ [Next]_vars => LendInv'
  BY HandleKeeps, ArrivalKeeps, LendStutter DEF Next
<1> QED
  BY <1>1, LendInit, PTL DEF Spec

-----------------------------------------------------------------------------
\* The requests and the documents keep their types in every interleaving and
\* under every outage: a document is in hand whenever the code uses it.
THEOREM LendingTypeSafe == Spec => []TypeOK
BY LendInvariant, PTL DEF LendInv

\* Whoever holds a device that is not his has a request of his own that wrote
\* it: the separate reads and writes of the handlers, the two collections with
\* the same ids and the outages never give a device to anybody else.
THEOREM DevicesAccountable == Spec => []HolderAccountable
<1>1. LendInv => HolderAccountable
  <2> SUFFICES ASSUME LendInv, NEW d \in Devices, holder[d] # Owner[d]
               PROVE  \E r \in Requests : /\ req[r].kind \in Borrows
                                          /\ req[r].name = holder[d]
                                          /\ req[r].id = d[2]
                                          /\ req[r].outcome \notin {"refused", "not_found"}
    BY DEF HolderAccountable
  <2>1. PICK r \in Requests : /\ Applied(r)
                              /\ req[r].kind \in Borrows
                              /\ req[r].name = holder[d]
                              /\ req[r].dev = d
    BY DEF LendInv, HolderInv
  <2> QED
    BY <2>1 DEF LendInv, RequestInv, Located, Applied
<1> QED
  BY <1>1, LendInvariant, PTL

\* dutborrow and dutreturn stop halfway only for an outage or for a name
\* without an account, also when other handlers run in between.
THEOREM PagesComplete == Spec => []PageComplete
<1>1. LendInv => PageComplete
  BY DEF LendInv, PageInv, Paged, Unhindered, PageComplete
<1> QED
  BY <1>1, LendInvariant, PTL

-----------------------------------------------------------------------------
(***************************************************************************)
(* Handlers that overlap.  The document a request has read is still the    *)
(* one in the database when it writes, and the one it has written is still *)
(* there when it composes the mail, unless the request was overtaken.      *)
(***************************************************************************)
Fresh(r) ==
    /\ req[r].step = "update" /\ req[r].kind \in {"borrow", "ai"} =>
          req[r].seen \in Contained[req[r].dev]
    /\ r \notin overtaken =>
          /\ req[r].step = "update" => req[r].seen = holder[req[r].dev]
          /\ req[r].step = "notify" /\ Applied(r) => holder[req[r].dev] = NewUser(r)
          /\ Applied(r) => req[r].loser = req[r].seen

\* A mail is from a request that is past it.
MailFor(m) ==
    /\ req[m.req].step \in {"ports", "transfer", "done"}
    /\ req[m.req].kind \in Borrows /\ Applied(m.req) =>
          \/ m.says = req[m.req].name
          \/ /\ m.req \in overtaken
             /\ \E q \in Requests \ {m.req} : /\ Applied(q)
                                              /\ req[q].dev = req[m.req].dev
                                              /\ m.says = NewUser(q)

ToldFor(r) ==
    /\ r \notin overtaken
    /\ req[r].kind \in {"borrow", "page_borrow"}
    /\ req[r].step \in {"ports", "transfer"} \/ req[r].outcome = "success"
    /\ req[r].loser \in Users
    /\ faults = 0
    => \E m \in mails : m.req = r /\ m.to = req[r].loser

\* A device that was written has the name of one of those who wrote it.
WrittenInv ==
    \A r \in Requests : Applied(r) =>
        \E q \in Requests : /\ Applied(q) /\ req[q].dev = req[r].dev
                            /\ holder[req[r].dev] = NewUser(q)

FreshInv ==
    /\ WrittenInv
    /\ \A r \in Requests : Fresh(r) /\ ToldFor(r)
    /\ \A m \in mails : MailFor(m)

\* What a request has written stays on record: later steps keep its values.
Kept(q) == Applied(q) => /\ SameDocument(req'[q], req[q])
                         /\ req'[q].loser = req[q].loser

LEMMA KeptNewUser ==
  ASSUME NEW q, Kept(q), Applied(q)
  PROVE  Applied(q)' /\ req'[q].dev = req[q].dev /\ NewUser(q)' = NewUser(q)
BY DEF Kept, Applied, SameDocument, SameCaller, NewUser

\* A step of r that writes no device: what is left to show is about r.
LEMMA QuietFresh ==
  ASSUME LendInv, FreshInv, NEW r \in Requests,
         NEW n \in Request, req' = [req EXCEPT ![r] = n],
         req[r].loser # NoName => SameDocument(n, req[r]), n.loser = req[r].loser,
         UNCHANGED <<holder, overtaken>>,
         mails \subseteq mails', mails' \subseteq Mail, \A m \in mails' \ mails : m.req = r,
         faults' = 0 => faults = 0,
         Fresh(r)', ToldFor(r)', \A m \in mails' : m.req = r => MailFor(m)'
  PROVE  FreshInv'
<1>1. /\ req'[r] = n
      /\ \A q \in Requests \ {r} : req'[q] = req[q]
  BY OneRequest DEF LendInv
<1>2. \A q \in Requests : Kept(q) /\ (Applied(q)' <=> Applied(q))
  BY <1>1 DEF Kept, Applied, SameDocument, SameCaller
<1>3. \A q \in Requests : Applied(q) =>
         Applied(q)' /\ req'[q].dev = req[q].dev /\ NewUser(q)' = NewUser(q)
  BY <1>2, KeptNewUser
<1>4. WrittenInv'
  BY <1>2, <1>3 DEF FreshInv, WrittenInv
<1>5. ASSUME NEW q \in Requests \ {r}
      PROVE  Fresh(q)' /\ ToldFor(q)'
  <2>1. Fresh(q) /\ ToldFor(q) /\ req'[q] = req[q]
    BY <1>1 DEF FreshInv
  <2>2. Fresh(q)'
    BY <2>1 DEF Fresh, Applied, NewUser
  <2>3. ToldFor(q)'
    BY <2>1 DEF ToldFor
  <2> QED
    BY <2>2, <2>3
<1>6. ASSUME NEW m \in mails', m.req # r
      PROVE  MailFor(m)'
  <2>1. m \in mails /\ m.req \in Requests \ {r}
    BY <1>6 DEF Mail
  <2>2. MailFor(m) /\ req'[m.req] = req[m.req]
    BY <1>1, <2>1 DEF FreshInv
  <2> QED
    BY <1>3, <2>1, <2>2 DEF MailFor, Applied
<1> QED
  BY <1>4, <1>5, <1>6 DEF FreshInv

LEMMA FreshArrive ==
  ASSUME LendInv, FreshInv, NEW r \in Requests, NEW k \in Kinds,
         NEW i \in Ids, NEW u \in Names, Arrive(r, k, u, i)
  PROVE  FreshInv'
<1>0. TypeOK /\ RequestInv(req[r])
  BY DEF LendInv
<1>1. /\ req[r].step = "idle"
      /\ UNCHANGED <<holder, mails, tasks, transfers, overtaken, faults>>
  BY <1>0, ArriveShape
<1>2. PICK n \in Request :
              /\ req' = [req EXCEPT ![r] = n]
              /\ n.kind = k /\ n.name = u /\ n.id = i
              /\ n.loser = NoName /\ n.step = "find" /\ n.outcome = "none"
  BY <1>0, ArriveShape
<1>3. req'[r] = n /\ req[r].loser = NoName
  BY <1>0, <1>1, <1>2, OneRequest DEF RequestInv
<1>4. Fresh(r)' /\ ToldFor(r)'
  BY <1>2, <1>3 DEF Fresh, ToldFor, Applied
<1>5. \A m \in mails' : m.req # r
  BY <1>1 DEF FreshInv, MailFor
<1> QED
  BY <1>0, <1>1, <1>2, <1>3, <1>4, <1>5, QuietFresh DEF TypeOK

LEMMA FreshFind ==
  ASSUME LendInv, FreshInv, NEW r \in Requests, find_one(r)
  PROVE  FreshInv'
<1>0. TypeOK /\ RequestInv(req[r])
  BY DEF LendInv
<1>1. /\ req[r].step = "find"
      /\ UNCHANGED <<holder, mails, tasks, transfers, overtaken>>
      /\ faults' \in {faults, faults + 1}
  BY <1>0, FindShape
<1>2. PICK n \in Request :
              /\ req' = [req EXCEPT ![r] = n]
              /\ SameCaller(n, req[r]) /\ n.loser = NoName
              /\ \/ /\ Located(n) /\ n.seen = holder[n.dev]
                    /\ n.step = "update" /\ n.outcome = "none"
                    /\ n.kind \in {"borrow", "ai"} => n.seen \in Contained[n.dev]
                 \/ n.step = "done" /\ n.outcome \in {"refused", "not_found", "error"}
  BY <1>0, FindShape
<1>3. req'[r] = n /\ req[r].loser = NoName
  BY <1>0, <1>1, <1>2, OneRequest DEF RequestInv
<1>4. Fresh(r)'
  BY <1>1, <1>2, <1>3 DEF Fresh, Applied
<1>5. ToldFor(r)'
  BY <1>2, <1>3 DEF ToldFor
<1>6. \A m \in mails' : m.req # r
  BY <1>1 DEF FreshInv, MailFor
<1>7. faults' = 0 => faults = 0
  BY <1>0, <1>1, SetupAssumption DEF TypeOK
<1> QED
  BY <1>0, <1>1, <1>2, <1>3, <1>4, <1>5, <1>6, <1>7, QuietFresh DEF TypeOK

\* A write overtakes the others that have read the device; to all who have
\* not, and to those at other devices, it changes nothing.
LEMMA FreshUpdate ==
  ASSUME LendInv, FreshInv, NEW r \in Requests, update_one(r)
  PROVE  FreshInv'
<1>0. TypeOK /\ RequestInv(req[r]) /\ Fresh(r)
  BY DEF LendInv, FreshInv
<1>1. /\ req[r].step = "update"
      /\ UNCHANGED <<mails, tasks, transfers>>
      /\ faults' \in {faults, faults + 1}
  BY <1>0, UpdateShape
<1>2. PICK n \in Request :
              /\ req' = [req EXCEPT ![r] = n]
              /\ SameDocument(n, req[r])
              /\ \/ /\ holder' = [holder EXCEPT ![req[r].dev] = NewUser(r)]
                    /\ overtaken' = overtaken \cup Reading(r)
                    /\ n.loser = holder[req[r].dev] /\ n.loser # NoName
                 \/ /\ UNCHANGED <<holder, overtaken>>
                    /\ n.loser = NoName
                    /\ faults' = faults + 1
              /\ \/ n.step = "notify" /\ n.outcome = "none" /\ n.kind # "ai"
                    /\ (n.loser # NoName \/ n.kind \in Pages)
                 \/ n.step = "done" /\ n.outcome = "success" /\ n.kind = "ai" /\ n.loser # NoName
                 \/ n.step = "done" /\ n.outcome = "error" /\ n.kind \notin Pages
  BY <1>0, UpdateShape
<1>3. /\ req'[r] = n
      /\ \A q \in Requests \ {r} : req'[q] = req[q]
  BY <1>0, <1>2, OneRequest
<1>d. PICK d \in Devices : d = req[r].dev /\ req[r].loser = NoName
  BY <1>0, <1>1 DEF RequestInv, Located
<1>4. \A m \in mails' : m.req # r
  BY <1>1 DEF FreshInv, MailFor
<1>5. faults' = 0 => faults = 0
  BY <1>0, <1>1, SetupAssumption DEF TypeOK
<1>6. ToldFor(r)'
  BY <1>2, <1>3, <1>5, <1>0, <1>1, SetupAssumption DEF ToldFor
<1>7. CASE UNCHANGED <<holder, overtaken>> /\ n.loser = NoName
  <2>1. Fresh(r)'
    BY <1>2, <1>3, <1>7 DEF Fresh, Applied
  <2> QED
    BY <1>0, <1>1, <1>2, <1>4, <1>5, <1>6, <1>7, <1>d, <2>1, QuietFresh DEF TypeOK
<1>8. CASE /\ holder' = [holder EXCEPT ![d] = NewUser(r)]
           /\ overtaken' = overtaken \cup Reading(r)
           /\ n.loser = holder[d] /\ n.loser # NoName
  <2>1. /\ holder'[d] = NewUser(r)
        /\ \A e \in Devices \ {d} : holder'[e] = holder[e]
    BY <1>0, <1>8 DEF TypeOK
  <2>2. Applied(r)' /\ req'[r].dev = d /\ NewUser(r)' = NewUser(r) /\ r \notin Reading(r)
    BY <1>2, <1>3, <1>8, <1>d DEF Applied, SameDocument, SameCaller, NewUser, Reading
  <2>3. \A q \in Requests \ {r} :
           /\ Applied(q)' <=> Applied(q)
           /\ Applied(q) => req[q].dev \in Devices
           /\ req'[q] = req[q] /\ NewUser(q)' = NewUser(q)
    BY <1>3 DEF Applied, NewUser, LendInv, RequestInv, Located
  <2>4. \A q \in Requests : Applied(q) => q # r
    BY <1>d DEF Applied
  <2>5. WrittenInv'
    <3> SUFFICES ASSUME NEW q \in Requests, Applied(q)', NEW e, e = req'[q].dev
                 PROVE  \E p \in Requests : /\ Applied(p)' /\ req'[p].dev = e
                                            /\ holder'[e] = NewUser(p)'
      BY DEF WrittenInv
    <3>1. CASE e = d
      BY <2>1, <2>2, <3>1
    <3>2. CASE e # d
      <4>1. q # r /\ Applied(q) /\ e = req[q].dev /\ e \in Devices
        BY <2>2, <2>3, <3>2
      <4>2. PICK p \in Requests : Applied(p) /\ req[p].dev = e /\ holder[e] = NewUser(p)
        BY <4>1 DEF FreshInv, WrittenInv
      <4>3. p # r /\ holder'[e] = holder[e]
        BY <2>1, <2>4, <3>2, <4>1, <4>2
      <4> QED
        BY <2>3, <4>2, <4>3
    <3> QED
      BY <3>1, <3>2
  <2>6. Fresh(r)'
    <3>1. n.step # "update"
      BY <1>2
    <3>2. r \notin overtaken' => n.loser = n.seen
      BY <1>0, <1>1, <1>2, <1>8, <1>d DEF Fresh, SameDocument
    <3>3. holder'[n.dev] = NewUser(r)'
      BY <1>3, <2>1, <2>2
    <3> QED
      BY <1>3, <3>1, <3>2, <3>3 DEF Fresh
  <2>7. ASSUME NEW q \in Requests \ {r}
        PROVE  Fresh(q)' /\ ToldFor(q)'
    <3>1. Fresh(q) /\ ToldFor(q) /\ req'[q] = req[q] /\ RequestInv(req[q])
      BY <1>3 DEF FreshInv, LendInv
    <3>2. ToldFor(q)'
      BY <1>1, <1>5, <1>8, <3>1 DEF ToldFor
    <3>3. q \notin overtaken' /\ req[q].step \in {"update", "notify"} =>
             req[q].dev \in Devices \ {d}
      BY <1>8, <1>d, <3>1 DEF Reading, RequestInv, Located
    <3>4. Fresh(q)'
      <4>1. /\ Applied(q)' <=> Applied(q)
            /\ NewUser(q)' = NewUser(q)
            /\ q \notin overtaken' => q \notin overtaken
        BY <1>8, <2>3
      <4> QED
        BY <2>1, <3>1, <3>3, <4>1 DEF Fresh
    <3> QED
      BY <3>2, <3>4
  <2>8. ASSUME NEW m \in mails'
        PROVE  MailFor(m)'
    <3>1. m \in mails /\ m.req \in Requests \ {r}
      BY <1>0, <1>1, <1>4 DEF TypeOK, Mail
    <3>2. MailFor(m) /\ req'[m.req] = req[m.req] /\ overtaken \subseteq overtaken'
      BY <1>3, <1>8, <3>1 DEF FreshInv
    <3>3. \A q \in Requests : Applied(q) =>
             Applied(q)' /\ req'[q].dev = req[q].dev /\ NewUser(q)' = NewUser(q)
      BY <2>3, <2>4
    <3> QED
      BY <3>1, <3>2, <3>3 DEF MailFor, Applied
  <2> QED
    BY <1>6, <2>5, <2>6, <2>7, <2>8 DEF FreshInv
<1> QED
  BY <1>2, <1>7, <1>8, <1>d

LEMMA FreshMail ==
  ASSUME LendInv, FreshInv, NEW r \in Requests, dut_change_user_email(r)
  PROVE  FreshInv'
<1>0. TypeOK /\ RequestInv(req[r]) /\ Fresh(r)
  BY DEF LendInv, FreshInv
<1> DEFINE mail == [req |-> r, to |-> Recipient(r), says |-> Says(r)]
<1>1. /\ req[r].step = "notify"
      /\ UNCHANGED <<holder, tasks, transfers, overtaken>>
      /\ faults' \in {faults, faults + 1}
      /\ mails' \in {mails, mails \cup {mail}} /\ mails' \subseteq Mail
  BY <1>0, MailShape
<1>2. PICK n \in Request :
              /\ req' = [req EXCEPT ![r] = n]
              /\ SameDocument(n, req[r]) /\ n.loser = req[r].loser
              /\ \/ n.kind \in Pages /\ n.step = "ports" /\ n.outcome = "none"
                 \/ n.kind \notin Pages /\ n.step = "done" /\ n.outcome = "success"
                 \/ n.step = "done" /\ n.outcome = "error"
              /\ faults' = faults /\ Recipient(r) \in Users =>
                   /\ mails' = mails \cup {mail}
                   /\ n.outcome # "error"
  BY <1>0, MailShape
<1>3. /\ req'[r] = n
      /\ \A q \in Requests \ {r} : req'[q] = req[q]
  BY <1>0, <1>2, OneRequest
<1>4. Fresh(r)'
  BY <1>0, <1>1, <1>2, <1>3 DEF Fresh, SameDocument, SameCaller, Applied
<1>5. faults' = 0 => faults = 0 /\ faults' = faults
  BY <1>0, <1>1, SetupAssumption DEF TypeOK
<1>6. ToldFor(r)'
  <2> SUFFICES ASSUME r \notin overtaken, n.kind \in {"borrow", "page_borrow"},
                      n.loser \in Users, faults' = 0
               PROVE  \E m \in mails' : m.req = r /\ m.to = n.loser
    BY <1>1, <1>3 DEF ToldFor
  <2>1. n.loser = req[r].seen /\ req[r].kind \in Borrows
    BY <1>0, <1>2, SetupAssumption DEF Fresh, Applied, SameDocument, SameCaller, Borrows, Names
  <2>2. Recipient(r) = n.loser
    BY <2>1 DEF Recipient
  <2>3. mail \in mails' /\ mail.req = r /\ mail.to = n.loser
    BY <1>2, <1>5, <2>2
  <2> QED
    BY <2>3
<1>7. ASSUME NEW m \in mails', m.req = r
      PROVE  MailFor(m)'
  <2>1. m = mail
    BY <1>1, <1>7 DEF FreshInv, MailFor
  <2>2. ASSUME n.kind \in Borrows, n.loser # NoName
        PROVE  \/ m.says = n.name
               \/ /\ r \in overtaken'
                  /\ \E q \in Requests \ {r} : /\ Applied(q)' /\ req'[q].dev = n.dev
                                               /\ m.says = NewUser(q)'
    <3>1. Applied(r) /\ req[r].kind \in Borrows /\ m.says = holder[req[r].dev]
      BY <1>2, <2>1, <2>2 DEF Applied, Says, SameDocument, SameCaller
    <3>2. NewUser(r) = n.name
      BY <1>2, <3>1 DEF NewUser, SameDocument, SameCaller
    <3>3. CASE r \notin overtaken
      BY <1>0, <1>1, <3>1, <3>2, <3>3 DEF Fresh
    <3>4. CASE r \in overtaken
      <4>1. PICK q \in Requests : /\ Applied(q) /\ req[q].dev = req[r].dev
                                  /\ holder[req[r].dev] = NewUser(q)
        BY <3>1 DEF FreshInv, WrittenInv
      <4>2. CASE q = r
        BY <3>1, <3>2, <4>1, <4>2
      <4>3. CASE q # r
        <5>1. Applied(q)' /\ req'[q].dev = n.dev /\ NewUser(q)' = NewUser(q)
          BY <1>2, <1>3, <4>1, <4>3 DEF Applied, NewUser, SameDocument
        <5> QED
          BY <1>1, <3>1, <3>4, <4>1, <4>3, <5>1
      <4> QED
        BY <4>2, <4>3
    <3> QED
      BY <3>3, <3>4
  <2> QED
    BY <1>2, <1>3, <1>7, <2>2 DEF MailFor, Applied
<1>8. mails \subseteq mails' /\ \A m \in mails' \ mails : m.req = r
  BY <1>1
<1> QED
  BY <1>1, <1>2, <1>4, <1>5, <1>6, <1>7, <1>8, QuietFresh

\* The last two steps of a page change neither device nor mail.
LEMMA FreshTail ==
  ASSUME LendInv, FreshInv, NEW r \in Requests,
         NEW n \in Request, req' = [req EXCEPT ![r] = n],
         SameDocument(n, req[r]), n.loser = req[r].loser,
         req[r].step \in {"ports", "transfer"}, n.step \in {"transfer", "done"},
         UNCHANGED <<holder, mails, overtaken>>, faults' \in {faults, faults + 1}
  PROVE  FreshInv'
<1>0. TypeOK /\ Fresh(r) /\ ToldFor(r)
  BY DEF LendInv, FreshInv
<1>1. /\ req'[r] = n
      /\ \A q \in Requests \ {r} : req'[q] = req[q]
  BY <1>0, OneRequest
<1>2. Fresh(r)'
  BY <1>0, <1>1 DEF Fresh, Applied, SameDocument
<1>3. faults' = 0 => faults = 0
  BY <1>0, SetupAssumption DEF TypeOK
<1>4. ToldFor(r)'
  BY <1>0, <1>1, <1>3 DEF ToldFor, SameDocument, SameCaller
<1>5. ASSUME NEW m \in mails', m.req = r
      PROVE  MailFor(m)'
  <2>1. MailFor(m)
    BY DEF FreshInv
  <2>2. \A q \in Requests \ {r} : /\ Applied(q)' <=> Applied(q)
                                  /\ req'[q].dev = req[q].dev /\ NewUser(q)' = NewUser(q)
    BY <1>1 DEF Applied, NewUser
  <2> QED
    BY <1>1, <1>5, <2>1, <2>2 DEF MailFor, Applied, SameDocument, SameCaller
<1> QED
  BY <1>0, <1>2, <1>3, <1>4, <1>5, QuietFresh DEF TypeOK

LEMMA FreshHandle ==
  ASSUME LendInv, FreshInv, NEW r \in Requests, Handle(r)
  PROVE  FreshInv'
<1>0. TypeOK /\ RequestInv(req[r])
  BY DEF LendInv
<1>1. CASE async_initialdutports(r)
  BY <1>0, <1>1, PortsShape, FreshTail
<1>2. CASE TransferDevice(r)
  BY <1>0, <1>2, TransferShape, FreshTail
<1> QED
  BY <1>1, <1>2, FreshFind, FreshUpdate, FreshMail DEF Handle

LEMMA FreshStutter ==
  ASSUME FreshInv, UNCHANGED vars
  PROVE  FreshInv'
<1>1. \A r \in Requests : (Applied(r)' <=> Applied(r)) /\ NewUser(r)' = NewUser(r)
  BY DEF Applied, NewUser, vars
<1>2. \A r \in Requests : Fresh(r)' /\ ToldFor(r)'
  BY <1>1 DEF FreshInv, Fresh, ToldFor, vars
<1>3. \A m \in mails' : MailFor(m)'
  BY <1>1 DEF FreshInv, MailFor, Applied, vars
<1>4. WrittenInv'
  BY <1>1 DEF FreshInv, WrittenInv, vars
<1> QED
  BY <1>2, <1>3, <1>4 DEF FreshInv

LEMMA FreshInit == Init => FreshInv
<1> SUFFICES ASSUME Init PROVE FreshInv
  OBVIOUS
<1>1. /\ IdleRequest.step = "idle" /\ IdleRequest.loser = NoName
      /\ IdleRequest.outcome = "none"
  BY DEF IdleRequest
<1>2. \A r \in Requests : req[r] = IdleRequest
  BY DEF Init
<1>3. mails = {}
  BY DEF Init
<1>4. \A r \in Requests : Fresh(r) /\ ToldFor(r) /\ ~Applied(r)
  BY <1>1, <1>2 DEF Fresh, ToldFor, Applied
<1> QED
  BY <1>3, <1>4 DEF FreshInv, WrittenInv

LEMMA FreshInvariant == Spec => [](LendInv /\ FreshInv)
<1>1. LendInv /\ FreshInv /\ [Next]_vars => FreshInv'
  BY FreshHandle, FreshArrive, FreshStutter DEF Next, Arrival
<1> QED
  BY <1>1, LendInvariant, FreshInit, PTL DEF Spec

-----------------------------------------------------------------------------
\* The mail on a borrow names the one who borrowed or, when other requests
\* wrote the device before the mail's text was read, one of those who did.
THEOREM MailsNameBorrowers == Spec => []MailNamesBorrower
<1>1. FreshInv => MailNamesBorrower
  BY DEF FreshInv, MailFor, MailNamesBorrower
<1> QED
  BY <1>1, FreshInvariant, PTL

\* As long as nothing is down, whoever loses a device to dutborrow or to the
\* API is told, however handlers overlap, unless the one that took it was
\* itself overtaken.
THEOREM LosersAreTold == Spec => []LoserIsTold
<1>1. FreshInv => LoserIsTold
  BY DEF FreshInv, ToldFor, LoserIsTold
<1> QED
  BY <1>1, FreshInvariant, PTL

\* However handlers overlap and whatever fails, a device that is lent is lent
\* on only by the page, by a handler whose read is out of date, or from a
\* holder whose name occurs in the owner's.
THEOREM ImplementsLending == Spec => LendingIsRespected
<1> DEFINE Allowed == L!Next \/ \E r \in Requests :
                          PageBorrow(r) \/ StaleBorrow(r) \/ MistakenBorrow(r)
<1>1. Init => L!Init
  BY DEF Init, L!Init
<1>2. ASSUME LendInv, FreshInv, NEW r \in Requests, update_one(r), holder' # holder
      PROVE  Allowed
  <2>1. /\ req[r].step = "update" /\ Fresh(r) /\ RequestInv(req[r])
    BY <1>2 DEF LendInv, FreshInv, update_one
  <2>2. /\ Located(req[r]) /\ req[r].kind \in Kinds /\ req[r].name \in Names
    BY <2>1 DEF RequestInv
  <2>3. holder' = [holder EXCEPT ![req[r].dev] = NewUser(r)] /\ WriteOf(r)
    BY <1>2 DEF update_one, Write, WriteOf
  <2>4. CASE req[r].kind = "page_borrow"
    BY <2>3, <2>4 DEF PageBorrow
  <2>5. CASE req[r].kind \in {"borrow", "ai"}
    <3>1. NewUser(r) = req[r].name
      BY <2>5 DEF NewUser, Borrows
    <3>2. CASE holder[req[r].dev] # req[r].seen
      BY <2>3, <3>2 DEF StaleBorrow
    <3>3. CASE holder[req[r].dev] = req[r].seen /\ holder[req[r].dev] # Owner[req[r].dev]
      BY <2>1, <2>3, <2>5, <3>3 DEF MistakenBorrow, Fresh
    <3>4. CASE holder[req[r].dev] = Owner[req[r].dev]
      <4>1. L!Lend(req[r].dev, req[r].name)
        BY <2>3, <3>1, <3>4 DEF L!Lend
      <4> QED
        BY <2>2, <4>1 DEF L!Next, Located
    <3> QED
      BY <3>2, <3>3, <3>4
  <2>6. CASE req[r].kind \in Returns
    <3>1. NewUser(r) = Owner[req[r].dev]
      BY <2>6 DEF NewUser, Borrows, Returns
    <3>2. L!GiveBack(req[r].dev)
      BY <2>3, <3>1 DEF L!GiveBack
    <3> QED
      BY <2>2, <3>2 DEF L!Next, Located
  <2> QED
    BY <2>2, <2>4, <2>5, <2>6, SetupAssumption DEF Borrows
<1>3. LendInv /\ FreshInv /\ [Next]_vars =>
        [L!Next \/ \E r \in Requests :
            PageBorrow(r) \/ StaleBorrow(r) \/ MistakenBorrow(r)]_holder
  <2>1. ASSUME NEW r \in Requests, Arrival(r) \/ find_one(r) \/ dut_change_user_email(r)
                                     \/ async_initialdutports(r) \/ TransferDevice(r)
        PROVE  UNCHANGED holder
    BY <2>1 DEF Arrival, Arrive, find_one, dut_change_user_email, async_initialdutports,
                TransferDevice
  <2> QED
    BY <1>2, <2>1 DEF Next, Handle, vars
<1> QED
  BY <1>1, <1>3, FreshInvariant, PTL DEF Spec, LendingIsRespected
=============================================================================
