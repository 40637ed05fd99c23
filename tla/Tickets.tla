------------------------------ MODULE Tickets ------------------------------
(***************************************************************************)
(* The collection `ticket' and the page that adds, edits and deletes       *)
(* tickets (ticket() in app/main/views.py).  A new ticket gets the number  *)
(* after the largest one that is there; an edit reads the ticket, deletes  *)
(* it and inserts a new document with the old author.  The calls of the    *)
(* database are separate steps, and a ticket that was added or changed is  *)
(* announced by mail and counted (Counters).                               *)
(***************************************************************************)
EXTENDS Counters, FiniteSetsExt

CONSTANTS
    People,      \* full names of the users
    MaxId        \* bound: ticket numbers

Ids == 1..MaxId
Nobody == "nobody"

ASSUME TicketsAssumption ==
    /\ MaxId \in Nat \ {0}
    /\ Nobody \notin People

VARIABLES
    tickets,     \* the documents
    treq,        \* the local state of every request
    notes,       \* mails about a ticket: its number, whom they go to
    added,       \* history: who added a ticket with this number
    removed,     \* history: the numbers somebody asked to delete
    overlap,     \* history: two ticket requests have overlapped
    broken       \* history: an outage hit a delete or an insert

ticketVars == <<tickets, treq, notes, added, removed, overlap, broken>>

\* A document; `by' and `first' tell documents with the same number apart:
\* Modify to `general' inserts two.
Document == [id : Ids, author : People, by : Requests \cup {Nobody}, first : BOOLEAN]

Ticketing == [op : {"none", "add", "status", "modify", "general", "delete"},
              who : People \cup {Nobody},      \* current_user
              id : Ids,
              org : People \cup {Nobody},      \* the author that was read
              again : BOOLEAN,                 \* Modify to `general' replaces twice
              step : {"idle", "find", "delete", "insert", "mail", "done"}]

\* The type invariant.
TicketsTypeOK ==
    /\ tickets \subseteq Document
    /\ treq \in [Requests -> Ticketing]
    /\ notes \subseteq Ids \X People
    /\ added \in [Ids -> SUBSET People]
    /\ removed \subseteq Ids
    /\ overlap \in BOOLEAN /\ broken \in BOOLEAN

\* A request that has no local state, before it arrives or after it has ended.
Empty(s) == [op |-> "none", who |-> Nobody, id |-> 1, org |-> Nobody, again |-> FALSE, step |-> s]

\* The first ticket was put there by hand: without any, Add raises.
TicketsInit ==
    /\ \E p \in People :
         /\ tickets = {[id |-> 1, author |-> p, by |-> Nobody, first |-> FALSE]}
         /\ added = [i \in Ids |-> IF i = 1 THEN {p} ELSE {}]
    /\ treq = [r \in Requests |-> Empty("idle")]
    /\ notes = {}
    /\ removed = {}
    /\ overlap = FALSE /\ broken = FALSE

-----------------------------------------------------------------------------
Busy(r) == treq[r].step \notin {"idle", "done"}
At(i) == {t \in tickets : t.id = i}
NotCounting == UNCHANGED <<configlog, totals, cnt, started, slack, floor, counted>>

Goto(r, s) ==
    treq' = [treq EXCEPT ![r] = IF s = "done" THEN Empty("done")
                                ELSE [treq[r] EXCEPT !.step = s, !.again = @ /\ treq[r].step # "insert"]]

\* The form of the page.
Submit(r, o, p, i) ==
    /\ treq[r].step = "idle"
    /\ treq' = [treq EXCEPT ![r] = [op |-> o, who |-> p, id |-> i, org |-> Nobody,
                                    again |-> o = "general",
                                    step |-> IF o = "delete" THEN "delete" ELSE "find"]]
    /\ removed' = IF o = "delete" THEN removed \cup {i} ELSE removed
    /\ overlap' = (overlap \/ \E q \in Requests : Busy(q))
    /\ UNCHANGED <<tickets, notes, added, broken>>
    /\ UNCHANGED countVars

\* Variants named Bug... are what the code would be with one mistake in it;
\* they show that the properties can fail, and no action uses them.
BugCountsTickets == Cardinality(tickets) + 1
NewId == Max({t.id : t \in tickets}) + 1

\* find_all_sort, of which the last one is used.
NumberTicket(r) ==
    /\ treq[r].step = "find" /\ treq[r].op = "add"
    /\ tickets # {}
    /\ NewId \in Ids
    /\ treq' = [treq EXCEPT ![r].id = NewId, ![r].org = treq[r].who, ![r].step = "insert"]
    /\ UNCHANGED <<tickets, notes, added, removed, overlap, broken>>
    /\ UNCHANGED countVars

BugAuthorIsEditor(r, t) == treq[r].who
BugAuthorDropped(r, t) == Nobody
KeptAuthor(r, t) == t.author

ReadTicket(r) ==
    /\ treq[r].step = "find" /\ treq[r].op # "add"
    /\ \E t \in At(treq[r].id) :
         treq' = [treq EXCEPT ![r].org = KeptAuthor(r, t), ![r].step = "delete"]
    /\ UNCHANGED <<tickets, notes, added, removed, overlap, broken>>
    /\ UNCHANGED countVars

\* A change of status to nobody is only reported.
AssignNone(r) ==
    /\ treq[r].step = "find" /\ treq[r].op = "status"
    /\ At(treq[r].id) # {}
    /\ Goto(r, "done")
    /\ StartCount(r, "effective", TRUE)
    /\ NoFault
    /\ UNCHANGED <<tickets, notes, added, removed, overlap, broken>>

\* No ticket at all, not this one, or a call that failed: a subscript raises.
TicketGone(r) ==
    /\ treq[r].step = "find"
    /\ \/ NoFault /\ IF treq[r].op = "add" THEN tickets = {} ELSE At(treq[r].id) = {}
       \/ Fault
    /\ Goto(r, "done")
    /\ UNCHANGED <<tickets, notes, added, removed, overlap, broken>>
    /\ NotCounting

BugSecondInsertLost(r) ==
    IF treq[r].op = "delete" \/ (treq[r].op = "general" /\ ~treq[r].again) THEN "done" ELSE "insert"
AfterDelete(r) == IF treq[r].op = "delete" THEN "done" ELSE "insert"

delete_one(r) ==
    /\ treq[r].step = "delete"
    /\ \/ /\ NoFault
          /\ \/ \E t \in At(treq[r].id) : tickets' = tickets \ {t}
             \/ At(treq[r].id) = {} /\ UNCHANGED tickets
          /\ UNCHANGED broken
       \/ Fault /\ broken' = TRUE /\ UNCHANGED tickets
    /\ Goto(r, AfterDelete(r))
    /\ UNCHANGED <<notes, added, removed, overlap>>
    /\ NotCounting

\* Modify neither sends a mail nor counts.
AfterInsert(r) ==
    CASE treq[r].op \in {"add", "status"} -> "mail"
      [] treq[r].again -> "delete"
      [] OTHER -> "done"

insert_one(r) ==
    /\ treq[r].step = "insert"
    /\ \/ /\ NoFault
          /\ tickets' = tickets \cup {[id |-> treq[r].id, author |-> treq[r].org,
                                        by |-> r, first |-> treq[r].again]}
          /\ added' = IF treq[r].op = "add"
                      THEN [added EXCEPT ![treq[r].id] = added[treq[r].id] \cup {treq[r].who}]
                      ELSE added
          /\ UNCHANGED broken
       \/ Fault /\ broken' = TRUE /\ UNCHANGED <<tickets, added>>
    /\ Goto(r, AfterInsert(r))
    /\ UNCHANGED <<notes, removed, overlap>>
    /\ NotCounting

\* A new ticket is announced to the administrators, a change of status to the
\* author in the first document found with the number.  Then it is counted.
TicketMail(r) ==
    /\ treq[r].step = "mail"
    /\ IF treq[r].op = "add" THEN UNCHANGED notes
       ELSE \E t \in At(treq[r].id) : notes' = notes \cup {<<t.id, t.author>>}
    /\ Goto(r, "done")
    /\ StartCount(r, "effective", TRUE)
    /\ NoFault
    /\ UNCHANGED <<tickets, added, removed, overlap, broken>>

\* Somebody has deleted it, a person of the mail has no account, or a call
\* fails: a subscript or the template raises after the insert.
MailGone(r) ==
    /\ treq[r].step = "mail"
    /\ Fault \/ NoFault
    /\ Goto(r, "done")
    /\ UNCHANGED <<tickets, notes, added, removed, overlap, broken>>
    /\ NotCounting

-----------------------------------------------------------------------------
TicketStep(r) ==
    \/ NumberTicket(r) \/ ReadTicket(r) \/ AssignNone(r) \/ TicketGone(r)
    \/ delete_one(r) \/ insert_one(r) \/ TicketMail(r) \/ MailGone(r)

TicketArrival(r) ==
    \E p \in People :
        \/ Submit(r, "add", p, 1)
        \/ \E o \in {"status", "modify", "general"}, i \in Ids : Submit(r, o, p, i)
        \/ \E i \in Ids : Submit(r, "delete", Nobody, i)

-----------------------------------------------------------------------------
(***************************************************************************)
(* Properties.                                                             *)
(***************************************************************************)

\* As long as ticket requests do not overlap and no call fails, a number
\* belongs to one ticket, although it is computed from the tickets that are
\* there and an edit writes a new document.
UniqueIds ==
    ~overlap /\ ~broken => \A s, t \in tickets : s.id = t.id => s = t

\* A ticket that nobody asked to delete is there, or is about to be inserted
\* again by an edit: overlapping edits may double a ticket but none loses it.
TicketsSurvive ==
    ~broken => \A i \in Ids \ removed :
        added[i] # {} => \/ At(i) # {}
                         \/ \E r \in Requests : treq[r].step = "insert" /\ treq[r].id = i

\* The author of a ticket, and whoever is told that it changed, is one who
\* added a ticket with this number, however often, by whom and in whichever
\* order it was edited, and whatever failed.
AuthorKept ==
    /\ \A t \in tickets : t.author \in added[t.id]
    /\ \A n \in notes : n[2] \in added[n[1]]
=============================================================================
