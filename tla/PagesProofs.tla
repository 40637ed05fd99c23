---------------------------- MODULE PagesProofs ----------------------------
(***************************************************************************)
(* Theorems about the pages, for any number of requests, people, tickets   *)
(* and outages.                                                            *)
(*                                                                         *)
(* First, the pages implement the counting, step by step; what             *)
(* CountersProofs shows holds for them.  Second, the tickets: an edit      *)
(* carries the author it has read, and the number whose document it has    *)
(* deleted, until it inserts the document again.  Third, the pooled        *)
(* device: a request carries a copy of the list until it writes it back.   *)
(***************************************************************************)
EXTENDS Pages, CountersProofs, SequenceTheorems, WellFoundedInduction

LEMMA StepCounts ==
  ASSUME [PagesNext]_pageVars
  PROVE  [CountersNext]_countVars
<1>1. CASE UNCHANGED pageVars
  BY <1>1 DEF pageVars
<1>2. CASE PagesNext
  <2>1. PICK r \in Requests : Page(r) \/ PageStep(r)
    BY <1>2 DEF PagesNext
  <2>2. CASE Page(r)
    <3>1. CASE TicketArrival(r)
      BY <3>1 DEF TicketArrival, Submit
    <3>2. CASE PoolArrival(r)
      BY <3>2 DEF PoolArrival, Ask
    <3>3. CASE CountArrival(r)
      BY <3>3 DEF CountersNext
    <3> QED
      BY <2>2, <3>1, <3>2, <3>3 DEF Page
  <2>3. CASE TicketStep(r)
    <3>1. CASE NumberTicket(r) \/ ReadTicket(r)
      BY <3>1 DEF NumberTicket, ReadTicket
    <3>2. CASE AssignNone(r) \/ TicketMail(r)
      <4>1. NoFault /\ StartCount(r, "effective", TRUE)
        BY <3>2 DEF AssignNone, TicketMail
      <4>2. OtherPage(r)
        BY <4>1 DEF OtherPage, Fields
      <4> QED
        BY <4>2 DEF CountersNext
    <3>3. CASE TicketGone(r) \/ delete_one(r) \/ insert_one(r) \/ MailGone(r)
      <4>1. NotCounting /\ (Fault \/ NoFault)
        BY <3>3 DEF TicketGone, delete_one, insert_one, MailGone
      <4>2. OtherPage(r)
        BY <4>1 DEF OtherPage, NotCounting
      <4> QED
        BY <4>2 DEF CountersNext
    <3> QED
      BY <2>3, <3>1, <3>2, <3>3 DEF TicketStep
  <2>4. CASE PoolStep(r)
    <3>1. CASE find_device(r)
      <4>1. OtherPage(r)
        BY <3>1 DEF find_device, OtherPage
      <4> QED
        BY <4>1 DEF CountersNext
    <3>2. CASE update_device(r)
      <4>1. (Fault \/ NoFault) /\ StartCount(r, "effective", FALSE)
        BY <3>2 DEF update_device
      <4>2. OtherPage(r)
        BY <4>1 DEF OtherPage, Fields
      <4> QED
        BY <4>2 DEF CountersNext
    <3> QED
      BY <2>4, <3>1, <3>2 DEF PoolStep
  <2>5. CASE CountStep(r)
    BY <2>5 DEF CountersNext
  <2> QED
    BY <2>1, <2>2, <2>3, <2>4, <2>5 DEF PageStep
<1> QED
  BY <1>1, <1>2

\* Whatever a page does, fails at or skips, it changes log and totals only as
\* CountersSpec allows, so that what is proved of the counting holds for it.
LEMMA PagesImplementCounting == PagesSpec => CountersSpec
<1>1. PagesInit => CountersInit
  BY DEF PagesInit
<1>2. [PagesNext]_pageVars => [CountersNext]_countVars
  BY StepCounts
<1> QED
  BY <1>1, <1>2, PTL DEF PagesSpec, CountersSpec

\* The totals stay bounded whichever pages run: by refinement.
THEOREM PagesTotalsBounded == PagesSpec => []TotalsBounded
BY PagesImplementCounting, TotalsStayBounded, PTL

\* Whichever pages run, overlap or fail, a call that overlaps no other stays
\* in its total, and of those that overlap at least one: by refinement.
THEOREM PagesTotalsKept == PagesSpec => []TotalsKept
BY PagesImplementCounting, TotalsStayKept, PTL

-----------------------------------------------------------------------------
(***************************************************************************)
(* Tickets.                                                                *)
(***************************************************************************)
Edits == {"status", "modify", "general"}

\* What a request has in hand at each step.
TicketReq(q) ==
    /\ q.step = "find" => q.op \in {"add"} \cup Edits /\ q.who \in People
    /\ q.step = "delete" => q.op \in {"delete"} \cup Edits
    /\ q.step = "insert" => q.op \in {"add"} \cup Edits
    /\ q.step = "mail" => q.op \in {"add", "status"}
    /\ q.step \in {"delete", "insert"} /\ q.op \in Edits => q.org \in added[q.id]
    /\ q.step = "insert" /\ q.op = "add" => q.org = q.who /\ q.who \in People
    /\ q.op = "delete" => q.id \in removed
    /\ q.again => q.op = "general"

\* Requests that have not overlapped take turns.
Alone == ~overlap => \A r, q \in Requests : Busy(r) /\ Busy(q) => r = q

\* Without overlap and outage, nothing has the number that is about to be
\* inserted.
Gap ==
    ~overlap /\ ~broken =>
        \A r \in Requests : treq[r].step = "insert" => At(treq[r].id) = {}

\* The inductive invariant.
TicketInv ==
    /\ TicketsTypeOK
    /\ \A r \in Requests : TicketReq(treq[r])
    /\ AuthorKept
    /\ TicketsSurvive
    /\ Alone
    /\ Gap
    /\ UniqueIds

\* Every set of numbers has a least one.
LEMMA LeastElement ==
  ASSUME NEW T, T \subseteq Nat, T # {}
  PROVE  \E x \in T : \A y \in T : x <= y
<1>1. \E x \in T : \A y \in T : ~(<<y, x>> \in OpToRel(<, Nat))
  BY NatLessThanWellFounded, WFMin
<1>2. \A y \in Nat, x \in Nat : y < x => <<y, x>> \in OpToRel(<, Nat)
  BY Zenon DEF OpToRel
<1>3. \E x \in T : \A y \in T : ~(y < x)
  BY <1>1, <1>2, Zenon
<1> QED
  BY <1>3, SMT

\* The number after the largest one is new.
LEMMA NewIdIsNew ==
  ASSUME TicketsTypeOK, tickets # {}
  PROVE  \A t \in tickets : t.id < NewId
<1> DEFINE S == {t.id : t \in tickets}
           T == {MaxId - x : x \in S}
<1>1. S \subseteq 1..MaxId /\ S # {} /\ MaxId \in Nat
  BY TicketsAssumption DEF TicketsTypeOK, Document, Ids
<1>2. T \subseteq Nat /\ T # {}
  BY <1>1
<1>3. PICK m \in T : \A y \in T : m <= y
  <2> HIDE DEF T
  <2> QED
    BY <1>2, LeastElement
<1>4. PICK x \in S : m = MaxId - x
  OBVIOUS
<1>5. \A y \in S : x >= y
  <2> SUFFICES ASSUME NEW y \in S PROVE x >= y
    OBVIOUS
  <2>1. MaxId - y \in T
    OBVIOUS
  <2>2. m <= MaxId - y
    BY <1>3, <2>1
  <2>3. x \in Int /\ y \in Int /\ MaxId \in Int /\ MaxId - x <= MaxId - y
    BY <1>1, <1>4, <2>2
  <2> HIDE DEF S, T
  <2> QED
    BY <2>3
<1> HIDE DEF S
<1>6. Max(S) \in S /\ \A y \in S : Max(S) >= y
  BY <1>5 DEF Max
<1>7. NewId = Max(S) + 1
  BY DEF NewId, S
<1>8. \A t \in tickets : t.id \in S
  BY DEF S
<1> DEFINE max == Max(S)
<1>9. max \in S /\ (\A y \in S : max >= y) /\ NewId = max + 1
  BY <1>6, <1>7
<1> HIDE DEF max
<1>10. \A y \in S : y \in Int /\ max \in Int
  BY <1>1, <1>9
<1>11. \A t \in tickets : t.id \in Int /\ max \in Int /\ max >= t.id
  BY <1>8, <1>9, <1>10
<1> QED
  BY <1>9, <1>11

\* A step of one request leaves what the others have in hand alone.
LEMMA TicketFrame ==
  ASSUME TicketInv, NEW r \in Requests, NEW n \in Ticketing, treq' = [treq EXCEPT ![r] = n],
         \A i \in Ids : added[i] \subseteq added'[i], removed \subseteq removed', TicketReq(n)',
         ~overlap' => ~overlap /\ (Busy(r) \/ \A q \in Requests : ~Busy(q))
  PROVE  /\ treq' \in [Requests -> Ticketing] /\ treq'[r] = n
         /\ \A q \in Requests \ {r} : treq'[q] = treq[q]
         /\ (\A q \in Requests : TicketReq(treq[q]))'
         /\ Alone'
<1>1. /\ treq' \in [Requests -> Ticketing] /\ treq'[r] = n
      /\ \A q \in Requests \ {r} : treq'[q] = treq[q]
  BY DEF TicketInv, TicketsTypeOK
<1>2. ASSUME NEW q \in Requests \ {r}
      PROVE  TicketReq(treq[q])'
  <2>1. TicketReq(treq[q]) /\ treq'[q] = treq[q] /\ treq[q].id \in Ids
    BY <1>1 DEF TicketInv, TicketsTypeOK, Ticketing
  <2> QED
    BY <2>1 DEF TicketReq
<1>3. TicketReq(treq[r])'
  BY <1>1 DEF TicketReq
<1>4. Alone'
  <2> SUFFICES ASSUME ~overlap', NEW p \in Requests, NEW q \in Requests, Busy(p)', Busy(q)'
               PROVE  p = q
    BY DEF Alone
  <2>1. \A u \in Requests \ {r} : ~Busy(u)
    BY DEF TicketInv, Alone
  <2>2. \A u \in Requests \ {r} : ~Busy(u)'
    BY <1>1, <2>1 DEF Busy
  <2> QED
    BY <2>2
<1> QED
  BY <1>1, <1>2, <1>3, <1>4

\* Steps that change no document.
LEMMA QuietTicket ==
  ASSUME TicketInv, NEW r \in Requests, NEW n \in Ticketing, treq' = [treq EXCEPT ![r] = n],
         UNCHANGED <<tickets, added, broken>>, removed \subseteq removed', removed' \subseteq Ids,
         TicketReq(n)', overlap' \in BOOLEAN,
         ~overlap' => ~overlap /\ (Busy(r) \/ \A q \in Requests : ~Busy(q)),
         treq[r].step # "insert",
         n.step = "insert" /\ ~overlap /\ ~broken => At(n.id) = {},
         notes' \subseteq Ids \X People, \A m \in notes' : m[2] \in added[m[1]]
  PROVE  TicketInv'
<1>1. /\ treq' \in [Requests -> Ticketing] /\ treq'[r] = n
      /\ \A q \in Requests \ {r} : treq'[q] = treq[q]
      /\ (\A q \in Requests : TicketReq(treq[q]))'
      /\ Alone'
  BY TicketFrame
<1>2. TicketsTypeOK'
  BY <1>1 DEF TicketInv, TicketsTypeOK
<1>3. AuthorKept'
  BY DEF TicketInv, AuthorKept
<1>4. TicketsSurvive'
  <2> SUFFICES ASSUME ~broken', NEW i \in Ids \ removed', added'[i] # {}
               PROVE  At(i)' # {} \/ \E q \in Requests : treq'[q].step = "insert" /\ treq'[q].id = i
    BY DEF TicketsSurvive
  <2>1. CASE At(i) # {}
    BY <2>1 DEF At
  <2>2. CASE \E q \in Requests : treq[q].step = "insert" /\ treq[q].id = i
    BY <1>1, <2>2
  <2> QED
    BY <2>1, <2>2 DEF TicketInv, TicketsSurvive
<1>5. Gap'
  <2> SUFFICES ASSUME ~overlap', ~broken', NEW q \in Requests, treq'[q].step = "insert"
               PROVE  {t \in tickets' : t.id = treq'[q].id} = {}
    BY DEF Gap, At
  <2>1. CASE q = r
    BY <1>1, <2>1 DEF At
  <2>2. CASE q # r
    BY <1>1, <2>2 DEF TicketInv, Gap, At
  <2> QED
    BY <2>1, <2>2
<1>6. UniqueIds'
  BY DEF TicketInv, UniqueIds
<1> QED
  BY <1>1, <1>2, <1>3, <1>4, <1>5, <1>6 DEF TicketInv

\* A request without local state has nothing in hand.
LEMMA EmptyShape ==
  ASSUME NEW s \in {"idle", "done"}
  PROVE  /\ Empty(s) \in Ticketing /\ Empty(s).step = s /\ Empty(s).op = "none"
         /\ TicketReq(Empty(s)) /\ TicketReq(Empty(s))'
<1>1. Empty(s) \in Ticketing /\ Empty(s).step = s /\ Empty(s).op = "none" /\ ~Empty(s).again
  BY TicketsAssumption DEF Empty, Ticketing, Ids
<1> QED
  BY <1>1 DEF TicketReq, Empty, Edits

\* A request moves on with what it has, or ends.
LEMMA GotoShape ==
  ASSUME TicketsTypeOK, NEW r \in Requests, NEW s \in {"delete", "insert", "mail"}, Goto(r, s)
  PROVE  \E n \in Ticketing :
            /\ treq' = [treq EXCEPT ![r] = n]
            /\ n.step = s /\ n.op = treq[r].op /\ n.who = treq[r].who
            /\ n.id = treq[r].id /\ n.org = treq[r].org
            /\ n.again => treq[r].again
<1> DEFINE n == [treq[r] EXCEPT !.step = s, !.again = @ /\ treq[r].step # "insert"]
<1>0. treq[r] \in Ticketing
  BY DEF TicketsTypeOK
<1>1. treq' = [treq EXCEPT ![r] = n]
  BY DEF Goto
<1>2. n \in Ticketing
  BY <1>0 DEF Ticketing
<1>3. /\ n.step = s /\ n.op = treq[r].op /\ n.who = treq[r].who
      /\ n.id = treq[r].id /\ n.org = treq[r].org
  BY <1>0 DEF Ticketing
<1>4. n.again => treq[r].again
  BY <1>0 DEF Ticketing
<1> HIDE DEF n
<1> QED
  BY <1>1, <1>2, <1>3, <1>4

LEMMA SubmitKeeps ==
  ASSUME TicketInv, NEW r \in Requests, TicketArrival(r)
  PROVE  TicketInv'
<1>1. PICK o \in {"add", "delete"} \cup Edits, p \in People \cup {Nobody}, i \in Ids :
         Submit(r, o, p, i) /\ (o # "delete" => p \in People)
  BY TicketsAssumption DEF TicketArrival, Edits, Ids
<1> DEFINE n == [op |-> o, who |-> p, id |-> i, org |-> Nobody, again |-> o = "general",
                 step |-> IF o = "delete" THEN "delete" ELSE "find"]
<1>2. n \in Ticketing
  BY DEF Ticketing, Edits
<1>3. /\ treq[r].step = "idle" /\ treq' = [treq EXCEPT ![r] = n]
      /\ UNCHANGED <<tickets, notes, added, broken>>
      /\ o = "delete" => removed' = removed \cup {i}
      /\ removed' \in {removed, removed \cup {i}}
      /\ overlap' = (overlap \/ \E q \in Requests : Busy(q))
  BY <1>1 DEF Submit
<1>4. /\ n.op = o /\ n.who = p /\ n.id = i
      /\ o = "delete" => n.step = "delete"
      /\ o # "delete" => n.step = "find"
      /\ n.again => o = "general"
  OBVIOUS
<1> HIDE DEF n
<1>5. TicketReq(n)'
  BY <1>1, <1>3, <1>4 DEF TicketReq, Edits
<1>6. /\ removed \subseteq removed' /\ removed' \subseteq Ids
      /\ notes' \subseteq Ids \X People /\ \A m \in notes' : m[2] \in added[m[1]]
  BY <1>3 DEF TicketInv, TicketsTypeOK, AuthorKept
<1>7. /\ overlap' \in BOOLEAN
      /\ ~overlap' => ~overlap /\ \A q \in Requests : ~Busy(q)
  BY <1>3 DEF TicketInv, TicketsTypeOK
<1> QED
  BY <1>2, <1>3, <1>4, <1>5, <1>6, <1>7, QuietTicket

\* The end of a request, perhaps with a mail to the author of a document.
LEMMA EndKeeps ==
  ASSUME TicketInv, NEW r \in Requests, treq[r].step \in {"find", "mail"}, Goto(r, "done"),
         UNCHANGED <<tickets, added, removed, overlap, broken>>,
         notes' = notes \/ \E t \in tickets : notes' = notes \cup {<<t.id, t.author>>}
  PROVE  TicketInv'
<1>1. treq' = [treq EXCEPT ![r] = Empty("done")]
  BY DEF Goto
<1>2. /\ Empty("done") \in Ticketing /\ Empty("done").step = "done" /\ TicketReq(Empty("done"))'
  BY EmptyShape
<1>3. notes' \subseteq Ids \X People /\ \A m \in notes' : m[2] \in added[m[1]]
  <2>1. CASE notes' = notes
    BY <2>1 DEF TicketInv, TicketsTypeOK, AuthorKept
  <2>2. ASSUME NEW t \in tickets, notes' = notes \cup {<<t.id, t.author>>}
        PROVE  notes' \subseteq Ids \X People /\ \A m \in notes' : m[2] \in added[m[1]]
    <3>1. t.id \in Ids /\ t.author \in People /\ t.author \in added[t.id]
      BY DEF TicketInv, TicketsTypeOK, AuthorKept, Document
    <3> QED
      BY <2>2, <3>1 DEF TicketInv, TicketsTypeOK, AuthorKept
  <2> QED
    BY <2>1, <2>2
<1>4. Busy(r) /\ overlap' \in BOOLEAN /\ removed' \subseteq Ids
  BY DEF Busy, TicketInv, TicketsTypeOK
<1> QED
  BY <1>1, <1>2, <1>3, <1>4, QuietTicket

LEMMA NumberKeeps ==
  ASSUME TicketInv, NEW r \in Requests, NumberTicket(r)
  PROVE  TicketInv'
<1>0. /\ treq[r] \in Ticketing /\ treq[r].op = "add" /\ treq[r].who \in People
      /\ treq[r].step = "find" /\ ~treq[r].again /\ NewId \in Ids /\ tickets # {}
      /\ UNCHANGED <<tickets, notes, added, removed, overlap, broken>>
      /\ treq \in [Requests -> Ticketing]
  BY DEF TicketInv, TicketsTypeOK, TicketReq, NumberTicket
<1>1. PICK n \in Ticketing :
         /\ treq' = [treq EXCEPT ![r] = n]
         /\ n.step = "insert" /\ n.op = "add" /\ n.who = treq[r].who /\ n.org = n.who
         /\ n.id = NewId /\ n.again = treq[r].again
  <2> DEFINE n == [treq[r] EXCEPT !.id = NewId, !.org = treq[r].who, !.step = "insert"]
  <2>1. treq' = [treq EXCEPT ![r] = n]
    BY <1>0 DEF NumberTicket, Ticketing
  <2>2. n \in Ticketing
    BY <1>0 DEF Ticketing
  <2>3. /\ n.step = "insert" /\ n.op = "add" /\ n.who = treq[r].who /\ n.org = n.who
        /\ n.id = NewId /\ n.again = treq[r].again
    BY <1>0 DEF Ticketing
  <2> HIDE DEF n
  <2> QED
    BY <2>1, <2>2, <2>3
<1>4. TicketReq(n)'
  BY <1>0, <1>1 DEF TicketReq, Edits
<1>5. At(n.id) = {}
  <2>1. \A t \in tickets : t.id \in Int /\ t.id < NewId /\ NewId \in Int
    BY <1>0, NewIdIsNew, TicketsAssumption DEF TicketInv, TicketsTypeOK, Document, Ids
  <2>2. \A t \in tickets : t.id # NewId
    BY <2>1
  <2> QED
    BY <1>1, <2>2 DEF At
<1>6. /\ Busy(r) /\ overlap' \in BOOLEAN /\ removed' \subseteq Ids
      /\ notes' \subseteq Ids \X People /\ \A m \in notes' : m[2] \in added[m[1]]
  BY <1>0 DEF Busy, TicketInv, TicketsTypeOK, AuthorKept
<1> QED
  BY <1>0, <1>1, <1>4, <1>5, <1>6, QuietTicket

LEMMA ReadKeeps ==
  ASSUME TicketInv, NEW r \in Requests, ReadTicket(r)
  PROVE  TicketInv'
<1>0. /\ treq[r] \in Ticketing /\ treq[r].op \in Edits /\ treq[r].who \in People
      /\ treq[r].step = "find" /\ (treq[r].again => treq[r].op = "general")
      /\ UNCHANGED <<tickets, notes, added, removed, overlap, broken>>
      /\ treq \in [Requests -> Ticketing]
  BY DEF TicketInv, TicketsTypeOK, TicketReq, ReadTicket
<1>1. PICK t \in At(treq[r].id) :
         treq' = [treq EXCEPT ![r].org = KeptAuthor(r, t), ![r].step = "delete"]
  BY DEF ReadTicket
<1>2. /\ t \in tickets /\ t.id = treq[r].id /\ t.author \in People
      /\ t.author \in added[treq[r].id]
  BY DEF At, TicketInv, AuthorKept, TicketsTypeOK, Document
<1>3. PICK n \in Ticketing :
         /\ treq' = [treq EXCEPT ![r] = n]
         /\ n.step = "delete" /\ n.op = treq[r].op /\ n.org = t.author /\ n.id = treq[r].id
         /\ n.again = treq[r].again
  <2> DEFINE n == [treq[r] EXCEPT !.org = t.author, !.step = "delete"]
  <2>1. treq' = [treq EXCEPT ![r] = n]
    BY <1>0, <1>1 DEF KeptAuthor, Ticketing
  <2>2. n \in Ticketing
    BY <1>0, <1>2 DEF Ticketing
  <2>3. /\ n.step = "delete" /\ n.op = treq[r].op /\ n.org = t.author /\ n.id = treq[r].id
        /\ n.again = treq[r].again
    BY <1>0 DEF Ticketing
  <2> HIDE DEF n
  <2> QED
    BY <2>1, <2>2, <2>3
<1>6. TicketReq(n)'
  BY <1>0, <1>2, <1>3 DEF TicketReq, Edits
<1>7. /\ Busy(r) /\ overlap' \in BOOLEAN /\ removed' \subseteq Ids
      /\ notes' \subseteq Ids \X People /\ \A m \in notes' : m[2] \in added[m[1]]
  BY <1>0 DEF Busy, TicketInv, TicketsTypeOK, AuthorKept
<1> QED
  BY <1>0, <1>3, <1>6, <1>7, QuietTicket

\* An edit that has deleted a document is about to insert it again.
LEMMA DeleteKeeps ==
  ASSUME TicketInv, NEW r \in Requests, delete_one(r)
  PROVE  TicketInv'
<1>0. /\ TicketsTypeOK /\ TicketReq(treq[r]) /\ treq[r] \in Ticketing
      /\ treq[r].step = "delete" /\ Busy(r)
  BY DEF TicketInv, TicketsTypeOK, delete_one, Busy
<1>1. UNCHANGED <<notes, added, removed, overlap>> /\ Goto(r, AfterDelete(r))
  BY DEF delete_one
<1>2. /\ tickets' \subseteq tickets /\ broken' \in BOOLEAN
      /\ ~broken' => /\ ~broken
                     /\ \/ \E t \in At(treq[r].id) : tickets' = tickets \ {t}
                        \/ At(treq[r].id) = {} /\ UNCHANGED tickets
  BY <1>0 DEF delete_one, TicketsTypeOK
<1>3. PICK n \in Ticketing :
         /\ treq' = [treq EXCEPT ![r] = n]
         /\ treq[r].op = "delete" => n = Empty("done")
         /\ treq[r].op # "delete" =>
              /\ n.step = "insert" /\ n.op = treq[r].op /\ n.who = treq[r].who
              /\ n.id = treq[r].id /\ n.org = treq[r].org
              /\ n.again => treq[r].again
  <2>1. CASE treq[r].op = "delete"
    <3>1. treq' = [treq EXCEPT ![r] = Empty("done")]
      BY <1>1, <2>1 DEF AfterDelete, Goto
    <3> QED
      BY <2>1, <3>1, EmptyShape
  <2>2. CASE treq[r].op # "delete"
    <3>1. Goto(r, "insert")
      BY <1>1, <2>2 DEF AfterDelete
    <3> QED
      BY <1>0, <2>2, <3>1, GotoShape
  <2> QED
    BY <2>1, <2>2
<1>4. TicketReq(n)'
  <2>1. CASE treq[r].op = "delete"
    BY <1>3, <2>1, EmptyShape
  <2>2. CASE treq[r].op # "delete"
    BY <1>0, <1>1, <1>3, <2>2 DEF TicketReq, Edits
  <2> QED
    BY <2>1, <2>2
<1>5. /\ treq' \in [Requests -> Ticketing] /\ treq'[r] = n
      /\ \A q \in Requests \ {r} : treq'[q] = treq[q]
      /\ (\A q \in Requests : TicketReq(treq[q]))'
      /\ Alone'
  BY <1>0, <1>1, <1>3, <1>4, TicketFrame
<1>6. TicketsTypeOK'
  BY <1>0, <1>1, <1>2, <1>5 DEF TicketsTypeOK
<1>7. AuthorKept'
  BY <1>1, <1>2 DEF TicketInv, AuthorKept
<1>8. TicketsSurvive'
  <2> SUFFICES ASSUME ~broken', NEW i \in Ids \ removed', added'[i] # {}
               PROVE  \/ {t \in tickets' : t.id = i} # {}
                      \/ \E q \in Requests : treq'[q].step = "insert" /\ treq'[q].id = i
    BY DEF TicketsSurvive, At
  <2>1. CASE i = treq[r].id
    <3>1. treq[r].op # "delete"
      BY <1>0, <1>1, <2>1 DEF TicketReq
    <3> QED
      BY <1>3, <1>5, <2>1, <3>1
  <2>2. CASE i # treq[r].id
    <3>1. \A t \in tickets : t.id = i => t \in tickets'
      BY <1>2, <2>2 DEF At
    <3>2. At(i) # {} \/ \E q \in Requests : treq[q].step = "insert" /\ treq[q].id = i
      BY <1>1, <1>2 DEF TicketInv, TicketsSurvive
    <3>3. \A q \in Requests : treq[q].step = "insert" => treq'[q] = treq[q]
      BY <1>0, <1>5
    <3> QED
      BY <3>1, <3>2, <3>3 DEF At
  <2> QED
    BY <2>1, <2>2
<1>9. Gap'
  <2> SUFFICES ASSUME ~overlap', ~broken', NEW q \in Requests, treq'[q].step = "insert"
               PROVE  {t \in tickets' : t.id = treq'[q].id} = {}
    BY DEF Gap, At
  <2>1. q = r
    <3> SUFFICES ASSUME q # r PROVE FALSE
      OBVIOUS
    <3>1. Busy(q)
      BY <1>5 DEF Busy
    <3> QED
      BY <1>0, <1>1, <3>1 DEF TicketInv, Alone
  <2>2. treq'[q].id = treq[r].id
    BY <1>3, <1>5, <2>1, EmptyShape
  <2>3. \A s, t \in tickets : s.id = t.id => s = t
    BY <1>1, <1>2 DEF TicketInv, UniqueIds
  <2> QED
    BY <1>2, <2>2, <2>3 DEF At
<1>10. UniqueIds'
  BY <1>1, <1>2 DEF TicketInv, UniqueIds
<1> QED
  BY <1>5, <1>6, <1>7, <1>8, <1>9, <1>10 DEF TicketInv

LEMMA InsertKeeps ==
  ASSUME TicketInv, NEW r \in Requests, insert_one(r)
  PROVE  TicketInv'
<1> DEFINE id == treq[r].id
           new == [id |-> treq[r].id, author |-> treq[r].org, by |-> r,
                   first |-> treq[r].again]
<1>0. /\ TicketsTypeOK /\ TicketReq(treq[r]) /\ treq[r] \in Ticketing
      /\ treq[r].step = "insert" /\ Busy(r) /\ id \in Ids
  BY DEF TicketInv, TicketsTypeOK, insert_one, Busy, Ticketing
<1>1. UNCHANGED <<notes, removed, overlap>> /\ Goto(r, AfterInsert(r))
  BY DEF insert_one
<1>2. /\ treq[r].op \in {"add"} \cup Edits /\ treq[r].org \in People
      /\ treq[r].op \in Edits => treq[r].org \in added[id]
      /\ treq[r].op = "add" => treq[r].org = treq[r].who /\ treq[r].who \in People
  <2>1. /\ treq[r].op \in {"add"} \cup Edits
        /\ treq[r].op \in Edits => treq[r].org \in added[id]
        /\ treq[r].op = "add" => treq[r].org = treq[r].who /\ treq[r].who \in People
    BY <1>0 DEF TicketReq
  <2> QED
    BY <1>0, <2>1 DEF TicketsTypeOK
<1>3. /\ broken' \in BOOLEAN /\ (~broken' => ~broken)
      /\ \/ /\ tickets' = tickets \cup {new}
            /\ added' = IF treq[r].op = "add"
                        THEN [added EXCEPT ![id] = added[id] \cup {treq[r].who}]
                        ELSE added
         \/ broken' /\ UNCHANGED <<tickets, added>>
  BY <1>0 DEF insert_one, TicketsTypeOK
<1>4. /\ added' \in [Ids -> SUBSET People]
      /\ \A i \in Ids : added[i] \subseteq added'[i]
      /\ \A i \in Ids \ {id} : added'[i] = added[i]
      /\ tickets' = tickets \cup {new} => treq[r].org \in added'[id] \/ broken'
  <2>0. added \in [Ids -> SUBSET People]
    BY <1>0 DEF TicketsTypeOK
  <2> HIDE DEF new, id
  <2>1. CASE treq[r].op = "add"
    BY <1>0, <1>2, <1>3, <2>0, <2>1
  <2>2. CASE treq[r].op # "add"
    BY <1>2, <1>3, <2>0, <2>2
  <2> QED
    BY <2>1, <2>2
<1>5. new \in Document /\ new.id = id /\ new.author = treq[r].org
  <2>1. treq[r].again \in BOOLEAN
    BY <1>0 DEF Ticketing
  <2> QED
    BY <1>0, <1>2, <2>1 DEF Document
<1> HIDE DEF new
<1>6. PICK n \in Ticketing :
         /\ treq' = [treq EXCEPT ![r] = n]
         /\ n.step # "insert" /\ TicketReq(n)'
  <2>1. CASE AfterInsert(r) = "done"
    <3>1. treq' = [treq EXCEPT ![r] = Empty("done")]
      BY <1>1, <2>1 DEF Goto
    <3> QED
      BY <3>1, EmptyShape
  <2>2. CASE treq[r].op \in {"add", "status"} /\ AfterInsert(r) = "mail"
    <3>1. Goto(r, "mail")
      BY <1>1, <2>2
    <3>2. PICK n \in Ticketing : treq' = [treq EXCEPT ![r] = n] /\ n.step = "mail"
                                 /\ n.op = treq[r].op /\ (n.again => treq[r].again)
      BY <1>0, <3>1, GotoShape
    <3>3. TicketReq(n)'
      BY <1>0, <2>2, <3>2 DEF TicketReq
    <3> QED
      BY <3>2, <3>3
  <2>3. CASE treq[r].op \notin {"add", "status"} /\ AfterInsert(r) = "delete"
    <3>1. Goto(r, "delete")
      BY <1>1, <2>3
    <3>2. PICK n \in Ticketing : /\ treq' = [treq EXCEPT ![r] = n] /\ n.step = "delete"
                                 /\ n.op = treq[r].op /\ n.id = id /\ n.org = treq[r].org
                                 /\ n.again => treq[r].again
      BY <1>0, <3>1, GotoShape
    <3>3. n.op \in Edits /\ n.org \in added'[n.id]
      BY <1>0, <1>2, <1>4, <2>3, <3>2
    <3>4. TicketReq(n)'
      BY <1>0, <3>2, <3>3 DEF TicketReq, Edits
    <3> QED
      BY <3>2, <3>4
  <2>4. \/ AfterInsert(r) = "done"
        \/ treq[r].op \in {"add", "status"} /\ AfterInsert(r) = "mail"
        \/ treq[r].op \notin {"add", "status"} /\ AfterInsert(r) = "delete"
    <3>1. CASE treq[r].op \in {"add", "status"}
      <4>1. ~treq[r].again
        BY <1>0, <3>1 DEF TicketReq
      <4> QED
        BY <3>1, <4>1 DEF AfterInsert
    <3>2. CASE treq[r].op \notin {"add", "status"} /\ treq[r].again
      BY <3>2 DEF AfterInsert
    <3>3. CASE treq[r].op \notin {"add", "status"} /\ ~treq[r].again
      BY <3>3 DEF AfterInsert
    <3> QED
      BY <3>1, <3>2, <3>3
  <2> QED
    BY <2>1, <2>2, <2>3, <2>4
<1>7. /\ treq' \in [Requests -> Ticketing] /\ treq'[r] = n
      /\ \A q \in Requests \ {r} : treq'[q] = treq[q]
      /\ (\A q \in Requests : TicketReq(treq[q]))'
      /\ Alone'
  BY <1>0, <1>1, <1>4, <1>6, TicketFrame
<1>8. TicketsTypeOK'
  BY <1>0, <1>1, <1>3, <1>4, <1>5, <1>7 DEF TicketsTypeOK
<1>9. AuthorKept'
  <2>1. \A t \in tickets : t.author \in added[t.id] /\ t.id \in Ids
    BY <1>0 DEF TicketInv, AuthorKept, TicketsTypeOK, Document
  <2>2. \A m \in notes : m[2] \in added[m[1]] /\ m[1] \in Ids
    BY <1>0 DEF TicketInv, AuthorKept, TicketsTypeOK
  <2>3. ASSUME NEW t \in tickets'
        PROVE  t.author \in added'[t.id]
    <3>1. CASE t \in tickets
      BY <1>4, <2>1, <3>1
    <3>2. CASE t \notin tickets
      <4>1. t = new /\ (treq[r].op = "add" \/ treq[r].op \in Edits)
        BY <1>2, <1>3, <3>2
      <4>2. treq[r].org \in added'[id]
        BY <1>0, <1>2, <1>3, <1>4, <3>2 DEF TicketsTypeOK
      <4> QED
        BY <1>5, <4>1, <4>2
    <3> QED
      BY <3>1, <3>2
  <2> QED
    BY <1>1, <1>4, <2>2, <2>3 DEF AuthorKept
<1>10. TicketsSurvive'
  <2> SUFFICES ASSUME ~broken', NEW i \in Ids \ removed', added'[i] # {}
               PROVE  \/ {t \in tickets' : t.id = i} # {}
                      \/ \E q \in Requests : treq'[q].step = "insert" /\ treq'[q].id = i
    BY DEF TicketsSurvive, At
  <2>1. CASE i = id
    BY <1>3, <1>5, <2>1
  <2>2. CASE i # id
    <3>1. added[i] # {} /\ i \notin removed /\ ~broken
      BY <1>1, <1>3, <1>4, <2>2
    <3>2. At(i) # {} \/ \E q \in Requests : treq[q].step = "insert" /\ treq[q].id = i
      BY <3>1 DEF TicketInv, TicketsSurvive
    <3>3. \A q \in Requests : treq[q].id = i => treq'[q] = treq[q]
      BY <1>7, <2>2
    <3>4. tickets \subseteq tickets'
      BY <1>3
    <3> QED
      BY <3>2, <3>3, <3>4 DEF At
  <2> QED
    BY <2>1, <2>2
<1>11. Gap'
  <2> SUFFICES ASSUME ~overlap', NEW q \in Requests, treq'[q].step = "insert"
               PROVE  FALSE
    BY DEF Gap
  <2>1. q # r
    BY <1>6, <1>7
  <2>2. Busy(q)
    BY <1>7, <2>1 DEF Busy
  <2> QED
    BY <1>0, <1>1, <2>1, <2>2 DEF TicketInv, Alone
<1>12. UniqueIds'
  <2> SUFFICES ASSUME ~overlap', ~broken', NEW s \in tickets', NEW t \in tickets', s.id = t.id
               PROVE  s = t
    BY DEF UniqueIds
  <2>1. ~overlap /\ ~broken
    BY <1>1, <1>3
  <2>2. \A u \in tickets : u.id # id
    BY <1>0, <2>1 DEF TicketInv, Gap, At
  <2>3. \A u, v \in tickets : u.id = v.id => u = v
    BY <2>1 DEF TicketInv, UniqueIds
  <2> QED
    BY <1>3, <1>5, <2>2, <2>3
<1> QED
  BY <1>7, <1>8, <1>9, <1>10, <1>11, <1>12 DEF TicketInv

LEMMA TicketStepKeeps ==
  ASSUME TicketInv, NEW r \in Requests, TicketStep(r)
  PROVE  TicketInv'
<1>1. CASE AssignNone(r)
  BY <1>1, EndKeeps DEF AssignNone
<1>2. CASE TicketGone(r)
  BY <1>2, EndKeeps DEF TicketGone
<1>3. CASE MailGone(r)
  BY <1>3, EndKeeps DEF MailGone
<1>4. CASE TicketMail(r)
  <2>1. notes' = notes \/ \E t \in tickets : notes' = notes \cup {<<t.id, t.author>>}
    BY <1>4 DEF TicketMail, At
  <2> QED
    BY <1>4, <2>1, EndKeeps DEF TicketMail
<1> QED
  BY <1>1, <1>2, <1>3, <1>4, NumberKeeps, ReadKeeps, DeleteKeeps, InsertKeeps DEF TicketStep

LEMMA TicketStutter ==
  ASSUME TicketInv, UNCHANGED ticketVars
  PROVE  TicketInv'
<1>1. UNCHANGED <<tickets, treq, notes, added, removed, overlap, broken>>
  BY DEF ticketVars
<1>2. TicketsTypeOK' /\ AuthorKept' /\ UniqueIds'
  BY <1>1 DEF TicketInv, TicketsTypeOK, AuthorKept, UniqueIds
<1>3. (\A r \in Requests : TicketReq(treq[r]))'
  BY <1>1 DEF TicketInv, TicketReq
<1>4. Alone' /\ Gap' /\ TicketsSurvive'
  BY <1>1 DEF TicketInv, Alone, Gap, TicketsSurvive, Busy, At
<1> QED
  BY <1>2, <1>3, <1>4 DEF TicketInv

LEMMA TicketInitial == TicketsInit => TicketInv
<1> SUFFICES ASSUME TicketsInit PROVE TicketInv
  OBVIOUS
<1>1. PICK p \in People :
         /\ tickets = {[id |-> 1, author |-> p, by |-> Nobody, first |-> FALSE]}
         /\ added = [i \in Ids |-> IF i = 1 THEN {p} ELSE {}]
  BY DEF TicketsInit
<1>2. /\ \A r \in Requests : treq[r] = Empty("idle")
      /\ notes = {} /\ removed = {} /\ ~overlap /\ ~broken /\ 1 \in Ids
  BY TicketsAssumption DEF TicketsInit, Ids
<1>3. \A r \in Requests : treq[r].step = "idle" /\ TicketReq(treq[r])
  BY <1>2, EmptyShape
<1> DEFINE first == [id |-> 1, author |-> p, by |-> Nobody, first |-> FALSE]
<1>a. first \in Document /\ first.id = 1 /\ first.author = p
  BY <1>2 DEF Document
<1>b. tickets = {first}
  BY <1>1
<1> HIDE DEF first
<1>c. added \in [Ids -> SUBSET People] /\ added[1] = {p} /\ \A i \in Ids : i # 1 => added[i] = {}
  BY <1>1, <1>2
<1>4. TicketsTypeOK
  <2>1. treq \in [Requests -> Ticketing]
    BY EmptyShape DEF TicketsInit
  <2> QED
    BY <1>2, <1>a, <1>b, <1>c, <2>1 DEF TicketsTypeOK, TicketsInit
<1>5. AuthorKept /\ UniqueIds
  BY <1>2, <1>a, <1>b, <1>c DEF AuthorKept, UniqueIds
<1>6. TicketsSurvive
  BY <1>a, <1>b, <1>c DEF TicketsSurvive, At
<1>7. Alone /\ Gap
  BY <1>3 DEF Alone, Gap, Busy
<1> QED
  BY <1>3, <1>4, <1>5, <1>6, <1>7 DEF TicketInv

LEMMA TicketInvariant == PagesSpec => []TicketInv
<1>1. TicketInv /\ [PagesNext]_pageVars => TicketInv'
  BY TicketStepKeeps, SubmitKeeps, TicketStutter DEF PagesNext, Page, PageStep, pageVars
<1>2. PagesInit => TicketInv
  BY TicketInitial DEF PagesInit
<1> QED
  BY <1>1, <1>2, PTL DEF PagesSpec

-----------------------------------------------------------------------------
\* The author of a ticket, and whoever is told of a change, added a ticket
\* with this number, however edits interleave and whatever fails.
THEOREM AuthorsAreKept == PagesSpec => []AuthorKept
BY TicketInvariant, PTL DEF TicketInv

\* Overlapping edits, which delete a ticket and insert it again, never lose
\* one that nobody asked to delete, unless a call of the database fails.
THEOREM NoTicketIsLost == PagesSpec => []TicketsSurvive
BY TicketInvariant, PTL DEF TicketInv

\* Without overlapping ticket requests and without outage, the number after
\* the largest one is new and stays unique under any number of edits.
THEOREM NumbersAreUnique == PagesSpec => []UniqueIds
BY TicketInvariant, PTL DEF TicketInv
-----------------------------------------------------------------------------
(***************************************************************************)
(* Pooled devices.  What the loop of `leave' computes is proved by looking *)
(* at the first of its rounds that would go wrong.                         *)
(***************************************************************************)
\* One round of the loop of publicuserconfig.
Round(names, u, f, i) ==
    IF i = 0 THEN <<>>
    ELSE IF names[i] = u THEN f[i - 1]
    ELSE Append(f[i - 1], names[i])

\* The rounds can be carried out one after the other: the function exists.
LEMMA RoundsExist ==
  ASSUME NEW S, NEW names \in Seq(S), NEW u
  PROVE  \E f : f = [i \in 0..Len(names) |-> Round(names, u, f, i)]
<1> DEFINE Good(n) == {f \in [0..n -> Seq(S)] : \A i \in 0..n : f[i] = Round(names, u, f, i)}
           Bad == {n \in 0..Len(names) : Good(n) = {}}
<1>0. Len(names) \in Nat /\ \A i \in 1..Len(names) : names[i] \in S
  BY LenProperties
<1>1. ASSUME Bad # {} PROVE FALSE
  <2>1. Bad \subseteq Nat
    BY <1>0
  <2> HIDE DEF Bad
  <2>2. PICK n \in Bad : \A m \in Bad : n <= m
    BY <1>1, <2>1, LeastElement
  <2> USE DEF Bad
  <2>3. n \in Nat /\ n <= Len(names)
    BY <1>0, <2>2
  <2>4. CASE n = 0
    <3> DEFINE f == [i \in 0..0 |-> <<>>]
    <3>1. f \in [0..0 -> Seq(S)] /\ \A i \in 0..0 : i = 0 /\ f[i] = <<>>
      BY EmptySeq
    <3> HIDE DEF f
    <3>2. f \in Good(0)
      BY <3>1 DEF Round
    <3>3. QED
      BY <2>2, <2>4, <3>2
  <2>5. CASE n # 0
    <3>1. n - 1 \in 0..Len(names) /\ n - 1 \notin Bad /\ n \in 1..Len(names)
      <4> HIDE DEF Bad
      <4>1. QED
        BY <1>0, <2>2, <2>3, <2>5
    <3>2. PICK g : g \in Good(n - 1)
      BY <3>1
    <3>3. g \in [0..(n - 1) -> Seq(S)] /\ \A i \in 0..(n - 1) : g[i] = Round(names, u, g, i)
      BY <3>2
    <3> DEFINE e == IF names[n] = u THEN g[n - 1] ELSE Append(g[n - 1], names[n])
               f == [i \in 0..n |-> IF i = n THEN e ELSE g[i]]
    <3>4. g[n - 1] \in Seq(S) /\ names[n] \in S
      BY <1>0, <2>3, <3>1, <3>3
    <3>5. e \in Seq(S)
      BY <3>4, AppendProperties
    <3> HIDE DEF e
    <3>6. \A i \in 0..n : i = n \/ i \in 0..(n - 1)
      BY <2>3
    <3>7. f \in [0..n -> Seq(S)] /\ f[n] = e /\ \A i \in 0..(n - 1) : f[i] = g[i]
      BY <2>3, <3>3, <3>5, <3>6
    <3> HIDE DEF f
    <3>8. ASSUME NEW i \in 0..n PROVE f[i] = Round(names, u, f, i)
      <4>1. CASE i = n
        <5>1. f[n - 1] = g[n - 1]
          BY <2>3, <3>1, <3>7
        <5>2. QED
          BY <2>5, <3>7, <4>1, <5>1 DEF Round, e
      <4>2. CASE i # n
        <5>1. i \in 0..(n - 1) /\ f[i] = g[i] /\ (i # 0 => f[i - 1] = g[i - 1])
          BY <2>3, <3>6, <3>7, <4>2
        <5>2. QED
          BY <3>3, <5>1 DEF Round
      <4>3. QED
        BY <4>1, <4>2
    <3>9. f \in Good(n)
      BY <3>7, <3>8
    <3>10. QED
      BY <2>2, <3>9
  <2>6. QED
    BY <2>4, <2>5
<1>2. PICK f : f \in Good(Len(names))
  <2>1. Len(names) \in 0..Len(names)
    BY <1>0
  <2>2. QED
    BY <1>1, <2>1
<1>3. f = [i \in 0..Len(names) |-> Round(names, u, f, i)]
  BY <1>2
<1>4. QED
  BY <1>3

LEMMA AppendSet ==
  ASSUME NEW S, NEW q \in Seq(S), NEW x \in S
  PROVE  ToSet(Append(q, x)) = ToSet(q) \cup {x}
<1> DEFINE a == Append(q, x)
<1>1. /\ Len(q) \in Nat /\ DOMAIN q = 1..Len(q) /\ DOMAIN a = 1..(Len(q) + 1)
      /\ a[Len(q) + 1] = x /\ \A i \in 1..Len(q) : a[i] = q[i]
  BY LenProperties, AppendProperties
<1> HIDE DEF a
<1>2. \A i \in DOMAIN a : i \in DOMAIN q \/ i = Len(q) + 1
  BY <1>1
<1>3. ToSet(a) = ToSet(q) \cup {x}
  BY <1>1, <1>2 DEF ToSet
<1>4. QED
  BY <1>3 DEF a

\* `leave' removes every mention of a user and keeps all others.
LEMMA OthersRemain ==
  ASSUME NEW S, NEW names \in Seq(S), NEW u
  PROVE  Others(names, u) \in Seq(S) /\ ToSet(Others(names, u)) = ToSet(names) \ {u}
<1> DEFINE kept == CHOOSE f : f = [i \in 0..Len(names) |-> Round(names, u, f, i)]
           To(i) == {names[j] : j \in 1..i} \ {u}
           Bad == {n \in 0..Len(names) : ~(kept[n] \in Seq(S) /\ ToSet(kept[n]) = To(n))}
<1>0. /\ Len(names) \in Nat /\ DOMAIN names = 1..Len(names)
      /\ \A i \in 1..Len(names) : names[i] \in S
  BY LenProperties
<1>1. kept = [i \in 0..Len(names) |-> Round(names, u, kept, i)]
  BY RoundsExist
<1>2. Others(names, u) = kept[Len(names)]
  BY DEF Others, Round
<1> HIDE DEF kept
<1>3. \A i \in 0..Len(names) : kept[i] = Round(names, u, kept, i)
  BY <1>1
<1>4. ASSUME Bad # {} PROVE FALSE
  <2>1. Bad \subseteq Nat
    BY <1>0
  <2> HIDE DEF Bad
  <2>2. PICK n \in Bad : \A m \in Bad : n <= m
    BY <1>4, <2>1, LeastElement
  <2> USE DEF Bad
  <2>3. n \in 0..Len(names) /\ ~(kept[n] \in Seq(S) /\ ToSet(kept[n]) = To(n))
    BY <2>2
  <2>4. CASE n = 0
    <3>1. kept[n] = <<>>
      BY <1>3, <2>3, <2>4 DEF Round
    <3>2. To(0) = {}
      OBVIOUS
    <3>3. <<>> \in Seq(S) /\ ToSet(<<>>) = {}
      BY DEF ToSet
    <3>4. QED
      BY <2>3, <2>4, <3>1, <3>2, <3>3
  <2>5. CASE n # 0
    <3>1. n \in Nat /\ n - 1 \in 0..Len(names) /\ n \in 1..Len(names) /\ n - 1 \notin Bad
      <4> HIDE DEF Bad
      <4>1. QED
        BY <1>0, <2>2, <2>3, <2>5
    <3>2. kept[n - 1] \in Seq(S) /\ ToSet(kept[n - 1]) = To(n - 1) /\ names[n] \in S
      BY <1>0, <3>1
    <3>3. kept[n] = IF names[n] = u THEN kept[n - 1] ELSE Append(kept[n - 1], names[n])
      BY <1>3, <2>3, <2>5 DEF Round
    <3>4. {names[j] : j \in 1..n} = {names[j] : j \in 1..(n - 1)} \cup {names[n]}
      <4>1. \A j : j \in 1..n <=> j \in 1..(n - 1) \/ j = n
        BY <2>5, <3>1
      <4>2. QED
        BY <4>1
    <3>5. CASE names[n] = u
      BY <2>3, <3>2, <3>3, <3>4, <3>5
    <3>6. CASE names[n] # u
      <4>1. kept[n] \in Seq(S)
        BY <3>2, <3>3, <3>6, AppendProperties
      <4>2. ToSet(kept[n]) = To(n - 1) \cup {names[n]}
        BY <3>2, <3>3, <3>6, AppendSet
      <4>3. To(n) = To(n - 1) \cup {names[n]}
        BY <3>4, <3>6
      <4>4. QED
        BY <2>3, <4>1, <4>2, <4>3
    <3>7. QED
      BY <3>5, <3>6
  <2>6. QED
    BY <2>4, <2>5
<1>5. kept[Len(names)] \in Seq(S) /\ ToSet(kept[Len(names)]) = To(Len(names))
  <2>1. Len(names) \in 0..Len(names)
    BY <1>0
  <2>2. QED
    BY <1>4, <2>1
<1>6. ToSet(names) = {names[j] : j \in 1..Len(names)}
  BY <1>0 DEF ToSet
<1>7. QED
  BY <1>2, <1>5, <1>6

\* What a request has in hand: it asked for what it is about to write, and
\* whoever it has read in the list asked to join.
PoolReq(q) ==
    q.step \in {"find", "update"} =>
        /\ q.who \in Users /\ q.op \in {"join", "leave"}
        /\ q.op = "join" => q.who \in joined
        /\ ToSet(q.seen) \subseteq joined

\* The inductive invariant.
PoolInv ==
    /\ PoolTypeOK
    /\ \A r \in Requests : PoolReq(preq[r])
    /\ MembersJoined

\* The list a request writes.
LEMMA NewListForm ==
  ASSUME PoolInv, NEW r \in Requests, preq[r].step = "update"
  PROVE  /\ NewList(r) \in Seq(Users)
         /\ preq[r].op = "join" => ToSet(NewList(r)) = ToSet(preq[r].seen) \cup {preq[r].who}
         /\ preq[r].op # "join" => ToSet(NewList(r)) = ToSet(preq[r].seen) \ {preq[r].who}
<1>1. preq[r].seen \in Seq(Users) /\ preq[r].who \in Users
  BY DEF PoolInv, PoolTypeOK, PoolReq, Request
<1>2. CASE preq[r].op = "join"
  BY <1>1, <1>2, AppendProperties, AppendSet DEF NewList
<1>3. CASE preq[r].op # "join"
  BY <1>1, <1>3, OthersRemain DEF NewList
<1> QED
  BY <1>2, <1>3

\* A step of one request leaves what the others have in hand alone.
LEMMA PoolFrame ==
  ASSUME PoolInv, NEW r \in Requests, NEW n \in Request, preq' = [preq EXCEPT ![r] = n],
         users' \in Seq(Users), ToSet(users') \subseteq joined',
         joined \subseteq joined', joined' \subseteq Users,
         PoolReq(n)'
  PROVE  PoolInv'
<1>1. /\ preq' \in [Requests -> Request] /\ preq'[r] = n
      /\ \A q \in Requests \ {r} : preq'[q] = preq[q]
  BY DEF PoolInv, PoolTypeOK
<1>2. ASSUME NEW q \in Requests PROVE PoolReq(preq[q])'
  <2>1. CASE q = r
    BY <1>1, <2>1 DEF PoolReq
  <2>2. CASE q # r
    <3>1. PoolReq(preq[q]) /\ preq'[q] = preq[q]
      BY <1>1, <2>2 DEF PoolInv
    <3> QED
      BY <3>1 DEF PoolReq
  <2> QED
    BY <2>1, <2>2
<1>3. PoolTypeOK' /\ MembersJoined'
  BY <1>1 DEF PoolTypeOK, MembersJoined
<1> QED
  BY <1>2, <1>3 DEF PoolInv

\* A request that ends has nothing in hand.
LEMMA NoRequestShape ==
  ASSUME NEW s \in {"idle", "done"}
  PROVE  /\ NoRequest(s) \in Request /\ NoRequest(s).step = s
         /\ PoolReq(NoRequest(s)) /\ PoolReq(NoRequest(s))'
<1>1. NoRequest(s) \in Request /\ NoRequest(s).step = s
  BY EmptySeq DEF NoRequest, Request
<1> QED
  BY <1>1 DEF PoolReq, NoRequest

LEMMA AskKeeps ==
  ASSUME PoolInv, NEW r \in Requests, PoolArrival(r)
  PROVE  PoolInv'
<1>1. PICK u \in Users, o \in {"join", "leave"} : Ask(r, o, u)
  BY DEF PoolArrival
<1> DEFINE n == [op |-> o, who |-> u, seen |-> <<>>, step |-> "find"]
<1>2. n \in Request /\ n.op = o /\ n.who = u /\ n.seen = <<>> /\ n.step = "find"
  BY EmptySeq DEF Request
<1>3. /\ preq' = [preq EXCEPT ![r] = n] /\ users' = users
      /\ joined \subseteq joined' /\ joined' \subseteq joined \cup {u}
      /\ o = "join" => u \in joined'
  BY <1>1 DEF Ask
<1> HIDE DEF n
<1>4. PoolReq(n)'
  <2>1. ToSet(<<>>) = {}
    BY DEF ToSet
  <2> QED
    BY <1>2, <1>3, <2>1 DEF PoolReq
<1>5. /\ users' \in Seq(Users) /\ ToSet(users') \subseteq joined'
      /\ joined' \subseteq Users
  BY <1>3 DEF PoolInv, PoolTypeOK, MembersJoined
<1> QED
  BY <1>2, <1>3, <1>4, <1>5, PoolFrame

LEMMA FindKeeps ==
  ASSUME PoolInv, NEW r \in Requests, find_device(r)
  PROVE  PoolInv'
<1>1. /\ preq[r].step = "find" /\ UNCHANGED <<users, joined>>
      /\ preq[r] \in Request /\ preq \in [Requests -> Request]
  BY DEF find_device, PoolInv, PoolTypeOK
<1>2. /\ users' \in Seq(Users) /\ ToSet(users') \subseteq joined'
      /\ joined' \subseteq Users
  BY <1>1 DEF PoolInv, PoolTypeOK, MembersJoined
<1>3. CASE preq' = [preq EXCEPT ![r].seen = users, ![r].step = "update"]
  <2>1. \E n : n = [preq[r] EXCEPT !.seen = users, !.step = "update"]
    OBVIOUS
  <2>2. PICK n : n = [preq[r] EXCEPT !.seen = users, !.step = "update"]
    BY <2>1
  <2>3. preq' = [preq EXCEPT ![r] = n]
    BY <1>1, <1>3, <2>2
  <2>4. /\ n \in Request /\ n.op = preq[r].op /\ n.who = preq[r].who
        /\ n.seen = users /\ n.step = "update"
    BY <1>1, <1>2, <2>2 DEF Request
  <2>5. PoolReq(n)'
    BY <1>1, <1>2, <2>4 DEF PoolInv, PoolReq
  <2> QED
    BY <1>1, <1>2, <2>3, <2>4, <2>5, PoolFrame
<1>4. CASE preq' = [preq EXCEPT ![r] = NoRequest("done")]
  BY <1>1, <1>2, <1>4, NoRequestShape, PoolFrame
<1> QED
  BY <1>3, <1>4 DEF find_device

LEMMA UpdateKeeps ==
  ASSUME PoolInv, NEW r \in Requests, update_device(r)
  PROVE  PoolInv'
<1>1. /\ preq[r].step = "update" /\ joined' = joined
      /\ preq' = [preq EXCEPT ![r] = NoRequest("done")]
      /\ users' = NewList(r) \/ users' = users
  BY DEF update_device
<1>2. NewList(r) \in Seq(Users) /\ ToSet(NewList(r)) \subseteq joined
  <2>1. PoolReq(preq[r])
    BY DEF PoolInv
  <2> QED
    BY <1>1, <2>1, NewListForm DEF PoolReq
<1>3. /\ users' \in Seq(Users) /\ ToSet(users') \subseteq joined'
      /\ joined' \subseteq Users
  BY <1>1, <1>2 DEF PoolInv, PoolTypeOK, MembersJoined
<1>4. /\ NoRequest("done") \in Request /\ NoRequest("done").step = "done"
      /\ PoolReq(NoRequest("done"))'
  BY NoRequestShape
<1> QED
  BY <1>1, <1>3, <1>4, PoolFrame

LEMMA PoolInitial == PoolInit => PoolInv
<1> SUFFICES ASSUME PoolInit PROVE PoolInv
  OBVIOUS
<1>1. /\ users = <<>> /\ joined = {}
      /\ \A r \in Requests : preq[r] = NoRequest("idle")
  BY DEF PoolInit
<1>2. \A r \in Requests : preq[r].step = "idle" /\ PoolReq(preq[r])
  BY <1>1, NoRequestShape
<1>3. PoolTypeOK
  BY <1>1, NoRequestShape, EmptySeq DEF PoolInit, PoolTypeOK
<1>4. MembersJoined
  BY <1>1 DEF MembersJoined, ToSet
<1> QED
  BY <1>2, <1>3, <1>4 DEF PoolInv

LEMMA PoolStutter ==
  ASSUME PoolInv, UNCHANGED poolVars
  PROVE  PoolInv'
<1>1. UNCHANGED <<users, preq, joined>>
  BY DEF poolVars
<1>2. PoolTypeOK' /\ MembersJoined'
  BY <1>1 DEF PoolInv, PoolTypeOK, MembersJoined
<1>3. (\A r \in Requests : PoolReq(preq[r]))'
  BY <1>1 DEF PoolInv, PoolReq
<1> QED
  BY <1>2, <1>3 DEF PoolInv

LEMMA PoolInvariant == PagesSpec => []PoolInv
<1>1. PoolInv /\ [PagesNext]_pageVars => PoolInv'
  BY AskKeeps, FindKeeps, UpdateKeeps, PoolStutter
     DEF PagesNext, Page, PageStep, PoolStep, pageVars
<1>2. PagesInit => PoolInv
  BY PoolInitial DEF PagesInit
<1> QED
  BY <1>1, <1>2, PTL DEF PagesSpec

-----------------------------------------------------------------------------
\* Whoever is in the list of a pooled device asked to join, however requests
\* overlap in reading and writing it.
THEOREM OnlyMembersJoined == PagesSpec => []MembersJoined
BY PoolInvariant, PTL DEF PoolInv

\* The list of a pooled device stands for a set.  Whenever publicuserconfig
\* changes it from an up-to-date copy, the set changes by the user of the
\* request only, however often the list names a user; what else happens to
\* the list is done by a request whose copy is out of date, for any number of
\* requests that overlap and of outages.
THEOREM ImplementsMembership == PagesSpec => MembershipRespected
<1>1. PagesInit => M!Init
  BY DEF PagesInit, PoolInit, M!Init, ToSet
<1>2. PoolInv /\ [PagesNext]_pageVars =>
        [\E r \in Requests :
            /\ preq[r].step = "update" /\ preq'[r].step = "done"
            /\ \/ Stale(r)
               \/ IF preq[r].op = "join" THEN M!Join(preq[r].who)
                                         ELSE M!Leave(preq[r].who)]_<<users>>
  <2> SUFFICES ASSUME PoolInv, [PagesNext]_pageVars, users' # users
               PROVE  \E r \in Requests :
                         /\ preq[r].step = "update" /\ preq'[r].step = "done"
                         /\ \/ Stale(r)
                            \/ IF preq[r].op = "join" THEN M!Join(preq[r].who)
                                                      ELSE M!Leave(preq[r].who)
    OBVIOUS
  <2>1. PICK r \in Requests : update_device(r)
    BY DEF PagesNext, Page, PageStep, PoolArrival, PoolStep, Ask, find_device, pageVars, poolVars
  <2>2. /\ preq[r].step = "update" /\ users' = NewList(r)
        /\ preq' = [preq EXCEPT ![r] = NoRequest("done")]
    BY <2>1 DEF update_device
  <2>3. preq'[r].step = "done"
    BY <2>2 DEF PoolInv, PoolTypeOK, NoRequest
  <2>4. preq[r].seen = users =>
           IF preq[r].op = "join" THEN M!Join(preq[r].who) ELSE M!Leave(preq[r].who)
    BY <2>2, NewListForm DEF M!Join, M!Leave
  <2> QED
    BY <2>2, <2>3, <2>4 DEF Stale
<1> QED
  BY <1>1, <1>2, PoolInvariant, PTL DEF PagesSpec, MembershipRespected

\* The tickets, the pooled device and the counters keep their types together,
\* for any number of requests and failures.
THEOREM PagesTypeSafe == PagesSpec => []PagesTypeOK
<1>1. CountInv /\ TicketInv /\ PoolInv => PagesTypeOK
  BY DEF CountInv, TicketInv, PoolInv, PagesTypeOK
<1>2. CountersSpec => []CountInv
  BY CountInvAlways, PTL
<1> QED
  BY <1>1, <1>2, PagesImplementCounting, TicketInvariant, PoolInvariant, PTL
=============================================================================
