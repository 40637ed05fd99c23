------------------------------- MODULE Pages -------------------------------
(***************************************************************************)
(* The pages for tickets and pooled devices and the dashboard, together:   *)
(* every request is one page, whose last step is a call into Counters.     *)
(***************************************************************************)
EXTENDS Tickets, PublicPool

pageVars == <<ticketVars, poolVars, countVars>>

PagesInit == CountersInit /\ TicketsInit /\ PoolInit

New(r) == treq[r].step = "idle" /\ preq[r].step = "idle" /\ cnt[r].step = "off"

\* A request is taken up by one page.
Page(r) ==
    /\ New(r)
    /\ \/ TicketArrival(r) /\ UNCHANGED poolVars
       \/ PoolArrival(r) /\ UNCHANGED ticketVars
       \/ CountArrival(r) /\ UNCHANGED <<ticketVars, poolVars>>

PageStep(r) ==
    \/ TicketStep(r) /\ UNCHANGED poolVars
    \/ PoolStep(r) /\ UNCHANGED ticketVars
    \/ CountStep(r) /\ UNCHANGED <<ticketVars, poolVars>>

PagesNext == \E r \in Requests : Page(r) \/ PageStep(r)

PagesSpec == PagesInit /\ [][PagesNext]_pageVars

-----------------------------------------------------------------------------
(***************************************************************************)
(* Properties.                                                             *)
(***************************************************************************)
\* The type invariant.
PagesTypeOK == CountersTypeOK /\ TicketsTypeOK /\ PoolTypeOK
=============================================================================
