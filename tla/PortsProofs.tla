---------------------------- MODULE PortsProofs ----------------------------
(***************************************************************************)
(* The properties of Ports for any number of ports, VLANs, handlers and    *)
(* outages.                                                                *)
(*                                                                         *)
(* Two arguments meet here.  A handler that nothing disturbed has had its  *)
(* ports, and the dictionary `refres' if it fills it, for itself (Apart):  *)
(* what it has read and written so far still stands (Mirror).  Disturbed   *)
(* handlers have no such claim, but whatever VLAN they carry to the        *)
(* document was known on their port (KnownTo), as long as no two of them   *)
(* fill the dictionary at once.                                            *)
(***************************************************************************)
EXTENDS Ports, TLAPS

Fields == {"mode", "untag", "tags", "lag"}
Running(r) == r.step \notin {"idle", "done"}
Mine(r) == PortsOf(r.kind, r.port)
Fills(r) == FillsShared(r.kind, r.port)
\* A switch port in no aggregation: a refresh writes what it has.
Fit(p) == p \notin Lag /\ switch[p].mode # "none"

\* Where a handler of each kind can be.
Flow(r) ==
    /\ r.step = "idle" => r.kind = "none" /\ ~r.disturbed
    /\ r.step # "idle" => r.kind \in AllKinds
    /\ r.step \in {"fill", "msg", "check"} => r.kind \in Refreshes
    /\ r.step = "fill" => r.res # Shared /\ Vendor[r.port] = "cisco"
    /\ r.step = "msg" => r.res = Shared
    /\ r.step \in Fields => r.kind # "resetsw"
    /\ r.step = "lag" => r.kind \in Refreshes \cup {"init"}
    /\ Running(r) /\ r.kind = "configure" => r.form.untag # Unread
    /\ Running(r) /\ r.kind # "configure" => r.form = Blank
    /\ /\ r.kind \in Refreshes /\ r.res = Shared
       /\ r.step \in {"msg", "check", "mode", "untag", "tags"}
       => Vendor[r.port] = "cisco"

\* Handlers that interfere know of it.
Apart ==
    \A i, j \in Jobs :
        /\ i # j /\ Running(job[i]) /\ Running(job[j])
        /\ Interferes(job[i].kind, job[i].port, job[j].kind, job[j].port)
        => job[i].disturbed /\ job[j].disturbed

SwitchKnown == \A p \in Port : switch[p].untag \in known[p]

\* The VLAN that a handler is about to write is known on its port.
KnownTo(r) ==
    /\ r.step \in {"mode", "untag"} /\ r.kind \notin Refreshes => r.form.untag \in known[r.port]
    /\ r.kind \in Refreshes /\ r.res # Shared /\ r.step \in {"fill", "check", "mode", "untag"} =>
         \/ r.res.untag \in known[r.port]
         \/ r.step = "check" /\ r.res.msg \in {"lag on", "not switchport"}
    /\ r.kind \in Refreshes /\ r.res = Shared /\ r.step \in {"msg", "check", "mode", "untag"} =>
         Mixed \/ refres.untag \in known[r.port] \/ (r.step = "check" /\ refres.msg = "login fail")

\* What an undisturbed handler has found and written at the port p.
ReplyOf(r) == IF r.res = Shared THEN refres ELSE r.res
Same(c, d) == c.mode = d.mode /\ c.untag = d.untag /\ c.tags = d.tags
Copying(r, p) ==
    /\ r.step \in {"fill", "msg", "check", "mode", "untag", "tags"} => Same(ReplyOf(r), Shown(p))
    /\ r.step = "fill" => ~ShownUnused(switch[p])
    /\ r.step = "check" => ReplyOf(r).msg \notin {"login fail", "lag on", "not switchport"}
    /\ r.step \in {"untag", "tags", "lag"} => db[p].mode = Shown(p).mode
    /\ r.step \in {"tags", "lag"} => db[p].untag = Shown(p).untag
    /\ r.step = "lag" => db[p].tags = Shown(p).tags
Refreshing(r) ==
    r.kind \in Refreshes =>
        /\ r.step = "fill" => Fit(r.port)
        /\ \A p \in Mine(r) : Fit(p) =>
            /\ p < r.port => Same(db[p], Shown(p))
            /\ p = r.port => Copying(r, p)
Setting(r) ==
    Sets(r) /\ r.step \in Fields =>
        /\ switch[r.port].untag = r.form.untag
        /\ r.step \in {"tags", "lag"} => db[r.port].untag = r.form.untag
Clearing(r) ==
    r.kind = "init" =>
        \A p \in Port \ Lag :
            /\ p < r.port \/ (p = r.port /\ r.step # "session")
            /\ Vendor[p] = "cisco"
            => switch[p].untag = Unused
Mirror(r) ==
    Running(r) /\ ~r.disturbed /\ ~r.hit => Refreshing(r) /\ Setting(r) /\ Clearing(r)

\* The inductive invariant.
PortsInv ==
    /\ PortsTypeOK
    /\ \A j \in Jobs : Flow(job[j]) /\ KnownTo(job[j]) /\ Mirror(job[j])
    /\ Apart
    /\ SwitchKnown
    /\ DatabaseAccountable

-----------------------------------------------------------------------------
(***************************************************************************)
(* The operators.                                                          *)
(***************************************************************************)
LEMMA Constants ==
  /\ Blank \in Config /\ Blank.mode = "access" /\ Blank.untag = Unused /\ Blank.tags = {}
  /\ 1 \in Port /\ Unused # Unread /\ Unused \notin Vlans /\ Unread \notin Vlans
BY PortsAssumption DEF Blank, Config, Untags, Port

LEMMA AnswerShape ==
  ASSUME NEW m \in Messages, NEW c \in Config
  PROVE  /\ Answer(m, c) \in Result /\ Answer(m, c).msg = m /\ Answer(m, c) # Shared
         /\ Same(Answer(m, c), c)
<1>1. Answer(m, c) \in Result
  BY DEF Answer, Result, Config
<1>2. Answer(m, c).msg = m /\ Same(Answer(m, c), c)
  BY DEF Answer, Same
<1> QED
  BY <1>1, <1>2, SharedAssumption

LEMMA ShownShape ==
  ASSUME PortsTypeOK, NEW p \in Port
  PROVE  /\ Shown(p).untag = switch[p].untag
         /\ Vendor[p] # "cisco" \/ switch[p].mode # "none" => Shown(p) \in Config
<1>1. switch[p] \in SwitchPort
  BY DEF PortsTypeOK
<1> QED
  BY <1>1 DEF Shown, Config, SwitchPort

\* The end of a port's turn.
Turned(r, n, why) ==
    /\ n \in Job
    /\ n.kind = r.kind /\ n.form = r.form /\ n.disturbed = r.disturbed /\ n.hit = r.hit
    /\ \/ n.step = "session" /\ n.port = r.port + 1 /\ n.port \in Port /\ r.kind \in Loops
       \/ /\ n.step = "done" /\ n.port = r.port /\ n.outcome = why
          /\ r.kind \in Loops => r.port = NumPorts

LEMMA NextPortShape ==
  ASSUME NEW r \in Job, NEW why \in {"ok", "failed"}
  PROVE  Turned(r, NextPort(r, why), why)
<1>1. r.port \in Port /\ NumPorts \in Nat
  BY PortsAssumption DEF Job
<1>2. CASE r.kind \in Loops /\ r.port < NumPorts
  <2> DEFINE n == [r EXCEPT !.port = r.port + 1, !.step = "session", !.res = Shared]
  <2>1. r.port + 1 \in Port
    BY <1>1, <1>2 DEF Port
  <2>2. /\ n \in Job /\ n.kind = r.kind /\ n.form = r.form /\ n.disturbed = r.disturbed
        /\ n.hit = r.hit /\ n.step = "session" /\ n.port = r.port + 1
    BY <2>1 DEF Job
  <2>3. NextPort(r, why) = n
    BY <1>2 DEF NextPort
  <2> QED
    BY <1>2, <2>1, <2>2, <2>3 DEF Turned
<1>3. CASE ~(r.kind \in Loops /\ r.port < NumPorts)
  <2> DEFINE n == [r EXCEPT !.step = "done", !.outcome = why]
  <2>2. /\ n \in Job /\ n.kind = r.kind /\ n.form = r.form /\ n.disturbed = r.disturbed
        /\ n.hit = r.hit /\ n.step = "done" /\ n.port = r.port /\ n.outcome = why
    BY DEF Job
  <2>3. NextPort(r, why) = n
    BY <1>3 DEF NextPort
  <2>4. r.kind \in Loops => r.port = NumPorts
    BY <1>1, <1>3 DEF Port
  <2> QED
    BY <2>2, <2>3, <2>4 DEF Turned
<1> QED
  BY <1>2, <1>3

-----------------------------------------------------------------------------
(***************************************************************************)
(* One handler takes a step and the others keep what they know.            *)
(***************************************************************************)
Steps(j, n) ==
    /\ Running(job[j]) /\ job' = [job EXCEPT ![j] = n] /\ n.step # "idle"
    /\ n.kind = job[j].kind /\ n.disturbed = job[j].disturbed
    /\ n.port = job[j].port \/ job[j].kind \in Loops
    /\ \A p \in Port : p # job[j].port => switch'[p] = switch[p] /\ db'[p] = db[p]
    /\ \A p \in Port : known[p] \subseteq known'[p]
    /\ refres' = refres \/ Fills(job[j])

LEMMA StepParts ==
  ASSUME PortsTypeOK, NEW j \in Jobs, NEW n \in Job, Steps(j, n)
  PROVE  /\ job' \in [Jobs -> Job] /\ job'[j] = n /\ \A i \in Jobs \ {j} : job'[i] = job[i]
         /\ Mine(n) = Mine(job[j]) /\ Fills(n) = Fills(job[j])
<1>1. job' \in [Jobs -> Job] /\ job'[j] = n /\ \A i \in Jobs \ {j} : job'[i] = job[i]
  BY DEF PortsTypeOK, Steps
<1>2. Mine(n) = Mine(job[j]) /\ Fills(n) = Fills(job[j])
  BY DEF Steps, Mine, PortsOf, Fills, FillsShared, Loops
<1> QED
  BY <1>1, <1>2

LEMMA MixedStays ==
  ASSUME PortsTypeOK, NEW j \in Jobs, NEW n \in Job, Steps(j, n), Mixed
  PROVE  Mixed'
<1>1. /\ job'[j].disturbed = job[j].disturbed
      /\ FillsShared(job'[j].kind, job'[j].port) = FillsShared(job[j].kind, job[j].port)
      /\ \A i \in Jobs \ {j} : job'[i] = job[i]
  BY StepParts DEF Steps, Fills
<1>2. PICK a, b \in Jobs : /\ a # b /\ job[a].disturbed /\ job[b].disturbed
                           /\ FillsShared(job[a].kind, job[a].port)
                           /\ FillsShared(job[b].kind, job[b].port)
  BY DEF Mixed
<1>3. /\ job'[a].disturbed /\ job'[b].disturbed
      /\ FillsShared(job'[a].kind, job'[a].port)
      /\ FillsShared(job'[b].kind, job'[b].port)
  BY <1>1, <1>2
<1> QED
  BY <1>2, <1>3 DEF Mixed

LEMMA ApartStays ==
  ASSUME PortsTypeOK, Apart, NEW j \in Jobs, NEW n \in Job, Steps(j, n)
  PROVE  Apart'
<1> SUFFICES ASSUME NEW a \in Jobs, NEW b \in Jobs, a # b,
                    Running(job'[a]), Running(job'[b]),
                    Interferes(job'[a].kind, job'[a].port, job'[b].kind, job'[b].port)
             PROVE  job'[a].disturbed /\ job'[b].disturbed
  BY DEF Apart, Running
<1>1. \A i \in Jobs : /\ job'[i].disturbed = job[i].disturbed
                      /\ Mine(job'[i]) = Mine(job[i]) /\ Fills(job'[i]) = Fills(job[i])
                      /\ Running(job'[i]) => Running(job[i])
  BY StepParts DEF Steps
<1>2. Interferes(job[a].kind, job[a].port, job[b].kind, job[b].port)
  BY <1>1 DEF Interferes, Mine, Fills
<1> QED
  BY <1>1, <1>2 DEF Apart

LEMMA PortIsMine ==
  ASSUME NEW r \in Job
  PROVE  r.port \in Mine(r) /\ Mine(r) \subseteq Port
BY DEF Mine, PortsOf, Job

\* Two handlers that fill the dictionary at once.
LEMMA Overlap ==
  ASSUME PortsTypeOK, Apart, NEW i \in Jobs, NEW j \in Jobs, i # j,
         Running(job[i]), Running(job[j]), Fills(job[i]), Fills(job[j])
  PROVE  Mixed
BY DEF Apart, Interferes, Fills, Mixed

LEMMA OtherKnows ==
  ASSUME PortsInv, NEW j \in Jobs, NEW n \in Job, Steps(j, n), NEW i \in Jobs, i # j
  PROVE  KnownTo(job[i])'
<1>1. PICK r \in Job : r = job[i] /\ r = job'[i] /\ Flow(r) /\ KnownTo(r)
  BY StepParts DEF PortsInv, PortsTypeOK
<1>2. \A v \in known[r.port] : v \in known'[r.port]
  BY DEF Steps, Job
<1>3. Mixed => Mixed'
  BY MixedStays DEF PortsInv
<1>4. r.kind \in Refreshes /\ r.res = Shared /\ r.step \in {"msg", "check", "mode", "untag"} =>
         Mixed \/ refres' = refres
  <2> SUFFICES ASSUME r.kind \in Refreshes, r.res = Shared,
                      r.step \in {"msg", "check", "mode", "untag"}, Fills(job[j])
               PROVE  Mixed
    BY DEF Steps
  <2>1. Running(r) /\ Fills(r)
    BY <1>1 DEF Flow, Running, Fills, FillsShared, Refreshes
  <2> QED
    BY <1>1, <2>1, Overlap DEF PortsInv, Steps
<1>5. KnownTo(r)'
  BY <1>1, <1>2, <1>3, <1>4 DEF KnownTo
<1> QED
  BY <1>1, <1>5 DEF KnownTo

LEMMA OtherMirrors ==
  ASSUME PortsInv, NEW j \in Jobs, NEW n \in Job, Steps(j, n), NEW i \in Jobs, i # j
  PROVE  Mirror(job[i])'
<1>1. PICK r \in Job : r = job[i] /\ r = job'[i] /\ Flow(r) /\ Mirror(r)
  BY StepParts DEF PortsInv, PortsTypeOK
<1>2. ASSUME Running(r), ~r.disturbed, ~r.hit
      PROVE  Refreshing(r)' /\ Setting(r)' /\ Clearing(r)'
  <2>1. Refreshing(r) /\ Setting(r) /\ Clearing(r)
    BY <1>1, <1>2 DEF Mirror
  <2>2. job[j] \in Job /\ Running(job[j])
    BY DEF PortsInv, PortsTypeOK, Steps
  <2>3. Mine(r) \cap Mine(job[j]) = {} /\ ~(Fills(r) /\ Fills(job[j]))
    BY <1>1, <1>2, <2>2 DEF PortsInv, Apart, Interferes, Mine, Fills
  <2>4. \A p \in Mine(r) : p \in Port /\ switch'[p] = switch[p] /\ db'[p] = db[p]
    BY <2>2, <2>3, PortIsMine DEF Steps
  <2>5. \A p \in Mine(r) : Shown(p)' = Shown(p) /\ Fit(p)' = Fit(p)
    BY <2>4 DEF Shown, Fit
  <2>6. r.kind \in Refreshes /\ r.step \in {"fill", "msg", "check", "mode", "untag", "tags"} =>
          ReplyOf(r)' = ReplyOf(r)
    <3>1. r.kind \in Refreshes /\ r.step \in {"fill", "msg", "check", "mode", "untag", "tags"}
            /\ r.res = Shared => refres' = refres
      BY <1>1, <2>3 DEF Flow, Fills, FillsShared, Refreshes, Steps
    <3> QED
      BY <3>1 DEF ReplyOf
  <2>7. Refreshing(r)'
    <3>4. r.kind \in Refreshes /\ r.step = "fill" => Fit(r.port)'
      BY <2>1, <2>5, PortIsMine DEF Refreshing
    <3> SUFFICES ASSUME r.kind \in Refreshes, NEW p \in Mine(r), Fit(p)'
                 PROVE  /\ p < r.port => Same(db'[p], Shown(p)')
                        /\ p = r.port => Copying(r, p)'
      BY <3>4 DEF Refreshing, Same
    <3>1. /\ p < r.port => Same(db[p], Shown(p))
          /\ p = r.port => Copying(r, p)
      BY <2>1, <2>5 DEF Refreshing
    <3>2. db'[p] = db[p] /\ Shown(p)' = Shown(p) /\ switch'[p] = switch[p]
      BY <2>4, <2>5
    <3>3. Copying(r, p) => Copying(r, p)'
      BY <2>6, <3>2 DEF Copying, Same
    <3> QED
      BY <3>1, <3>2, <3>3
  <2>8. Setting(r)'
    BY <2>1, <2>4, PortIsMine DEF Setting, Sets
  <2>9. Clearing(r)'
    BY <2>1, <2>4 DEF Clearing, Mine, PortsOf, Loops
  <2> QED
    BY <2>7, <2>8, <2>9
<1>3. Mirror(r)'
  BY <1>2 DEF Mirror
<1> QED
  BY <1>1, <1>3 DEF Mirror, Refreshing, Setting, Sets, Clearing, Copying, ReplyOf, Running

\* A step that also keeps the facts about the handler itself.
LEMMA StepKeeps ==
  ASSUME PortsInv, NEW j \in Jobs, NEW n \in Job, Steps(j, n),
         switch' \in [Port -> SwitchPort], db' \in [Port -> Document], refres' \in Result,
         outages' \in 0..MaxFaults, known' \in [Port -> SUBSET Untags],
         Flow(n), KnownTo(n)', Mirror(n)', SwitchKnown', DatabaseAccountable'
  PROVE  PortsInv'
<1>1. PortsTypeOK' /\ Apart'
  BY StepParts, ApartStays DEF PortsInv, PortsTypeOK
<1>2. \A i \in Jobs : Flow(job[i])' /\ KnownTo(job[i])' /\ Mirror(job[i])'
  <2> SUFFICES ASSUME NEW i \in Jobs
               PROVE  Flow(job[i])' /\ KnownTo(job[i])' /\ Mirror(job[i])'
    OBVIOUS
  <2>1. CASE i = j
    <3>1. job'[i] = n
      BY <2>1, StepParts DEF PortsInv
    <3>2. Flow(job[i])'
      BY <3>1 DEF Flow, Running
    <3>3. KnownTo(job[i])'
      BY <3>1 DEF KnownTo
    <3>4. Mirror(job[i])'
      BY <3>1 DEF Mirror, Refreshing, Setting, Sets, Clearing, Copying, ReplyOf, Running
    <3> QED
      BY <3>2, <3>3, <3>4
  <2>2. CASE i # j
    <3>1. job'[i] = job[i]
      BY <2>2, StepParts DEF PortsInv
    <3>2. Flow(job[i])'
      BY <3>1 DEF PortsInv, Flow, Running
    <3> QED
      BY <2>2, <3>2, OtherKnows, OtherMirrors
  <2> QED
    BY <2>1, <2>2
<1> QED
  BY <1>1, <1>2 DEF PortsInv

LEMMA JobFacts ==
  ASSUME PortsInv, NEW j \in Jobs
  PROVE  /\ PortsTypeOK /\ job[j] \in Job
         /\ Flow(job[j]) /\ KnownTo(job[j]) /\ Mirror(job[j])
BY DEF PortsInv, PortsTypeOK

\* Steps that leave the document alone.
LEMMA DocumentKeeps ==
  ASSUME PortsInv, NEW j \in Jobs, NEW n \in Job, Steps(j, n), UNCHANGED db
  PROVE  DatabaseAccountable'
<1>1. Mixed => Mixed'
  BY MixedStays DEF PortsInv
<1> QED
  BY <1>1 DEF PortsInv, DatabaseAccountable, Steps

\* What an undisturbed handler has done when it leaves a port.
Finished(r) ==
    /\ r.kind \in Refreshes =>
         \A p \in Mine(r) : Fit(p) /\ p <= r.port => Same(db[p], Shown(p))
    /\ r.kind = "init" =>
         \A p \in Port \ Lag : p <= r.port /\ Vendor[p] = "cisco" => switch[p].untag = Unused

LEMMA TurnKeeps ==
  ASSUME NEW r \in Job, Flow(r), Running(r), NEW n, NEW why, Turned(r, n, why),
         ~r.disturbed /\ ~r.hit => Finished(r)'
  PROVE  Flow(n) /\ KnownTo(n)' /\ Mirror(n)'
<1>1. Flow(n)
  BY DEF Flow, Turned, Running, Fields
<1>2. KnownTo(n)'
  BY DEF KnownTo, Turned
<1>3. ASSUME Running(n), ~n.disturbed, ~n.hit
      PROVE  Refreshing(n)' /\ Setting(n)' /\ Clearing(n)'
  <2>1. /\ n.step = "session" /\ n.port = r.port + 1 /\ n.kind = r.kind
        /\ r.port \in Nat /\ n.kind \in Loops /\ Mine(n) = Mine(r) /\ Mine(n) = Port
        /\ ~r.disturbed /\ ~r.hit
    BY <1>3 DEF Turned, Running, Mine, PortsOf, Job, Port
  <2>2. \A p \in Port : p < n.port => p <= r.port
    BY <2>1 DEF Port
  <2>4. \A p \in Port : Copying(n, p)'
    BY <2>1 DEF Copying
  <2>5. Refreshing(n)'
    BY <2>1, <2>2, <2>4 DEF Refreshing, Finished, Same
  <2>6. Setting(n)'
    BY <2>1 DEF Setting, Fields
  <2>7. Clearing(n)'
    BY <2>1, <2>2 DEF Clearing, Finished
  <2> QED
    BY <2>5, <2>6, <2>7
<1> QED
  BY <1>1, <1>2, <1>3 DEF Mirror

\* A step that ends the port's turn and leaves switch and document alone.
LEMMA TurnOnly ==
  ASSUME PortsInv, NEW j \in Jobs, Running(job[j]), NEW r \in Job,
         Flow(r), Running(r), r.kind = job[j].kind, r.port = job[j].port,
         r.disturbed = job[j].disturbed,
         NEW n, NEW why, Turned(r, n, why), job' = [job EXCEPT ![j] = n],
         ~r.disturbed /\ ~r.hit => Finished(r)',
         UNCHANGED <<switch, db, refres, known>>, outages' \in 0..MaxFaults
  PROVE  PortsInv'
<1>1. Flow(n) /\ KnownTo(n)' /\ Mirror(n)' /\ n \in Job
  BY TurnKeeps DEF Turned
<1>2. Steps(j, n)
  BY DEF Steps, Turned
<1>3. SwitchKnown'
  BY DEF PortsInv, SwitchKnown
<1>4. DatabaseAccountable'
  BY <1>1, <1>2, DocumentKeeps
<1>5. /\ switch' \in [Port -> SwitchPort] /\ db' \in [Port -> Document] /\ refres' \in Result
      /\ known' \in [Port -> SUBSET Untags]
  BY DEF PortsInv, PortsTypeOK
<1> QED
  BY <1>1, <1>2, <1>3, <1>4, <1>5, StepKeeps

-----------------------------------------------------------------------------
(***************************************************************************)
(* The steps, one by one.                                                  *)
(***************************************************************************)
LEMMA OutageType ==
  ASSUME PortsTypeOK, NEW j, Outage(j) \/ NoOutage \/ UNCHANGED outages
  PROVE  outages' \in 0..MaxFaults
BY PortsAssumption DEF PortsTypeOK, Outage, NoOutage

\* Cisco.Refresh leaves `login fail' in the dictionary that all share.
LEMMA LoginFailsKeeps ==
  ASSUME PortsInv, NEW j \in Jobs, LoginFails(j)
  PROVE  PortsInv'
<1>1. PICK r \in Job : r = job[j] /\ Flow(r) /\ PortsTypeOK
  BY JobFacts
<1>2. r.step = "session" /\ Outage(j) /\ UNCHANGED <<switch, db, known>> /\ Running(r)
  BY <1>1 DEF LoginFails, Running
<1>3. outages' \in 0..MaxFaults
  BY <1>1, <1>2, OutageType
<1>4. CASE r.kind \in Refreshes /\ Vendor[r.port] = "cisco"
  <2> DEFINE n == [r EXCEPT !.step = "check", !.res = Shared, !.hit = TRUE]
  <2>1. job' = [job EXCEPT ![j] = n] /\ refres' = [refres EXCEPT !.msg = "login fail"]
    BY <1>1, <1>4 DEF LoginFails, PortsTypeOK
  <2>2. /\ n \in Job /\ n.kind = r.kind /\ n.disturbed = r.disturbed /\ n.port = r.port
        /\ n.step = "check" /\ n.hit /\ n.res = Shared /\ n.form = r.form
    BY DEF Job
  <2> HIDE DEF n
  <2>3. Fills(r)
    BY <1>4 DEF Fills, FillsShared, Refreshes
  <2>4. Steps(j, n)
    BY <1>1, <1>2, <2>1, <2>2, <2>3 DEF Steps
  <2>5. Flow(n)
    BY <1>1, <1>2, <1>4, <2>2 DEF Flow, Running, Fields, Refreshes
  <2>6. PICK m \in Job : m = n
    BY <2>2
  <2>7. refres' \in Result /\ refres'.msg = "login fail"
    BY <1>1, <2>1 DEF PortsTypeOK, Result, Messages
  <2>8. KnownTo(m)' /\ Mirror(m)'
    BY <1>4, <2>2, <2>6, <2>7 DEF KnownTo, Mirror
  <2>9. SwitchKnown' /\ DatabaseAccountable'
    BY <1>2, <2>2, <2>4, DocumentKeeps DEF PortsInv, SwitchKnown
  <2>10. /\ switch' \in [Port -> SwitchPort] /\ db' \in [Port -> Document]
         /\ known' \in [Port -> SUBSET Untags]
    BY <1>1, <1>2 DEF PortsTypeOK
  <2> QED
    BY <1>3, <2>4, <2>5, <2>6, <2>7, <2>8, <2>9, <2>10, StepKeeps
<1>5. CASE ~(r.kind \in Refreshes /\ Vendor[r.port] = "cisco")
  <2> DEFINE h == [r EXCEPT !.hit = TRUE]
  <2>1. /\ h \in Job /\ h.kind = r.kind /\ h.disturbed = r.disturbed /\ h.port = r.port
        /\ h.step = r.step /\ h.hit /\ h.form = r.form /\ h.res = r.res
    BY DEF Job
  <2>2. job' = [job EXCEPT ![j] = NextPort(h, "failed")] /\ UNCHANGED refres
    BY <1>1, <1>5 DEF LoginFails
  <2> HIDE DEF h
  <2>3. PICK g \in Job : g = h
    BY <2>1
  <2>4. Turned(g, NextPort(g, "failed"), "failed")
    BY NextPortShape
  <2>5. Flow(g) /\ Running(g)
    BY <1>1, <1>2, <2>1, <2>3 DEF Flow, Running
  <2> QED
    BY <1>1, <1>2, <1>3, <2>1, <2>2, <2>3, <2>4, <2>5, TurnOnly
<1> QED
  BY <1>4, <1>5

\* The dialogues of both vendors put the untagged VLAN on the port, where the
\* switch takes it.
LEMMA SetShape ==
  ASSUME PortsTypeOK, NEW p \in Port, NEW c \in Config,
         NEW mode \in {"access", "trunk", "shutdown"}, c.untag # Unread
  PROVE  /\ SwitchSet(p, mode, c) \in SwitchPort
         /\ mode # "shutdown" /\ ~(Vendor[p] = "dell" /\ SwitchSet(p, mode, c).mode = "none") =>
              SwitchSet(p, mode, c).untag = c.untag
<1> DEFINE old == switch[p]
<1>1. old \in SwitchPort
  BY DEF PortsTypeOK
<1>0. c.mode \in {"access", "trunk"} /\ c.untag \in Untags /\ c.tags \in SUBSET Vlans /\ Unused \in Untags
  BY DEF Config, Untags
<1> HIDE DEF old
<1>2. /\ DellSet(old, mode, c) \in SwitchPort
      /\ mode # "shutdown" /\ DellSet(old, mode, c).mode # "none" =>
           DellSet(old, mode, c).untag = c.untag
  <2>1. CASE old.mode = "none"
    BY <1>1, <2>1 DEF DellSet
  <2>2. CASE old.mode # "none" /\ mode = "shutdown"
    <3>1. DellSet(old, mode, c) = [old EXCEPT !.mode = "access", !.untag = Unused, !.tags = {}]
      BY <2>2 DEF DellSet
    <3> QED
      BY <1>0, <1>1, <2>2, <3>1 DEF SwitchPort
  <2>3. CASE old.mode # "none" /\ mode # "shutdown"
    <3>1. DellSet(old, mode, c) = [old EXCEPT !.mode = c.mode, !.untag = c.untag, !.tags = c.tags]
      BY <2>3 DEF DellSet
    <3> QED
      BY <1>0, <1>1, <3>1 DEF SwitchPort
  <2> QED
    BY <2>1, <2>2, <2>3
<1>3. /\ CiscoSet(old, mode, c) \in SwitchPort
      /\ mode # "shutdown" => CiscoSet(old, mode, c).untag = c.untag
  <2>1. CASE mode = "access"
    BY <1>0, <2>1 DEF CiscoSet, SwitchPort
  <2>2. CASE mode = "trunk"
    <3> DEFINE t == IF c.untag = Unused \/ c.tags = {} THEN old.tags ELSE c.tags \cup {c.untag}
    <3>1. CiscoSet(old, mode, c)
            = [mode |-> "trunk", untag |-> c.untag, desc |-> TRUE, tags |-> t]
      BY <2>2 DEF CiscoSet
    <3>2. t \in SUBSET Vlans
      BY <1>0, <1>1 DEF SwitchPort, Untags
    <3> HIDE DEF t
    <3> QED
      BY <1>0, <3>1, <3>2 DEF SwitchPort
  <2>4. CASE mode = "shutdown"
    <3>1. CiscoSet(old, mode, c) = old
      BY <2>4 DEF CiscoSet
    <3> QED
      BY <1>1, <2>4, <3>1
  <2> QED
    BY <2>1, <2>2, <2>4
<1> QED
  BY <1>2, <1>3, PortsAssumption DEF SwitchSet, old

\* A session that sets the port p and lets it know.
LEMMA AskedShape ==
  ASSUME PortsInv, NEW p \in Port, NEW c \in SwitchPort, NEW v \in Untags,
         switch' = [switch EXCEPT ![p] = c], Asked(p, v)
  PROVE  /\ switch' \in [Port -> SwitchPort] /\ switch'[p] = c
         /\ \A q \in Port \ {p} : switch'[q] = switch[q]
         /\ known' \in [Port -> SUBSET Untags] /\ v \in known'[p]
         /\ \A q \in Port : known[q] \subseteq known'[q]
         /\ SwitchKnown'
<1>1. switch \in [Port -> SwitchPort] /\ known \in [Port -> SUBSET Untags] /\ SwitchKnown
  BY DEF PortsInv, PortsTypeOK
<1>2. /\ switch' \in [Port -> SwitchPort] /\ switch'[p] = c
      /\ \A q \in Port \ {p} : switch'[q] = switch[q]
  BY <1>1
<1>3. c.untag \in Untags
  BY DEF SwitchPort
<1>4. known' = [known EXCEPT ![p] = known[p] \cup {v, c.untag}]
  BY <1>1, <1>2 DEF Asked
<1>5. /\ known' \in [Port -> SUBSET Untags] /\ known'[p] = known[p] \cup {v, c.untag}
      /\ \A q \in Port \ {p} : known'[q] = known[q]
  BY <1>1, <1>3, <1>4
<1>6. SwitchKnown'
  BY <1>1, <1>2, <1>5 DEF SwitchKnown
<1> QED
  BY <1>2, <1>5, <1>6

LEMMA InterruptedShape ==
  ASSUME PortsTypeOK, NEW j \in Jobs
  PROVE  Interrupted(j) \subseteq SwitchPort
<1>1. switch[job[j].port] \in SwitchPort
  BY DEF PortsTypeOK, Job
<1> QED
  BY <1>1 DEF Interrupted

LEMMA SessionRaisesKeeps ==
  ASSUME PortsInv, NEW j \in Jobs, SessionRaises(j)
  PROVE  PortsInv'
<1>1. PICK r \in Job : r = job[j] /\ Flow(r) /\ PortsTypeOK
  BY JobFacts
<1> DEFINE n == [r EXCEPT !.step = "done", !.outcome = "error", !.hit = TRUE]
<1>2. /\ job' = [job EXCEPT ![j] = n] /\ Outage(j) /\ r.step = "session"
      /\ Asked(r.port, switch[r.port].untag) /\ UNCHANGED <<db, refres>>
  BY <1>1 DEF SessionRaises, PortsTypeOK
<1>3. /\ n \in Job /\ n.kind = r.kind /\ n.disturbed = r.disturbed /\ n.port = r.port
      /\ n.step = "done" /\ n.hit
  BY DEF Job
<1> HIDE DEF n
<1>10. PICK c \in SwitchPort : switch' = [switch EXCEPT ![r.port] = c]
  BY <1>1, InterruptedShape DEF SessionRaises
<1>11. PICK u \in Untags : u = switch[r.port].untag
  BY <1>1 DEF PortsTypeOK, SwitchPort, Job
<1>12. r.port \in Port /\ Asked(r.port, u)
  BY <1>2, <1>11 DEF Job
<1>13. /\ switch' \in [Port -> SwitchPort] /\ switch'[r.port] = c
       /\ \A q \in Port \ {r.port} : switch'[q] = switch[q]
       /\ known' \in [Port -> SUBSET Untags]
       /\ \A q \in Port : known[q] \subseteq known'[q]
       /\ SwitchKnown'
  BY <1>10, <1>12, AskedShape
<1>4. Steps(j, n)
  BY <1>1, <1>2, <1>3, <1>13 DEF Steps, Running
<1>5. Flow(n)
  BY <1>1, <1>2, <1>3 DEF Flow, Running, Fields
<1>6. PICK m \in Job : m = n
  BY <1>3
<1>7. KnownTo(m)' /\ Mirror(m)'
  BY <1>3, <1>6 DEF KnownTo, Mirror
<1>8. DatabaseAccountable'
  BY <1>2, <1>3, <1>4, DocumentKeeps
<1>9. /\ db' \in [Port -> Document] /\ refres' \in Result /\ outages' \in 0..MaxFaults
  BY <1>1, <1>2, OutageType DEF PortsTypeOK
<1> QED
  BY <1>4, <1>5, <1>6, <1>7, <1>8, <1>9, <1>13, StepKeeps

LEMMA PortSetKeeps ==
  ASSUME PortsInv, NEW j \in Jobs, sw_port_set(j)
  PROVE  PortsInv'
<1>1. PICK r \in Job : r = job[j] /\ Flow(r) /\ PortsTypeOK
  BY JobFacts
<1> DEFINE n == [r EXCEPT !.step = "mode"]
           mode == IF r.kind = "resetvlan" THEN "shutdown" ELSE r.form.mode
<1>2. /\ job' = [job EXCEPT ![j] = n] /\ r.step = "session"
      /\ r.kind \in {"configure", "resetvlan"} /\ NoOutage /\ UNCHANGED <<db, refres>>
      /\ switch' = [switch EXCEPT ![r.port] = SwitchSet(r.port, mode, r.form)]
      /\ Asked(r.port, r.form.untag)
  BY <1>1 DEF sw_port_set, PortsTypeOK, Left
<1>3. /\ n \in Job /\ n.kind = r.kind /\ n.disturbed = r.disturbed /\ n.port = r.port
      /\ n.step = "mode" /\ n.hit = r.hit /\ n.res = r.res /\ n.form = r.form
  BY DEF Job
<1>4. /\ r.form \in Config /\ r.port \in Port /\ r.form.untag # Unread
      /\ mode \in {"access", "trunk", "shutdown"} /\ r.form.untag \in Untags
      /\ r.kind = "configure" => mode # "shutdown"
  BY <1>1, <1>2, Constants DEF Flow, Running, Job, Config
<1> HIDE DEF n, mode
<1>5. PICK c \in SwitchPort :
        /\ c = SwitchSet(r.port, mode, r.form)
        /\ r.kind = "configure" /\ ~(Vendor[r.port] = "dell" /\ c.mode = "none") =>
             c.untag = r.form.untag
  BY <1>1, <1>4, SetShape
<1>0. switch' = [switch EXCEPT ![r.port] = c]
  BY <1>2, <1>5
<1>6. /\ switch' \in [Port -> SwitchPort] /\ switch'[r.port] = c
      /\ \A q \in Port \ {r.port} : switch'[q] = switch[q]
      /\ known' \in [Port -> SUBSET Untags] /\ r.form.untag \in known'[r.port]
      /\ \A q \in Port : known[q] \subseteq known'[q]
      /\ SwitchKnown'
  BY <1>0, <1>2, <1>4, AskedShape
<1>7. Steps(j, n)
  BY <1>1, <1>2, <1>3, <1>6 DEF Steps, Running
<1>8. Flow(n)
  BY <1>1, <1>2, <1>3 DEF Flow, Running, Fields, Refreshes
<1>9. PICK m \in Job : m = n
  BY <1>3
<1>10. KnownTo(m)'
  BY <1>2, <1>3, <1>6, <1>9 DEF KnownTo, Refreshes
<1>11. Mirror(m)'
  BY <1>2, <1>3, <1>5, <1>6, <1>9
     DEF Mirror, Refreshing, Refreshes, Setting, Clearing, Sets
<1>12. DatabaseAccountable'
  BY <1>2, <1>3, <1>7, DocumentKeeps
<1>13. db' \in [Port -> Document] /\ refres' \in Result /\ outages' \in 0..MaxFaults
  BY <1>1, <1>2, OutageType DEF PortsTypeOK
<1> QED
  BY <1>6, <1>7, <1>8, <1>9, <1>10, <1>11, <1>12, <1>13, StepKeeps

\* An initialisation that skips a Dell port, or one in an aggregation.
LEMMA SkipFinishes ==
  ASSUME NEW r \in Job, r.step = "session", r.kind \in {"init", "resetsw"},
         Vendor[r.port] = "dell" \/ r.kind = "resetsw", UNCHANGED switch,
         Mirror(r), ~r.disturbed, ~r.hit
  PROVE  Finished(r)'
<1>1. r.kind = "init" => Clearing(r)
  BY DEF Mirror, Running
<1>2. \A p \in Port : p <= r.port => p < r.port \/ p = r.port
  BY DEF Port, Job
<1> QED
  BY <1>1, <1>2 DEF Finished, Clearing, Refreshes

LEMMA InitialKeeps ==
  ASSUME PortsInv, NEW j \in Jobs, SWInitial(j)
  PROVE  PortsInv'
<1>1. PICK r \in Job : r = job[j] /\ Flow(r) /\ Mirror(r) /\ PortsTypeOK
  BY JobFacts
<1>2. /\ r.step = "session" /\ r.kind \in {"init", "resetsw"} /\ r.port \in Port
      /\ UNCHANGED <<db, refres, outages>> /\ Running(r) /\ outages' \in 0..MaxFaults
  BY <1>1, OutageType DEF SWInitial, NoOutage, Running, Job
<1>3. r.form = Blank
  BY <1>1, <1>2 DEF Flow
<1>4. ASSUME NEW why \in {"ok", "failed"}, Vendor[r.port] = "dell" \/ r.kind = "resetsw",
             job' = [job EXCEPT ![j] = NextPort(r, why)], UNCHANGED <<switch, known>>
      PROVE  PortsInv'
  <2>1. Turned(r, NextPort(r, why), why)
    BY NextPortShape
  <2>2. ~r.disturbed /\ ~r.hit => Finished(r)'
    BY <1>1, <1>2, <1>4, SkipFinishes
  <2> QED
    BY <1>1, <1>2, <1>4, <2>1, <2>2, TurnOnly
<1>5. CASE r.kind = "init" /\ r.port \in Lag /\ UNCHANGED <<switch, known>>
           /\ job' = [job EXCEPT ![j] = [r EXCEPT !.res = Answer("lag on", Blank), !.step = "lag"]]
  <2> DEFINE a == Answer("lag on", Blank)
             n == [r EXCEPT !.res = a, !.step = "lag"]
  <2>1. a \in Result /\ job' = [job EXCEPT ![j] = n]
    BY <1>5, AnswerShape, Constants DEF Messages
  <2> HIDE DEF a
  <2>2. /\ n \in Job /\ n.kind = r.kind /\ n.disturbed = r.disturbed /\ n.port = r.port
        /\ n.step = "lag" /\ n.hit = r.hit /\ n.form = r.form
    BY <2>1 DEF Job
  <2> HIDE DEF n
  <2>3. Steps(j, n)
    BY <1>1, <1>2, <1>5, <2>1, <2>2 DEF Steps
  <2>4. Flow(n)
    BY <1>1, <1>2, <1>5, <2>2 DEF Flow, Running, Fields, Refreshes
  <2>5. PICK m \in Job : m = n
    BY <2>2
  <2>6. KnownTo(m)'
    BY <2>2, <2>5 DEF KnownTo
  <2>7. Mirror(m)'
    BY <1>1, <1>2, <1>5, <2>2, <2>5
       DEF Mirror, Refreshing, Refreshes, Setting, Clearing, Sets, Running
  <2>8. SwitchKnown' /\ DatabaseAccountable'
    BY <1>2, <1>5, <2>2, <2>3, DocumentKeeps DEF PortsInv, SwitchKnown
  <2>9. /\ switch' \in [Port -> SwitchPort] /\ db' \in [Port -> Document] /\ refres' \in Result
        /\ known' \in [Port -> SUBSET Untags]
    BY <1>1, <1>2, <1>5 DEF PortsTypeOK
  <2> QED
    BY <1>2, <2>3, <2>4, <2>5, <2>6, <2>7, <2>8, <2>9, StepKeeps
<1>6. CASE /\ switch' = [switch EXCEPT ![r.port] = Initialised(switch[r.port])]
           /\ Asked(r.port, Unused)
           /\ job' = [job EXCEPT ![j] =
                    IF r.kind = "init" THEN [r EXCEPT !.step = "mode"] ELSE NextPort(r, "ok")]
  <2>1. PICK c \in SwitchPort : c = Initialised(switch[r.port]) /\ c.untag = Unused
    <3>1. \A c \in SwitchPort : Initialised(c) \in SwitchPort /\ Initialised(c).untag = Unused
      BY DEF Initialised, SwitchPort, Untags
    <3> QED
      BY <1>1, <1>2, <3>1 DEF PortsTypeOK
  <2>0. Unused \in Untags /\ switch' = [switch EXCEPT ![r.port] = c]
    BY <1>6, <2>1 DEF Untags
  <2>2. /\ switch' \in [Port -> SwitchPort] /\ switch'[r.port] = c
        /\ \A q \in Port \ {r.port} : switch'[q] = switch[q]
        /\ known' \in [Port -> SUBSET Untags] /\ Unused \in known'[r.port]
        /\ \A q \in Port : known[q] \subseteq known'[q]
        /\ SwitchKnown'
    BY <1>2, <1>6, <2>0, AskedShape
  <2>3. db' \in [Port -> Document] /\ refres' \in Result
    BY <1>1, <1>2 DEF PortsTypeOK
  <2>4. CASE r.kind = "init"
    <3> DEFINE n == [r EXCEPT !.step = "mode"]
    <3>1. job' = [job EXCEPT ![j] = n]
      BY <1>6, <2>4
    <3>2. /\ n \in Job /\ n.kind = r.kind /\ n.disturbed = r.disturbed /\ n.port = r.port
          /\ n.step = "mode" /\ n.hit = r.hit /\ n.form = r.form
      BY DEF Job
    <3> HIDE DEF n
    <3>3. Steps(j, n)
      BY <1>1, <1>2, <2>2, <3>1, <3>2 DEF Steps
    <3>4. Flow(n)
      BY <1>1, <1>2, <2>4, <3>2 DEF Flow, Running, Fields, Refreshes
    <3>5. PICK m \in Job : m = n
      BY <3>2
    <3>6. m.form.untag = Unused
      BY <1>3, <3>2, <3>5, Constants
    <3>7. KnownTo(m)'
      BY <2>2, <2>4, <3>2, <3>5, <3>6 DEF KnownTo, Refreshes
    <3>8. ~r.disturbed /\ ~r.hit => Clearing(r)
      BY <1>1, <1>2 DEF Mirror
    <3>9. ~m.disturbed /\ ~m.hit => Clearing(m)'
      BY <1>2, <2>1, <2>2, <2>4, <3>2, <3>5, <3>8 DEF Clearing
    <3>10. Mirror(m)'
      BY <2>1, <2>2, <2>4, <3>2, <3>5, <3>6, <3>9
         DEF Mirror, Refreshing, Refreshes, Setting, Sets
    <3>11. DatabaseAccountable'
      BY <1>2, <3>2, <3>3, DocumentKeeps
    <3> QED
      BY <1>2, <2>2, <2>3, <3>3, <3>4, <3>5, <3>7, <3>10, <3>11, StepKeeps
  <2>5. CASE r.kind # "init"
    <3>1. PICK n : n = NextPort(r, "ok") /\ Turned(r, n, "ok")
      BY NextPortShape
    <3>2. job' = [job EXCEPT ![j] = n] /\ n \in Job
      BY <1>6, <2>5, <3>1 DEF Turned
    <3>3. Finished(r)'
      BY <1>2, <2>5 DEF Finished, Refreshes
    <3>4. Flow(n) /\ KnownTo(n)' /\ Mirror(n)'
      BY <1>1, <1>2, <3>1, <3>3, TurnKeeps
    <3>5. Steps(j, n)
      BY <1>1, <1>2, <2>2, <3>1, <3>2 DEF Steps, Turned
    <3>6. DatabaseAccountable'
      BY <1>2, <3>2, <3>5, DocumentKeeps
    <3> QED
      BY <1>2, <2>2, <2>3, <3>2, <3>4, <3>5, <3>6, StepKeeps
  <2> QED
    BY <2>4, <2>5
<1> QED
  <2>1. CASE Vendor[r.port] = "dell" /\ job' = [job EXCEPT ![j] = NextPort(job[j], "failed")]
             /\ UNCHANGED <<switch, known>>
    BY <1>1, <1>4, <2>1
  <2>2. CASE /\ r.port \in Lag /\ UNCHANGED <<switch, known>>
             /\ job' = [job EXCEPT ![j] =
                    IF job[j].kind = "init"
                    THEN [job[j] EXCEPT !.res = Answer("lag on", Blank), !.step = "lag"]
                    ELSE NextPort(job[j], "failed")]
    <3>1. CASE r.kind = "init"
      BY <1>1, <1>5, <2>2, <3>1
    <3>2. CASE r.kind = "resetsw"
      BY <1>1, <1>4, <2>2, <3>2
    <3> QED
      BY <1>2, <3>1, <3>2
  <2>3. CASE /\ switch' = [switch EXCEPT ![r.port] = Initialised(switch[r.port])]
             /\ Asked(r.port, Unused)
             /\ job' = [job EXCEPT ![j] =
                    IF job[j].kind = "init" THEN [job[j] EXCEPT !.step = "mode"]
                    ELSE NextPort(job[j], "ok")]
    BY <1>1, <1>6, <2>3
  <2>4. Vendor[r.port] = "cisco" /\ r.port \notin Lag => Left(j) = Initialised(switch[r.port])
    BY <1>1, <1>2 DEF Left
  <2> QED
    BY <1>1, <1>2, <2>1, <2>2, <2>3, <2>4 DEF SWInitial, PortsTypeOK

\* A handler at a port, with the ports before it repaired.
LEMMA CopyingMirrors ==
  ASSUME NEW r \in Job, NEW m \in Job, r.kind \in Refreshes,
         m.kind = r.kind, m.port = r.port, m.disturbed = r.disturbed, m.hit = r.hit,
         Mirror(r), Running(r), \A p \in Port : switch'[p] = switch[p] /\ db'[p] = db[p],
         m.step = "fill" /\ ~r.disturbed /\ ~r.hit => Fit(r.port),
         ~r.disturbed /\ ~r.hit /\ Fit(r.port) => Copying(m, r.port)'
  PROVE  Mirror(m)'
<1>1. \A p \in Port : Shown(p)' = Shown(p) /\ Fit(p)' = Fit(p)
  BY DEF Shown, Fit
<1>2. Mine(m) = Mine(r) /\ Mine(r) \subseteq Port /\ r.port \in Port
  BY PortIsMine DEF Mine, Job
<1>3. ASSUME ~m.disturbed, ~m.hit PROVE Refreshing(m)'
  <2>1. Refreshing(r) /\ ~r.disturbed /\ ~r.hit
    BY <1>3 DEF Mirror
  <2>2. m.step = "fill" => Fit(m.port)'
    BY <1>1, <1>2, <2>1
  <2>3. ASSUME NEW p \in Mine(r), Fit(p)'
        PROVE  /\ p < m.port => Same(db'[p], Shown(p)')
               /\ p = m.port => Copying(m, p)'
    <3>1. Fit(p) /\ p \in Port /\ db'[p] = db[p] /\ Shown(p)' = Shown(p)
      BY <1>1, <1>2, <2>3
    <3>2. p < r.port => Same(db[p], Shown(p))
      BY <2>1, <2>3, <3>1 DEF Refreshing
    <3> QED
      BY <2>1, <3>1, <3>2
  <2> QED
    BY <1>2, <2>2, <2>3 DEF Refreshing
<1> QED
  BY <1>3 DEF Mirror, Setting, Clearing, Sets, Refreshes

LEMMA RefreshKeeps ==
  ASSUME PortsInv, NEW j \in Jobs, sw_port_refresh(j)
  PROVE  PortsInv'
<1>1. PICK r \in Job : r = job[j] /\ Flow(r) /\ Mirror(r) /\ PortsTypeOK
  BY JobFacts
<1>2. /\ r.step = "session" /\ r.kind \in Refreshes /\ r.port \in Port
      /\ UNCHANGED <<switch, db, known, outages>> /\ Running(r) /\ outages' \in 0..MaxFaults
  BY <1>1, OutageType DEF sw_port_refresh, NoOutage, Running, Job
<1>3. /\ switch' \in [Port -> SwitchPort] /\ db' \in [Port -> Document]
      /\ known' \in [Port -> SUBSET Untags]
  BY <1>1, <1>2 DEF PortsTypeOK
<1>4. PICK x : /\ x = Shown(r.port) /\ x = Shown(r.port)' /\ x.untag \in known'[r.port]
               /\ x.untag = switch[r.port].untag
               /\ Vendor[r.port] # "cisco" \/ switch[r.port].mode # "none" => x \in Config
  BY <1>1, <1>2, ShownShape DEF PortsInv, SwitchKnown, Shown
<1>6. ASSUME NEW a \in OwnAnswer(r.port), UNCHANGED refres,
             job' = [job EXCEPT ![j].res = a, ![j].step = "check"]
      PROVE  PortsInv'
  <2> DEFINE n == [r EXCEPT !.res = a, !.step = "check"]
  <2>1. /\ a \in Result /\ a # Shared
        /\ Fit(r.port) => Same(a, x) /\ a.msg \notin {"login fail", "lag on", "not switchport"}
        /\ a.msg \in {"lag on", "not switchport"} \/ a.untag \in known'[r.port]
    <3>1. CASE r.port \in Lag
      <4>1. a = Answer("lag on", Blank) /\ ~Fit(r.port)
        BY <1>6, <3>1 DEF OwnAnswer, Fit
      <4>2. "lag on" \in Messages
        BY DEF Messages
      <4>3. a \in Result /\ a.msg = "lag on" /\ a # Shared
        BY <4>1, <4>2, AnswerShape, Constants
      <4> QED
        BY <4>1, <4>3
    <3>2. CASE r.port \notin Lag /\ Vendor[r.port] = "cisco" /\ ShownUnused(switch[r.port])
      <4>1. a = Answer("UnusedNetwork", Blank) /\ x.untag = Unused
        BY <1>4, <1>6, <3>2 DEF OwnAnswer, ShownUnused
      <4>2. "UnusedNetwork" \in Messages
        BY DEF Messages
      <4>3. a \in Result /\ a.msg = "UnusedNetwork" /\ a # Shared /\ Same(a, Blank)
        BY <4>1, <4>2, AnswerShape, Constants
      <4>4. switch[r.port] \in SwitchPort
        BY <1>1, <1>2 DEF PortsTypeOK
      <4>5. Fit(r.port) => switch[r.port].mode = "access"
        BY <3>2, <4>4 DEF Fit, ShownUnused, SwitchPort
      <4>6. Fit(r.port) => x.mode = "access" /\ x.tags = {}
        BY <1>4, <3>2, <4>5 DEF Shown
      <4>7. Fit(r.port) => Same(a, x)
        BY <4>1, <4>3, <4>6, Constants DEF Same
      <4>8. a.untag \in known'[r.port]
        BY <1>4, <4>1, <4>3, Constants DEF Same
      <4> QED
        BY <4>3, <4>7, <4>8
    <3>3. CASE /\ r.port \notin Lag /\ ~(Vendor[r.port] = "cisco" /\ ShownUnused(switch[r.port]))
               /\ switch[r.port].mode = "none"
      <4>1. a = Answer("not switchport", Blank) /\ ~Fit(r.port)
        BY <1>6, <3>3 DEF OwnAnswer, Fit
      <4>2. "not switchport" \in Messages
        BY DEF Messages
      <4>3. a \in Result /\ a.msg = "not switchport" /\ a # Shared
        BY <4>1, <4>2, AnswerShape, Constants
      <4> QED
        BY <4>1, <4>3
    <3>4. CASE /\ r.port \notin Lag /\ Vendor[r.port] = "dell" /\ switch[r.port].mode # "none"
      <4>1. a = Answer("refresh ok", x) /\ x \in Config
        BY <1>4, <1>6, <3>4 DEF OwnAnswer
      <4>2. "refresh ok" \in Messages
        BY DEF Messages
      <4>3. a \in Result /\ a.msg = "refresh ok" /\ a # Shared /\ Same(a, x)
        BY <4>1, <4>2, AnswerShape
      <4> QED
        BY <1>4, <4>3 DEF Same
    <3> QED
      BY <1>2, <1>6, <3>1, <3>2, <3>3, <3>4, PortsAssumption DEF OwnAnswer
  <2>2. job' = [job EXCEPT ![j] = n]
    BY <1>1, <1>6 DEF PortsTypeOK
  <2>3. /\ n \in Job /\ n.kind = r.kind /\ n.disturbed = r.disturbed /\ n.port = r.port
        /\ n.step = "check" /\ n.hit = r.hit /\ n.form = r.form /\ n.res = a
    BY <2>1 DEF Job
  <2> HIDE DEF n
  <2>4. Steps(j, n)
    BY <1>1, <1>2, <1>6, <2>2, <2>3 DEF Steps
  <2>5. Flow(n)
    BY <1>1, <1>2, <2>1, <2>3 DEF Flow, Running, Fields, Refreshes
  <2>6. PICK m \in Job : m = n
    BY <2>3
  <2>7. KnownTo(m)'
    BY <1>2, <2>1, <2>3, <2>6 DEF KnownTo
  <2>8. Fit(r.port) => Copying(m, r.port)'
    BY <1>4, <2>1, <2>3, <2>6 DEF Copying, ReplyOf, Same
  <2>9. Mirror(m)'
    BY <1>1, <1>2, <2>3, <2>6, <2>8, CopyingMirrors
  <2>10. SwitchKnown' /\ DatabaseAccountable'
    BY <1>2, <2>3, <2>4, DocumentKeeps DEF PortsInv, SwitchKnown
  <2>11. refres' \in Result
    BY <1>1, <1>6 DEF PortsTypeOK
  <2> QED
    BY <1>2, <1>3, <2>4, <2>5, <2>6, <2>7, <2>9, <2>10, <2>11, StepKeeps
<1>7. ASSUME OwnAnswer(r.port) = {}, refres' = [refres EXCEPT !.untag = Unused, !.tags = {}],
             job' = [job EXCEPT ![j].res = Answer("", Shown(r.port)), ![j].step = "fill"]
      PROVE  PortsInv'
  <2> DEFINE a == Answer("", x)
             n == [r EXCEPT !.res = a, !.step = "fill"]
  <2>0. /\ Vendor[r.port] = "cisco" /\ r.port \notin Lag /\ ~ShownUnused(switch[r.port])
        /\ switch[r.port].mode # "none"
    BY <1>2, <1>7, PortsAssumption DEF OwnAnswer
  <2>1. refres' \in Result
    BY <1>1, <1>7 DEF PortsTypeOK, Result, Untags
  <2>12. a \in Result /\ a # Shared /\ Same(a, x)
    <3>1. "" \in Messages /\ x \in Config
      BY <1>4, <2>0 DEF Messages
    <3> QED
      BY <3>1, AnswerShape
  <2>2. job' = [job EXCEPT ![j] = n]
    BY <1>1, <1>4, <1>7 DEF PortsTypeOK
  <2> HIDE DEF a
  <2>3. /\ n \in Job /\ n.kind = r.kind /\ n.disturbed = r.disturbed /\ n.port = r.port
        /\ n.step = "fill" /\ n.hit = r.hit /\ n.form = r.form /\ n.res = a
    BY <2>12 DEF Job
  <2> HIDE DEF n
  <2>4. Steps(j, n)
    BY <1>1, <1>2, <2>0, <2>2, <2>3 DEF Steps, Fills, FillsShared, Refreshes
  <2>5. Flow(n)
    BY <1>1, <1>2, <2>0, <2>3, <2>12 DEF Flow, Running, Fields, Refreshes
  <2>6. PICK m \in Job : m = n
    BY <2>3
  <2>7. KnownTo(m)'
    BY <1>2, <1>4, <2>3, <2>6, <2>12 DEF KnownTo, Same
  <2>8. Copying(m, r.port)'
    <3>1. ReplyOf(m)' = a /\ m.step = "fill"
      BY <2>3, <2>6, <2>12 DEF ReplyOf
    <3>2. Same(a, Shown(r.port)') /\ ~ShownUnused(switch'[r.port])
      BY <1>2, <1>4, <2>0, <2>12 DEF Same
    <3> QED
      BY <3>1, <3>2 DEF Copying, Same, ShownUnused
  <2>9. Mirror(m)'
    <3>1. Fit(r.port)
      BY <2>0 DEF Fit
    <3> QED
      BY <1>1, <1>2, <2>3, <2>6, <2>8, <3>1, CopyingMirrors
  <2>10. SwitchKnown' /\ DatabaseAccountable'
    BY <1>2, <2>3, <2>4, DocumentKeeps DEF PortsInv, SwitchKnown
  <2> QED
    BY <1>2, <1>3, <2>1, <2>4, <2>5, <2>6, <2>7, <2>9, <2>10, StepKeeps
<1> QED
  BY <1>1, <1>6, <1>7 DEF sw_port_refresh

\* Cisco.Refresh fills the dictionary with what it has read, or raises.
LEMMA FillKeeps ==
  ASSUME PortsInv, NEW j \in Jobs, FillRefres(j)
  PROVE  PortsInv'
<1>1. PICK r \in Job : r = job[j] /\ Flow(r) /\ Mirror(r) /\ KnownTo(r) /\ PortsTypeOK
  BY JobFacts
<1>2. /\ r.step = "fill" /\ r.kind \in Refreshes /\ r.res # Shared /\ Vendor[r.port] = "cisco"
      /\ UNCHANGED <<switch, db, known, outages>> /\ Running(r) /\ outages' \in 0..MaxFaults
      /\ r.port \in Port
  BY <1>1, OutageType DEF FillRefres, Flow, Running, Job
<1>3. /\ switch' \in [Port -> SwitchPort] /\ db' \in [Port -> Document]
      /\ known' \in [Port -> SUBSET Untags] /\ r.res \in Result /\ refres \in Result
      /\ SwitchKnown' /\ Fills(r)
  BY <1>1, <1>2 DEF PortsTypeOK, Job, PortsInv, SwitchKnown, Fills, FillsShared, Refreshes
<1>4. ASSUME refres' = [refres EXCEPT !.mode = "access"],
             job' = [job EXCEPT ![j].step = "done", ![j].outcome = "error"]
      PROVE  PortsInv'
  <2> DEFINE n == [r EXCEPT !.step = "done", !.outcome = "error"]
  <2>1. job' = [job EXCEPT ![j] = n] /\ refres' \in Result
    BY <1>1, <1>3, <1>4 DEF PortsTypeOK, Result
  <2>2. /\ n \in Job /\ n.kind = r.kind /\ n.disturbed = r.disturbed /\ n.port = r.port
        /\ n.step = "done"
    BY DEF Job
  <2> HIDE DEF n
  <2>3. Steps(j, n)
    BY <1>1, <1>2, <1>3, <2>1, <2>2 DEF Steps
  <2>4. Flow(n)
    BY <1>1, <1>2, <2>2 DEF Flow, Running, Fields
  <2>5. PICK m \in Job : m = n
    BY <2>2
  <2>6. KnownTo(m)' /\ Mirror(m)'
    BY <2>2, <2>5 DEF KnownTo, Mirror, Running
  <2>7. DatabaseAccountable'
    BY <1>2, <2>2, <2>3, DocumentKeeps
  <2> QED
    BY <1>2, <1>3, <2>1, <2>3, <2>4, <2>5, <2>6, <2>7, StepKeeps
<1>5. ASSUME refres' = Answer(refres.msg, r.res),
             job' = [job EXCEPT ![j].res = Shared, ![j].step = "msg"]
      PROVE  PortsInv'
  <2> DEFINE n == [r EXCEPT !.res = Shared, !.step = "msg"]
  <2>1. job' = [job EXCEPT ![j] = n] /\ refres' \in Result /\ Same(refres', r.res)
    BY <1>1, <1>3, <1>5 DEF PortsTypeOK, Result, Answer, Same
  <2>2. /\ n \in Job /\ n.kind = r.kind /\ n.disturbed = r.disturbed /\ n.port = r.port
        /\ n.step = "msg" /\ n.hit = r.hit /\ n.form = r.form /\ n.res = Shared
    BY DEF Job
  <2> HIDE DEF n
  <2>3. Steps(j, n)
    BY <1>1, <1>2, <1>3, <2>1, <2>2 DEF Steps
  <2>4. Flow(n)
    BY <1>1, <1>2, <2>2 DEF Flow, Running, Fields, Refreshes
  <2>5. PICK m \in Job : m = n
    BY <2>2
  <2>6. r.res.untag \in known[r.port]
    BY <1>1, <1>2 DEF KnownTo
  <2>7. KnownTo(m)'
    BY <1>2, <2>1, <2>2, <2>5, <2>6 DEF KnownTo, Same
  <2>8. ~r.disturbed /\ ~r.hit /\ Fit(r.port) => Copying(m, r.port)'
    <3> SUFFICES ASSUME ~r.disturbed, ~r.hit, Fit(r.port) PROVE Copying(m, r.port)'
      OBVIOUS
    <3>1. Copying(r, r.port)
      BY <1>1, <1>2, PortIsMine DEF Mirror, Refreshing
    <3>2. Same(r.res, Shown(r.port))
      BY <1>2, <3>1 DEF Copying, ReplyOf
    <3>3. ReplyOf(m)' = refres' /\ m.step = "msg" /\ Shown(r.port)' = Shown(r.port)
      BY <1>2, <2>2, <2>5 DEF ReplyOf, Shown
    <3> QED
      BY <2>1, <3>2, <3>3 DEF Copying, Same
  <2>9. Mirror(m)'
    BY <1>1, <1>2, <2>2, <2>5, <2>8, CopyingMirrors
  <2>10. DatabaseAccountable'
    BY <1>2, <2>2, <2>3, DocumentKeeps
  <2> QED
    BY <1>2, <1>3, <2>1, <2>3, <2>4, <2>5, <2>7, <2>9, <2>10, StepKeeps
<1> QED
  BY <1>1, <1>4, <1>5 DEF FillRefres

LEMMA RefreshOkKeeps ==
  ASSUME PortsInv, NEW j \in Jobs, RefreshOk(j)
  PROVE  PortsInv'
<1>1. PICK r \in Job : r = job[j] /\ Flow(r) /\ Mirror(r) /\ KnownTo(r) /\ PortsTypeOK
  BY JobFacts
<1> DEFINE n == [r EXCEPT !.step = "check"]
<1>2. /\ r.step = "msg" /\ refres' = [refres EXCEPT !.msg = "refresh ok"]
      /\ job' = [job EXCEPT ![j] = n] /\ UNCHANGED <<switch, db, outages, known>>
  BY <1>1 DEF RefreshOk, PortsTypeOK
<1>3. /\ n \in Job /\ n.kind = r.kind /\ n.disturbed = r.disturbed /\ n.port = r.port
      /\ n.step = "check" /\ n.hit = r.hit /\ n.form = r.form /\ n.res = r.res
  BY DEF Job
<1> HIDE DEF n
<1>4. r.res = Shared /\ r.kind \in Refreshes /\ Vendor[r.port] = "cisco" /\ Running(r)
  BY <1>1, <1>2 DEF Flow, Running
<1>5. /\ refres' \in Result /\ refres'.msg = "refresh ok" /\ Same(refres', refres)
  BY <1>1, <1>2 DEF PortsTypeOK, Result, Messages, Same
<1>6. Steps(j, n)
  BY <1>1, <1>2, <1>3, <1>4 DEF Steps, Fills, FillsShared, Refreshes
<1>7. Flow(n)
  BY <1>1, <1>3, <1>4 DEF Flow, Running, Fields, Refreshes
<1>8. PICK m \in Job : m = n
  BY <1>3
<1>9. Mixed => Mixed'
  BY <1>1, <1>3, <1>6, MixedStays
<1>10. KnownTo(m)'
  BY <1>1, <1>2, <1>3, <1>4, <1>5, <1>8, <1>9 DEF KnownTo, Same
<1>11. Mirror(m)'
  <2>1. r.port \in Port /\ Shown(r.port)' = Shown(r.port)
    BY <1>2 DEF Shown, Job
  <2>2. ReplyOf(r) = refres /\ ReplyOf(m)' = refres' /\ m.step = "check"
    BY <1>3, <1>4, <1>8 DEF ReplyOf
  <2>3. ASSUME ~r.disturbed, ~r.hit, Fit(r.port) PROVE Copying(m, r.port)'
    <3>1. Copying(r, r.port)
      BY <1>1, <1>4, <2>3, PortIsMine DEF Mirror, Refreshing
    <3>2. Same(refres, Shown(r.port))
      BY <1>2, <2>2, <3>1 DEF Copying
    <3>3. Same(refres', Shown(r.port))
      BY <1>5, <3>2 DEF Same
    <3> QED
      BY <1>5, <2>1, <2>2, <3>3 DEF Copying
  <2> QED
    BY <1>1, <1>2, <1>3, <1>4, <1>8, <2>3, CopyingMirrors
<1>12. SwitchKnown' /\ DatabaseAccountable'
  BY <1>2, <1>3, <1>6, DocumentKeeps DEF PortsInv, SwitchKnown
<1>13. /\ switch' \in [Port -> SwitchPort] /\ db' \in [Port -> Document]
       /\ known' \in [Port -> SUBSET Untags] /\ outages' \in 0..MaxFaults
  BY <1>1, <1>2 DEF PortsTypeOK
<1> QED
  BY <1>5, <1>6, <1>7, <1>8, <1>10, <1>11, <1>12, <1>13, StepKeeps

\* The answer is looked at some time after it was given.
LEMMA CheckKeeps ==
  ASSUME PortsInv, NEW j \in Jobs, DUTPortRefresh(j)
  PROVE  PortsInv'
<1>1. PICK r \in Job : r = job[j] /\ Flow(r) /\ Mirror(r) /\ KnownTo(r) /\ PortsTypeOK
  BY JobFacts
<1>2. r.step = "check" /\ UNCHANGED <<switch, db, refres, outages, known>> /\ Running(r)
      /\ r.port \in Port /\ outages' \in 0..MaxFaults
  BY <1>1, OutageType DEF DUTPortRefresh, Running, Job
<1>3. r.kind \in Refreshes
  BY <1>1, <1>2 DEF Flow
<1> DEFINE msg == ReplyOf(r).msg
<1>4. job' = [job EXCEPT ![j] =
          CASE msg \in {"login fail", "not switchport"} -> NextPort(r, "failed")
            [] msg = "lag on" -> [r EXCEPT !.step = "lag"]
            [] OTHER -> [r EXCEPT !.step = "mode"]]
  BY <1>1 DEF DUTPortRefresh, PortsTypeOK, Reply, ReplyOf
<1>5. ~r.disturbed /\ ~r.hit /\ msg \in {"login fail", "lag on", "not switchport"} =>
        ~Fit(r.port)
  BY <1>1, <1>2, <1>3, PortIsMine DEF Mirror, Refreshing, Copying
<1>6. /\ \A p \in Mine(r) : Fit(p)' /\ p < r.port /\ ~r.disturbed /\ ~r.hit =>
            Same(db'[p], Shown(p)')
      /\ Fit(r.port)' = Fit(r.port)
  BY <1>1, <1>2, <1>3 DEF Mirror, Refreshing, Shown, Same, Fit
<1>7. CASE msg \in {"login fail", "not switchport"}
  <2>1. job' = [job EXCEPT ![j] = NextPort(r, "failed")]
    BY <1>4, <1>7
  <2>2. Turned(r, NextPort(r, "failed"), "failed")
    BY NextPortShape
  <2>3. ~r.disturbed /\ ~r.hit => Finished(r)'
    <3>1. \A p \in Mine(r) : ~(Fit(r.port)') /\ Fit(p)' /\ p <= r.port => p < r.port
      BY PortIsMine DEF Port, Job
    <3> QED
      BY <1>3, <1>5, <1>6, <1>7, <3>1 DEF Finished, Refreshes
  <2> QED
    BY <1>1, <1>2, <2>1, <2>2, <2>3, TurnOnly
<1>8. CASE msg \notin {"login fail", "not switchport"}
  <2> DEFINE x == IF msg = "lag on" THEN "lag" ELSE "mode"
             n == [r EXCEPT !.step = x]
  <2>1. job' = [job EXCEPT ![j] = n]
    BY <1>4, <1>8
  <2> HIDE DEF msg
  <2>2. x \in {"lag", "mode"} /\ (x = "lag" <=> msg = "lag on")
    OBVIOUS
  <2> HIDE DEF x
  <2>3. /\ n \in Job /\ n.kind = r.kind /\ n.disturbed = r.disturbed /\ n.port = r.port
        /\ n.step = x /\ n.hit = r.hit /\ n.form = r.form /\ n.res = r.res
    BY <2>2 DEF Job
  <2> HIDE DEF n
  <2>4. Steps(j, n)
    BY <1>1, <1>2, <2>1, <2>2, <2>3 DEF Steps
  <2>5. Flow(n)
    BY <1>1, <1>2, <1>3, <2>2, <2>3 DEF Flow, Running, Fields, Refreshes
  <2>6. PICK m \in Job : m = n
    BY <2>3
  <2>7. Mixed => Mixed'
    BY <1>1, <2>3, <2>4, MixedStays
  <2>8. KnownTo(m)'
    BY <1>1, <1>2, <1>3, <1>8, <2>2, <2>3, <2>6, <2>7 DEF KnownTo, msg, ReplyOf
  <2>9. Mirror(m)'
    <3>1. Shown(r.port)' = Shown(r.port) /\ ReplyOf(m)' = ReplyOf(r)
      BY <1>2, <2>3, <2>6 DEF Shown, ReplyOf
    <3>3. ~r.disturbed /\ ~r.hit /\ Fit(r.port) => Copying(m, r.port)'
      <4>1. SUFFICES ASSUME ~r.disturbed, ~r.hit, Fit(r.port)
                     PROVE  Copying(m, r.port)'
        OBVIOUS
      <4>2. m.step = "mode"
        BY <1>5, <2>2, <2>3, <2>6, <4>1 DEF msg
      <4>3. Same(ReplyOf(r), Shown(r.port))
        BY <1>1, <1>2, <1>3, <4>1, PortIsMine DEF Mirror, Refreshing, Copying
      <4> QED
        BY <1>2, <3>1, <4>2, <4>3 DEF Copying, Same
    <3>4. m.step # "fill"
      BY <2>2, <2>3, <2>6
    <3> QED
      BY <1>1, <1>2, <1>3, <2>3, <2>6, <3>3, <3>4, CopyingMirrors
  <2>10. SwitchKnown' /\ DatabaseAccountable'
    BY <1>2, <2>3, <2>4, DocumentKeeps DEF PortsInv, SwitchKnown
  <2>11. /\ switch' \in [Port -> SwitchPort] /\ db' \in [Port -> Document] /\ refres' \in Result
         /\ known' \in [Port -> SUBSET Untags]
    BY <1>1, <1>2 DEF PortsTypeOK
  <2> QED
    BY <1>2, <2>4, <2>5, <2>6, <2>8, <2>9, <2>10, <2>11, StepKeeps
<1> QED
  BY <1>7, <1>8

-----------------------------------------------------------------------------
(***************************************************************************)
(* The fields of a port are written one after the other.                   *)
(***************************************************************************)
Moved(r, n, x) ==
    /\ n \in Job /\ n.step = x
    /\ n.kind = r.kind /\ n.form = r.form /\ n.res = r.res /\ n.port = r.port
    /\ n.disturbed = r.disturbed /\ n.hit = r.hit

Last(r) == r.step = "lag" \/ (r.step = "tags" /\ r.kind \notin Refreshes \cup {"init"})

\* b is the handler r, possibly hit by an outage.
Onward(r, b, n) ==
    \/ r.step = "mode" /\ Moved(b, n, "untag")
    \/ r.step = "untag" /\ Moved(b, n, "tags")
    \/ r.step = "tags" /\ ~Last(r) /\ Moved(b, n, "lag")
    \/ Last(r) /\ Turned(b, n, "ok")

Hit(r) == [r EXCEPT !.hit = TRUE]
LEMMA HitShape ==
  ASSUME NEW r \in Job
  PROVE  /\ Hit(r) \in Job /\ Hit(r).hit = TRUE /\ Hit(r).step = r.step
         /\ Hit(r).kind = r.kind /\ Hit(r).form = r.form /\ Hit(r).res = r.res
         /\ Hit(r).port = r.port /\ Hit(r).disturbed = r.disturbed /\ Hit(r).outcome = r.outcome
BY DEF Hit, Job

LEMMA AfterShape ==
  ASSUME PortsTypeOK, NEW j \in Jobs, NEW r \in Job, r = job[j], r.step \in Fields
  PROVE  Onward(r, r, AfterField(j)) /\ Onward(r, Hit(r), [AfterField(j) EXCEPT !.hit = TRUE])
<1>1. ASSUME NEW x \in {"untag", "tags", "lag"}
      PROVE  /\ Moved(r, [r EXCEPT !.step = x], x)
             /\ Moved(Hit(r), [[r EXCEPT !.step = x] EXCEPT !.hit = TRUE], x)
  <2> DEFINE n == [r EXCEPT !.step = x]
  <2>1. Moved(r, n, x) /\ n \in Job
    BY DEF Moved, Job
  <2> HIDE DEF n
  <2>2. /\ Hit(r) \in Job /\ Hit(r).hit = TRUE /\ Hit(r).step = r.step
        /\ Hit(r).kind = r.kind /\ Hit(r).form = r.form /\ Hit(r).res = r.res
        /\ Hit(r).port = r.port /\ Hit(r).disturbed = r.disturbed
        /\ Hit(r).outcome = r.outcome
    BY HitShape
  <2>3. /\ Hit(n) \in Job /\ Hit(n).hit = TRUE /\ Hit(n).step = n.step
        /\ Hit(n).kind = n.kind /\ Hit(n).form = n.form /\ Hit(n).res = n.res
        /\ Hit(n).port = n.port /\ Hit(n).disturbed = n.disturbed
        /\ Hit(n).outcome = n.outcome
    BY <2>1, HitShape
  <2>4. Moved(Hit(r), Hit(n), x)
    BY <2>1, <2>2, <2>3, Zenon DEF Moved
  <2> QED
    BY <2>1, <2>4 DEF Hit, n
<1>2. /\ Turned(r, NextPort(r, "ok"), "ok")
      /\ Turned(Hit(r), [NextPort(r, "ok") EXCEPT !.hit = TRUE], "ok")
  <2>1. PICK n : n = NextPort(r, "ok") /\ Turned(r, n, "ok")
    BY NextPortShape
  <2>2. n \in Job
    BY <2>1 DEF Turned
  <2>3. /\ Hit(r) \in Job /\ Hit(r).hit = TRUE /\ Hit(r).step = r.step
        /\ Hit(r).kind = r.kind /\ Hit(r).form = r.form /\ Hit(r).res = r.res
        /\ Hit(r).port = r.port /\ Hit(r).disturbed = r.disturbed
        /\ Hit(r).outcome = r.outcome
    BY HitShape
  <2>4. /\ Hit(n) \in Job /\ Hit(n).hit = TRUE /\ Hit(n).step = n.step
        /\ Hit(n).kind = n.kind /\ Hit(n).form = n.form /\ Hit(n).res = n.res
        /\ Hit(n).port = n.port /\ Hit(n).disturbed = n.disturbed
        /\ Hit(n).outcome = n.outcome
    BY <2>2, HitShape
  <2>6. /\ n.kind = r.kind /\ n.form = r.form /\ n.disturbed = r.disturbed
        /\ \/ n.step = "session" /\ n.port = r.port + 1 /\ n.port \in Port /\ r.kind \in Loops
           \/ /\ n.step = "done" /\ n.port = r.port /\ n.outcome = "ok"
              /\ r.kind \in Loops => r.port = NumPorts
    BY <2>1, Zenon DEF Turned
  <2>5. Turned(Hit(r), Hit(n), "ok")
    BY <2>3, <2>4, <2>6 DEF Turned
  <2> QED
    BY <2>1, <2>5 DEF Hit
<1>3. CASE r.step = "mode"
  <2>1. AfterField(j) = [r EXCEPT !.step = "untag"]
    BY <1>3 DEF AfterField
  <2> QED
    BY <1>1, <1>3, <2>1 DEF Onward
<1>4. CASE r.step = "untag"
  <2>1. AfterField(j) = [r EXCEPT !.step = "tags"]
    BY <1>4 DEF AfterField
  <2> QED
    BY <1>1, <1>4, <2>1 DEF Onward
<1>5. CASE r.step = "tags" /\ ~Last(r)
  <2>1. AfterField(j) = [r EXCEPT !.step = "lag"]
    BY <1>5 DEF AfterField, Last
  <2> QED
    BY <1>1, <1>5, <2>1 DEF Onward
<1>6. CASE Last(r)
  <2>1. AfterField(j) = NextPort(r, "ok")
    BY <1>6 DEF AfterField, Last
  <2> QED
    BY <1>2, <1>6, <2>1 DEF Onward
<1> QED
  BY <1>3, <1>4, <1>5, <1>6 DEF Fields, Last

\* What the handler writes.
ValueOf(r) == IF r.kind \in Refreshes THEN ReplyOf(r) ELSE r.form
Writes(r, d, w) ==
    /\ w \in Document
    /\ w.mode = IF r.step = "mode" THEN ValueOf(r).mode ELSE d.mode
    /\ w.untag = IF r.step = "untag" THEN ValueOf(r).untag ELSE d.untag
    /\ w.tags = IF r.step = "tags" THEN ValueOf(r).tags ELSE d.tags

LEMMA WrittenShape ==
  ASSUME PortsTypeOK, NEW j \in Jobs, NEW r \in Job, r = job[j], r.step \in Fields
  PROVE  Writes(r, db[r.port], Written(j))
<1> DEFINE d == db[r.port]
           V == ValueOf(r)
           L == LagFound(j)
<1>1. d \in Document
  BY DEF PortsTypeOK, Job
<1>2. V.mode \in {"access", "trunk"} /\ V.untag \in Untags /\ V.tags \in SUBSET Vlans
  <2>1. r.res \in Result \/ r.res = Shared
    BY DEF Job
  <2>2. ReplyOf(r) \in Result
    BY <2>1 DEF ReplyOf, PortsTypeOK
  <2>3. r.form \in Config
    BY DEF Job
  <2> QED
    BY <2>2, <2>3 DEF ValueOf, Result, Config
<1>3. L \in BOOLEAN
  BY DEF LagFound
<1>4. Written(j) = [d EXCEPT
        !.mode = IF r.step = "mode" THEN V.mode ELSE @,
        !.untag = IF r.step = "untag" THEN V.untag ELSE @,
        !.tags = IF r.step = "tags" THEN V.tags ELSE @,
        !.lag = IF r.step = "lag" THEN L ELSE @]
  BY DEF Written, Value, ValueOf, Reply, ReplyOf
<1> HIDE DEF d, V, L
<1>5. /\ Written(j) \in Document
      /\ Written(j).mode = IF r.step = "mode" THEN V.mode ELSE d.mode
      /\ Written(j).untag = IF r.step = "untag" THEN V.untag ELSE d.untag
      /\ Written(j).tags = IF r.step = "tags" THEN V.tags ELSE d.tags
  BY <1>1, <1>2, <1>3, <1>4 DEF Document
<1> QED
  BY <1>5 DEF Writes, d, V

LEMMA OnwardFlows ==
  ASSUME NEW r \in Job, Flow(r), r.step \in Fields, NEW b \in Job,
         b.kind = r.kind, b.form = r.form, b.res = r.res, b.port = r.port,
         b.disturbed = r.disturbed, b.step = r.step,
         NEW n, Onward(r, b, n)
  PROVE  /\ n \in Job /\ n.kind = r.kind /\ n.disturbed = r.disturbed /\ n.hit = b.hit
         /\ n.port = r.port \/ r.kind \in Loops
         /\ n.step # "idle" /\ Flow(n)
<1>1. ASSUME Turned(b, n, "ok") PROVE Flow(n) /\ n.step # "idle" /\ n \in Job
  BY <1>1 DEF Turned, Flow, Running, Fields
<1>2. ASSUME NEW x \in {"untag", "tags", "lag"}, Moved(b, n, x),
             x # "lag" => r.step \in {"mode", "untag"}, x = "lag" => ~Last(r) /\ r.step = "tags"
      PROVE  Flow(n) /\ n.step # "idle" /\ n \in Job
  <2>1. /\ n.step = x /\ n.kind = r.kind /\ n.form = r.form /\ n.res = r.res
        /\ n.port = r.port /\ n.disturbed = r.disturbed /\ n \in Job
    BY <1>2, Zenon DEF Moved
  <2>2. x = "lag" => r.kind \in Refreshes \cup {"init"}
    BY <1>2 DEF Last
  <2>3. /\ Running(r) /\ r.kind \in AllKinds /\ r.kind # "resetsw"
        /\ r.kind = "configure" => r.form.untag # Unread
        /\ r.kind # "configure" => r.form = Blank
        /\ r.kind \in Refreshes /\ r.res = Shared /\ x # "lag" => Vendor[r.port] = "cisco"
    BY <1>2 DEF Flow, Running, Fields
  <2> QED
    BY <2>1, <2>2, <2>3 DEF Flow, Running, Fields
<1>3. Flow(n) /\ n.step # "idle" /\ n \in Job
  BY <1>1, <1>2 DEF Onward, Last
<1>4. /\ n.kind = r.kind /\ n.disturbed = r.disturbed /\ n.hit = b.hit
      /\ n.port = r.port \/ r.kind \in Loops
  BY Zenon DEF Onward, Moved, Turned
<1> QED
  BY <1>3, <1>4

\* The facts that a write keeps, or makes true for the next field.
LEMMA MoveMirrors ==
  ASSUME PortsTypeOK, NEW r \in Job, Flow(r), r.step \in {"mode", "untag", "tags"},
         Mirror(r), ~r.disturbed, ~r.hit,
         NEW n, NEW x, Moved(r, n, x),
         \/ r.step = "mode" /\ x = "untag"
         \/ r.step = "untag" /\ x = "tags"
         \/ r.step = "tags" /\ x = "lag",
         NEW w, Writes(r, db[r.port], w), db' = [db EXCEPT ![r.port] = w],
         UNCHANGED <<switch, refres>>
  PROVE  Refreshing(n)' /\ Setting(n)' /\ Clearing(n)'
<1>1. Refreshing(r) /\ Setting(r) /\ Clearing(r)
  BY DEF Mirror, Running
<1>2. /\ n.step = x /\ n.kind = r.kind /\ n.form = r.form /\ n.res = r.res /\ n.port = r.port
      /\ r.port \in Port /\ r.port \in Nat
  BY DEF Moved, Job, Port
<1>3. db'[r.port] = w /\ \A p \in Port \ {r.port} : db'[p] = db[p]
  BY <1>2 DEF PortsTypeOK
<1>4. /\ w.mode = IF r.step = "mode" THEN ValueOf(r).mode ELSE db[r.port].mode
      /\ w.untag = IF r.step = "untag" THEN ValueOf(r).untag ELSE db[r.port].untag
      /\ w.tags = IF r.step = "tags" THEN ValueOf(r).tags ELSE db[r.port].tags
  BY DEF Writes
<1>5. /\ Mine(n) = Mine(r) /\ Mine(r) \subseteq Port /\ r.port \in Mine(r)
      /\ Sets(n)' = Sets(r)
  BY <1>2, PortIsMine DEF Mine, Sets
<1>6. \A p \in Port : Shown(p)' = Shown(p) /\ Fit(p)' = Fit(p)
  BY DEF Shown, Fit
<1>7. Refreshing(n)'
  <2> SUFFICES ASSUME r.kind \in Refreshes, NEW p \in Mine(r), Fit(p)
               PROVE  /\ p < r.port => Same(db'[p], Shown(p)')
                      /\ p = r.port => Copying(n, p)'
    BY <1>2, <1>5, <1>6 DEF Refreshing
  <2>1. CASE p # r.port
    BY <1>1, <1>3, <1>5, <1>6, <2>1 DEF Refreshing
  <2>2. CASE p = r.port
    <3>1. Copying(r, p) /\ p \in Port
      BY <1>1, <1>5, <2>2 DEF Refreshing
    <3>2. ValueOf(r) = ReplyOf(r) /\ ReplyOf(n)' = ReplyOf(r)
      BY <1>2 DEF ValueOf, ReplyOf
    <3>3. Same(ReplyOf(r), Shown(p))
      BY <3>1 DEF Copying
    <3>5. /\ db'[p] = w /\ Shown(p)' = Shown(p)
          /\ r.step = "mode" => w.mode = Shown(p).mode
          /\ r.step = "untag" => w.mode = Shown(p).mode /\ w.untag = Shown(p).untag
          /\ r.step = "tags" => Same(w, Shown(p))
      BY <1>3, <1>4, <1>6, <2>2, <3>1, <3>2, <3>3 DEF Copying, Same
    <3>6. Same(ReplyOf(n)', Shown(p)') /\ n.step = x
      BY <1>2, <3>2, <3>3, <3>5
    <3>4. Copying(n, p)'
      BY <3>5, <3>6 DEF Copying, Same
    <3> QED
      BY <1>2, <2>2, <3>4
  <2> QED
    BY <2>1, <2>2
<1>8. Setting(n)'
  <2> SUFFICES ASSUME Sets(r)
               PROVE  /\ switch'[r.port].untag = r.form.untag
                      /\ x \in {"tags", "lag"} => db'[r.port].untag = r.form.untag
    BY <1>2, <1>5 DEF Setting
  <2>1. ValueOf(r) = r.form
    BY DEF ValueOf, Sets, Refreshes
  <2> QED
    BY <1>1, <1>3, <1>4, <2>1 DEF Setting, Fields
<1>9. Clearing(n)'
  BY <1>1, <1>2 DEF Clearing
<1> QED
  BY <1>7, <1>8, <1>9

LEMMA LastFinishes ==
  ASSUME PortsTypeOK, NEW r \in Job, Flow(r), r.step \in Fields, Last(r),
         Mirror(r), ~r.disturbed, ~r.hit,
         NEW w, Writes(r, db[r.port], w), db' = [db EXCEPT ![r.port] = w],
         UNCHANGED <<switch, refres>>
  PROVE  Finished(r)' /\ (Sets(r) => db'[r.port].untag = switch'[r.port].untag)
<1>1. Refreshing(r) /\ Setting(r) /\ Clearing(r)
  BY DEF Mirror, Running, Fields
<1>2. r.port \in Port /\ r.port \in Nat
  BY DEF Job, Port
<1>3. db'[r.port] = w /\ \A p \in Port \ {r.port} : db'[p] = db[p]
  BY <1>2 DEF PortsTypeOK
<1>4. w.mode = db[r.port].mode /\ w.untag = db[r.port].untag
      /\ (r.step = "lag" => w.tags = db[r.port].tags)
  BY DEF Writes, Last
<1>5. Mine(r) \subseteq Port /\ r.port \in Mine(r)
  BY PortIsMine
<1>6. \A p \in Port : /\ Shown(p)' = Shown(p) /\ Fit(p)' = Fit(p)
                      /\ p <= r.port => p < r.port \/ p = r.port
  BY <1>2 DEF Shown, Fit, Port
<1>7. ASSUME r.kind \in Refreshes, NEW p \in Mine(r), Fit(p), p <= r.port
      PROVE  Same(db'[p], Shown(p)')
  <2>1. CASE p < r.port
    BY <1>1, <1>2, <1>3, <1>5, <1>6, <1>7, <2>1 DEF Refreshing
  <2>2. CASE p = r.port
    <3>1. Copying(r, p) /\ r.step = "lag"
      BY <1>1, <1>7, <2>2 DEF Refreshing, Last
    <3> QED
      BY <1>3, <1>4, <1>5, <1>6, <2>2, <3>1 DEF Copying, Same
  <2> QED
    BY <1>5, <1>6, <1>7, <2>1, <2>2
<1>8. ASSUME r.kind = "init", NEW p \in Port \ Lag, p <= r.port, Vendor[p] = "cisco"
      PROVE  switch'[p].untag = Unused
  <2>1. r.step # "session"
    BY DEF Fields
  <2> QED
    BY <1>1, <1>6, <1>8, <2>1 DEF Clearing
<1>9. Finished(r)'
  BY <1>5, <1>6, <1>7, <1>8 DEF Finished, Same
<1>10. Sets(r) => db'[r.port].untag = switch'[r.port].untag
  BY <1>1, <1>3, <1>4 DEF Setting, Last, Fields
<1> QED
  BY <1>9, <1>10

LEMMA OnwardKnows ==
  ASSUME PortsTypeOK, NEW r \in Job, KnownTo(r), r.step \in Fields, NEW b,
         b.kind = r.kind, b.form = r.form, b.res = r.res, b.port = r.port,
         NEW n, Onward(r, b, n), Mixed => Mixed', UNCHANGED <<refres, known>>
  PROVE  KnownTo(n)'
<1>1. CASE n.step = "untag"
  <2>1. /\ r.step = "mode" /\ n.kind = r.kind /\ n.form = r.form /\ n.res = r.res
        /\ n.port = r.port
    BY <1>1 DEF Onward, Moved, Turned
  <2> QED
    BY <1>1, <2>1 DEF KnownTo
<1>2. CASE n.step # "untag"
  BY <1>2 DEF Onward, Moved, Turned, KnownTo
<1> QED
  BY <1>1, <1>2

\* A VLAN that is written was known on the port.
LEMMA WriteAccountable ==
  ASSUME PortsInv, NEW r \in Job, KnownTo(r), r.step \in Fields, r.port \in Port,
         NEW w, Writes(r, db[r.port], w), db'[r.port] = w,
         \A p \in Port \ {r.port} : db'[p] = db[p],
         Mixed => Mixed', UNCHANGED <<refres, known>>
  PROVE  DatabaseAccountable'
<1> SUFFICES ASSUME ~Mixed' PROVE \A p \in Port : db'[p].untag \in known'[p]
  BY DEF DatabaseAccountable
<1>1. \A p \in Port : db[p].untag \in known[p]
  BY DEF PortsInv, DatabaseAccountable
<1>2. r.step = "untag" => ValueOf(r).untag \in known[r.port]
  BY DEF KnownTo, ValueOf, ReplyOf
<1>3. w.untag \in known[r.port]
  BY <1>1, <1>2 DEF Writes
<1> QED
  BY <1>1, <1>3

LEMMA UpdateKeeps ==
  ASSUME PortsInv, NEW j \in Jobs, update_one_inerface(j)
  PROVE  PortsInv'
<1>1. PICK r \in Job : r = job[j] /\ Flow(r) /\ Mirror(r) /\ KnownTo(r) /\ PortsTypeOK
  BY JobFacts
<1>2. /\ r.step \in Fields /\ Running(r) /\ UNCHANGED <<switch, refres, known>>
      /\ outages' \in 0..MaxFaults /\ r.port \in Port
  BY <1>1, OutageType DEF update_one_inerface, Fields, Running, Job
<1>3. SwitchKnown' /\ switch' \in [Port -> SwitchPort] /\ refres' \in Result
      /\ known' \in [Port -> SUBSET Untags]
  BY <1>1, <1>2 DEF PortsInv, SwitchKnown, PortsTypeOK
<1>4. ASSUME UNCHANGED db,
             job' = [job EXCEPT ![j] = [AfterField(j) EXCEPT !.hit = TRUE]]
      PROVE  PortsInv'
  <2>1. PICK n : n = [AfterField(j) EXCEPT !.hit = TRUE] /\ Onward(r, Hit(r), n)
    BY <1>1, <1>2, AfterShape
  <2>2. /\ Hit(r) \in Job /\ Hit(r).hit = TRUE /\ Hit(r).step = r.step
        /\ Hit(r).kind = r.kind /\ Hit(r).form = r.form /\ Hit(r).res = r.res
        /\ Hit(r).port = r.port /\ Hit(r).disturbed = r.disturbed
    BY HitShape
  <2>3. /\ n \in Job /\ n.kind = r.kind /\ n.disturbed = r.disturbed /\ n.hit = TRUE
        /\ n.port = r.port \/ r.kind \in Loops
        /\ n.step # "idle" /\ Flow(n)
    BY <1>1, <1>2, <2>1, <2>2, OnwardFlows
  <2>4. Steps(j, n)
    BY <1>1, <1>2, <1>4, <2>1, <2>3 DEF Steps
  <2>5. KnownTo(n)'
    BY <1>1, <1>2, <2>1, <2>2, <2>3, <2>4, MixedStays, OnwardKnows
  <2>6. Mirror(n)' /\ DatabaseAccountable'
    BY <1>4, <2>3, <2>4, DocumentKeeps DEF Mirror
  <2>7. db' \in [Port -> Document]
    BY <1>1, <1>4 DEF PortsTypeOK
  <2> QED
    BY <1>2, <1>3, <2>3, <2>4, <2>5, <2>6, <2>7, StepKeeps
<1>5. ASSUME db' = [db EXCEPT ![r.port] = Written(j)],
             job' = [job EXCEPT ![j] = AfterField(j)]
      PROVE  PortsInv'
  <2>1. PICK n : n = AfterField(j) /\ Onward(r, r, n)
    BY <1>1, <1>2, AfterShape
  <2>2. PICK w : w = Written(j) /\ Writes(r, db[r.port], w)
    BY <1>1, <1>2, WrittenShape
  <2>3. /\ n \in Job /\ n.kind = r.kind /\ n.disturbed = r.disturbed /\ n.hit = r.hit
        /\ n.port = r.port \/ r.kind \in Loops
        /\ n.step # "idle" /\ Flow(n)
    BY <1>1, <1>2, <2>1, OnwardFlows
  <2>4. /\ db' = [db EXCEPT ![r.port] = w] /\ db' \in [Port -> Document]
        /\ db'[r.port] = w /\ \A p \in Port \ {r.port} : db'[p] = db[p]
    BY <1>1, <1>2, <1>5, <2>2 DEF PortsTypeOK, Writes
  <2>5. Steps(j, n)
    BY <1>1, <1>2, <1>5, <2>1, <2>3, <2>4 DEF Steps
  <2>6. Mixed => Mixed'
    BY <1>1, <2>3, <2>5, MixedStays
  <2>7. KnownTo(n)'
    BY <1>1, <1>2, <2>1, <2>6, OnwardKnows
  <2>8. DatabaseAccountable'
    BY <1>1, <1>2, <2>2, <2>4, <2>6, WriteAccountable
  <2>9. Mirror(n)'
    <3> SUFFICES ASSUME Running(n), ~r.disturbed, ~r.hit
                 PROVE  Refreshing(n)' /\ Setting(n)' /\ Clearing(n)'
      BY <2>3 DEF Mirror
    <3>1. CASE Last(r)
      <4>1. Finished(r)'
        BY <1>1, <1>2, <2>2, <2>4, <3>1, LastFinishes
      <4>2. Turned(r, n, "ok")
        BY <2>1, <3>1 DEF Onward, Last
      <4>3. Mirror(n)'
        BY <1>1, <1>2, <4>1, <4>2, TurnKeeps
      <4> QED
        BY <2>3, <4>3 DEF Mirror
    <3>2. CASE ~Last(r)
      <4>1. PICK x : /\ Moved(r, n, x)
                     /\ \/ r.step = "mode" /\ x = "untag"
                        \/ r.step = "untag" /\ x = "tags"
                        \/ r.step = "tags" /\ x = "lag"
        BY <2>1, <3>2 DEF Onward
      <4> QED
        BY <1>1, <1>2, <2>2, <2>4, <4>1, MoveMirrors
    <3> QED
      BY <3>1, <3>2
  <2> QED
    BY <1>2, <1>3, <2>3, <2>4, <2>5, <2>7, <2>8, <2>9, StepKeeps
<1>6. ASSUME db' = [db EXCEPT ![r.port] = Written(j)],
             job' = [job EXCEPT ![j] = [AfterField(j) EXCEPT !.hit = TRUE]]
      PROVE  PortsInv'
  <2>1. PICK n : n = [AfterField(j) EXCEPT !.hit = TRUE] /\ Onward(r, Hit(r), n)
    BY <1>1, <1>2, AfterShape
  <2>2. PICK w : w = Written(j) /\ Writes(r, db[r.port], w)
    BY <1>1, <1>2, WrittenShape
  <2>9. /\ Hit(r) \in Job /\ Hit(r).hit = TRUE /\ Hit(r).step = r.step
        /\ Hit(r).kind = r.kind /\ Hit(r).form = r.form /\ Hit(r).res = r.res
        /\ Hit(r).port = r.port /\ Hit(r).disturbed = r.disturbed
    BY HitShape
  <2>3. /\ n \in Job /\ n.kind = r.kind /\ n.disturbed = r.disturbed /\ n.hit = TRUE
        /\ n.port = r.port \/ r.kind \in Loops
        /\ n.step # "idle" /\ Flow(n)
    BY <1>1, <1>2, <2>1, <2>9, OnwardFlows
  <2>4. /\ db' = [db EXCEPT ![r.port] = w] /\ db' \in [Port -> Document]
        /\ db'[r.port] = w /\ \A p \in Port \ {r.port} : db'[p] = db[p]
    BY <1>1, <1>2, <1>6, <2>2 DEF PortsTypeOK, Writes
  <2>5. Steps(j, n)
    BY <1>1, <1>2, <1>6, <2>1, <2>3, <2>4 DEF Steps
  <2>6. Mixed => Mixed'
    BY <1>1, <2>3, <2>5, MixedStays
  <2>7. KnownTo(n)'
    BY <1>1, <1>2, <2>1, <2>6, <2>9, OnwardKnows
  <2>8. DatabaseAccountable'
    BY <1>1, <1>2, <2>2, <2>4, <2>6, WriteAccountable
  <2>10. Mirror(n)'
    BY <2>3 DEF Mirror
  <2> QED
    BY <1>2, <1>3, <2>3, <2>4, <2>5, <2>7, <2>8, <2>10, StepKeeps
<1> QED
  BY <1>1, <1>4, <1>5, <1>6 DEF update_one_inerface

-----------------------------------------------------------------------------
(***************************************************************************)
(* A request arrives.                                                      *)
(***************************************************************************)
Bothered(r) == [r EXCEPT !.disturbed = TRUE]

LEMMA BotheredShape ==
  ASSUME NEW r \in Job
  PROVE  /\ Bothered(r) \in Job /\ Bothered(r).disturbed = TRUE
         /\ Bothered(r).kind = r.kind /\ Bothered(r).port = r.port /\ Bothered(r).form = r.form
         /\ Bothered(r).res = r.res /\ Bothered(r).step = r.step /\ Bothered(r).hit = r.hit
BY DEF Bothered, Job

LEMMA MirrorStays ==
  ASSUME NEW r \in Job, Mirror(r), UNCHANGED <<switch, db, refres>>
  PROVE  Mirror(r)'
<1>1. \A p \in Port : Shown(p)' = Shown(p) /\ Fit(p)' = Fit(p)
  BY DEF Shown, Fit
<1>2. ReplyOf(r)' = ReplyOf(r)
  BY DEF ReplyOf
<1>3. \A p \in Port : Copying(r, p) => Copying(r, p)'
  BY <1>1, <1>2 DEF Copying, Same
<1>4. Mine(r) \subseteq Port /\ r.port \in Port
  BY PortIsMine DEF Job
<1>5. Refreshing(r) => Refreshing(r)'
  BY <1>1, <1>3, <1>4 DEF Refreshing
<1>6. Setting(r) => Setting(r)'
  BY DEF Setting, Sets
<1>7. Clearing(r) => Clearing(r)'
  BY DEF Clearing
<1> QED
  BY <1>5, <1>6, <1>7 DEF Mirror

\* The other handlers are as they were, or know that they are disturbed.
LEMMA OthersAtArrival ==
  ASSUME PortsInv, NEW i \in Jobs, NEW m \in Job, m = job'[i],
         m = job[i] \/ (m = Bothered(job[i]) /\ Running(job[i])),
         Mixed => Mixed', UNCHANGED <<switch, db, refres, outages, known>>
  PROVE  Flow(m) /\ KnownTo(m)' /\ Mirror(m)'
<1>1. PICK r \in Job : r = job[i] /\ Flow(r) /\ KnownTo(r) /\ Mirror(r)
  BY JobFacts
<1>2. /\ m.kind = r.kind /\ m.port = r.port /\ m.form = r.form
      /\ m.res = r.res /\ m.step = r.step /\ m.hit = r.hit
      /\ (m.disturbed = TRUE /\ Running(r)) \/ m = r
  BY <1>1, BotheredShape
<1>3. Flow(m)
  BY <1>1, <1>2 DEF Flow, Running
<1>4. KnownTo(m)'
  BY <1>1, <1>2 DEF KnownTo
<1>5. ASSUME m = r PROVE Mirror(m)'
  BY <1>1, <1>5, MirrorStays
<1>6. ASSUME m.disturbed = TRUE PROVE Mirror(m)'
  BY <1>6 DEF Mirror
<1> QED
  BY <1>2, <1>3, <1>4, <1>5, <1>6

LEMMA BeginKeeps ==
  ASSUME PortsInv, NEW j \in Jobs, NEW k \in Kinds, NEW p \in Port, NEW lag \in BOOLEAN,
         NEW c \in Forms(k), Begin(j, k, p, c, lag)
  PROVE  PortsInv'
<1>1. PortsTypeOK /\ Apart /\ job[j].step = "idle" /\ (k \in Loops => p = 1)
      /\ UNCHANGED <<switch, db, refres, outages, known>> /\ k \in AllKinds
  BY PortsAssumption DEF PortsInv, Begin
<1>2. c \in Config /\ (k # "configure" => c = Blank)
  BY Constants DEF Forms
<1> DEFINE met == {i \in Jobs : InFlight(i) /\ Interferes(k, p, job[i].kind, job[i].port)}
           no == Refused(k, c, lag)
           x == IF no THEN "done" ELSE "session"
           o == IF no THEN "refused" ELSE "none"
           d == met # {}
           e == [IdleJob EXCEPT !.kind = k, !.port = p, !.form = c, !.step = x,
                                !.outcome = o, !.disturbed = d]
<1>3. job' = [i \in Jobs |-> IF i = j THEN e
                             ELSE IF i \in met /\ ~no THEN Bothered(job[i]) ELSE job[i]]
  BY DEF Begin, Bothered
<1>4. /\ x \in {"done", "session"} /\ o \in {"none", "refused"} /\ d \in BOOLEAN
      /\ (x = "session") = ~no
  OBVIOUS
<1>5. /\ no = FALSE /\ k = "configure" => c.untag # Unread
      /\ no \in BOOLEAN
  BY DEF Refused
<1>6. /\ \A i \in met : i \in Jobs /\ Running(job[i])
      /\ \A i \in Jobs : Running(job[i]) /\ Interferes(k, p, job[i].kind, job[i].port)
                           => i \in met
      /\ d <=> met # {}
  BY DEF InFlight, Running
<1> HIDE DEF met, no, x, o, d
<1>7. /\ e \in Job /\ e.kind = k /\ e.port = p /\ e.form = c /\ e.step = x /\ e.res = Shared
      /\ e.disturbed = d
  BY <1>1, <1>2, <1>4, Constants DEF IdleJob, Job
<1> HIDE DEF e
<1>8. PICK n \in Job : n = e
  BY <1>7
<1>9. /\ job'[j] = n
      /\ \A i \in Jobs \ {j} : job'[i] = IF i \in met /\ ~no THEN Bothered(job[i]) ELSE job[i]
  BY <1>3, <1>8
<1>10. \A i \in Jobs : job[i] \in Job /\ Bothered(job[i]) \in Job
  BY <1>1, BotheredShape DEF PortsTypeOK
<1>11. job' \in [Jobs -> Job]
  BY <1>3, <1>7, <1>10
<1>12. PortsTypeOK'
  BY <1>1, <1>11 DEF PortsTypeOK
<1>13. /\ j \notin met /\ ~job[j].disturbed
       /\ \A i \in Jobs \ {j} :
             /\ job'[i].kind = job[i].kind /\ job'[i].port = job[i].port
             /\ job'[i].step = job[i].step /\ (job[i].disturbed => job'[i].disturbed)
             /\ i \in met /\ ~no => job'[i].disturbed
  <2>1. j \notin met /\ ~job[j].disturbed
    BY <1>1, <1>6 DEF Running, PortsInv, Flow
  <2>2. ASSUME NEW i \in Jobs \ {j}
        PROVE  /\ job'[i].kind = job[i].kind /\ job'[i].port = job[i].port
               /\ job'[i].step = job[i].step /\ (job[i].disturbed => job'[i].disturbed)
               /\ i \in met /\ ~no => job'[i].disturbed
    <3>1. /\ Bothered(job[i]).disturbed = TRUE /\ Bothered(job[i]).kind = job[i].kind
          /\ Bothered(job[i]).port = job[i].port /\ Bothered(job[i]).step = job[i].step
      BY <1>10, BotheredShape
    <3>2. CASE i \in met /\ ~no
      BY <1>9, <3>1, <3>2
    <3>3. CASE ~(i \in met /\ ~no)
      BY <1>9, <3>3
    <3> QED
      BY <3>2, <3>3
  <2> QED
    BY <2>1, <2>2
<1>14. Mixed => Mixed'
  <2> SUFFICES ASSUME Mixed PROVE Mixed'
    OBVIOUS
  <2>1. PICK a, b \in Jobs : /\ a # b /\ job[a].disturbed /\ job[b].disturbed
                             /\ FillsShared(job[a].kind, job[a].port)
                             /\ FillsShared(job[b].kind, job[b].port)
    BY DEF Mixed
  <2>2. a # j /\ b # j
    BY <1>13, <2>1
  <2>3. /\ job'[a].disturbed /\ job'[b].disturbed
        /\ FillsShared(job'[a].kind, job'[a].port)
        /\ FillsShared(job'[b].kind, job'[b].port)
    BY <1>13, <2>1, <2>2
  <2> QED
    BY <2>1, <2>3 DEF Mixed
<1>15. Flow(n)
  BY <1>1, <1>2, <1>4, <1>5, <1>7, <1>8 DEF Flow, Running, Fields
<1>16. KnownTo(n)'
  BY <1>4, <1>7, <1>8 DEF KnownTo
<1>17. Mirror(n)'
  <2>1. \A q \in Mine(n) : ~(q < n.port) \/ k \notin Refreshes
    BY <1>1, <1>7, <1>8 DEF Mine, PortsOf, Port, Loops, Refreshes
  <2>2. \A q \in Port : k = "init" => ~(q < n.port)
    BY <1>1, <1>7, <1>8 DEF Port, Loops
  <2>3. \A q \in Port : n.step = "session" => Copying(n, q)'
    BY DEF Copying
  <2>4. n.step = "session" => Refreshing(n)'
    BY <1>7, <1>8, <2>1, <2>3, PortIsMine DEF Refreshing
  <2>5. n.step = "session" => Setting(n)' /\ Clearing(n)'
    BY <1>7, <1>8, <2>2 DEF Setting, Clearing, Fields
  <2> QED
    BY <1>4, <1>7, <1>8, <2>4, <2>5 DEF Mirror, Running
<1>18. \A i \in Jobs : Flow(job[i])' /\ KnownTo(job[i])' /\ Mirror(job[i])'
  <2> SUFFICES ASSUME NEW i \in Jobs
               PROVE  Flow(job[i])' /\ KnownTo(job[i])' /\ Mirror(job[i])'
    OBVIOUS
  <2>1. PICK m \in Job : m = job'[i]
    BY <1>11
  <2>2. Flow(m) /\ KnownTo(m)' /\ Mirror(m)'
    <3>1. CASE i = j
      BY <1>9, <1>15, <1>16, <1>17, <2>1, <3>1
    <3>2. CASE i # j
      <4>1. m = job[i] \/ (m = Bothered(job[i]) /\ Running(job[i]))
        BY <1>6, <1>9, <2>1, <3>2
      <4> QED
        BY <1>1, <1>14, <2>1, <4>1, OthersAtArrival
    <3> QED
      BY <3>1, <3>2
  <2>3. Flow(job[i])'
    BY <2>1, <2>2 DEF Flow, Running
  <2>4. KnownTo(job[i])'
    BY <2>1, <2>2 DEF KnownTo
  <2>5. Mirror(job[i])'
    BY <2>1, <2>2 DEF Mirror, Refreshing, Setting, Sets, Clearing, Copying, ReplyOf, Running
  <2> QED
    BY <2>3, <2>4, <2>5
<1>19. Apart'
  <2>1. ASSUME NEW i \in Jobs, i # j, Running(job'[i]), Running(n),
               \/ Interferes(job'[i].kind, job'[i].port, k, p)
               \/ Interferes(k, p, job'[i].kind, job'[i].port)
        PROVE  job'[i].disturbed /\ n.disturbed
    <3>1. Interferes(k, p, job[i].kind, job[i].port) /\ Running(job[i])
      BY <1>13, <2>1 DEF Interferes, Running
    <3>2. i \in met /\ ~no
      BY <1>4, <1>6, <1>7, <1>8, <2>1, <3>1 DEF Running
    <3> QED
      BY <1>6, <1>7, <1>8, <1>13, <2>1, <3>2
  <2>2. ASSUME NEW a \in Jobs, NEW b \in Jobs, a # b, a # j, b # j,
               Running(job'[a]), Running(job'[b]),
               Interferes(job'[a].kind, job'[a].port, job'[b].kind, job'[b].port)
        PROVE  job'[a].disturbed /\ job'[b].disturbed
    <3>1. job[a].disturbed /\ job[b].disturbed
      BY <1>1, <1>13, <2>2 DEF Apart, Running
    <3> QED
      BY <1>13, <2>2, <3>1
  <2> SUFFICES ASSUME NEW a \in Jobs, NEW b \in Jobs, a # b,
                      Running(job'[a]), Running(job'[b]),
                      Interferes(job'[a].kind, job'[a].port, job'[b].kind, job'[b].port)
               PROVE  job'[a].disturbed /\ job'[b].disturbed
    BY DEF Apart, Running
  <2>3. CASE a = j
    BY <1>7, <1>8, <1>9, <2>1, <2>3
  <2>4. CASE b = j
    BY <1>7, <1>8, <1>9, <2>1, <2>4
  <2> QED
    BY <2>2, <2>3, <2>4
<1>20. SwitchKnown' /\ DatabaseAccountable'
  BY <1>1, <1>14 DEF PortsInv, SwitchKnown, DatabaseAccountable
<1> QED
  BY <1>12, <1>18, <1>19, <1>20 DEF PortsInv

-----------------------------------------------------------------------------
(***************************************************************************)
(* The initial states, and the invariant.                                  *)
(***************************************************************************)
LEMMA PortsStart ==
  ASSUME PortsInit
  PROVE  PortsInv
<1>1. /\ IdleJob \in Job /\ IdleJob.step = "idle" /\ IdleJob.kind = "none"
      /\ ~IdleJob.disturbed
  BY Constants DEF IdleJob, Job
<1>2. \A j \in Jobs : job[j] = IdleJob
  BY DEF PortsInit
<1>3. \A p \in Port : switch[p] \in SwitchPort
  BY FirstAssumption DEF PortsInit
<1>4. switch \in [Port -> SwitchPort]
  BY <1>3 DEF PortsInit
<1>5. \A p \in Port : /\ known[p] = {Unread, switch[p].untag} /\ switch[p].untag \in Untags
                      /\ db[p].untag = Unread
  BY <1>4 DEF PortsInit, SwitchPort
<1>6. known \in [Port -> SUBSET Untags]
  BY <1>4 DEF PortsInit, SwitchPort, Untags
<1>7. db \in [Port -> Document]
  BY DEF PortsInit, Document, Untags
<1>8. refres \in Result
  BY AnswerShape, Constants DEF PortsInit, Messages
<1>9. outages \in 0..MaxFaults /\ job \in [Jobs -> Job]
  <2>1. 0 \in 0..MaxFaults
    BY PortsAssumption
  <2> QED
    BY <1>1, <2>1 DEF PortsInit
<1>10. PortsTypeOK
  BY <1>4, <1>6, <1>7, <1>8, <1>9 DEF PortsTypeOK
<1>11. \A j \in Jobs : Flow(job[j]) /\ KnownTo(job[j]) /\ Mirror(job[j])
  BY <1>1, <1>2 DEF Flow, KnownTo, Mirror, Running, Fields, Refreshes
<1>12. Apart
  BY <1>1, <1>2 DEF Apart, Running
<1>13. SwitchKnown /\ DatabaseAccountable
  BY <1>5 DEF SwitchKnown, DatabaseAccountable
<1> QED
  BY <1>10, <1>11, <1>12, <1>13 DEF PortsInv

LEMMA PortsStutter ==
  ASSUME PortsInv, UNCHANGED portVars
  PROVE  PortsInv'
<1>1. UNCHANGED <<switch, db, refres, job, outages, known>>
  BY DEF portVars
<1>2. Mixed' = Mixed /\ PortsTypeOK' /\ Apart' /\ SwitchKnown'
  BY <1>1 DEF PortsInv, Mixed, PortsTypeOK, Apart, SwitchKnown, Running
<1>3. DatabaseAccountable'
  BY <1>1, <1>2 DEF PortsInv, DatabaseAccountable
<1>4. ASSUME NEW j \in Jobs PROVE Flow(job[j])' /\ KnownTo(job[j])' /\ Mirror(job[j])'
  <2>1. Flow(job[j]) /\ KnownTo(job[j]) /\ Mirror(job[j])
    BY DEF PortsInv
  <2>2. Flow(job[j])'
    BY <1>1, <2>1 DEF Flow, Running
  <2>3. KnownTo(job[j])'
    BY <1>1, <1>2, <2>1 DEF KnownTo
  <2>4. Mirror(job[j])'
    <3>1. PICK r \in Job : r = job[j] /\ r = job'[j]
      BY <1>1 DEF PortsInv, PortsTypeOK
    <3>2. Mirror(r)'
      BY <1>1, <2>1, <3>1, MirrorStays
    <3> QED
      BY <3>1, <3>2 DEF Mirror, Refreshing, Setting, Sets, Clearing, Copying, ReplyOf, Running
  <2> QED
    BY <2>2, <2>3, <2>4
<1> QED
  BY <1>2, <1>3, <1>4 DEF PortsInv

LEMMA PortsInductive ==
  ASSUME PortsInv, [PortsNext]_portVars
  PROVE  PortsInv'
<1>1. CASE UNCHANGED portVars
  BY <1>1, PortsStutter
<1>2. ASSUME NEW j \in Jobs, Arrive(j) PROVE PortsInv'
  BY <1>2, BeginKeeps DEF Arrive
<1>3. ASSUME NEW j \in Jobs, JobStep(j) PROVE PortsInv'
  BY <1>3, SessionRaisesKeeps, LoginFailsKeeps, PortSetKeeps, InitialKeeps, RefreshKeeps,
     FillKeeps, RefreshOkKeeps, CheckKeeps, UpdateKeeps DEF JobStep
<1> QED
  BY <1>1, <1>2, <1>3 DEF PortsNext

-----------------------------------------------------------------------------
(***************************************************************************)
(* What holds when a handler ends: the action properties.                  *)
(***************************************************************************)
LEMMA OnlyOneSteps ==
  ASSUME PortsInv, NEW i \in Jobs, JobStep(i), NEW j \in Jobs, i # j
  PROVE  job'[j] = job[j]
<1>1. job \in [Jobs -> Job]
  BY DEF PortsInv, PortsTypeOK
<1>2. CASE SessionRaises(i) \/ LoginFails(i)
  BY <1>1, <1>2 DEF SessionRaises, LoginFails
<1>3. CASE sw_port_set(i) \/ FillRefres(i) \/ RefreshOk(i) \/ DUTPortRefresh(i)
  BY <1>1, <1>3 DEF sw_port_set, FillRefres, RefreshOk, DUTPortRefresh
<1>4. CASE SWInitial(i)
  BY <1>1, <1>4 DEF SWInitial
<1>5. CASE sw_port_refresh(i)
  BY <1>1, <1>5 DEF sw_port_refresh
<1>6. CASE update_one_inerface(i)
  BY <1>1, <1>6 DEF update_one_inerface
<1> QED
  BY <1>2, <1>3, <1>4, <1>5, <1>6 DEF JobStep

\* An undisturbed handler at its end.
Final(r) ==
    /\ r.kind \in Loops => r.port = NumPorts
    /\ Finished(r)

\* An undisturbed refresh that has raised.
Raised(r) ==
    /\ FormerTrunk(switch[r.port])
    /\ \A p \in Mine(r) : Fit(p) /\ p < r.port => Same(db[p], Shown(p))

LEMMA UpdateEnds ==
  ASSUME PortsInv, NEW j \in Jobs, NEW r \in Job, r = job[j], update_one_inerface(j),
         job'[j].step = "done", ~r.disturbed, ~job'[j].hit
  PROVE  /\ Final(r)' /\ job'[j].outcome = "ok"
         /\ Sets(r) => db'[r.port].untag = switch'[r.port].untag
<1>1. Flow(r) /\ Mirror(r) /\ PortsTypeOK /\ job \in [Jobs -> Job]
  BY JobFacts DEF PortsTypeOK
<1>2. r.step \in Fields /\ UNCHANGED <<switch, refres, known>> /\ r.port \in Port
  BY DEF update_one_inerface, Fields, Job
<1>3. CASE job' = [job EXCEPT ![j] = [AfterField(j) EXCEPT !.hit = TRUE]]
  <2>1. PICK n : n = [AfterField(j) EXCEPT !.hit = TRUE] /\ Onward(r, Hit(r), n)
    BY <1>1, <1>2, AfterShape
  <2>2. n.hit = Hit(r).hit /\ Hit(r).hit = TRUE
    BY <2>1, HitShape DEF Onward, Moved, Turned
  <2>3. job'[j] = n
    BY <1>1, <1>3, <2>1
  <2> QED
    BY <2>2, <2>3
<1>4. CASE /\ db' = [db EXCEPT ![r.port] = Written(j)]
           /\ job' = [job EXCEPT ![j] = AfterField(j)]
  <2>1. PICK n : n = AfterField(j) /\ Onward(r, r, n)
    BY <1>1, <1>2, AfterShape
  <2>2. PICK w : w = Written(j) /\ Writes(r, db[r.port], w)
    BY <1>1, <1>2, WrittenShape
  <2>3. job'[j] = n /\ n.step = "done" /\ db' = [db EXCEPT ![r.port] = w]
    BY <1>1, <1>4, <2>1, <2>2
  <2>4. Last(r) /\ Turned(r, n, "ok")
    BY <2>1, <2>3 DEF Onward, Moved
  <2>5. ~r.hit /\ (r.kind \in Loops => r.port = NumPorts) /\ n.outcome = "ok"
    BY <2>3, <2>4 DEF Turned
  <2>6. Finished(r)' /\ (Sets(r) => db'[r.port].untag = switch'[r.port].untag)
    BY <1>1, <1>2, <2>2, <2>3, <2>4, <2>5, LastFinishes
  <2> QED
    BY <2>3, <2>5, <2>6 DEF Final
<1> QED
  BY <1>3, <1>4 DEF update_one_inerface

\* Other ways to end.
LEMMA OtherEnds ==
  ASSUME PortsInv, NEW j \in Jobs, NEW r \in Job, r = job[j], JobStep(j),
         ~update_one_inerface(j),
         job'[j].step = "done", ~r.disturbed, ~job'[j].hit
  PROVE  /\ r.kind = "init" => Finished(r)' /\ r.port = NumPorts
         /\ job'[j].outcome = "ok" => r.kind = "resetsw"
         /\ r.kind \in Refreshes =>
              IF job'[j].outcome = "error" THEN Raised(r)' ELSE Final(r)'
<1>1. Flow(r) /\ Mirror(r) /\ PortsTypeOK /\ job \in [Jobs -> Job]
  BY JobFacts DEF PortsTypeOK
<1>2. CASE SessionRaises(j)
  <2> DEFINE n == [r EXCEPT !.step = "done", !.outcome = "error", !.hit = TRUE]
  <2>1. job'[j] = n /\ n.hit = TRUE
    BY <1>1, <1>2 DEF SessionRaises, Job
  <2> QED
    BY <2>1
<1>3. CASE LoginFails(j)
  <2>1. CASE r.kind \in Refreshes /\ Vendor[r.port] = "cisco"
    <3> DEFINE n == [r EXCEPT !.step = "check", !.res = Shared, !.hit = TRUE]
    <3>1. job'[j] = n /\ n.step = "check"
      BY <1>1, <1>3, <2>1 DEF LoginFails, Job
    <3> QED
      BY <3>1
  <2>2. CASE ~(r.kind \in Refreshes /\ Vendor[r.port] = "cisco")
    <3>1. job'[j] = NextPort(Hit(r), "failed")
      BY <1>1, <1>3, <2>2 DEF LoginFails, Hit
    <3>2. Hit(r) \in Job /\ Hit(r).hit = TRUE
      BY HitShape
    <3>3. job'[j].hit = TRUE
      BY <3>1, <3>2, NextPortShape DEF Turned
    <3> QED
      BY <3>3
  <2> QED
    BY <2>1, <2>2
<1>4. CASE sw_port_set(j)
  BY <1>1, <1>4 DEF sw_port_set, Job
<1>5. CASE SWInitial(j)
  <2>1. r.step = "session" /\ r.kind \in {"init", "resetsw"}
    BY <1>5 DEF SWInitial
  <2>2. CASE r.kind = "resetsw"
    BY <2>2 DEF Refreshes
  <2>3. CASE r.kind = "init"
    <3>1. CASE Vendor[r.port] = "dell"
      <4>1. job'[j] = NextPort(r, "failed") /\ UNCHANGED switch
        BY <1>1, <1>5, <3>1 DEF SWInitial
      <4>2. PICK n : n = NextPort(r, "failed") /\ Turned(r, n, "failed")
        BY NextPortShape
      <4>3. n.outcome = "failed" /\ n.hit = r.hit /\ r.port = NumPorts
        BY <2>3, <4>1, <4>2 DEF Turned, Loops
      <4>4. Finished(r)'
        BY <1>1, <2>1, <3>1, <4>1, <4>2, <4>3, SkipFinishes
      <4> QED
        BY <2>3, <4>1, <4>2, <4>3, <4>4 DEF Refreshes
    <3>2. CASE Vendor[r.port] # "dell"
      <4>1. \/ job'[j] = [r EXCEPT !.res = Answer("lag on", Blank), !.step = "lag"]
            \/ job'[j] = [r EXCEPT !.step = "mode"]
        BY <1>1, <1>5, <2>3, <3>2 DEF SWInitial
      <4>2. job'[j].step \in {"lag", "mode"}
        BY <4>1 DEF Job
      <4> QED
        BY <4>2
    <3> QED
      BY <3>1, <3>2
  <2> QED
    BY <2>1, <2>2, <2>3
<1>6. CASE sw_port_refresh(j)
  <2>2. \E a : \/ job' = [job EXCEPT ![j].res = a, ![j].step = "check"]
              \/ job' = [job EXCEPT ![j].res = a, ![j].step = "fill"]
    BY <1>6 DEF sw_port_refresh
  <2>3. job[j] \in Job /\ j \in Jobs
    BY <1>1
  <2>4. ASSUME NEW a, NEW x, job' = [job EXCEPT ![j].res = a, ![j].step = x]
        PROVE  job'[j].step = x
    BY <1>1, <2>3, <2>4 DEF Job
  <2>1. job'[j].step \in {"check", "fill"}
    BY <2>2, <2>4
  <2> QED
    BY <2>1
<1>9. CASE FillRefres(j)
  <2>1. /\ r.step = "fill" /\ r.kind \in Refreshes /\ Running(r) /\ r.res # Shared
        /\ UNCHANGED <<switch, db>> /\ r.port \in Port
    BY <1>1, <1>9 DEF FillRefres, Flow, Running, Job
  <2>2. CASE job' = [job EXCEPT ![j].res = Shared, ![j].step = "msg"]
    <3>1. job'[j].step = "msg"
      BY <1>1, <2>2 DEF Job
    <3> QED
      BY <3>1
  <2>3. CASE /\ r.res.mode = "access" /\ r.res.untag = Unused
             /\ job' = [job EXCEPT ![j].step = "done", ![j].outcome = "error"]
    <3>1. job'[j].outcome = "error" /\ job'[j].hit = r.hit
      BY <1>1, <2>3 DEF Job
    <3>2. Refreshing(r)
      BY <1>1, <2>1, <3>1 DEF Mirror
    <3>3. Fit(r.port) /\ Copying(r, r.port)
      BY <2>1, <3>2, PortIsMine DEF Refreshing
    <3>4. Same(r.res, Shown(r.port)) /\ ~ShownUnused(switch[r.port])
      BY <2>1, <3>3 DEF Copying, ReplyOf
    <3>5. switch[r.port] \in SwitchPort /\ Shown(r.port).untag = switch[r.port].untag
          /\ Vendor[r.port] = "cisco"
      BY <1>1, <2>1, ShownShape DEF PortsTypeOK, Flow
    <3>6. Shown(r.port).mode = switch[r.port].mode
      BY <3>5 DEF Shown
    <3>7. FormerTrunk(switch[r.port])
      BY <2>3, <3>4, <3>5, <3>6 DEF FormerTrunk, ShownUnused, Same, SwitchPort
    <3>8. \A p \in Mine(r) : Fit(p) /\ p < r.port => Same(db[p], Shown(p))
      BY <2>1, <3>2 DEF Refreshing
    <3>9. Raised(r)'
      BY <2>1, <3>7, <3>8 DEF Raised, Fit, Shown, Same, FormerTrunk
    <3> QED
      BY <2>1, <3>1, <3>9 DEF Refreshes
  <2> QED
    BY <1>9, <2>2, <2>3 DEF FillRefres
<1>7. CASE RefreshOk(j)
  BY <1>1, <1>7 DEF RefreshOk, Job
<1>8. CASE DUTPortRefresh(j)
  <2>1. r.kind \in Refreshes
    BY <1>1, <1>8 DEF DUTPortRefresh, Flow
  <2>2. \/ job'[j] = NextPort(r, "failed")
        \/ job'[j] = [r EXCEPT !.step = "lag"]
        \/ job'[j] = [r EXCEPT !.step = "mode"]
    BY <1>1, <1>8 DEF DUTPortRefresh
  <2>3. [r EXCEPT !.step = "lag"].step = "lag" /\ [r EXCEPT !.step = "mode"].step = "mode"
    BY DEF Job
  <2>4. Turned(r, NextPort(r, "failed"), "failed")
    BY NextPortShape
  <2>5. job'[j].outcome = "failed" /\ job'[j].hit = r.hit /\ (r.kind \in Loops => r.port = NumPorts)
    BY <2>2, <2>3, <2>4 DEF Turned, Loops
  <2>6. r.step = "check" /\ UNCHANGED <<switch, db>> /\ Running(r)
        /\ ReplyOf(r).msg \in {"login fail", "not switchport"}
    <3>1. r.step = "check" /\ UNCHANGED <<switch, db>>
      BY <1>8 DEF DUTPortRefresh
    <3>2. ReplyOf(r).msg \notin {"login fail", "not switchport"} =>
            \/ job'[j] = [r EXCEPT !.step = "lag"]
            \/ job'[j] = [r EXCEPT !.step = "mode"]
      BY <1>1, <1>8 DEF DUTPortRefresh, Reply, ReplyOf
    <3> QED
      BY <2>3, <3>1, <3>2 DEF Running
  <2>7. Refreshing(r) /\ ~Fit(r.port)
    BY <1>1, <2>1, <2>5, <2>6, PortIsMine DEF Mirror, Refreshing, Copying
  <2>8. \A p \in Mine(r) : Fit(p) /\ p <= r.port => p < r.port
    BY <2>7, PortIsMine DEF Port, Job
  <2>9. Finished(r)'
    <3>1. ASSUME NEW p \in Mine(r), Fit(p)', p <= r.port PROVE Same(db[p], Shown(p))
      <4>1. Fit(p)
        BY <2>6, <3>1 DEF Fit
      <4> QED
        BY <2>1, <2>7, <2>8, <3>1, <4>1 DEF Refreshing
    <3> QED
      BY <2>1, <2>6, <3>1 DEF Finished, Same, Shown, Refreshes
  <2> QED
    BY <2>1, <2>5, <2>9 DEF Refreshes, Final
<1> QED
  BY <1>2, <1>3, <1>4, <1>5, <1>6, <1>7, <1>8, <1>9 DEF JobStep

LEMMA StepEnds ==
  ASSUME PortsInv, [PortsNext]_portVars, NEW j \in Jobs, NEW r \in Job, r = job[j],
         Running(r), job'[j].step = "done", ~r.disturbed, ~job'[j].hit
  PROVE  /\ r.kind = "init" => Finished(r)' /\ r.port = NumPorts
         /\ job'[j].outcome = "ok" /\ Sets(r) => db'[r.port].untag = switch'[r.port].untag
         /\ r.kind \in Refreshes =>
              IF job'[j].outcome = "error" THEN Raised(r)' ELSE Final(r)'
<1>1. job'[j].step # job[j].step
  BY DEF Running
<1>2. ~(UNCHANGED portVars)
  BY <1>1 DEF portVars
<1>3. ASSUME NEW i \in Jobs, Arrive(i) PROVE FALSE
  <2>1. PICK k, p, lag, c : Begin(i, k, p, c, lag)
    BY <1>3 DEF Arrive
  <2>2. i # j
    BY <2>1 DEF Begin, Running
  <2>3. job'[j] = job[j] \/ job'[j] = Bothered(job[j])
    BY <2>1, <2>2 DEF Begin, Bothered
  <2> QED
    BY <1>1, <2>3, BotheredShape
<1>4. ASSUME NEW i \in Jobs, JobStep(i) PROVE i = j
  BY <1>1, <1>4, OnlyOneSteps
<1>5. JobStep(j)
  BY <1>2, <1>3, <1>4 DEF PortsNext
<1>6. CASE update_one_inerface(j)
  <2>1. /\ Final(r)' /\ job'[j].outcome = "ok"
        /\ Sets(r) => db'[r.port].untag = switch'[r.port].untag
    BY <1>6, UpdateEnds
  <2> QED
    BY <2>1 DEF Final, Loops
<1>7. CASE ~update_one_inerface(j)
  <2>1. Sets(r) => r.kind # "resetsw"
    BY DEF Sets
  <2> QED
    BY <1>5, <1>7, <2>1, OtherEnds
<1> QED
  BY <1>6, <1>7

\* The step that ends a refresh does not touch the switch.
LEMMA SwitchUnchanged ==
  ASSUME PortsInv, [PortsNext]_portVars, NEW j \in Jobs, NEW r \in Job, r = job[j],
         r.kind \in Refreshes, Running(r), job'[j].step = "done", ~job'[j].hit
  PROVE  UNCHANGED switch
<1>1. job'[j].step # job[j].step
  BY DEF Running
<1>2. ~(UNCHANGED portVars)
  BY <1>1 DEF portVars
<1>3. ASSUME NEW i \in Jobs, Arrive(i) PROVE UNCHANGED switch
  BY <1>3 DEF Arrive, Begin
<1>4. ASSUME NEW i \in Jobs, JobStep(i) PROVE UNCHANGED switch
  <2>1. i = j
    BY <1>1, <1>4, OnlyOneSteps
  <2>2. ~sw_port_set(i) /\ ~SWInitial(i)
    BY <2>1 DEF sw_port_set, SWInitial, Refreshes
  <2>3. ~SessionRaises(i)
    <3>1. job \in [Jobs -> Job]
      BY DEF PortsInv, PortsTypeOK
    <3> QED
      BY <2>1, <3>1 DEF SessionRaises, Job
  <2> QED
    BY <1>4, <2>2, <2>3 DEF JobStep, LoginFails, sw_port_refresh, FillRefres, RefreshOk,
                      DUTPortRefresh, update_one_inerface
<1> QED
  BY <1>2, <1>3, <1>4 DEF PortsNext

LEMMA PortsInvariant == PortsSpec => []PortsInv
BY PortsStart, PortsInductive, PTL DEF PortsSpec

\* The ports, the document, the shared dictionary and the handlers keep their
\* types: no handler runs past the last port, and a trunk never gets a VLAN
\* that is none.
THEOREM PortsTypeSafe == PortsSpec => []PortsTypeOK
<1>1. PortsInv => PortsTypeOK
  BY DEF PortsInv
<1> QED
  BY <1>1, PortsInvariant, PTL

\* The VLAN in the document of a port was on that port or was asked for there,
\* unless two refreshes of Cisco ports have overlapped in `refres'.
THEOREM DocumentsAccountable == PortsSpec => []DatabaseAccountable
<1>1. PortsInv => DatabaseAccountable
  BY DEF PortsInv
<1> QED
  BY <1>1, PortsInvariant, PTL

\* dutportrefresh and refreshallport: a refresh that nothing interferes with
\* copies the switch into the document, for every switch port it has been at,
\* and only an initialised former trunk makes it raise.
THEOREM RefreshesRepair == PortsSpec => RefreshRepairs
<1> DEFINE A == \A j \in Jobs :
         Stops(j) /\ Quiet(j) /\ job[j].kind \in Refreshes =>
            LET raised == job'[j].outcome = "error"
            IN  /\ raised => FormerTrunk(switch[job[j].port])
                /\ \A p \in PortsOf(job[j].kind, job[j].port) \ Lag :
                     (raised => p < job[j].port) /\ switch[p].mode # "none" =>
                        [mode |-> db'[p].mode, untag |-> db'[p].untag, tags |-> db'[p].tags]
                            = Shown(p)
<1>1. ASSUME PortsInv, [PortsNext]_portVars PROVE [A]_portVars
  <2>0. SUFFICES ASSUME NEW j \in Jobs, Stops(j), Quiet(j), job[j].kind \in Refreshes
               PROVE  LET raised == job'[j].outcome = "error"
                      IN  /\ raised => FormerTrunk(switch[job[j].port])
                          /\ \A p \in PortsOf(job[j].kind, job[j].port) \ Lag :
                               (raised => p < job[j].port) /\ switch[p].mode # "none" =>
                                  [mode |-> db'[p].mode, untag |-> db'[p].untag, tags |-> db'[p].tags]
                                      = Shown(p)
    OBVIOUS
  <2>1. PICK r \in Job : r = job[j]
    BY <1>1 DEF PortsInv, PortsTypeOK
  <2>2. /\ Running(r) /\ job'[j].step = "done" /\ ~r.disturbed /\ ~job'[j].hit
        /\ r.kind \in Refreshes
    BY <2>0, <2>1 DEF Stops, Quiet, InFlight, Running
  <2>3. IF job'[j].outcome = "error" THEN Raised(r)' ELSE Final(r)'
    BY <1>1, <2>1, <2>2, StepEnds
  <2>4. UNCHANGED switch
    BY <1>1, <2>1, <2>2, SwitchUnchanged
  <2>5. job'[j].outcome = "error" => FormerTrunk(switch[r.port])
    BY <2>3, <2>4 DEF Raised, FormerTrunk
  <2>6. ASSUME NEW p \in PortsOf(r.kind, r.port) \ Lag, switch[p].mode # "none",
               job'[j].outcome = "error" => p < r.port
        PROVE  [mode |-> db'[p].mode, untag |-> db'[p].untag, tags |-> db'[p].tags] = Shown(p)
    <3>1. p \in Mine(r) /\ p \in Port /\ Fit(p)' /\ r.port \in Port
      BY <2>4, <2>6, PortIsMine DEF Mine, Fit, Job
    <3>2. ASSUME job'[j].outcome = "error" PROVE Same(db'[p], Shown(p)')
      BY <2>3, <2>6, <3>1, <3>2 DEF Raised
    <3>3. ASSUME job'[j].outcome # "error" PROVE Same(db'[p], Shown(p)')
      <4>1. Finished(r)' /\ (r.kind \in Loops => r.port = NumPorts)
        BY <2>3, <3>3 DEF Final
      <4>2. r.kind \notin Loops => p = r.port
        BY <2>6 DEF PortsOf
      <4>3. p <= r.port
        BY <3>1, <4>1, <4>2, PortsAssumption DEF Port
      <4> QED
        BY <2>2, <3>1, <4>1, <4>3 DEF Finished
    <3>4. Same(db'[p], Shown(p)')
      BY <3>2, <3>3
    <3>5. Shown(p)' = Shown(p)
      BY <2>4 DEF Shown
    <3>6. Shown(p) \in Config
      BY <1>1, <2>6, <3>1, ShownShape DEF PortsInv
    <3> QED
      BY <3>4, <3>5, <3>6 DEF Same, Config
  <2> QED
    BY <2>1, <2>5, <2>6
<1> QED
  BY <1>1, PortsInvariant, PTL DEF PortsSpec, RefreshRepairs

\* dutportcfg and async_initialdutports: a configuration or an initialisation
\* that ends well and undisturbed leaves document and switch with the same
\* untagged VLAN, for both vendors' dialogues.
THEOREM SettingsLast == PortsSpec => SettingsAgree
<1> DEFINE A == \A j \in Jobs :
         Ends(j) /\ Quiet(j) /\ Sets(job[j]) =>
            db'[job[j].port].untag = switch'[job[j].port].untag
<1>1. ASSUME PortsInv, [PortsNext]_portVars PROVE [A]_portVars
  <2> SUFFICES ASSUME NEW j \in Jobs, Ends(j), Quiet(j), Sets(job[j])
               PROVE  db'[job[j].port].untag = switch'[job[j].port].untag
    OBVIOUS
  <2>1. PICK r \in Job : r = job[j]
    BY <1>1 DEF PortsInv, PortsTypeOK
  <2>2. /\ Running(r) /\ job'[j].step = "done" /\ job'[j].outcome = "ok"
        /\ ~r.disturbed /\ ~job'[j].hit
    BY <2>1 DEF Ends, Stops, Quiet, InFlight, Running
  <2> QED
    BY <1>1, <2>1, <2>2, StepEnds
<1> QED
  BY <1>1, PortsInvariant, PTL DEF PortsSpec, SettingsAgree

\* async_initialdutports: when the task has run through undisturbed, no Cisco
\* port outside an aggregation has the previous user's VLAN.
THEOREM HandoverResets == PortsSpec => TaskResetsCisco
<1> DEFINE A == \A j \in Jobs :
         Stops(j) /\ Quiet(j) /\ job[j].kind = "init" =>
            \A p \in Port \ Lag : Vendor[p] = "cisco" => switch'[p].untag = Unused
<1>1. ASSUME PortsInv, [PortsNext]_portVars PROVE [A]_portVars
  <2> SUFFICES ASSUME NEW j \in Jobs, Stops(j), Quiet(j),
                      job[j].kind = "init", NEW p \in Port \ Lag, Vendor[p] = "cisco"
               PROVE  switch'[p].untag = Unused
    OBVIOUS
  <2>1. PICK r \in Job : r = job[j]
    BY <1>1 DEF PortsInv, PortsTypeOK
  <2>2. Running(r) /\ ~r.disturbed /\ ~job'[j].hit /\ job'[j].step = "done"
    BY <2>1 DEF Stops, Quiet, InFlight, Running
  <2>3. Finished(r)' /\ r.port = NumPorts
    BY <1>1, <2>1, <2>2, StepEnds
  <2>4. p <= r.port
    BY <2>3, PortsAssumption DEF Port
  <2> QED
    BY <2>1, <2>3, <2>4 DEF Finished
<1> QED
  BY <1>1, PortsInvariant, PTL DEF PortsSpec, TaskResetsCisco
=============================================================================
