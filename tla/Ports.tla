------------------------------- MODULE Ports -------------------------------
(***************************************************************************)
(* The ports of one device: what the switch has configured, what the       *)
(* device's document (InterfaceInfo) says about it, and the handlers that  *)
(* work on both: the pages dutportcfg, dutportrefresh, refreshallport,     *)
(* resetvlan, resetsw and the Celery task async_initialdutports that a     *)
(* page queues when a device changes hands.                                *)
(*                                                                         *)
(* A telnet session with the switch is one step; the writes of the fields  *)
(* of a port into the document are one step each, in the order of the      *)
(* code, and other handlers run in between.  VLAN sets are kept, port      *)
(* power and spanning tree are left out.  No code answers `vlan fail'      *)
(* (re.split never returns an empty list) or `pullout'; `not switchport'   *)
(* is answered for a port that nobody has made a switch port.              *)
(***************************************************************************)
EXTENDS Naturals

CONSTANTS
    NumPorts,      \* the ports of the document, in its order
    Vendor,        \* porttype of each port: "cisco" or "dell"
    Lag,           \* the ports that are in a link aggregation on the switch
    AtFirst,       \* per port, the configurations in which it may be found
    Vlans,
    Unused,        \* UnusedNetwork: VLAN 1 on the switch
    Unread,        \* the text '1' of a document that was never refreshed
    Jobs,
    Kinds,         \* the handlers in use
    Shared,        \* stands for the module's dictionary `refres'
    MaxFaults      \* bound: switches or database calls that fail

Port == 1..NumPorts
AllKinds == {"configure", "refresh", "refreshall", "resetvlan", "resetsw", "init"}

ASSUME PortsAssumption ==
    /\ NumPorts \in Nat \ {0}
    /\ Vendor \in [Port -> {"cisco", "dell"}]
    /\ Lag \subseteq Port
    /\ {Unused, Unread} \cap Vlans = {} /\ Unused # Unread
    /\ Kinds \subseteq AllKinds
    /\ MaxFaults \in Nat

VARIABLES
    switch,      \* the running configuration of every port
    db,          \* the fields of every port in the document
    refres,      \* the module-level dictionary that Cisco.Refresh fills
    job,         \* the local state of every handler or task
    outages,
    known        \* history: per port, the VLANs it had or was asked to have

portVars == <<switch, db, refres, job, outages, known>>

Untags == Vlans \cup {Unused, Unread}
Config == [mode : {"access", "trunk"}, untag : Untags, tags : SUBSET Vlans]
\* A port of the switch; desc: the description says `vlab-Trunk'.
SwitchPort == [mode : {"none", "access", "trunk"}, untag : Untags, tags : SUBSET Vlans, desc : BOOLEAN]
Messages == {"", "refresh ok", "login fail", "lag on", "UnusedNetwork", "not switchport"}
Result == [msg : Messages, mode : {"access", "trunk"}, untag : Untags, tags : SUBSET Vlans]
ASSUME SharedAssumption == Shared \notin Result
ASSUME FirstAssumption == \A p \in Port : AtFirst[p] \subseteq SwitchPort
Document == [mode : {"access", "trunk"}, untag : Untags, tags : SUBSET Vlans, lag : BOOLEAN]

Blank == [mode |-> "access", untag |-> Unused, tags |-> {}]
Answer(m, c) == [msg |-> m, mode |-> c.mode, untag |-> c.untag, tags |-> c.tags]

Job == [kind : AllKinds \cup {"none"},
        port : Port,                  \* the port it is at
        form : Config,                \* what is to be configured
        res : Result \cup {Shared},   \* what the switch or sw_port_refresh answered
        step : {"idle", "session", "fill", "msg", "check", "mode", "untag", "tags", "lag", "done"},
        outcome : {"none", "ok", "refused", "failed", "error"},
        hit : BOOLEAN,                \* history: an outage hit it
        disturbed : BOOLEAN]          \* history: another handler got in its way

\* The type invariant.
PortsTypeOK ==
    /\ switch \in [Port -> SwitchPort]
    /\ db \in [Port -> Document]
    /\ refres \in Result
    /\ job \in [Jobs -> Job]
    /\ outages \in 0..MaxFaults
    /\ known \in [Port -> SUBSET Untags]

-----------------------------------------------------------------------------
Refreshes == {"refresh", "refreshall"}
Loops == {"refreshall", "init"}
InFlight(j) == job[j].step \notin {"idle", "done"}

PortsOf(k, p) == IF k \in Loops THEN Port ELSE {p}
FillsShared(k, p) == k = "refreshall" \/ (k = "refresh" /\ Vendor[p] = "cisco")
\* Two handlers that touch the same port, or fill the same dictionary.
Interferes(k, p, l, q) ==
    \/ PortsOf(k, p) \cap PortsOf(l, q) # {}
    \/ FillsShared(k, p) /\ FillsShared(l, q)

IdleJob == [kind |-> "none", port |-> 1, form |-> Blank, res |-> Shared,
            step |-> "idle", outcome |-> "none", hit |-> FALSE, disturbed |-> FALSE]

\* Documents start as they were imported, and the ports as they are found.
PortsInit ==
    /\ switch \in [Port -> UNION {AtFirst[p] : p \in Port}]
    /\ \A p \in Port : switch[p] \in AtFirst[p]
    /\ db = [p \in Port |-> [mode |-> "access", untag |-> Unread, tags |-> {}, lag |-> FALSE]]
    /\ refres = Answer("", Blank)
    /\ job = [j \in Jobs |-> IdleJob]
    /\ outages = 0
    /\ known = [p \in Port |-> {Unread, switch[p].untag}]

\* A request, or a task that is taken from the queue.  A form carries the
\* `lag' that the document had when the page was drawn.
Refused(k, c, lag) ==
    /\ k = "configure"
    /\ lag \/ (c.mode = "trunk" /\ c.untag \in c.tags) \/ c.untag = Unread

Begin(j, k, p, c, lag) ==
    /\ job[j].step = "idle"
    /\ k \in Loops => p = 1
    /\ lag \in {FALSE, db[p].lag}
    /\ LET met == {i \in Jobs : InFlight(i) /\ Interferes(k, p, job[i].kind, job[i].port)}
           no == Refused(k, c, lag)
       IN  job' = [i \in Jobs |->
             IF i = j THEN [IdleJob EXCEPT !.kind = k, !.port = p, !.form = c,
                              !.step = IF no THEN "done" ELSE "session",
                              !.outcome = IF no THEN "refused" ELSE "none",
                              !.disturbed = met # {}]
             ELSE IF i \in met /\ ~no THEN [job[i] EXCEPT !.disturbed = TRUE]
             ELSE job[i]]
    /\ UNCHANGED <<switch, db, refres, outages, known>>

\* The page offers a form with values for a configuration, the other requests
\* set a port to the unused network or read it.
Forms(k) ==
    IF k # "configure" THEN {Blank}
    ELSE {c \in Config : c.mode = "access" => c.tags = {}}

Arrive(j) ==
    \E k \in Kinds, p \in Port, lag \in BOOLEAN :
        \E c \in Forms(k) : Begin(j, k, p, c, lag)

-----------------------------------------------------------------------------
Outage(j) == outages < MaxFaults /\ outages' = outages + 1
NoOutage == UNCHANGED outages

\* Variants named Bug... are what the code would be with one mistake in it;
\* they show that the properties can fail, and no action uses them.
BugLoopOverruns(r, why) ==
    IF r.kind \in Loops /\ r.port <= NumPorts
    THEN [r EXCEPT !.port = r.port + 1, !.step = "session", !.res = Shared]
    ELSE [r EXCEPT !.step = "done", !.outcome = why]
BugLoopStops(r, why) == [r EXCEPT !.step = "done", !.outcome = why]
\* The state of a job at the next port of its loop, or at its end.
NextPort(r, why) ==
    IF r.kind \in Loops /\ r.port < NumPorts
    THEN [r EXCEPT !.port = r.port + 1, !.step = "session", !.res = Shared]
    ELSE [r EXCEPT !.step = "done", !.outcome = why]

LoginFails(j) ==
    /\ job[j].step = "session"
    /\ Outage(j)
    /\ IF job[j].kind \in Refreshes /\ Vendor[job[j].port] = "cisco"
       THEN /\ refres' = [refres EXCEPT !.msg = "login fail"]
            /\ job' = [job EXCEPT ![j].step = "check", ![j].res = Shared, ![j].hit = TRUE]
       ELSE /\ job' = [job EXCEPT ![j] = NextPort([job[j] EXCEPT !.hit = TRUE], "failed")]
            /\ UNCHANGED refres
    /\ UNCHANGED <<switch, db, known>>

(***************************************************************************)
(* What a session leaves on the switch.  A Cisco trunk lets the untagged   *)
(* VLAN through as well; `allow vlan UnusedNetwork' and, without tags,     *)
(* `allow vlan v,' are no commands, and the allowed VLANs stay.  A Dell    *)
(* port leaves all its VLANs before it joins others, whatever the mode; no *)
(* VLAN takes one that is not a switch port.                               *)
(***************************************************************************)
CiscoSet(old, mode, c) ==
    CASE mode = "access" -> [mode |-> "access", untag |-> c.untag, tags |-> {}, desc |-> FALSE]
      [] mode = "trunk" ->
            [mode |-> "trunk", untag |-> c.untag, desc |-> TRUE,
             tags |-> IF c.untag = Unused \/ c.tags = {} THEN old.tags ELSE c.tags \cup {c.untag}]
      [] OTHER -> old
BugDellKeepsVlan(old, mode, c) ==
    IF mode \notin {"access", "trunk"} THEN [old EXCEPT !.mode = "access", !.untag = Unused, !.tags = {}]
    ELSE [old EXCEPT !.mode = c.mode, !.untag = IF c.untag = Unused THEN @ ELSE c.untag, !.tags = c.tags]
DellSet(old, mode, c) ==
    IF old.mode = "none" THEN old
    ELSE IF mode \notin {"access", "trunk"} THEN [old EXCEPT !.mode = "access", !.untag = Unused, !.tags = {}]
    ELSE [old EXCEPT !.mode = c.mode, !.untag = c.untag, !.tags = c.tags]

SwitchSet(p, mode, c) ==
    IF Vendor[p] = "dell" THEN DellSet(switch[p], mode, c) ELSE CiscoSet(switch[p], mode, c)

Asked(p, v) == known' = [known EXCEPT ![p] = @ \cup {v, switch'[p].untag}]

\* Cisco.Initial keeps the description and the allowed VLANs.
Initialised(c) == [c EXCEPT !.mode = "access", !.untag = Unused]

\* The port of a job's session when all its commands have been sent.
\* dutportcfg and resetvlan call sw_port_set, the latter with the port's power
\* where the mode is expected; the task and resetsw call SWInitial, whose
\* Dell.Initial logs in the way Cisco switches ask for, and fails.
Left(j) ==
    LET p == job[j].port
    IN  CASE job[j].kind = "configure" -> SwitchSet(p, job[j].form.mode, job[j].form)
          [] job[j].kind = "resetvlan" -> SwitchSet(p, "shutdown", job[j].form)
          [] job[j].kind \in {"init", "resetsw"} /\ Vendor[p] = "cisco" /\ p \notin Lag ->
                Initialised(switch[p])
          [] OTHER -> switch[p]

\* The ports it may leave when it breaks off between two commands.  A Dell
\* port gives up its VLANs one by one; a former trunk still has its native
\* VLAN, which shows again when it becomes a trunk.
Interrupted(j) ==
    LET p == job[j].port
        old == switch[p]
        rejoins == /\ Vendor[p] = "dell" /\ old.mode # "none"
                   /\ job[j].kind \in {"configure", "resetvlan"}
    IN  IF Left(j) = old /\ ~rejoins THEN {old}
        ELSE {c \in SwitchPort :
                /\ c.mode \in {old.mode, Left(j).mode} /\ c.desc \in {old.desc, Left(j).desc}
                /\ c.desc # old.desc => c.mode = Left(j).mode
                /\ c.untag \in {old.untag, Unused, Left(j).untag}
                              \cup (IF old.desc THEN known[p] \ {Unread} ELSE {})
                /\ c.tags \in {old.tags, Left(j).tags} \cup (IF rejoins THEN SUBSET old.tags ELSE {})}

\* pexpect raises, or Cisco_not_bit returns None where a pair is expected: the
\* handler or the whole task ends there.
SessionRaises(j) ==
    /\ job[j].step = "session"
    /\ Outage(j)
    /\ \E c \in Interrupted(j) : switch' = [switch EXCEPT ![job[j].port] = c]
    /\ Asked(job[j].port, switch[job[j].port].untag)
    /\ job' = [job EXCEPT ![j].step = "done", ![j].outcome = "error", ![j].hit = TRUE]
    /\ UNCHANGED <<db, refres>>

sw_port_set(j) ==
    /\ job[j].step = "session"
    /\ job[j].kind \in {"configure", "resetvlan"}
    /\ switch' = [switch EXCEPT ![job[j].port] = Left(j)]
    /\ Asked(job[j].port, job[j].form.untag)
    /\ job' = [job EXCEPT ![j].step = "mode"]
    /\ NoOutage
    /\ UNCHANGED <<db, refres>>

\* Only the task writes the document afterwards.
SWInitial(j) ==
    /\ job[j].step = "session"
    /\ job[j].kind \in {"init", "resetsw"}
    /\ LET p == job[j].port
       IN  \/ /\ Vendor[p] = "dell"
              /\ job' = [job EXCEPT ![j] = NextPort(@, "failed")]
              /\ UNCHANGED <<switch, known>>
           \/ /\ Vendor[p] = "cisco" /\ p \in Lag
              /\ job' = [job EXCEPT ![j] =
                    IF @.kind = "init"
                    THEN [@ EXCEPT !.res = Answer("lag on", Blank), !.step = "lag"]
                    ELSE NextPort(@, "failed")]
              /\ UNCHANGED <<switch, known>>
           \/ /\ Vendor[p] = "cisco" /\ p \notin Lag
              /\ switch' = [switch EXCEPT ![p] = Left(j)]
              /\ Asked(p, Unused)
              /\ job' = [job EXCEPT ![j] =
                    IF @.kind = "init" THEN [@ EXCEPT !.step = "mode"] ELSE NextPort(@, "ok")]
    /\ NoOutage
    /\ UNCHANGED <<db, refres>>

-----------------------------------------------------------------------------
(***************************************************************************)
(* sw_port_refresh.  Dell.Refresh and the early returns of Cisco.Refresh   *)
(* answer with a dictionary of their own; otherwise Cisco.Refresh fills    *)
(* the module's `refres': first both VLAN fields with `--', then with what *)
(* was read, the message last, and returns it.                             *)
(***************************************************************************)
\* A Dell port is a trunk when it has a tagged VLAN.
Shown(p) ==
    LET c == switch[p]
    IN  IF Vendor[p] = "cisco"
        THEN [mode |-> c.mode, untag |-> c.untag, tags |-> IF c.mode = "trunk" THEN c.tags ELSE {}]
        ELSE [mode |-> IF c.tags = {} THEN "access" ELSE "trunk", untag |-> c.untag, tags |-> c.tags]

\* Cisco.Initial has made an access port of a trunk.  Its access VLAN, the
\* default, is not listed, and its description still says it is a trunk.
FormerTrunk(c) == c.mode = "access" /\ c.untag = Unused /\ c.desc
\* The status of the port shows VLAN 1 and no `Trunk'.
ShownUnused(c) == c.mode # "trunk" /\ c.untag = Unused /\ ~c.desc

OwnAnswer(p) ==
    IF p \in Lag THEN {Answer("lag on", Blank)}
    ELSE IF Vendor[p] = "cisco" /\ ShownUnused(switch[p]) THEN {Answer("UnusedNetwork", Blank)}
    ELSE IF switch[p].mode = "none" THEN {Answer("not switchport", Blank)}
    ELSE IF Vendor[p] = "dell" THEN {Answer("refresh ok", Shown(p))}
    ELSE {}

sw_port_refresh(j) ==
    /\ job[j].step = "session"
    /\ job[j].kind \in Refreshes
    /\ LET p == job[j].port
       IN  \/ /\ OwnAnswer(p) # {}
              /\ \E a \in OwnAnswer(p) : job' = [job EXCEPT ![j].res = a, ![j].step = "check"]
              /\ UNCHANGED refres
           \/ /\ OwnAnswer(p) = {}
              /\ refres' = [refres EXCEPT !.untag = Unused, !.tags = {}]
              /\ job' = [job EXCEPT ![j].res = Answer("", Shown(p)), ![j].step = "fill"]
    /\ NoOutage
    /\ UNCHANGED <<switch, db, known>>

\* Cisco.Refresh puts what it has read into `refres'.  Where no access VLAN is
\* listed accesscheck[0] raises, and the whole handler ends.
FillRefres(j) ==
    /\ job[j].step = "fill"
    /\ LET read == job[j].res
       IN  \/ /\ read.mode = "access" /\ read.untag = Unused
              /\ refres' = [refres EXCEPT !.mode = "access"]
              /\ job' = [job EXCEPT ![j].step = "done", ![j].outcome = "error"]
           \/ /\ ~(read.mode = "access" /\ read.untag = Unused)
              /\ refres' = Answer(refres.msg, read)
              /\ job' = [job EXCEPT ![j].res = Shared, ![j].step = "msg"]
    /\ UNCHANGED <<switch, db, outages, known>>

RefreshOk(j) ==
    /\ job[j].step = "msg"
    /\ refres' = [refres EXCEPT !.msg = "refresh ok"]
    /\ job' = [job EXCEPT ![j].step = "check"]
    /\ UNCHANGED <<switch, db, outages, known>>

\* The answer as it is at this moment.
Reply(j) == IF job[j].res = Shared THEN refres ELSE job[j].res

DUTPortRefresh(j) ==
    /\ job[j].step = "check"
    /\ job' = [job EXCEPT ![j] =
          CASE Reply(j).msg \in {"login fail", "not switchport"} -> NextPort(@, "failed")
            [] Reply(j).msg = "lag on" -> [@ EXCEPT !.step = "lag"]
            [] OTHER -> [@ EXCEPT !.step = "mode"]]
    /\ UNCHANGED <<switch, db, refres, outages, known>>

-----------------------------------------------------------------------------
(***************************************************************************)
(* update_one_inerface, one field after the other.  A call that fails, or  *)
(* whose answer is lost, returns None, which nobody looks at.              *)
(***************************************************************************)
BugReadsShared(j) == IF job[j].kind \in Refreshes THEN refres ELSE job[j].form
Value(j) == IF job[j].kind \in Refreshes THEN Reply(j) ELSE job[j].form
LagFound(j) == job[j].res # Shared /\ job[j].res.msg = "lag on"

\* The field that is written after this one.
BugTagsForgotten(j) ==
    CASE job[j].step = "mode" -> [job[j] EXCEPT !.step = "untag"]
      [] job[j].step = "untag" -> NextPort(job[j], "ok")
      [] OTHER -> NextPort(job[j], "ok")
AfterField(j) ==
    CASE job[j].step = "mode" -> [job[j] EXCEPT !.step = "untag"]
      [] job[j].step = "untag" -> [job[j] EXCEPT !.step = "tags"]
      [] job[j].step = "tags" /\ job[j].kind \in Refreshes \cup {"init"} -> [job[j] EXCEPT !.step = "lag"]
      [] OTHER -> NextPort(job[j], "ok")

Written(j) ==
    [db[job[j].port] EXCEPT
        !.mode = IF job[j].step = "mode" THEN Value(j).mode ELSE @,
        !.untag = IF job[j].step = "untag" THEN Value(j).untag ELSE @,
        !.tags = IF job[j].step = "tags" THEN Value(j).tags ELSE @,
        !.lag = IF job[j].step = "lag" THEN LagFound(j) ELSE @]

update_one_inerface(j) ==
    /\ job[j].step \in {"mode", "untag", "tags", "lag"}
    /\ \/ /\ NoOutage
          /\ db' = [db EXCEPT ![job[j].port] = Written(j)]
          /\ job' = [job EXCEPT ![j] = AfterField(j)]
       \/ /\ Outage(j)
          /\ job' = [job EXCEPT ![j] = [AfterField(j) EXCEPT !.hit = TRUE]]
          /\ db' \in {db, [db EXCEPT ![job[j].port] = Written(j)]}
    /\ UNCHANGED <<switch, refres, known>>

-----------------------------------------------------------------------------
JobStep(j) ==
    \/ SessionRaises(j) \/ LoginFails(j)
    \/ sw_port_set(j) \/ SWInitial(j)
    \/ sw_port_refresh(j) \/ FillRefres(j) \/ RefreshOk(j) \/ DUTPortRefresh(j)
    \/ update_one_inerface(j)

PortsNext == \E j \in Jobs : Arrive(j) \/ JobStep(j)

PortsSpec == PortsInit /\ [][PortsNext]_portVars

-----------------------------------------------------------------------------
(***************************************************************************)
(* Properties.                                                             *)
(***************************************************************************)
\* Two refreshes of Cisco ports have overlapped: `refres' may hold a mixture.
Mixed == \E i, j \in Jobs : /\ i # j
                            /\ job[i].disturbed /\ job[j].disturbed
                            /\ FillsShared(job[i].kind, job[i].port)
                            /\ FillsShared(job[j].kind, job[j].port)

\* The VLAN that the document shows for a port was on that port at some time
\* or was asked for there: neither the order in which handlers write their
\* fields, nor an outage, nor the dictionary all refreshes share shows the
\* VLAN of another port - unless two refreshes overlap.
DatabaseAccountable ==
    ~Mixed => \A p \in Port : db[p].untag \in known[p]

Stops(j) == InFlight(j) /\ job'[j].step = "done"
Ends(j) == Stops(j) /\ job'[j].outcome = "ok"
Quiet(j) == ~job[j].disturbed /\ ~job'[j].hit

\* A refresh that no handler and no outage interferes with, however it ends,
\* has put into the document what the switch has for every switch port it has
\* been at, whatever races, outages or resets had left there.  Nothing but a
\* trunk that was initialised stops it: there, before the ports that follow,
\* it raises.
RefreshRepairs ==
    [][\A j \in Jobs :
         Stops(j) /\ Quiet(j) /\ job[j].kind \in Refreshes =>
            LET raised == job'[j].outcome = "error"
            IN  /\ raised => FormerTrunk(switch[job[j].port])
                /\ \A p \in PortsOf(job[j].kind, job[j].port) \ Lag :
                     (raised => p < job[j].port) /\ switch[p].mode # "none" =>
                        [mode |-> db'[p].mode, untag |-> db'[p].untag, tags |-> db'[p].tags]
                            = Shown(p)]_portVars

\* A configuration or an initialisation that ends well and undisturbed leaves
\* the same untagged VLAN in the document and on the switch: the dialogues of
\* the two vendors and the fields that are written afterwards agree.  (The
\* initialisation does not touch a port in an aggregation, and no VLAN takes a
\* Dell port that is no switch port.)
Sets(r) ==
    \/ r.kind = "configure" /\ ~(Vendor[r.port] = "dell" /\ switch[r.port].mode = "none")
    \/ r.kind = "init" /\ r.port \notin Lag
SettingsAgree ==
    [][\A j \in Jobs :
         Ends(j) /\ Quiet(j) /\ Sets(job[j]) =>
            db'[job[j].port].untag = switch'[job[j].port].untag]_portVars

\* When the task of a handover has run through undisturbed, the previous
\* user's VLAN is gone from every Cisco port that is in no aggregation; the
\* Dell ports, whose initialisation cannot log in, do not stop it.
TaskResetsCisco ==
    [][\A j \in Jobs :
         Stops(j) /\ Quiet(j) /\ job[j].kind = "init" =>
            \A p \in Port \ Lag : Vendor[p] = "cisco" => switch'[p].untag = Unused]_portVars
=============================================================================
