---------------------------- MODULE AgentRestart ----------------------------
(***************************************************************************)
(* restart_agentd.py: stop whatever serves port 10443, start the service   *)
(* again, verify it.  Several administrators may run it at once, agents    *)
(* may be started by start.sh meanwhile, and the web server (a client of   *)
(* the port on the same machine) holds connections.  The script sees the   *)
(* system only through pgrep and lsof, and what they list may have changed *)
(* when it acts.  Its commands may fail: they cannot be run, or they do    *)
(* not see or may not kill the processes of another user.                  *)
(*                                                                         *)
(* pgrep's pattern "python app.py" matches the agents of start.sh; the     *)
(* command line of an agent the script started has a path before app.py.   *)
(***************************************************************************)
EXTENDS Naturals, FiniteSets

CONSTANTS
    Agents,       \* processes that run app.py
    Clients,      \* processes that connect to the port
    Scripts,      \* runs of the script
    MaxTries,     \* rounds of verify_service_status
    MaxFaults,    \* bound: agents that die by themselves and commands that fail
    NoAgent

ASSUME RestartAssumption ==
    /\ NoAgent \notin Agents
    /\ Agents \cap Clients = {} /\ Scripts \cap (Agents \cup Clients) = {}
    /\ IsFiniteSet(Agents) /\ IsFiniteSet(Scripts)
    /\ Cardinality(Agents) > Cardinality(Scripts)
    /\ MaxTries \in Nat \ {0}
    /\ MaxFaults \in Nat

VARIABLES
    agent,     \* the origin and the state of every agent
    conn,      \* the agent a client is or was connected to: an open socket
    killed,    \* clients the scripts have killed
    script,    \* the local state of every run of the script
    crashes,
    faults

restartVars == <<agent, conn, killed, script, crashes, faults>>

\* A script that asks for the service's health is a client as well.
Connected == Clients \cup Scripts
Processes == Agents \cup Connected
Agent == [origin : {"none", "start.sh", "script"},
          state : {"absent", "starting", "listening", "stopping", "dead"}]
Script == [pc : {"idle", "lsof", "kill", "pgrep", "sigterm", "pkill", "check", "start",
                 "recheck", "popen", "verify", "health", "answer", "done"},
           then : {"none", "pgrep", "check", "recheck"},  \* where release_port returns to
           pids : SUBSET Processes,
           seen : BOOLEAN,                                 \* process_running
           tries : 0..MaxTries,
           result : {"none", "busy", "failed", "unverified", "complete", "raised", "killed"},
           old : SUBSET Agents,       \* history: the agents that listened when it began
           missed : SUBSET Agents,    \* history: those of them that a command of it has missed
           launched : BOOLEAN]

\* The type invariant.
RestartTypeOK ==
    /\ agent \in [Agents -> Agent]
    /\ conn \in [Connected -> Agents \cup {NoAgent}]
    /\ killed \subseteq Clients
    /\ script \in [Scripts -> Script]
    /\ crashes \in 0..MaxFaults
    /\ faults \in 0..MaxFaults

MayFail == crashes + faults < MaxFaults

-----------------------------------------------------------------------------
(***************************************************************************)
(* What the system's commands see.                                         *)
(***************************************************************************)
In(state) == {a \in Agents : agent[a].state = state}
Listening == In("listening")

\* The agents with a socket on the port, and the clients: the socket of a
\* client outlives the agent until the client closes it.
Serving == Listening \cup {a \in In("stopping") : \E c \in Connected : conn[c] = a}
lsof == Serving \cup {c \in Connected : conn[c] # NoAgent}

pgrep == {a \in In("starting") \cup Listening \cup In("stopping") :
             agent[a].origin = "start.sh"}

Dead(a) == [agent[a] EXCEPT !.state = "dead"]

\* SIGKILL to the processes P by the script s, which goes on with the state q.
Killed(s) == [script[s] EXCEPT !.pc = "done", !.result = "killed"]
Kill(P, s, q) ==
    /\ agent' = [a \in Agents |->
                    IF a \in P /\ agent[a].state # "absent"
                    THEN Dead(a) ELSE agent[a]]
    /\ conn' = [c \in Connected |-> IF c \in P THEN NoAgent ELSE conn[c]]
    /\ killed' = killed \cup (P \cap Clients)
    /\ script' = [t \in Scripts |->
                    IF t = s THEN q
                    ELSE IF t \in P /\ script[t].pc # "done" THEN Killed(t) ELSE script[t]]

SIGTERM(P) ==
    agent' = [a \in Agents |->
                IF a \in P /\ agent[a].state \in {"starting", "listening"}
                THEN [agent[a] EXCEPT !.state = "stopping"] ELSE agent[a]]

-----------------------------------------------------------------------------
(***************************************************************************)
(* The agents and the clients.                                             *)
(***************************************************************************)
\* A process that has not been used; which one does not matter.
NewPid == CHOOSE a \in In("absent") : TRUE
Spawn(origin) == agent' = [agent EXCEPT ![NewPid] = [origin |-> origin, state |-> "starting"]]

system == <<conn, killed, script, crashes, faults>>

\* Bound: a process is left for every script that may need one.
start_sh ==
    /\ Cardinality(In("absent")) >
          Cardinality({s \in Scripts : script[s].pc # "done" /\ ~script[s].launched})
    /\ Spawn("start.sh")
    /\ UNCHANGED system

\* uvicorn binds the port, or ends: address already in use.
Bind(a) ==
    /\ agent[a].state = "starting"
    /\ agent' = [agent EXCEPT ![a].state = IF Listening = {} THEN "listening" ELSE "dead"]
    /\ UNCHANGED system

\* The graceful shutdown waits for the connections.
Exit(a) ==
    /\ agent[a].state = "stopping"
    /\ \A c \in Connected : conn[c] # a
    /\ agent' = [agent EXCEPT ![a].state = "dead"]
    /\ UNCHANGED system

Crash(a) ==
    /\ agent[a].state \in {"starting", "listening"}
    /\ MayFail
    /\ crashes' = crashes + 1
    /\ agent' = [agent EXCEPT ![a].state = "dead"]
    /\ UNCHANGED <<conn, killed, script, faults>>

Connect(c) ==
    /\ c \notin killed
    /\ conn[c] = NoAgent
    /\ \E a \in Listening : conn' = [conn EXCEPT ![c] = a]
    /\ UNCHANGED <<agent, killed, script, crashes, faults>>

Close(c) ==
    /\ conn[c] # NoAgent
    /\ conn' = [conn EXCEPT ![c] = NoAgent]
    /\ UNCHANGED <<agent, killed, script, crashes, faults>>

-----------------------------------------------------------------------------
(***************************************************************************)
(* The script.  Variants named Bug... are what the code would be with one  *)
(* mistake in it; no action uses them.                                     *)
(***************************************************************************)
At(s, pc) == script[s].pc = pc
Goto(s, pc) == script' = [script EXCEPT ![s].pc = pc]
Return(s, result) == script' = [script EXCEPT ![s].pc = "done", ![s].result = result]
Looks == UNCHANGED <<agent, conn, killed, crashes>>

\* A command does what it should but for the processes M, which it does not
\* see, may not kill, or does not get to because it cannot be run.
Misses(M) ==
    /\ M # {} => MayFail
    /\ faults' = IF M = {} THEN faults ELSE faults + 1
Missing(s, M) == script[s].missed \cup (M \cap script[s].old)

\* main: release_port first with --force.
main(s, force) ==
    /\ At(s, "idle")
    /\ script' = [script EXCEPT ![s].old = Listening,
                                ![s].pc = IF force THEN "lsof" ELSE "pgrep",
                                ![s].then = IF force THEN "pgrep" ELSE "none"]
    /\ Looks
    /\ UNCHANGED faults

\* release_port: lsof -t, and then a SIGKILL to each; fuser -k, which only
\* reaches the owners of the port, when lsof has found nobody or fails.  What
\* it returns is not looked at.
ListPort(s) ==
    /\ At(s, "lsof")
    /\ \E M \in SUBSET lsof :
          /\ Misses(M)
          /\ script' = [script EXCEPT ![s].pids = lsof \ M,
                                      ![s].missed = Missing(s, M),
                                      ![s].pc = "kill"]
    /\ Looks

Victims(pids) == IF pids = {} THEN Serving ELSE pids

release_port(s) ==
    /\ At(s, "kill")
    /\ \E M \in SUBSET Victims(script[s].pids) :
          /\ Misses(M)
          /\ Kill(Victims(script[s].pids) \ M, s,
                  [script[s] EXCEPT !.pids = {}, !.missed = Missing(s, M), !.pc = script[s].then])
    /\ UNCHANGED crashes

\* stop_service: SIGTERM to the agents pgrep lists, pkill -9 for those that
\* are there after 2 s, release_port.  The loop that waits for the port only
\* takes time: its outcome is logged.
FindAgents(s) ==
    /\ At(s, "pgrep")
    /\ script' = [script EXCEPT ![s].pids = pgrep,
                                ![s].pc = IF pgrep = {} THEN "lsof" ELSE "sigterm",
                                ![s].then = "check"]
    /\ Looks
    /\ UNCHANGED faults

Terminate(s) ==
    /\ At(s, "sigterm")
    /\ \E M \in SUBSET script[s].pids :
          /\ Misses(M)
          /\ SIGTERM(script[s].pids \ M)
    /\ script' = [script EXCEPT ![s].pids = {}, ![s].pc = "pkill"]
    /\ UNCHANGED <<conn, killed, crashes>>

BugNoPkill(s) ==
    /\ At(s, "pkill")
    /\ Goto(s, "lsof")
    /\ Looks
    /\ UNCHANGED faults
ForceStop(s) ==
    /\ At(s, "pkill")
    /\ \E M \in SUBSET pgrep :
          /\ Misses(M)
          /\ Kill(pgrep \ M, s, [script[s] EXCEPT !.missed = Missing(s, M), !.pc = "lsof"])
    /\ UNCHANGED crashes

\* pgrep or pkill cannot be run: stop_service gives up before release_port,
\* and main goes on.
StopRaises(s) ==
    /\ At(s, "pgrep") \/ At(s, "pkill")
    /\ MayFail
    /\ faults' = faults + 1
    /\ script' = [script EXCEPT ![s].missed = Missing(s, Agents \ In("dead")), ![s].pc = "check"]
    /\ Looks

\* is_port_free: a check that fails, or sees nobody, counts as a free port.
is_port_free(M) == lsof \ M = {}
FreeCheck(s, pc, free, busy) ==
    /\ At(s, pc)
    /\ \E M \in {{}, lsof} :
          /\ Misses(M)
          /\ script' = [script EXCEPT ![s] =
                [(IF is_port_free(M) THEN free ELSE busy) EXCEPT !.missed = Missing(s, M)]]
    /\ Looks

Ended(s, result) == [script[s] EXCEPT !.pc = "done", !.result = result]

\* Back in main: is the port free?
CheckStopped(s) == FreeCheck(s, "check", [script[s] EXCEPT !.pc = "start"], Ended(s, "busy"))

\* start_service: the files exist, the port is free or can be made free.
start_service(s) ==
    FreeCheck(s, "start", [script[s] EXCEPT !.pc = "popen"],
                          [script[s] EXCEPT !.pc = "lsof", !.then = "recheck"])

BugRefusalIgnored(s) ==
    FreeCheck(s, "recheck", [script[s] EXCEPT !.pc = "popen"], Ended(s, "complete"))
Recheck(s) ==
    FreeCheck(s, "recheck", [script[s] EXCEPT !.pc = "popen"], Ended(s, "failed"))

\* The service is not started: a file is missing, or the log or Popen raises.
NotStarted(s) ==
    /\ At(s, "start") \/ At(s, "popen")
    /\ Return(s, "failed")
    /\ Looks
    /\ UNCHANGED faults

\* Popen; what pgrep says of the new process 2 s later is only logged, and if
\* that pgrep cannot be run the service counts as not started.  Back in main
\* --no-verify, which nothing before depends on, decides what follows.
Popen(s) ==
    /\ At(s, "popen")
    /\ Spawn("script")
    /\ \/ /\ \E verify \in BOOLEAN :
                script' = [script EXCEPT ![s].launched = TRUE,
                                         ![s].pc = IF verify THEN "verify" ELSE "done",
                                         ![s].result = IF verify THEN "none" ELSE "complete"]
          /\ UNCHANGED faults
       \/ /\ MayFail
          /\ faults' = faults + 1
          /\ script' = [script EXCEPT ![s].launched = TRUE, ![s].pc = "done", ![s].result = "failed"]
    /\ UNCHANGED <<conn, killed, crashes>>

\* verify_service_status: pgrep and then the health endpoint, until both are
\* fine or the time is over (after any number of rounds).  Nothing catches a
\* pgrep that cannot be run.  The status shown at the end is only logged.
BugOneTryMore(s) == script[s].tries <= MaxTries
InTime(s) == script[s].tries < MaxTries

CheckProcess(s) ==
    /\ At(s, "verify")
    /\ InTime(s)
    /\ \/ /\ script' = [script EXCEPT ![s].seen = (pgrep # {}),
                                      ![s].tries = script[s].tries + 1,
                                      ![s].pc = "health"]
          /\ UNCHANGED faults
       \/ /\ MayFail
          /\ faults' = faults + 1
          /\ Return(s, "raised")
    /\ Looks

\* check_health_endpoint: a connection of its own, and the answer.
CheckHealth(s) ==
    /\ At(s, "health")
    /\ \/ /\ \E a \in Listening : conn' = [conn EXCEPT ![s] = a]
          /\ Goto(s, "answer")
       \/ /\ Listening = {}
          /\ Goto(s, "verify")
          /\ UNCHANGED conn
    /\ UNCHANGED <<agent, killed, crashes, faults>>

Healthy(s) == agent[conn[s]].state # "dead"
HealthAnswer(s) ==
    /\ At(s, "answer")
    /\ \/ Healthy(s) /\ script[s].seen /\ Return(s, "complete")
       \/ Goto(s, "verify")
    /\ conn' = [conn EXCEPT ![s] = NoAgent]
    /\ UNCHANGED <<agent, killed, crashes, faults>>

OutOfTime(s) ==
    /\ At(s, "verify")
    /\ script[s].tries > 0
    /\ Return(s, "unverified")
    /\ Looks
    /\ UNCHANGED faults

-----------------------------------------------------------------------------
NoProcess == [origin |-> "none", state |-> "absent"]
NewScript == [pc |-> "idle", then |-> "none", pids |-> {}, seen |-> FALSE,
              tries |-> 0, result |-> "none", old |-> {}, missed |-> {}, launched |-> FALSE]

\* At most one agent is there, of either origin.
RestartInit ==
    /\ LET none == [a \in Agents |-> NoProcess]
           first == CHOOSE a \in Agents : TRUE
       IN agent \in {none} \cup
            {[none EXCEPT ![first] = p] :
                p \in [origin : {"start.sh", "script"}, state : {"starting", "listening"}]}
    /\ conn = [c \in Connected |-> NoAgent]
    /\ killed = {}
    /\ script = [s \in Scripts |-> NewScript]
    /\ crashes = 0
    /\ faults = 0

ScriptStep(s) ==
    \/ ListPort(s) \/ release_port(s)
    \/ FindAgents(s) \/ Terminate(s) \/ ForceStop(s) \/ StopRaises(s)
    \/ CheckStopped(s) \/ start_service(s) \/ Recheck(s) \/ Popen(s) \/ NotStarted(s)
    \/ CheckProcess(s) \/ CheckHealth(s) \/ HealthAnswer(s) \/ OutOfTime(s)

RestartNext ==
    \/ \E s \in Scripts :
          \/ \E force \in BOOLEAN : main(s, force)
          \/ ScriptStep(s)
    \/ start_sh
    \/ \E a \in Agents : Bind(a) \/ Exit(a) \/ Crash(a)
    \/ \E c \in Clients : Connect(c) \/ Close(c)

RestartSpec == RestartInit /\ [][RestartNext]_restartVars

\* The machine goes on running the scripts and the agents; connections may
\* stay open for ever, and nobody has to start an agent.
FairRestartSpec ==
    /\ RestartSpec
    /\ \A s \in Scripts : WF_restartVars(ScriptStep(s))
    /\ \A a \in Agents : WF_restartVars(Bind(a))

-----------------------------------------------------------------------------
(***************************************************************************)
(* Properties.                                                             *)
(***************************************************************************)
\* A restart makes a change of the code take effect: when a script has
\* started its agent, every agent that served when the script began is gone,
\* although pgrep does not know the agents of earlier restarts, lsof's list
\* is old when it is used, and other scripts and start.sh run in between.
\* Only an agent that one of its own commands has missed (did not see, could
\* not kill, or never got to) may still be there: a check that fails counts
\* as a free port, but nothing else lets an old agent slip through.
OldAgentsGone ==
    \A s \in Scripts : script[s].launched =>
        \A a \in script[s].old \ script[s].missed : agent[a].state = "dead"

\* Overlapping restarts end, and do not leave the service down: in the end an
\* agent listens, unless one died by itself or a script has reported that it
\* started none.
Refused == \E s \in Scripts : script[s].result \in {"busy", "failed"}
ServiceReturns ==
    <>[](\/ \A s \in Scripts : At(s, "idle")
         \/ (\A s \in Scripts : script[s].pc \in {"idle", "done"}) /\ Listening # {}
         \/ Refused \/ crashes > 0)
=============================================================================
