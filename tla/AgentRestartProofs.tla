------------------------- MODULE AgentRestartProofs -------------------------
(***************************************************************************)
(* A restart leaves none of the old agents but those its own commands have *)
(* missed, for any number of scripts, agents, clients, crashes and faults. *)
(*                                                                         *)
(* The argument follows a script: after its pkill the old agents of        *)
(* start.sh are dead (or missed); when it then finds the port free no old  *)
(* agent of another restart listens either, and those are never in a       *)
(* graceful shutdown, because only agents that pgrep lists get a SIGTERM.  *)
(* The lists a script works from are old; what makes them harmless is that *)
(* an agent never comes back to life (Moves).                              *)
(***************************************************************************)
EXTENDS AgentRestart, FiniteSetTheorems, TLAPS

Served(p) == p.state \in {"listening", "stopping", "dead"}

\* A script that has found the port free.
Past(q) ==
    \/ q.pc \in {"lsof", "kill"} /\ q.then = "recheck"
    \/ q.pc \in {"start", "recheck", "popen"}
    \/ q.launched

ScriptInv(q) ==
    /\ q.pc \in {"lsof", "kill"} => q.then # "none"
    /\ q.pc \in {"sigterm", "pkill"} => q.then = "check"
    /\ q.launched => q.pc \in {"verify", "health", "answer", "done"}
    /\ \A a \in q.old : Served(agent[a])
    /\ q.pc = "sigterm" =>
         \A a \in q.pids : a \in Agents /\ agent[a].origin = "start.sh" /\ agent[a].state # "absent"
    /\ q.pc = "check" \/ (q.pc \in {"lsof", "kill"} /\ q.then = "check") =>
         \A a \in q.old \ q.missed : agent[a].origin = "start.sh" => agent[a].state = "dead"
    /\ Past(q) => \A a \in q.old \ q.missed : agent[a].state = "dead"

\* Only agents that pgrep lists are in a graceful shutdown.
AgentInv == \A a \in Agents : agent[a].state = "stopping" => agent[a].origin = "start.sh"

\* A process is left for every script that may still start one.
Needing == {s \in Scripts : script[s].pc # "done" /\ ~script[s].launched}
Reserve == Cardinality(In("absent")) >= Cardinality(Needing)

\* The inductive invariant.
RestartInv ==
    /\ RestartTypeOK
    /\ AgentInv
    /\ \A s \in Scripts : ScriptInv(script[s])
    /\ Reserve

-----------------------------------------------------------------------------
(***************************************************************************)
(* Agents.                                                                 *)
(***************************************************************************)
\* A process keeps its origin, and goes towards its end only.
Moves ==
    \A a \in Agents : agent[a].state # "absent" =>
        /\ agent'[a].origin = agent[a].origin /\ agent'[a].state # "absent"
        /\ Served(agent[a]) => Served(agent'[a])
        /\ agent[a].state = "dead" => agent'[a].state = "dead"

LEMMA AgentsMove ==
  ASSUME RestartTypeOK, NEW q \in Script, ScriptInv(q), Moves
  PROVE  ScriptInv(q)'
<1>1. q.old \subseteq Agents
  BY DEF Script
<1>2. \A a \in q.old : /\ Served(agent[a]) /\ Served(agent'[a])
                       /\ agent[a].state # "absent"
                       /\ agent'[a].origin = agent[a].origin
                       /\ agent[a].state = "dead" => agent'[a].state = "dead"
  BY <1>1 DEF ScriptInv, Moves, Served
<1>3. q.pc = "sigterm" =>
         \A a \in q.pids :
            a \in Agents /\ agent'[a].origin = "start.sh" /\ agent'[a].state # "absent"
  BY DEF ScriptInv, Moves
<1> QED
  BY <1>2, <1>3 DEF ScriptInv, Past

LEMMA Stays ==
  ASSUME UNCHANGED agent
  PROVE  Moves
BY DEF Moves

\* A step of the script s to the local state n; it may end other scripts.
Turn(s, n) ==
    /\ script' \in [Scripts -> Script] /\ script'[s] = n
    /\ \A t \in Scripts \ {s} : script'[t] = script[t] \/ script'[t] = Killed(t)

LEMMA KilledInv ==
  ASSUME RestartTypeOK, NEW t \in Scripts
  PROVE  Killed(t) \in Script /\ (ScriptInv(script[t]) => ScriptInv(Killed(t)))
<1> DEFINE q == script[t]
           n == [q EXCEPT !.pc = "done", !.result = "killed"]
<1>1. q \in Script /\ Killed(t) = n
  BY DEF RestartTypeOK, Killed
<1> HIDE DEF q
<1>2. /\ n \in Script /\ n.pc = "done" /\ n.old = q.old /\ n.missed = q.missed
      /\ n.launched = q.launched
  BY <1>1 DEF Script
<1> HIDE DEF n
<1>3. ScriptInv(q) => ScriptInv(n)
  BY <1>1, <1>2 DEF ScriptInv, Past
<1> QED
  BY <1>1, <1>2, <1>3 DEF q

LEMMA OwnTurn ==
  ASSUME RestartTypeOK, NEW s \in Scripts, NEW n \in Script, script' = [script EXCEPT ![s] = n]
  PROVE  Turn(s, n)
BY DEF RestartTypeOK, Turn

\* A SIGKILL.
LEMMA KillMoves ==
  ASSUME RestartTypeOK, AgentInv, NEW P, NEW s \in Scripts, NEW n \in Script, Kill(P, s, n)
  PROVE  /\ agent' \in [Agents -> Agent] /\ conn' \in [Connected -> Agents \cup {NoAgent}]
         /\ killed' \subseteq Clients /\ Turn(s, n)
         /\ Moves /\ AgentInv'
         /\ In("absent")' = In("absent")
         /\ \A a \in Agents : a \in P /\ agent[a].state # "absent" => agent'[a].state = "dead"
<1>0. agent \in [Agents -> Agent]
  BY DEF RestartTypeOK
<1>1. \A a \in Agents : /\ Dead(a) \in Agent /\ Dead(a).state = "dead"
                        /\ Dead(a).origin = agent[a].origin
  BY <1>0 DEF Dead, Agent
<1>2. /\ agent' = [a \in Agents |-> IF a \in P /\ agent[a].state # "absent"
                                    THEN Dead(a) ELSE agent[a]]
      /\ conn' = [c \in Connected |-> IF c \in P THEN NoAgent ELSE conn[c]]
      /\ killed' = killed \cup (P \cap Clients)
      /\ script' = [t \in Scripts |->
                      IF t = s THEN n
                      ELSE IF t \in P /\ script[t].pc # "done" THEN Killed(t) ELSE script[t]]
  BY DEF Kill
<1>3. \A a \in Agents :
         /\ a \in P /\ agent[a].state # "absent" => agent'[a] = Dead(a)
         /\ ~(a \in P /\ agent[a].state # "absent") => agent'[a] = agent[a]
  BY <1>2
<1>4. agent' \in [Agents -> Agent] /\ conn' \in [Connected -> Agents \cup {NoAgent}]
      /\ killed' \subseteq Clients
  BY <1>0, <1>1, <1>2 DEF RestartTypeOK
<1>5. Moves /\ AgentInv'
  BY <1>1, <1>3 DEF Moves, AgentInv, Served
<1>6. In("absent")' = In("absent")
  BY <1>1, <1>3 DEF In
<1>7. Turn(s, n)
  <2>1. \A t \in Scripts : Killed(t) \in Script /\ script[t] \in Script
    BY KilledInv DEF RestartTypeOK
  <2> QED
    BY <1>2, <2>1 DEF Turn
<1> QED
  BY <1>1, <1>3, <1>4, <1>5, <1>6, <1>7

\* A command that fails.
LEMMA FaultsBounded ==
  ASSUME RestartTypeOK, MayFail, faults' = faults + 1
  PROVE  faults' \in 0..MaxFaults
BY RestartAssumption DEF RestartTypeOK, MayFail

LEMMA MissesBounded ==
  ASSUME RestartTypeOK, NEW M, Misses(M)
  PROVE  faults' \in 0..MaxFaults
<1>1. CASE M = {}
  BY <1>1 DEF Misses, RestartTypeOK
<1>2. CASE M # {}
  BY <1>2, FaultsBounded DEF Misses
<1> QED
  BY <1>1, <1>2

LEMMA MissingGrows ==
  ASSUME NEW s \in Scripts, script[s] \in Script, NEW M
  PROVE  /\ Missing(s, M) \subseteq Agents
         /\ script[s].missed \subseteq Missing(s, M)
         /\ M \cap script[s].old \subseteq Missing(s, M)
BY DEF Missing, Script

\* One agent changes its state.
LEMMA OneAgent ==
  ASSUME RestartTypeOK, AgentInv, NEW a \in Agents,
         agent[a].state \in {"starting", "listening", "stopping"},
         NEW x \in {"listening", "dead"},
         agent[a].state # "starting" => x = "dead",
         agent' = [agent EXCEPT ![a].state = x]
  PROVE  /\ agent' \in [Agents -> Agent] /\ Moves /\ AgentInv'
         /\ In("absent")' = In("absent")
<1>0. agent \in [Agents -> Agent]
  BY DEF RestartTypeOK
<1>1. /\ agent' \in [Agents -> Agent]
      /\ agent'[a].state = x /\ agent'[a].origin = agent[a].origin
      /\ \A b \in Agents \ {a} : agent'[b] = agent[b]
  BY <1>0 DEF Agent
<1>2. Moves /\ AgentInv'
  BY <1>1 DEF Moves, AgentInv, Served
<1>3. In("absent")' = In("absent")
  BY <1>1 DEF In
<1> QED
  BY <1>1, <1>2, <1>3

\* A new process is one that has not been used.
LEMMA SpawnMoves ==
  ASSUME RestartTypeOK, AgentInv, NEW o \in {"start.sh", "script"}, Spawn(o),
         Cardinality(In("absent")) > 0
  PROVE  /\ agent' \in [Agents -> Agent] /\ Moves /\ AgentInv'
         /\ Cardinality(In("absent")') = Cardinality(In("absent")) - 1
<1>0. agent \in [Agents -> Agent] /\ In("absent") \subseteq Agents
  BY DEF RestartTypeOK, In
<1>1. In("absent") # {}
  BY FS_EmptySet
<1>2. NewPid \in In("absent")
  BY <1>1 DEF NewPid
<1>3. PICK a \in Agents : a = NewPid /\ a \in In("absent") /\ agent[a].state = "absent"
  BY <1>0, <1>2 DEF In
<1> DEFINE p == [origin |-> o, state |-> "starting"]
<1>4. p \in Agent /\ p.state = "starting"
  BY DEF Agent
<1>5. agent' = [agent EXCEPT ![a] = p]
  BY <1>3 DEF Spawn
<1> HIDE DEF p
<1>6. /\ agent' \in [Agents -> Agent] /\ agent'[a] = p
      /\ \A b \in Agents \ {a} : agent'[b] = agent[b]
  BY <1>0, <1>4, <1>5
<1>7. Moves /\ AgentInv'
  BY <1>3, <1>4, <1>6 DEF Moves, AgentInv
<1>8. In("absent")' = In("absent") \ {a}
  BY <1>4, <1>6 DEF In
<1>9. IsFiniteSet(In("absent"))
  BY <1>0, RestartAssumption, FS_Subset
<1>10. Cardinality(In("absent") \ {a}) = Cardinality(In("absent")) - 1
  BY <1>3, <1>9, FS_RemoveElement
<1> QED
  BY <1>6, <1>7, <1>8, <1>10

LEMMA NeedingType ==
  /\ IsFiniteSet(Needing) /\ Cardinality(Needing) \in Nat
  /\ IsFiniteSet(In("absent")) /\ Cardinality(In("absent")) \in Nat
<1>1. Needing \subseteq Scripts /\ In("absent") \subseteq Agents
  BY DEF Needing, In
<1> QED
  BY <1>1, RestartAssumption, FS_Subset, FS_CardinalityType

\* Steps of agents and clients.
LEMMA SystemKeeps ==
  ASSUME RestartInv, UNCHANGED script, agent' \in [Agents -> Agent],
         conn' \in [Connected -> Agents \cup {NoAgent}], UNCHANGED killed,
         crashes' \in 0..MaxFaults, faults' \in 0..MaxFaults, Moves, AgentInv',
         Cardinality(In("absent")') >= Cardinality(Needing)
  PROVE  RestartInv'
<1>1. RestartTypeOK'
  BY DEF RestartInv, RestartTypeOK
<1>2. \A s \in Scripts : ScriptInv(script[s])'
  <2> SUFFICES ASSUME NEW s \in Scripts PROVE ScriptInv(script[s])'
    OBVIOUS
  <2>1. PICK q \in Script : q = script[s] /\ q = script'[s]
    BY DEF RestartInv, RestartTypeOK
  <2>2. ScriptInv(q)'
    BY <2>1, AgentsMove DEF RestartInv
  <2> QED
    BY <2>1, <2>2 DEF ScriptInv, Past
<1>3. Reserve'
  BY DEF Reserve, Needing
<1> QED
  BY <1>1, <1>2, <1>3 DEF RestartInv

LEMMA InvTypes ==
  ASSUME RestartInv, NEW s \in Scripts
  PROVE  /\ RestartTypeOK /\ AgentInv /\ Reserve
         /\ script[s] \in Script /\ ScriptInv(script[s])
         /\ agent \in [Agents -> Agent] /\ conn \in [Connected -> Agents \cup {NoAgent}]
         /\ killed \subseteq Clients
BY DEF RestartInv, RestartTypeOK

\* A step of the script s, which ends in the local state n.
LEMMA ScriptKeeps ==
  ASSUME RestartInv, NEW s \in Scripts, NEW n \in Script, Turn(s, n),
         agent' \in [Agents -> Agent], conn' \in [Connected -> Agents \cup {NoAgent}],
         killed' \subseteq Clients, UNCHANGED crashes, faults' \in 0..MaxFaults,
         Moves, AgentInv', ScriptInv(n)',
         Cardinality(In("absent")') >= Cardinality(Needing')
  PROVE  RestartInv'
<1>1. RestartTypeOK'
  BY DEF RestartInv, RestartTypeOK, Turn
<1>2. \A t \in Scripts : ScriptInv(script[t])'
  <2> SUFFICES ASSUME NEW t \in Scripts PROVE ScriptInv(script[t])'
    OBVIOUS
  <2>1. PICK q \in Script : q = script'[t]
    BY DEF Turn
  <2>2. ScriptInv(q)'
    <3>1. CASE t = s
      BY <3>1, <2>1 DEF Turn
    <3>2. CASE t # s
      <4>1. q = script[t] \/ q = Killed(t)
        BY <3>2, <2>1 DEF Turn
      <4>2. ScriptInv(q)
        BY <4>1, KilledInv DEF RestartInv
      <4> QED
        BY <4>2, AgentsMove DEF RestartInv
    <3> QED
      BY <3>1, <3>2
  <2> QED
    BY <2>1, <2>2 DEF ScriptInv, Past
<1>3. Reserve'
  BY DEF Reserve
<1> QED
  BY <1>1, <1>2, <1>3 DEF RestartInv

\* No other script becomes one that needs a process.
LEMMA NeedsNoMore ==
  ASSUME RestartInv, NEW s \in Scripts, NEW n \in Script, Turn(s, n),
         n.launched = script[s].launched, script[s].pc # "done",
         In("absent")' = In("absent")
  PROVE  Cardinality(In("absent")') >= Cardinality(Needing')
<1>0. \A t \in Scripts : Killed(t).pc = "done"
  BY DEF RestartInv, RestartTypeOK, Killed, Script
<1>1. \A t \in Scripts \ {s} : script'[t].pc = "done" \/ script'[t] = script[t]
  BY <1>0 DEF Turn
<1>2. Needing' \subseteq Needing
  BY <1>1 DEF Needing, Turn
<1>3. /\ Cardinality(Needing') \in Nat /\ Cardinality(Needing) \in Nat
      /\ Cardinality(In("absent")) \in Nat
      /\ Cardinality(Needing') <= Cardinality(Needing)
  BY <1>2, NeedingType, FS_Subset, FS_CardinalityType
<1>4. Cardinality(In("absent")) >= Cardinality(Needing)
  BY DEF RestartInv, Reserve
<1> QED
  BY <1>3, <1>4

\* The steps of a script that leave the agents alone.
LEMMA QuietKeeps ==
  ASSUME RestartInv, NEW s \in Scripts, NEW n \in Script,
         script' = [script EXCEPT ![s] = n], UNCHANGED <<agent, killed, crashes>>,
         conn' \in [Connected -> Agents \cup {NoAgent}], faults' \in 0..MaxFaults,
         ScriptInv(n), n.launched = script[s].launched, script[s].pc # "done"
  PROVE  RestartInv'
<1>0. Turn(s, n) /\ RestartTypeOK
  BY OwnTurn DEF RestartInv
<1>1. Moves /\ ScriptInv(n)'
  BY <1>0, Stays, AgentsMove
<1>2. In("absent")' = In("absent") /\ AgentInv'
  BY DEF In, RestartInv, AgentInv
<1>3. agent' \in [Agents -> Agent] /\ killed' \subseteq Clients /\ UNCHANGED crashes
  BY <1>0 DEF RestartTypeOK
<1>4. Cardinality(In("absent")') >= Cardinality(Needing')
  BY <1>0, <1>2, NeedsNoMore
<1> QED
  BY <1>0, <1>1, <1>2, <1>3, <1>4, ScriptKeeps

LEMMA LooksKeeps ==
  ASSUME RestartInv, NEW s \in Scripts, NEW n \in Script,
         script' = [script EXCEPT ![s] = n], Looks, faults' \in 0..MaxFaults, ScriptInv(n),
         n.launched = script[s].launched, script[s].pc # "done"
  PROVE  RestartInv'
<1>1. UNCHANGED <<agent, killed, crashes>> /\ conn' \in [Connected -> Agents \cup {NoAgent}]
  BY DEF Looks, RestartInv, RestartTypeOK
<1> QED
  BY <1>1, QuietKeeps

LEMMA GotoShape ==
  ASSUME RestartTypeOK, NEW s \in Scripts, NEW x, Goto(s, x)
  PROVE  script' = [script EXCEPT ![s] = [script[s] EXCEPT !.pc = x]]
BY DEF Goto, RestartTypeOK

LEMMA ReturnShape ==
  ASSUME RestartTypeOK, NEW s \in Scripts, NEW r, Return(s, r)
  PROVE  script' = [script EXCEPT ![s] = [script[s] EXCEPT !.pc = "done", !.result = r]]
BY DEF Return, RestartTypeOK

\* A script may end at any time.
LEMMA EndedInv ==
  ASSUME RestartTypeOK, NEW s \in Scripts, ScriptInv(script[s]),
         NEW r \in {"busy", "failed", "unverified", "complete", "raised"}
  PROVE  /\ Ended(s, r) \in Script /\ ScriptInv(Ended(s, r)) /\ Ended(s, r).pc = "done"
         /\ Ended(s, r).launched = script[s].launched /\ Ended(s, r).old = script[s].old
         /\ Ended(s, r).missed = script[s].missed
<1> DEFINE q == script[s]
           n == [q EXCEPT !.pc = "done", !.result = r]
<1>1. q \in Script /\ Ended(s, r) = n
  BY DEF RestartTypeOK, Ended
<1> HIDE DEF q
<1>2. /\ n \in Script /\ n.pc = "done" /\ n.old = q.old /\ n.missed = q.missed
      /\ n.launched = q.launched
  BY <1>1 DEF Script
<1> HIDE DEF n
<1>3. ScriptInv(q) => ScriptInv(n)
  BY <1>1, <1>2 DEF ScriptInv, Past
<1> QED
  BY <1>1, <1>2, <1>3 DEF q

LEMMA ReturnQuietKeeps ==
  ASSUME RestartInv, NEW s \in Scripts, script[s].pc # "done",
         UNCHANGED <<agent, killed, crashes>>,
         conn' \in [Connected -> Agents \cup {NoAgent}], faults' \in 0..MaxFaults,
         NEW r \in {"busy", "failed", "unverified", "complete", "raised"}, Return(s, r)
  PROVE  RestartInv'
<1>1. RestartTypeOK /\ ScriptInv(script[s])
  BY InvTypes
<1>2. script' = [script EXCEPT ![s] = Ended(s, r)]
  BY <1>1, ReturnShape DEF Ended
<1> QED
  BY <1>1, <1>2, EndedInv, QuietKeeps

LEMMA ReturnKeeps ==
  ASSUME RestartInv, NEW s \in Scripts, script[s].pc # "done", Looks, faults' \in 0..MaxFaults,
         NEW r \in {"busy", "failed", "unverified", "complete", "raised"}, Return(s, r)
  PROVE  RestartInv'
<1>1. UNCHANGED <<agent, killed, crashes>> /\ conn' \in [Connected -> Agents \cup {NoAgent}]
  BY DEF Looks, RestartInv, RestartTypeOK
<1> QED
  BY <1>1, ReturnQuietKeeps

\* A script that waits for the health of the service.
LEMMA GotoKeeps ==
  ASSUME RestartInv, NEW s \in Scripts, script[s].pc \in {"health", "answer"},
         UNCHANGED <<agent, killed, crashes, faults>>,
         conn' \in [Connected -> Agents \cup {NoAgent}],
         NEW x \in {"verify", "answer"}, Goto(s, x)
  PROVE  RestartInv'
<1> DEFINE q == script[s]
           n == [q EXCEPT !.pc = x]
<1>1. q \in Script /\ ScriptInv(q) /\ RestartTypeOK /\ faults' \in 0..MaxFaults
  BY InvTypes DEF RestartTypeOK
<1>2. script' = [script EXCEPT ![s] = n] /\ q.pc # "done"
  BY <1>1, GotoShape
<1> HIDE DEF q
<1>3. /\ n \in Script /\ n.pc = x /\ n.old = q.old /\ n.missed = q.missed
      /\ n.launched = q.launched /\ n.pids = q.pids
  BY <1>1 DEF Script
<1> HIDE DEF n
<1>4. ScriptInv(n)
  BY <1>1, <1>3 DEF ScriptInv, Past
<1> QED
  BY <1>1, <1>2, <1>3, <1>4, QuietKeeps DEF q

-----------------------------------------------------------------------------
(***************************************************************************)
(* The steps, one by one.                                                  *)
(***************************************************************************)
LEMMA MainKeeps ==
  ASSUME RestartInv, NEW s \in Scripts, NEW force \in BOOLEAN, main(s, force)
  PROVE  RestartInv'
<1> DEFINE q == script[s]
           n == [q EXCEPT !.old = Listening,
                          !.pc = IF force THEN "lsof" ELSE "pgrep",
                          !.then = IF force THEN "pgrep" ELSE "none"]
<1>1. q \in Script /\ ScriptInv(q) /\ RestartTypeOK
  BY InvTypes
<1>2. /\ script' = [script EXCEPT ![s] = n] /\ Looks /\ q.pc = "idle"
      /\ faults' \in 0..MaxFaults
  BY <1>1 DEF main, At, RestartTypeOK
<1>3. Listening \subseteq Agents /\ \A a \in Listening : agent[a].state = "listening"
  BY DEF Listening, In
<1> HIDE DEF q
<1>4. /\ n \in Script /\ n.old = Listening /\ n.launched = q.launched
      /\ n.pids = q.pids
      /\ \/ n.pc = "lsof" /\ n.then = "pgrep"
         \/ n.pc = "pgrep" /\ n.then = "none"
  BY <1>1, <1>3 DEF Script
<1> HIDE DEF n
<1>5. ~q.launched
  BY <1>1, <1>2 DEF ScriptInv
<1>6. ScriptInv(n)
  BY <1>3, <1>4, <1>5 DEF ScriptInv, Past, Served
<1> QED
  BY <1>2, <1>4, <1>6, LooksKeeps DEF q

LEMMA ListPortKeeps ==
  ASSUME RestartInv, NEW s \in Scripts, ListPort(s)
  PROVE  RestartInv'
<1>1. PICK M \in SUBSET lsof :
         /\ Misses(M)
         /\ script' = [script EXCEPT ![s].pids = lsof \ M, ![s].missed = Missing(s, M),
                                     ![s].pc = "kill"]
  BY DEF ListPort
<1> DEFINE q == script[s]
           W == Missing(s, M)
           n == [q EXCEPT !.pids = lsof \ M, !.missed = W, !.pc = "kill"]
<1>2. q \in Script /\ ScriptInv(q) /\ RestartTypeOK
  BY InvTypes
<1>3. script' = [script EXCEPT ![s] = n] /\ Looks /\ q.pc = "lsof"
  BY <1>1, <1>2 DEF ListPort, At, RestartTypeOK
<1>4. lsof \subseteq Processes
  BY DEF lsof, Serving, Listening, In, Processes
<1>5. W \subseteq Agents /\ q.missed \subseteq W /\ faults' \in 0..MaxFaults
  BY <1>1, <1>2, MissingGrows, MissesBounded
<1> HIDE DEF q, W
<1>6. /\ n \in Script /\ n.old = q.old /\ n.missed = W /\ n.launched = q.launched
      /\ n.pc = "kill" /\ n.then = q.then
  BY <1>2, <1>4, <1>5 DEF Script
<1> HIDE DEF n
<1>7. ScriptInv(n)
  BY <1>2, <1>3, <1>5, <1>6 DEF ScriptInv, Past
<1> QED
  BY <1>3, <1>5, <1>6, <1>7, LooksKeeps DEF q

\* The list is old when it is used: it kills what is still there, and what
\* was dead stays dead.
LEMMA ReleaseKeeps ==
  ASSUME RestartInv, NEW s \in Scripts, release_port(s)
  PROVE  RestartInv'
<1>1. RestartTypeOK /\ AgentInv /\ script[s] \in Script
  BY InvTypes
<1>2. PICK M \in SUBSET Victims(script[s].pids) :
         /\ Misses(M)
         /\ Kill(Victims(script[s].pids) \ M, s,
                 [script[s] EXCEPT !.pids = {}, !.missed = Missing(s, M), !.pc = script[s].then])
  BY DEF release_port
<1>3. PICK q \in Script : q = script[s] /\ ScriptInv(q)
  BY InvTypes
<1>4. PICK W \in SUBSET Agents : W = Missing(s, M) /\ q.missed \subseteq W
  BY <1>1, <1>3, MissingGrows
<1> DEFINE m == [q EXCEPT !.pids = {}, !.missed = W, !.pc = q.then]
<1>5. q.pc = "kill" /\ q.then # "none" /\ UNCHANGED crashes /\ faults' \in 0..MaxFaults
  BY <1>1, <1>2, <1>3, MissesBounded DEF release_port, At, ScriptInv
<1>6. /\ m \in Script /\ m.old = q.old /\ m.missed = W /\ m.launched = q.launched
      /\ m.pc = q.then /\ m.then = q.then /\ m.pids = {}
  BY <1>5 DEF Script
<1>7. Kill(Victims(script[s].pids) \ M, s, m)
  BY <1>2, <1>3, <1>4
<1> HIDE DEF m
<1>8. PICK n \in Script : n = m
  BY <1>6
<1>9. /\ agent' \in [Agents -> Agent] /\ conn' \in [Connected -> Agents \cup {NoAgent}]
      /\ killed' \subseteq Clients /\ Turn(s, n)
      /\ Moves /\ AgentInv' /\ In("absent")' = In("absent")
  BY <1>1, <1>7, <1>8, KillMoves
<1>10. q.then \in {"pgrep", "check", "recheck"}
  BY <1>5 DEF Script
<1>11. ScriptInv(n)
  BY <1>3, <1>4, <1>5, <1>6, <1>8, <1>10 DEF ScriptInv, Past
<1>12. ScriptInv(n)'
  BY <1>1, <1>9, <1>11, AgentsMove
<1>13. Cardinality(In("absent")') >= Cardinality(Needing')
  BY <1>3, <1>5, <1>6, <1>8, <1>9, NeedsNoMore
<1> QED
  BY <1>5, <1>9, <1>12, <1>13, ScriptKeeps

LEMMA FindAgentsKeeps ==
  ASSUME RestartInv, NEW s \in Scripts, FindAgents(s)
  PROVE  RestartInv'
<1> DEFINE q == script[s]
           n == [q EXCEPT !.pids = pgrep, !.pc = IF pgrep = {} THEN "lsof" ELSE "sigterm",
                          !.then = "check"]
<1>1. q \in Script /\ ScriptInv(q) /\ RestartTypeOK
  BY InvTypes
<1>2. /\ script' = [script EXCEPT ![s] = n] /\ Looks /\ q.pc = "pgrep"
      /\ faults' \in 0..MaxFaults
  BY <1>1 DEF FindAgents, At, RestartTypeOK
<1>3. /\ pgrep \subseteq Processes
      /\ \A a \in pgrep :
            a \in Agents /\ agent[a].origin = "start.sh" /\ agent[a].state # "absent"
  BY DEF pgrep, Listening, In, Processes
<1>4. pgrep = {} =>
         \A a \in Agents : Served(agent[a]) /\ agent[a].origin = "start.sh"
                             => agent[a].state = "dead"
  BY DEF pgrep, Listening, In, Served
<1> HIDE DEF q
<1>5. /\ n \in Script /\ n.old = q.old /\ n.missed = q.missed /\ n.launched = q.launched /\ n.pids = pgrep
      /\ n.then = "check"
      /\ \/ n.pc = "lsof" /\ pgrep = {}
         \/ n.pc = "sigterm"
  BY <1>1, <1>3 DEF Script
<1> HIDE DEF n
<1>6. ~n.launched /\ n.old \subseteq Agents /\ \A a \in n.old : Served(agent[a])
  BY <1>1, <1>2, <1>5 DEF ScriptInv, Script
<1>7. ScriptInv(n)
  BY <1>3, <1>4, <1>5, <1>6 DEF ScriptInv, Past
<1> QED
  BY <1>2, <1>5, <1>7, LooksKeeps DEF q

LEMMA TerminateKeeps ==
  ASSUME RestartInv, NEW s \in Scripts, Terminate(s)
  PROVE  RestartInv'
<1>1. RestartTypeOK /\ AgentInv /\ agent \in [Agents -> Agent]
  BY InvTypes
<1>2. PICK q \in Script : q = script[s] /\ ScriptInv(q)
  BY InvTypes
<1>0. PICK M \in SUBSET script[s].pids : Misses(M) /\ SIGTERM(script[s].pids \ M)
  BY DEF Terminate
<1> DEFINE m == [q EXCEPT !.pids = {}, !.pc = "pkill"]
           T(a) == [agent[a] EXCEPT !.state = "stopping"]
<1>3. /\ script' = [script EXCEPT ![s] = m] /\ q.pc = "sigterm"
      /\ agent' = [a \in Agents |->
                     IF a \in q.pids \ M /\ agent[a].state \in {"starting", "listening"}
                     THEN T(a) ELSE agent[a]]
      /\ UNCHANGED <<conn, killed, crashes>> /\ faults' \in 0..MaxFaults
  BY <1>0, <1>1, <1>2, MissesBounded DEF Terminate, SIGTERM, At, RestartTypeOK
<1>4. \A a \in Agents : /\ T(a) \in Agent /\ T(a).state = "stopping"
                        /\ T(a).origin = agent[a].origin
  BY <1>1 DEF Agent
<1>5. m \in Script /\ m.old = q.old /\ m.missed = q.missed /\ m.launched = q.launched
      /\ m.pc = "pkill" /\ m.then = q.then
  BY DEF Script
<1> HIDE DEF m, T
<1>6. agent' \in [Agents -> Agent]
  BY <1>1, <1>3, <1>4
<1>7. \A a \in Agents :
         \/ agent'[a] = T(a) /\ a \in q.pids /\ agent[a].state \in {"starting", "listening"}
         \/ agent'[a] = agent[a]
  BY <1>3
<1>8. q.then = "check" /\ ~q.launched /\ \A a \in q.pids : agent[a].origin = "start.sh"
  BY <1>2, <1>3 DEF ScriptInv
<1>9. Moves /\ AgentInv'
  BY <1>1, <1>4, <1>7, <1>8 DEF Moves, Served, AgentInv
<1>10. In("absent")' = In("absent")
  BY <1>4, <1>7 DEF In
<1>11. PICK n \in Script : n = m
  BY <1>5
<1>12. ScriptInv(n)
  BY <1>2, <1>5, <1>8, <1>11 DEF ScriptInv, Past
<1>13. ScriptInv(n)'
  BY <1>1, <1>9, <1>12, AgentsMove
<1>16. Turn(s, n)
  BY <1>1, <1>3, <1>11, OwnTurn
<1>14. Cardinality(In("absent")') >= Cardinality(Needing')
  BY <1>2, <1>3, <1>5, <1>10, <1>11, <1>16, NeedsNoMore
<1>15. conn' \in [Connected -> Agents \cup {NoAgent}] /\ killed' \subseteq Clients
  BY <1>1, <1>3 DEF RestartTypeOK
<1> QED
  BY <1>3, <1>6, <1>9, <1>13, <1>14, <1>15, <1>16, ScriptKeeps

\* The pkill is what ends the old agents of start.sh, gracefully stopping or
\* not.
LEMMA ForceStopKeeps ==
  ASSUME RestartInv, NEW s \in Scripts, ForceStop(s)
  PROVE  RestartInv'
<1>1. RestartTypeOK /\ AgentInv /\ script[s] \in Script
  BY InvTypes
<1>2. PICK M \in SUBSET pgrep :
         /\ Misses(M)
         /\ Kill(pgrep \ M, s, [script[s] EXCEPT !.missed = Missing(s, M), !.pc = "lsof"])
  BY DEF ForceStop
<1>3. PICK q \in Script : q = script[s] /\ ScriptInv(q)
  BY InvTypes
<1>4. PICK W \in SUBSET Agents :
         W = Missing(s, M) /\ q.missed \subseteq W /\ M \cap q.old \subseteq W
  BY <1>1, <1>3, MissingGrows
<1> DEFINE m == [q EXCEPT !.missed = W, !.pc = "lsof"]
<1>5. q.pc = "pkill" /\ UNCHANGED crashes /\ faults' \in 0..MaxFaults
  BY <1>1, <1>2, <1>3, MissesBounded DEF ForceStop, At
<1>6. /\ m \in Script /\ m.old = q.old /\ m.missed = W /\ m.launched = q.launched
      /\ m.pc = "lsof" /\ m.then = q.then
  BY DEF Script
<1>7. Kill(pgrep \ M, s, m)
  BY <1>2, <1>3, <1>4
<1> HIDE DEF m
<1>8. PICK n \in Script : n = m
  BY <1>6
<1>9. /\ agent' \in [Agents -> Agent] /\ conn' \in [Connected -> Agents \cup {NoAgent}]
      /\ killed' \subseteq Clients /\ Turn(s, n)
      /\ Moves /\ AgentInv' /\ In("absent")' = In("absent")
      /\ \A a \in Agents : a \in pgrep \ M /\ agent[a].state # "absent"
                             => agent'[a].state = "dead"
  BY <1>1, <1>7, <1>8, KillMoves
<1>10. q.then = "check" /\ ~q.launched
  BY <1>3, <1>5 DEF ScriptInv
<1>11. q.old \subseteq Agents /\ ScriptInv(q)'
  BY <1>1, <1>3, <1>9, AgentsMove DEF Script
<1>12. \A a \in q.old \ W : agent'[a].origin = "start.sh" => agent'[a].state = "dead"
  <2> SUFFICES ASSUME NEW a \in q.old \ W, agent'[a].origin = "start.sh"
               PROVE  agent'[a].state = "dead"
    OBVIOUS
  <2>1. a \in Agents /\ Served(agent[a]) /\ agent[a].state # "absent"
    BY <1>3, <1>11 DEF ScriptInv, Served
  <2>2. agent[a].origin = "start.sh"
    BY <1>9, <2>1 DEF Moves
  <2>3. CASE agent[a].state = "dead"
    BY <2>1, <2>3, <1>9 DEF Moves
  <2>4. CASE agent[a].state # "dead"
    <3>1. a \in pgrep \ M
      BY <1>4, <2>1, <2>2, <2>4 DEF pgrep, Listening, In, Served
    <3> QED
      BY <3>1, <2>1, <1>9
  <2> QED
    BY <2>3, <2>4
<1>13. ScriptInv(n)'
  BY <1>6, <1>8, <1>10, <1>11, <1>12 DEF ScriptInv, Past
<1>14. Cardinality(In("absent")') >= Cardinality(Needing')
  BY <1>3, <1>5, <1>6, <1>8, <1>9, NeedsNoMore
<1> QED
  BY <1>5, <1>9, <1>13, <1>14, ScriptKeeps

\* A stop that fails has missed every old agent that is not dead.
LEMMA StopRaisesKeeps ==
  ASSUME RestartInv, NEW s \in Scripts, StopRaises(s)
  PROVE  RestartInv'
<1> DEFINE q == script[s]
           W == Missing(s, Agents \ In("dead"))
           n == [q EXCEPT !.missed = W, !.pc = "check"]
<1>1. q \in Script /\ ScriptInv(q) /\ RestartTypeOK
  BY InvTypes
<1>2. /\ script' = [script EXCEPT ![s] = n] /\ Looks /\ q.pc \in {"pgrep", "pkill"}
      /\ MayFail /\ faults' = faults + 1
  BY <1>1 DEF StopRaises, At, RestartTypeOK
<1>3. W \subseteq Agents /\ (Agents \ In("dead")) \cap q.old \subseteq W
  BY <1>1, MissingGrows
<1>4. faults' \in 0..MaxFaults
  BY <1>1, <1>2, FaultsBounded
<1> HIDE DEF q, W
<1>5. /\ n \in Script /\ n.old = q.old /\ n.missed = W /\ n.launched = q.launched
      /\ n.pc = "check"
  BY <1>1, <1>3 DEF Script
<1> HIDE DEF n
<1>6. \A a \in q.old \ W : agent[a].state = "dead"
  BY <1>1, <1>3 DEF In, Script
<1>7. ~q.launched
  BY <1>1, <1>2 DEF ScriptInv
<1>8. ScriptInv(n)
  BY <1>1, <1>5, <1>6, <1>7 DEF ScriptInv, Past
<1> QED
  BY <1>2, <1>4, <1>5, <1>8, LooksKeeps DEF q

\* What a script that has asked whether the port is free goes on with.
LEMMA FreeShape ==
  ASSUME RestartInv, NEW s \in Scripts, NEW pc, NEW free \in Script, NEW busy \in Script,
         FreeCheck(s, pc, free, busy)
  PROVE  \E M \in SUBSET lsof : \E W \in SUBSET Agents : \E n \in Script :
            /\ script' = [script EXCEPT ![s] = n] /\ Looks /\ script[s].pc = pc
            /\ faults' \in 0..MaxFaults
            /\ script[s].missed \subseteq W /\ M \cap script[s].old \subseteq W
            /\ \/ lsof \subseteq M /\ n = [free EXCEPT !.missed = W]
               \/ n = [busy EXCEPT !.missed = W]
<1>1. script[s] \in Script /\ RestartTypeOK
  BY InvTypes
<1>2. PICK M \in {{}, lsof} :
         /\ Misses(M)
         /\ script' = [script EXCEPT ![s] =
               [(IF is_port_free(M) THEN free ELSE busy) EXCEPT !.missed = Missing(s, M)]]
  BY DEF FreeCheck
<1>3. PICK W \in SUBSET Agents :
         /\ W = Missing(s, M)
         /\ script[s].missed \subseteq W /\ M \cap script[s].old \subseteq W
  BY <1>1, MissingGrows
<1>4. faults' \in 0..MaxFaults /\ Looks /\ script[s].pc = pc /\ M \in SUBSET lsof
  BY <1>1, <1>2, MissesBounded DEF FreeCheck, At
<1>5. \A q \in Script : [q EXCEPT !.missed = W] \in Script
  BY DEF Script
<1>6. CASE is_port_free(M)
  <2>1. PICK n \in Script : n = [free EXCEPT !.missed = W]
    BY <1>5
  <2>2. script' = [script EXCEPT ![s] = n] /\ lsof \subseteq M
    BY <1>2, <1>3, <1>6, <2>1 DEF is_port_free
  <2> QED
    BY <1>3, <1>4, <2>1, <2>2
<1>7. CASE ~is_port_free(M)
  <2>1. PICK n \in Script : n = [busy EXCEPT !.missed = W]
    BY <1>5
  <2>2. script' = [script EXCEPT ![s] = n]
    BY <1>2, <1>3, <1>7, <2>1
  <2> QED
    BY <1>3, <1>4, <2>1, <2>2
<1> QED
  BY <1>6, <1>7

\* A script that stays past its check, and one that ends.
LEMMA PastInv ==
  ASSUME RestartTypeOK, NEW s \in Scripts, ScriptInv(script[s]), ~script[s].launched,
         NEW W \in SUBSET Agents, NEW n \in Script, n.old = script[s].old, n.missed = W,
         n.launched = script[s].launched, script[s].missed \subseteq W,
         \/ /\ n.pc \in {"start", "popen"} \/ (n.pc = "lsof" /\ n.then = "recheck")
            /\ \A a \in script[s].old \ W : agent[a].state = "dead"
         \/ n.pc = "done"
  PROVE  ScriptInv(n)
BY DEF ScriptInv, Past

\* A free port: the old agents of start.sh are dead already, and the others
\* are never in a graceful shutdown.
LEMMA CheckStoppedKeeps ==
  ASSUME RestartInv, NEW s \in Scripts, CheckStopped(s)
  PROVE  RestartInv'
<1> DEFINE q == script[s]
           f == [q EXCEPT !.pc = "start"]
           e == [q EXCEPT !.pc = "done", !.result = "busy"]
<1>1. q \in Script /\ ScriptInv(q) /\ AgentInv /\ RestartTypeOK
  BY InvTypes
<1>2. FreeCheck(s, "check", f, e)
  BY DEF CheckStopped, Ended
<1> HIDE DEF q
<1>3. f \in Script /\ e \in Script
  BY <1>1 DEF Script
<1>4. PICK M \in SUBSET lsof : \E W \in SUBSET Agents : \E n \in Script :
            /\ script' = [script EXCEPT ![s] = n] /\ Looks /\ script[s].pc = "check"
            /\ faults' \in 0..MaxFaults
            /\ script[s].missed \subseteq W /\ M \cap script[s].old \subseteq W
            /\ \/ lsof \subseteq M /\ n = [f EXCEPT !.missed = W]
               \/ n = [e EXCEPT !.missed = W]
  BY <1>2, <1>3, FreeShape
<1>5. PICK W \in SUBSET Agents : \E n \in Script :
            /\ script' = [script EXCEPT ![s] = n] /\ Looks /\ q.pc = "check"
            /\ faults' \in 0..MaxFaults
            /\ q.missed \subseteq W /\ M \cap q.old \subseteq W
            /\ \/ lsof \subseteq M /\ n = [f EXCEPT !.missed = W]
               \/ n = [e EXCEPT !.missed = W]
  BY <1>4 DEF q
<1>6. PICK n \in Script :
            /\ script' = [script EXCEPT ![s] = n] /\ Looks /\ q.pc = "check"
            /\ faults' \in 0..MaxFaults
            /\ q.missed \subseteq W /\ M \cap q.old \subseteq W
            /\ \/ lsof \subseteq M /\ n = [f EXCEPT !.missed = W]
               \/ n = [e EXCEPT !.missed = W]
  BY <1>5
<1>7. /\ n.old = q.old /\ n.missed = W /\ n.launched = q.launched
      /\ (n.pc = "start" /\ lsof \subseteq M) \/ n.pc = "done"
  BY <1>1, <1>6 DEF Script
<1>8. ~q.launched /\ q.old \subseteq Agents
  BY <1>1, <1>6 DEF ScriptInv, Script
<1>9. lsof \subseteq M => \A a \in q.old \ W : agent[a].state = "dead"
  <2> SUFFICES ASSUME lsof \subseteq M, NEW a \in q.old \ W PROVE agent[a].state = "dead"
    OBVIOUS
  <2>1. a \in Agents /\ a \notin lsof /\ a \notin q.missed
    BY <1>6, <1>8
  <2>2. agent[a].state # "listening"
    BY <2>1 DEF lsof, Serving, Listening, In
  <2>3. Served(agent[a]) /\ (agent[a].origin = "start.sh" => agent[a].state = "dead")
    BY <1>1, <1>6, <2>1 DEF ScriptInv
  <2> QED
    BY <1>1, <2>1, <2>2, <2>3 DEF AgentInv, Served
<1>10. ScriptInv(n)
  BY <1>1, <1>6, <1>7, <1>8, <1>9, PastInv DEF q
<1>11. n.launched = script[s].launched /\ script[s].pc # "done"
  BY <1>6, <1>7 DEF q
<1> QED
  BY <1>6, <1>10, <1>11, LooksKeeps

\* Past that check every old agent is dead or has been missed, whatever the
\* later checks say.
LEMMA LaterCheckKeeps ==
  ASSUME RestartInv, NEW s \in Scripts, NEW pc \in {"start", "recheck"},
         NEW free \in Script, NEW busy \in Script, FreeCheck(s, pc, free, busy),
         \A n \in {free, busy} :
            /\ n.old = script[s].old /\ n.launched = script[s].launched
            /\ \/ n.pc \in {"popen", "done"}
               \/ n.pc = "lsof" /\ n.then = "recheck"
  PROVE  RestartInv'
<1>1. script[s] \in Script /\ ScriptInv(script[s]) /\ RestartTypeOK
  BY InvTypes
<1>2. PICK M \in SUBSET lsof : \E W \in SUBSET Agents : \E n \in Script :
            /\ script' = [script EXCEPT ![s] = n] /\ Looks /\ script[s].pc = pc
            /\ faults' \in 0..MaxFaults
            /\ script[s].missed \subseteq W /\ M \cap script[s].old \subseteq W
            /\ \/ lsof \subseteq M /\ n = [free EXCEPT !.missed = W]
               \/ n = [busy EXCEPT !.missed = W]
  BY FreeShape
<1>3. PICK W \in SUBSET Agents : \E n \in Script :
            /\ script' = [script EXCEPT ![s] = n] /\ Looks /\ script[s].pc = pc
            /\ faults' \in 0..MaxFaults
            /\ script[s].missed \subseteq W
            /\ n = [free EXCEPT !.missed = W] \/ n = [busy EXCEPT !.missed = W]
  BY <1>2
<1>4. PICK n \in Script :
            /\ script' = [script EXCEPT ![s] = n] /\ Looks /\ script[s].pc = pc
            /\ faults' \in 0..MaxFaults
            /\ script[s].missed \subseteq W
            /\ n = [free EXCEPT !.missed = W] \/ n = [busy EXCEPT !.missed = W]
  BY <1>3
<1>5. PICK b \in {free, busy} : b \in Script /\ n = [b EXCEPT !.missed = W]
  BY <1>4
<1>6. /\ n.old = script[s].old /\ n.missed = W /\ n.launched = script[s].launched
      /\ n.pc \in {"popen", "done"} \/ (n.pc = "lsof" /\ n.then = "recheck")
  <2>1. /\ b.old = script[s].old /\ b.launched = script[s].launched
        /\ b.pc \in {"popen", "done"} \/ (b.pc = "lsof" /\ b.then = "recheck")
    OBVIOUS
  <2>2. /\ n.old = b.old /\ n.missed = W /\ n.launched = b.launched
        /\ n.pc = b.pc /\ n.then = b.then
    BY <1>5 DEF Script
  <2> QED
    BY <2>1, <2>2
<1>7. ~script[s].launched /\ \A a \in script[s].old \ W : agent[a].state = "dead"
  BY <1>1, <1>4 DEF ScriptInv, Past
<1>8. ScriptInv(n)
  BY <1>1, <1>4, <1>6, <1>7, PastInv
<1> QED
  BY <1>4, <1>6, <1>8, LooksKeeps

LEMMA StartServiceKeeps ==
  ASSUME RestartInv, NEW s \in Scripts, start_service(s)
  PROVE  RestartInv'
<1> DEFINE q == script[s]
           f == [q EXCEPT !.pc = "popen"]
           e == [q EXCEPT !.pc = "lsof", !.then = "recheck"]
<1>1. q \in Script
  BY InvTypes
<1>2. FreeCheck(s, "start", f, e)
  BY DEF start_service
<1> HIDE DEF q
<1>3. /\ f \in Script /\ f.old = q.old /\ f.launched = q.launched /\ f.pc = "popen"
      /\ e \in Script /\ e.old = q.old /\ e.launched = q.launched
      /\ e.pc = "lsof" /\ e.then = "recheck"
  BY <1>1 DEF Script
<1> HIDE DEF f, e
<1> QED
  BY <1>2, <1>3, LaterCheckKeeps DEF q

LEMMA RecheckKeeps ==
  ASSUME RestartInv, NEW s \in Scripts, Recheck(s)
  PROVE  RestartInv'
<1> DEFINE q == script[s]
           f == [q EXCEPT !.pc = "popen"]
           e == Ended(s, "failed")
<1>1. q \in Script /\ ScriptInv(q) /\ RestartTypeOK
  BY InvTypes
<1>2. FreeCheck(s, "recheck", f, e)
  BY DEF Recheck
<1>3. e \in Script /\ e.old = q.old /\ e.launched = q.launched /\ e.pc = "done"
  BY <1>1, EndedInv
<1> HIDE DEF q
<1>4. f \in Script /\ f.old = q.old /\ f.launched = q.launched /\ f.pc = "popen"
  BY <1>1 DEF Script
<1> HIDE DEF f, e
<1> QED
  BY <1>2, <1>3, <1>4, LaterCheckKeeps DEF q

LEMMA NotStartedKeeps ==
  ASSUME RestartInv, NEW s \in Scripts, NotStarted(s)
  PROVE  RestartInv'
<1>1. faults' \in 0..MaxFaults
  BY DEF NotStarted, RestartInv, RestartTypeOK
<1> QED
  BY <1>1, ReturnKeeps DEF NotStarted, At

\* A process is left for the script: it is one of those that need one.
LEMMA PopenKeeps ==
  ASSUME RestartInv, NEW s \in Scripts, Popen(s)
  PROVE  RestartInv'
<1>1. RestartTypeOK /\ AgentInv
  BY InvTypes
<1>2. PICK q \in Script : q = script[s] /\ ScriptInv(q)
  BY InvTypes
<1>0. PICK x \in {"verify", "done"}, r \in {"none", "complete", "failed"} :
         script' = [script EXCEPT ![s].launched = TRUE, ![s].pc = x, ![s].result = r]
  BY <1>2 DEF Popen
<1> DEFINE m == [q EXCEPT !.launched = TRUE, !.pc = x, !.result = r]
<1>3. /\ script' = [script EXCEPT ![s] = m] /\ q.pc = "popen"
      /\ Spawn("script") /\ UNCHANGED <<conn, killed, crashes>>
  BY <1>0, <1>1, <1>2 DEF Popen, At, RestartTypeOK
<1>4. /\ m \in Script /\ m.old = q.old /\ m.missed = q.missed /\ m.launched /\ m.pc \in {"verify", "done"}
  BY DEF Script
<1> HIDE DEF m
<1>5. PICK n \in Script : n = m
  BY <1>4
<1>6. ~q.launched /\ s \in Needing
  BY <1>2, <1>3 DEF ScriptInv, Needing
<1>7. Cardinality(Needing) > 0 /\ Cardinality(Needing \ {s}) = Cardinality(Needing) - 1
  BY <1>6, NeedingType, FS_EmptySet, FS_RemoveElement
<1>8. Cardinality(In("absent")) >= Cardinality(Needing) /\ Cardinality(In("absent")) > 0
  BY <1>7, NeedingType DEF RestartInv, Reserve
<1>9. /\ agent' \in [Agents -> Agent] /\ Moves /\ AgentInv'
      /\ Cardinality(In("absent")') = Cardinality(In("absent")) - 1
  BY <1>1, <1>3, <1>8, SpawnMoves
<1>10. \A t \in Scripts \ {s} : script'[t] = script[t]
  BY <1>1, <1>3 DEF RestartTypeOK
<1>11. script'[s] = m
  BY <1>1, <1>3 DEF RestartTypeOK
<1>12. Needing' = Needing \ {s}
  BY <1>4, <1>10, <1>11 DEF Needing
<1>13. Cardinality(In("absent")') >= Cardinality(Needing')
  BY <1>7, <1>8, <1>9, <1>12, NeedingType
<1>14. \A a \in q.old \ q.missed : agent[a].state = "dead"
  BY <1>2, <1>3 DEF ScriptInv, Past
<1>15. ScriptInv(n)
  BY <1>2, <1>4, <1>5, <1>14 DEF ScriptInv, Past, Served
<1>16. ScriptInv(n)'
  BY <1>1, <1>9, <1>15, AgentsMove
<1>17. conn' \in [Connected -> Agents \cup {NoAgent}] /\ killed' \subseteq Clients
  BY <1>1, <1>3 DEF RestartTypeOK
<1>18. Turn(s, n)
  BY <1>1, <1>3, <1>5, OwnTurn
<1>19. faults' \in 0..MaxFaults
  BY <1>1, FaultsBounded DEF Popen, RestartTypeOK
<1> QED
  BY <1>3, <1>9, <1>13, <1>16, <1>17, <1>18, <1>19, ScriptKeeps

LEMMA CheckProcessKeeps ==
  ASSUME RestartInv, NEW s \in Scripts, CheckProcess(s)
  PROVE  RestartInv'
<1> DEFINE q == script[s]
           seen == pgrep # {}
           n == [q EXCEPT !.seen = seen, !.tries = q.tries + 1, !.pc = "health"]
<1>1. q \in Script /\ ScriptInv(q) /\ RestartTypeOK
  BY InvTypes
<1>2. Looks /\ q.pc = "verify" /\ q.tries < MaxTries
  BY DEF CheckProcess, InTime, At
<1>3. CASE Return(s, "raised") /\ MayFail /\ faults' = faults + 1
  BY <1>1, <1>2, <1>3, FaultsBounded, ReturnKeeps
<1>4. CASE /\ script' = [script EXCEPT ![s].seen = (pgrep # {}),
                                       ![s].tries = script[s].tries + 1, ![s].pc = "health"]
           /\ UNCHANGED faults
  <2>1. script' = [script EXCEPT ![s] = n] /\ faults' \in 0..MaxFaults
    BY <1>1, <1>4 DEF RestartTypeOK
  <2>2. seen \in BOOLEAN
    OBVIOUS
  <2> HIDE DEF q, seen
  <2>3. q.tries + 1 \in 0..MaxTries
    BY <1>1, <1>2, RestartAssumption DEF Script
  <2>4. /\ n \in Script /\ n.old = q.old /\ n.missed = q.missed /\ n.launched = q.launched
        /\ n.pc = "health" /\ n.then = q.then
    BY <1>1, <2>2, <2>3 DEF Script
  <2> HIDE DEF n
  <2>5. ScriptInv(n)
    BY <1>1, <1>2, <2>4 DEF ScriptInv, Past
  <2> QED
    BY <1>2, <2>1, <2>4, <2>5, LooksKeeps DEF q
<1> QED
  BY <1>3, <1>4 DEF CheckProcess

LEMMA CheckHealthKeeps ==
  ASSUME RestartInv, NEW s \in Scripts, CheckHealth(s)
  PROVE  RestartInv'
<1>1. conn \in [Connected -> Agents \cup {NoAgent}]
  BY InvTypes
<1>2. conn' \in [Connected -> Agents \cup {NoAgent}]
  BY <1>1 DEF CheckHealth, Listening, In
<1>3. Goto(s, "answer") \/ Goto(s, "verify")
  BY DEF CheckHealth
<1>4. script[s].pc = "health" /\ UNCHANGED <<agent, killed, crashes, faults>>
  BY DEF CheckHealth, At
<1> QED
  BY <1>2, <1>3, <1>4, GotoKeeps

LEMMA HealthAnswerKeeps ==
  ASSUME RestartInv, NEW s \in Scripts, HealthAnswer(s)
  PROVE  RestartInv'
<1>1. conn \in [Connected -> Agents \cup {NoAgent}] /\ RestartTypeOK
  BY InvTypes
<1>2. conn' \in [Connected -> Agents \cup {NoAgent}]
  BY <1>1 DEF HealthAnswer
<1>3. Return(s, "complete") \/ Goto(s, "verify")
  BY DEF HealthAnswer
<1>4. script[s].pc = "answer" /\ UNCHANGED <<agent, killed, crashes, faults>>
      /\ faults' \in 0..MaxFaults
  BY <1>1 DEF HealthAnswer, At, RestartTypeOK
<1> QED
  BY <1>2, <1>3, <1>4, GotoKeeps, ReturnQuietKeeps

LEMMA OutOfTimeKeeps ==
  ASSUME RestartInv, NEW s \in Scripts, OutOfTime(s)
  PROVE  RestartInv'
<1>1. faults' \in 0..MaxFaults
  BY DEF OutOfTime, RestartInv, RestartTypeOK
<1> QED
  BY <1>1, ReturnKeeps DEF OutOfTime, At

LEMMA StartShKeeps ==
  ASSUME RestartInv, start_sh
  PROVE  RestartInv'
<1>1. RestartTypeOK /\ AgentInv
  BY DEF RestartInv
<1>2. /\ Cardinality(In("absent")) > Cardinality(Needing) /\ Spawn("start.sh")
      /\ UNCHANGED <<conn, killed, script, crashes, faults>>
  BY DEF start_sh, Needing, system
<1>3. Cardinality(In("absent")) > 0
  BY <1>2, NeedingType
<1>4. /\ agent' \in [Agents -> Agent] /\ Moves /\ AgentInv'
      /\ Cardinality(In("absent")') = Cardinality(In("absent")) - 1
  BY <1>1, <1>2, <1>3, SpawnMoves
<1>5. Cardinality(In("absent")') >= Cardinality(Needing)
  BY <1>2, <1>4, NeedingType
<1>6. conn' \in [Connected -> Agents \cup {NoAgent}] /\ crashes' \in 0..MaxFaults /\ faults' \in 0..MaxFaults
  BY <1>1, <1>2 DEF RestartTypeOK
<1> QED
  BY <1>2, <1>4, <1>5, <1>6, SystemKeeps

LEMMA AgentKeeps ==
  ASSUME RestartInv, NEW a \in Agents, Bind(a) \/ Exit(a) \/ Crash(a)
  PROVE  RestartInv'
<1>1. RestartTypeOK /\ AgentInv /\ Cardinality(In("absent")) >= Cardinality(Needing)
  BY DEF RestartInv, Reserve
<1>2. PICK x \in {"listening", "dead"} :
         /\ agent[a].state \in {"starting", "listening", "stopping"}
         /\ agent[a].state # "starting" => x = "dead"
         /\ agent' = [agent EXCEPT ![a].state = x]
  BY DEF Bind, Exit, Crash
<1>3. UNCHANGED <<conn, killed, script>> /\ crashes' \in 0..MaxFaults /\ faults' \in 0..MaxFaults
  BY <1>1, RestartAssumption DEF Bind, Exit, Crash, MayFail, system, RestartTypeOK
<1>4. /\ agent' \in [Agents -> Agent] /\ Moves /\ AgentInv'
      /\ In("absent")' = In("absent")
  BY <1>1, <1>2, OneAgent
<1>5. conn' \in [Connected -> Agents \cup {NoAgent}]
  BY <1>1, <1>3 DEF RestartTypeOK
<1> QED
  BY <1>1, <1>3, <1>4, <1>5, SystemKeeps

LEMMA ClientKeeps ==
  ASSUME RestartInv, NEW c \in Clients, Connect(c) \/ Close(c)
  PROVE  RestartInv'
<1>1. RestartTypeOK /\ AgentInv /\ Cardinality(In("absent")) >= Cardinality(Needing)
  BY DEF RestartInv, Reserve
<1>2. UNCHANGED <<agent, killed, script, crashes, faults>>
  BY DEF Connect, Close
<1>3. conn' \in [Connected -> Agents \cup {NoAgent}]
  BY <1>1 DEF Connect, Close, RestartTypeOK, Listening, In, Connected
<1>4. Moves /\ AgentInv' /\ In("absent")' = In("absent")
  BY <1>1, <1>2, Stays DEF AgentInv, In
<1>5. agent' \in [Agents -> Agent] /\ crashes' \in 0..MaxFaults /\ faults' \in 0..MaxFaults
  BY <1>1, <1>2 DEF RestartTypeOK
<1> QED
  BY <1>1, <1>2, <1>3, <1>4, <1>5, SystemKeeps

-----------------------------------------------------------------------------
(***************************************************************************)
(* The initial states, and the theorems.                                   *)
(***************************************************************************)
LEMMA RestartStarts ==
  ASSUME RestartInit
  PROVE  RestartInv
<1> DEFINE none == [a \in Agents |-> NoProcess]
           first == CHOOSE a \in Agents : TRUE
<1>1. NoProcess \in Agent /\ NoProcess.state = "absent" /\ NewScript \in Script
  BY RestartAssumption DEF NoProcess, Agent, NewScript, Script
<1>2. /\ Cardinality(Agents) \in Nat /\ Cardinality(Scripts) \in Nat
      /\ IsFiniteSet(Agents) /\ IsFiniteSet(Scripts)
  BY RestartAssumption, FS_CardinalityType
<1>3. Agents # {}
  BY <1>2, RestartAssumption, FS_EmptySet
<1>4. first \in Agents
  BY <1>3
<1>5. /\ agent \in [Agents -> Agent]
      /\ \A a \in Agents : a # first => agent[a].state = "absent"
      /\ \A a \in Agents : agent[a].state # "stopping"
  <2>1. CASE agent = none
    BY <1>1, <2>1
  <2>2. CASE agent # none
    <3>1. PICK p \in [origin : {"start.sh", "script"}, state : {"starting", "listening"}] :
             agent = [none EXCEPT ![first] = p]
      BY <2>2 DEF RestartInit
    <3>2. p \in Agent /\ p.state # "stopping"
      BY DEF Agent
    <3> HIDE DEF first
    <3> QED
      BY <1>1, <1>4, <3>1, <3>2
  <2> QED
    BY <2>1, <2>2
<1> HIDE DEF first
<1>6. RestartTypeOK
  BY <1>1, <1>5, RestartAssumption DEF RestartInit, RestartTypeOK
<1>7. AgentInv
  BY <1>5 DEF AgentInv
<1>8. \A s \in Scripts : ScriptInv(script[s])
  <2>1. ScriptInv(NewScript)
    BY DEF ScriptInv, Past, NewScript
  <2> QED
    BY <2>1 DEF RestartInit
<1>9. Reserve
  <2>1. Agents \ {first} \subseteq In("absent") /\ Needing \subseteq Scripts
        /\ In("absent") \subseteq Agents
    BY <1>5 DEF In, Needing
  <2>2. Cardinality(Agents \ {first}) = Cardinality(Agents) - 1
    BY <1>2, <1>4, FS_RemoveElement
  <2>3. Cardinality(Agents \ {first}) <= Cardinality(In("absent"))
    BY <1>2, <2>1, FS_Subset
  <2>4. Cardinality(Needing) <= Cardinality(Scripts)
    BY <1>2, <2>1, FS_Subset
  <2> QED
    BY <1>2, <2>2, <2>3, <2>4, NeedingType, RestartAssumption DEF Reserve
<1> QED
  BY <1>6, <1>7, <1>8, <1>9 DEF RestartInv

LEMMA RestartStutters ==
  ASSUME RestartInv, UNCHANGED restartVars
  PROVE  RestartInv'
BY DEF RestartInv, RestartTypeOK, AgentInv, ScriptInv, Past, Reserve, Needing, In, restartVars

LEMMA RestartInductive ==
  ASSUME RestartInv, [RestartNext]_restartVars
  PROVE  RestartInv'
<1>1. CASE UNCHANGED restartVars
  BY <1>1, RestartStutters
<1>2. ASSUME NEW s \in Scripts, \E force \in BOOLEAN : main(s, force)
      PROVE  RestartInv'
  BY <1>2, MainKeeps
<1>3. ASSUME NEW s \in Scripts, ScriptStep(s) PROVE RestartInv'
  BY <1>3, ListPortKeeps, ReleaseKeeps, FindAgentsKeeps, TerminateKeeps, ForceStopKeeps, StopRaisesKeeps,
     CheckStoppedKeeps, StartServiceKeeps, RecheckKeeps, PopenKeeps, NotStartedKeeps,
     CheckProcessKeeps, CheckHealthKeeps, HealthAnswerKeeps,
     OutOfTimeKeeps DEF ScriptStep
<1>4. CASE start_sh
  BY <1>4, StartShKeeps
<1>5. ASSUME NEW a \in Agents, Bind(a) \/ Exit(a) \/ Crash(a) PROVE RestartInv'
  BY <1>5, AgentKeeps
<1>6. ASSUME NEW c \in Clients, Connect(c) \/ Close(c) PROVE RestartInv'
  BY <1>6, ClientKeeps
<1> QED
  BY <1>1, <1>2, <1>3, <1>4, <1>5, <1>6 DEF RestartNext

\* Every state the processes, the connections and the scripts reach is a
\* state of the model: release_port always has a place to return to, the
\* rounds of verify_service_status stay below their bound, and Popen always
\* finds an unused process.
THEOREM RestartTypeSafe == RestartSpec => []RestartTypeOK
<1>1. RestartSpec => []RestartInv
  BY RestartStarts, RestartInductive, PTL DEF RestartSpec
<1>2. RestartInv => RestartTypeOK
  BY DEF RestartInv
<1> QED
  BY <1>1, <1>2, PTL

\* When restart_agentd.py has started its agent, every agent that listened
\* when the script began is dead, or is one that a command of this very script
\* did not see, could not kill or never got to, however many scripts,
\* start.sh, crashes and clients run in between.
THEOREM RestartReplaces == RestartSpec => []OldAgentsGone
<1>1. RestartSpec => []RestartInv
  BY RestartStarts, RestartInductive, PTL DEF RestartSpec
<1>2. RestartInv => OldAgentsGone
  BY DEF RestartInv, OldAgentsGone, ScriptInv, Past
<1> QED
  BY <1>1, <1>2, PTL
=============================================================================
