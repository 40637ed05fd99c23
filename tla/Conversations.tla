---------------------------- MODULE Conversations ----------------------------
(***************************************************************************)
(* Chat conversations of agentd (app/agentd/agentd): the two in-memory     *)
(* dictionaries (sessions and message histories) and the HTTP requests     *)
(* that read and write them.                                               *)
(*                                                                         *)
(* Create, delete and the preparation of a turn are plain `def' routes:    *)
(* FastAPI runs each of them on a thread of its pool.  A streamed turn     *)
(* goes on as a coroutine of the one event loop; persist_chat_turn has no  *)
(* await, so it keeps the loop to itself but not the interpreter.  Nothing *)
(* takes a lock.  A thread may be switched out at every call and at every  *)
(* loop iteration, hence one step here for each access to a dictionary.    *)
(***************************************************************************)
EXTENDS Naturals, Sequences

CONSTANTS
    Users,
    Conversations,   \* the ids uuid4() may still hand out
    MaxRequests,     \* bound: requests that arrive in a behaviour
    TTL,             \* SESSION_TTL_SECONDS, in clock ticks
    MaxMessages,     \* MAX_CONVERSATION_MESSAGES
    MaxClock,        \* bound: ticks of the clock in a behaviour
    Preemptive,      \* may threads be switched inside a handler?
    NoUser, NoConversation, NoSession

ASSUME SettingsAssumption ==
    /\ TTL \in Nat \ {0}
    /\ MaxMessages \in Nat \ {0}
    /\ MaxRequests \in Nat
    /\ MaxClock \in Nat
    /\ Preemptive \in BOOLEAN

ASSUME NullAssumption ==
    /\ NoUser \notin Users
    /\ NoConversation \notin Conversations

VARIABLES
    clock,
    sessions,      \* InMemoryConversationRepository.sessions
    histories,     \* InMemoryMessageHistoryRepository.message_histories
    req,           \* the local state of every request
    disturbed,     \* what others have changed since a request looked at it
    creator,       \* who created a conversation (ids are never reused)
    log            \* the turns in the order in which they began to persist

vars == <<clock, sessions, histories, req, disturbed, creator, log>>

Requests == 1..MaxRequests

(***************************************************************************)
(* A message is the turn that wrote it and a role.  A model history is the *)
(* sequence of the turns it holds; no entry and an empty history are the   *)
(* same to load_message_history.                                           *)
(***************************************************************************)
Message == Requests \X {"user", "assistant"}
Session == [user : Users, messages : Seq(Message), expires : Nat]

ASSUME NoSessionAssumption == NoSession \notin Session

Sites == {"none", "sweep", "turn", "delete", "user", "assistant"}
HandlerSteps == {"scan", "purge", "forget", "lookup", "evict", "touch",
                 "load", "append", "drop", "erase"}
Steps == HandlerSteps \cup {"idle", "stream", "reply", "done"}
Outcomes == {"none", "created", "answered", "deleted", "not_found", "denied", "expired", "error",
             "stream_error", "cancelled", "lost"}

Request == [user : Users \cup {NoUser},
            conv : Conversations \cup {NoConversation},
            site : Sites,                 \* which call of the service runs
            step : Steps,
            now : Nat,                    \* current_time of the running call
            todo : SUBSET Conversations,  \* expired ids still to be removed
            swept : SUBSET Conversations, \* ids whose histories are to go
            session : Session \cup {NoSession},
            context : Seq(Requests),      \* history given to the model
            outcome : Outcomes]

\* <<r, c>>: c has changed under request r; NoConversation is the set of keys.
Disturbance == Requests \X (Conversations \cup {NoConversation})

\* The type invariant.
TypeOK ==
    /\ clock \in Nat
    /\ sessions \in [Conversations -> Session \cup {NoSession}]
    /\ histories \in [Conversations -> Seq(Requests)]
    /\ req \in [Requests -> Request]
    /\ disturbed \subseteq Disturbance
    /\ creator \in [Conversations -> Users \cup {NoUser}]
    /\ log \in Seq(Requests)

-----------------------------------------------------------------------------
Live == {c \in Conversations : sessions[c] # NoSession}

Running(r) == req[r].step \in HandlerSteps
OnLoop(r) == Running(r) /\ req[r].site \in {"user", "assistant"}
InFlight(r) == req[r].step \notin {"idle", "done"}

LoopFree == \A q \in Requests : ~OnLoop(q)
CanRun(r) == Preemptive \/ \A q \in Requests \ {r} : ~Running(q)

\* Variants named Bug... are what the code would be with one mistake in it;
\* they show that the properties can fail, and no action uses them.
BugTtlSubtracted(now) == now - TTL
build_expiration_time(now) == now + TTL
BugExpiresEarly(s, now) == now + 1 >= s.expires
is_conversation_session_expired(s, now) == now >= s.expires

LastN(s, n) == IF Len(s) <= n THEN s ELSE SubSeq(s, Len(s) - n + 1, Len(s))
BugOneMessageMore(s, m, now) ==
    [s EXCEPT !.messages = LastN(Append(s.messages, m), MaxMessages + 1),
              !.expires = build_expiration_time(now)]
append_conversation_message(s, m, now) ==
    [s EXCEPT !.messages = LastN(Append(s.messages, m), MaxMessages),
              !.expires = build_expiration_time(now)]
touch_conversation_session(s, now) ==
    [s EXCEPT !.expires = build_expiration_time(now)]

\* The ids a thread has judged expired and has not removed yet, and those
\* whose histories it is about to remove.
Condemned(q, c) ==
    \/ req[q].step = "purge" /\ c \in req[q].todo
    \/ req[q].step = "evict" /\ c = req[q].conv
Erasing(q, c) ==
    \/ req[q].step = "forget" /\ c \in req[q].swept
    \/ req[q].step = "erase" /\ c = req[q].conv

\* Thread r saves s under c, or removes c (NoSession).  A change of the set of
\* keys reaches every other thread that is iterating over it, a saved session
\* every other thread that is about to remove it.
StoreSession(r, c, s) ==
    LET resized == (s = NoSession) # (c \notin Live)
        others == Requests \ {r}
    IN  /\ sessions' = [sessions EXCEPT ![c] = s]
        /\ disturbed' = (disturbed \ {<<r, c>>})
              \cup {<<q, NoConversation>> : q \in {p \in others : resized /\ req[p].step = "scan"}}
              \cup {<<q, c>> : q \in {p \in others : s # NoSession /\ Condemned(p, c)}}

\* Request r starts a step that relies on nothing it has seen before.
Calm(r) == {d \in disturbed : d[1] # r}

\* `in', then `del'; other threads may stand between the two.
EraseHistory(r, c) ==
    /\ histories' = [histories EXCEPT ![c] = <<>>]
    /\ disturbed' = Calm(r) \cup
          {<<q, c>> : q \in {p \in Requests \ {r} : histories[c] # <<>> /\ Erasing(p, c)}}
\* KeyError: another thread removed the history between `in' and `del'.
EraseCollides(r, c) ==
    /\ <<r, c>> \in disturbed
    /\ histories[c] = <<>>
    /\ disturbed' = Calm(r)
    /\ UNCHANGED histories

\* A finished request keeps its identity (user, conv), context and outcome.
Finished(q, why) ==
    [q EXCEPT !.site = "none", !.step = "done", !.now = 0, !.todo = {},
              !.swept = {}, !.session = NoSession, !.outcome = why]
Finish(r, why) == req' = [req EXCEPT ![r] = Finished(@, why)]
\* An exception leaves a route as an HTTP status; inside a stream it is
\* caught and becomes the stream's error event.
Raise(r, why) == Finish(r, IF OnLoop(r) THEN "stream_error" ELSE why)

\* A call of cleanup_expired_sessions starts by reading the clock.
BeginCleanup(q, site) ==
    [q EXCEPT !.site = site, !.step = "scan", !.now = clock]
\* prepare_chat_turn: after the sweep, the conversation of the turn itself.
AfterForget(q) == IF q.swept = {} THEN BeginCleanup(q, "turn") ELSE q
AfterPurge(q) ==
    IF q.todo # {} THEN q
    ELSE IF q.site = "sweep" THEN AfterForget([q EXCEPT !.step = "forget"])
    ELSE [q EXCEPT !.step = "lookup"]

-----------------------------------------------------------------------------
IdleRequest ==
    [user |-> NoUser, conv |-> NoConversation, site |-> "none", step |-> "idle",
     now |-> 0, todo |-> {}, swept |-> {}, session |-> NoSession,
     context |-> <<>>, outcome |-> "none"]

Init ==
    /\ clock = 0
    /\ sessions = [c \in Conversations |-> NoSession]
    /\ histories = [c \in Conversations |-> <<>>]
    /\ req = [r \in Requests |-> IdleRequest]
    /\ disturbed = {}
    /\ creator = [c \in Conversations |-> NoUser]
    /\ log = <<>>

Tick ==
    /\ clock < MaxClock
    /\ clock' = clock + 1
    /\ UNCHANGED <<sessions, histories, req, disturbed, creator, log>>

\* Requests are numbered in the order in which they arrive.
Arrives(r) ==
    /\ req[r].step = "idle"
    /\ \A q \in 1..(r - 1) : req[q].step # "idle"
    /\ CanRun(r)

create_conversation(r, u, c) ==
    /\ Arrives(r)
    /\ creator[c] = NoUser
    /\ creator' = [creator EXCEPT ![c] = u]
    /\ StoreSession(r, c, [user |-> u, messages |-> <<>>,
                           expires |-> build_expiration_time(clock)])
    /\ req' = [req EXCEPT ![r] = Finished([@ EXCEPT !.user = u, !.conv = c], "created")]
    /\ UNCHANGED <<clock, histories, log>>

\* A stream or a delete request for a conversation that exists or existed.
ArriveFor(r, u, c, site) ==
    /\ Arrives(r)
    /\ creator[c] # NoUser
    /\ req' = [req EXCEPT ![r] =
                 BeginCleanup([@ EXCEPT !.user = u, !.conv = c], site)]
    /\ UNCHANGED <<clock, sessions, histories, disturbed, creator, log>>

stream_conversation_message_route(r, u, c) == ArriveFor(r, u, c, "sweep")
delete_conversation_route(r, u, c) == ArriveFor(r, u, c, "delete")

-----------------------------------------------------------------------------
(***************************************************************************)
(* cleanup_expired_conversation_sessions: read the clock, iterate over the *)
(* dictionary, then delete one expired id after the other.  Only           *)
(* cleanup_expired_chat_histories goes on to the histories.                *)
(***************************************************************************)
ScanSessions(r) ==
    /\ req[r].step = "scan"
    /\ CanRun(r)
    /\ LET expired == {c \in Live :
                         is_conversation_session_expired(sessions[c], req[r].now)}
           swept == IF req[r].site = "sweep" THEN expired ELSE {}
       IN  req' = [req EXCEPT ![r] = AfterPurge([@ EXCEPT
                     !.step = "purge", !.now = 0, !.todo = expired, !.swept = swept])]
    /\ disturbed' = Calm(r)
    /\ UNCHANGED <<clock, sessions, histories, creator, log>>

\* RuntimeError: dictionary changed size during iteration.
ScanInterrupted(r) ==
    /\ req[r].step = "scan"
    /\ <<r, NoConversation>> \in disturbed
    /\ CanRun(r)
    /\ Raise(r, "error")
    /\ disturbed' = Calm(r)
    /\ UNCHANGED <<clock, sessions, histories, creator, log>>

\* The loop waits for an id that another thread has removed.
BugPurgeRetries(r, c) ==
    /\ req[r].step = "purge"
    /\ c \in req[r].todo \cap Live
    /\ CanRun(r)
    /\ StoreSession(r, c, NoSession)
    /\ req' = [req EXCEPT ![r] = AfterPurge([@ EXCEPT !.todo = req[r].todo \ {c}])]
    /\ UNCHANGED <<clock, histories, creator, log>>

\* `del sessions[id]'; a KeyError when another thread removed the id first.
PurgeSession(r, c) ==
    /\ req[r].step = "purge"
    /\ c \in req[r].todo
    /\ CanRun(r)
    /\ \/ /\ c \in Live
          /\ StoreSession(r, c, NoSession)
          /\ req' = [req EXCEPT ![r] = AfterPurge([@ EXCEPT !.todo = req[r].todo \ {c}])]
       \/ /\ c \notin Live
          /\ Raise(r, "error")
          /\ disturbed' = Calm(r)
          /\ UNCHANGED sessions
    /\ UNCHANGED <<clock, histories, creator, log>>

delete_message_histories(r, c) ==
    /\ req[r].step = "forget"
    /\ c \in req[r].swept
    /\ CanRun(r)
    /\ \/ /\ EraseHistory(r, c)
          /\ req' = [req EXCEPT ![r] = AfterForget([@ EXCEPT !.swept = req[r].swept \ {c}])]
       \/ EraseCollides(r, c) /\ Raise(r, "error")
    /\ UNCHANGED <<clock, sessions, creator, log>>

(***************************************************************************)
(* get_conversation_for_user, after its cleanup.                           *)
(***************************************************************************)
\* The owner of the session is compared with the user only before a delete.
BugOwnerUnchecked(r) ==
    LET s == sessions[req[r].conv] IN
    /\ req[r].step = "lookup"
    /\ CanRun(r)
    /\ IF s = NoSession
       THEN Raise(r, "not_found")
       ELSE IF req[r].site = "delete" /\ s.user # req[r].user
       THEN Raise(r, "denied")
       ELSE req' = [req EXCEPT ![r] = [@ EXCEPT
                       !.step = "touch", !.now = clock, !.session = s]]
    /\ UNCHANGED <<clock, sessions, histories, disturbed, creator, log>>

LookupSession(r) ==
    LET s == sessions[req[r].conv] IN
    /\ req[r].step = "lookup"
    /\ CanRun(r)
    /\ \/ /\ s = NoSession
          /\ Raise(r, "not_found")
       \/ /\ s # NoSession
          /\ s.user # req[r].user
          /\ Raise(r, "denied")
       \/ /\ s # NoSession
          /\ s.user = req[r].user
          /\ req' = [req EXCEPT ![r] =
                IF is_conversation_session_expired(s, clock)
                THEN [@ EXCEPT !.step = "evict"]
                ELSE [@ EXCEPT !.step = "touch", !.now = clock, !.session = s]]
    /\ UNCHANGED <<clock, sessions, histories, disturbed, creator, log>>

\* KeyError: the session was there when the thread looked, and another thread
\* removed it between `in' and `del'.
DropCollides(r) ==
    /\ req[r].conv \notin Live
    /\ Raise(r, "error")
    /\ disturbed' = Calm(r)
    /\ UNCHANGED sessions

EvictSession(r) ==
    /\ req[r].step = "evict"
    /\ CanRun(r)
    /\ \/ StoreSession(r, req[r].conv, NoSession) /\ Raise(r, "expired")
       \/ DropCollides(r)
    /\ UNCHANGED <<clock, histories, creator, log>>

TouchSession(r) ==
    LET s == touch_conversation_session(req[r].session, req[r].now) IN
    /\ req[r].step = "touch"
    /\ CanRun(r)
    /\ StoreSession(r, req[r].conv, s)
    /\ req' = [req EXCEPT ![r].session = s,
                          ![r].now = 0,
                          ![r].step = CASE req[r].site = "turn" -> "load"
                                        [] req[r].site = "delete" -> "drop"
                                        [] OTHER -> "append"]
    /\ UNCHANGED <<clock, histories, creator, log>>

-----------------------------------------------------------------------------
(***************************************************************************)
(* A turn: load the history, stream the model's answer, persist.           *)
(***************************************************************************)
load_message_history(r) ==
    /\ req[r].step = "load"
    /\ CanRun(r)
    /\ req' = [req EXCEPT ![r].context = histories[req[r].conv],
                          ![r].session = NoSession,
                          ![r].step = "stream"]
    /\ UNCHANGED <<clock, sessions, histories, disturbed, creator, log>>

\* The model, a tool or the extraction of structured data raised, or, with the
\* turn persisted, the end of the model's stream.
StreamFails(r) ==
    /\ req[r].step \in {"stream", "reply"}
    /\ LoopFree
    /\ Finish(r, "stream_error")
    /\ UNCHANGED <<clock, sessions, histories, disturbed, creator, log>>

\* The client went away: the coroutine is cancelled at an await or a yield.
Disconnect(r) ==
    /\ req[r].step \in {"stream", "reply"}
    /\ LoopFree
    /\ Finish(r, "cancelled")
    /\ UNCHANGED <<clock, sessions, histories, disturbed, creator, log>>

\* Two turns persist at the same time, as on two threads.
BugLoopShared(r) ==
    /\ req[r].step = "stream"
    /\ CanRun(r)
    /\ histories' = [histories EXCEPT ![req[r].conv] = Append(req[r].context, r)]
    /\ log' = Append(log, r)
    /\ req' = [req EXCEPT ![r] = BeginCleanup(@, "user")]
    /\ UNCHANGED <<clock, sessions, disturbed, creator>>
\* Only the new messages of the run are stored.
BugNewMessagesOnly(r) ==
    /\ req[r].step = "stream"
    /\ LoopFree
    /\ CanRun(r)
    /\ histories' = [histories EXCEPT ![req[r].conv] = <<r>>]
    /\ log' = Append(log, r)
    /\ req' = [req EXCEPT ![r] = BeginCleanup(@, "user")]
    /\ UNCHANGED <<clock, sessions, disturbed, creator>>

\* The model has answered: persist_chat_turn takes the event loop and
\* stores all messages of the run before it appends to the session.
save_message_history(r) ==
    /\ req[r].step = "stream"
    /\ LoopFree
    /\ CanRun(r)
    /\ histories' = [histories EXCEPT ![req[r].conv] = Append(req[r].context, r)]
    /\ log' = Append(log, r)
    /\ req' = [req EXCEPT ![r] = BeginCleanup(@, "user")]
    /\ UNCHANGED <<clock, sessions, disturbed, creator>>

append_message_to_conversation(r) ==
    LET s == append_conversation_message(req[r].session, <<r, req[r].site>>, clock) IN
    /\ req[r].step = "append"
    /\ CanRun(r)
    /\ StoreSession(r, req[r].conv, s)
    /\ req' = [req EXCEPT ![r] =
                 IF req[r].site = "user"
                 THEN BeginCleanup([@ EXCEPT !.session = NoSession], "assistant")
                 ELSE [@ EXCEPT !.session = NoSession, !.site = "none", !.step = "reply"]]
    /\ UNCHANGED <<clock, histories, creator, log>>

\* message_end reaches the client.
EndTurn(r) ==
    /\ req[r].step = "reply"
    /\ LoopFree
    /\ Finish(r, "answered")
    /\ UNCHANGED <<clock, sessions, histories, disturbed, creator, log>>

-----------------------------------------------------------------------------
(***************************************************************************)
(* delete_chat_conversation, after get_conversation_for_user.              *)
(***************************************************************************)
\* The handler erases the history and forgets the session.
BugSessionKept(r) ==
    /\ req[r].step = "drop"
    /\ CanRun(r)
    /\ req' = [req EXCEPT ![r].session = NoSession, ![r].step = "erase"]
    /\ UNCHANGED <<clock, sessions, histories, disturbed, creator, log>>

delete_conversation_session(r) ==
    /\ req[r].step = "drop"
    /\ CanRun(r)
    /\ \/ /\ StoreSession(r, req[r].conv, NoSession)
          /\ req' = [req EXCEPT ![r].session = NoSession, ![r].step = "erase"]
       \/ DropCollides(r)
    /\ UNCHANGED <<clock, histories, creator, log>>

delete_message_history(r) ==
    /\ req[r].step = "erase"
    /\ CanRun(r)
    /\ \/ EraseHistory(r, req[r].conv) /\ Finish(r, "deleted")
       \/ EraseCollides(r, req[r].conv) /\ Raise(r, "error")
    /\ UNCHANGED <<clock, sessions, creator, log>>

\* The process is restarted: both repositories are built anew.
Restart ==
    /\ Live # {} \/ \E r \in Requests : InFlight(r)
    /\ sessions' = [c \in Conversations |-> NoSession]
    /\ histories' = [c \in Conversations |-> <<>>]
    /\ req' = [r \in Requests |-> IF InFlight(r) THEN Finished(req[r], "lost") ELSE req[r]]
    /\ disturbed' = {}
    /\ UNCHANGED <<clock, creator, log>>

-----------------------------------------------------------------------------
CleanupStep(r) ==
    \/ ScanSessions(r) \/ ScanInterrupted(r)
    \/ \E c \in Conversations : PurgeSession(r, c) \/ delete_message_histories(r, c)

SessionStep(r) == LookupSession(r) \/ EvictSession(r) \/ TouchSession(r)

TurnStep(r) ==
    \/ load_message_history(r) \/ save_message_history(r)
    \/ append_message_to_conversation(r) \/ EndTurn(r)

DeleteStep(r) == delete_conversation_session(r) \/ delete_message_history(r)

\* What the interpreter and the event loop do for a request by themselves.
Progress(r) ==
    CleanupStep(r) \/ SessionStep(r) \/ TurnStep(r) \/ DeleteStep(r) \/ StreamFails(r)

Arrival(r) ==
    \E u \in Users, c \in Conversations :
        \/ create_conversation(r, u, c)
        \/ stream_conversation_message_route(r, u, c)
        \/ delete_conversation_route(r, u, c)

Next ==
    \/ Tick
    \/ Restart
    \/ \E r \in Requests : Arrival(r) \/ Progress(r) \/ Disconnect(r)

Spec == Init /\ [][Next]_vars

\* Threads and coroutines that can run are eventually scheduled; the model's
\* answer arrives or its client times out.  Nobody has to send a request.
FairSpec == Spec /\ \A r \in Requests : WF_vars(Progress(r))

-----------------------------------------------------------------------------
(***************************************************************************)
(* Properties.                                                             *)
(***************************************************************************)

\* No turn is ever given, and no conversation ever stores, what another user
\* said: get_conversation_for_user checks the owner on a snapshot, and the
\* history is loaded and the session written after other threads have run.
Confidential ==
    /\ \A r \in Requests : \A i \in DOMAIN req[r].context :
          req[req[r].context[i]].user = req[r].user
    /\ \A c \in Conversations : \A i \in DOMAIN histories[c] :
          req[histories[c][i]].user = creator[c]
    /\ \A c \in Live :
          /\ sessions[c].user = creator[c]
          /\ \A i \in DOMAIN sessions[c].messages :
                req[sessions[c].messages[i][1]].user = creator[c]

Position(t) == CHOOSE i \in DOMAIN log : log[i] = t
Rank(m) == 2 * Position(m[1]) + (IF m[2] = "assistant" THEN 1 ELSE 0)
Increasing(s, Key(_)) == \A i, j \in DOMAIN s : i < j => Key(s[i]) < Key(s[j])

\* Messages may get lost (a stale session is saved over a newer one), but
\* what a session or a history holds is in the order in which the turns were
\* persisted, nothing twice, a question before its answer, and two turns
\* never interleaved: persist_chat_turn does not give up the event loop.
PersistOrder ==
    /\ \A c \in Live : Increasing(sessions[c].messages, Rank)
    /\ \A c \in Conversations : Increasing(histories[c], Position)

\* append_conversation_message keeps a session within the configured number
\* of messages, whatever snapshot of the session it was applied to.
TranscriptBounded ==
    \A c \in Live : Len(sessions[c].messages) <= MaxMessages

Transcript(turns) ==
    [i \in 1..(2 * Len(turns)) |->
        <<turns[(i + 1) \div 2], IF i % 2 = 1 THEN "user" ELSE "assistant">>]

\* A turn of the conversation was persisted by another that did not know it.
Overlapped(c) ==
    \E i, j \in DOMAIN log :
        /\ i < j
        /\ req[log[i]].conv = c /\ req[log[j]].conv = c
        /\ \A k \in DOMAIN req[log[j]].context : req[log[j]].context[k] # log[i]

\* As long as the turns of a conversation do not overlap (the page waits for
\* an answer before it sends the next question), the messages of a session
\* are, between turns, the latest messages of what the model remembers:
\* persist_chat_turn writes both or the session is gone.
TranscriptMatchesMemory ==
    \A c \in Live :
        /\ \A r \in Requests : req[r].conv = c => ~OnLoop(r)
        /\ ~Overlapped(c)
        => sessions[c].messages = LastN(Transcript(histories[c]), MaxMessages)

\* A conversation that was deleted stays deleted, even if one of its turns was
\* still streaming: delete_conversation_for_user against persist_chat_turn.
DeletedStaysDeleted ==
    \A r \in Requests :
        req[r].outcome = "deleted" => req[r].conv \notin Live

\* A session goes away because it has expired, because its owner deletes it,
\* with the process, or because the thread that takes it had judged it expired
\* before another saved it again: cleanup_expired_conversation_sessions deletes
\* what it collected without another look, and nothing else takes a session
\* that is in use.
RemovalJustified ==
    [][\A c \in Live : sessions'[c] = NoSession =>
          \/ clock >= sessions[c].expires
          \/ \E r \in Requests : /\ req[r].step = "drop" /\ req'[r].step = "erase"
                                 /\ req[r].conv = c /\ req[r].user = creator[c]
          \/ \E r \in Requests : /\ <<r, c>> \in disturbed
                                 /\ req'[r] # req[r]
          \/ Restart]_vars

\* Every request that arrives is answered, refused, cancelled or lost with the
\* process: no turn waits for ever for the loop or for another thread.
EveryRequestEnds ==
    \A r \in Requests : InFlight(r) ~> req[r].step = "done"
=============================================================================
