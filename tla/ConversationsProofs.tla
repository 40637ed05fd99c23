------------------------- MODULE ConversationsProofs -------------------------
(***************************************************************************)
(* Proofs about Conversations, for any number of users, conversations and  *)
(* requests.  For every schedule of the threads: type correctness, no      *)
(* user's words reach another user's conversation, transcripts stay within *)
(* their bound and in the order of the turns, sessions are removed for a   *)
(* reason only.  When handlers are not switched out: a deleted             *)
(* conversation stays deleted, and between turns a session's messages are  *)
(* the latest of the history the model is given.                           *)
(***************************************************************************)
EXTENDS Conversations, SequenceTheorems, TLAPS

-----------------------------------------------------------------------------
(***************************************************************************)
(* Where a request stands limits what it holds: a request that has arrived *)
(* has a user and a conversation, one about to save a session has one.     *)
(***************************************************************************)
Placed(q) ==
    /\ q.step # "idle" => q.user \in Users /\ q.conv \in Conversations
    /\ q.step \in {"scan", "purge"} => q.site # "none"
    /\ q.step \in {"lookup", "touch"} => q.site \in {"turn", "delete", "user", "assistant"}
    /\ q.step = "append" => q.site \in {"user", "assistant"}
    /\ q.step \in {"touch", "append"} => q.session \in Session

TypeInv == TypeOK /\ \A r \in Requests : Placed(req[r])

\* next_messages[-max_messages:] keeps a sequence of messages one.
LEMMA LastNType ==
    ASSUME NEW S, NEW s \in Seq(S), NEW n \in Nat
    PROVE  LastN(s, n) \in Seq(S)
<1>1. CASE Len(s) <= n
  BY <1>1 DEF LastN
<1>2. CASE ~(Len(s) <= n)
  <2>1. /\ Len(s) \in Nat
        /\ Len(s) - n + 1 \in 1..(Len(s) + 1)
    BY <1>2, LenProperties
  <2>2. \A i \in (Len(s) - n + 1)..Len(s) : s[i] \in S
    BY <2>1, ElementOfSeq
  <2>3. QED
    BY <1>2, <2>1, <2>2, SubSeqProperties DEF LastN
<1>3. QED
  BY <1>1, <1>2

\* append_conversation_message and touch_conversation_session return sessions
\* of the same user.
LEMMA SessionOperatorTypes ==
    ASSUME NEW s \in Session, NEW m \in Message, NEW now \in Nat
    PROVE  /\ append_conversation_message(s, m, now) \in Session
           /\ append_conversation_message(s, m, now).user = s.user
           /\ touch_conversation_session(s, now) \in Session
           /\ touch_conversation_session(s, now).user = s.user
           /\ touch_conversation_session(s, now).messages = s.messages
<1>1. Append(s.messages, m) \in Seq(Message)
  BY DEF Session
<1>2. LastN(Append(s.messages, m), MaxMessages) \in Seq(Message)
  BY <1>1, LastNType, SettingsAssumption
<1>3. now + TTL \in Nat
  BY SettingsAssumption
<1>4. QED
  BY <1>2, <1>3 DEF Session, append_conversation_message,
       touch_conversation_session, build_expiration_time

Arrived(q) == q \in Request /\ q.user \in Users /\ q.conv \in Conversations

\* Entering and leaving a cleanup, and leaving a handler, keep a request
\* well placed.
LEMMA RequestOperatorTypes ==
    ASSUME clock \in Nat, NEW q, Arrived(q)
    PROVE  /\ \A site \in Sites \ {"none"} :
                /\ BeginCleanup(q, site) \in Request
                /\ Placed(BeginCleanup(q, site))
           /\ q.step = "forget" => AfterForget(q) \in Request /\ Placed(AfterForget(q))
           /\ q.step = "purge" /\ q.site # "none"
                 => AfterPurge(q) \in Request /\ Placed(AfterPurge(q))
           /\ \A why \in Outcomes :
                Finished(q, why) \in Request /\ Placed(Finished(q, why))
<1>1. \A p : Arrived(p) => \A site \in Sites \ {"none"} :
                BeginCleanup(p, site) \in Request /\ Placed(BeginCleanup(p, site))
  <2> SUFFICES ASSUME NEW p, Arrived(p), NEW site \in Sites \ {"none"}
               PROVE  BeginCleanup(p, site) \in Request /\ Placed(BeginCleanup(p, site))
    OBVIOUS
  <2> DEFINE b == BeginCleanup(p, site)
  <2>1. b \in Request
    BY DEF Arrived, Request, BeginCleanup, Steps, HandlerSteps
  <2>2. /\ b.user \in Users /\ b.conv \in Conversations
        /\ b.site # "none" /\ b.step = "scan"
    BY DEF Arrived, Request, BeginCleanup
  <2>3. QED
    BY <2>1, <2>2 DEF Placed
<1>2. \A p : Arrived(p) /\ p.step = "forget" =>
                AfterForget(p) \in Request /\ Placed(AfterForget(p))
  <2> SUFFICES ASSUME NEW p, Arrived(p), p.step = "forget"
               PROVE  AfterForget(p) \in Request /\ Placed(AfterForget(p))
    OBVIOUS
  <2>1. CASE p.swept = {}
    BY <1>1, <2>1 DEF AfterForget, Sites
  <2>2. CASE p.swept # {}
    BY <2>2 DEF AfterForget, Arrived, Placed
  <2>3. QED
    BY <2>1, <2>2
<1>3. ASSUME q.step = "purge", q.site # "none"
      PROVE  AfterPurge(q) \in Request /\ Placed(AfterPurge(q))
  <2>1. CASE q.todo # {}
    BY <1>3, <2>1 DEF AfterPurge, Arrived, Placed
  <2>2. CASE q.todo = {} /\ q.site = "sweep"
    <3>1. /\ Arrived([q EXCEPT !.step = "forget"])
          /\ [q EXCEPT !.step = "forget"].step = "forget"
      BY DEF Arrived, Request, Steps, HandlerSteps
    <3>2. QED
      BY <1>2, <2>2, <3>1 DEF AfterPurge
  <2>3. CASE q.todo = {} /\ q.site # "sweep"
    <3>1. /\ [q EXCEPT !.step = "lookup"] \in Request
          /\ Placed([q EXCEPT !.step = "lookup"])
      BY <1>3, <2>3 DEF Arrived, Request, Steps, HandlerSteps, Sites, Placed
    <3>2. QED
      BY <2>3, <3>1 DEF AfterPurge
  <2>4. QED
    BY <2>1, <2>2, <2>3
<1>4. \A why \in Outcomes : Finished(q, why) \in Request /\ Placed(Finished(q, why))
  BY DEF Arrived, Request, Finished, Sites, Steps, Placed
<1>5. QED
  BY <1>1, <1>2, <1>3, <1>4

\* StoreSession, EraseHistory and the collisions keep the dictionaries and
\* the set of disturbances typed.
LEMMA StoreSessionType ==
    ASSUME TypeOK, NEW r \in Requests,
           NEW c \in Conversations,
           NEW s \in Session \cup {NoSession},
           StoreSession(r, c, s)
    PROVE  /\ sessions' = [sessions EXCEPT ![c] = s]
           /\ sessions' \in [Conversations -> Session \cup {NoSession}]
           /\ disturbed' \subseteq Disturbance
BY DEF TypeOK, StoreSession, Disturbance

LEMMA CalmType ==
    ASSUME TypeOK, NEW r
    PROVE  Calm(r) \subseteq Disturbance
BY DEF TypeOK, Calm

LEMMA EraseHistoryType ==
    ASSUME TypeOK, NEW r \in Requests, NEW c \in Conversations,
           EraseHistory(r, c) \/ EraseCollides(r, c)
    PROVE  /\ histories' \in [Conversations -> Seq(Requests)]
           /\ disturbed' \subseteq Disturbance
<1>1. <<>> \in Seq(Requests)
  OBVIOUS
<1>2. CASE EraseHistory(r, c)
  BY <1>1, <1>2, CalmType DEF TypeOK, EraseHistory, Disturbance
<1>3. CASE EraseCollides(r, c)
  BY <1>3, CalmType DEF TypeOK, EraseCollides
<1>4. QED
  BY <1>2, <1>3

\* A step that gives request r a well placed state keeps all requests typed.
LEMMA ReplaceRequest ==
    ASSUME TypeInv, NEW r \in Requests, NEW q \in Request, Placed(q),
           req' = [req EXCEPT ![r] = q]
    PROVE  /\ req' \in [Requests -> Request]
           /\ \A p \in Requests : Placed(req'[p])
BY DEF TypeInv, TypeOK

-----------------------------------------------------------------------------
(***************************************************************************)
(* Type correctness.                                                       *)
(***************************************************************************)

LEMMA InitType == Init => TypeInv
<1> SUFFICES ASSUME Init PROVE TypeInv
  OBVIOUS
<1>1. IdleRequest \in Request /\ Placed(IdleRequest)
  BY DEF IdleRequest, Request, Sites, Steps, Outcomes, Placed
<1>2. QED
  BY <1>1 DEF Init, TypeInv, TypeOK

\* A request that arrives, by any of the three routes, keeps the types.
LEMMA ArrivalType ==
    ASSUME TypeInv, NEW r \in Requests, Arrival(r)
    PROVE  TypeInv'
<1>0. clock \in Nat /\ req[r] \in Request
  BY DEF TypeInv, TypeOK
<1>1. PICK u \in Users, c \in Conversations :
        \/ create_conversation(r, u, c)
        \/ ArriveFor(r, u, c, "sweep")
        \/ ArriveFor(r, u, c, "delete")
  BY DEF Arrival, stream_conversation_message_route, delete_conversation_route
<1> DEFINE q == [req[r] EXCEPT !.user = u, !.conv = c]
<1>2. Arrived(q)
  BY <1>0 DEF Arrived, Request
<1> HIDE DEF q
<1>3. CASE create_conversation(r, u, c)
  <2>1. [user |-> u, messages |-> <<>>,
         expires |-> build_expiration_time(clock)] \in Session
    BY <1>0, SettingsAssumption DEF Session, build_expiration_time
  <2>2. /\ sessions' \in [Conversations -> Session \cup {NoSession}]
        /\ disturbed' \subseteq Disturbance
    BY <1>3, <2>1, StoreSessionType DEF create_conversation, TypeInv
  <2>3. req' = [req EXCEPT ![r] = Finished(q, "created")]
    BY <1>3 DEF create_conversation, q
  <2>4. Finished(q, "created") \in Request /\ Placed(Finished(q, "created"))
    BY <1>0, <1>2, RequestOperatorTypes DEF Outcomes
  <2>5. req' \in [Requests -> Request] /\ \A p \in Requests : Placed(req'[p])
    BY <2>3, <2>4, ReplaceRequest
  <2>6. QED
    BY <1>3, <2>2, <2>5 DEF create_conversation, TypeInv, TypeOK
<1>4. ASSUME NEW site \in {"sweep", "delete"}, ArriveFor(r, u, c, site)
      PROVE  TypeInv'
  <2>1. req' = [req EXCEPT ![r] = BeginCleanup(q, site)]
    BY <1>4 DEF ArriveFor, q
  <2>2. BeginCleanup(q, site) \in Request /\ Placed(BeginCleanup(q, site))
    BY <1>0, <1>2, RequestOperatorTypes DEF Sites
  <2>3. req' \in [Requests -> Request] /\ \A p \in Requests : Placed(req'[p])
    BY <2>1, <2>2, ReplaceRequest
  <2>4. QED
    BY <1>4, <2>3 DEF ArriveFor, TypeInv, TypeOK
<1>5. QED
  BY <1>1, <1>3, <1>4

\* The steps of a cleanup keep the types.
LEMMA CleanupType ==
    ASSUME TypeInv, NEW r \in Requests, CleanupStep(r)
    PROVE  TypeInv'
<1>0. /\ clock \in Nat /\ req[r] \in Request /\ Placed(req[r])
  BY DEF TypeInv, TypeOK
<1>1. req[r].step \in {"scan", "purge", "forget"}
  BY DEF CleanupStep, ScanSessions, ScanInterrupted, PurgeSession, delete_message_histories
<1>2. Arrived(req[r])
  BY <1>0, <1>1 DEF Arrived, Placed
<1>3. CASE ScanSessions(r)
  <2> DEFINE expired == {c \in Live :
                    is_conversation_session_expired(sessions[c], req[r].now)}
             swept == IF req[r].site = "sweep" THEN expired ELSE {}
             q == [req[r] EXCEPT !.step = "purge", !.now = 0,
                                 !.todo = expired, !.swept = swept]
  <2>1. expired \subseteq Conversations /\ swept \subseteq Conversations
    BY DEF Live
  <2>2. req' = [req EXCEPT ![r] = AfterPurge(q)]
    BY <1>3 DEF ScanSessions
  <2> HIDE DEF expired, swept
  <2>3. Arrived(q) /\ q.step = "purge" /\ q.site # "none"
    BY <1>0, <1>2, <1>3, <2>1 DEF ScanSessions, Arrived, Request, Steps, HandlerSteps, Placed
  <2> HIDE DEF q
  <2>4. AfterPurge(q) \in Request /\ Placed(AfterPurge(q))
    BY <1>0, <2>3, RequestOperatorTypes
  <2>5. req' \in [Requests -> Request] /\ \A p \in Requests : Placed(req'[p])
    BY <2>2, <2>4, ReplaceRequest
  <2>6. QED
    BY <1>3, <2>5, CalmType DEF ScanSessions, TypeInv, TypeOK
<1>4. ASSUME Raise(r, "error")
      PROVE  req' \in [Requests -> Request] /\ \A p \in Requests : Placed(req'[p])
  <2>1. PICK why \in {"stream_error", "error"} : req' = [req EXCEPT ![r] = Finished(req[r], why)]
    BY <1>4 DEF Raise, Finish
  <2>2. Finished(req[r], why) \in Request /\ Placed(Finished(req[r], why))
    BY <1>0, <1>2, RequestOperatorTypes DEF Outcomes
  <2>3. QED
    BY <2>1, <2>2, ReplaceRequest
<1>5. CASE ScanInterrupted(r)
  BY <1>4, <1>5, CalmType DEF ScanInterrupted, TypeInv, TypeOK
<1>6. ASSUME NEW c \in Conversations, PurgeSession(r, c)
      PROVE  TypeInv'
  <2> DEFINE q == [req[r] EXCEPT !.todo = req[r].todo \ {c}]
  <2>1. CASE c \in Live
    <3>1. /\ sessions' \in [Conversations -> Session \cup {NoSession}]
          /\ disturbed' \subseteq Disturbance
      BY <1>6, <2>1, StoreSessionType DEF PurgeSession, TypeInv
    <3>2. Arrived(q) /\ q.step = "purge" /\ q.site # "none"
      BY <1>0, <1>2, <1>6 DEF PurgeSession, Arrived, Request, Placed
    <3>3. req' = [req EXCEPT ![r] = AfterPurge(q)]
      BY <1>6, <2>1 DEF PurgeSession
    <3> HIDE DEF q
    <3>4. AfterPurge(q) \in Request /\ Placed(AfterPurge(q))
      BY <1>0, <3>2, RequestOperatorTypes
    <3>5. req' \in [Requests -> Request] /\ \A p \in Requests : Placed(req'[p])
      BY <3>3, <3>4, ReplaceRequest
    <3>6. QED
      BY <1>6, <3>1, <3>5 DEF PurgeSession, TypeInv, TypeOK
  <2>2. CASE c \notin Live
    BY <1>4, <1>6, <2>2, CalmType DEF PurgeSession, TypeInv, TypeOK
  <2>3. QED
    BY <2>1, <2>2
<1>7. ASSUME NEW c \in Conversations, delete_message_histories(r, c)
      PROVE  TypeInv'
  <2> DEFINE q == [req[r] EXCEPT !.swept = req[r].swept \ {c}]
  <2>1. Arrived(q) /\ q.step = "forget"
    BY <1>0, <1>2, <1>7 DEF delete_message_histories, Arrived, Request
  <2>2. req' = [req EXCEPT ![r] = AfterForget(q)] \/ Raise(r, "error")
    BY <1>7 DEF delete_message_histories
  <2> HIDE DEF q
  <2>3. AfterForget(q) \in Request /\ Placed(AfterForget(q))
    BY <1>0, <2>1, RequestOperatorTypes
  <2>4. req' \in [Requests -> Request] /\ \A p \in Requests : Placed(req'[p])
    BY <1>4, <2>2, <2>3, ReplaceRequest
  <2>5. histories' \in [Conversations -> Seq(Requests)] /\ disturbed' \subseteq Disturbance
    BY <1>7, EraseHistoryType DEF delete_message_histories, TypeInv
  <2>6. QED
    BY <1>7, <2>4, <2>5 DEF delete_message_histories, TypeInv, TypeOK
<1>8. QED
  BY <1>3, <1>5, <1>6, <1>7 DEF CleanupStep

\* The steps of get_conversation_for_user keep the types.
LEMMA SessionType ==
    ASSUME TypeInv, NEW r \in Requests, SessionStep(r)
    PROVE  TypeInv'
<1>0. /\ clock \in Nat /\ req[r] \in Request /\ Placed(req[r])
  BY DEF TypeInv, TypeOK
<1>1. req[r].step \in {"lookup", "evict", "touch"}
  BY DEF SessionStep, LookupSession, EvictSession, TouchSession
<1>2. Arrived(req[r])
  BY <1>0, <1>1 DEF Arrived, Placed
<1>3. ASSUME NEW why \in Outcomes, Raise(r, why)
      PROVE  req' \in [Requests -> Request] /\ \A p \in Requests : Placed(req'[p])
  <2>1. PICK w \in Outcomes : req' = [req EXCEPT ![r] = Finished(req[r], w)]
    BY <1>3 DEF Raise, Finish, Outcomes
  <2>2. Finished(req[r], w) \in Request /\ Placed(Finished(req[r], w))
    BY <1>0, <1>2, RequestOperatorTypes
  <2>3. QED
    BY <2>1, <2>2, ReplaceRequest
<1>4. CASE LookupSession(r)
  <2> DEFINE s == sessions[req[r].conv]
             evicted == [req[r] EXCEPT !.step = "evict"]
             touched == [req[r] EXCEPT !.step = "touch", !.now = clock, !.session = s]
  <2>1. s \in Session \cup {NoSession}
    BY <1>2 DEF Arrived, TypeInv, TypeOK
  <2>2. evicted \in Request /\ Placed(evicted)
    BY <1>0, <1>2 DEF Arrived, Request, Steps, HandlerSteps, Placed
  <2>3. ASSUME s # NoSession
        PROVE  touched \in Request /\ Placed(touched)
    <3> HIDE DEF s
    <3>1. s \in Session
      BY <2>1, <2>3
    <3>2. touched \in Request
      BY <1>0, <1>2, <3>1 DEF Arrived, Request, Steps, HandlerSteps
    <3>3. /\ touched.step = "touch" /\ touched.session \in Session
          /\ touched.site = req[r].site /\ touched.user = req[r].user
          /\ touched.conv = req[r].conv
      BY <1>0, <3>1 DEF Request
    <3>4. QED
      BY <1>0, <1>2, <1>4, <3>2, <3>3 DEF LookupSession, Arrived, Placed
  <2>4. \/ Raise(r, "not_found") \/ Raise(r, "denied")
        \/ req' = [req EXCEPT ![r] = evicted]
        \/ s # NoSession /\ req' = [req EXCEPT ![r] = touched]
    BY <1>4 DEF LookupSession
  <2> HIDE DEF s, evicted, touched
  <2>5. req' \in [Requests -> Request] /\ \A p \in Requests : Placed(req'[p])
    BY <1>3, <2>2, <2>3, <2>4, ReplaceRequest DEF Outcomes
  <2>6. QED
    BY <1>4, <2>5 DEF LookupSession, TypeInv, TypeOK
<1>5. CASE EvictSession(r)
  <2>1. CASE StoreSession(r, req[r].conv, NoSession) /\ Raise(r, "expired")
    <3>1. /\ sessions' \in [Conversations -> Session \cup {NoSession}]
          /\ disturbed' \subseteq Disturbance
      BY <1>2, <2>1, StoreSessionType DEF Arrived, TypeInv
    <3>2. req' \in [Requests -> Request] /\ \A p \in Requests : Placed(req'[p])
      BY <1>3, <2>1 DEF Outcomes
    <3>3. QED
      BY <1>5, <3>1, <3>2 DEF EvictSession, TypeInv, TypeOK
  <2>2. CASE DropCollides(r)
    <3>1. req' \in [Requests -> Request] /\ \A p \in Requests : Placed(req'[p])
      BY <1>3, <2>2 DEF DropCollides, Outcomes
    <3>2. QED
      BY <1>5, <2>2, <3>1, CalmType DEF EvictSession, DropCollides, TypeInv, TypeOK
  <2>3. QED
    BY <1>5, <2>1, <2>2 DEF EvictSession
<1>6. CASE TouchSession(r)
  <2> DEFINE s == touch_conversation_session(req[r].session, req[r].now)
             next == CASE req[r].site = "turn" -> "load"
                       [] req[r].site = "delete" -> "drop"
                       [] OTHER -> "append"
             q == [req[r] EXCEPT !.session = s, !.now = 0, !.step = next]
  <2>1. req[r].session \in Session /\ req[r].now \in Nat
    BY <1>0, <1>6 DEF TouchSession, Placed, Request
  <2>2. s \in Session
    BY <2>1, SessionOperatorTypes, SettingsAssumption, SMTT(30)
       DEF Session, touch_conversation_session, build_expiration_time
  <2>3. StoreSession(r, req[r].conv, s)
    BY <1>6 DEF TouchSession
  <2>4. req' = [req EXCEPT ![r] = q]
    BY <1>0, <1>6 DEF TouchSession, TypeInv, TypeOK
  <2>5. /\ next \in {"load", "drop", "append"}
        /\ next = "append" => req[r].site \in {"user", "assistant"}
    BY <1>0, <1>6 DEF TouchSession, Placed
  <2> HIDE DEF s, next
  <2>6. /\ q \in Request /\ q.step = next /\ q.session = s
        /\ q.site = req[r].site /\ q.user = req[r].user /\ q.conv = req[r].conv
    BY <1>0, <2>2, <2>5 DEF Request, Steps, HandlerSteps
  <2> HIDE DEF q
  <2>7. Placed(q)
    BY <1>2, <2>2, <2>5, <2>6 DEF Placed, Arrived
  <2>8. req' \in [Requests -> Request] /\ \A p \in Requests : Placed(req'[p])
    BY <2>4, <2>6, <2>7, ReplaceRequest
  <2>9. /\ sessions' \in [Conversations -> Session \cup {NoSession}]
        /\ disturbed' \subseteq Disturbance
    BY <1>2, <2>2, <2>3, StoreSessionType DEF Arrived, TypeInv
  <2>10. QED
    BY <1>6, <2>8, <2>9 DEF TouchSession, TypeInv, TypeOK
<1>7. QED
  BY <1>4, <1>5, <1>6 DEF SessionStep

\* The steps of a turn, and what ends one, keep the types.
LEMMA TurnType ==
    ASSUME TypeInv, NEW r \in Requests,
           TurnStep(r) \/ StreamFails(r) \/ Disconnect(r)
    PROVE  TypeInv'
<1>0. /\ clock \in Nat /\ req[r] \in Request /\ Placed(req[r])
      /\ histories \in [Conversations -> Seq(Requests)]
  BY DEF TypeInv, TypeOK
<1>1. req[r].step \in {"load", "stream", "append", "reply"}
  BY DEF TurnStep, StreamFails, Disconnect, load_message_history,
         save_message_history, append_message_to_conversation, EndTurn
<1>2. Arrived(req[r])
  BY <1>0, <1>1 DEF Arrived, Placed
<1>3. CASE load_message_history(r)
  <2> DEFINE h == histories[req[r].conv]
             q == [req[r] EXCEPT !.context = h, !.session = NoSession, !.step = "stream"]
  <2>1. h \in Seq(Requests)
    BY <1>0, <1>2 DEF Arrived
  <2>2. req' = [req EXCEPT ![r] = q]
    BY <1>0, <1>3 DEF load_message_history, TypeInv, TypeOK
  <2> HIDE DEF h
  <2>3. q \in Request /\ Placed(q)
    BY <1>0, <1>2, <2>1 DEF Arrived, Request, Steps, Placed
  <2> HIDE DEF q
  <2>4. req' \in [Requests -> Request] /\ \A p \in Requests : Placed(req'[p])
    BY <2>2, <2>3, ReplaceRequest
  <2>5. QED
    BY <1>3, <2>4 DEF load_message_history, TypeInv, TypeOK
<1>4. CASE save_message_history(r)
  <2>1. req' = [req EXCEPT ![r] = BeginCleanup(req[r], "user")]
    BY <1>4 DEF save_message_history
  <2>2. BeginCleanup(req[r], "user") \in Request /\ Placed(BeginCleanup(req[r], "user"))
    BY <1>0, <1>2, RequestOperatorTypes DEF Sites
  <2>3. req' \in [Requests -> Request] /\ \A p \in Requests : Placed(req'[p])
    BY <2>1, <2>2, ReplaceRequest
  <2>4. Append(req[r].context, r) \in Seq(Requests) /\ Append(log, r) \in Seq(Requests)
    BY <1>0 DEF Request, TypeInv, TypeOK
  <2>5. QED
    BY <1>4, <2>3, <2>4 DEF save_message_history, TypeInv, TypeOK
<1>5. CASE append_message_to_conversation(r)
  <2> DEFINE s == append_conversation_message(req[r].session, <<r, req[r].site>>, clock)
             user == [req[r] EXCEPT !.session = NoSession]
             reply == [req[r] EXCEPT !.session = NoSession, !.site = "none", !.step = "reply"]
  <2>1. req[r].session \in Session /\ <<r, req[r].site>> \in Message
    BY <1>0, <1>5 DEF append_message_to_conversation, Placed, Message
  <2>2. s \in Session
    BY <1>0, <2>1, SessionOperatorTypes
  <2>3. /\ StoreSession(r, req[r].conv, s)
        /\ \/ req' = [req EXCEPT ![r] = BeginCleanup(user, "assistant")]
           \/ req' = [req EXCEPT ![r] = reply]
    BY <1>5 DEF append_message_to_conversation
  <2> HIDE DEF s
  <2>4. Arrived(user) /\ reply \in Request /\ Placed(reply)
    BY <1>0, <1>2 DEF Arrived, Request, Sites, Steps, Placed
  <2> HIDE DEF user, reply
  <2>5. BeginCleanup(user, "assistant") \in Request /\ Placed(BeginCleanup(user, "assistant"))
    BY <1>0, <2>4, RequestOperatorTypes DEF Sites
  <2>6. req' \in [Requests -> Request] /\ \A p \in Requests : Placed(req'[p])
    BY <2>3, <2>4, <2>5, ReplaceRequest
  <2>7. /\ sessions' \in [Conversations -> Session \cup {NoSession}]
        /\ disturbed' \subseteq Disturbance
    BY <1>2, <2>2, <2>3, StoreSessionType DEF Arrived, TypeInv
  <2>8. QED
    BY <1>5, <2>6, <2>7 DEF append_message_to_conversation, TypeInv, TypeOK
<1>6. CASE EndTurn(r) \/ StreamFails(r) \/ Disconnect(r)
  <2>1. PICK why \in Outcomes : req' = [req EXCEPT ![r] = Finished(req[r], why)]
    BY <1>6 DEF EndTurn, StreamFails, Disconnect, Finish, Outcomes
  <2>2. Finished(req[r], why) \in Request /\ Placed(Finished(req[r], why))
    BY <1>0, <1>2, RequestOperatorTypes
  <2>3. req' \in [Requests -> Request] /\ \A p \in Requests : Placed(req'[p])
    BY <2>1, <2>2, ReplaceRequest
  <2>4. QED
    BY <1>6, <2>3 DEF EndTurn, StreamFails, Disconnect, TypeInv, TypeOK
<1>7. QED
  BY <1>3, <1>4, <1>5, <1>6 DEF TurnStep

\* The last steps of a deletion keep the types.
LEMMA DeleteType ==
    ASSUME TypeInv, NEW r \in Requests, DeleteStep(r)
    PROVE  TypeInv'
<1>0. /\ clock \in Nat /\ req[r] \in Request /\ Placed(req[r])
  BY DEF TypeInv, TypeOK
<1>1. Arrived(req[r])
  BY <1>0 DEF DeleteStep, delete_conversation_session, delete_message_history, Arrived, Placed
<1>2. ASSUME Raise(r, "error")
      PROVE  req' \in [Requests -> Request] /\ \A p \in Requests : Placed(req'[p])
  <2>1. PICK why \in {"stream_error", "error"} : req' = [req EXCEPT ![r] = Finished(req[r], why)]
    BY <1>2 DEF Raise, Finish
  <2>2. Finished(req[r], why) \in Request /\ Placed(Finished(req[r], why))
    BY <1>0, <1>1, RequestOperatorTypes DEF Outcomes
  <2>3. QED
    BY <2>1, <2>2, ReplaceRequest
<1>3. CASE delete_conversation_session(r)
  <2> DEFINE q == [req[r] EXCEPT !.session = NoSession, !.step = "erase"]
  <2>1. \/ StoreSession(r, req[r].conv, NoSession) /\ req' = [req EXCEPT ![r] = q]
        \/ DropCollides(r)
    BY <1>0, <1>3 DEF delete_conversation_session, TypeInv, TypeOK
  <2>2. q \in Request /\ Placed(q)
    BY <1>0, <1>1 DEF Arrived, Request, Steps, HandlerSteps, Placed
  <2> HIDE DEF q
  <2>3. req' \in [Requests -> Request] /\ \A p \in Requests : Placed(req'[p])
    BY <1>2, <2>1, <2>2, ReplaceRequest DEF DropCollides
  <2>4. ASSUME StoreSession(r, req[r].conv, NoSession)
        PROVE  /\ sessions' \in [Conversations -> Session \cup {NoSession}]
               /\ disturbed' \subseteq Disturbance
    BY <1>1, <2>4, StoreSessionType DEF Arrived, TypeInv
  <2>5. /\ sessions' \in [Conversations -> Session \cup {NoSession}]
        /\ disturbed' \subseteq Disturbance
    BY <2>1, <2>4, CalmType DEF DropCollides, TypeInv, TypeOK
  <2>6. QED
    BY <1>3, <2>3, <2>5 DEF delete_conversation_session, TypeInv, TypeOK
<1>4. CASE delete_message_history(r)
  <2>1. req' = [req EXCEPT ![r] = Finished(req[r], "deleted")] \/ Raise(r, "error")
    BY <1>4 DEF delete_message_history, Finish
  <2>2. Finished(req[r], "deleted") \in Request /\ Placed(Finished(req[r], "deleted"))
    BY <1>0, <1>1, RequestOperatorTypes DEF Outcomes
  <2>3. req' \in [Requests -> Request] /\ \A p \in Requests : Placed(req'[p])
    BY <1>2, <2>1, <2>2, ReplaceRequest
  <2>4. histories' \in [Conversations -> Seq(Requests)] /\ disturbed' \subseteq Disturbance
    BY <1>1, <1>4, EraseHistoryType DEF delete_message_history, Arrived, TypeInv
  <2>5. QED
    BY <1>4, <2>3, <2>4 DEF delete_message_history, TypeInv, TypeOK
<1>5. QED
  BY <1>3, <1>4 DEF DeleteStep

\* A restart keeps the types.
LEMMA RestartType ==
    ASSUME TypeInv, Restart
    PROVE  TypeInv'
<1>1. ASSUME NEW r \in Requests, InFlight(r)
      PROVE  Finished(req[r], "lost") \in Request /\ Placed(Finished(req[r], "lost"))
  BY <1>1, RequestOperatorTypes DEF InFlight, TypeInv, TypeOK, Placed, Arrived, Outcomes
<1>2. /\ req' \in [Requests -> Request]
      /\ \A r \in Requests : Placed(req'[r])
  BY <1>1 DEF Restart, TypeInv, TypeOK
<1>3. QED
  BY <1>2 DEF Restart, TypeInv, TypeOK

LEMMA NextType == TypeInv /\ [Next]_vars => TypeInv'
<1> SUFFICES ASSUME TypeInv, [Next]_vars PROVE TypeInv'
  OBVIOUS
<1>1. CASE Tick
  BY <1>1 DEF Tick, TypeInv, TypeOK
<1>2. CASE Restart
  BY <1>2, RestartType
<1>3. ASSUME NEW r \in Requests, Arrival(r) \/ Progress(r) \/ Disconnect(r)
      PROVE  TypeInv'
  BY <1>3, ArrivalType, CleanupType, SessionType, TurnType, DeleteType DEF Progress
<1>4. CASE UNCHANGED vars
  BY <1>4 DEF vars, TypeInv, TypeOK
<1>5. QED
  BY <1>1, <1>2, <1>3, <1>4 DEF Next

\* In every behaviour of the service the variables have their types, and a
\* request that has arrived has a user and a conversation.
THEOREM TypeCorrect == Spec => []TypeInv
BY InitType, NextType, PTL DEF Spec

\* The type invariant that the runs check.
COROLLARY TypeSafe == Spec => []TypeOK
BY TypeCorrect, PTL DEF TypeInv

-----------------------------------------------------------------------------
(***************************************************************************)
(* Confidentiality.  Confidential is not inductive: a thread works on a    *)
(* snapshot of a session, on ids it has checked earlier, and on a history  *)
(* it has loaded earlier.  OwnerInv says of each of these that it belongs  *)
(* to the creator of the conversation, and that a request which has got    *)
(* past the check of get_conversation_for_user is the creator's.           *)
(***************************************************************************)
OwnTurn(R, t, u) == R[t].step # "idle" /\ R[t].user = u
OwnHistory(R, h, u) == \A i \in DOMAIN h : OwnTurn(R, h[i], u)
OwnSession(R, s, u) ==
    s.user = u /\ \A i \in DOMAIN s.messages : OwnTurn(R, s.messages[i][1], u)

PastCheck(q) ==
    \/ q.step \in {"touch", "load", "stream", "append", "reply"}
    \/ q.step # "idle" /\ q.site \in {"user", "assistant"}

OwnerInv ==
    /\ \A c \in Conversations :
          /\ sessions[c] # NoSession => OwnSession(req, sessions[c], creator[c])
          /\ OwnHistory(req, histories[c], creator[c])
    /\ \A r \in Requests :
          /\ req[r].step = "idle" => req[r].context = <<>> /\ req[r].session = NoSession
          /\ req[r].session # NoSession =>
                OwnSession(req, req[r].session, creator[req[r].conv])
          /\ OwnHistory(req, req[r].context, req[r].user)
          /\ PastCheck(req[r]) => creator[req[r].conv] = req[r].user

\* A step of request r that writes only what belongs to the creators keeps
\* OwnerInv: turns keep their user, and created conversations their creator.
LEMMA OwnerStep ==
    ASSUME TypeInv, TypeInv', OwnerInv, NEW r \in Requests,
           \A c \in Conversations : creator[c] # NoUser => creator'[c] = creator[c],
           \A p \in Requests \ {r} : req'[p] = req[p],
           req'[r].step # "idle",
           req[r].step # "idle" => /\ req'[r].user = req[r].user
                                   /\ req'[r].conv = req[r].conv,
           \A c \in Conversations :
              /\ \/ sessions'[c] \in {NoSession, sessions[c]}
                 \/ OwnSession(req', sessions'[c], creator'[c])
              /\ \/ histories'[c] \in {<<>>, histories[c]}
                 \/ OwnHistory(req', histories'[c], creator'[c]),
           \/ req'[r].session \in {NoSession, req[r].session}
           \/ OwnSession(req', req'[r].session, creator'[req'[r].conv]),
           \/ req'[r].context = req[r].context
           \/ OwnHistory(req', req'[r].context, req'[r].user),
           PastCheck(req'[r]) => creator'[req'[r].conv] = req'[r].user
    PROVE  OwnerInv'
<1>1. \A t \in Requests : \A u : OwnTurn(req, t, u) => OwnTurn(req', t, u)
  BY DEF OwnTurn
<1>2. \A h \in Seq(Requests) : \A u : OwnHistory(req, h, u) => OwnHistory(req', h, u)
  BY <1>1 DEF OwnHistory
<1>3. \A s \in Session : \A u : OwnSession(req, s, u) => OwnSession(req', s, u)
  <2> SUFFICES ASSUME NEW s \in Session, NEW u, OwnSession(req, s, u),
                      NEW i \in DOMAIN s.messages
               PROVE  OwnTurn(req', s.messages[i][1], u)
    BY DEF OwnSession
  <2>1. s.messages \in Seq(Message)
    BY DEF Session
  <2>2. s.messages[i] \in Message
    BY <2>1
  <2>3. s.messages[i][1] \in Requests
    BY <2>2 DEF Message
  <2>4. QED
    BY <1>1, <2>3 DEF OwnSession
<1>4. \A h \in Seq(Requests) : OwnHistory(req, h, NoUser) => DOMAIN h = {}
  BY NullAssumption DEF OwnHistory, OwnTurn, TypeInv, Placed
<1>5. \A s \in Session : \A u : OwnSession(req, s, u) => u \in Users
  BY DEF OwnSession, Session
<1>6. ASSUME NEW c \in Conversations
      PROVE  /\ sessions'[c] # NoSession => OwnSession(req', sessions'[c], creator'[c])
             /\ OwnHistory(req', histories'[c], creator'[c])
  <2>1. ASSUME sessions'[c] = sessions[c], sessions[c] # NoSession
        PROVE  OwnSession(req', sessions[c], creator'[c])
    <3>1. sessions[c] \in Session /\ OwnSession(req, sessions[c], creator[c])
      BY <2>1 DEF TypeInv, TypeOK, OwnerInv
    <3>2. creator'[c] = creator[c]
      BY <1>5, <3>1, NullAssumption
    <3>3. QED
      BY <1>3, <3>1, <3>2
  <2>2. OwnHistory(req', <<>>, creator'[c])
    BY DEF OwnHistory
  <2>3. OwnHistory(req', histories[c], creator'[c])
    <3>1. histories[c] \in Seq(Requests) /\ OwnHistory(req, histories[c], creator[c])
      BY DEF TypeInv, TypeOK, OwnerInv
    <3>2. CASE creator[c] = NoUser
      BY <1>4, <3>1, <3>2 DEF OwnHistory
    <3>3. CASE creator[c] # NoUser
      BY <1>2, <3>1, <3>3
    <3>4. QED
      BY <3>2, <3>3
  <2>4. QED
    BY <2>1, <2>2, <2>3
<1>7. ASSUME NEW p \in Requests, p # r
      PROVE  /\ req'[p].step = "idle" => req'[p].context = <<>> /\ req'[p].session = NoSession
             /\ req'[p].session # NoSession =>
                   OwnSession(req', req'[p].session, creator'[req'[p].conv])
             /\ OwnHistory(req', req'[p].context, req'[p].user)
             /\ PastCheck(req'[p]) => creator'[req'[p].conv] = req'[p].user
  <2>1. req'[p] = req[p] /\ req[p] \in Request /\ Placed(req[p])
    BY <1>7 DEF TypeInv, TypeOK
  <2>2. req[p].step = "idle" => req[p].context = <<>> /\ req[p].session = NoSession
    BY DEF OwnerInv
  <2>3. ASSUME req[p].session # NoSession
        PROVE  OwnSession(req', req[p].session, creator'[req[p].conv])
    <3>1. /\ req[p].session \in Session
          /\ OwnSession(req, req[p].session, creator[req[p].conv])
      BY <2>1, <2>3 DEF Request, OwnerInv
    <3>2. req[p].conv \in Conversations
      BY <2>1, <2>2, <2>3 DEF Placed
    <3>3. creator'[req[p].conv] = creator[req[p].conv]
      BY <1>5, <3>1, <3>2, NullAssumption
    <3>4. QED
      BY <1>3, <3>1, <3>3
  <2>4. OwnHistory(req', req[p].context, req[p].user)
    BY <1>2, <2>1 DEF Request, OwnerInv
  <2>5. PastCheck(req[p]) => creator'[req[p].conv] = req[p].user
    <3> HAVE PastCheck(req[p])
    <3>1. req[p].user \in Users /\ req[p].conv \in Conversations
      BY <2>1 DEF PastCheck, Placed
    <3>2. creator[req[p].conv] = req[p].user
      BY DEF OwnerInv
    <3>3. QED
      BY <3>1, <3>2, NullAssumption
  <2>6. QED
    BY <2>1, <2>2, <2>3, <2>4, <2>5
<1>8. /\ req'[r].session # NoSession =>
            OwnSession(req', req'[r].session, creator'[req'[r].conv])
      /\ OwnHistory(req', req'[r].context, req'[r].user)
  <2>1. req[r] \in Request /\ Placed(req[r])
    BY DEF TypeInv, TypeOK
  <2>2. ASSUME req'[r].session = req[r].session, req[r].session # NoSession
        PROVE  OwnSession(req', req[r].session, creator'[req'[r].conv])
    <3>1. req[r].step # "idle"
      BY <2>2 DEF OwnerInv
    <3>2. /\ req[r].session \in Session
          /\ OwnSession(req, req[r].session, creator[req[r].conv])
          /\ req[r].conv \in Conversations
          /\ req'[r].conv = req[r].conv
      BY <2>1, <2>2, <3>1 DEF Request, OwnerInv, Placed
    <3>3. creator'[req[r].conv] = creator[req[r].conv]
      BY <1>5, <3>2, NullAssumption
    <3>4. QED
      BY <1>3, <3>2, <3>3
  <2>3. ASSUME req'[r].context = req[r].context
        PROVE  OwnHistory(req', req[r].context, req'[r].user)
    <3>1. CASE req[r].step = "idle"
      BY <3>1 DEF OwnerInv, OwnHistory
    <3>2. CASE req[r].step # "idle"
      BY <1>2, <2>1, <3>2 DEF Request, OwnerInv
    <3>3. QED
      BY <3>1, <3>2
  <2>4. QED
    BY <2>2, <2>3
<1>9. QED
  BY <1>6, <1>7, <1>8 DEF OwnerInv

\* What the operators on requests leave alone.
Same(p, q) ==
    /\ p.user = q.user /\ p.conv = q.conv /\ p.context = q.context
    /\ p.session \in {NoSession, q.session}
    /\ p.step # "idle"

LEMMA RequestOperatorOwner ==
    ASSUME NEW q \in Request
    PROVE  /\ \A site : /\ Same(BeginCleanup(q, site), q)
                        /\ BeginCleanup(q, site).step = "scan"
                        /\ BeginCleanup(q, site).site = site
           /\ q.step = "forget" => /\ Same(AfterForget(q), q)
                                   /\ PastCheck(AfterForget(q)) => PastCheck(q)
           /\ q.step = "purge" => /\ Same(AfterPurge(q), q)
                                  /\ PastCheck(AfterPurge(q)) => PastCheck(q)
           /\ \A why : Same(Finished(q, why), q) /\ ~PastCheck(Finished(q, why))
<1>1. \A p \in Request : \A site : /\ Same(BeginCleanup(p, site), p)
                                   /\ BeginCleanup(p, site).step = "scan"
                                   /\ BeginCleanup(p, site).site = site
  BY DEF Same, BeginCleanup, Request
<1>2. \A p \in Request : p.step = "forget" =>
         Same(AfterForget(p), p) /\ (PastCheck(AfterForget(p)) => PastCheck(p))
  <2> SUFFICES ASSUME NEW p \in Request, p.step = "forget"
               PROVE  Same(AfterForget(p), p) /\ (PastCheck(AfterForget(p)) => PastCheck(p))
    OBVIOUS
  <2>1. CASE p.swept = {}
    BY <1>1, <2>1 DEF AfterForget, PastCheck
  <2>2. CASE p.swept # {}
    BY <2>2 DEF AfterForget, Same
  <2>3. QED
    BY <2>1, <2>2
<1>3. ASSUME q.step = "purge"
      PROVE  Same(AfterPurge(q), q) /\ (PastCheck(AfterPurge(q)) => PastCheck(q))
  <2> DEFINE f == [q EXCEPT !.step = "forget"]
             l == [q EXCEPT !.step = "lookup"]
  <2>1. /\ f \in Request /\ f.step = "forget" /\ Same(f, q) /\ f.site = q.site
        /\ f.session = q.session
        /\ l.step = "lookup" /\ Same(l, q) /\ l.site = q.site
    BY <1>3 DEF Request, Steps, HandlerSteps, Same
  <2>2. PastCheck(f) => PastCheck(q)
    BY <1>3, <2>1 DEF PastCheck
  <2>3. PastCheck(l) => PastCheck(q)
    BY <1>3, <2>1 DEF PastCheck
  <2>4. AfterPurge(q) \in {q, AfterForget(f), l}
    BY DEF AfterPurge
  <2> HIDE DEF f, l
  <2>5. Same(AfterForget(f), q) /\ (PastCheck(AfterForget(f)) => PastCheck(q))
    BY <1>2, <2>1, <2>2 DEF Same
  <2>6. Same(q, q)
    BY <1>3 DEF Same
  <2>7. QED
    BY <2>1, <2>3, <2>4, <2>5, <2>6
<1>4. \A why : Same(Finished(q, why), q) /\ ~PastCheck(Finished(q, why))
  BY DEF Finished, Request, Same, PastCheck
<1>5. QED
  BY <1>1, <1>2, <1>3, <1>4

\* A step that only moves request r on, without touching the dictionaries
\* other than by removals.
LEMMA OwnerLocal ==
    ASSUME TypeInv, TypeInv', OwnerInv, NEW r \in Requests, NEW q,
           req' = [req EXCEPT ![r] = q], Same(q, req[r]),
           PastCheck(q) => PastCheck(req[r]),
           creator' = creator,
           \A c \in Conversations : /\ sessions'[c] \in {NoSession, sessions[c]}
                                    /\ histories'[c] \in {<<>>, histories[c]}
    PROVE  OwnerInv'
<1>1. req'[r] = q /\ \A p \in Requests \ {r} : req'[p] = req[p]
  BY DEF TypeInv, TypeOK
<1>2. PastCheck(q) => creator[req[r].conv] = req[r].user
  BY DEF OwnerInv
<1>3. QED
  BY <1>1, <1>2, OwnerStep DEF Same

LEMMA InitOwner == Init => OwnerInv
<1> SUFFICES ASSUME Init PROVE OwnerInv
  OBVIOUS
<1>1. \A r \in Requests : /\ req[r].step = "idle" /\ req[r].context = <<>>
                          /\ req[r].session = NoSession
  BY DEF Init, IdleRequest
<1>2. \A u : OwnHistory(req, <<>>, u)
  BY DEF OwnHistory
<1>3. \A r \in Requests : ~PastCheck(req[r])
  BY <1>1 DEF PastCheck
<1>4. QED
  BY <1>1, <1>2, <1>3 DEF Init, OwnerInv

\* Arrivals: a new conversation belongs to its creator.
LEMMA ArrivalOwner ==
    ASSUME TypeInv, TypeInv', OwnerInv, NEW r \in Requests, Arrival(r)
    PROVE  OwnerInv'
<1>0. /\ req[r] \in Request /\ req \in [Requests -> Request]
      /\ creator \in [Conversations -> Users \cup {NoUser}]
      /\ sessions \in [Conversations -> Session \cup {NoSession}]
  BY DEF TypeInv, TypeOK
<1>1. PICK u \in Users, c \in Conversations :
        \/ create_conversation(r, u, c)
        \/ ArriveFor(r, u, c, "sweep")
        \/ ArriveFor(r, u, c, "delete")
  BY DEF Arrival, stream_conversation_message_route, delete_conversation_route
<1> DEFINE q == [req[r] EXCEPT !.user = u, !.conv = c]
<1>2. /\ q \in Request /\ q.context = req[r].context /\ q.session = req[r].session
  BY <1>0 DEF Request
<1>3. req[r].step = "idle"
  BY <1>1 DEF create_conversation, ArriveFor, Arrives
<1>4. CASE create_conversation(r, u, c)
  <2> DEFINE s == [user |-> u, messages |-> <<>>,
                   expires |-> build_expiration_time(clock)]
  <2>1. req' = [req EXCEPT ![r] = Finished(q, "created")]
    BY <1>4 DEF create_conversation
  <2>2. /\ sessions' = [sessions EXCEPT ![c] = s]
        /\ creator' = [creator EXCEPT ![c] = u] /\ creator[c] = NoUser
        /\ histories' = histories
    BY <1>4 DEF create_conversation, StoreSession
  <2>3. OwnSession(req', s, u)
    BY DEF OwnSession
  <2> HIDE DEF s, q
  <2>4. /\ Same(Finished(q, "created"), q) /\ ~PastCheck(Finished(q, "created"))
    BY <1>2, RequestOperatorOwner
  <2>5. \A d \in Conversations : \/ sessions'[d] \in {NoSession, sessions[d]}
                                 \/ OwnSession(req', sessions'[d], creator'[d])
    BY <1>0, <2>2, <2>3
  <2>6. /\ req'[r] = Finished(q, "created")
        /\ \A p \in Requests \ {r} : req'[p] = req[p]
    BY <1>0, <2>1
  <2>7. \A d \in Conversations : creator[d] # NoUser => creator'[d] = creator[d]
    BY <1>0, <2>2
  <2>8. QED
    BY <1>2, <1>3, <2>2, <2>4, <2>5, <2>6, <2>7, OwnerStep DEF Same
<1>5. ASSUME NEW site \in {"sweep", "delete"}, ArriveFor(r, u, c, site)
      PROVE  OwnerInv'
  <2>1. /\ req' = [req EXCEPT ![r] = BeginCleanup(q, site)]
        /\ sessions' = sessions /\ histories' = histories /\ creator' = creator
    BY <1>5 DEF ArriveFor
  <2> HIDE DEF q
  <2>2. /\ Same(BeginCleanup(q, site), q)
        /\ BeginCleanup(q, site).step = "scan" /\ BeginCleanup(q, site).site = site
    BY <1>2, RequestOperatorOwner
  <2>3. ~PastCheck(BeginCleanup(q, site))
    BY <2>2 DEF PastCheck
  <2>4. /\ req'[r] = BeginCleanup(q, site)
        /\ \A p \in Requests \ {r} : req'[p] = req[p]
    BY <1>0, <2>1
  <2>5. QED
    BY <1>2, <1>3, <2>1, <2>2, <2>3, <2>4, OwnerStep DEF Same
<1>6. QED
  BY <1>1, <1>4, <1>5

\* Cleanups only remove.
LEMMA CleanupOwner ==
    ASSUME TypeInv, TypeInv', OwnerInv, NEW r \in Requests, CleanupStep(r)
    PROVE  OwnerInv'
<1>0. /\ req[r] \in Request
      /\ sessions \in [Conversations -> Session \cup {NoSession}]
      /\ histories \in [Conversations -> Seq(Requests)]
  BY DEF TypeInv, TypeOK
<1>1. ASSUME NEW why, Raise(r, why), creator' = creator, sessions' = sessions,
             histories' = histories
      PROVE  OwnerInv'
  <2>1. PICK w : req' = [req EXCEPT ![r] = Finished(req[r], w)]
    BY <1>1 DEF Raise, Finish
  <2>2. Same(Finished(req[r], w), req[r]) /\ ~PastCheck(Finished(req[r], w))
    BY <1>0, RequestOperatorOwner
  <2>3. QED
    BY <1>1, <2>1, <2>2, OwnerLocal
<1>2. CASE ScanSessions(r)
  <2> DEFINE expired == {c \in Live :
                    is_conversation_session_expired(sessions[c], req[r].now)}
             swept == IF req[r].site = "sweep" THEN expired ELSE {}
             q == [req[r] EXCEPT !.step = "purge", !.now = 0,
                                 !.todo = expired, !.swept = swept]
  <2>1. expired \subseteq Conversations /\ swept \subseteq Conversations
    BY DEF Live
  <2>2. /\ req' = [req EXCEPT ![r] = AfterPurge(q)]
        /\ sessions' = sessions /\ histories' = histories /\ creator' = creator
        /\ req[r].step = "scan"
    BY <1>2 DEF ScanSessions
  <2> HIDE DEF expired, swept
  <2>3. /\ q \in Request /\ q.step = "purge" /\ q.site = req[r].site
        /\ q.user = req[r].user /\ q.conv = req[r].conv
        /\ q.context = req[r].context /\ q.session = req[r].session
    BY <1>0, <2>1 DEF Request, Steps, HandlerSteps
  <2> HIDE DEF q
  <2>4. PastCheck(q) => PastCheck(req[r])
    BY <2>2, <2>3 DEF PastCheck
  <2>5. Same(AfterPurge(q), req[r]) /\ (PastCheck(AfterPurge(q)) => PastCheck(req[r]))
    BY <2>3, <2>4, RequestOperatorOwner DEF Same
  <2>6. QED
    BY <2>2, <2>5, OwnerLocal
<1>3. CASE ScanInterrupted(r)
  BY <1>1, <1>3 DEF ScanInterrupted
<1>4. ASSUME NEW c \in Conversations, PurgeSession(r, c)
      PROVE  OwnerInv'
  <2> DEFINE q == [req[r] EXCEPT !.todo = req[r].todo \ {c}]
  <2>1. CASE c \in Live
    <3>1. /\ sessions' = [sessions EXCEPT ![c] = NoSession]
          /\ histories' = histories /\ creator' = creator
          /\ req[r].step = "purge"
          /\ req' = [req EXCEPT ![r] = AfterPurge(q)]
      BY <1>4, <2>1 DEF PurgeSession, StoreSession
    <3>2. /\ q \in Request /\ q.step = "purge" /\ q.site = req[r].site
          /\ q.user = req[r].user /\ q.conv = req[r].conv
          /\ q.context = req[r].context /\ q.session = req[r].session
      BY <1>0, <3>1 DEF Request
    <3> HIDE DEF q
    <3>3. PastCheck(q) => PastCheck(req[r])
      BY <3>1, <3>2 DEF PastCheck
    <3>4. Same(AfterPurge(q), req[r]) /\ (PastCheck(AfterPurge(q)) => PastCheck(req[r]))
      BY <3>2, <3>3, RequestOperatorOwner DEF Same
    <3>5. \A d \in Conversations : sessions'[d] \in {NoSession, sessions[d]}
      BY <1>0, <3>1
    <3>6. QED
      BY <3>1, <3>4, <3>5, OwnerLocal
  <2>2. CASE c \notin Live
    BY <1>1, <1>4, <2>2 DEF PurgeSession
  <2>3. QED
    BY <2>1, <2>2
<1>5. ASSUME NEW c \in Conversations, delete_message_histories(r, c)
      PROVE  OwnerInv'
  <2> DEFINE q == [req[r] EXCEPT !.swept = req[r].swept \ {c}]
  <2>1. CASE EraseCollides(r, c) /\ Raise(r, "error")
    BY <1>1, <1>5, <2>1 DEF delete_message_histories, EraseCollides
  <2>2. CASE EraseHistory(r, c) /\ req' = [req EXCEPT ![r] = AfterForget(q)]
    <3>1. /\ histories' = [histories EXCEPT ![c] = <<>>]
          /\ sessions' = sessions /\ creator' = creator
          /\ req[r].step = "forget"
      BY <1>5, <2>2 DEF delete_message_histories, EraseHistory
    <3>2. /\ q \in Request /\ q.step = "forget" /\ q.site = req[r].site
          /\ q.user = req[r].user /\ q.conv = req[r].conv
          /\ q.context = req[r].context /\ q.session = req[r].session
      BY <1>0, <3>1 DEF Request
    <3> HIDE DEF q
    <3>3. PastCheck(q) => PastCheck(req[r])
      BY <3>1, <3>2 DEF PastCheck
    <3>4. Same(AfterForget(q), req[r]) /\ (PastCheck(AfterForget(q)) => PastCheck(req[r]))
      BY <3>2, <3>3, RequestOperatorOwner DEF Same
    <3>5. \A d \in Conversations : histories'[d] \in {<<>>, histories[d]}
      BY <1>0, <3>1
    <3>6. QED
      BY <2>2, <3>1, <3>4, <3>5, OwnerLocal
  <2>3. QED
    BY <1>5, <2>1, <2>2 DEF delete_message_histories
<1>6. QED
  BY <1>2, <1>3, <1>4, <1>5 DEF CleanupStep

\* Truncation only keeps elements that were there.
LEMMA LastNElements ==
    ASSUME NEW S, NEW s \in Seq(S), NEW n \in Nat, NEW i \in DOMAIN LastN(s, n)
    PROVE  \E j \in DOMAIN s : LastN(s, n)[i] = s[j]
<1>1. CASE Len(s) <= n
  BY <1>1 DEF LastN
<1>2. CASE ~(Len(s) <= n)
  <2>1. /\ Len(s) \in Nat
        /\ Len(s) - n + 1 \in 1..(Len(s) + 1)
    BY <1>2, LenProperties
  <2>2. LastN(s, n) = SubSeq(s, Len(s) - n + 1, Len(s))
    BY <1>2 DEF LastN
  <2>3. SubSeq(s, Len(s) - n + 1, Len(s))
          = [k \in 1..(Len(s) - (Len(s) - n + 1) + 1) |-> s[(Len(s) - n + 1) + k - 1]]
    BY <2>1
  <2>4. /\ i \in 1..n
        /\ LastN(s, n)[i] = s[(Len(s) - n + 1) + i - 1]
    BY <2>1, <2>2, <2>3
  <2>5. (Len(s) - n + 1) + i - 1 \in DOMAIN s
    BY <1>2, <2>1, <2>4
  <2>6. QED
    BY <2>4, <2>5
<1>3. QED
  BY <1>1, <1>2

\* A turn that appends to a session of its own user's leaves it so.
LEMMA AppendOwner ==
    ASSUME NEW R, NEW s \in Session, NEW u, OwnSession(R, s, u),
           NEW r \in Requests, NEW role \in {"user", "assistant"}, NEW now,
           OwnTurn(R, r, u)
    PROVE  OwnSession(R, append_conversation_message(s, <<r, role>>, now), u)
<1> DEFINE long == Append(s.messages, <<r, role>>)
           a == append_conversation_message(s, <<r, role>>, now)
<1>1. s.messages \in Seq(Message) /\ <<r, role>> \in Message
  BY DEF Session, Message
<1>2. long \in Seq(Message)
  BY <1>1
<1>3. a.user = s.user /\ a.messages = LastN(long, MaxMessages)
  BY DEF append_conversation_message, Session
<1>4. \A j \in DOMAIN long : OwnTurn(R, long[j][1], u)
  <2> SUFFICES ASSUME NEW j \in DOMAIN long PROVE OwnTurn(R, long[j][1], u)
    OBVIOUS
  <2>1. CASE j \in DOMAIN s.messages
    <3>1. long[j] = s.messages[j]
      BY <1>1, <2>1
    <3>2. QED
      BY <2>1, <3>1 DEF OwnSession
  <2>2. CASE j \notin DOMAIN s.messages
    <3>1. long[j] = <<r, role>>
      BY <1>1, <2>2
    <3>2. QED
      BY <3>1
  <2>3. QED
    BY <2>1, <2>2
<1> HIDE DEF long, a
<1>5. ASSUME NEW i \in DOMAIN a.messages
      PROVE  OwnTurn(R, a.messages[i][1], u)
  <2>1. PICK j \in DOMAIN long : a.messages[i] = long[j]
    BY <1>2, <1>3, LastNElements, SettingsAssumption
  <2>2. QED
    BY <1>4, <2>1
<1>6. OwnSession(R, a, u)
  BY <1>3, <1>5 DEF OwnSession
<1>7. QED
  BY <1>6 DEF a

\* get_conversation_for_user: the snapshot it takes, and the refreshed session
\* it saves, are the creator's, and so is the request.
LEMMA SessionOwner ==
    ASSUME TypeInv, TypeInv', OwnerInv, NEW r \in Requests, SessionStep(r)
    PROVE  OwnerInv'
<1>0. /\ req[r] \in Request /\ Placed(req[r]) /\ req \in [Requests -> Request]
      /\ sessions \in [Conversations -> Session \cup {NoSession}]
  BY DEF TypeInv, TypeOK
<1>1. /\ req[r].step \in {"lookup", "evict", "touch"}
      /\ req[r].conv \in Conversations
  BY <1>0 DEF SessionStep, LookupSession, EvictSession, TouchSession, Placed
<1>2. ASSUME NEW why, Raise(r, why), creator' = creator, histories' = histories,
             \A c \in Conversations : sessions'[c] \in {NoSession, sessions[c]}
      PROVE  OwnerInv'
  <2>1. PICK w : req' = [req EXCEPT ![r] = Finished(req[r], w)]
    BY <1>2 DEF Raise, Finish
  <2>2. Same(Finished(req[r], w), req[r]) /\ ~PastCheck(Finished(req[r], w))
    BY <1>0, RequestOperatorOwner
  <2>3. QED
    BY <1>2, <2>1, <2>2, OwnerLocal
<1>3. CASE LookupSession(r)
  <2> DEFINE s == sessions[req[r].conv]
             evicted == [req[r] EXCEPT !.step = "evict"]
             touched == [req[r] EXCEPT !.step = "touch", !.now = clock, !.session = s]
  <2>1. /\ sessions' = sessions /\ histories' = histories /\ creator' = creator
        /\ req[r].step = "lookup"
    BY <1>3 DEF LookupSession
  <2>2. CASE Raise(r, "not_found") \/ Raise(r, "denied")
    BY <1>2, <2>1, <2>2
  <2>3. CASE req' = [req EXCEPT ![r] = evicted]
    <3>1. Same(evicted, req[r]) /\ evicted.site = req[r].site /\ evicted.step = "evict"
      BY <1>0 DEF Request, Same
    <3> HIDE DEF evicted
    <3>2. PastCheck(evicted) => PastCheck(req[r])
      BY <2>1, <3>1 DEF PastCheck
    <3>3. QED
      BY <2>1, <2>3, <3>1, <3>2, OwnerLocal
  <2>4. CASE s # NoSession /\ s.user = req[r].user /\ req' = [req EXCEPT ![r] = touched]
    <3>1. s \in Session /\ OwnSession(req, s, creator[req[r].conv])
      BY <1>0, <1>1, <2>4 DEF OwnerInv
    <3> HIDE DEF s
    <3>2. /\ touched.user = req[r].user /\ touched.conv = req[r].conv
          /\ touched.context = req[r].context /\ touched.session = s
          /\ touched.step = "touch"
      BY <1>0 DEF Request
    <3> HIDE DEF touched
    <3>3. req'[r] = touched /\ \A p \in Requests \ {r} : req'[p] = req[p]
      BY <1>0, <2>4
    <3>4. creator[req[r].conv] = req[r].user
      BY <2>4, <3>1 DEF OwnSession
    <3>5. \A t \in Requests : \A u : OwnTurn(req, t, u) => OwnTurn(req', t, u)
      BY <3>2, <3>3 DEF OwnTurn
    <3>6. \A i \in DOMAIN s.messages : s.messages[i][1] \in Requests
      BY <3>1 DEF Session, Message
    <3>7. OwnSession(req', s, creator[req[r].conv])
      BY <3>1, <3>5, <3>6 DEF OwnSession
    <3>8. QED
      BY <2>1, <3>2, <3>3, <3>4, <3>7, OwnerStep
  <2>5. QED
    BY <1>3, <2>2, <2>3, <2>4 DEF LookupSession
<1>4. CASE EvictSession(r)
  <2>1. \/ /\ sessions' = [sessions EXCEPT ![req[r].conv] = NoSession]
           /\ Raise(r, "expired")
        \/ sessions' = sessions /\ Raise(r, "error")
    BY <1>4 DEF EvictSession, StoreSession, DropCollides
  <2>2. \A c \in Conversations : sessions'[c] \in {NoSession, sessions[c]}
    BY <1>0, <2>1
  <2>3. QED
    BY <1>2, <1>4, <2>1, <2>2 DEF EvictSession
<1>5. CASE TouchSession(r)
  <2> DEFINE s == touch_conversation_session(req[r].session, req[r].now)
             next == CASE req[r].site = "turn" -> "load"
                       [] req[r].site = "delete" -> "drop"
                       [] OTHER -> "append"
             q == [req[r] EXCEPT !.session = s, !.now = 0, !.step = next]
  <2>1. /\ req[r].session \in Session /\ req[r].now \in Nat /\ req[r].step = "touch"
        /\ NoSession \notin Session
    BY <1>0, <1>5, NoSessionAssumption DEF TouchSession, Placed, Request
  <2>2. OwnSession(req, req[r].session, creator[req[r].conv])
    BY <2>1 DEF OwnerInv
  <2>3. creator[req[r].conv] = req[r].user
    BY <2>1 DEF OwnerInv, PastCheck
  <2>4. /\ sessions' = [sessions EXCEPT ![req[r].conv] = s]
        /\ histories' = histories /\ creator' = creator
        /\ req' = [req EXCEPT ![r] = q]
    BY <1>0, <1>5 DEF TouchSession, StoreSession
  <2>5. s.user = req[r].session.user /\ s.messages = req[r].session.messages
    BY <2>1 DEF touch_conversation_session, Session
  <2>6. next \in {"load", "drop", "append"}
    OBVIOUS
  <2> HIDE DEF s, next
  <2>7. /\ q.user = req[r].user /\ q.conv = req[r].conv
        /\ q.context = req[r].context /\ q.session = s
        /\ q.step = next
    BY <1>0 DEF Request
  <2> HIDE DEF q
  <2>8. req'[r] = q /\ \A p \in Requests \ {r} : req'[p] = req[p]
    BY <1>0, <2>4
  <2>9. \A t \in Requests : \A u : OwnTurn(req, t, u) => OwnTurn(req', t, u)
    BY <2>6, <2>7, <2>8 DEF OwnTurn
  <2>10. \A i \in DOMAIN s.messages : s.messages[i][1] \in Requests
    BY <2>1, <2>5 DEF Session, Message
  <2>11. OwnSession(req', s, creator[req[r].conv])
    BY <2>2, <2>5, <2>9, <2>10 DEF OwnSession
  <2>12. \A c \in Conversations : \/ sessions'[c] \in {NoSession, sessions[c]}
                                  \/ OwnSession(req', sessions'[c], creator'[c])
    BY <1>0, <1>1, <2>4, <2>11
  <2>13. QED
    BY <2>3, <2>4, <2>6, <2>7, <2>8, <2>11, <2>12, OwnerStep
<1>6. QED
  BY <1>3, <1>4, <1>5 DEF SessionStep

\* A turn loads its own user's history, and what it persists is its own.
LEMMA TurnOwner ==
    ASSUME TypeInv, TypeInv', OwnerInv, NEW r \in Requests,
           TurnStep(r) \/ StreamFails(r) \/ Disconnect(r)
    PROVE  OwnerInv'
<1>0. /\ req[r] \in Request /\ Placed(req[r]) /\ req \in [Requests -> Request]
      /\ sessions \in [Conversations -> Session \cup {NoSession}]
      /\ histories \in [Conversations -> Seq(Requests)]
  BY DEF TypeInv, TypeOK
<1>1. /\ req[r].step \in {"load", "stream", "append", "reply"}
      /\ req[r].conv \in Conversations
  BY <1>0 DEF TurnStep, StreamFails, Disconnect, load_message_history,
     save_message_history, append_message_to_conversation, EndTurn, Placed
<1>2. creator[req[r].conv] = req[r].user
  BY <1>1 DEF OwnerInv, PastCheck
<1>3. CASE load_message_history(r)
  <2> DEFINE h == histories[req[r].conv]
             q == [req[r] EXCEPT !.context = h, !.session = NoSession, !.step = "stream"]
  <2>1. /\ req' = [req EXCEPT ![r] = q]
        /\ sessions' = sessions /\ histories' = histories /\ creator' = creator
    BY <1>0, <1>3 DEF load_message_history
  <2>2. h \in Seq(Requests) /\ OwnHistory(req, h, creator[req[r].conv])
    BY <1>0, <1>1 DEF OwnerInv
  <2> HIDE DEF h
  <2>3. /\ q.user = req[r].user /\ q.conv = req[r].conv /\ q.context = h
        /\ q.session = NoSession /\ q.step = "stream"
    BY <1>0 DEF Request
  <2> HIDE DEF q
  <2>4. req'[r] = q /\ \A p \in Requests \ {r} : req'[p] = req[p]
    BY <1>0, <2>1
  <2>5. \A t \in Requests : \A u : OwnTurn(req, t, u) => OwnTurn(req', t, u)
    BY <2>3, <2>4 DEF OwnTurn
  <2>6. OwnHistory(req', h, req[r].user)
    BY <1>2, <2>2, <2>5 DEF OwnHistory
  <2>7. QED
    BY <1>2, <2>1, <2>3, <2>4, <2>6, OwnerStep
<1>4. CASE save_message_history(r)
  <2> DEFINE q == BeginCleanup(req[r], "user")
             h == Append(req[r].context, r)
  <2>1. /\ req' = [req EXCEPT ![r] = q]
        /\ histories' = [histories EXCEPT ![req[r].conv] = h]
        /\ sessions' = sessions /\ creator' = creator
    BY <1>4 DEF save_message_history
  <2>2. Same(q, req[r])
    BY <1>0, RequestOperatorOwner
  <2> HIDE DEF q
  <2>3. req'[r] = q /\ \A p \in Requests \ {r} : req'[p] = req[p]
    BY <1>0, <2>1
  <2>4. \A t \in Requests : \A u : OwnTurn(req, t, u) => OwnTurn(req', t, u)
    BY <2>2, <2>3 DEF OwnTurn, Same
  <2>5. /\ req[r].context \in Seq(Requests)
        /\ OwnHistory(req', req[r].context, req[r].user)
    <3>1. req[r].context \in Seq(Requests)
      BY <1>0 DEF Request
    <3>2. \A i \in DOMAIN req[r].context : req[r].context[i] \in Requests
      BY <3>1
    <3>3. OwnHistory(req, req[r].context, req[r].user)
      BY DEF OwnerInv
    <3>4. QED
      BY <2>4, <3>1, <3>2, <3>3 DEF OwnHistory
  <2>6. OwnTurn(req', r, req[r].user)
    BY <2>2, <2>3 DEF OwnTurn, Same
  <2>7. OwnHistory(req', h, req[r].user)
    <3> SUFFICES ASSUME NEW i \in DOMAIN h PROVE OwnTurn(req', h[i], req[r].user)
      BY DEF OwnHistory
    <3>1. \/ i \in DOMAIN req[r].context /\ h[i] = req[r].context[i]
          \/ h[i] = r
      BY <2>5
    <3> HIDE DEF h
    <3>2. QED
      BY <2>5, <2>6, <3>1 DEF OwnHistory
  <2> HIDE DEF h
  <2>8. \A c \in Conversations : \/ histories'[c] \in {<<>>, histories[c]}
                                 \/ OwnHistory(req', histories'[c], creator'[c])
    BY <1>0, <1>2, <2>1, <2>7
  <2>9. QED
    BY <1>2, <2>1, <2>2, <2>3, <2>8, OwnerStep, ZenonT(30) DEF Same
<1>5. CASE append_message_to_conversation(r)
  <2> DEFINE s == append_conversation_message(req[r].session, <<r, req[r].site>>, clock)
             user == [req[r] EXCEPT !.session = NoSession]
             reply == [req[r] EXCEPT !.session = NoSession, !.site = "none", !.step = "reply"]
  <2>1. /\ req[r].session \in Session /\ req[r].site \in {"user", "assistant"}
        /\ req[r].session # NoSession
    BY <1>0, <1>5, NoSessionAssumption DEF append_message_to_conversation, Placed
  <2>2. OwnSession(req, req[r].session, req[r].user)
    BY <1>2, <2>1 DEF OwnerInv
  <2>3. OwnTurn(req, r, req[r].user)
    BY <1>1 DEF OwnTurn
  <2>4. OwnSession(req, s, req[r].user)
    BY <2>1, <2>2, <2>3, AppendOwner
  <2>5. s \in Session
    BY <2>1, SessionOperatorTypes DEF Message, TypeInv, TypeOK
  <2>6. /\ sessions' = [sessions EXCEPT ![req[r].conv] = s]
        /\ histories' = histories /\ creator' = creator
        /\ \/ req' = [req EXCEPT ![r] = BeginCleanup(user, "assistant")]
           \/ req' = [req EXCEPT ![r] = reply]
    BY <1>5 DEF append_message_to_conversation, StoreSession
  <2> HIDE DEF s
  <2>7. user \in Request /\ Same(user, req[r]) /\ Same(reply, req[r]) /\ user.session = NoSession
    BY <1>0, <1>1 DEF Request, Same
  <2> HIDE DEF user, reply
  <2>8. Same(BeginCleanup(user, "assistant"), req[r])
    BY <2>7, RequestOperatorOwner DEF Same
  <2>9. Same(req'[r], req[r]) /\ \A p \in Requests \ {r} : req'[p] = req[p]
    BY <1>0, <2>6, <2>7, <2>8
  <2>10. \A t \in Requests : \A u : OwnTurn(req, t, u) => OwnTurn(req', t, u)
    BY <2>9 DEF OwnTurn, Same
  <2>11. \A i \in DOMAIN s.messages : s.messages[i][1] \in Requests
    BY <2>5 DEF Session, Message
  <2>12. OwnSession(req', s, creator[req[r].conv])
    BY <1>2, <2>4, <2>10, <2>11 DEF OwnSession
  <2>13. \A c \in Conversations : \/ sessions'[c] \in {NoSession, sessions[c]}
                                  \/ OwnSession(req', sessions'[c], creator'[c])
    BY <1>0, <2>6, <2>12
  <2>14. QED
    BY <1>2, <2>6, <2>9, <2>13, OwnerStep DEF Same
<1>6. CASE EndTurn(r) \/ StreamFails(r) \/ Disconnect(r)
  <2>1. /\ sessions' = sessions /\ histories' = histories /\ creator' = creator
        /\ \E w : req' = [req EXCEPT ![r] = Finished(req[r], w)]
    BY <1>6 DEF EndTurn, StreamFails, Disconnect, Finish
  <2>2. \A w : Same(Finished(req[r], w), req[r]) /\ ~PastCheck(Finished(req[r], w))
    BY <1>0, RequestOperatorOwner
  <2>3. QED
    BY <2>1, <2>2, OwnerLocal
<1>7. QED
  BY <1>3, <1>4, <1>5, <1>6 DEF TurnStep

\* A deletion removes.
LEMMA DeleteOwner ==
    ASSUME TypeInv, TypeInv', OwnerInv, NEW r \in Requests, DeleteStep(r)
    PROVE  OwnerInv'
<1>0. /\ req[r] \in Request /\ req \in [Requests -> Request]
      /\ sessions \in [Conversations -> Session \cup {NoSession}]
      /\ histories \in [Conversations -> Seq(Requests)]
  BY DEF TypeInv, TypeOK
<1>1. ASSUME NEW why, Raise(r, why) \/ Finish(r, why), creator' = creator, sessions' = sessions,
             \A c \in Conversations : histories'[c] \in {<<>>, histories[c]}
      PROVE  OwnerInv'
  <2>1. PICK w : req' = [req EXCEPT ![r] = Finished(req[r], w)]
    BY <1>1 DEF Raise, Finish
  <2>2. Same(Finished(req[r], w), req[r]) /\ ~PastCheck(Finished(req[r], w))
    BY <1>0, RequestOperatorOwner
  <2>3. QED
    BY <1>1, <2>1, <2>2, OwnerLocal
<1>2. CASE delete_conversation_session(r)
  <2> DEFINE q == [req[r] EXCEPT !.session = NoSession, !.step = "erase"]
  <2>1. histories' = histories /\ creator' = creator /\ req[r].step = "drop"
    BY <1>2 DEF delete_conversation_session
  <2>2. CASE DropCollides(r)
    BY <1>1, <2>1, <2>2 DEF DropCollides
  <2>3. CASE StoreSession(r, req[r].conv, NoSession) /\ req' = [req EXCEPT ![r] = q]
    <3>1. sessions' = [sessions EXCEPT ![req[r].conv] = NoSession]
      BY <2>3 DEF StoreSession
    <3>2. Same(q, req[r]) /\ q.site = req[r].site /\ q.step = "erase"
      BY <1>0 DEF Request, Same
    <3> HIDE DEF q
    <3>3. PastCheck(q) => PastCheck(req[r])
      BY <2>1, <3>2 DEF PastCheck
    <3>4. \A c \in Conversations : sessions'[c] \in {NoSession, sessions[c]}
      BY <1>0, <3>1
    <3>5. QED
      BY <2>1, <2>3, <3>2, <3>3, <3>4, OwnerLocal
  <2>4. QED
    BY <1>0, <1>2, <2>2, <2>3 DEF delete_conversation_session
<1>3. CASE delete_message_history(r)
  <2>1. /\ sessions' = sessions /\ creator' = creator
        /\ Finish(r, "deleted") \/ Raise(r, "error")
        /\ histories' \in {histories, [histories EXCEPT ![req[r].conv] = <<>>]}
    BY <1>3 DEF delete_message_history, EraseHistory, EraseCollides
  <2>2. \A c \in Conversations : histories'[c] \in {<<>>, histories[c]}
    BY <1>0, <2>1
  <2>3. QED
    BY <1>1, <2>1, <2>2
<1>4. QED
  BY <1>2, <1>3 DEF DeleteStep

\* A restart forgets.
LEMMA RestartOwner ==
    ASSUME TypeInv, TypeInv', OwnerInv, Restart
    PROVE  OwnerInv'
<1>1. /\ creator' = creator
      /\ \A c \in Conversations : sessions'[c] = NoSession /\ histories'[c] = <<>>
  BY DEF Restart
<1>2. ASSUME NEW r \in Requests
      PROVE  /\ req'[r].user = req[r].user /\ req'[r].context = req[r].context
             /\ req'[r].session = NoSession \/ req'[r] = req[r]
             /\ req[r].step # "idle" => req'[r].step # "idle"
             /\ req'[r].step = "idle" => req'[r] = req[r]
             /\ req'[r].step \in {"idle", "done"}
             /\ InFlight(r) => ~PastCheck(req'[r]) /\ req'[r].session = NoSession
  <2>1. req'[r] = IF InFlight(r) THEN Finished(req[r], "lost") ELSE req[r]
    BY DEF Restart
  <2>2. req[r] \in Request
    BY DEF TypeInv, TypeOK
  <2>3. /\ Same(Finished(req[r], "lost"), req[r])
        /\ ~PastCheck(Finished(req[r], "lost"))
        /\ Finished(req[r], "lost").session = NoSession
        /\ Finished(req[r], "lost").step = "done"
    BY <2>2, RequestOperatorOwner DEF Finished, Request
  <2>4. QED
    BY <2>1, <2>3 DEF Same, InFlight
<1>3. \A t \in Requests : \A u : OwnTurn(req, t, u) => OwnTurn(req', t, u)
  BY <1>2 DEF OwnTurn
<1>4. ASSUME NEW r \in Requests
      PROVE  /\ req'[r].step = "idle" => req'[r].context = <<>> /\ req'[r].session = NoSession
             /\ req'[r].session # NoSession =>
                   OwnSession(req', req'[r].session, creator'[req'[r].conv])
             /\ OwnHistory(req', req'[r].context, req'[r].user)
             /\ PastCheck(req'[r]) => creator'[req'[r].conv] = req'[r].user
  <2>1. req[r].context \in Seq(Requests) /\ OwnHistory(req, req[r].context, req[r].user)
    BY DEF TypeInv, TypeOK, Request, OwnerInv
  <2>2. OwnHistory(req', req'[r].context, req'[r].user)
    BY <1>2, <1>3, <2>1 DEF OwnHistory
  <2>3. CASE InFlight(r)
    BY <1>2, <2>2, <2>3 DEF InFlight
  <2>4. CASE ~InFlight(r)
    <3>1. req'[r] = req[r]
      BY <2>4 DEF Restart
    <3>2. ASSUME req[r].session # NoSession
          PROVE  OwnSession(req', req[r].session, creator[req[r].conv])
      <4>1. /\ req[r].session \in Session
            /\ OwnSession(req, req[r].session, creator[req[r].conv])
        BY <3>2 DEF OwnerInv, TypeInv, TypeOK, Request
      <4>2. \A i \in DOMAIN req[r].session.messages : req[r].session.messages[i][1] \in Requests
        BY <4>1 DEF Session, Message
      <4>3. QED
        BY <1>3, <4>1, <4>2 DEF OwnSession
    <3>3. /\ req[r].step = "idle" => req[r].context = <<>> /\ req[r].session = NoSession
          /\ PastCheck(req[r]) => creator[req[r].conv] = req[r].user
      BY DEF OwnerInv
    <3>4. QED
      BY <1>1, <2>2, <3>1, <3>2, <3>3
  <2>5. QED
    BY <2>3, <2>4
<1>5. \A c \in Conversations : OwnHistory(req', histories'[c], creator'[c])
  BY <1>1 DEF OwnHistory
<1>6. QED
  BY <1>1, <1>4, <1>5 DEF OwnerInv

LEMMA NextOwner == TypeInv /\ TypeInv' /\ OwnerInv /\ [Next]_vars => OwnerInv'
<1> SUFFICES ASSUME TypeInv, TypeInv', OwnerInv, [Next]_vars PROVE OwnerInv'
  OBVIOUS
<1>1. CASE Tick
  BY <1>1 DEF Tick, OwnerInv
<1>2. CASE Restart
  BY <1>2, RestartOwner
<1>3. ASSUME NEW r \in Requests, Arrival(r) \/ Progress(r) \/ Disconnect(r)
      PROVE  OwnerInv'
  BY <1>3, ArrivalOwner, CleanupOwner, SessionOwner, TurnOwner, DeleteOwner DEF Progress
<1>4. CASE UNCHANGED vars
  BY <1>4 DEF vars, OwnerInv
<1>5. QED
  BY <1>1, <1>2, <1>3, <1>4 DEF Next

LEMMA OwnerImpliesConfidential == OwnerInv => Confidential
BY DEF OwnerInv, OwnHistory, OwnSession, OwnTurn, Confidential, Live

\* Whatever the schedule of the threads, the clients, the expirations and the
\* restarts: nothing a user said is ever in the context of another user's
\* turn, or in another user's session or history (get_conversation_for_user,
\* load_message_history, persist_chat_turn).
THEOREM Confidentiality == Spec => []Confidential
<1>1. Init => TypeInv /\ OwnerInv
  BY InitType, InitOwner
<1>2. TypeInv /\ OwnerInv /\ [Next]_vars => (TypeInv /\ OwnerInv)'
  BY NextType, NextOwner
<1>3. OwnerInv => Confidential
  BY OwnerImpliesConfidential
<1>4. QED
  BY <1>1, <1>2, <1>3, PTL DEF Spec

-----------------------------------------------------------------------------
(***************************************************************************)
(* What a step does, field by field: the proofs below argue about these    *)
(* formulas and no longer about updates of records.  p is a request before *)
(* and q after the step.                                                   *)
(***************************************************************************)
SameTurn(p, q) ==
    q.user = p.user /\ q.conv = p.conv /\ q.context = p.context
Ended(p, q) ==
    /\ SameTurn(p, q)
    /\ q.site = "none" /\ q.step = "done" /\ q.session = NoSession
Moved(p, q, site, step) ==
    /\ SameTurn(p, q)
    /\ q.site = site /\ q.step = step /\ q.outcome = p.outcome
Stays(p, q, site, step) == Moved(p, q, site, step) /\ q.session = p.session

\* A cleanup goes on to the next expired id, to the histories of the ids, to
\* the cleanup of get_conversation_for_user or to its lookup.
Cleaned(p, q, t) ==
    \/ Stays(p, q, p.site, "purge")
    \/ Stays(p, q, p.site, "lookup") /\ p.site # "sweep"
    \/ Stays(p, q, p.site, "forget") /\ p.site = "sweep"
    \/ Stays(p, q, "turn", "scan") /\ p.site = "sweep" /\ q.now = t

Created(r) ==
    \E u \in Users, c \in Conversations, s \in Session :
        /\ req[r].step = "idle" /\ CanRun(r)
        /\ creator[c] = NoUser /\ creator' = [creator EXCEPT ![c] = u]
        /\ s.user = u /\ s.messages = <<>>
        /\ sessions' = [sessions EXCEPT ![c] = s]
        /\ req'[r].user = u /\ req'[r].conv = c
        /\ req'[r].context = req[r].context
        /\ req'[r].site = "none" /\ req'[r].step = "done"
        /\ req'[r].session = NoSession /\ req'[r].outcome = "created"
        /\ UNCHANGED <<histories, log>>
Accepted(r) ==
    \E u \in Users, c \in Conversations :
        /\ req[r].step = "idle" /\ CanRun(r)
        /\ creator[c] # NoUser
        /\ req'[r].user = u /\ req'[r].conv = c
        /\ req'[r].context = req[r].context
        /\ req'[r].site \in {"sweep", "delete"} /\ req'[r].step = "scan"
        /\ req'[r].now = clock
        /\ req'[r].session = req[r].session /\ req'[r].outcome = req[r].outcome
        /\ UNCHANGED <<sessions, histories, creator, log>>
Scanned(r) ==
    /\ req[r].step = "scan" /\ CanRun(r)
    /\ Cleaned(req[r], req'[r], clock)
    /\ \A c \in req'[r].todo : c \in Live /\ req[r].now >= sessions[c].expires
    /\ req'[r].swept \subseteq req'[r].todo
    /\ req'[r].step = "forget" => req'[r].todo = {}
    /\ UNCHANGED <<sessions, histories, creator, log>>
Purged(r) ==
    \E c \in Conversations :
        /\ req[r].step = "purge" /\ CanRun(r)
        /\ c \in req[r].todo
        /\ Cleaned(req[r], req'[r], clock)
        /\ req'[r].todo = req[r].todo \ {c} /\ req'[r].swept = req[r].swept
        /\ req'[r].step = "forget" => req'[r].todo = {}
        /\ sessions' = [sessions EXCEPT ![c] = NoSession]
        /\ UNCHANGED <<histories, creator, log>>
Forgot(r) ==
    \E c \in Conversations :
        /\ req[r].step = "forget" /\ CanRun(r)
        /\ c \in req[r].swept /\ req'[r].swept \subseteq req[r].swept
        /\ \/ Stays(req[r], req'[r], req[r].site, "forget")
           \/ Stays(req[r], req'[r], "turn", "scan") /\ req'[r].now = clock
        /\ histories' = [histories EXCEPT ![c] = <<>>]
        /\ UNCHANGED <<sessions, creator, log>>
Stopped(r) ==
    /\ \/ req[r].step = "scan" /\ <<r, NoConversation>> \in disturbed
       \/ req[r].step = "purge" /\ \E c \in req[r].todo : c \notin Live
       \/ /\ req[r].step = "lookup"
          /\ req[r].conv \in Live => sessions[req[r].conv].user # req[r].user
       \/ req[r].step \in {"evict", "drop"} /\ req[r].conv \notin Live
       \/ req[r].step \in {"forget", "erase"} /\ disturbed # {}
       \/ req[r].step \in {"stream", "reply"}
    /\ Ended(req[r], req'[r]) /\ req'[r].outcome # "deleted"
    /\ disturbed' \subseteq disturbed
    /\ UNCHANGED <<sessions, histories, creator, log>>
Checked(r) ==
    /\ req[r].step = "lookup" /\ CanRun(r)
    /\ req[r].conv \in Live
    /\ sessions[req[r].conv].user = req[r].user
    /\ \/ /\ Stays(req[r], req'[r], req[r].site, "evict")
          /\ clock >= sessions[req[r].conv].expires
       \/ /\ Moved(req[r], req'[r], req[r].site, "touch")
          /\ req'[r].session = sessions[req[r].conv]
    /\ UNCHANGED <<sessions, histories, creator, log>>
Evicted(r) ==
    /\ req[r].step = "evict" /\ CanRun(r)
    /\ Ended(req[r], req'[r]) /\ req'[r].outcome # "deleted"
    /\ sessions' = [sessions EXCEPT ![req[r].conv] = NoSession]
    /\ UNCHANGED <<histories, creator, log>>
Touched(r) ==
    \E s \in Session :
        /\ req[r].step = "touch" /\ CanRun(r)
        /\ s.user = req[r].session.user /\ s.messages = req[r].session.messages
        /\ sessions' = [sessions EXCEPT ![req[r].conv] = s]
        /\ req'[r].session = s
        /\ \/ Moved(req[r], req'[r], "turn", "load") /\ req[r].site = "turn"
           \/ Moved(req[r], req'[r], "delete", "drop") /\ req[r].site = "delete"
           \/ /\ Moved(req[r], req'[r], req[r].site, "append")
              /\ req[r].site \in {"user", "assistant"}
        /\ UNCHANGED <<histories, creator, log>>
Loaded(r) ==
    /\ req[r].step = "load" /\ CanRun(r)
    /\ req'[r].user = req[r].user /\ req'[r].conv = req[r].conv
    /\ req'[r].context = histories[req[r].conv]
    /\ req'[r].site = req[r].site /\ req'[r].step = "stream"
    /\ req'[r].session = NoSession /\ req'[r].outcome = req[r].outcome
    /\ UNCHANGED <<sessions, histories, creator, log>>
Saved(r) ==
    /\ req[r].step = "stream" /\ LoopFree /\ CanRun(r)
    /\ histories' = [histories EXCEPT ![req[r].conv] = Append(req[r].context, r)]
    /\ log' = Append(log, r)
    /\ Stays(req[r], req'[r], "user", "scan") /\ req'[r].now = clock
    /\ UNCHANGED <<sessions, creator>>
Appended(r) ==
    \E s \in Session :
        /\ req[r].step = "append" /\ CanRun(r)
        /\ s.user = req[r].session.user
        /\ s.messages = LastN(Append(req[r].session.messages, <<r, req[r].site>>),
                              MaxMessages)
        /\ sessions' = [sessions EXCEPT ![req[r].conv] = s]
        /\ req'[r].session = NoSession
        /\ \/ /\ Moved(req[r], req'[r], "assistant", "scan") /\ req[r].site = "user"
              /\ req'[r].now = clock
           \/ Moved(req[r], req'[r], "none", "reply") /\ req[r].site = "assistant"
        /\ UNCHANGED <<histories, creator, log>>
Dropped(r) ==
    /\ req[r].step = "drop" /\ CanRun(r)
    /\ Moved(req[r], req'[r], req[r].site, "erase")
    /\ req'[r].session = NoSession
    /\ sessions' = [sessions EXCEPT ![req[r].conv] = NoSession]
    /\ UNCHANGED <<histories, creator, log>>
Erased(r) ==
    /\ req[r].step = "erase" /\ CanRun(r)
    /\ Ended(req[r], req'[r]) /\ req'[r].outcome = "deleted"
    /\ histories' = [histories EXCEPT ![req[r].conv] = <<>>]
    /\ UNCHANGED <<sessions, creator, log>>

\* What a step of r notes of the changes it makes under others, and forgets of
\* those that others have made under r.
Noted(r) ==
    /\ disturbed' # disturbed => \/ disturbed' \subseteq disturbed
                                \/ \E q \in Requests \ {r} : Running(q)
    /\ \A q \in Requests \ {r}, c \in Conversations :
          \/ <<q, c>> \in disturbed
          \/ Condemned(q, c) /\ sessions'[c] \notin {NoSession, sessions[c]}
          => <<q, c>> \in disturbed'
    /\ req[r].step = "purge" /\ req'[r].step = "purge" =>
          \A c \in Conversations :
             sessions'[c] # NoSession /\ <<r, c>> \in disturbed => <<r, c>> \in disturbed'

Effect(r) ==
    /\ clock' = clock
    /\ \A q \in Requests \ {r} : req'[q] = req[q]
    /\ Noted(r)
    /\ \/ Created(r) \/ Accepted(r) \/ Scanned(r) \/ Purged(r) \/ Forgot(r)
       \/ Stopped(r) \/ Checked(r) \/ Evicted(r) \/ Touched(r) \/ Loaded(r)
       \/ Saved(r) \/ Appended(r) \/ Dropped(r) \/ Erased(r)

\* What the operators on requests return.
LEMMA RequestOperatorFields ==
    ASSUME NEW p \in Request
    PROVE  /\ \A site : /\ Stays(p, BeginCleanup(p, site), site, "scan")
                        /\ BeginCleanup(p, site).now = clock
                        /\ BeginCleanup(p, site).todo = p.todo
                        /\ BeginCleanup(p, site).swept = p.swept
           /\ p.step = "forget" =>
                 /\ AfterForget(p).swept = p.swept
                 /\ \/ Stays(p, AfterForget(p), p.site, "forget")
                    \/ /\ Stays(p, AfterForget(p), "turn", "scan")
                       /\ AfterForget(p).now = clock
           /\ p.step = "purge" =>
                 /\ Cleaned(p, AfterPurge(p), clock)
                 /\ AfterPurge(p).todo = p.todo /\ AfterPurge(p).swept = p.swept
                 /\ AfterPurge(p).step = "forget" => p.todo = {}
           /\ \A why : Ended(p, Finished(p, why)) /\ Finished(p, why).outcome = why
<1>1. \A q \in Request : \A site : /\ Stays(q, BeginCleanup(q, site), site, "scan")
                                   /\ BeginCleanup(q, site).now = clock
                                   /\ BeginCleanup(q, site).todo = q.todo
                                   /\ BeginCleanup(q, site).swept = q.swept
  BY DEF Request, BeginCleanup, Stays, Moved, SameTurn
<1>2. \A q \in Request : q.step = "forget" =>
         /\ AfterForget(q).todo = q.todo /\ AfterForget(q).swept = q.swept
         /\ \/ AfterForget(q) = q /\ Stays(q, q, q.site, "forget")
            \/ Stays(q, AfterForget(q), "turn", "scan") /\ AfterForget(q).now = clock
  BY <1>1 DEF AfterForget, Stays, Moved, SameTurn
<1>3. ASSUME p.step = "purge"
      PROVE  /\ Cleaned(p, AfterPurge(p), clock)
             /\ AfterPurge(p).todo = p.todo /\ AfterPurge(p).swept = p.swept
             /\ AfterPurge(p).step = "forget" => p.todo = {}
  <2> DEFINE f == [p EXCEPT !.step = "forget"]
             l == [p EXCEPT !.step = "lookup"]
  <2>1. /\ f \in Request /\ Stays(p, f, p.site, "forget")
        /\ f.todo = p.todo /\ f.swept = p.swept
        /\ Stays(p, l, p.site, "lookup") /\ l.todo = p.todo /\ l.swept = p.swept
        /\ Stays(p, p, p.site, "purge")
    BY <1>3 DEF Request, Steps, HandlerSteps, Stays, Moved, SameTurn
  <2>2. \/ AfterPurge(p) = p
        \/ AfterPurge(p) = AfterForget(f) /\ p.site = "sweep" /\ p.todo = {}
        \/ AfterPurge(p) = l /\ p.site # "sweep"
    BY DEF AfterPurge
  <2> HIDE DEF f, l
  <2>3. f.step = "forget"
    BY <2>1 DEF Stays, Moved
  <2>4. ASSUME AfterPurge(p) = AfterForget(f), p.site = "sweep"
        PROVE  /\ Cleaned(p, AfterPurge(p), clock)
               /\ AfterPurge(p).todo = p.todo /\ AfterPurge(p).swept = p.swept
    <3>1. CASE AfterForget(f) = f
      BY <2>1, <2>4, <3>1 DEF Cleaned
    <3>2. CASE Stays(f, AfterForget(f), "turn", "scan") /\ AfterForget(f).now = clock
      <4>1. Stays(p, AfterForget(f), "turn", "scan")
        BY <2>1, <3>2 DEF Stays, Moved, SameTurn
      <4>2. QED
        BY <1>2, <2>1, <2>3, <2>4, <3>2, <4>1 DEF Cleaned
    <3>3. QED
      BY <1>2, <2>1, <2>3, <3>1, <3>2
  <2>5. /\ Cleaned(p, AfterPurge(p), clock)
        /\ AfterPurge(p).todo = p.todo /\ AfterPurge(p).swept = p.swept
    BY <2>1, <2>2, <2>4 DEF Cleaned
  <2>6. AfterPurge(p).step = "forget" => p.todo = {}
    BY <1>3, <2>1, <2>2 DEF Stays, Moved
  <2>7. QED
    BY <2>5, <2>6
<1>4. \A why : Ended(p, Finished(p, why)) /\ Finished(p, why).outcome = why
  BY DEF Request, Finished, Ended, SameTurn
<1>5. QED
  BY <1>1, <1>2, <1>3, <1>4

\* The ways in which a step may change what has been noted.
LEMMA StoreNotes ==
    ASSUME TypeInv, NEW r \in Requests, NEW c \in Conversations, NEW s,
           StoreSession(r, c, s), s = NoSession \/ req[r].step # "purge"
    PROVE  sessions' = [sessions EXCEPT ![c] = s] /\ Noted(r)
<1>0. sessions \in [Conversations -> Session \cup {NoSession}]
  BY DEF TypeInv, TypeOK
<1>1. sessions' = [sessions EXCEPT ![c] = s]
  BY DEF StoreSession
<1>2. disturbed' # disturbed => \/ disturbed' \subseteq disturbed
                                \/ \E q \in Requests \ {r} : Running(q)
  BY DEF StoreSession, Condemned, Running, HandlerSteps
<1>3. ASSUME NEW q \in Requests \ {r}, NEW d \in Conversations,
             \/ <<q, d>> \in disturbed
             \/ Condemned(q, d) /\ sessions'[d] \notin {NoSession, sessions[d]}
      PROVE  <<q, d>> \in disturbed'
  <2>1. CASE <<q, d>> \in disturbed
    BY <2>1 DEF StoreSession
  <2>2. CASE Condemned(q, d) /\ sessions'[d] \notin {NoSession, sessions[d]}
    <3>1. d = c /\ s # NoSession
      BY <1>0, <1>1, <2>2
    <3>2. QED
      BY <2>2, <3>1 DEF StoreSession
  <2>3. QED
    BY <1>3, <2>1, <2>2
<1>4. ASSUME req[r].step = "purge", NEW d \in Conversations,
             sessions'[d] # NoSession, <<r, d>> \in disturbed
      PROVE  <<r, d>> \in disturbed'
  <2>1. d # c
    BY <1>0, <1>1, <1>4
  <2>2. QED
    BY <1>4, <2>1 DEF StoreSession
<1>5. QED
  BY <1>1, <1>2, <1>3, <1>4 DEF Noted

LEMMA CalmNotes ==
    ASSUME NEW r \in Requests, disturbed' \in {disturbed, Calm(r)}, sessions' = sessions,
           req[r].step # "purge" \/ req'[r].step # "purge"
    PROVE  Noted(r)
BY DEF Noted, Calm

LEMMA EraseNotes ==
    ASSUME NEW r \in Requests, NEW c \in Conversations, EraseHistory(r, c), sessions' = sessions,
           req[r].step # "purge"
    PROVE  Noted(r)
BY DEF Noted, Calm, EraseHistory, Erasing, Running, HandlerSteps

\* The effects of an arrival: create_conversation, or one of the two routes
\* that work on a conversation.
LEMMA ArrivalEffect ==
    ASSUME TypeInv, NEW r \in Requests, Arrival(r)
    PROVE  Effect(r)
<1>0. req[r] \in Request /\ clock \in Nat /\ req \in [Requests -> Request]
  BY DEF TypeInv, TypeOK
<1>1. PICK u \in Users, c \in Conversations :
        \/ create_conversation(r, u, c)
        \/ ArriveFor(r, u, c, "sweep")
        \/ ArriveFor(r, u, c, "delete")
  BY DEF Arrival, stream_conversation_message_route, delete_conversation_route
<1> DEFINE a == [req[r] EXCEPT !.user = u, !.conv = c]
<1>2. /\ a \in Request /\ a.user = u /\ a.conv = c /\ a.context = req[r].context
      /\ a.session = req[r].session /\ a.outcome = req[r].outcome
  BY <1>0 DEF Request
<1>3. CASE create_conversation(r, u, c)
  <2> DEFINE s == [user |-> u, messages |-> <<>>, expires |-> build_expiration_time(clock)]
  <2>1. s \in Session /\ s.user = u /\ s.messages = <<>>
    BY <1>0, SettingsAssumption DEF Session, build_expiration_time
  <2>2. sessions' = [sessions EXCEPT ![c] = s]
    BY <1>3 DEF create_conversation, StoreSession
  <2>3. req' = [req EXCEPT ![r] = Finished(a, "created")]
    BY <1>3 DEF create_conversation
  <2> HIDE DEF a, s
  <2>4. /\ req'[r] = Finished(a, "created")
        /\ \A q \in Requests \ {r} : req'[q] = req[q]
    BY <1>0, <2>3
  <2>5. Ended(a, req'[r]) /\ req'[r].outcome = "created"
    BY <1>2, <2>4, RequestOperatorFields
  <2>6. Created(r)
    BY <1>2, <1>3, <2>1, <2>2, <2>5
       DEF create_conversation, Arrives, Created, Ended, SameTurn
  <2>7. QED
    BY <1>3, <2>4, <2>6, StoreNotes DEF create_conversation, Arrives, Effect
<1>4. ASSUME NEW site \in {"sweep", "delete"}, ArriveFor(r, u, c, site)
      PROVE  Effect(r)
  <2>1. req' = [req EXCEPT ![r] = BeginCleanup(a, site)]
    BY <1>4 DEF ArriveFor
  <2> HIDE DEF a
  <2>2. /\ req'[r] = BeginCleanup(a, site)
        /\ \A q \in Requests \ {r} : req'[q] = req[q]
    BY <1>0, <2>1
  <2>3. Stays(a, req'[r], site, "scan") /\ req'[r].now = clock
    BY <1>2, <2>2, RequestOperatorFields
  <2>4. Accepted(r)
    BY <1>2, <1>4, <2>3 DEF ArriveFor, Arrives, Accepted, Stays, Moved, SameTurn
  <2>5. QED
    BY <1>4, <2>2, <2>4, CalmNotes DEF ArriveFor, Arrives, Effect
<1>5. QED
  BY <1>1, <1>3, <1>4

\* A request that ends in an exception, with a failed stream, with its client
\* gone or with its answer.
LEMMA EndEffect ==
    ASSUME TypeInv, NEW r \in Requests, NEW why, why # "deleted",
           Raise(r, why) \/ Finish(r, why)
    PROVE  /\ Ended(req[r], req'[r]) /\ req'[r].outcome # "deleted"
           /\ \A q \in Requests \ {r} : req'[q] = req[q]
<1>0. req[r] \in Request /\ req \in [Requests -> Request]
  BY DEF TypeInv, TypeOK
<1>1. PICK w : w # "deleted" /\ req' = [req EXCEPT ![r] = Finished(req[r], w)]
  BY DEF Raise, Finish
<1>2. /\ req'[r] = Finished(req[r], w)
      /\ \A q \in Requests \ {r} : req'[q] = req[q]
  BY <1>0, <1>1
<1>3. QED
  BY <1>0, <1>1, <1>2, RequestOperatorFields

LEMMA CleanupEffect ==
    ASSUME TypeInv, NEW r \in Requests, CleanupStep(r)
    PROVE  Effect(r)
<1>0. req[r] \in Request /\ req \in [Requests -> Request]
  BY DEF TypeInv, TypeOK
<1>1. CASE ScanSessions(r)
  <2> DEFINE expired == {c \in Live :
                    is_conversation_session_expired(sessions[c], req[r].now)}
             swept == IF req[r].site = "sweep" THEN expired ELSE {}
             q == [req[r] EXCEPT !.step = "purge", !.now = 0,
                                 !.todo = expired, !.swept = swept]
  <2>1. /\ expired \subseteq Conversations /\ swept \subseteq Conversations
        /\ swept \subseteq expired
        /\ \A c \in expired : c \in Live /\ req[r].now >= sessions[c].expires
    BY DEF Live, is_conversation_session_expired
  <2>2. req' = [req EXCEPT ![r] = AfterPurge(q)]
    BY <1>1 DEF ScanSessions
  <2> HIDE DEF expired, swept
  <2>3. /\ q \in Request /\ q.step = "purge" /\ q.todo = expired /\ q.swept = swept
        /\ q.site = req[r].site
        /\ q.user = req[r].user /\ q.conv = req[r].conv /\ q.context = req[r].context
        /\ q.session = req[r].session /\ q.outcome = req[r].outcome
    BY <1>0, <2>1 DEF Request, Steps, HandlerSteps
  <2> HIDE DEF q
  <2>4. req'[r] = AfterPurge(q) /\ \A p \in Requests \ {r} : req'[p] = req[p]
    BY <1>0, <2>2
  <2>5. /\ Cleaned(q, req'[r], clock) /\ req'[r].todo = expired /\ req'[r].swept = swept
        /\ req'[r].step = "forget" => req'[r].todo = {}
    BY <2>3, <2>4, RequestOperatorFields
  <2>6. Cleaned(req[r], req'[r], clock)
    BY <2>3, <2>5 DEF Cleaned, Stays, Moved, SameTurn
  <2>7. Scanned(r)
    BY <1>1, <2>1, <2>5, <2>6 DEF ScanSessions, Scanned
  <2>8. QED
    BY <1>1, <2>4, <2>7, CalmNotes DEF ScanSessions, Effect
<1>2. CASE ScanInterrupted(r)
  <2>1. Raise(r, "error") /\ req[r].step = "scan" /\ <<r, NoConversation>> \in disturbed
    BY <1>2 DEF ScanInterrupted
  <2>2. QED
    BY <1>2, <2>1, EndEffect, CalmNotes DEF ScanInterrupted, Calm, Stopped, Effect
<1>3. ASSUME NEW c \in Conversations, PurgeSession(r, c)
      PROVE  Effect(r)
  <2> DEFINE q == [req[r] EXCEPT !.todo = req[r].todo \ {c}]
  <2>1. CASE c \in Live
    <3>1. /\ q \in Request /\ q.step = "purge" /\ q.todo = req[r].todo \ {c}
          /\ q.site = req[r].site /\ q.swept = req[r].swept
          /\ q.user = req[r].user /\ q.conv = req[r].conv /\ q.context = req[r].context
          /\ q.session = req[r].session /\ q.outcome = req[r].outcome
      BY <1>0, <1>3 DEF PurgeSession, Request
    <3>2. /\ req' = [req EXCEPT ![r] = AfterPurge(q)]
          /\ sessions' = [sessions EXCEPT ![c] = NoSession]
      BY <1>3, <2>1 DEF PurgeSession, StoreSession
    <3> HIDE DEF q
    <3>3. req'[r] = AfterPurge(q) /\ \A p \in Requests \ {r} : req'[p] = req[p]
      BY <1>0, <3>2
    <3>4. /\ Cleaned(q, req'[r], clock)
          /\ req'[r].todo = req[r].todo \ {c} /\ req'[r].swept = req[r].swept
          /\ req'[r].step = "forget" => req'[r].todo = {}
      BY <3>1, <3>3, RequestOperatorFields
    <3>5. Cleaned(req[r], req'[r], clock)
      BY <3>1, <3>4 DEF Cleaned, Stays, Moved, SameTurn
    <3>6. Purged(r)
      BY <1>3, <3>2, <3>4, <3>5 DEF PurgeSession, Purged
    <3>7. QED
      BY <1>3, <2>1, <3>3, <3>6, StoreNotes DEF PurgeSession, Effect
  <2>2. CASE c \notin Live
    <3>1. Raise(r, "error") /\ req[r].step = "purge" /\ c \in req[r].todo
      BY <1>3, <2>2 DEF PurgeSession
    <3>2. req'[r].step # "purge"
      BY <3>1, EndEffect DEF Ended
    <3>3. QED
      BY <1>3, <2>2, <3>1, <3>2, EndEffect, CalmNotes DEF PurgeSession, Calm, Stopped, Effect
  <2>3. QED
    BY <2>1, <2>2
<1>4. ASSUME NEW c \in Conversations, delete_message_histories(r, c)
      PROVE  Effect(r)
  <2> DEFINE q == [req[r] EXCEPT !.swept = req[r].swept \ {c}]
  <2>1. /\ q \in Request /\ q.step = "forget" /\ q.site = req[r].site
        /\ q.swept = req[r].swept \ {c}
        /\ q.user = req[r].user /\ q.conv = req[r].conv /\ q.context = req[r].context
        /\ q.session = req[r].session /\ q.outcome = req[r].outcome
    BY <1>0, <1>4 DEF delete_message_histories, Request
  <2>2. \/ EraseHistory(r, c) /\ req' = [req EXCEPT ![r] = AfterForget(q)]
        \/ EraseCollides(r, c) /\ Raise(r, "error")
    BY <1>4 DEF delete_message_histories
  <2> HIDE DEF q
  <2>3. CASE EraseHistory(r, c) /\ req' = [req EXCEPT ![r] = AfterForget(q)]
    <3>1. req'[r] = AfterForget(q) /\ \A p \in Requests \ {r} : req'[p] = req[p]
      BY <1>0, <2>3
    <3>2. /\ req'[r].swept = q.swept
          /\ \/ Stays(q, req'[r], q.site, "forget")
             \/ Stays(q, req'[r], "turn", "scan") /\ req'[r].now = clock
      BY <2>1, <3>1, RequestOperatorFields
    <3>3. \/ Stays(req[r], req'[r], req[r].site, "forget")
          \/ Stays(req[r], req'[r], "turn", "scan") /\ req'[r].now = clock
      BY <2>1, <3>2 DEF Stays, Moved, SameTurn
    <3>4. Forgot(r)
      BY <1>4, <2>1, <2>3, <3>2, <3>3 DEF delete_message_histories, EraseHistory, Forgot
    <3>5. QED
      BY <1>4, <2>3, <3>1, <3>4, EraseNotes DEF delete_message_histories, Effect
  <2>4. CASE EraseCollides(r, c) /\ Raise(r, "error")
    <3>1. req[r].step = "forget" /\ disturbed # {}
      BY <1>4, <2>4 DEF delete_message_histories, EraseCollides
    <3>2. QED
      BY <1>4, <2>4, <3>1, EndEffect, CalmNotes
         DEF delete_message_histories, EraseCollides, Calm, Stopped, Effect
  <2>5. QED
    BY <2>2, <2>3, <2>4
<1>5. QED
  BY <1>1, <1>2, <1>3, <1>4 DEF CleanupStep

LEMMA SessionEffect ==
    ASSUME TypeInv, NEW r \in Requests, SessionStep(r)
    PROVE  Effect(r)
<1>0. req[r] \in Request /\ Placed(req[r]) /\ req \in [Requests -> Request]
  BY DEF TypeInv, TypeOK
<1>1. req[r].conv \in Conversations
  BY <1>0 DEF SessionStep, LookupSession, EvictSession, TouchSession, Placed
<1>2. CASE LookupSession(r)
  <2> DEFINE s == sessions[req[r].conv]
             evicted == [req[r] EXCEPT !.step = "evict"]
             touched == [req[r] EXCEPT !.step = "touch", !.now = clock, !.session = s]
  <2>1. Stays(req[r], evicted, req[r].site, "evict")
    BY <1>0 DEF Request, Stays, Moved, SameTurn
  <2>2. Moved(req[r], touched, req[r].site, "touch") /\ touched.session = s
    BY <1>0 DEF Request, Moved, SameTurn
  <2>3. \/ /\ Raise(r, "not_found") \/ Raise(r, "denied")
           /\ s # NoSession => s.user # req[r].user
        \/ /\ s # NoSession /\ s.user = req[r].user /\ clock >= s.expires
           /\ req' = [req EXCEPT ![r] = evicted]
        \/ /\ s # NoSession /\ s.user = req[r].user
           /\ req' = [req EXCEPT ![r] = touched]
    BY <1>2 DEF LookupSession, is_conversation_session_expired
  <2>4. ASSUME Raise(r, "not_found") \/ Raise(r, "denied"),
               s # NoSession => s.user # req[r].user
        PROVE  Effect(r)
    BY <1>2, <2>4, EndEffect, CalmNotes DEF LookupSession, Calm, Stopped, Effect, Live
  <2>5. ASSUME NEW q, s # NoSession, s.user = req[r].user,
               req' = [req EXCEPT ![r] = q],
               \/ Stays(req[r], q, req[r].site, "evict") /\ clock >= s.expires
               \/ Moved(req[r], q, req[r].site, "touch") /\ q.session = s
        PROVE  Effect(r)
    <3>1. req'[r] = q /\ \A p \in Requests \ {r} : req'[p] = req[p]
      BY <1>0, <2>5
    <3>2. Checked(r)
      BY <1>1, <1>2, <2>5, <3>1 DEF LookupSession, Checked, Live
    <3>3. QED
      BY <1>2, <3>1, <3>2, CalmNotes DEF LookupSession, Effect
  <2> HIDE DEF s, evicted, touched
  <2>6. QED
    BY <2>1, <2>2, <2>3, <2>4, <2>5
<1>3. CASE EvictSession(r)
  <2>1. CASE StoreSession(r, req[r].conv, NoSession) /\ Raise(r, "expired")
    <3>1. sessions' = [sessions EXCEPT ![req[r].conv] = NoSession] /\ Noted(r)
      BY <1>1, <2>1, StoreNotes
    <3>2. Evicted(r)
      BY <1>3, <2>1, <3>1, EndEffect DEF EvictSession, Evicted
    <3>3. QED
      BY <1>3, <2>1, <3>1, <3>2, EndEffect DEF EvictSession, Effect
  <2>2. CASE DropCollides(r)
    <3>1. Raise(r, "error") /\ req[r].step = "evict"
      BY <1>3, <2>2 DEF EvictSession, DropCollides
    <3>2. QED
      BY <1>3, <2>2, <3>1, EndEffect, CalmNotes DEF EvictSession, DropCollides, Calm, Stopped, Effect
  <2>3. QED
    BY <1>3, <2>1, <2>2 DEF EvictSession
<1>4. CASE TouchSession(r)
  <2> DEFINE s == touch_conversation_session(req[r].session, req[r].now)
             next == CASE req[r].site = "turn" -> "load"
                       [] req[r].site = "delete" -> "drop"
                       [] OTHER -> "append"
             q == [req[r] EXCEPT !.session = s, !.now = 0, !.step = next]
  <2>1. req[r].session \in Session /\ req[r].now \in Nat
    BY <1>0, <1>4 DEF TouchSession, Placed, Request
  <2>2. /\ s \in Session /\ s.user = req[r].session.user
        /\ s.messages = req[r].session.messages
    BY <2>1, SettingsAssumption, SMTT(30)
       DEF Session, touch_conversation_session, build_expiration_time
  <2>3. sessions' = [sessions EXCEPT ![req[r].conv] = s]
    BY <1>4 DEF TouchSession, StoreSession
  <2>4. req' = [req EXCEPT ![r] = q]
    BY <1>0, <1>4 DEF TouchSession
  <2>5. \/ next = "load" /\ req[r].site = "turn"
        \/ next = "drop" /\ req[r].site = "delete"
        \/ next = "append" /\ req[r].site \in {"user", "assistant"}
    BY <1>0, <1>4 DEF TouchSession, Placed
  <2> HIDE DEF s, next
  <2>6. Moved(req[r], q, req[r].site, next) /\ q.session = s
    BY <1>0 DEF Request, Moved, SameTurn
  <2> HIDE DEF q
  <2>7. req'[r] = q /\ \A p \in Requests \ {r} : req'[p] = req[p]
    BY <1>0, <2>4
  <2>8. Touched(r)
    BY <1>4, <2>2, <2>3, <2>5, <2>6, <2>7 DEF TouchSession, Touched
  <2>9. Noted(r)
    BY <1>1, <1>4, StoreNotes DEF TouchSession
  <2>10. QED
    BY <1>4, <2>7, <2>8, <2>9 DEF TouchSession, Effect
<1>5. QED
  BY <1>2, <1>3, <1>4 DEF SessionStep

LEMMA TurnEffect ==
    ASSUME TypeInv, NEW r \in Requests,
           TurnStep(r) \/ StreamFails(r) \/ Disconnect(r)
    PROVE  Effect(r)
<1>0. req[r] \in Request /\ Placed(req[r]) /\ req \in [Requests -> Request] /\ clock \in Nat
  BY DEF TypeInv, TypeOK
<1>1. CASE load_message_history(r)
  <2> DEFINE h == histories[req[r].conv]
             q == [req[r] EXCEPT !.context = h, !.session = NoSession, !.step = "stream"]
  <2>1. /\ q.user = req[r].user /\ q.conv = req[r].conv /\ q.context = h
        /\ q.site = req[r].site /\ q.step = "stream"
        /\ q.session = NoSession /\ q.outcome = req[r].outcome
    BY <1>0 DEF Request
  <2>2. req' = [req EXCEPT ![r] = q]
    BY <1>0, <1>1 DEF load_message_history
  <2> HIDE DEF q
  <2>3. req'[r] = q /\ \A p \in Requests \ {r} : req'[p] = req[p]
    BY <1>0, <2>2
  <2>4. Loaded(r)
    BY <1>1, <2>1, <2>3 DEF load_message_history, Loaded
  <2>5. QED
    BY <1>1, <2>3, <2>4, CalmNotes DEF load_message_history, Effect
<1>2. CASE save_message_history(r)
  <2>1. req' = [req EXCEPT ![r] = BeginCleanup(req[r], "user")]
    BY <1>2 DEF save_message_history
  <2>2. /\ req'[r] = BeginCleanup(req[r], "user")
        /\ \A p \in Requests \ {r} : req'[p] = req[p]
    BY <1>0, <2>1
  <2>3. Stays(req[r], req'[r], "user", "scan") /\ req'[r].now = clock
    BY <1>0, <2>2, RequestOperatorFields
  <2>4. Saved(r)
    BY <1>2, <2>3 DEF save_message_history, Saved
  <2>5. QED
    BY <1>2, <2>2, <2>4, CalmNotes DEF save_message_history, Effect
<1>3. CASE append_message_to_conversation(r)
  <2> DEFINE s == append_conversation_message(req[r].session, <<r, req[r].site>>, clock)
             user == [req[r] EXCEPT !.session = NoSession]
             reply == [req[r] EXCEPT !.session = NoSession, !.site = "none", !.step = "reply"]
  <2>1. /\ req[r].session \in Session /\ <<r, req[r].site>> \in Message
        /\ req[r].site \in {"user", "assistant"}
    BY <1>0, <1>3 DEF append_message_to_conversation, Placed, Message
  <2>2. s \in Session /\ s.user = req[r].session.user
    BY <1>0, <2>1, SessionOperatorTypes
  <2>3. s.messages = LastN(Append(req[r].session.messages, <<r, req[r].site>>), MaxMessages)
    BY <2>1 DEF append_conversation_message, Session
  <2>4. /\ sessions' = [sessions EXCEPT ![req[r].conv] = s]
        /\ \/ /\ req' = [req EXCEPT ![r] = BeginCleanup(user, "assistant")]
              /\ req[r].site = "user"
           \/ req' = [req EXCEPT ![r] = reply] /\ req[r].site = "assistant"
    BY <1>3, <2>1 DEF append_message_to_conversation, StoreSession
  <2> HIDE DEF s
  <2>5. /\ user \in Request /\ Moved(req[r], user, req[r].site, req[r].step)
        /\ user.session = NoSession
        /\ Moved(req[r], reply, "none", "reply") /\ reply.session = NoSession
    BY <1>0 DEF Request, Moved, SameTurn
  <2> HIDE DEF user, reply
  <2>6. \A p \in Requests \ {r} : req'[p] = req[p]
    BY <1>0, <2>4
  <2>10. Noted(r)
    BY <1>0, <1>3, StoreNotes DEF append_message_to_conversation, Placed
  <2>7. CASE req[r].site = "user"
    <3>1. req'[r] = BeginCleanup(user, "assistant")
      BY <1>0, <2>4, <2>7
    <3>2. Stays(user, req'[r], "assistant", "scan") /\ req'[r].now = clock
      BY <2>5, <3>1, RequestOperatorFields
    <3>3. Moved(req[r], req'[r], "assistant", "scan") /\ req'[r].session = NoSession
      BY <2>5, <3>2 DEF Stays, Moved, SameTurn
    <3>4. Appended(r)
      BY <1>3, <2>2, <2>3, <2>4, <2>7, <3>2, <3>3
         DEF append_message_to_conversation, Appended
    <3>5. QED
      BY <1>3, <2>6, <2>10, <3>4 DEF append_message_to_conversation, Effect
  <2>8. CASE req[r].site = "assistant"
    <3>1. req'[r] = reply
      BY <1>0, <2>4, <2>8
    <3>2. Appended(r)
      BY <1>3, <2>2, <2>3, <2>4, <2>5, <2>8, <3>1
         DEF append_message_to_conversation, Appended
    <3>3. QED
      BY <1>3, <2>6, <2>10, <3>2 DEF append_message_to_conversation, Effect
  <2>9. QED
    BY <2>1, <2>7, <2>8
<1>4. CASE EndTurn(r) \/ StreamFails(r) \/ Disconnect(r)
  <2>1. PICK why \in {"answered", "stream_error", "cancelled"} : Finish(r, why)
    BY <1>4 DEF EndTurn, StreamFails, Disconnect
  <2>2. why # "deleted"
    OBVIOUS
  <2>3. /\ Ended(req[r], req'[r]) /\ req'[r].outcome # "deleted"
        /\ \A q \in Requests \ {r} : req'[q] = req[q]
    BY <2>1, <2>2, EndEffect
  <2>4. QED
    BY <1>4, <2>3, CalmNotes DEF EndTurn, StreamFails, Disconnect, Stopped, Effect
<1>5. QED
  BY <1>1, <1>2, <1>3, <1>4 DEF TurnStep

LEMMA DeleteEffect ==
    ASSUME TypeInv, NEW r \in Requests, DeleteStep(r)
    PROVE  Effect(r)
<1>0. req[r] \in Request /\ req \in [Requests -> Request] /\ req[r].conv \in Conversations
  BY DEF TypeInv, TypeOK, Placed, DeleteStep, delete_conversation_session, delete_message_history
<1>1. CASE delete_conversation_session(r)
  <2> DEFINE q == [req[r] EXCEPT !.session = NoSession, !.step = "erase"]
  <2>1. \/ StoreSession(r, req[r].conv, NoSession) /\ req' = [req EXCEPT ![r] = q]
        \/ DropCollides(r)
    BY <1>0, <1>1 DEF delete_conversation_session
  <2>2. Moved(req[r], q, req[r].site, "erase") /\ q.session = NoSession
    BY <1>0 DEF Request, Moved, SameTurn
  <2> HIDE DEF q
  <2>3. CASE StoreSession(r, req[r].conv, NoSession) /\ req' = [req EXCEPT ![r] = q]
    <3>1. req'[r] = q /\ \A p \in Requests \ {r} : req'[p] = req[p]
      BY <1>0, <2>3
    <3>2. sessions' = [sessions EXCEPT ![req[r].conv] = NoSession] /\ Noted(r)
      BY <1>0, <2>3, StoreNotes
    <3>3. Dropped(r)
      BY <1>1, <2>2, <3>1, <3>2 DEF delete_conversation_session, Dropped
    <3>4. QED
      BY <1>1, <3>1, <3>2, <3>3 DEF delete_conversation_session, Effect
  <2>4. CASE DropCollides(r)
    <3>1. Raise(r, "error") /\ req[r].step = "drop"
      BY <1>1, <2>4 DEF delete_conversation_session, DropCollides
    <3>2. QED
      BY <1>1, <2>4, <3>1, EndEffect, CalmNotes
         DEF delete_conversation_session, DropCollides, Calm, Stopped, Effect
  <2>5. QED
    BY <2>1, <2>3, <2>4
<1>2. CASE delete_message_history(r)
  <2>1. CASE EraseHistory(r, req[r].conv) /\ Finish(r, "deleted")
    <3>1. req' = [req EXCEPT ![r] = Finished(req[r], "deleted")]
      BY <2>1 DEF Finish
    <3>2. /\ req'[r] = Finished(req[r], "deleted")
          /\ \A p \in Requests \ {r} : req'[p] = req[p]
      BY <1>0, <3>1
    <3>3. Erased(r)
      BY <1>0, <1>2, <2>1, <3>2, RequestOperatorFields
         DEF delete_message_history, EraseHistory, Erased
    <3>4. Noted(r)
      BY <1>0, <1>2, <2>1, EraseNotes DEF delete_message_history
    <3>5. QED
      BY <1>2, <3>2, <3>3, <3>4 DEF delete_message_history, Effect
  <2>2. CASE EraseCollides(r, req[r].conv) /\ Raise(r, "error")
    <3>1. req[r].step = "erase" /\ disturbed # {}
      BY <1>2, <2>2 DEF delete_message_history, EraseCollides
    <3>2. QED
      BY <1>2, <2>2, <3>1, EndEffect, CalmNotes
         DEF delete_message_history, EraseCollides, Calm, Stopped, Effect
  <2>3. QED
    BY <1>2, <2>1, <2>2 DEF delete_message_history
<1>3. QED
  BY <1>1, <1>2 DEF DeleteStep

\* A restart ends what is in flight and empties the dictionaries.
Lost(r) ==
    \/ req'[r] = req[r] /\ req[r].step \in {"idle", "done"}
    \/ /\ req[r].step # "idle"
       /\ Ended(req[r], req'[r]) /\ req'[r].outcome = "lost"
Emptied ==
    /\ clock' = clock /\ creator' = creator /\ log' = log /\ disturbed' = {}
    /\ sessions' = [c \in Conversations |-> NoSession]
    /\ histories' = [c \in Conversations |-> <<>>]
    /\ \A r \in Requests : Lost(r)

\* Every step is one of those above.
LEMMA NextEffect ==
    ASSUME TypeInv, [Next]_vars
    PROVE  \/ clock' = clock + 1 /\ UNCHANGED <<sessions, histories, req, disturbed, creator, log>>
           \/ Restart /\ Emptied
           \/ \E r \in Requests : Effect(r)
           \/ UNCHANGED <<clock, sessions, histories, req, disturbed, creator, log>>
<1>1. ASSUME NEW r \in Requests, Arrival(r) \/ Progress(r) \/ Disconnect(r)
      PROVE  Effect(r)
  BY <1>1, ArrivalEffect, CleanupEffect, SessionEffect, TurnEffect, DeleteEffect DEF Progress
<1>2. CASE Restart
  <2>1. ASSUME NEW r \in Requests PROVE Lost(r)
    <3>1. CASE InFlight(r)
      <4>1. req'[r] = Finished(req[r], "lost")
        BY <1>2, <3>1 DEF Restart
      <4>2. req[r] \in Request /\ req[r].step # "idle"
        BY <3>1 DEF TypeInv, TypeOK, InFlight
      <4>3. QED
        BY <4>1, <4>2, RequestOperatorFields DEF Lost
    <3>2. CASE ~InFlight(r)
      BY <1>2, <3>2 DEF Restart, InFlight, Lost
    <3>3. QED
      BY <3>1, <3>2
  <2>2. QED
    BY <1>2, <2>1 DEF Restart, Emptied
<1>3. CASE Tick
  BY <1>3 DEF Tick
<1>4. CASE UNCHANGED vars
  BY <1>4 DEF vars
<1>5. QED
  BY <1>1, <1>2, <1>3, <1>4 DEF Next

-----------------------------------------------------------------------------
(***************************************************************************)
(* The length of a transcript.  A session is saved from a snapshot that a  *)
(* thread took earlier, so the bound is kept for the snapshots too.        *)
(***************************************************************************)
Bounded(s) == s # NoSession => Len(s.messages) <= MaxMessages
BoundInv ==
    /\ \A c \in Conversations : Bounded(sessions[c])
    /\ \A r \in Requests : Bounded(req[r].session)

\* next_messages[-max_messages:] has at most max_messages elements.
LEMMA LastNLen ==
    ASSUME NEW S, NEW s \in Seq(S), NEW n \in Nat
    PROVE  Len(LastN(s, n)) <= n
<1>1. CASE Len(s) <= n
  BY <1>1 DEF LastN
<1>2. CASE ~(Len(s) <= n)
  <2>1. /\ Len(s) \in Nat
        /\ Len(s) - n + 1 \in 1..(Len(s) + 1)
    BY <1>2, LenProperties
  <2>2. \A i \in (Len(s) - n + 1)..Len(s) : s[i] \in S
    BY <2>1, ElementOfSeq
  <2>3. Len(SubSeq(s, Len(s) - n + 1, Len(s))) = n
    BY <1>2, <2>1, <2>2, SubSeqProperties
  <2>4. QED
    BY <1>2, <2>3 DEF LastN
<1>3. QED
  BY <1>1, <1>2

LEMMA InitBound == Init => BoundInv
BY DEF Init, IdleRequest, BoundInv, Bounded

\* Every step keeps the sessions and the snapshots within the bound.
LEMMA NextBound == TypeInv /\ BoundInv /\ [Next]_vars => BoundInv'
<1> SUFFICES ASSUME TypeInv, BoundInv, [Next]_vars PROVE BoundInv'
  OBVIOUS
<1>1. CASE \/ UNCHANGED <<sessions, histories, req, creator, log>>
           \/ Restart /\ Emptied
  BY <1>1 DEF Emptied, Lost, Ended, BoundInv, Bounded
<1>2. ASSUME NEW r \in Requests, Effect(r)
      PROVE  BoundInv'
  <2>0. /\ sessions \in [Conversations -> Session \cup {NoSession}]
        /\ req[r] \in Request /\ Placed(req[r])
    BY DEF TypeInv, TypeOK
  <2>1. SUFFICES /\ \A c \in Conversations : Bounded(sessions'[c])
                 /\ Bounded(req'[r].session)
    BY <1>2 DEF Effect, BoundInv
  <2>2. ASSUME NEW c, NEW s, Bounded(s), sessions' = [sessions EXCEPT ![c] = s]
        PROVE  \A d \in Conversations : Bounded(sessions'[d])
    BY <2>0, <2>2 DEF BoundInv
  <2>3. /\ Bounded(NoSession) /\ Bounded(req[r].session)
        /\ \A c \in Conversations : Bounded(sessions[c])
    BY DEF Bounded, BoundInv
  <2>4. CASE Created(r)
    <3>1. PICK c \in Conversations, s \in Session :
                 s.messages = <<>> /\ sessions' = [sessions EXCEPT ![c] = s]
      BY <2>4 DEF Created
    <3>2. Bounded(s)
      BY <3>1, SettingsAssumption DEF Bounded
    <3>3. QED
      BY <2>2, <2>3, <2>4, <3>1, <3>2 DEF Created
  <2>5. CASE Accepted(r)
    BY <2>3, <2>5 DEF Accepted
  <2>6. CASE Scanned(r)
    BY <2>3, <2>6 DEF Scanned, Cleaned, Stays
  <2>7. CASE Purged(r)
    BY <2>2, <2>3, <2>7 DEF Purged, Cleaned, Stays
  <2>8. CASE Forgot(r)
    BY <2>3, <2>8 DEF Forgot, Stays
  <2>9. CASE Stopped(r)
    BY <2>3, <2>9 DEF Stopped, Ended
  <2>10. CASE Checked(r)
    BY <2>0, <2>3, <2>10 DEF Checked, Stays, Placed, Live
  <2>11. CASE Evicted(r)
    BY <2>2, <2>3, <2>11 DEF Evicted, Ended
  <2>12. CASE Touched(r)
    <3>1. PICK s \in Session :
             /\ s.messages = req[r].session.messages
             /\ sessions' = [sessions EXCEPT ![req[r].conv] = s]
             /\ req'[r].session = s
      BY <2>12 DEF Touched
    <3>2. req[r].session # NoSession
      BY <2>0, <2>12, NoSessionAssumption DEF Touched, Placed
    <3>3. Bounded(s)
      BY <2>3, <3>1, <3>2 DEF Bounded
    <3>4. QED
      BY <2>2, <3>1, <3>3
  <2>13. CASE Loaded(r)
    BY <2>3, <2>13 DEF Loaded
  <2>14. CASE Saved(r)
    BY <2>3, <2>14 DEF Saved, Stays
  <2>15. CASE Appended(r)
    <3> DEFINE longer == Append(req[r].session.messages, <<r, req[r].site>>)
    <3>1. PICK s \in Session :
             /\ s.messages = LastN(longer, MaxMessages)
             /\ sessions' = [sessions EXCEPT ![req[r].conv] = s]
      BY <2>15 DEF Appended
    <3>2. longer \in Seq(Message)
      BY <2>0, <2>15 DEF Appended, Placed, Session, Message
    <3> HIDE DEF longer
    <3>3. Bounded(s)
      BY <3>1, <3>2, LastNLen, SettingsAssumption DEF Bounded
    <3>4. QED
      BY <2>2, <2>3, <2>15, <3>1, <3>3 DEF Appended
  <2>16. CASE Dropped(r)
    BY <2>2, <2>3, <2>16 DEF Dropped
  <2>17. CASE Erased(r)
    BY <2>3, <2>17 DEF Erased, Ended
  <2>18. QED
    BY <1>2, <2>4, <2>5, <2>6, <2>7, <2>8, <2>9, <2>10, <2>11, <2>12, <2>13, <2>14,
       <2>15, <2>16, <2>17 DEF Effect
<1>3. QED
  BY <1>1, <1>2, NextEffect

\* append_conversation_message keeps every session within
\* MAX_CONVERSATION_MESSAGES, for every schedule of the threads and whatever
\* stale snapshot it is applied to.
THEOREM TranscriptsStayBounded == Spec => []TranscriptBounded
<1>1. Init => TypeInv /\ BoundInv
  BY InitType, InitBound
<1>2. TypeInv /\ BoundInv /\ [Next]_vars => (TypeInv /\ BoundInv)'
  BY NextType, NextBound
<1>3. BoundInv => TranscriptBounded
  BY DEF BoundInv, Bounded, TranscriptBounded, Live
<1>4. QED
  BY <1>1, <1>2, <1>3, PTL DEF Spec

-----------------------------------------------------------------------------
(***************************************************************************)
(* The removal of sessions, for every schedule.  A cleanup and a lookup    *)
(* judge a session and remove it in a later step.  JudgedInv says that the *)
(* judgement still holds when the session is removed, unless another       *)
(* thread has saved it in between, and that only its owner drops one.      *)
(***************************************************************************)
Judged(r, c) ==
    Condemned(r, c) /\ sessions[c] # NoSession =>
        clock >= sessions[c].expires \/ <<r, c>> \in disturbed
JudgedInv ==
    \A r \in Requests :
        /\ req[r].step = "scan" => req[r].now <= clock
        /\ \A c \in Conversations : Judged(r, c)
        /\ req[r].step = "drop" => req[r].user = creator[req[r].conv]

LEMMA InitJudged == Init => JudgedInv
BY DEF Init, IdleRequest, JudgedInv, Judged, Condemned

\* The judgements of the requests that do not move.
LEMMA JudgedOthers ==
    ASSUME TypeInv, JudgedInv, NEW r \in Requests, Effect(r),
           \A c \in Conversations : creator[c] # NoUser => creator'[c] = creator[c],
           NEW q \in Requests \ {r}
    PROVE  /\ req'[q].step = "scan" => req'[q].now <= clock'
           /\ \A c \in Conversations : Judged(q, c)'
           /\ req'[q].step = "drop" => req'[q].user = creator'[req'[q].conv]
<1>0. req'[q] = req[q] /\ clock' = clock /\ Noted(r)
  BY DEF Effect
<1>1. req[q].step = "drop" => creator'[req[q].conv] = creator[req[q].conv]
  BY NullAssumption DEF JudgedInv, TypeInv, Placed
<1>2. ASSUME NEW c \in Conversations PROVE Judged(q, c)'
  <2>1. Judged(q, c) /\ (Condemned(q, c)' <=> Condemned(q, c))
    BY <1>0 DEF JudgedInv, Condemned
  <2>2. /\ <<q, c>> \in disturbed => <<q, c>> \in disturbed'
        /\ Condemned(q, c) /\ sessions'[c] \notin {NoSession, sessions[c]}
              => <<q, c>> \in disturbed'
    BY <1>0 DEF Noted
  <2>3. QED
    BY <1>0, <2>1, <2>2 DEF Judged
<1>3. QED
  BY <1>0, <1>1, <1>2 DEF JudgedInv

\* The step of a request keeps its own judgements.
LEMMA EffectJudged ==
    ASSUME TypeInv, OwnerInv, JudgedInv, NEW r \in Requests, Effect(r)
    PROVE  JudgedInv'
<1>0. /\ sessions \in [Conversations -> Session \cup {NoSession}]
      /\ creator \in [Conversations -> Users \cup {NoUser}]
      /\ req[r] \in Request /\ Placed(req[r])
      /\ clock' = clock /\ clock \in Nat /\ Noted(r)
      /\ \A c \in Conversations : sessions[c] # NoSession => sessions[c].expires \in Nat
  BY DEF TypeInv, TypeOK, Effect, Session
<1>1. \A c \in Conversations : creator[c] # NoUser => creator'[c] = creator[c]
  <2>1. CASE Created(r)
    BY <1>0, <2>1 DEF Created
  <2>2. CASE creator' = creator
    BY <2>2
  <2>3. QED
    BY <2>1, <2>2 DEF Effect, Accepted, Scanned, Purged, Forgot, Stopped, Checked, Evicted,
                      Touched, Loaded, Saved, Appended, Dropped, Erased
<1>2. SUFFICES /\ req'[r].step = "scan" => req'[r].now <= clock'
               /\ \A c \in Conversations : Judged(r, c)'
               /\ req'[r].step = "drop" => req'[r].user = creator'[req'[r].conv]
  BY <1>1, JudgedOthers DEF JudgedInv
<1>3. ASSUME req'[r].step = "scan" => req'[r].now = clock,
             req'[r].step \notin {"purge", "evict", "drop"}
      PROVE  /\ req'[r].step = "scan" => req'[r].now <= clock'
             /\ \A c \in Conversations : Judged(r, c)'
             /\ req'[r].step = "drop" => req'[r].user = creator'[req'[r].conv]
  BY <1>0, <1>3 DEF Judged, Condemned
<1>4. CASE Created(r) \/ Accepted(r) \/ Forgot(r) \/ Stopped(r) \/ Evicted(r) \/ Loaded(r)
           \/ Saved(r) \/ Appended(r) \/ Dropped(r) \/ Erased(r)
  <2>1. /\ req'[r].step = "scan" => req'[r].now = clock
        /\ req'[r].step \notin {"purge", "evict", "drop"}
    BY <1>4 DEF Created, Accepted, Forgot, Stopped, Evicted, Loaded, Saved, Appended,
                Dropped, Erased, Stays, Moved, Ended
  <2>2. QED
    BY <1>3, <2>1
<1>5. ASSUME Cleaned(req[r], req'[r], clock)
      PROVE  /\ req'[r].step = "scan" => req'[r].now = clock
             /\ req'[r].step \notin {"evict", "drop"}
  BY <1>5 DEF Cleaned, Stays, Moved
<1>6. CASE Scanned(r)
  <2>1. req[r].now <= clock /\ req[r].now \in Nat
    BY <1>0, <1>6 DEF JudgedInv, Scanned, Request
  <2>2. \A c \in req'[r].todo : sessions'[c] # NoSession => clock' >= sessions'[c].expires
    BY <1>0, <1>6, <2>1 DEF Scanned, Live
  <2>3. QED
    BY <1>0, <1>5, <1>6, <2>2 DEF Scanned, Judged, Condemned
<1>7. CASE Purged(r)
  <2>1. PICK c \in Conversations :
          /\ Cleaned(req[r], req'[r], clock) /\ req[r].step = "purge"
          /\ req'[r].todo = req[r].todo \ {c}
          /\ sessions' = [sessions EXCEPT ![c] = NoSession]
    BY <1>7 DEF Purged
  <2>2. ASSUME NEW d \in Conversations, Condemned(r, d)', sessions'[d] # NoSession
        PROVE  clock' >= sessions'[d].expires \/ <<r, d>> \in disturbed'
    <3>1. req'[r].step = "purge" /\ d \in req[r].todo /\ d # c
      BY <1>5, <2>1, <2>2 DEF Condemned
    <3>2. sessions'[d] = sessions[d]
      BY <1>0, <2>1, <3>1
    <3>3. clock >= sessions[d].expires \/ <<r, d>> \in disturbed
      BY <2>1, <2>2, <3>1, <3>2 DEF JudgedInv, Judged, Condemned
    <3>4. QED
      BY <1>0, <2>1, <2>2, <3>1, <3>2, <3>3 DEF Noted
  <2>3. QED
    BY <1>0, <1>5, <2>1, <2>2 DEF Judged
<1>8. CASE Checked(r)
  <2>1. /\ req'[r].conv = req[r].conv /\ req'[r].step \in {"evict", "touch"}
        /\ req'[r].step = "evict" => clock >= sessions[req[r].conv].expires
        /\ sessions' = sessions
    BY <1>8 DEF Checked, Stays, Moved, SameTurn
  <2>2. QED
    BY <1>0, <2>1 DEF Judged, Condemned
<1>9. CASE Touched(r)
  <2>1. /\ req'[r].step \in {"load", "drop", "append"} /\ creator' = creator
        /\ req'[r].user = req[r].user /\ req'[r].conv = req[r].conv
    BY <1>9 DEF Touched, Moved, SameTurn
  <2>2. creator[req[r].conv] = req[r].user
    BY <1>9 DEF Touched, OwnerInv, PastCheck
  <2>3. QED
    BY <2>1, <2>2 DEF Judged, Condemned
<1>10. QED
  BY <1>4, <1>6, <1>7, <1>8, <1>9 DEF Effect

LEMMA NextJudged == TypeInv /\ OwnerInv /\ JudgedInv /\ [Next]_vars => JudgedInv'
<1> SUFFICES ASSUME TypeInv, OwnerInv, JudgedInv, [Next]_vars PROVE JudgedInv'
  OBVIOUS
<1>1. CASE clock' = clock + 1 /\ UNCHANGED <<sessions, histories, req, disturbed, creator, log>>
  <2>1. /\ clock \in Nat /\ \A r \in Requests : req[r].now \in Nat
        /\ \A c \in Conversations : sessions[c] # NoSession => sessions[c].expires \in Nat
    BY DEF TypeInv, TypeOK, Request, Session
  <2>2. QED
    BY <1>1, <2>1 DEF JudgedInv, Judged, Condemned
<1>2. CASE Emptied
  <2>1. \A r \in Requests : req'[r].step \in {"idle", "done"}
    BY <1>2 DEF Emptied, Lost, Ended
  <2>2. QED
    BY <2>1 DEF JudgedInv, Judged, Condemned
<1>3. CASE UNCHANGED <<clock, sessions, histories, req, disturbed, creator, log>>
  BY <1>3 DEF JudgedInv, Judged, Condemned
<1>4. QED
  BY <1>1, <1>2, <1>3, NextEffect, EffectJudged

\* Under every schedule a session goes away because it has expired, because its
\* owner deletes it, with the process, or because the thread that takes it had
\* judged it expired before another thread saved it again: the gap between the
\* scan of cleanup_expired_conversation_sessions and its deletions, or between
\* the lookup of get_conversation_for_user and its, is the only one.
THEOREM RemovalsAreJustified == Spec => RemovalJustified
<1>1. ASSUME TypeInv, OwnerInv, JudgedInv, [Next]_vars,
             NEW c \in Live, sessions'[c] = NoSession
      PROVE  \/ clock >= sessions[c].expires
             \/ \E r \in Requests : /\ req[r].step = "drop" /\ req'[r].step = "erase"
                                    /\ req[r].conv = c /\ req[r].user = creator[c]
             \/ \E r \in Requests : /\ <<r, c>> \in disturbed
                                    /\ req'[r] # req[r]
             \/ Restart
  <2>0. /\ c \in Conversations /\ sessions[c] # NoSession
        /\ sessions \in [Conversations -> Session \cup {NoSession}]
    BY <1>1 DEF Live, TypeInv, TypeOK
  <2>1. CASE sessions' = sessions
    BY <1>1, <2>0, <2>1
  <2>2. ASSUME NEW r \in Requests, Effect(r), sessions' # sessions
        PROVE  \/ clock >= sessions[c].expires
               \/ /\ req[r].step = "drop" /\ req'[r].step = "erase"
                  /\ req[r].conv = c /\ req[r].user = creator[c]
               \/ <<r, c>> \in disturbed /\ req'[r] # req[r]
    <3>0. /\ Judged(r, c)
          /\ req[r].step = "drop" => req[r].user = creator[req[r].conv]
      BY <1>1, <2>0 DEF JudgedInv
    <3>1. CASE Purged(r)
      <4>1. c \in req[r].todo /\ req[r].step = "purge"
        BY <1>1, <2>0, <3>1 DEF Purged
      <4>2. req'[r].todo = req[r].todo \ {c}
        BY <1>1, <2>0, <3>1 DEF Purged
      <4>3. req'[r] # req[r]
        BY <4>1, <4>2
      <4>4. QED
        BY <2>0, <3>0, <4>1, <4>3 DEF Judged, Condemned
    <3>2. CASE Evicted(r)
      <4>1. c = req[r].conv /\ req[r].step = "evict" /\ req'[r].step = "done"
        BY <1>1, <2>0, <3>2 DEF Evicted, Ended
      <4>2. QED
        BY <2>0, <3>0, <4>1 DEF Judged, Condemned
    <3>3. CASE Dropped(r)
      <4>1. c = req[r].conv /\ req[r].step = "drop" /\ req'[r].step = "erase"
        BY <1>1, <2>0, <3>3 DEF Dropped, Moved
      <4>2. QED
        BY <3>0, <4>1
    <3>4. ASSUME NEW d, NEW s \in Session, sessions' = [sessions EXCEPT ![d] = s]
          PROVE  FALSE
      <4>1. sessions'[c] = IF c = d THEN s ELSE sessions[c]
        BY <2>0, <3>4
      <4>2. QED
        BY <1>1, <2>0, <4>1, NoSessionAssumption
    <3>5. CASE Created(r) \/ Touched(r) \/ Appended(r)
      <4>1. \E d, s : s \in Session /\ sessions' = [sessions EXCEPT ![d] = s]
        <5>1. CASE Created(r)
          <6>1. PICK d \in Conversations, s \in Session : sessions' = [sessions EXCEPT ![d] = s]
            BY <5>1 DEF Created
          <6>2. QED
            BY <6>1
        <5>2. CASE Touched(r)
          <6>1. PICK s \in Session : sessions' = [sessions EXCEPT ![req[r].conv] = s]
            BY <5>2 DEF Touched
          <6>2. QED
            BY <6>1
        <5>3. CASE Appended(r)
          <6>1. PICK s \in Session : sessions' = [sessions EXCEPT ![req[r].conv] = s]
            BY <5>3 DEF Appended
          <6>2. QED
            BY <6>1
        <5>4. QED
          BY <3>5, <5>1, <5>2, <5>3
      <4>2. QED
        BY <3>4, <4>1
    <3>6. QED
      BY <2>2, <3>1, <3>2, <3>3, <3>5
         DEF Effect, Accepted, Scanned, Forgot, Stopped, Checked, Loaded, Saved, Erased
  <2>3. QED
    BY <1>1, <2>1, <2>2, NextEffect
<1>2. TypeInv /\ OwnerInv /\ JudgedInv /\ [Next]_vars =>
        [\A c \in Live : sessions'[c] = NoSession =>
          \/ clock >= sessions[c].expires
          \/ \E r \in Requests : /\ req[r].step = "drop" /\ req'[r].step = "erase"
                                 /\ req[r].conv = c /\ req[r].user = creator[c]
          \/ \E r \in Requests : /\ <<r, c>> \in disturbed
                                 /\ req'[r] # req[r]
          \/ Restart]_vars
  BY <1>1
<1>3. Init => TypeInv /\ OwnerInv /\ JudgedInv
  BY InitType, InitOwner, InitJudged
<1>4. TypeInv /\ OwnerInv /\ JudgedInv /\ [Next]_vars => (TypeInv /\ OwnerInv /\ JudgedInv)'
  BY NextType, NextOwner, NextJudged
<1>5. QED
  BY <1>2, <1>3, <1>4, PTL DEF Spec, RemovalJustified

-----------------------------------------------------------------------------
(***************************************************************************)
(* Handlers that run one at a time (Preemptive = FALSE).  A conversation   *)
(* that was deleted then stays deleted.  The invariant says what a running *)
(* handler may still rely on when it acts on what it read earlier: whether *)
(* its conversation exists, that its snapshot of the messages is the       *)
(* session's, that what it is about to purge is there, and that what it is *)
(* about to forget is gone.                                                *)
(***************************************************************************)
Foundation(r) ==
    /\ req[r].step # "idle" => creator[req[r].conv] # NoUser
    /\ req[r].step \in {"touch", "load", "drop", "append"} => req[r].conv \in Live
    /\ req[r].step = "erase" => req[r].conv \notin Live
    /\ req[r].outcome = "deleted" => req[r].step = "done" /\ req[r].conv \notin Live
    /\ req[r].step = "purge" => \A c \in req[r].todo : c \in Live
    /\ req[r].step \in {"purge", "forget"} =>
          \A c \in req[r].swept : c \in Live => req[r].step = "purge" /\ c \in req[r].todo
    /\ req[r].step \in {"touch", "append"} =>
          req[r].session.messages = sessions[req[r].conv].messages

SerialInv ==
    /\ \A r, q \in Requests : Running(r) /\ Running(q) => r = q
    /\ \A r \in Requests : Foundation(r)
    /\ disturbed = {}

LEMMA InitSerial == Init => SerialInv
BY DEF Init, IdleRequest, SerialInv, Foundation, Running, HandlerSteps, Live

\* A step that neither runs beside another handler nor brings back a
\* conversation leaves the other requests what they rely on.
LEMMA SerialOthers ==
    ASSUME ~Preemptive, TypeInv, TypeInv', SerialInv, NEW r \in Requests, Effect(r),
           CanRun(r),
           \A c \in Conversations : /\ c \in Live' => c \in Live \/ creator[c] = NoUser
                                    /\ creator[c] # NoUser => creator'[c] = creator[c],
           Foundation(r)'
    PROVE  SerialInv'
<1>1. ASSUME NEW q \in Requests \ {r}
      PROVE  Foundation(q)' /\ ~Running(q)'
  <2>1. req'[q] = req[q] /\ ~Running(q) /\ Foundation(q) /\ Placed(req[q])
    BY DEF Effect, CanRun, SerialInv, TypeInv
  <2>2. req[q].step \notin HandlerSteps
    BY <2>1 DEF Running
  <2>3. req[q].step # "idle" => /\ req[q].conv \in Conversations
                                /\ creator[req[q].conv] # NoUser
                                /\ creator'[req[q].conv] # NoUser
    BY <2>1 DEF Foundation, Placed
  <2>4. req[q].outcome = "deleted" => req[q].step = "done" /\ req[q].conv \notin Live'
    BY <2>1, <2>3 DEF Foundation
  <2>5. QED
    BY <2>1, <2>2, <2>3, <2>4 DEF Foundation, Running, HandlerSteps
<1>2. disturbed' = {}
  BY DEF Effect, Noted, SerialInv, CanRun
<1>3. QED
  BY <1>1, <1>2 DEF SerialInv

\* The step of a handler that runs alone keeps what it relies on itself.
LEMMA EffectSerial ==
    ASSUME ~Preemptive, TypeInv, TypeInv', OwnerInv, SerialInv,
           NEW r \in Requests, Effect(r)
    PROVE  SerialInv'
<1>0. /\ sessions \in [Conversations -> Session \cup {NoSession}]
      /\ creator \in [Conversations -> Users \cup {NoUser}]
      /\ req[r] \in Request /\ Placed(req[r]) /\ Foundation(r)
      /\ clock' = clock /\ clock \in Nat
      /\ \A c \in Conversations : sessions[c] # NoSession => sessions[c].expires \in Nat
  BY DEF TypeInv, TypeOK, SerialInv, Effect, Session
<1>1. \A c \in Conversations : /\ c \in Live <=> sessions[c] # NoSession
                               /\ c \in Live' <=> sessions'[c] # NoSession
  BY DEF Live
<1>2. req[r].step # "idle" => req[r].conv \in Conversations /\ creator[req[r].conv] # NoUser
  BY <1>0 DEF Placed, Foundation
<1>3. CASE Created(r)
  <2>1. PICK u \in Users, c \in Conversations, s \in Session :
          /\ creator[c] = NoUser /\ creator' = [creator EXCEPT ![c] = u]
          /\ sessions' = [sessions EXCEPT ![c] = s]
          /\ req'[r].conv = c /\ req'[r].step = "done" /\ req'[r].outcome = "created"
    BY <1>3 DEF Created
  <2>2. creator'[req'[r].conv] # NoUser
    BY <1>0, <2>1, NullAssumption
  <2>3. Foundation(r)'
    BY <2>1, <2>2 DEF Foundation
  <2>4. \A d \in Conversations : /\ d \in Live' => d \in Live \/ creator[d] = NoUser
                                 /\ creator[d] # NoUser => creator'[d] = creator[d]
    BY <1>0, <1>1, <2>1
  <2>5. QED
    BY <1>3, <2>3, <2>4, SerialOthers DEF Created
<1>4. CASE Accepted(r)
  <2>1. req[r].outcome # "deleted"
    BY <1>0, <1>4 DEF Accepted, Foundation
  <2>2. Foundation(r)'
    BY <1>0, <1>4, <2>1 DEF Accepted, Foundation
  <2>3. QED
    BY <1>1, <1>4, <2>2, SerialOthers DEF Accepted
<1>5. ASSUME req[r].step # "idle", req[r].step # "done" PROVE req[r].outcome # "deleted"
  BY <1>0, <1>5 DEF Foundation
<1>6. CASE Scanned(r)
  <2>1. \A c \in req'[r].todo : c \in Live'
    BY <1>6 DEF Scanned, Live
  <2>2. Foundation(r)'
    BY <1>0, <1>2, <1>5, <1>6, <2>1
       DEF Scanned, Cleaned, Stays, Moved, SameTurn, Foundation
  <2>3. QED
    BY <1>1, <1>6, <2>2, SerialOthers DEF Scanned
<1>7. CASE Purged(r)
  <2>1. PICK c \in Conversations :
          /\ sessions' = [sessions EXCEPT ![c] = NoSession]
          /\ req'[r].todo = req[r].todo \ {c} /\ req'[r].swept = req[r].swept
          /\ req'[r].step = "forget" => req'[r].todo = {}
    BY <1>7 DEF Purged
  <2>2. \A d \in Conversations : d \in Live' => d \in Live /\ sessions'[d] = sessions[d]
    BY <1>0, <1>1, <2>1
  <2>3. \A d \in req'[r].todo : d \in Live'
    BY <1>0, <1>1, <1>7, <2>1, <2>2 DEF Purged, Foundation, Live
  <2>4. \A d \in req'[r].swept : d \in Live' => req'[r].step # "forget" /\ d \in req'[r].todo
    <3>1. \A d \in req'[r].swept : d \in Live' => d \in req[r].todo /\ d \in Conversations
      BY <1>0, <1>7, <2>1, <2>2 DEF Purged, Foundation, Live
    <3>2. \A d \in Conversations : d \in Live' => d # c
      BY <1>0, <1>1, <2>1
    <3>3. QED
      BY <2>1, <3>1, <3>2
  <2>5. Foundation(r)'
    BY <1>0, <1>2, <1>5, <1>7, <2>3, <2>4
       DEF Purged, Cleaned, Stays, Moved, SameTurn, Foundation
  <2>6. QED
    BY <1>7, <2>2, <2>5, SerialOthers DEF Purged
<1>8. CASE Forgot(r)
  <2>1. /\ sessions' = sessions /\ creator' = creator /\ Live' = Live
        /\ \A c \in req'[r].swept : c \notin Live
    BY <1>0, <1>8 DEF Forgot, Foundation, Live
  <2>2. /\ \/ req'[r].step = "forget"
           \/ req'[r].step = "scan" /\ req'[r].now = clock
        /\ req'[r].conv = req[r].conv /\ req'[r].outcome = req[r].outcome
    BY <1>8 DEF Forgot, Stays, Moved, SameTurn
  <2>3. Foundation(r)'
    BY <1>0, <1>2, <1>5, <1>8, <2>1, <2>2 DEF Forgot, Foundation
  <2>4. QED
    BY <1>8, <2>1, <2>3, SerialOthers DEF Forgot
<1>9. CASE Stopped(r)
  <2>1. Foundation(r)' /\ ~Running(r)'
    BY <1>2, <1>9 DEF Stopped, Ended, SameTurn, Foundation, Running, HandlerSteps
  <2>2. \A q \in Requests \ {r} : Foundation(q)' /\ (Running(q)' => Running(q))
    BY <1>0, <1>9 DEF Stopped, Effect, SerialInv, Foundation, Running, Live
  <2>3. disturbed' = {}
    BY <1>9 DEF Stopped, SerialInv
  <2>4. QED
    BY <2>1, <2>2, <2>3 DEF SerialInv
<1>10. CASE Checked(r)
  <2>1. Foundation(r)'
    BY <1>0, <1>1, <1>2, <1>5, <1>10
       DEF Checked, Stays, Moved, SameTurn, Foundation
  <2>2. QED
    BY <1>1, <1>10, <2>1, SerialOthers DEF Checked
<1>11. CASE Evicted(r)
  <2>1. Foundation(r)'
    BY <1>2, <1>11 DEF Evicted, Ended, SameTurn, Foundation
  <2>2. \A d \in Conversations : d \in Live' => d \in Live
    BY <1>0, <1>1, <1>11 DEF Evicted
  <2>3. QED
    BY <1>11, <2>1, <2>2, SerialOthers DEF Evicted
<1>12. CASE Touched(r)
  <2>1. PICK s \in Session : /\ sessions' = [sessions EXCEPT ![req[r].conv] = s]
                             /\ req'[r].session = s
    BY <1>12 DEF Touched
  <2>2. req[r].conv \in Live
    BY <1>0, <1>12 DEF Touched, Foundation
  <2>3. \A d \in Conversations : d \in Live' <=> d \in Live
    BY <1>0, <1>1, <2>1, <2>2, NoSessionAssumption
  <2>4. creator[req[r].conv] = req[r].user
    BY <1>12 DEF Touched, OwnerInv, PastCheck
  <2>5. /\ req'[r].step \in {"load", "drop", "append"}
        /\ req'[r].conv = req[r].conv /\ req'[r].user = req[r].user
        /\ req'[r].outcome = req[r].outcome /\ creator' = creator
    BY <1>12 DEF Touched, Moved, SameTurn
  <2>6. req[r].conv \in Live' /\ req[r].outcome # "deleted" /\ creator[req[r].conv] # NoUser
    BY <1>2, <1>5, <1>12, <2>2, <2>3 DEF Touched
  <2>7. req'[r].session = sessions'[req[r].conv]
    BY <1>0, <1>2, <1>12, <2>1 DEF Touched
  <2>8. Foundation(r)'
    BY <2>4, <2>5, <2>6, <2>7 DEF Foundation
  <2>9. QED
    BY <1>12, <2>3, <2>8, SerialOthers DEF Touched
<1>13. CASE Loaded(r)
  <2>1. Foundation(r)'
    BY <1>2, <1>5, <1>13 DEF Loaded, Foundation
  <2>2. QED
    BY <1>1, <1>13, <2>1, SerialOthers DEF Loaded
<1>14. CASE Saved(r)
  <2>1. Foundation(r)'
    BY <1>0, <1>2, <1>5, <1>14 DEF Saved, Stays, Moved, SameTurn, Foundation
  <2>2. QED
    BY <1>1, <1>14, <2>1, SerialOthers DEF Saved
<1>15. CASE Appended(r)
  <2>1. PICK s \in Session : sessions' = [sessions EXCEPT ![req[r].conv] = s]
    BY <1>15 DEF Appended
  <2>2. req[r].conv \in Live
    BY <1>0, <1>15 DEF Appended, Foundation
  <2>3. \A d \in Conversations : d \in Live' <=> d \in Live
    BY <1>0, <1>1, <2>1, <2>2, NoSessionAssumption
  <2>4. Foundation(r)'
    BY <1>0, <1>2, <1>5, <1>15 DEF Appended, Moved, SameTurn, Foundation
  <2>5. QED
    BY <1>15, <2>3, <2>4, SerialOthers DEF Appended
<1>16. CASE Dropped(r)
  <2>1. \A d \in Conversations : d \in Live' => d \in Live
    BY <1>0, <1>1, <1>16 DEF Dropped
  <2>2. req[r].conv \notin Live'
    BY <1>0, <1>1, <1>2, <1>16 DEF Dropped
  <2>3. Foundation(r)'
    BY <1>2, <1>5, <1>16, <2>2 DEF Dropped, Moved, SameTurn, Foundation
  <2>4. QED
    BY <1>16, <2>1, <2>3, SerialOthers DEF Dropped
<1>17. CASE Erased(r)
  <2>1. req[r].conv \notin Live'
    BY <1>0, <1>1, <1>2, <1>17 DEF Erased, Foundation
  <2>2. Foundation(r)'
    BY <1>2, <1>17, <2>1 DEF Erased, Ended, SameTurn, Foundation
  <2>3. QED
    BY <1>1, <1>17, <2>2, SerialOthers DEF Erased
<1>18. QED
  BY <1>3, <1>4, <1>6, <1>7, <1>8, <1>9, <1>10, <1>11, <1>12, <1>13, <1>14,
     <1>15, <1>16, <1>17 DEF Effect

LEMMA NextSerial ==
    ASSUME ~Preemptive
    PROVE  TypeInv /\ TypeInv' /\ OwnerInv /\ SerialInv /\ [Next]_vars => SerialInv'
<1> SUFFICES ASSUME TypeInv, TypeInv', OwnerInv, SerialInv, [Next]_vars PROVE SerialInv'
  OBVIOUS
<1>1. CASE clock' = clock + 1 /\ UNCHANGED <<sessions, histories, req, disturbed, creator, log>>
  <2>1. clock \in Nat /\ \A c \in Live : sessions[c].expires \in Nat
    BY DEF TypeInv, TypeOK, Live, Session
  <2>2. \A r \in Requests : req[r].now \in Nat /\ Placed(req[r]) /\ Foundation(r)
    BY DEF TypeInv, TypeOK, Request, SerialInv
  <2>3. Live' = Live
    BY <1>1 DEF Live
  <2>4. \A r \in Requests : Foundation(r)'
    BY <1>1, <2>1, <2>2, <2>3 DEF Foundation
  <2>5. disturbed' = {}
    BY <1>1 DEF SerialInv
  <2>6. QED
    BY <1>1, <2>4, <2>5 DEF SerialInv, Running
<1>2. CASE Emptied
  <2>1. ASSUME NEW r \in Requests PROVE Foundation(r)' /\ ~Running(r)'
    <3>1. \A c \in Conversations : c \notin Live'
      BY <1>2 DEF Emptied, Live
    <3>2. Lost(r) /\ Foundation(r) /\ creator' = creator /\ Placed(req[r])
      BY <1>2 DEF Emptied, SerialInv, TypeInv
    <3>3. req'[r].step # "idle" => req'[r].conv \in Conversations
      BY DEF TypeInv, Placed
    <3>4. CASE req'[r] = req[r] /\ req[r].step \in {"idle", "done"}
      BY <3>1, <3>2, <3>3, <3>4 DEF Foundation, Running, HandlerSteps
    <3>5. CASE req[r].step # "idle" /\ Ended(req[r], req'[r]) /\ req'[r].outcome = "lost"
      BY <3>2, <3>5 DEF Ended, SameTurn, Foundation, Running, HandlerSteps
    <3>6. QED
      BY <3>2, <3>4, <3>5 DEF Lost
  <2>2. QED
    BY <1>2, <2>1 DEF Emptied, SerialInv
<1>3. CASE UNCHANGED <<clock, sessions, histories, req, disturbed, creator, log>>
  BY <1>3 DEF SerialInv, Foundation, Running, Live
<1>4. QED
  BY <1>1, <1>2, <1>3, NextEffect, EffectSerial

LEMMA SerialSafe ==
    ASSUME ~Preemptive
    PROVE  Spec => [](TypeInv /\ OwnerInv /\ SerialInv)
<1>1. Init => TypeInv /\ OwnerInv /\ SerialInv
  BY InitType, InitOwner, InitSerial
<1>2. TypeInv /\ OwnerInv /\ SerialInv /\ [Next]_vars => (TypeInv /\ OwnerInv /\ SerialInv)'
  BY NextType, NextOwner, NextSerial
<1>3. QED
  BY <1>1, <1>2, PTL DEF Spec

\* When handlers are not switched out, a conversation that
\* delete_chat_conversation has deleted never comes back: a turn that was
\* still streaming finds no session to append to.
THEOREM DeletionIsFinal ==
    ASSUME ~Preemptive
    PROVE  Spec => []DeletedStaysDeleted
<1>1. SerialInv => DeletedStaysDeleted
  BY DEF SerialInv, Foundation, DeletedStaysDeleted
<1>2. QED
  BY <1>1, SerialSafe, PTL

-----------------------------------------------------------------------------
(***************************************************************************)
(* The order of messages.  l is the order in which turns began to persist. *)
(* Pos and Weight are Position and Rank with that order as a parameter, so *)
(* that a step which extends the order can be argued about.                *)
(***************************************************************************)
In(l, t) == \E i \in DOMAIN l : l[i] = t
DistinctTurns(l) == \A i, j \in DOMAIN l : l[i] = l[j] => i = j
Pos(l, t) == CHOOSE i \in DOMAIN l : l[i] = t
Weight(l, m) == 2 * Pos(l, m[1]) + (IF m[2] = "assistant" THEN 1 ELSE 0)

OrderedTurns(l, h) ==
    /\ \A i \in DOMAIN h : In(l, h[i])
    /\ \A i, j \in DOMAIN h : i < j => Pos(l, h[i]) < Pos(l, h[j])
OrderedMessages(l, s) ==
    /\ \A i \in DOMAIN s : In(l, s[i][1])
    /\ \A i, j \in DOMAIN s : i < j => Weight(l, s[i]) < Weight(l, s[j])
Below(l, s, m) == \A i \in DOMAIN s : Weight(l, s[i]) < Weight(l, m)

\* A turn of the order has a place in it.
LEMMA PosPlace ==
    ASSUME NEW S, NEW l \in Seq(S)
    PROVE  /\ \A t : In(l, t) => Pos(l, t) \in 1..Len(l) /\ l[Pos(l, t)] = t
           /\ \A m : In(l, m[1]) => Weight(l, m) \in Nat /\ Weight(l, m) <= 2 * Len(l) + 1
<1>1. DOMAIN l = 1..Len(l) /\ Len(l) \in Nat
  BY LenProperties
<1>2. ASSUME NEW t, In(l, t)
      PROVE  Pos(l, t) \in 1..Len(l) /\ l[Pos(l, t)] = t
  BY <1>1, <1>2 DEF In, Pos
<1>3. ASSUME NEW m, In(l, m[1])
      PROVE  Weight(l, m) \in Nat /\ Weight(l, m) <= 2 * Len(l) + 1
  <2>1. Pos(l, m[1]) \in 1..Len(l)
    BY <1>2, <1>3
  <2> DEFINE w == Pos(l, m[1])
             b == IF m[2] = "assistant" THEN 1 ELSE 0
  <2>2. w \in 1..Len(l) /\ b \in {0, 1} /\ Weight(l, m) = 2 * w + b
    BY <2>1 DEF Weight
  <2> HIDE DEF w, b
  <2>3. QED
    BY <1>1, <2>2
<1>4. QED
  BY <1>2, <1>3

\* The last turn of the order comes after the others.
LEMMA PosLast ==
    ASSUME NEW S, NEW l \in Seq(S), DistinctTurns(l), l # <<>>
    PROVE  In(l, l[Len(l)]) /\ Pos(l, l[Len(l)]) = Len(l)
<1>1. DOMAIN l = 1..Len(l) /\ Len(l) \in Nat \ {0} /\ Len(l) \in DOMAIN l
  BY LenProperties, EmptySeq
<1>2. In(l, l[Len(l)])
  BY <1>1 DEF In
<1>3. l[Pos(l, l[Len(l)])] = l[Len(l)] /\ Pos(l, l[Len(l)]) \in DOMAIN l
  BY <1>1, <1>2, PosPlace
<1>4. QED
  BY <1>1, <1>2, <1>3 DEF DistinctTurns

\* A turn that begins to persist comes last and moves no other.
LEMMA PosAppend ==
    ASSUME NEW S, NEW l \in Seq(S), NEW r \in S, DistinctTurns(l), ~In(l, r)
    PROVE  LET k == Append(l, r)
           IN  /\ DistinctTurns(k)
               /\ \A t : In(k, t) <=> In(l, t) \/ t = r
               /\ \A t : In(l, t) => Pos(k, t) = Pos(l, t)
               /\ k # <<>> /\ k[Len(k)] = r /\ Len(k) = Len(l) + 1
<1> DEFINE k == Append(l, r)
<1>1. /\ k \in Seq(S) /\ Len(k) = Len(l) + 1 /\ Len(l) \in Nat
      /\ DOMAIN l = 1..Len(l) /\ DOMAIN k = 1..(Len(l) + 1)
      /\ k[Len(l) + 1] = r
      /\ \A i \in 1..Len(l) : k[i] = l[i]
  BY LenProperties, AppendProperties
<1> HIDE DEF k
<1>2. \A i \in DOMAIN l : i \in DOMAIN k /\ k[i] = l[i] /\ k[i] # r
  BY <1>1 DEF In
<1>3. \A i \in DOMAIN k : i \in DOMAIN l \/ i = Len(l) + 1
  BY <1>1
<1>4. DistinctTurns(k)
  BY <1>1, <1>2, <1>3 DEF DistinctTurns
<1>5. ASSUME NEW t PROVE In(k, t) <=> In(l, t) \/ t = r
  BY <1>1, <1>2, <1>3 DEF In
<1>6. ASSUME NEW t, In(l, t) PROVE Pos(k, t) = Pos(l, t)
  <2>1. Pos(l, t) \in DOMAIN l /\ l[Pos(l, t)] = t
    BY <1>1, <1>6, PosPlace
  <2>2. Pos(k, t) \in DOMAIN k /\ k[Pos(k, t)] = t
    BY <1>1, <1>5, <1>6, PosPlace
  <2>3. Pos(l, t) \in DOMAIN k /\ k[Pos(l, t)] = k[Pos(k, t)]
    BY <1>2, <2>1, <2>2
  <2>4. QED
    BY <1>4, <2>2, <2>3 DEF DistinctTurns
<1>7. k # <<>>
  BY <1>1
<1>8. QED
  BY <1>1, <1>4, <1>5, <1>6, <1>7 DEF k

\* What was in order stays so when a turn begins to persist, and the history
\* that this turn saves is in order.
LEMMA OrderAppend ==
    ASSUME NEW S, NEW l \in Seq(S), NEW r \in S, DistinctTurns(l), ~In(l, r)
    PROVE  LET k == Append(l, r)
           IN  /\ \A h : OrderedTurns(l, h) => OrderedTurns(k, h)
               /\ \A h \in Seq(S) : OrderedTurns(l, h) => OrderedTurns(k, Append(h, r))
               /\ \A s : OrderedMessages(l, s) => /\ OrderedMessages(k, s)
                                                  /\ Below(k, s, <<r, "user">>)
<1> DEFINE k == Append(l, r)
<1>1. /\ k \in Seq(S) /\ DistinctTurns(k) /\ k # <<>> /\ k[Len(k)] = r
      /\ Len(k) = Len(l) + 1 /\ Len(l) \in Nat
      /\ \A t : In(k, t) <=> In(l, t) \/ t = r
      /\ \A t : In(l, t) => Pos(k, t) = Pos(l, t)
  BY PosAppend, LenProperties, AppendProperties
<1> HIDE DEF k
<1>2. Pos(k, r) = Len(l) + 1
  BY <1>1, PosLast
<1>3. \A t : In(l, t) => Pos(k, t) \in 1..Len(l)
  BY <1>1, PosPlace
<1>4. \A m : In(l, m[1]) => Weight(k, m) = Weight(l, m)
  BY <1>1 DEF Weight
<1>5. ASSUME NEW h, OrderedTurns(l, h)
      PROVE  OrderedTurns(k, h)
  BY <1>1, <1>5 DEF OrderedTurns
<1>6. ASSUME NEW h \in Seq(S), OrderedTurns(l, h)
      PROVE  OrderedTurns(k, Append(h, r))
  <2> DEFINE g == Append(h, r)
  <2>1. /\ DOMAIN h = 1..Len(h) /\ Len(h) \in Nat /\ DOMAIN g = 1..(Len(h) + 1)
        /\ g[Len(h) + 1] = r /\ \A i \in 1..Len(h) : g[i] = h[i]
    BY LenProperties, AppendProperties
  <2> HIDE DEF g
  <2>2. \A i \in DOMAIN g : \/ i \in DOMAIN h /\ g[i] = h[i] /\ i < Len(h) + 1
                            \/ i = Len(h) + 1 /\ g[i] = r
    BY <2>1
  <2>3. \A i \in DOMAIN g : In(k, g[i])
    BY <1>1, <1>6, <2>2 DEF OrderedTurns
  <2>4. ASSUME NEW i \in DOMAIN g, NEW j \in DOMAIN g, i < j
        PROVE  Pos(k, g[i]) < Pos(k, g[j])
    <3>1. i \in DOMAIN h /\ g[i] = h[i] /\ In(l, h[i])
      BY <1>6, <2>1, <2>2, <2>4 DEF OrderedTurns
    <3>2. CASE j \in DOMAIN h /\ g[j] = h[j]
      BY <1>1, <1>6, <2>4, <3>1, <3>2 DEF OrderedTurns
    <3>3. CASE g[j] = r
      BY <1>1, <1>2, <1>3, <3>1, <3>3
    <3>4. QED
      BY <2>2, <3>2, <3>3
  <2>5. OrderedTurns(k, g)
    BY <2>3, <2>4 DEF OrderedTurns
  <2>6. QED
    BY <2>5 DEF g
<1>7. ASSUME NEW s, OrderedMessages(l, s)
      PROVE  OrderedMessages(k, s) /\ Below(k, s, <<r, "user">>)
  <2>1. OrderedMessages(k, s)
    BY <1>1, <1>4, <1>7 DEF OrderedMessages
  <2>2. Weight(k, <<r, "user">>) = 2 * (Len(l) + 1)
    BY <1>1, <1>2 DEF Weight
  <2>3. ASSUME NEW i \in DOMAIN s
        PROVE  Weight(k, s[i]) < 2 * (Len(l) + 1)
    <3>1. In(l, s[i][1])
      BY <1>7 DEF OrderedMessages
    <3>2. Weight(l, s[i]) \in Nat /\ Weight(l, s[i]) <= 2 * Len(l) + 1
      BY <3>1, PosPlace
    <3>3. Weight(k, s[i]) = Weight(l, s[i])
      BY <1>4, <3>1
    <3>4. QED
      BY <1>1, <3>2, <3>3
  <2>4. QED
    BY <2>1, <2>2, <2>3 DEF Below
<1>8. QED
  BY <1>5, <1>6, <1>7 DEF k

\* next_messages[-max_messages:] is a contiguous part.
LEMMA LastNShift ==
    ASSUME NEW S, NEW s \in Seq(S), NEW n \in Nat
    PROVE  \E d \in Nat : \A i \in DOMAIN LastN(s, n) :
              i \in Nat /\ i + d \in DOMAIN s /\ LastN(s, n)[i] = s[i + d]
<1>1. CASE Len(s) <= n
  <2>1. \A i \in DOMAIN s : i \in Nat /\ i + 0 = i
    BY LenProperties
  <2>2. QED
    BY <1>1, <2>1 DEF LastN
<1>2. CASE ~(Len(s) <= n)
  <2>1. /\ Len(s) \in Nat /\ DOMAIN s = 1..Len(s)
        /\ Len(s) - n + 1 \in 1..(Len(s) + 1)
        /\ Len(s) - n \in Nat
    BY <1>2, LenProperties
  <2>2. \A i \in (Len(s) - n + 1)..Len(s) : s[i] \in S
    BY <2>1, ElementOfSeq
  <2> DEFINE t == SubSeq(s, Len(s) - n + 1, Len(s))
  <2>3. /\ Len(t) = n /\ t \in Seq(S)
        /\ \A i \in 1..n : t[i] = s[(Len(s) - n + 1) + i - 1]
    BY <1>2, <2>1, <2>2, SubSeqProperties
  <2>4. LastN(s, n) = t
    BY <1>2 DEF LastN
  <2> HIDE DEF t
  <2>5. DOMAIN t = 1..n
    BY <2>3, LenProperties
  <2>6. \A i \in DOMAIN t :
           i \in Nat /\ i + (Len(s) - n) \in DOMAIN s /\ t[i] = s[i + (Len(s) - n)]
    BY <1>2, <2>1, <2>3, <2>5
  <2>7. QED
    BY <2>1, <2>4, <2>6
<1>3. QED
  BY <1>1, <1>2

\* A message of greatest weight may be appended, and the oldest ones dropped.
LEMMA AppendInOrder ==
    ASSUME NEW S, NEW l \in Seq(S), NEW T, NEW s \in Seq(T), NEW m \in T, NEW n \in Nat,
           OrderedMessages(l, s), Below(l, s, m), In(l, m[1])
    PROVE  LET a == LastN(Append(s, m), n)
           IN  /\ OrderedMessages(l, a)
               /\ \A i \in DOMAIN a : Weight(l, a[i]) <= Weight(l, m)
<1> DEFINE b == Append(s, m)
<1>1. /\ b \in Seq(T) /\ DOMAIN s = 1..Len(s) /\ Len(s) \in Nat /\ DOMAIN b = 1..(Len(s) + 1)
      /\ b[Len(s) + 1] = m /\ \A i \in 1..Len(s) : b[i] = s[i]
  BY LenProperties, AppendProperties
<1> HIDE DEF b
<1>2. \A i \in DOMAIN b : \/ i \in DOMAIN s /\ b[i] = s[i] /\ i < Len(s) + 1
                          \/ i = Len(s) + 1 /\ b[i] = m
  BY <1>1
<1>3. \A i \in DOMAIN b : In(l, b[i][1])
  BY <1>2 DEF OrderedMessages
<1>4. \A i \in DOMAIN b : Weight(l, b[i]) \in Nat
  BY <1>3, PosPlace
<1>5. Weight(l, m) \in Nat
  BY PosPlace
<1>6. \A i \in DOMAIN b : Weight(l, b[i]) <= Weight(l, m)
  BY <1>2, <1>4, <1>5 DEF Below
<1>7. ASSUME NEW i \in DOMAIN b, NEW j \in DOMAIN b, i < j
      PROVE  Weight(l, b[i]) < Weight(l, b[j])
  <2>1. i \in DOMAIN s /\ b[i] = s[i]
    BY <1>1, <1>2, <1>7
  <2>2. QED
    BY <1>2, <1>7, <2>1 DEF OrderedMessages, Below
<1>8. PICK d \in Nat : \A i \in DOMAIN LastN(b, n) :
            i \in Nat /\ i + d \in DOMAIN b /\ LastN(b, n)[i] = b[i + d]
  BY <1>1, LastNShift
<1>9. \A i, j \in DOMAIN LastN(b, n) : i < j => i + d < j + d
  BY <1>8
<1>10. OrderedMessages(l, LastN(b, n))
  BY <1>3, <1>7, <1>8, <1>9 DEF OrderedMessages
<1>11. \A i \in DOMAIN LastN(b, n) : Weight(l, LastN(b, n)[i]) <= Weight(l, m)
  BY <1>6, <1>8
<1>12. QED
  BY <1>10, <1>11 DEF b

(***************************************************************************)
(* PersistOrder is not inductive: what matters is every sequence that may  *)
(* still be stored, in a dictionary or in the hands of a thread, and that  *)
(* the turn which holds the event loop is the last of the order and has    *)
(* not written yet what it is about to write.                              *)
(***************************************************************************)
Kept == ({sessions[c] : c \in Conversations} \cup {req[q].session : q \in Requests})
            \ {NoSession}
Memory == {histories[c] : c \in Conversations} \cup {req[q].context : q \in Requests}

Persisting(q) == q.site \in {"user", "assistant"}

\* Where a request stands tells whether its turn has begun to persist.
Queued(l, r, q) ==
    /\ In(l, r) => q.step # "idle" /\ q.site \notin {"sweep", "turn", "delete"}
    /\ q.step \in {"load", "stream"} => q.site = "turn"
    /\ q.step = "forget" => q.site = "sweep"
    /\ Persisting(q) => q.step \in HandlerSteps /\ l # <<>> /\ l[Len(l)] = r

OrderInv ==
    /\ DistinctTurns(log)
    /\ \A h \in Memory : OrderedTurns(log, h)
    /\ \A s \in Kept : OrderedMessages(log, s.messages)
    /\ \A r \in Requests : Queued(log, r, req[r])
    /\ \A r \in Requests : Persisting(req[r]) =>
          \A s \in Kept : Below(log, s.messages, <<r, req[r].site>>)

\* The sequences that may be stored, and those a step adds to them.
LEMMA KeptType ==
    ASSUME TypeInv
    PROVE  /\ \A s \in Kept : s \in Session /\ s.messages \in Seq(Message)
           /\ \A h \in Memory : h \in Seq(Requests)
BY DEF Kept, Memory, TypeInv, TypeOK, Request, Session

\* Only save_message_history gives the model something new to remember.
LEMMA EffectMemory ==
    ASSUME TypeInv, NEW r \in Requests, Effect(r)
    PROVE  \/ log' = log /\ ~Saved(r) /\ \A h \in Memory' : h \in Memory \/ h = <<>>
           \/ Saved(r) /\ \A h \in Memory' : h \in Memory \/ h = Append(req[r].context, r)
<1>0. /\ histories \in [Conversations -> Seq(Requests)]
      /\ \A q \in Requests \ {r} : req'[q] = req[q]
      /\ req[r].step # "idle" => req[r].conv \in Conversations
  BY DEF TypeInv, TypeOK, Effect, Placed
<1> DEFINE old(h) == \/ \E c \in Conversations : h = histories[c]
                     \/ \E q \in Requests : h = req[q].context
<1>1. \A h : h \in Memory <=> old(h)
  BY DEF Memory
<1>2. ASSUME NEW h \in Memory'
      PROVE  \/ \E c \in Conversations : h = histories'[c]
             \/ h = req'[r].context
             \/ \E q \in Requests : h = req[q].context
  BY <1>0, <1>2 DEF Memory
<1> HIDE DEF old
<1>3. ASSUME histories' = histories, req'[r].context = req[r].context
      PROVE  \A h \in Memory' : h \in Memory \/ h = <<>>
  BY <1>1, <1>2, <1>3 DEF old
<1>4. ASSUME NEW d, NEW g, histories' = [histories EXCEPT ![d] = g],
             req'[r].context = req[r].context
      PROVE  \A h \in Memory' : h \in Memory \/ h = g
  <2>1. \A c \in Conversations : histories'[c] = g \/ histories'[c] = histories[c]
    BY <1>0, <1>4
  <2>2. QED
    BY <1>1, <1>2, <1>4, <2>1 DEF old
<1>5. CASE Created(r)
  BY <1>3, <1>5 DEF Created, Saved
<1>6. CASE Accepted(r)
  BY <1>3, <1>6 DEF Accepted, Saved
<1>7. CASE Scanned(r)
  BY <1>3, <1>7 DEF Scanned, Cleaned, Stays, Moved, SameTurn, Saved
<1>8. CASE Purged(r)
  BY <1>3, <1>8 DEF Purged, Cleaned, Stays, Moved, SameTurn, Saved
<1>9. CASE Forgot(r)
  <2>1. PICK c \in Conversations : histories' = [histories EXCEPT ![c] = <<>>]
    BY <1>9 DEF Forgot
  <2>2. req'[r].context = req[r].context /\ log' = log /\ ~Saved(r)
    BY <1>9 DEF Forgot, Stays, Moved, SameTurn, Saved
  <2>3. QED
    BY <1>4, <2>1, <2>2
<1>10. CASE Stopped(r)
  <2>1. ~Saved(r)
    BY <1>10 DEF Stopped, Ended, Saved, Stays, Moved
  <2>2. QED
    BY <1>3, <1>10, <2>1 DEF Stopped, Ended, SameTurn
<1>11. CASE Checked(r)
  BY <1>3, <1>11 DEF Checked, Stays, Moved, SameTurn, Saved
<1>12. CASE Evicted(r)
  BY <1>3, <1>12 DEF Evicted, Ended, SameTurn, Saved
<1>13. CASE Touched(r)
  BY <1>3, <1>13 DEF Touched, Moved, SameTurn, Saved
<1>14. CASE Loaded(r)
  <2>1. req'[r].context = histories[req[r].conv] /\ req[r].conv \in Conversations
    BY <1>0, <1>14 DEF Loaded
  <2>2. \A h \in Memory' : h \in Memory
    BY <1>1, <1>2, <1>14, <2>1 DEF Loaded, old
  <2>3. QED
    BY <1>14, <2>2 DEF Loaded, Saved
<1>15. CASE Saved(r)
  BY <1>4, <1>15 DEF Saved, Stays, Moved, SameTurn
<1>16. CASE Appended(r)
  BY <1>3, <1>16 DEF Appended, Moved, SameTurn, Saved
<1>17. CASE Dropped(r)
  BY <1>3, <1>17 DEF Dropped, Moved, SameTurn, Saved
<1>18. CASE Erased(r)
  BY <1>4, <1>18 DEF Erased, Ended, SameTurn, Saved
<1>19. QED
  BY <1>5, <1>6, <1>7, <1>8, <1>9, <1>10, <1>11, <1>12, <1>13, <1>14, <1>15,
     <1>16, <1>17, <1>18 DEF Effect

\* Only append_message_to_conversation makes a new sequence of messages.
LEMMA EffectKept ==
    ASSUME TypeInv, NEW r \in Requests, Effect(r)
    PROVE  \/ /\ ~Appended(r)
              /\ \A s \in Kept' : \/ s.messages = <<>>
                                  \/ \E o \in Kept : s.messages = o.messages
           \/ /\ Appended(r)
              /\ \A s \in Kept' :
                    \/ s \in Kept
                    \/ s.messages = LastN(Append(req[r].session.messages, <<r, req[r].site>>),
                                          MaxMessages)
<1>0. /\ sessions \in [Conversations -> Session \cup {NoSession}]
      /\ \A q \in Requests \ {r} : req'[q] = req[q]
      /\ Placed(req[r])
  BY DEF TypeInv, TypeOK, Effect
<1> DEFINE old(s) == s # NoSession /\ \/ \E c \in Conversations : s = sessions[c]
                                      \/ \E q \in Requests : s = req[q].session
<1>1. \A s : s \in Kept <=> old(s)
  BY DEF Kept
<1>2. ASSUME NEW s \in Kept'
      PROVE  /\ s # NoSession
             /\ \/ \E c \in Conversations : s = sessions'[c]
                \/ s = req'[r].session
                \/ \E q \in Requests : s = req[q].session
  BY <1>0, <1>2 DEF Kept
<1> HIDE DEF old
<1>3. ASSUME sessions' = sessions, req'[r].session \in {req[r].session, NoSession}
      PROVE  \A s \in Kept' : s \in Kept
  BY <1>1, <1>2, <1>3 DEF old
<1>4. ASSUME NEW d, NEW g, sessions' = [sessions EXCEPT ![d] = g],
             req'[r].session \in {req[r].session, NoSession, g}
      PROVE  \A s \in Kept' : s # NoSession /\ (s \in Kept \/ s = g)
  <2>1. \A c \in Conversations : sessions'[c] = g \/ sessions'[c] = sessions[c]
    BY <1>0, <1>4
  <2>2. QED
    BY <1>1, <1>2, <1>4, <2>1 DEF old
<1>5. CASE Created(r)
  <2>1. PICK c \in Conversations, s \in Session :
          s.messages = <<>> /\ sessions' = [sessions EXCEPT ![c] = s]
    BY <1>5 DEF Created
  <2>2. req'[r].session \in {req[r].session, NoSession, s}
    BY <1>5 DEF Created
  <2>3. \A t \in Kept' : t \in Kept \/ t = s
    BY <1>4, <2>1, <2>2
  <2>4. QED
    BY <1>5, <2>1, <2>3 DEF Created, Appended
<1>6. CASE Accepted(r)
  BY <1>3, <1>6 DEF Accepted, Appended
<1>7. CASE Scanned(r)
  BY <1>3, <1>7 DEF Scanned, Cleaned, Stays, Appended
<1>8. CASE Purged(r)
  <2>1. \A s \in Kept' : s \in Kept
    BY <1>4, <1>8 DEF Purged, Cleaned, Stays
  <2>2. QED
    BY <1>8, <2>1 DEF Purged, Appended
<1>9. CASE Forgot(r)
  BY <1>3, <1>9 DEF Forgot, Stays, Appended
<1>10. CASE Stopped(r)
  BY <1>3, <1>10 DEF Stopped, Ended, Appended
<1>11. CASE Checked(r)
  <2>1. req[r].conv \in Conversations
    BY <1>0, <1>11 DEF Checked, Placed
  <2>2. \/ req'[r].session = req[r].session \/ req'[r].session = sessions[req[r].conv]
    BY <1>11 DEF Checked, Stays
  <2>3. \A s \in Kept' : s \in Kept
    BY <1>1, <1>2, <1>11, <2>1, <2>2 DEF Checked, old
  <2>4. QED
    BY <1>11, <2>3 DEF Checked, Appended
<1>12. CASE Evicted(r)
  <2>1. \A s \in Kept' : s \in Kept
    BY <1>4, <1>12 DEF Evicted, Ended
  <2>2. QED
    BY <1>12, <2>1 DEF Evicted, Appended
<1>13. CASE Touched(r)
  <2>1. PICK s \in Session :
          /\ s.messages = req[r].session.messages
          /\ sessions' = [sessions EXCEPT ![req[r].conv] = s]
          /\ req'[r].session = s
    BY <1>13 DEF Touched
  <2>2. \A t \in Kept' : t \in Kept \/ t = s
    BY <1>4, <2>1
  <2>3. req[r].session \in Kept
    BY <1>0, <1>1, <1>13, NoSessionAssumption DEF Touched, Placed, old
  <2>4. QED
    BY <1>13, <2>1, <2>2, <2>3 DEF Touched, Appended
<1>14. CASE Loaded(r)
  BY <1>3, <1>14 DEF Loaded, Appended
<1>15. CASE Saved(r)
  BY <1>3, <1>15 DEF Saved, Stays, Appended
<1>16. CASE Appended(r)
  <2>1. PICK s \in Session :
          /\ s.messages = LastN(Append(req[r].session.messages, <<r, req[r].site>>),
                                MaxMessages)
          /\ sessions' = [sessions EXCEPT ![req[r].conv] = s]
    BY <1>16 DEF Appended
  <2>2. req'[r].session \in {req[r].session, NoSession, s}
    BY <1>16 DEF Appended
  <2>3. \A t \in Kept' : t \in Kept \/ t = s
    BY <1>4, <2>1, <2>2
  <2>4. QED
    BY <1>16, <2>1, <2>3
<1>17. CASE Dropped(r)
  <2>1. \A s \in Kept' : s \in Kept
    BY <1>4, <1>17 DEF Dropped
  <2>2. QED
    BY <1>17, <2>1 DEF Dropped, Appended
<1>18. CASE Erased(r)
  BY <1>3, <1>18 DEF Erased, Ended, Appended
<1>19. QED
  BY <1>5, <1>6, <1>7, <1>8, <1>9, <1>10, <1>11, <1>12, <1>13, <1>14, <1>15,
     <1>16, <1>17, <1>18 DEF Effect

\* A step other than save_message_history keeps the requests in their places,
\* and none but append_message_to_conversation changes what is being written.
LEMMA EffectQueued ==
    ASSUME TypeInv, NEW r \in Requests, Effect(r), ~Saved(r),
           Queued(log, r, req[r])
    PROVE  /\ Queued(log, r, req'[r])
           /\ ~Appended(r) /\ Persisting(req'[r]) => req'[r].site = req[r].site
<1>0. Placed(req[r])
  BY DEF TypeInv
<1>1. CASE Created(r)
  BY <1>1 DEF Created, Queued, Persisting
<1>2. CASE Accepted(r)
  BY <1>2 DEF Accepted, Queued, Persisting
<1>3. CASE Scanned(r)
  BY <1>3 DEF Scanned, Cleaned, Stays, Moved, Queued, Persisting, HandlerSteps
<1>4. CASE Purged(r)
  BY <1>4 DEF Purged, Cleaned, Stays, Moved, Queued, Persisting, HandlerSteps
<1>5. CASE Forgot(r)
  BY <1>5 DEF Forgot, Stays, Moved, Queued, Persisting
<1>6. CASE Stopped(r)
  BY <1>6 DEF Stopped, Ended, Queued, Persisting
<1>7. CASE Checked(r)
  BY <1>7 DEF Checked, Stays, Moved, Queued, Persisting, HandlerSteps
<1>8. CASE Evicted(r)
  BY <1>8 DEF Evicted, Ended, Queued, Persisting
<1>9. CASE Touched(r)
  BY <1>9 DEF Touched, Moved, Queued, Persisting, HandlerSteps
<1>10. CASE Loaded(r)
  BY <1>10 DEF Loaded, Queued, Persisting
<1>11. CASE Appended(r)
  BY <1>11 DEF Appended, Moved, Queued, Persisting, HandlerSteps
<1>12. CASE Dropped(r)
  BY <1>12 DEF Dropped, Moved, Queued, Persisting, HandlerSteps
<1>13. CASE Erased(r)
  BY <1>13 DEF Erased, Ended, Queued, Persisting
<1>14. QED
  BY <1>1, <1>2, <1>3, <1>4, <1>5, <1>6, <1>7, <1>8, <1>9, <1>10, <1>11, <1>12, <1>13
     DEF Effect

LEMMA InitOrder == Init => OrderInv
<1> SUFFICES ASSUME Init PROVE OrderInv
  OBVIOUS
<1>1. \A r \in Requests : req[r] = IdleRequest
  BY DEF Init
<1>2. /\ IdleRequest.session = NoSession /\ IdleRequest.context = <<>>
      /\ IdleRequest.site = "none" /\ IdleRequest.step = "idle"
  BY DEF IdleRequest
<1>3. log = <<>> /\ \A t : ~In(log, t)
  BY DEF Init, In
<1>4. Kept = {} /\ \A h \in Memory : h = <<>>
  BY <1>1, <1>2 DEF Init, Kept, Memory
<1>5. DistinctTurns(log) /\ OrderedTurns(log, <<>>)
  BY <1>3 DEF DistinctTurns, OrderedTurns
<1>6. \A r \in Requests : Queued(log, r, req[r])
  BY <1>1, <1>2, <1>3 DEF Queued, Persisting
<1>7. QED
  BY <1>4, <1>5, <1>6 DEF OrderInv

\* One turn at a time holds the event loop.
LEMMA OnePersists ==
    ASSUME OrderInv, NEW r \in Requests, NEW q \in Requests,
           Persisting(req[r]), Persisting(req[q])
    PROVE  r = q
BY DEF OrderInv, Queued

\* The step that begins to persist a turn.
LEMMA SavedOrder ==
    ASSUME TypeInv, TypeInv', OrderInv, NEW r \in Requests, Effect(r), Saved(r)
    PROVE  OrderInv'
<1>0. /\ log \in Seq(Requests) /\ log' = Append(log, r) /\ req[r].step = "stream"
      /\ \A q \in Requests \ {r} : req'[q] = req[q]
      /\ req'[r].step = "scan" /\ req'[r].site = "user"
  BY DEF TypeInv, TypeOK, Effect, Saved, Stays, Moved
<1>1. ~In(log, r) /\ DistinctTurns(log)
  BY <1>0 DEF OrderInv, Queued
<1>2. /\ DistinctTurns(log') /\ log' # <<>> /\ log'[Len(log')] = r
      /\ \A t : In(log', t) <=> In(log, t) \/ t = r
  BY <1>0, <1>1, PosAppend
<1>3. /\ \A h : OrderedTurns(log, h) => OrderedTurns(log', h)
      /\ \A h \in Seq(Requests) : OrderedTurns(log, h) => OrderedTurns(log', Append(h, r))
      /\ \A s : OrderedMessages(log, s) =>
                  OrderedMessages(log', s) /\ Below(log', s, <<r, "user">>)
  BY <1>0, <1>1, OrderAppend
<1>4. \A h \in Memory' : OrderedTurns(log', h)
  <2>1. req[r].context \in Memory /\ req[r].context \in Seq(Requests)
    BY DEF Memory, TypeInv, TypeOK, Request
  <2>2. \A h \in Memory' : h \in Memory \/ h = Append(req[r].context, r)
    BY EffectMemory
  <2>3. QED
    BY <1>3, <2>1, <2>2 DEF OrderInv
<1>5. ~Appended(r)
  BY <1>0 DEF Appended
<1>6. \A s \in Kept' : s.messages = <<>> \/ \E o \in Kept : s.messages = o.messages
  BY <1>5, EffectKept
<1>7. OrderedMessages(log, <<>>)
  BY DEF OrderedMessages
<1>8. \A s \in Kept' : OrderedMessages(log', s.messages) /\ Below(log', s.messages, <<r, "user">>)
  BY <1>3, <1>6, <1>7 DEF OrderInv
<1>9. \A q \in Requests \ {r} : ~Persisting(req[q])
  BY DEF Saved, LoopFree, OnLoop, Running, Persisting, OrderInv, Queued
<1>10. \A q \in Requests : Queued(log', q, req'[q])
  <2>1. Queued(log', r, req'[r])
    BY <1>0, <1>2 DEF Queued, Persisting, HandlerSteps
  <2>2. \A q \in Requests \ {r} : Queued(log', q, req'[q])
    BY <1>0, <1>2, <1>9 DEF OrderInv, Queued
  <2>3. QED
    BY <2>1, <2>2
<1>11. \A q \in Requests : Persisting(req'[q]) =>
          \A s \in Kept' : Below(log', s.messages, <<q, req'[q].site>>)
  BY <1>0, <1>8, <1>9
<1>12. QED
  BY <1>2, <1>4, <1>8, <1>10, <1>11 DEF OrderInv

\* The step that appends a message of the persisting turn to a session.
LEMMA AppendedOrder ==
    ASSUME TypeInv, OrderInv, NEW r \in Requests, Effect(r), Appended(r), log' = log
    PROVE  /\ \A s \in Kept' : OrderedMessages(log, s.messages)
           /\ \A q \in Requests : Persisting(req'[q]) =>
                 \A s \in Kept' : Below(log, s.messages, <<q, req'[q].site>>)
<1> DEFINE m == <<r, req[r].site>>
           a == LastN(Append(req[r].session.messages, m), MaxMessages)
<1>0. /\ log \in Seq(Requests) /\ MaxMessages \in Nat
      /\ \A q \in Requests \ {r} : req'[q] = req[q]
  BY SettingsAssumption DEF TypeInv, TypeOK, Effect
<1>1. req[r].site \in {"user", "assistant"} /\ req[r].session \in Session
  BY DEF Appended, TypeInv, Placed
<1>2. Persisting(req[r]) /\ m \in Message /\ m[1] = r /\ m[2] = req[r].site
  BY <1>1 DEF Persisting, Message
<1>3. log # <<>> /\ log[Len(log)] = r /\ DistinctTurns(log)
  BY <1>2 DEF OrderInv, Queued
<1>4. In(log, r) /\ Pos(log, r) = Len(log) /\ Len(log) \in Nat
  BY <1>0, <1>3, PosLast, LenProperties
<1>5. req[r].session \in Kept /\ req[r].session.messages \in Seq(Message)
  BY <1>1, NoSessionAssumption DEF Kept, Session
<1>6. \A s \in Kept : OrderedMessages(log, s.messages) /\ Below(log, s.messages, m)
  BY <1>2 DEF OrderInv
<1> HIDE DEF m
<1>7. OrderedMessages(log, a) /\ \A i \in DOMAIN a : Weight(log, a[i]) <= Weight(log, m)
  BY <1>0, <1>2, <1>4, <1>5, <1>6, AppendInOrder
<1>8. \A s \in Kept' : s \in Kept \/ s.messages = a
  BY EffectKept DEF m
<1> HIDE DEF a
<1>9. \A s \in Kept' : OrderedMessages(log, s.messages)
  BY <1>6, <1>7, <1>8
<1>10. \A q \in Requests \ {r} : ~Persisting(req'[q])
  BY <1>0, <1>2, OnePersists
<1>11. ASSUME Persisting(req'[r]), NEW s \in Kept'
       PROVE  Below(log, s.messages, <<r, req'[r].site>>)
  <2>1. req'[r].site = "assistant" /\ m[2] = "user"
    BY <1>2, <1>11 DEF Appended, Moved, Persisting
  <2>2. Weight(log, m) = 2 * Len(log) /\ Weight(log, <<r, "assistant">>) = 2 * Len(log) + 1
    BY <1>2, <1>4, <2>1 DEF Weight
  <2>3. \A i \in DOMAIN s.messages : /\ Weight(log, s.messages[i]) \in Nat
                                     /\ Weight(log, s.messages[i]) <= Weight(log, m)
    <3>1. \A i \in DOMAIN s.messages : Weight(log, s.messages[i]) \in Nat
      BY <1>0, <1>9, <1>11, PosPlace DEF OrderedMessages
    <3>2. CASE s \in Kept
      BY <1>4, <1>6, <2>2, <3>1, <3>2 DEF Below
    <3>3. CASE s.messages = a
      BY <1>7, <3>1, <3>3
    <3>4. QED
      BY <1>8, <1>11, <3>2, <3>3
  <2>4. QED
    BY <1>4, <2>1, <2>2, <2>3 DEF Below
<1>12. QED
  BY <1>9, <1>10, <1>11

LEMMA NextOrder == TypeInv /\ TypeInv' /\ OrderInv /\ [Next]_vars => OrderInv'
<1> SUFFICES ASSUME TypeInv, TypeInv', OrderInv, [Next]_vars PROVE OrderInv'
  OBVIOUS
<1>1. CASE UNCHANGED <<sessions, histories, req, creator, log>>
  <2>1. Kept' = Kept /\ Memory' = Memory
    BY <1>1 DEF Kept, Memory
  <2>2. QED
    BY <1>1, <2>1 DEF OrderInv
<1>2. CASE Emptied
  <2>1. ASSUME NEW r \in Requests
        PROVE  /\ req'[r].session \in {req[r].session, NoSession}
               /\ req'[r].context = req[r].context
               /\ Queued(log, r, req'[r])
               /\ ~Persisting(req'[r])
    <3>1. Lost(r) /\ Queued(log, r, req[r])
      BY <1>2 DEF Emptied, OrderInv
    <3>2. CASE req'[r] = req[r] /\ req[r].step \in {"idle", "done"}
      BY <3>1, <3>2 DEF Queued, HandlerSteps
    <3>3. CASE req[r].step # "idle" /\ Ended(req[r], req'[r])
      BY <3>1, <3>3 DEF Ended, SameTurn, Queued, Persisting
    <3>4. QED
      BY <3>1, <3>2, <3>3 DEF Lost
  <2>2. \A s \in Kept' : s \in Kept
    BY <1>2, <2>1 DEF Emptied, Kept
  <2>3. \A h \in Memory' : h \in Memory \/ h = <<>>
    BY <1>2, <2>1 DEF Emptied, Memory
  <2>4. log' = log /\ OrderedTurns(log, <<>>)
    BY <1>2 DEF Emptied, OrderedTurns
  <2>5. QED
    BY <2>1, <2>2, <2>3, <2>4 DEF OrderInv
<1>3. ASSUME NEW r \in Requests, Effect(r)
      PROVE  OrderInv'
  <2>1. CASE Saved(r)
    BY <1>3, <2>1, SavedOrder
  <2>2. CASE ~Saved(r)
    <3>1. /\ log' = log
          /\ \A h \in Memory' : h \in Memory \/ h = <<>>
          /\ \A q \in Requests \ {r} : req'[q] = req[q]
      BY <1>3, <2>2, EffectMemory DEF Effect
    <3>2. \A h \in Memory' : OrderedTurns(log, h)
      BY <3>1 DEF OrderInv, OrderedTurns
    <3>3. /\ Queued(log, r, req'[r])
          /\ ~Appended(r) /\ Persisting(req'[r]) => req'[r].site = req[r].site
      BY <1>3, <2>2, EffectQueued DEF OrderInv
    <3>4. \A q \in Requests : Queued(log, q, req'[q])
      BY <3>1, <3>3 DEF OrderInv
    <3>5. /\ \A s \in Kept' : OrderedMessages(log, s.messages)
          /\ \A q \in Requests : Persisting(req'[q]) =>
                \A s \in Kept' : Below(log, s.messages, <<q, req'[q].site>>)
      <4>1. CASE Appended(r)
        BY <1>3, <3>1, <4>1, AppendedOrder
      <4>2. CASE ~Appended(r)
        <5>1. \A s \in Kept' : s.messages = <<>> \/ \E o \in Kept : s.messages = o.messages
          BY <1>3, <4>2, EffectKept
        <5>2. OrderedMessages(log, <<>>) /\ \A m : Below(log, <<>>, m)
          BY DEF OrderedMessages, Below
        <5>3. \A q \in Requests : Persisting(req'[q]) =>
                 Persisting(req[q]) /\ req'[q].site = req[q].site
          BY <3>1, <3>3, <4>2 DEF Persisting
        <5>4. QED
          BY <5>1, <5>2, <5>3 DEF OrderInv
      <4>3. QED
        BY <4>1, <4>2
    <3>6. QED
      BY <3>1, <3>2, <3>4, <3>5 DEF OrderInv
  <2>3. QED
    BY <2>1, <2>2
<1>4. QED
  BY <1>1, <1>2, <1>3, NextEffect

\* For every schedule of the threads: messages may get lost, but what a
\* session or a history holds is in the order in which the turns were
\* persisted, nothing twice and a question before its answer, because
\* persist_chat_turn does not give up the event loop.
THEOREM PersistedInOrder == Spec => []PersistOrder
<1>1. Init => TypeInv /\ OrderInv
  BY InitType, InitOrder
<1>2. TypeInv /\ OrderInv /\ [Next]_vars => (TypeInv /\ OrderInv)'
  BY NextType, NextOrder
<1>3. OrderInv => PersistOrder
  <2>1. \A t : Position(t) = Pos(log, t)
    BY DEF Position, Pos
  <2>2. \A m : Rank(m) = Weight(log, m)
    BY <2>1 DEF Rank, Weight
  <2>3. /\ \A c \in Live : sessions[c] \in Kept
        /\ \A c \in Conversations : histories[c] \in Memory
    BY DEF Live, Kept, Memory
  <2>4. QED
    BY <2>1, <2>2, <2>3 DEF OrderInv, OrderedTurns, OrderedMessages, PersistOrder, Increasing
<1>4. QED
  BY <1>1, <1>2, <1>3, PTL DEF Spec

-----------------------------------------------------------------------------
(***************************************************************************)
(* The transcript and the memory of the model.                             *)
(***************************************************************************)

\* next_messages[-max_messages:], element by element.
LEMMA LastNForm ==
    ASSUME NEW S, NEW s \in Seq(S), NEW n \in Nat
    PROVE  LET t == LastN(s, n)
           IN  /\ t \in Seq(S)
               /\ Len(t) = IF Len(s) <= n THEN Len(s) ELSE n
               /\ \A i \in 1..Len(t) : t[i] = s[i + (Len(s) - Len(t))]
<1>0. Len(s) \in Nat
  BY LenProperties
<1>1. CASE Len(s) <= n
  <2>1. \A i \in 1..Len(s) : i + (Len(s) - Len(s)) = i
    BY <1>0
  <2>2. QED
    BY <1>1, <2>1 DEF LastN
<1>2. CASE ~(Len(s) <= n)
  <2>1. Len(s) - n + 1 \in 1..(Len(s) + 1) /\ DOMAIN s = 1..Len(s)
    BY <1>0, <1>2, LenProperties
  <2>2. \A i \in (Len(s) - n + 1)..Len(s) : s[i] \in S
    BY <1>0, <2>1, ElementOfSeq
  <2> DEFINE t == SubSeq(s, Len(s) - n + 1, Len(s))
  <2>3. /\ Len(t) = n /\ t \in Seq(S)
        /\ \A i \in 1..n : t[i] = s[(Len(s) - n + 1) + i - 1]
    BY <1>0, <1>2, <2>1, <2>2, SubSeqProperties
  <2>4. LastN(s, n) = t
    BY <1>2 DEF LastN
  <2> HIDE DEF t
  <2>5. \A i \in 1..n : (Len(s) - n + 1) + i - 1 = i + (Len(s) - n)
    BY <1>0
  <2>6. QED
    BY <1>2, <2>3, <2>4, <2>5
<1>3. QED
  BY <1>1, <1>2

\* Messages that have been dropped are not missed by the next append.
LEMMA LastNAppend ==
    ASSUME NEW S, NEW s \in Seq(S), NEW m \in S, NEW n \in Nat \ {0}
    PROVE  LastN(Append(LastN(s, n), m), n) = LastN(Append(s, m), n)
<1> DEFINE t == LastN(s, n)
           a == Append(t, m)
           b == Append(s, m)
<1>1. /\ t \in Seq(S) /\ Len(s) \in Nat
      /\ Len(t) = IF Len(s) <= n THEN Len(s) ELSE n
      /\ \A i \in 1..Len(t) : t[i] = s[i + (Len(s) - Len(t))]
  BY LastNForm, LenProperties
<1> HIDE DEF t
<1>2. /\ a \in Seq(S) /\ Len(a) = Len(t) + 1 /\ a[Len(t) + 1] = m
      /\ \A i \in 1..Len(t) : a[i] = t[i]
      /\ b \in Seq(S) /\ Len(b) = Len(s) + 1 /\ b[Len(s) + 1] = m
      /\ \A i \in 1..Len(s) : b[i] = s[i]
  BY <1>1, AppendProperties
<1> HIDE DEF a, b
<1> DEFINE x == LastN(a, n)
           y == LastN(b, n)
<1>3. /\ x \in Seq(S) /\ Len(x) = IF Len(a) <= n THEN Len(a) ELSE n
      /\ \A i \in 1..Len(x) : x[i] = a[i + (Len(a) - Len(x))]
      /\ y \in Seq(S) /\ Len(y) = IF Len(b) <= n THEN Len(b) ELSE n
      /\ \A i \in 1..Len(y) : y[i] = b[i + (Len(b) - Len(y))]
  BY <1>2, LastNForm
<1> HIDE DEF x, y
<1>4. /\ Len(x) = Len(y) /\ Len(x) \in Nat /\ Len(b) = Len(s) + 1
      /\ \/ /\ Len(t) = Len(s) /\ Len(a) = Len(s) + 1 /\ Len(x) = Len(s) + 1
         \/ /\ Len(s) >= n /\ Len(t) = n /\ Len(a) = n + 1 /\ Len(x) = n
  BY <1>1, <1>2, <1>3
<1>5. ASSUME NEW i \in 1..Len(x)
      PROVE  x[i] = y[i]
  <2> DEFINE j == i + (Len(a) - Len(x))
             k == i + (Len(b) - Len(y))
  <2>1. x[i] = a[j] /\ y[i] = b[k]
    BY <1>3, <1>4
  <2>2. CASE Len(t) = Len(s) /\ Len(a) = Len(s) + 1 /\ Len(x) = Len(s) + 1
    <3>1. j = i /\ k = i /\ i \in 1..(Len(s) + 1)
      BY <1>1, <1>4, <2>2
    <3> HIDE DEF j, k
    <3>2. CASE i = Len(s) + 1
      BY <1>2, <2>1, <2>2, <3>1, <3>2
    <3>3. CASE i \in 1..Len(s)
      <4>1. a[i] = t[i] /\ b[i] = s[i]
        BY <1>2, <2>2, <3>3
      <4>2. i + (Len(s) - Len(t)) = i
        BY <1>1, <2>2
      <4>3. t[i] = s[i]
        BY <1>1, <2>2, <3>3, <4>2
      <4>4. QED
        BY <2>1, <3>1, <4>1, <4>3
    <3>4. QED
      BY <1>1, <3>1, <3>2, <3>3
  <2>3. CASE Len(s) >= n /\ Len(t) = n /\ Len(a) = n + 1 /\ Len(x) = n
    <3>1. i \in 1..n /\ j = i + 1 /\ k = (i + 1) + (Len(s) - n)
      BY <1>1, <1>4, <2>3
    <3> HIDE DEF j, k
    <3>2. CASE i = n
      <4>1. j = Len(t) + 1 /\ k = Len(s) + 1
        BY <1>1, <2>3, <3>1, <3>2
      <4>2. QED
        BY <1>2, <2>1, <4>1
    <3>3. CASE i < n
      <4>1. j \in 1..n /\ k = j + (Len(s) - n) /\ k \in 1..Len(s)
        BY <1>1, <2>3, <3>1, <3>3
      <4>2. a[j] = t[j] /\ t[j] = s[j + (Len(s) - n)] /\ b[k] = s[k]
        BY <1>1, <1>2, <2>3, <4>1
      <4>3. QED
        BY <2>1, <4>1, <4>2
    <3>4. QED
      BY <3>1, <3>2, <3>3
  <2>4. QED
    BY <1>4, <2>2, <2>3
<1>6. x = y
  BY <1>3, <1>4, <1>5, SeqEqual
<1>7. QED
  BY <1>6 DEF x, y, a, b, t

\* The transcript of a sequence of turns has two messages for each.
LEMMA TranscriptForm ==
    ASSUME NEW h \in Seq(Requests)
    PROVE  /\ Transcript(h) \in Seq(Message)
           /\ Len(Transcript(h)) = 2 * Len(h)
           /\ \A i \in 1..(2 * Len(h)) : Transcript(h)[i] =
                 <<h[(i + 1) \div 2], IF i % 2 = 1 THEN "user" ELSE "assistant">>
<1>0. Len(h) \in Nat /\ 2 * Len(h) \in Nat
  BY LenProperties
<1>1. \A i \in 1..(2 * Len(h)) : (i + 1) \div 2 \in 1..Len(h)
  BY <1>0
<1>2. \A i \in 1..Len(h) : h[i] \in Requests
  BY <1>0, ElementOfSeq
<1>3. \A i \in 1..(2 * Len(h)) :
         <<h[(i + 1) \div 2], IF i % 2 = 1 THEN "user" ELSE "assistant">> \in Message
  BY <1>1, <1>2 DEF Message
<1>4. Transcript(h) \in [1..(2 * Len(h)) -> Message]
  BY <1>3 DEF Transcript
<1>5. Transcript(h) \in Seq(Message)
  BY <1>0, <1>4, IsASeq
<1>6. DOMAIN Transcript(h) = 1..(2 * Len(h))
  BY DEF Transcript
<1>7. Len(Transcript(h)) = 2 * Len(h)
  BY <1>0, <1>5, <1>6, LenProperties
<1>8. QED
  BY <1>5, <1>7 DEF Transcript

\* One more turn is one more question and one more answer.
LEMMA TranscriptAppend ==
    ASSUME NEW h \in Seq(Requests), NEW r \in Requests
    PROVE  Transcript(Append(h, r)) =
              Append(Append(Transcript(h), <<r, "user">>), <<r, "assistant">>)
<1> DEFINE g == Append(h, r)
           t == Transcript(h)
           u == Append(t, <<r, "user">>)
           v == Append(u, <<r, "assistant">>)
           w == Transcript(g)
<1>0. PICK n \in Nat : n = Len(h)
  BY LenProperties
<1>1. /\ n \in Nat /\ g \in Seq(Requests) /\ Len(g) = n + 1 /\ g[n + 1] = r
      /\ \A i \in 1..n : g[i] = h[i]
  BY <1>0, LenProperties, AppendProperties
<1> HIDE DEF g
<1>2. /\ t \in Seq(Message) /\ Len(t) = 2 * n
      /\ \A i \in 1..(2 * n) :
            t[i] = <<h[(i + 1) \div 2], IF i % 2 = 1 THEN "user" ELSE "assistant">>
  BY <1>0, TranscriptForm
<1>3. /\ w \in Seq(Message) /\ Len(w) = 2 * (n + 1)
      /\ \A i \in 1..(2 * (n + 1)) :
            w[i] = <<g[(i + 1) \div 2], IF i % 2 = 1 THEN "user" ELSE "assistant">>
  BY <1>1, TranscriptForm
<1> HIDE DEF t, w
<1>4. <<r, "user">> \in Message /\ <<r, "assistant">> \in Message
  BY DEF Message
<1>5. /\ u \in Seq(Message) /\ Len(u) = 2 * n + 1 /\ u[2 * n + 1] = <<r, "user">>
      /\ \A i \in 1..(2 * n) : u[i] = t[i]
  <2>1. /\ u \in Seq(Message) /\ Len(u) = Len(t) + 1 /\ u[Len(t) + 1] = <<r, "user">>
        /\ \A i \in 1..Len(t) : u[i] = t[i]
    BY <1>2, <1>4, AppendProperties
  <2>2. QED
    BY <1>2, <2>1
<1> HIDE DEF u
<1>6. /\ v \in Seq(Message) /\ Len(v) = 2 * n + 2 /\ v[2 * n + 2] = <<r, "assistant">>
      /\ \A i \in 1..(2 * n + 1) : v[i] = u[i]
  <2>1. /\ v \in Seq(Message) /\ Len(v) = Len(u) + 1 /\ v[Len(u) + 1] = <<r, "assistant">>
        /\ \A i \in 1..Len(u) : v[i] = u[i]
    BY <1>4, <1>5, AppendProperties
  <2>2. 2 * n + 1 + 1 = 2 * n + 2
    BY <1>1
  <2>3. QED
    BY <1>5, <2>1, <2>2
<1> HIDE DEF v
<1>7. ASSUME NEW i \in 1..(2 * n + 2)
      PROVE  w[i] = v[i]
  <2>0. i \in 1..(2 * (n + 1))
    BY <1>1
  <2>1. CASE i \in 1..(2 * n)
    <3>1. (i + 1) \div 2 \in 1..n
      BY <1>1, <2>1
    <3>2. g[(i + 1) \div 2] = h[(i + 1) \div 2]
      BY <1>1, <3>1
    <3>3. v[i] = t[i]
      BY <1>1, <1>5, <1>6, <2>1
    <3>4. QED
      BY <1>2, <1>3, <2>0, <2>1, <3>2, <3>3
  <2>2. CASE i = 2 * n + 1
    <3>1. (i + 1) \div 2 = n + 1 /\ i % 2 = 1
      BY <1>1, <2>2
    <3>2. w[i] = <<r, "user">>
      BY <1>1, <1>3, <2>0, <3>1
    <3>3. v[i] = <<r, "user">>
      BY <1>1, <1>5, <1>6, <2>2
    <3>4. QED
      BY <3>2, <3>3
  <2>3. CASE i = 2 * n + 2
    <3>1. (i + 1) \div 2 = n + 1 /\ i % 2 # 1
      BY <1>1, <2>3
    <3>2. w[i] = <<r, "assistant">>
      BY <1>1, <1>3, <2>0, <3>1
    <3>3. QED
      BY <1>6, <2>3, <3>2
  <2>4. QED
    BY <1>1, <2>1, <2>2, <2>3
<1>8. Len(w) = Len(v)
  BY <1>1, <1>3, <1>6
<1>9. w = v
  BY <1>1, <1>3, <1>6, <1>7, <1>8, SeqEqual
<1>10. QED
  BY <1>9 DEF w, v, u, t, g

(***************************************************************************)
(* TranscriptMatchesMemory speaks of the time between turns.  MatchInv     *)
(* says what holds during one: the history has all turns of the            *)
(* conversation and no others, what a streaming turn has loaded is the     *)
(* beginning of it, and the session lags behind it by exactly what the     *)
(* persisting turn has still to write.                                     *)
(***************************************************************************)
Prefix(g, h) == Len(g) <= Len(h) /\ \A i \in DOMAIN g : g[i] = h[i]

\* What the session of c holds while r persists its turn.
Written(q, r) ==
    IF q.site = "user"
    THEN LastN(Transcript(q.context), MaxMessages)
    ELSE LastN(Append(Transcript(q.context), <<r, "user">>), MaxMessages)

Consistent(c) ==
    /\ \A t \in Requests : In(histories[c], t) <=> In(log, t) /\ req[t].conv = c
    /\ \A r \in Requests : req[r].conv = c /\ req[r].step = "stream" =>
          Prefix(req[r].context, histories[c])
    /\ \A r \in Requests : req[r].conv = c /\ Persisting(req[r]) =>
          /\ histories[c] = Append(req[r].context, r)
          /\ sessions[c].messages = Written(req[r], r)
    /\ (\A r \in Requests : req[r].conv = c => ~Persisting(req[r])) =>
          sessions[c].messages = LastN(Transcript(histories[c]), MaxMessages)

MatchInv == \A c \in Live : ~Overlapped(c) => Consistent(c)

LEMMA InitMatch == Init => MatchInv
BY DEF Init, MatchInv, Live

\* A turn that has begun to persist keeps its conversation and its context.
LEMMA LoggedTurn ==
    ASSUME OrderInv, NEW r \in Requests, Effect(r), NEW t \in Requests, In(log, t)
    PROVE  SameTurn(req[t], req'[t])
<1>1. CASE t # r
  <2>1. req'[t] = req[t]
    BY <1>1 DEF Effect
  <2>2. QED
    BY <2>1 DEF SameTurn
<1>2. CASE t = r
  <2>1. req[r].step # "idle" /\ req[r].step # "load"
    BY <1>2 DEF OrderInv, Queued
  <2>2. SameTurn(req[r], req'[r])
    BY <2>1 DEF Effect, Created, Accepted, Scanned, Purged, Forgot, Stopped, Checked, Evicted,
         Touched, Loaded, Saved, Appended, Dropped, Erased, Cleaned, Stays, Moved, Ended
  <2>3. QED
    BY <1>2, <2>2
<1>3. QED
  BY <1>1, <1>2

\* Turns that have overlapped have overlapped for ever.
LEMMA OverlapStays ==
    ASSUME TypeInv, OrderInv, NEW r \in Requests, Effect(r), NEW c, Overlapped(c)
    PROVE  Overlapped(c)'
<1>1. PICK i \in DOMAIN log, j \in DOMAIN log :
        /\ i < j
        /\ req[log[i]].conv = c /\ req[log[j]].conv = c
        /\ \A k \in DOMAIN req[log[j]].context : req[log[j]].context[k] # log[i]
  BY DEF Overlapped
<1>2. log \in Seq(Requests) /\ log[i] \in Requests /\ log[j] \in Requests
  BY <1>1 DEF TypeInv, TypeOK
<1>3. In(log, log[i]) /\ In(log, log[j])
  BY <1>1 DEF In
<1>4. SameTurn(req[log[i]], req'[log[i]]) /\ SameTurn(req[log[j]], req'[log[j]])
  BY <1>2, <1>3, LoggedTurn
<1>5. /\ i \in DOMAIN log' /\ log'[i] = log[i]
      /\ j \in DOMAIN log' /\ log'[j] = log[j]
  <2>1. CASE log' = log
    BY <1>1, <2>1
  <2>2. CASE log' = Append(log, r)
    <3>1. /\ Len(log) \in Nat /\ DOMAIN log = 1..Len(log)
          /\ DOMAIN log' = 1..(Len(log) + 1)
          /\ \A k \in 1..Len(log) : log'[k] = log[k]
      BY <1>2, <2>2, LenProperties, AppendProperties
    <3>2. QED
      BY <1>1, <3>1
  <2>3. QED
    BY <2>1, <2>2, EffectMemory DEF Saved
<1> DEFINE x == log[i]
           y == log[j]
<1>6. /\ req'[x].conv = c /\ req'[y].conv = c /\ req'[y].context = req[y].context
  BY <1>1, <1>4 DEF SameTurn
<1> HIDE DEF x, y
<1>7. \A k \in DOMAIN req'[y].context : req'[y].context[k] # x
  BY <1>1, <1>6 DEF x, y
<1>8. log'[i] = x /\ log'[j] = y
  BY <1>5 DEF x, y
<1>9. QED
  BY <1>1, <1>5, <1>6, <1>7, <1>8 DEF Overlapped

\* A step that leaves the history and the messages of c alone, and neither
\* begins nor ends the persisting of one of its turns, keeps them consistent.
LEMMA ConsistentFrame ==
    ASSUME OrderInv, NEW r \in Requests, Effect(r), NEW c \in Conversations, Consistent(c),
           log' = log, histories'[c] = histories[c],
           sessions'[c].messages = sessions[c].messages,
           req'[r].conv = c /\ Persisting(req'[r]) =>
               Persisting(req[r]) /\ req'[r].site = req[r].site /\ SameTurn(req[r], req'[r]),
           req[r].conv = c /\ Persisting(req[r]) => req'[r].conv = c /\ Persisting(req'[r]),
           req'[r].conv = c /\ req'[r].step = "stream" =>
               Prefix(req'[r].context, histories[c])
    PROVE  Consistent(c)'
<1>0. \A q \in Requests \ {r} : req'[q] = req[q]
  BY DEF Effect
<1>1. \A t \in Requests : In(histories[c], t) <=> In(log, t) /\ req'[t].conv = c
  <2>1. \A t \in Requests : In(log, t) => req'[t].conv = req[t].conv
    BY LoggedTurn DEF SameTurn
  <2>2. QED
    BY <2>1 DEF Consistent
<1>2. \A q \in Requests : req'[q].conv = c /\ req'[q].step = "stream" =>
          Prefix(req'[q].context, histories[c])
  BY <1>0 DEF Consistent
<1>3. ASSUME NEW q \in Requests, req'[q].conv = c, Persisting(req'[q])
      PROVE  /\ histories[c] = Append(req'[q].context, q)
             /\ sessions[c].messages = Written(req'[q], q)
  <2>1. /\ req[q].conv = c /\ Persisting(req[q])
        /\ req'[q].context = req[q].context /\ req'[q].site = req[q].site
    BY <1>0, <1>3 DEF SameTurn
  <2>2. Written(req'[q], q) = Written(req[q], q)
    BY <2>1 DEF Written
  <2>3. QED
    BY <2>1, <2>2 DEF Consistent
<1>4. ASSUME \A q \in Requests : req'[q].conv = c => ~Persisting(req'[q])
      PROVE  sessions[c].messages = LastN(Transcript(histories[c]), MaxMessages)
  <2>1. \A q \in Requests : req[q].conv = c => ~Persisting(req[q])
    BY <1>0, <1>4
  <2>2. QED
    BY <2>1 DEF Consistent
<1>5. QED
  BY <1>1, <1>2, <1>3, <1>4 DEF Consistent

\* A conversation that has just been created has no turns.
LEMMA CreatedConsistent ==
    ASSUME TypeInv, OwnerInv, SerialInv, OrderInv, NEW r \in Requests, Effect(r),
           NEW c \in Conversations, creator[c] = NoUser,
           req[r].step = "idle", req'[r].step = "done", req'[r].site = "none",
           log' = log, histories' = histories, sessions'[c].messages = <<>>
    PROVE  Consistent(c)'
<1>0. \A q \in Requests \ {r} : req'[q] = req[q]
  BY DEF Effect
<1>1. \A q \in Requests : req[q].step # "idle" => req[q].conv # c
  BY DEF SerialInv, Foundation
<1>2. histories[c] = <<>>
  <2>1. histories[c] \in Seq(Requests) /\ OwnHistory(req, histories[c], NoUser)
    BY DEF TypeInv, TypeOK, OwnerInv
  <2> DEFINE h == histories[c]
  <2>2. ASSUME NEW i \in DOMAIN h PROVE FALSE
    <3>1. h[i] \in Requests /\ req[h[i]].step # "idle" /\ req[h[i]].user = NoUser
      BY <2>1, <2>2 DEF OwnHistory, OwnTurn
    <3>2. QED
      BY <3>1, NullAssumption DEF TypeInv, Placed
  <2> HIDE DEF h
  <2>3. h \in Seq(Requests) /\ Len(h) \in Nat /\ DOMAIN h = 1..Len(h)
    BY <2>1, LenProperties DEF h
  <2>4. Len(h) = 0
    BY <2>2, <2>3
  <2>5. h = <<>>
    BY <2>3, <2>4, EmptySeq
  <2>6. QED
    BY <2>5 DEF h
<1>3. \A t \in Requests : ~In(histories[c], t) /\ ~(In(log, t) /\ req'[t].conv = c)
  <2>1. \A t \in Requests : In(log, t) => req[t].step # "idle"
    BY DEF OrderInv, Queued
  <2>2. \A t \in Requests : In(log, t) => t # r /\ req'[t] = req[t]
    BY <1>0, <2>1
  <2>3. QED
    BY <1>1, <1>2, <2>1, <2>2 DEF In
<1>4. \A q \in Requests : ~(req'[q].conv = c /\ req'[q].step = "stream")
  BY <1>0, <1>1
<1>5. \A q \in Requests : ~(req'[q].conv = c /\ Persisting(req'[q]))
  BY <1>0, <1>1 DEF OrderInv, Queued, Persisting, HandlerSteps
<1>6. LastN(Transcript(<<>>), MaxMessages) = <<>>
  <2>1. <<>> \in Seq(Requests) /\ Len(<<>>) = 0
    BY EmptySeq
  <2> DEFINE t == Transcript(<<>>)
  <2>2. t \in Seq(Message) /\ Len(t) = 2 * Len(<<>>)
    BY <2>1, TranscriptForm
  <2> HIDE DEF t
  <2>3. Len(t) = 0
    BY <2>1, <2>2
  <2>5. t = <<>>
    BY <2>2, <2>3, EmptySeq
  <2>4. QED
    BY <2>1, <2>5, SettingsAssumption DEF LastN, t
<1>7. QED
  BY <1>2, <1>3, <1>4, <1>5, <1>6 DEF Consistent

\* The beginning of a history that has all of its turns is the history.
LEMMA WholeHistory ==
    ASSUME NEW l \in Seq(Requests), NEW g \in Seq(Requests), NEW h \in Seq(Requests),
           Prefix(g, h), OrderedTurns(l, h), \A t \in Requests : In(h, t) => In(g, t)
    PROVE  g = h
<1>1. /\ Len(g) \in Nat /\ DOMAIN g = 1..Len(g) /\ Len(h) \in Nat /\ DOMAIN h = 1..Len(h)
  BY LenProperties
<1>2. Len(g) <= Len(h) /\ \A i \in DOMAIN g : g[i] = h[i]
  BY DEF Prefix
<1>3. ASSUME Len(g) < Len(h) PROVE FALSE
  <2>1. Len(g) + 1 \in DOMAIN h
    BY <1>1, <1>3
  <2>2. h[Len(g) + 1] \in Requests /\ In(h, h[Len(g) + 1])
    BY <2>1 DEF In
  <2>3. PICK i \in DOMAIN g : g[i] = h[Len(g) + 1]
    BY <2>2 DEF In
  <2>4. i \in DOMAIN h /\ i < Len(g) + 1 /\ h[i] = h[Len(g) + 1]
    BY <1>1, <1>2, <2>3
  <2>5. Pos(l, h[i]) < Pos(l, h[Len(g) + 1])
    BY <2>1, <2>4 DEF OrderedTurns
  <2>6. Pos(l, h[i]) \in Nat
    BY <2>4, PosPlace DEF OrderedTurns
  <2>7. QED
    BY <2>4, <2>5, <2>6
<1>4. Len(g) = Len(h)
  <2>1. \A m, n \in Nat : m <= n /\ ~(m < n) => m = n
    OBVIOUS
  <2>2. QED
    BY <1>1, <1>2, <1>3, <2>1
<1>5. QED
  BY <1>1, <1>2, <1>4, SeqEqual

\* save_message_history: a turn that knows all earlier ones continues the
\* history.
LEMMA SavedConsistent ==
    ASSUME TypeInv, OrderInv, NEW r \in Requests, Effect(r), Saved(r),
           NEW c \in Conversations, Consistent(c), ~Overlapped(c)'
    PROVE  Consistent(c)'
<1> DEFINE g == req[r].context
           h == histories[c]
<1>0. /\ log \in Seq(Requests) /\ log' = Append(log, r) /\ req[r].step = "stream"
      /\ \A q \in Requests \ {r} : req'[q] = req[q]
      /\ req'[r].step = "scan" /\ req'[r].site = "user"
      /\ SameTurn(req[r], req'[r])
      /\ sessions' = sessions
      /\ histories' = [histories EXCEPT ![req[r].conv] = Append(g, r)]
      /\ histories \in [Conversations -> Seq(Requests)]
      /\ g \in Seq(Requests) /\ h \in Seq(Requests)
  BY DEF TypeInv, TypeOK, Request, Effect, Saved, Stays, Moved
<1>1. ~In(log, r) /\ DistinctTurns(log)
  BY <1>0 DEF OrderInv, Queued
<1>2. /\ log' # <<>> /\ log'[Len(log')] = r /\ Len(log') = Len(log) + 1
      /\ \A t : In(log', t) <=> In(log, t) \/ t = r
  BY <1>0, <1>1, PosAppend
<1>3. \A q \in Requests : ~Persisting(req[q])
  BY <1>0 DEF Saved, LoopFree, OnLoop, Running, Persisting, OrderInv, Queued
<1>4. \A q \in Requests : req'[q].conv = req[q].conv /\ req'[q].context = req[q].context
  BY <1>0 DEF SameTurn
<1>5. CASE req[r].conv # c
  <2>1. histories'[c] = h
    BY <1>0, <1>5
  <2>2. \A t \in Requests : In(h, t) <=> In(log', t) /\ req'[t].conv = c
    BY <1>2, <1>4, <1>5 DEF Consistent
  <2>3. \A q \in Requests : req'[q].conv = c /\ req'[q].step = "stream" =>
           Prefix(req'[q].context, h)
    BY <1>0, <1>4 DEF Consistent
  <2>4. \A q \in Requests : req'[q].conv = c => ~Persisting(req'[q])
    BY <1>0, <1>3, <1>4, <1>5
  <2>5. sessions[c].messages = LastN(Transcript(h), MaxMessages)
    BY <1>3 DEF Consistent
  <2>6. QED
    BY <1>0, <2>1, <2>2, <2>3, <2>4, <2>5 DEF Consistent
<1>6. CASE req[r].conv = c
  <2>1. \A t \in Requests : In(h, t) => In(g, t)
    <3> SUFFICES ASSUME NEW t \in Requests, In(h, t) PROVE In(g, t)
      OBVIOUS
    <3>1. In(log, t) /\ req[t].conv = c
      BY DEF Consistent
    <3>2. PICK i \in DOMAIN log : log[i] = t
      BY <3>1 DEF In
    <3>3. /\ Len(log) \in Nat /\ DOMAIN log = 1..Len(log)
          /\ DOMAIN log' = 1..(Len(log) + 1)
          /\ \A k \in 1..Len(log) : log'[k] = log[k]
      BY <1>0, LenProperties, AppendProperties
    <3>4. /\ i \in DOMAIN log' /\ log'[i] = t /\ i < Len(log')
          /\ Len(log') \in DOMAIN log' /\ log'[Len(log')] = r
      BY <1>2, <3>2, <3>3
    <3>5. /\ req'[t].conv = c /\ req'[r].conv = c /\ req'[r].context = g
      BY <1>4, <1>6, <3>1
    <3>6. \E k \in DOMAIN g : g[k] = t
      BY <3>4, <3>5 DEF Overlapped
    <3>7. QED
      BY <3>6 DEF In
  <2>2. Prefix(g, h)
    BY <1>0, <1>6 DEF Consistent
  <2>3. OrderedTurns(log, h)
    BY DEF OrderInv, Memory
  <2> HIDE DEF g, h
  <2>4. /\ Len(g) \in Nat /\ DOMAIN g = 1..Len(g) /\ Len(h) \in Nat /\ DOMAIN h = 1..Len(h)
    BY <1>0, LenProperties
  <2>6. g = h
    BY <1>0, <2>1, <2>2, <2>3, WholeHistory
  <2> DEFINE k == Append(h, r)
  <2>7. histories'[c] = k
    BY <1>0, <1>6, <2>6
  <2>8. /\ Len(k) = Len(h) + 1 /\ DOMAIN k = 1..(Len(h) + 1)
        /\ k[Len(h) + 1] = r /\ \A i \in 1..Len(h) : k[i] = h[i]
    BY <1>0, LenProperties, AppendProperties
  <2> HIDE DEF k
  <2>9. ASSUME NEW t \in Requests PROVE In(k, t) <=> In(log', t) /\ req'[t].conv = c
    <3>1. In(k, t) <=> In(h, t) \/ t = r
      <4>1. \A i \in DOMAIN k : i \in DOMAIN h \/ i = Len(h) + 1
        BY <2>4, <2>8
      <4>2. \A i \in DOMAIN h : i \in DOMAIN k /\ k[i] = h[i]
        BY <2>4, <2>8
      <4>3. Len(h) + 1 \in DOMAIN k /\ k[Len(h) + 1] = r
        BY <2>4, <2>8
      <4>4. QED
        BY <4>1, <4>2, <4>3 DEF In
    <3>2. In(h, t) <=> In(log, t) /\ req[t].conv = c
      BY DEF Consistent, h
    <3>3. QED
      BY <1>2, <1>4, <1>6, <3>1, <3>2
  <2>10. ASSUME NEW q \in Requests, req'[q].conv = c, req'[q].step = "stream"
         PROVE  Prefix(req'[q].context, k)
    <3>1. q # r /\ req'[q] = req[q]
      BY <1>0, <2>10
    <3> DEFINE f == req[q].context
    <3>2. f \in Seq(Requests) /\ Prefix(f, h)
      BY <2>10, <3>1 DEF Consistent, TypeInv, TypeOK, Request, h
    <3> HIDE DEF f
    <3>3. Len(f) \in Nat /\ DOMAIN f = 1..Len(f)
      BY <3>2, LenProperties
    <3>4. Prefix(f, k)
      BY <2>4, <2>8, <3>2, <3>3 DEF Prefix
    <3>5. QED
      BY <3>1, <3>4 DEF f
  <2>11. sessions[c].messages = LastN(Transcript(h), MaxMessages)
    BY <1>3 DEF Consistent, h
  <2>12. ASSUME NEW q \in Requests, req'[q].conv = c, Persisting(req'[q])
         PROVE  /\ k = Append(req'[q].context, q)
                /\ sessions[c].messages = Written(req'[q], q)
    <3>1. q = r /\ req'[q].context = h /\ req'[q].site = "user"
      BY <1>0, <1>3, <1>4, <2>6, <2>12 DEF g
    <3>2. QED
      BY <2>11, <3>1 DEF Written, k
  <2>13. req'[r].conv = c /\ Persisting(req'[r])
    BY <1>0, <1>4, <1>6 DEF Persisting
  <2>14. QED
    BY <1>0, <2>7, <2>9, <2>10, <2>12, <2>13 DEF Consistent
<1>7. QED
  BY <1>5, <1>6

\* append_message_to_conversation: the session catches up with the history.
LEMMA AppendedConsistent ==
    ASSUME ~Preemptive, TypeInv, SerialInv, OrderInv, NEW r \in Requests, Effect(r),
           Appended(r), NEW c \in Conversations, Consistent(c), req[r].conv = c
    PROVE  Consistent(c)'
<1> DEFINE g == req[r].context
           t == Transcript(g)
           mu == <<r, "user">>
           ma == <<r, "assistant">>
<1>0. /\ sessions \in [Conversations -> Session \cup {NoSession}]
      /\ log' = log /\ histories' = histories
      /\ \A q \in Requests \ {r} : req'[q] = req[q]
      /\ req[r].step = "append" /\ SameTurn(req[r], req'[r])
      /\ g \in Seq(Requests) /\ MaxMessages \in Nat \ {0}
      /\ req[r].site \in {"user", "assistant"}
  BY SettingsAssumption
     DEF TypeInv, TypeOK, Request, Effect, Appended, Moved, Placed
<1>1. req[r].session.messages = sessions[c].messages
  BY <1>0 DEF SerialInv, Foundation
<1>2. sessions'[c].messages = LastN(Append(sessions[c].messages, <<r, req[r].site>>), MaxMessages)
  BY <1>0, <1>1 DEF Appended
<1>3. /\ histories[c] = Append(g, r) /\ sessions[c].messages = Written(req[r], r)
  BY <1>0 DEF Consistent, Persisting
<1>4. t \in Seq(Message) /\ mu \in Message /\ ma \in Message /\ Append(t, mu) \in Seq(Message)
  BY <1>0, TranscriptForm DEF Message
<1>5. \A q \in Requests \ {r} : ~Persisting(req'[q])
  BY <1>0, OnePersists DEF Persisting
<1>6. \A q \in Requests : req'[q].conv = req[q].conv /\ req'[q].context = req[q].context
  BY <1>0 DEF SameTurn
<1>7. /\ \A x \in Requests : In(histories[c], x) <=> In(log, x) /\ req'[x].conv = c
      /\ \A q \in Requests : req'[q].conv = c /\ req'[q].step = "stream" =>
            Prefix(req'[q].context, histories[c])
  <2>1. req'[r].step # "stream"
    BY DEF Appended, Moved
  <2>2. QED
    BY <1>0, <1>6, <2>1 DEF Consistent
<1>8. CASE req[r].site = "user"
  <2>1. req'[r].site = "assistant" /\ req'[r].conv = c /\ req'[r].context = g
    BY <1>6, <1>8 DEF Appended, Moved
  <2>2. sessions[c].messages = LastN(t, MaxMessages)
    BY <1>3, <1>8 DEF Written
  <2>3. sessions'[c].messages = LastN(Append(t, mu), MaxMessages)
    BY <1>0, <1>2, <1>4, <1>8, <2>2, LastNAppend
  <2>4. sessions'[c].messages = Written(req'[r], r)
    BY <2>1, <2>3 DEF Written
  <2>5. Persisting(req'[r])
    BY <2>1 DEF Persisting
  <2> HIDE DEF g, t, mu, ma
  <2>6. QED
    BY <1>0, <1>3, <1>5, <1>7, <2>1, <2>4, <2>5 DEF Consistent
<1>9. CASE req[r].site = "assistant"
  <2>1. req'[r].site = "none"
    BY <1>9 DEF Appended, Moved
  <2>2. sessions[c].messages = LastN(Append(t, mu), MaxMessages)
    BY <1>3, <1>9 DEF Written
  <2>3. sessions'[c].messages = LastN(Append(Append(t, mu), ma), MaxMessages)
    <3> DEFINE w == Append(t, mu)
               m == sessions[c].messages
    <3>1. w \in Seq(Message) /\ m = LastN(w, MaxMessages)
      BY <1>4, <2>2
    <3>2. sessions'[c].messages = LastN(Append(m, ma), MaxMessages)
      BY <1>2, <1>9
    <3> HIDE DEF w, m, ma
    <3>3. LastN(Append(LastN(w, MaxMessages), ma), MaxMessages) = LastN(Append(w, ma), MaxMessages)
      BY <1>0, <1>4, <3>1, LastNAppend
    <3>4. sessions'[c].messages = LastN(Append(w, ma), MaxMessages)
      BY <3>1, <3>2, <3>3
    <3>5. QED
      BY <3>4 DEF w
  <2>4. Transcript(Append(g, r)) = Append(Append(t, mu), ma)
    BY <1>0, TranscriptAppend
  <2>5. sessions'[c].messages = LastN(Transcript(histories[c]), MaxMessages)
    BY <1>3, <2>3, <2>4
  <2>6. ~Persisting(req'[r])
    BY <2>1 DEF Persisting
  <2> HIDE DEF g, t, mu, ma
  <2>7. QED
    BY <1>0, <1>5, <1>7, <2>5, <2>6 DEF Consistent
<1>10. QED
  BY <1>0, <1>8, <1>9


\* A turn that persists is not stopped while its session is there: its
\* cleanups are not disturbed and it is the owner's.
LEMMA PersistingGoesOn ==
    ASSUME TypeInv, OwnerInv, SerialInv, OrderInv, NEW r \in Requests, Stopped(r),
           req[r].conv \in Live, Persisting(req[r])
    PROVE  FALSE
<1>1. req[r].step \in HandlerSteps
  BY DEF OrderInv, Queued
<1>2. CASE disturbed # {}
  BY <1>2 DEF SerialInv
<1>3. CASE req[r].step = "purge" /\ \E c \in req[r].todo : c \notin Live
  BY <1>3 DEF SerialInv, Foundation
<1>4. CASE sessions[req[r].conv].user # req[r].user
  <2>1. PastCheck(req[r])
    BY <1>1 DEF PastCheck, Persisting, HandlerSteps
  <2>2. creator[req[r].conv] = req[r].user
    BY <2>1 DEF OwnerInv
  <2>3. sessions[req[r].conv].user = creator[req[r].conv]
    BY DEF OwnerInv, OwnSession, Live
  <2>4. QED
    BY <1>4, <2>2, <2>3
<1>5. CASE req[r].step \in {"stream", "reply"}
  BY <1>1, <1>5 DEF HandlerSteps
<1>6. QED
  BY <1>2, <1>3, <1>4, <1>5 DEF Stopped

\* Every step of a request keeps what is live and not overlapped consistent.
LEMMA EffectMatch ==
    ASSUME ~Preemptive, TypeInv, OwnerInv, SerialInv, OrderInv, MatchInv,
           NEW r \in Requests, Effect(r)
    PROVE  MatchInv'
<1> SUFFICES ASSUME NEW c \in Conversations, sessions'[c] # NoSession, ~Overlapped(c)'
             PROVE  Consistent(c)'
  BY DEF MatchInv, Live
<1>1. ~Overlapped(c)
  BY OverlapStays
<1>2. sessions[c] # NoSession => c \in Live /\ Consistent(c)
  BY <1>1 DEF MatchInv, Live
<1>3. /\ sessions \in [Conversations -> Session \cup {NoSession}]
      /\ histories \in [Conversations -> Seq(Requests)]
      /\ Foundation(r) /\ Queued(log, r, req[r])
  BY DEF TypeInv, TypeOK, SerialInv, OrderInv
<1>4. CASE Created(r)
  <2>1. PICK u \in Users, d \in Conversations, s \in Session :
          /\ req[r].step = "idle" /\ creator[d] = NoUser
          /\ s.messages = <<>> /\ sessions' = [sessions EXCEPT ![d] = s]
          /\ req'[r].site = "none" /\ req'[r].step = "done"
          /\ histories' = histories /\ log' = log
    BY <1>4 DEF Created
  <2>2. CASE d = c
    <3>1. sessions'[c].messages = <<>>
      BY <1>3, <2>1, <2>2
    <3>2. QED
      BY <2>1, <2>2, <3>1, CreatedConsistent
  <2>3. CASE d # c
    <3>1. sessions'[c] = sessions[c] /\ Consistent(c)
      BY <1>2, <1>3, <2>1, <2>3
    <3>2. ~Persisting(req[r]) /\ ~Persisting(req'[r])
      BY <1>3, <2>1 DEF Queued, Persisting, HandlerSteps
    <3>3. QED
      BY <2>1, <3>1, <3>2, ConsistentFrame
  <2>4. QED
    BY <2>2, <2>3
<1>5. CASE Accepted(r)
  <2>1. /\ req[r].step = "idle" /\ req'[r].site \in {"sweep", "delete"} /\ req'[r].step = "scan"
        /\ sessions' = sessions /\ histories' = histories /\ log' = log
    BY <1>5 DEF Accepted
  <2>2. ~Persisting(req[r]) /\ ~Persisting(req'[r])
    BY <1>3, <2>1 DEF Queued, Persisting, HandlerSteps
  <2>3. QED
    BY <1>2, <2>1, <2>2, ConsistentFrame
<1>6. ASSUME Cleaned(req[r], req'[r], clock)
      PROVE  /\ SameTurn(req[r], req'[r]) /\ req'[r].step # "stream"
             /\ Persisting(req[r]) <=> Persisting(req'[r])
             /\ Persisting(req[r]) => req'[r].site = req[r].site
  BY <1>6 DEF Cleaned, Stays, Moved, Persisting
<1>7. CASE Scanned(r)
  <2>1. /\ Cleaned(req[r], req'[r], clock)
        /\ sessions' = sessions /\ histories' = histories /\ log' = log
    BY <1>7 DEF Scanned
  <2>2. req'[r].conv = req[r].conv
    BY <1>6, <2>1 DEF SameTurn
  <2>3. QED
    BY <1>2, <1>6, <2>1, <2>2, ConsistentFrame
<1>8. CASE Purged(r)
  <2>1. PICK d \in Conversations :
          /\ Cleaned(req[r], req'[r], clock)
          /\ sessions' = [sessions EXCEPT ![d] = NoSession]
          /\ histories' = histories /\ log' = log
    BY <1>8 DEF Purged
  <2>2. sessions'[c] = sessions[c] /\ Consistent(c)
    BY <1>2, <1>3, <2>1
  <2>3. req'[r].conv = req[r].conv
    BY <1>6, <2>1 DEF SameTurn
  <2>4. QED
    BY <1>6, <2>1, <2>2, <2>3, ConsistentFrame
<1>9. CASE Forgot(r)
  <2>1. PICK d \in Conversations :
          /\ req[r].step = "forget" /\ d \in req[r].swept
          /\ SameTurn(req[r], req'[r])
          /\ req'[r].step # "stream" /\ req'[r].site \in {req[r].site, "turn"}
          /\ histories' = [histories EXCEPT ![d] = <<>>]
          /\ sessions' = sessions /\ log' = log
    BY <1>9 DEF Forgot, Stays, Moved
  <2>2. c \in Live /\ Consistent(c)
    BY <1>2, <2>1
  <2>3. d # c
    BY <1>3, <2>1, <2>2 DEF Foundation
  <2>4. histories'[c] = histories[c]
    BY <1>3, <2>1, <2>3
  <2>5. ~Persisting(req[r]) /\ ~Persisting(req'[r])
    BY <1>3, <2>1 DEF Queued, Persisting
  <2>6. QED
    BY <2>1, <2>2, <2>4, <2>5, ConsistentFrame
<1>10. CASE Stopped(r)
  <2>1. /\ req'[r].site = "none" /\ req'[r].step = "done"
        /\ sessions' = sessions /\ histories' = histories /\ log' = log
    BY <1>10 DEF Stopped, Ended
  <2>2. c \in Live /\ Consistent(c)
    BY <1>2, <2>1
  <2>3. ~(req[r].conv = c /\ Persisting(req[r])) /\ ~Persisting(req'[r])
    BY <1>10, <2>1, <2>2, PersistingGoesOn DEF Persisting
  <2>4. QED
    BY <2>1, <2>2, <2>3, ConsistentFrame
<1>11. CASE Checked(r)
  <2>1. /\ SameTurn(req[r], req'[r])
        /\ req'[r].site = req[r].site /\ req'[r].step # "stream"
        /\ sessions' = sessions /\ histories' = histories /\ log' = log
    BY <1>11 DEF Checked, Stays, Moved
  <2>2. req'[r].conv = req[r].conv /\ (Persisting(req[r]) <=> Persisting(req'[r]))
    BY <2>1 DEF SameTurn, Persisting
  <2>3. QED
    BY <1>2, <2>1, <2>2, ConsistentFrame
<1>12. CASE Evicted(r) \/ Dropped(r)
  <2>1. /\ sessions' = [sessions EXCEPT ![req[r].conv] = NoSession]
        /\ SameTurn(req[r], req'[r]) /\ req'[r].step # "stream"
        /\ histories' = histories /\ log' = log
    BY <1>12 DEF Evicted, Dropped, Ended, Moved
  <2>2. req[r].conv # c /\ sessions'[c] = sessions[c]
    BY <1>3, <2>1
  <2>3. req'[r].conv # c
    BY <2>1, <2>2 DEF SameTurn
  <2>4. QED
    BY <1>2, <2>1, <2>2, <2>3, ConsistentFrame
<1>13. CASE Touched(r)
  <2>1. PICK s \in Session :
          /\ req[r].step = "touch" /\ s.messages = req[r].session.messages
          /\ sessions' = [sessions EXCEPT ![req[r].conv] = s]
          /\ SameTurn(req[r], req'[r])
          /\ req'[r].site = req[r].site /\ req'[r].step # "stream"
          /\ histories' = histories /\ log' = log
    BY <1>13 DEF Touched, Moved
  <2>2. sessions[req[r].conv] # NoSession /\ s.messages = sessions[req[r].conv].messages
    BY <1>3, <2>1 DEF Foundation, Live
  <2>3. sessions[c] # NoSession /\ sessions'[c].messages = sessions[c].messages
    BY <1>3, <2>1, <2>2
  <2>4. req'[r].conv = req[r].conv /\ (Persisting(req[r]) <=> Persisting(req'[r]))
    BY <2>1 DEF SameTurn, Persisting
  <2>5. QED
    BY <1>2, <2>1, <2>3, <2>4, ConsistentFrame
<1>14. CASE Loaded(r)
  <2>1. /\ req[r].step = "load" /\ req'[r].conv = req[r].conv
        /\ req'[r].context = histories[req[r].conv] /\ req'[r].site = req[r].site
        /\ sessions' = sessions /\ histories' = histories /\ log' = log
    BY <1>14 DEF Loaded
  <2>2. ~Persisting(req[r]) /\ ~Persisting(req'[r])
    BY <1>3, <2>1 DEF Queued, Persisting
  <2>3. Prefix(histories[c], histories[c])
    <3>1. Len(histories[c]) \in Nat
      BY <1>3, LenProperties
    <3>2. QED
      BY <3>1 DEF Prefix
  <2>4. req'[r].conv = c => Prefix(req'[r].context, histories[c])
    BY <2>1, <2>3
  <2>5. QED
    BY <1>2, <2>1, <2>2, <2>4, ConsistentFrame
<1>15. CASE Saved(r)
  <2>1. sessions' = sessions
    BY <1>15 DEF Saved
  <2>2. QED
    BY <1>2, <1>15, <2>1, SavedConsistent
<1>16. CASE Appended(r)
  <2>1. PICK s \in Session :
          /\ req[r].step = "append"
          /\ sessions' = [sessions EXCEPT ![req[r].conv] = s]
          /\ SameTurn(req[r], req'[r])
          /\ histories' = histories /\ log' = log
    BY <1>16 DEF Appended, Moved
  <2>2. req[r].conv \in Live
    BY <1>3, <2>1 DEF Foundation
  <2>3. CASE req[r].conv = c
    <3>1. sessions[c] # NoSession
      BY <2>2, <2>3 DEF Live
    <3>2. QED
      BY <1>2, <1>16, <2>3, <3>1, AppendedConsistent
  <2>4. CASE req[r].conv # c
    <3>1. sessions'[c] = sessions[c] /\ req'[r].conv # c
      BY <1>3, <2>1, <2>4 DEF SameTurn
    <3>2. QED
      BY <1>2, <2>1, <2>4, <3>1, ConsistentFrame
  <2>5. QED
    BY <2>3, <2>4
<1>17. CASE Erased(r)
  <2>1. /\ req[r].step = "erase" /\ SameTurn(req[r], req'[r])
        /\ req'[r].step # "stream" /\ req'[r].site = "none"
        /\ histories' = [histories EXCEPT ![req[r].conv] = <<>>]
        /\ sessions' = sessions /\ log' = log
    BY <1>17 DEF Erased, Ended
  <2>2. c \in Live /\ Consistent(c)
    BY <1>2, <2>1
  <2>3. req[r].conv # c
    BY <1>3, <2>1, <2>2 DEF Foundation
  <2>4. histories'[c] = histories[c] /\ req'[r].conv # c
    BY <1>3, <2>1, <2>3 DEF SameTurn
  <2>5. QED
    BY <2>1, <2>2, <2>3, <2>4, ConsistentFrame
<1>18. QED
  BY <1>4, <1>5, <1>7, <1>8, <1>9, <1>10, <1>11, <1>12, <1>13, <1>14, <1>15, <1>16, <1>17
     DEF Effect

LEMMA NextMatch ==
    ASSUME ~Preemptive, TypeInv, OwnerInv, SerialInv, OrderInv, MatchInv, [Next]_vars
    PROVE  MatchInv'
<1>1. CASE UNCHANGED <<sessions, histories, req, log>>
  BY <1>1 DEF MatchInv, Live, Overlapped, Consistent
<1>2. CASE Emptied
  BY <1>2 DEF Emptied, MatchInv, Live
<1>3. QED
  BY <1>1, <1>2, NextEffect, EffectMatch

\* When handlers are not switched out, the messages of a session are, between
\* the turns of a conversation whose turns do not overlap, the latest messages
\* of what the model remembers: persist_chat_turn writes both or the session
\* is gone, whatever the other requests, the cleanups and the clock do.
THEOREM TranscriptsMatch ==
    ASSUME ~Preemptive
    PROVE  Spec => []TranscriptMatchesMemory
<1> DEFINE I == TypeInv /\ OwnerInv /\ SerialInv /\ OrderInv /\ MatchInv
<1>1. Init => I
  BY InitType, InitOwner, InitSerial, InitOrder, InitMatch
<1>2. I /\ [Next]_vars => I'
  BY NextType, NextOwner, NextSerial, NextOrder, NextMatch
<1>3. I => TranscriptMatchesMemory
  <2> SUFFICES ASSUME I, NEW c \in Live, ~Overlapped(c),
                      \A r \in Requests : req[r].conv = c => ~OnLoop(r)
               PROVE  sessions[c].messages = LastN(Transcript(histories[c]), MaxMessages)
    BY DEF TranscriptMatchesMemory
  <2>1. Consistent(c)
    BY DEF MatchInv
  <2>2. \A r \in Requests : req[r].conv = c => ~Persisting(req[r])
    BY DEF OrderInv, Queued, OnLoop, Running, Persisting
  <2>3. QED
    BY <2>1, <2>2 DEF Consistent
<1> HIDE DEF I
<1>4. QED
  BY <1>1, <1>2, <1>3, PTL DEF Spec
=============================================================================
