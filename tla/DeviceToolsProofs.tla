------------------------- MODULE DeviceToolsProofs -------------------------
(***************************************************************************)
(* What the agent's tools report is true, for any number of calls, retries *)
(* and other clients.                                                      *)
(*                                                                         *)
(* The argument: an attempt that the connector has given up has ended for  *)
(* good (a handler that is done takes no step) or is in `lapsed'; later    *)
(* attempts do not exist yet; and every attempt carries the call's values. *)
(***************************************************************************)
EXTENDS DeviceTools, DeviceLendingProofs

Numbers == 1..(RetryCount + 1)

\* A call has its values from the moment it is no longer idle.
CallInv(c) ==
    /\ call[c].step = "idle" => call[c].attempt = 0
    /\ call[c].step # "idle" => /\ call[c].kind \in {"borrow", "return"} \cap Kinds
                                /\ call[c].name \in Users
                                /\ call[c].id \in Ids
                                /\ call[c].attempt \in Numbers
    /\ call[c].step # "done" => call[c].result = "none"

Unsent(a) == a \notin network /\ req[a].step = "idle"
Failed(a) == a \in lapsed \/ (req[a].step = "done" /\ req[a].outcome = "error")
Answered(c, a) ==
    \/ a \in lapsed /\ call[c].result = "error"
    \/ req[a].step = "done" /\ req[a].outcome = call[c].result

AttemptInv(c, n) ==
    /\ n > call[c].attempt => Unsent(<<c, n>>)
    /\ n < call[c].attempt => Failed(<<c, n>>)
    /\ n = call[c].attempt /\ call[c].step = "done" => Answered(c, <<c, n>>)
    /\ req[<<c, n>>].step # "idle" => SameCaller(req[<<c, n>>], call[c])

\* The inductive invariant.
ToolInv ==
    /\ LendInv
    /\ ToolTypeOK
    /\ \A c \in Calls : CallInv(c)
    /\ \A c \in Calls : \A n \in Numbers : AttemptInv(c, n)

-----------------------------------------------------------------------------
LEMMA AttemptFacts ==
  /\ Attempts = Calls \X Numbers
  /\ \A c \in Calls : \A n \in Numbers : <<c, n>> \in Attempts /\ <<c, n>> \in Requests
BY ToolsAssumption DEF Attempts, Numbers

\* A handler's step is one of a request under way; it keeps the caller's values.
LEMMA HandleFrame ==
  ASSUME LendInv, NEW r \in Requests, Handle(r)
  PROVE  /\ req[r].step \notin {"idle", "done"}
         /\ req'[r].step # "idle" /\ SameCaller(req'[r], req[r])
         /\ \A q \in Requests \ {r} : req'[q] = req[q]
<1>0. TypeOK /\ RequestInv(req[r])
  BY DEF LendInv
<1>1. CASE find_one(r)
  <2>1. PICK n \in Request : /\ req' = [req EXCEPT ![r] = n] /\ SameCaller(n, req[r])
                             /\ n.step \in {"update", "done"}
    BY <1>0, <1>1, FindShape
  <2> QED
    BY <1>0, <1>1, <2>1, OneRequest DEF find_one
<1>2. CASE update_one(r)
  <2>1. PICK n \in Request : /\ req' = [req EXCEPT ![r] = n] /\ SameCaller(n, req[r])
                             /\ n.step \in {"notify", "done"}
    BY <1>0, <1>2, UpdateShape DEF SameDocument
  <2> QED
    BY <1>0, <1>2, <2>1, OneRequest DEF update_one
<1>3. CASE dut_change_user_email(r)
  <2>1. PICK n \in Request : /\ req' = [req EXCEPT ![r] = n] /\ SameCaller(n, req[r])
                             /\ n.step \in {"ports", "done"}
    BY <1>0, <1>3, MailShape DEF SameDocument
  <2> QED
    BY <1>0, <1>3, <2>1, OneRequest DEF dut_change_user_email
<1>4. CASE async_initialdutports(r)
  <2>1. PICK n \in Request : /\ req' = [req EXCEPT ![r] = n] /\ SameCaller(n, req[r])
                             /\ n.step \in {"transfer", "done"}
    BY <1>0, <1>4, PortsShape DEF SameDocument
  <2> QED
    BY <1>0, <1>4, <2>1, OneRequest DEF async_initialdutports
<1>5. CASE TransferDevice(r)
  <2>1. PICK n \in Request : /\ req' = [req EXCEPT ![r] = n] /\ SameCaller(n, req[r])
                             /\ n.step = "done"
    BY <1>0, <1>5, TransferShape DEF SameDocument
  <2> QED
    BY <1>0, <1>5, <2>1, OneRequest DEF TransferDevice
<1> QED
  BY <1>1, <1>2, <1>3, <1>4, <1>5 DEF Handle

LEMMA ToolInitial == ToolInit => ToolInv
<1> SUFFICES ASSUME ToolInit PROVE ToolInv
  OBVIOUS
<1>1. LendInv
  BY LendInit DEF ToolInit
<1>2. /\ IdleCall \in Call /\ IdleCall.step = "idle" /\ IdleCall.attempt = 0
      /\ IdleCall.result = "none"
  BY ToolsAssumption DEF IdleCall, Call, Outcomes
<1>3. \A c \in Calls : call[c] = IdleCall
  BY DEF ToolInit
<1>4. ToolTypeOK
  BY <1>1, <1>2 DEF ToolTypeOK, LendInv, ToolInit
<1>5. \A c \in Calls : CallInv(c)
  BY <1>2, <1>3 DEF CallInv
<1>6. \A r \in Requests : req[r].step = "idle"
  BY DEF ToolInit, Init, IdleRequest
<1>7. ASSUME NEW c \in Calls, NEW n \in Numbers
      PROVE  AttemptInv(c, n)
  <2>1. /\ n \in Nat /\ n > 0 /\ <<c, n>> \in Requests /\ call[c].attempt = 0
        /\ network = {}
    BY <1>2, <1>3, AttemptFacts, ToolsAssumption DEF Numbers, ToolInit
  <2> QED
    BY <1>6, <2>1 DEF AttemptInv, Unsent
<1> QED
  BY <1>1, <1>4, <1>5, <1>7 DEF ToolInv

\* A step on the server: attempts under way go on, what has ended stays.
LEMMA ServerKeeps ==
  ASSUME ToolInv, ServerStep
  PROVE  ToolInv'
<1>0. UNCHANGED <<call, network, lapsed>>
  BY DEF ServerStep
<1>1. PICK r \in Requests : Handle(r) \/ (r \notin Attempts /\ Arrival(r))
  BY DEF ServerStep
<1>2. LendInv'
  BY <1>1, HandleKeeps, ArrivalKeeps DEF ToolInv
<1>3. ToolTypeOK'
  BY <1>0, <1>2 DEF ToolInv, LendInv, ToolTypeOK
<1>4. \A c \in Calls : CallInv(c)'
  BY <1>0 DEF ToolInv, CallInv
<1>5. ASSUME NEW c \in Calls, NEW n \in Numbers
      PROVE  AttemptInv(c, n)'
  <2> DEFINE a == <<c, n>>
  <2>1. a \in Attempts /\ a \in Requests /\ AttemptInv(c, n)
    BY AttemptFacts DEF ToolInv
  <2>2. /\ req[a].step \in {"idle", "done"} => req'[a] = req[a]
        /\ req[a].step \notin {"idle", "done"} =>
              req'[a].step # "idle" /\ SameCaller(req'[a], req[a])
    <3>1. CASE Handle(r)
      <4>1. CASE r = a
        BY <3>1, <4>1, HandleFrame DEF ToolInv
      <4>2. CASE r # a
        BY <2>1, <3>1, <4>2, HandleFrame DEF ToolInv, SameCaller
      <4> QED
        BY <4>1, <4>2
    <3>2. CASE r \notin Attempts /\ Arrival(r)
      <4>1. r # a
        BY <2>1, <3>2
      <4>2. \E q : req' = [req EXCEPT ![r] = q]
        BY <3>2 DEF Arrival, Arrive
      <4>3. req'[a] = req[a]
        BY <2>1, <4>1, <4>2 DEF ToolInv, LendInv, TypeOK
      <4> QED
        BY <4>3 DEF SameCaller
    <3> QED
      BY <1>1, <3>1, <3>2
  <2> HIDE DEF a
  <2>3. Unsent(a) => Unsent(a)'
    BY <1>0, <2>2 DEF Unsent
  <2>4. Failed(a) => Failed(a)'
    BY <1>0, <2>2 DEF Failed
  <2>5. Answered(c, a) => Answered(c, a)'
    BY <1>0, <2>2 DEF Answered
  <2>6. (req[a].step # "idle" => SameCaller(req[a], call[c])) =>
        (req'[a].step # "idle" => SameCaller(req'[a], call'[c]))
    BY <1>0, <2>2 DEF SameCaller
  <2> QED
    BY <1>0, <2>1, <2>3, <2>4, <2>5, <2>6 DEF AttemptInv, a
<1> QED
  BY <1>2, <1>3, <1>4, <1>5 DEF ToolInv

\* A step of one call leaves the invariants of the others alone.
LEMMA OneCall ==
  ASSUME ToolInv, NEW c \in Calls, NEW q \in Call, call' = [call EXCEPT ![c] = q],
         UNCHANGED vars, lapsed \subseteq lapsed', lapsed' \subseteq Attempts,
         network' \subseteq Attempts,
         \A b \in Calls \ {c} : \A n \in Numbers : <<b, n>> \in network' => <<b, n>> \in network,
         CallInv(c)', \A n \in Numbers : AttemptInv(c, n)'
  PROVE  ToolInv'
<1>1. /\ call' \in [Calls -> Call] /\ call'[c] = q
      /\ \A b \in Calls \ {c} : call'[b] = call[b]
  BY DEF ToolInv, ToolTypeOK
<1>2. LendInv' /\ UNCHANGED req
  BY LendStutter DEF ToolInv, vars
<1>3. ToolTypeOK'
  BY <1>1, <1>2 DEF ToolTypeOK, LendInv
<1>4. ASSUME NEW b \in Calls \ {c}
      PROVE  CallInv(b)'
  BY <1>1 DEF ToolInv, CallInv
<1>5. ASSUME NEW b \in Calls \ {c}, NEW n \in Numbers
      PROVE  AttemptInv(b, n)'
  <2>1. AttemptInv(b, n)
    BY DEF ToolInv
  <2> QED
    BY <1>1, <1>2, <2>1 DEF AttemptInv, Unsent, Failed, Answered, SameCaller
<1> QED
  BY <1>2, <1>3, <1>4, <1>5 DEF ToolInv

\* The next attempt of a call, with the values that the call has.
LEMMA SendShape ==
  ASSUME NEW c \in Calls, NEW q \in Call, q.attempt < RetryCount + 1,
         q.kind \in {"borrow", "return"} \cap Kinds, q.name \in Users, q.id \in Ids,
         q.result = "none", Send(c, q)
  PROVE  /\ network' = network \cup {<<c, q.attempt + 1>>}
         /\ \E n \in Call :
              /\ call' = [call EXCEPT ![c] = n]
              /\ SameCaller(n, q) /\ n.attempt = q.attempt + 1 /\ n.attempt \in Numbers
              /\ n.step = "waiting" /\ n.result = "none"
<1> DEFINE n == [q EXCEPT !.attempt = q.attempt + 1, !.step = "waiting"]
<1>1. q.attempt \in Nat /\ q.attempt + 1 \in Numbers /\ q.attempt + 1 \in 0..(RetryCount + 1)
  BY ToolsAssumption DEF Call, Numbers
<1>2. n \in Call
  BY <1>1 DEF Call
<1>3. /\ SameCaller(n, q) /\ n.attempt = q.attempt + 1
      /\ n.step = "waiting" /\ n.result = "none"
  BY DEF Call, SameCaller
<1>4. call' = [call EXCEPT ![c] = n] /\ network' = network \cup {<<c, q.attempt + 1>>}
  BY DEF Send
<1> HIDE DEF n
<1> QED
  BY <1>1, <1>2, <1>3, <1>4

LEMMA RaiseShape ==
  ASSUME ToolInv, NEW c \in Calls, NEW why \in Outcomes, Raise(c, why)
  PROVE  /\ UNCHANGED network
         /\ \E n \in Call :
              /\ call' = [call EXCEPT ![c] = n]
              /\ SameCaller(n, call[c]) /\ n.attempt = call[c].attempt
              /\ n.step = "done" /\ n.result = why
<1> DEFINE n == [call[c] EXCEPT !.step = "done", !.result = why]
<1>1. call \in [Calls -> Call] /\ call[c] \in Call
  BY DEF ToolInv, ToolTypeOK
<1>2. n \in Call
  BY <1>1 DEF Call
<1>3. /\ SameCaller(n, call[c]) /\ n.attempt = call[c].attempt
      /\ n.step = "done" /\ n.result = why
  BY <1>1 DEF Call, SameCaller
<1>4. call' = [call EXCEPT ![c] = n] /\ UNCHANGED network
  BY <1>1 DEF Raise, Call
<1> HIDE DEF n
<1> QED
  BY <1>2, <1>3, <1>4

LEMMA StartKeeps ==
  ASSUME ToolInv, NEW c \in Calls, NEW k \in {"borrow", "return"} \cap Kinds,
         NEW u \in Users, NEW i \in Ids, StartTool(c, k, u, i)
  PROVE  ToolInv'
<1> DEFINE q == [call[c] EXCEPT !.kind = k, !.name = u, !.id = i]
<1>1. /\ call[c] \in Call /\ call[c].step = "idle" /\ call[c].attempt = 0
      /\ call[c].result = "none" /\ call \in [Calls -> Call]
  BY DEF ToolInv, ToolTypeOK, CallInv, StartTool
<1>2. q \in Call
  BY <1>1 DEF Call
<1>3. /\ q.kind = k /\ q.name = u /\ q.id = i /\ q.attempt = 0 /\ q.result = "none"
  BY <1>1 DEF Call
<1>4. Send(c, q) /\ UNCHANGED vars /\ UNCHANGED lapsed
  BY DEF StartTool, vars
<1> HIDE DEF q
<1>5. q.attempt < RetryCount + 1
  BY <1>3, ToolsAssumption
<1>6. PICK n \in Call :
              /\ call' = [call EXCEPT ![c] = n]
              /\ SameCaller(n, q) /\ n.attempt = q.attempt + 1 /\ n.attempt \in Numbers
              /\ n.step = "waiting" /\ n.result = "none"
  BY <1>2, <1>3, <1>4, <1>5, SendShape
<1>7. network' = network \cup {<<c, 1>>} /\ n.attempt = 1 /\ 1 \in Numbers
  BY <1>2, <1>3, <1>4, <1>5, <1>6, SendShape
<1>8. call'[c] = n
  BY <1>1, <1>6
<1>9. CallInv(c)'
  BY <1>3, <1>6, <1>8 DEF CallInv, SameCaller
<1>10. ASSUME NEW m \in Numbers
       PROVE  AttemptInv(c, m)'
  <2>1. m \in Nat /\ m > 0 /\ ~(m < 1)
    BY ToolsAssumption DEF Numbers
  <2>2. Unsent(<<c, m>>)
    BY <1>1, <2>1 DEF ToolInv, AttemptInv
  <2>3. m > 1 => Unsent(<<c, m>>)'
    BY <1>4, <1>7, <2>1, <2>2 DEF Unsent, vars
  <2>4. req'[<<c, m>>].step = "idle"
    BY <1>4, <2>2 DEF Unsent, vars
  <2> QED
    BY <1>6, <1>7, <1>8, <2>1, <2>3, <2>4 DEF AttemptInv
<1>11. network' \subseteq Attempts /\ lapsed' \subseteq Attempts
  BY <1>4, <1>7, AttemptFacts DEF ToolInv, ToolTypeOK
<1>12. \A b \in Calls \ {c} : \A m \in Numbers : <<b, m>> \in network' => <<b, m>> \in network
  BY <1>7
<1> QED
  BY <1>4, <1>6, <1>9, <1>10, <1>11, <1>12, OneCall

\* A failed attempt is followed by the next one, or ends the call.
LEMMA RetryKeeps ==
  ASSUME ToolInv, NEW c \in Calls, call[c].step = "waiting", RetryOr(c, "error"),
         UNCHANGED vars, lapsed \subseteq lapsed', lapsed' \subseteq Attempts,
         NEW a \in Attempts, a = Current(c), Failed(a)'
  PROVE  ToolInv'
<1>1. /\ call[c] \in Call /\ call \in [Calls -> Call]
      /\ call[c].kind \in {"borrow", "return"} \cap Kinds
      /\ call[c].name \in Users /\ call[c].id \in Ids
      /\ call[c].attempt \in Numbers /\ call[c].result = "none"
  BY DEF ToolInv, ToolTypeOK, CallInv
<1> DEFINE k == call[c].attempt
<1>2. k \in Nat /\ k > 0 /\ k <= RetryCount + 1 /\ Numbers \subseteq Nat
  BY <1>1, ToolsAssumption DEF Numbers
<1>3. a = <<c, k>>
  BY DEF Current
<1>4. ASSUME NEW m \in Numbers
      PROVE  /\ AttemptInv(c, m)
             /\ Failed(<<c, m>>) => Failed(<<c, m>>)'
             /\ req'[<<c, m>>] = req[<<c, m>>]
  BY DEF ToolInv, Failed, vars
<1>5. CASE k < RetryCount + 1
  <2>1. Send(c, call[c])
    BY <1>5 DEF RetryOr
  <2>2. network' = network \cup {<<c, k + 1>>}
    BY <1>1, <1>5, <2>1, SendShape
  <2>3. PICK n \in Call :
              /\ call' = [call EXCEPT ![c] = n]
              /\ SameCaller(n, call[c]) /\ n.attempt = k + 1 /\ n.attempt \in Numbers
              /\ n.step = "waiting" /\ n.result = "none"
    BY <1>1, <1>5, <2>1, SendShape
  <2>4. call'[c] = n
    BY <1>1, <2>3
  <2>5. CallInv(c)'
    BY <1>1, <2>3, <2>4 DEF CallInv, SameCaller
  <2>6. ASSUME NEW m \in Numbers
        PROVE  AttemptInv(c, m)'
    <3>1. m > k + 1 => Unsent(<<c, m>>)'
      <4>1. m > k + 1 => m > k /\ <<c, m>> # <<c, k + 1>>
        BY <1>2
      <4> QED
        BY <1>4, <2>2, <4>1 DEF AttemptInv, Unsent
    <3>2. m < k + 1 => Failed(<<c, m>>)'
      <4>1. m < k + 1 => m < k \/ <<c, m>> = a
        BY <1>2, <1>3
      <4> QED
        BY <1>4, <4>1 DEF AttemptInv, Failed
    <3>3. req'[<<c, m>>].step # "idle" => SameCaller(req'[<<c, m>>], call'[c])
      BY <1>4, <2>3, <2>4 DEF AttemptInv, SameCaller
    <3> QED
      BY <2>3, <2>4, <3>1, <3>2, <3>3 DEF AttemptInv
  <2>7. network' \subseteq Attempts
    BY <2>2, <2>3, AttemptFacts DEF ToolInv, ToolTypeOK
  <2>8. \A b \in Calls \ {c} : \A m \in Numbers : <<b, m>> \in network' => <<b, m>> \in network
    BY <2>2
  <2> QED
    BY <2>3, <2>5, <2>6, <2>7, <2>8, OneCall
<1>6. CASE ~(k < RetryCount + 1)
  <2>1. Raise(c, "error")
    BY <1>6 DEF RetryOr
  <2>2. UNCHANGED network
    BY <2>1, RaiseShape DEF Outcomes
  <2>3. PICK n \in Call :
              /\ call' = [call EXCEPT ![c] = n]
              /\ SameCaller(n, call[c]) /\ n.attempt = k
              /\ n.step = "done" /\ n.result = "error"
    BY <2>1, RaiseShape DEF Outcomes
  <2>4. call'[c] = n
    BY <1>1, <2>3
  <2>5. CallInv(c)'
    BY <1>1, <2>3, <2>4 DEF CallInv, SameCaller
  <2>6. ASSUME NEW m \in Numbers
        PROVE  AttemptInv(c, m)'
    <3>1. m > k => Unsent(<<c, m>>)'
      BY <1>4, <2>2 DEF AttemptInv, Unsent
    <3>2. m < k => Failed(<<c, m>>)'
      BY <1>4 DEF AttemptInv
    <3>3. m = k => Answered(c, <<c, m>>)'
      BY <1>3, <2>3, <2>4 DEF Failed, Answered
    <3>4. req'[<<c, m>>].step # "idle" => SameCaller(req'[<<c, m>>], call'[c])
      BY <1>4, <2>3, <2>4 DEF AttemptInv, SameCaller
    <3> QED
      BY <2>3, <2>4, <3>1, <3>2, <3>3, <3>4 DEF AttemptInv
  <2>7. network' \subseteq Attempts
    BY <2>2 DEF ToolInv, ToolTypeOK
  <2> QED
    BY <2>2, <2>3, <2>5, <2>6, <2>7, OneCall
<1> QED
  BY <1>5, <1>6

LEMMA HTTPErrorKeeps ==
  ASSUME ToolInv, NEW c \in Calls, HTTPError(c)
  PROVE  ToolInv'
<1>1. /\ call[c].step = "waiting" /\ RetryOr(c, "error") /\ UNCHANGED vars
      /\ lapsed' = lapsed \cup {Current(c)}
  BY DEF HTTPError
<1>2. Current(c) \in Attempts
  BY <1>1, AttemptFacts DEF Current, ToolInv, CallInv
<1>3. PICK a \in Attempts : a = Current(c)
  BY <1>2
<1>4. Failed(a)' /\ lapsed \subseteq lapsed' /\ lapsed' \subseteq Attempts
  BY <1>1, <1>3 DEF Failed, ToolInv, ToolTypeOK
<1> QED
  BY <1>1, <1>3, <1>4, RetryKeeps

LEMMA ResponseKeeps ==
  ASSUME ToolInv, NEW c \in Calls, Response(c)
  PROVE  ToolInv'
<1> DEFINE k == call[c].attempt
<1>1. /\ call[c].step = "waiting" /\ UNCHANGED vars /\ UNCHANGED lapsed
      /\ req[Current(c)].step = "done"
  BY DEF Response
<1>2. /\ call \in [Calls -> Call] /\ call[c].kind \in {"borrow", "return"} \cap Kinds
      /\ call[c].name \in Users /\ call[c].id \in Ids /\ k \in Numbers
  BY <1>1 DEF ToolInv, ToolTypeOK, CallInv
<1>3. PICK a \in Attempts : a = Current(c) /\ a = <<c, k>> /\ a \in Requests
  BY <1>2, AttemptFacts DEF Current
<1>4. CASE req[a].outcome = "error"
  <2>1. RetryOr(c, "error")
    BY <1>3, <1>4 DEF Response
  <2>2. Failed(a)' /\ lapsed' \subseteq Attempts
    BY <1>1, <1>3, <1>4 DEF Failed, ToolInv, ToolTypeOK, vars
  <2> QED
    BY <1>1, <1>3, <2>1, <2>2, RetryKeeps
<1>5. CASE req[a].outcome # "error"
  <2> DEFINE why == req[a].outcome
  <2>1. Raise(c, why) /\ why \in Outcomes
    BY <1>3, <1>5 DEF Response, ToolInv, LendInv, TypeOK, Request
  <2> HIDE DEF why
  <2>2. UNCHANGED network
    BY <2>1, RaiseShape
  <2>3. PICK n \in Call :
              /\ call' = [call EXCEPT ![c] = n]
              /\ SameCaller(n, call[c]) /\ n.attempt = k
              /\ n.step = "done" /\ n.result = why
    BY <2>1, RaiseShape
  <2>4. call'[c] = n
    BY <1>2, <2>3
  <2>5. CallInv(c)'
    BY <1>2, <2>3, <2>4 DEF CallInv, SameCaller
  <2>6. ASSUME NEW m \in Numbers
        PROVE  AttemptInv(c, m)'
    <3>0. /\ AttemptInv(c, m) /\ UNCHANGED req
      BY <1>1 DEF ToolInv, vars
    <3>1. m > k => Unsent(<<c, m>>)'
      BY <2>2, <3>0 DEF AttemptInv, Unsent
    <3>2. m < k => Failed(<<c, m>>)'
      BY <1>1, <3>0 DEF AttemptInv, Failed
    <3>3. m = k => Answered(c, <<c, m>>)'
      BY <1>1, <1>3, <2>3, <2>4, <3>0 DEF Answered, why
    <3>4. req'[<<c, m>>].step # "idle" => SameCaller(req'[<<c, m>>], call'[c])
      BY <2>3, <2>4, <3>0 DEF AttemptInv, SameCaller
    <3> QED
      BY <2>3, <2>4, <3>1, <3>2, <3>3, <3>4 DEF AttemptInv
  <2>7. network' \subseteq Attempts /\ lapsed' \subseteq Attempts
    BY <1>1, <2>2 DEF ToolInv, ToolTypeOK
  <2> QED
    BY <1>1, <2>2, <2>3, <2>5, <2>6, <2>7, OneCall
<1> QED
  BY <1>4, <1>5

\* Only attempts that were sent arrive, with the values of their call.
LEMMA DeliverKeeps ==
  ASSUME ToolInv, NEW c \in Calls, NEW n \in Numbers, Deliver(c, n)
  PROVE  ToolInv'
<1> DEFINE a == <<c, n>>
<1>1. /\ a \in network /\ network' = network \ {a} /\ UNCHANGED <<call, lapsed>>
      /\ Arrive(a, call[c].kind, call[c].name, call[c].id)
  BY DEF Deliver
<1>2. a \in Requests /\ n \in Nat
  BY AttemptFacts, ToolsAssumption DEF Numbers
<1>3. call[c].step # "idle" /\ ~(n > call[c].attempt)
  <2>1. ~(n > call[c].attempt)
    BY <1>1 DEF ToolInv, AttemptInv, Unsent
  <2>2. call[c].step = "idle" => n > call[c].attempt
    BY ToolsAssumption DEF ToolInv, CallInv, Numbers
  <2> QED
    BY <2>1, <2>2
<1>4. /\ call[c].kind \in Kinds /\ call[c].name \in Names /\ call[c].id \in Ids
  BY <1>3 DEF ToolInv, CallInv, Names
<1> HIDE DEF a
<1>5. LendInv'
  BY <1>1, <1>2, <1>4, ArriveKeeps DEF ToolInv
<1>6. /\ req[a].step = "idle"
      /\ \E q \in Request :
              /\ req' = [req EXCEPT ![a] = q] /\ q.step = "find"
              /\ q.kind = call[c].kind /\ q.name = call[c].name /\ q.id = call[c].id
  BY <1>1, <1>2, <1>4, ArriveShape DEF ToolInv, LendInv
<1>7. /\ req'[a].step = "find" /\ SameCaller(req'[a], call[c])
      /\ \A r \in Requests \ {a} : req'[r] = req[r]
  BY <1>2, <1>6, OneRequest DEF SameCaller, ToolInv, LendInv
<1>8. ToolTypeOK'
  BY <1>1, <1>5 DEF ToolInv, LendInv, ToolTypeOK
<1>9. \A b \in Calls : CallInv(b)'
  BY <1>1 DEF ToolInv, CallInv
<1>10. ASSUME NEW b \in Calls, NEW m \in Numbers
       PROVE  AttemptInv(b, m)'
  <2>0. AttemptInv(b, m) /\ <<b, m>> \in Requests
    BY AttemptFacts DEF ToolInv
  <2>1. CASE <<b, m>> = a
    <3>1. b = c /\ m = n
      BY <2>1 DEF a
    <3>2. Failed(a) => Failed(a)'
      BY <1>1, <1>6 DEF Failed
    <3>3. Answered(c, a) => Answered(c, a)'
      BY <1>1, <1>6 DEF Answered
    <3> QED
      BY <1>1, <1>3, <1>7, <2>0, <2>1, <3>1, <3>2, <3>3 DEF AttemptInv
  <2>2. CASE <<b, m>> # a
    BY <1>1, <1>7, <2>0, <2>2 DEF AttemptInv, Unsent, Failed, Answered, SameCaller
  <2> QED
    BY <2>1, <2>2
<1> QED
  BY <1>5, <1>8, <1>9, <1>10 DEF ToolInv

LEMMA LoseKeeps ==
  ASSUME ToolInv, NEW c \in Calls, NEW n \in Numbers, Lose(c, n)
  PROVE  ToolInv'
<1>1. network' \subseteq network /\ UNCHANGED vars /\ UNCHANGED <<call, lapsed>>
  BY DEF Lose
<1>2. LendInv' /\ UNCHANGED req
  BY <1>1, LendStutter DEF ToolInv, vars
<1>3. ToolTypeOK'
  BY <1>1, <1>2 DEF ToolInv, LendInv, ToolTypeOK
<1>4. \A b \in Calls : CallInv(b)'
  BY <1>1 DEF ToolInv, CallInv
<1>5. ASSUME NEW b \in Calls, NEW m \in Numbers
      PROVE  AttemptInv(b, m)'
  BY <1>1, <1>2 DEF ToolInv, AttemptInv, Unsent, Failed, Answered, SameCaller
<1> QED
  BY <1>2, <1>3, <1>4, <1>5 DEF ToolInv

LEMMA ToolStutter ==
  ASSUME ToolInv, UNCHANGED toolVars
  PROVE  ToolInv'
<1>1. UNCHANGED vars /\ UNCHANGED <<call, network, lapsed, req>>
  BY DEF toolVars, vars
<1>2. LendInv'
  BY <1>1, LendStutter DEF ToolInv
<1>3. ToolTypeOK'
  BY <1>1, <1>2 DEF ToolInv, LendInv, ToolTypeOK
<1>4. \A b \in Calls : CallInv(b)'
  BY <1>1 DEF ToolInv, CallInv
<1>5. ASSUME NEW b \in Calls, NEW m \in Numbers
      PROVE  AttemptInv(b, m)'
  BY <1>1 DEF ToolInv, AttemptInv, Unsent, Failed, Answered, SameCaller
<1> QED
  BY <1>2, <1>3, <1>4, <1>5 DEF ToolInv

LEMMA ToolInvariant == ToolSpec => []ToolInv
<1>1. ToolInv /\ [ToolNext]_toolVars => ToolInv'
  BY ServerKeeps, StartKeeps, HTTPErrorKeeps, ResponseKeeps, DeliverKeeps, LoseKeeps,
     ToolStutter DEF ToolNext, ToolStep, Numbers
<1> QED
  BY <1>1, ToolInitial, PTL DEF ToolSpec

-----------------------------------------------------------------------------
\* Calls, attempts and handlers keep their types together: an attempt only
\* arrives with the values of a call that was made.
THEOREM ToolsTypeSafe == ToolSpec => []ToolTypeOK
BY ToolInvariant, PTL DEF ToolInv

\* A tool call that reports success has written the device that it names for
\* the user whom it names, whatever else was lost, late or repeated.
THEOREM ReportedSuccessIsReal == ToolSpec => []SuccessIsReal
<1>1. ToolInv => SuccessIsReal
  <2> SUFFICES ASSUME ToolInv, NEW c \in Calls, call[c].result = "success"
               PROVE  /\ Applied(Current(c))
                      /\ req[Current(c)].dev[2] = call[c].id
                      /\ req[Current(c)].name = call[c].name
    BY DEF SuccessIsReal
  <2>1. /\ call[c].step = "done" /\ call[c].attempt \in Numbers
        /\ call[c].kind \in {"borrow", "return"}
    BY DEF ToolInv, CallInv
  <2> DEFINE a == <<c, call[c].attempt>>
  <2>2. a \in Requests /\ a = Current(c)
    BY <2>1, AttemptFacts DEF Current
  <2>3. /\ Answered(c, a)
        /\ req[a].step # "idle" => SameCaller(req[a], call[c])
    BY <2>1 DEF ToolInv, AttemptInv
  <2> HIDE DEF a
  <2>4. /\ req[a].step = "done" /\ req[a].outcome = "success"
        /\ SameCaller(req[a], call[c])
    BY <2>3 DEF Answered
  <2>5. req[a].kind \notin Pages
    BY <2>1, <2>4 DEF SameCaller, Pages
  <2>6. Applied(a) /\ Located(req[a])
    BY <2>2, <2>4, <2>5 DEF ToolInv, LendInv, RequestInv, Applied
  <2> QED
    BY <2>2, <2>4, <2>6 DEF SameCaller, Located
<1> QED
  BY <1>1, ToolInvariant, PTL

\* A tool call that reports a failure left the device alone, unless one of
\* its attempts timed out or ended in a 500.
THEOREM ReportedFailureExplained == ToolSpec => []FailureExplained
<1>1. ToolInv => FailureExplained
  <2> SUFFICES ASSUME ToolInv, NEW c \in Calls, call[c].step = "done",
                      call[c].result # "success", NEW a \in AttemptsOf(c), Applied(a)
               PROVE  a \in lapsed \/ req[a].outcome = "error"
    BY DEF FailureExplained
  <2>1. PICK n \in Numbers : a = <<c, n>>
    BY AttemptFacts DEF AttemptsOf
  <2>2. /\ a \in Requests /\ RequestInv(req[a]) /\ req[a].outcome \in Outcomes
        /\ AttemptInv(c, n)
    BY <2>1, AttemptFacts DEF ToolInv, LendInv, TypeOK, Request
  <2>3. /\ call[c].attempt \in Nat /\ n \in Nat
    BY ToolsAssumption DEF ToolInv, ToolTypeOK, Call, Numbers
  <2>4. /\ req[a].step # "idle"
        /\ req[a].outcome \notin {"refused", "not_found"}
        /\ req[a].step = "done" => req[a].outcome # "none"
    BY <2>2 DEF RequestInv, Applied
  <2>5. CASE n < call[c].attempt
    BY <2>1, <2>2, <2>5 DEF AttemptInv, Failed
  <2>6. CASE n > call[c].attempt
    BY <2>1, <2>2, <2>4, <2>6 DEF AttemptInv, Unsent
  <2>7. CASE n = call[c].attempt
    BY <2>1, <2>2, <2>4, <2>7 DEF AttemptInv, Answered, Outcomes
  <2> QED
    BY <2>3, <2>5, <2>6, <2>7
<1> QED
  BY <1>1, ToolInvariant, PTL

-----------------------------------------------------------------------------
(***************************************************************************)
(* Repeated borrows.  A device that was taken does not count as free until *)
(* a request gives it back, and a request that is not overtaken takes only *)
(* what counts as free when it writes.                                     *)
(***************************************************************************)
Taken(r) ==
    Applied(r) /\ req[r].kind \in {"borrow", "ai"} /\ req[r].name \notin Contained[req[r].dev]

RepeatInv ==
    /\ \A r \in Requests : Taken(r) =>
          holder[req[r].dev] \notin Contained[req[r].dev] \/ GivenBack(req[r].dev)
    /\ \A r, q \in Requests :
          r # q /\ Taken(r) /\ Taken(q) /\ req[r].dev = req[q].dev =>
             GivenBack(req[r].dev) \/ r \in overtaken \/ q \in overtaken

\* No write takes effect, and the effects of earlier ones stay on record.
SameClaims ==
    \A q \in Requests :
        /\ req'[q].loser # NoName <=> req[q].loser # NoName
        /\ req[q].loser # NoName => SameDocument(req'[q], req[q])

LEMMA QuietRepeat ==
  ASSUME RepeatInv, SameClaims, UNCHANGED <<holder, overtaken>>
  PROVE  RepeatInv'
<1>1. \A q \in Requests : /\ Taken(q)' <=> Taken(q)
                          /\ Taken(q) => req'[q].dev = req[q].dev
  BY DEF SameClaims, Taken, Applied, SameDocument, SameCaller
<1>2. \A d : GivenBack(d) => GivenBack(d)'
  BY DEF SameClaims, GivenBack, Applied, SameDocument, SameCaller, NewUser
<1> QED
  BY <1>1, <1>2 DEF RepeatInv

LEMMA OneClaim ==
  ASSUME TypeOK, NEW r \in Requests, NEW n \in Request, req' = [req EXCEPT ![r] = n],
         n.loser # NoName <=> req[r].loser # NoName,
         req[r].loser # NoName => SameDocument(n, req[r])
  PROVE  SameClaims
BY OneRequest DEF SameClaims, SameDocument, SameCaller

LEMMA QuietHandle ==
  ASSUME LendInv, NEW r \in Requests,
         find_one(r) \/ dut_change_user_email(r) \/ async_initialdutports(r)
           \/ TransferDevice(r)
  PROVE  SameClaims /\ UNCHANGED <<holder, overtaken>>
<1>0. TypeOK /\ RequestInv(req[r])
  BY DEF LendInv
<1>1. CASE find_one(r)
  <2>1. PICK n \in Request : req' = [req EXCEPT ![r] = n] /\ n.loser = NoName
    BY <1>0, <1>1, FindShape
  <2>2. req[r].loser = NoName /\ UNCHANGED <<holder, overtaken>>
    BY <1>0, <1>1 DEF find_one, RequestInv
  <2> QED
    BY <1>0, <2>1, <2>2, OneClaim
<1>2. CASE dut_change_user_email(r)
  BY <1>0, <1>2, MailShape, OneClaim
<1>3. CASE async_initialdutports(r)
  BY <1>0, <1>3, PortsShape, OneClaim
<1>4. CASE TransferDevice(r)
  BY <1>0, <1>4, TransferShape, OneClaim
<1> QED
  BY <1>1, <1>2, <1>3, <1>4

LEMMA QuietArrive ==
  ASSUME LendInv, NEW r \in Requests, NEW k \in Kinds, NEW i \in Ids, NEW u \in Names,
         Arrive(r, k, u, i)
  PROVE  SameClaims /\ UNCHANGED <<holder, overtaken>>
<1>0. TypeOK /\ RequestInv(req[r])
  BY DEF LendInv
<1>1. PICK n \in Request : req' = [req EXCEPT ![r] = n] /\ n.loser = NoName
  BY <1>0, ArriveShape
<1>2. req[r].loser = NoName /\ UNCHANGED <<holder, overtaken>>
  BY <1>0 DEF Arrive, RequestInv
<1> QED
  BY <1>0, <1>1, <1>2, OneClaim

LEMMA WriteRepeat ==
  ASSUME LendInv, FreshInv, RepeatInv, NEW r \in Requests, update_one(r)
  PROVE  RepeatInv'
<1>0. TypeOK /\ RequestInv(req[r]) /\ Fresh(r)
  BY DEF LendInv, FreshInv
<1>d. PICK d \in Devices : d = req[r].dev
  BY <1>0 DEF update_one, RequestInv, Located
<1>1. /\ req[r].step = "update" /\ req[r].loser = NoName
  BY <1>0 DEF update_one, RequestInv
<1>2. PICK n \in Request :
              /\ req' = [req EXCEPT ![r] = n]
              /\ SameDocument(n, req[r])
              /\ \/ /\ holder' = [holder EXCEPT ![d] = NewUser(r)]
                    /\ overtaken \subseteq overtaken'
                    /\ n.loser # NoName
                 \/ UNCHANGED <<holder, overtaken>> /\ n.loser = NoName
  BY <1>0, <1>d, UpdateShape
<1>3. CASE UNCHANGED <<holder, overtaken>> /\ n.loser = NoName
  BY <1>0, <1>1, <1>2, <1>3, OneClaim, QuietRepeat
<1>4. CASE /\ holder' = [holder EXCEPT ![d] = NewUser(r)]
           /\ overtaken \subseteq overtaken'
           /\ n.loser # NoName
  <2>1. /\ req'[r] = n /\ n.kind = req[r].kind /\ n.name = req[r].name /\ n.dev = d
        /\ NewUser(r)' = NewUser(r)
        /\ \A q \in Requests \ {r} : req'[q] = req[q]
    BY <1>0, <1>2, <1>d, OneRequest DEF SameDocument, SameCaller, NewUser
  <2>2. /\ holder'[d] = NewUser(r)
        /\ \A e \in Devices \ {d} : holder'[e] = holder[e]
    BY <1>0, <1>4 DEF TypeOK
  <2>3. /\ \A q \in Requests \ {r} : (Taken(q)' <=> Taken(q)) /\ req'[q].dev = req[q].dev
        /\ Taken(r)' => /\ req[r].kind \in {"borrow", "ai"}
                        /\ NewUser(r) = n.name /\ n.name \notin Contained[d]
        /\ \A q \in Requests : Taken(q) => q # r /\ req[q].dev \in Devices
    <3>1. \A q \in Requests : Taken(q) => q # r /\ req[q].dev \in Devices
      BY <1>1 DEF Taken, Applied, LendInv, RequestInv, Located
    <3>2. Taken(r)' => /\ req[r].kind \in {"borrow", "ai"}
                       /\ NewUser(r) = n.name /\ n.name \notin Contained[d]
      BY <2>1 DEF Taken, NewUser, Borrows
    <3> QED
      BY <2>1, <3>1, <3>2 DEF Taken, Applied
  <2>4. \A e : GivenBack(e) => GivenBack(e)'
    <3>1. \A q \in Requests : Applied(q) => q # r
      BY <1>1 DEF Applied
    <3>2. \A q \in Requests \ {r} : NewUser(q)' = NewUser(q) /\ (Applied(q)' <=> Applied(q))
      BY <2>1 DEF NewUser, Applied
    <3> QED
      BY <2>1, <3>1, <3>2 DEF GivenBack
  \* the write itself gives the device back, or the device is not free after it
  <2>5. NewUser(r) \in Contained[d] => GivenBack(d)'
    BY <1>4, <2>1 DEF GivenBack, Applied
  <2>6. ASSUME NEW q \in Requests, Taken(q)', NEW e, e = req'[q].dev
        PROVE  holder'[e] \notin Contained[e] \/ GivenBack(e)'
    <3>1. CASE e = d
      BY <2>2, <2>5, <3>1
    <3>2. CASE e # d
      <4>1. q # r /\ Taken(q) /\ req[q].dev = e /\ e \in Devices
        BY <2>1, <2>3, <2>6, <3>2
      <4> QED
        BY <2>2, <2>4, <3>2, <4>1 DEF RepeatInv
    <3> QED
      BY <3>1, <3>2
  \* unless r is overtaken, what it takes was free, so whoever had taken it
  \* before has seen it given back
  <2>7. ASSUME NEW q \in Requests \ {r}, Taken(q), req[q].dev = d, Taken(r)'
        PROVE  GivenBack(d)' \/ r \in overtaken'
    <3>1. CASE r \in overtaken
      BY <1>4, <3>1
    <3>2. CASE r \notin overtaken
      <4>1. holder[d] \in Contained[d]
        BY <1>0, <1>1, <1>d, <2>3, <2>7, <3>2 DEF Fresh
      <4> QED
        BY <2>4, <2>7, <4>1 DEF RepeatInv
    <3> QED
      BY <3>1, <3>2
  <2>8. ASSUME NEW q \in Requests, NEW p \in Requests, q # p, Taken(q)', Taken(p)',
               NEW e, req'[q].dev = e, req'[p].dev = e
        PROVE  GivenBack(e)' \/ q \in overtaken' \/ p \in overtaken'
    <3>1. CASE q = r
      BY <2>1, <2>3, <2>7, <2>8, <3>1
    <3>2. CASE p = r
      BY <2>1, <2>3, <2>7, <2>8, <3>2
    <3>3. CASE q # r /\ p # r
      BY <1>4, <2>3, <2>4, <2>8, <3>3 DEF RepeatInv
    <3> QED
      BY <3>1, <3>2, <3>3
  <2> QED
    BY <2>6, <2>8 DEF RepeatInv
<1> QED
  BY <1>2, <1>3, <1>4

LEMMA RepeatStep ==
  ASSUME ToolInv, FreshInv, RepeatInv, [ToolNext]_toolVars
  PROVE  FreshInv' /\ RepeatInv'
<1>0. LendInv
  BY DEF ToolInv
<1>1. CASE UNCHANGED vars
  <2>1. SameClaims /\ UNCHANGED <<holder, overtaken>>
    BY <1>1 DEF SameClaims, SameDocument, SameCaller, vars
  <2> QED
    BY <1>1, <2>1, FreshStutter, QuietRepeat
<1>2. ASSUME NEW r \in Requests, Handle(r)
      PROVE  FreshInv' /\ RepeatInv'
  <2>1. FreshInv'
    BY <1>0, <1>2, FreshHandle
  <2>2. CASE update_one(r)
    BY <1>0, <2>1, <2>2, WriteRepeat
  <2>3. CASE ~update_one(r)
    BY <1>0, <1>2, <2>1, <2>3, QuietHandle, QuietRepeat DEF Handle
  <2> QED
    BY <2>2, <2>3
<1>3. ASSUME NEW r \in Requests, NEW k \in Kinds, NEW i \in Ids, NEW u \in Names,
             Arrive(r, k, u, i)
      PROVE  FreshInv' /\ RepeatInv'
  BY <1>0, <1>3, FreshArrive, QuietArrive, QuietRepeat
<1>4. CASE ServerStep
  BY <1>2, <1>3, <1>4 DEF ServerStep, Arrival
<1>5. ASSUME NEW c \in Calls, NEW n \in Numbers, Deliver(c, n)
      PROVE  FreshInv' /\ RepeatInv'
  <2>1. <<c, n>> \in network /\ Arrive(<<c, n>>, call[c].kind, call[c].name, call[c].id)
    BY <1>5 DEF Deliver
  <2>2. ~(n > call[c].attempt)
    BY <2>1 DEF ToolInv, AttemptInv, Unsent
  <2>3. call[c].step = "idle" => n > call[c].attempt
    BY ToolsAssumption DEF ToolInv, CallInv, Numbers
  <2>4. call[c].kind \in Kinds /\ call[c].name \in Names /\ call[c].id \in Ids
    BY <2>2, <2>3 DEF ToolInv, CallInv, Names
  <2> QED
    BY <1>3, <2>1, <2>4, AttemptFacts
<1>6. ASSUME NEW c \in Calls, NEW n \in Numbers, Lose(c, n)
      PROVE  UNCHANGED vars
  BY <1>6 DEF Lose
<1>7. ASSUME NEW c \in Calls, ToolStep(c)
      PROVE  UNCHANGED vars
  BY <1>7 DEF ToolStep, HTTPError, Response
<1>8. ASSUME NEW c \in Calls, NEW k, NEW u, NEW i, StartTool(c, k, u, i)
      PROVE  UNCHANGED vars
  BY <1>8 DEF StartTool, vars
<1>9. UNCHANGED toolVars => UNCHANGED vars
  BY DEF toolVars, vars
<1> QED
  BY <1>1, <1>4, <1>5, <1>6, <1>7, <1>8, <1>9 DEF ToolNext, Numbers

\* The connector repeats a POST that is not idempotent.  A repeated borrow
\* takes effect twice only if the device was given back or one of the two
\* attempts was overtaken by another write: for any number of retries, in any
\* interleaving, beside any pages and with any names.
THEOREM RepeatsNeedReturns == ToolSpec => []RepeatNeedsReturn
<1>1. ToolInit => FreshInv /\ RepeatInv
  <2>1. ToolInit => \A r \in Requests : ~Applied(r)
    BY DEF ToolInit, Init, IdleRequest, Applied
  <2> QED
    BY <2>1, FreshInit DEF ToolInit, RepeatInv, Taken
<1>2. ToolInv /\ FreshInv /\ RepeatInv /\ [ToolNext]_toolVars => FreshInv' /\ RepeatInv'
  BY RepeatStep
<1>3. ToolInv /\ RepeatInv => RepeatNeedsReturn
  <2> SUFFICES ASSUME ToolInv, RepeatInv, NEW c \in Calls,
                      NEW a \in AttemptsOf(c), NEW b \in AttemptsOf(c), a # b,
                      req[a].kind = "borrow", Applied(a), Applied(b),
                      req[a].dev = req[b].dev, req[a].name \notin Contained[req[a].dev]
               PROVE  GivenBack(req[a].dev) \/ a \in overtaken \/ b \in overtaken
    BY DEF RepeatNeedsReturn
  <2>1. PICK m \in Numbers : a = <<c, m>>
    BY AttemptFacts DEF AttemptsOf
  <2>2. PICK n \in Numbers : b = <<c, n>>
    BY AttemptFacts DEF AttemptsOf
  <2>3. a \in Requests /\ b \in Requests
    BY <2>1, <2>2, AttemptFacts
  <2>4. req[a].step # "idle" /\ req[b].step # "idle"
    BY <2>3 DEF ToolInv, LendInv, RequestInv, Applied
  <2>5. SameCaller(req[a], call[c]) /\ SameCaller(req[b], call[c])
    BY <2>1, <2>2, <2>4 DEF ToolInv, AttemptInv
  <2>6. Taken(a) /\ Taken(b)
    BY <2>5 DEF Taken, SameCaller, Borrows
  <2> QED
    BY <2>3, <2>6 DEF RepeatInv
<1> QED
  BY <1>1, <1>2, <1>3, ToolInvariant, PTL DEF ToolSpec
=============================================================================
