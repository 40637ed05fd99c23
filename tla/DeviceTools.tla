---------------------------- MODULE DeviceTools ----------------------------
(***************************************************************************)
(* The agent's tools borrow_device and return_device: each call goes       *)
(* through RestConnector.request_resource, which sends the POST up to      *)
(* retry_count + 1 times to the handlers of DeviceLending.  An attempt     *)
(* that has timed out for the client may still be on its way, or running.  *)
(***************************************************************************)
EXTENDS DeviceLending

CONSTANTS
    Calls,        \* tool calls
    RetryCount    \* retry_count of the service configuration

\* A request of a tool is named by its call and the number of the attempt.
Attempts == Calls \X (1..(RetryCount + 1))

ASSUME ToolsAssumption ==
    /\ RetryCount \in Nat
    /\ Attempts \subseteq Requests

VARIABLES
    call,        \* the local state of every tool call
    network,     \* attempts that have been sent and have not arrived
    lapsed       \* attempts that ended in an httpx.HTTPError for the client

toolVars == <<holder, req, mails, tasks, transfers, overtaken, faults, call, network, lapsed>>

Call == [kind : {"none", "borrow", "return"},
         name : Users \cup {NoName},     \* the trusted user header
         id : Ids \cup {NoName},
         attempt : 0..(RetryCount + 1),
         step : {"idle", "waiting", "done"},
         result : Outcomes]

\* The type invariant.
ToolTypeOK ==
    /\ TypeOK
    /\ call \in [Calls -> Call]
    /\ network \subseteq Attempts
    /\ lapsed \subseteq Attempts

Current(c) == <<c, call[c].attempt>>

IdleCall == [kind |-> "none", name |-> NoName, id |-> NoName, attempt |-> 0,
             step |-> "idle", result |-> "none"]

ToolInit ==
    /\ Init
    /\ call = [c \in Calls |-> IdleCall]
    /\ network = {}
    /\ lapsed = {}

-----------------------------------------------------------------------------
\* Variants named Bug... are what the code would be with one mistake in it;
\* they show that the properties can fail, and no action uses them.
BugAttemptNotCounted(c, q) ==
    /\ call' = [call EXCEPT ![c] = [q EXCEPT !.attempt = 1, !.step = "waiting"]]
    /\ network' = network \cup {<<c, 1>>}
\* One round of request_resource's loop begins: execute_rest_request.
Send(c, q) ==
    /\ call' = [call EXCEPT ![c] = [q EXCEPT !.attempt = q.attempt + 1, !.step = "waiting"]]
    /\ network' = network \cup {<<c, q.attempt + 1>>}

Raise(c, why) ==
    /\ call' = [call EXCEPT ![c].step = "done", ![c].result = why]
    /\ UNCHANGED network

BugOneRetryMore(c, why) ==
    IF call[c].attempt <= RetryCount + 1 THEN Send(c, call[c]) ELSE Raise(c, why)
RetryOr(c, why) ==
    IF call[c].attempt < RetryCount + 1 THEN Send(c, call[c]) ELSE Raise(c, why)

StartTool(c, k, n, i) ==
    /\ call[c].step = "idle"
    /\ Send(c, [call[c] EXCEPT !.kind = k, !.name = n, !.id = i])
    /\ UNCHANGED <<vars, lapsed>>

\* The time-out, or a connection that could not be made or broke.
HTTPError(c) ==
    /\ call[c].step = "waiting"
    /\ RetryOr(c, "error")
    /\ lapsed' = lapsed \cup {Current(c)}
    /\ UNCHANGED vars

BugSuccessRetried(c) ==
    /\ call[c].step = "waiting"
    /\ Current(c) \notin network
    /\ req[Current(c)].step = "done"
    /\ IF req[Current(c)].outcome \in {"error", "success"}
       THEN RetryOr(c, req[Current(c)].outcome)
       ELSE Raise(c, req[Current(c)].outcome)
    /\ UNCHANGED <<vars, lapsed>>
\* 2xx is the result; 5xx is tried again; anything else is raised at once.
Response(c) ==
    /\ call[c].step = "waiting"
    /\ Current(c) \notin network
    /\ req[Current(c)].step = "done"
    /\ IF req[Current(c)].outcome = "error"
       THEN RetryOr(c, "error")
       ELSE Raise(c, req[Current(c)].outcome)
    /\ UNCHANGED <<vars, lapsed>>

\* The network delivers a request, possibly after its client gave up, or not.
Deliver(c, n) ==
    /\ <<c, n>> \in network
    /\ network' = network \ {<<c, n>>}
    /\ Arrive(<<c, n>>, call[c].kind, call[c].name, call[c].id)
    /\ UNCHANGED <<call, lapsed>>

Lose(c, n) ==
    /\ <<c, n>> \in network
    /\ network' = network \ {<<c, n>>}
    /\ UNCHANGED <<vars, call, lapsed>>

-----------------------------------------------------------------------------
ToolStep(c) == HTTPError(c) \/ Response(c)

\* The handlers go on by themselves; requests of other clients arrive.
ServerStep ==
    /\ \E r \in Requests : Handle(r) \/ (r \notin Attempts /\ Arrival(r))
    /\ UNCHANGED <<call, network, lapsed>>

ToolNext ==
    \/ ServerStep
    \/ \E c \in Calls :
          \/ \E k \in {"borrow", "return"} \cap Kinds, n \in Users, i \in Ids : StartTool(c, k, n, i)
          \/ ToolStep(c)
          \/ \E n \in 1..(RetryCount + 1) : Deliver(c, n) \/ Lose(c, n)

ToolSpec == ToolInit /\ [][ToolNext]_toolVars

\* Every attempt has a time-out (timeout_seconds); the server owes nothing.
FairToolSpec == ToolSpec /\ \A c \in Calls : WF_toolVars(ToolStep(c))

-----------------------------------------------------------------------------
(***************************************************************************)
(* Properties.                                                             *)
(***************************************************************************)
AttemptsOf(c) == {a \in Attempts : a[1] = c}

\* What the agent tells its user has happened: a call that succeeded changed
\* the device it names, with the last of its attempts, whichever of the
\* others were lost, refused or are still running.
SuccessIsReal ==
    \A c \in Calls : call[c].result = "success" =>
        /\ Applied(Current(c))
        /\ req[Current(c)].dev[2] = call[c].id
        /\ req[Current(c)].name = call[c].name

\* A call that failed left the device alone, unless one of its attempts had
\* timed out or ended in a 500 (the write is done before the notification).
\* Without those the answer 400, already borrowed, is about somebody else.
FailureExplained ==
    \A c \in Calls :
        call[c].step = "done" /\ call[c].result # "success" =>
            \A a \in AttemptsOf(c) :
                Applied(a) => a \in lapsed \/ req[a].outcome = "error"

\* Somebody has written a name on d with which it counts as free: returned
\* it, or borrowed it in a name that occurs in the text of `Owner'.
GivenBack(d) ==
    \E r \in Requests : Applied(r) /\ req[r].dev = d /\ NewUser(r) \in Contained[d]

\* The connector repeats a POST that is not idempotent.  A repeated borrow
\* takes effect twice only if the device was given back, or if one of the two
\* attempts was overtaken by another write of the device: the handler checks
\* the holder, whichever requests run beside it and whatever is lost or late.
RepeatNeedsReturn ==
    \A c \in Calls : \A a, b \in AttemptsOf(c) :
        /\ a # b
        /\ req[a].kind = "borrow"
        /\ Applied(a) /\ Applied(b)
        /\ req[a].dev = req[b].dev
        /\ req[a].name \notin Contained[req[a].dev]
        => GivenBack(req[a].dev) \/ a \in overtaken \/ b \in overtaken

\* Every tool call comes back to the agent after at most retry_count + 1
\* attempts, even if the server never answers.
EveryCallEnds ==
    \A c \in Calls : call[c].step = "waiting" ~> call[c].step = "done"
=============================================================================
