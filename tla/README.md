# TLA+ models of VLab and its chat agent

VLab manages the devices of a test laboratory: a threaded Flask application
(`app/main`, `app/api`, `app/lib`) on MongoDB with Celery tasks, and `agentd`
(`app/agentd`), a FastAPI service that lets users look up, borrow and return
devices in a chat. This directory holds TLA+ modules of the parts whose
correctness depends on interleaving, failure and order, the TLC
configurations that check them, and TLAPS proofs.

Run from this directory: `tlc -config <file>.cfg <MC module>`,
`tlapm <module>Proofs.tla`. `PROJECT.json` lists runs, mutants, the lines
each definition models, findings, hazards and theorems.

## Inventory

| Component | State | Operations | Interacts with | Hard because |
|---|---|---|---|---|
| agentd conversations | two in-memory dictionaries: sessions (owner, messages, expiry) and model histories | create, streamed turn (prepare, stream, persist), delete, expiry sweep in every request, restart | chat page, model service, device tools | pool threads and the event loop share the dictionaries without a lock; a turn spans seconds |
| chat page (`topnav.html`) | conversation id, loading flag | send, borrow/return buttons | conversations, lending API | one outstanding request per modal is its only discipline |
| device lending | field `User` of `DUT`/`SonicPoint`, `transferdevices`, mails | API borrow/return, AI-search borrow, pages dutborrow/dutreturn | MongoDB, mail thread, Celery | check, write and notify are separate database calls; every failure becomes `None` |
| REST connector and device tools | attempt counter of a call | request with retries | lending API over HTTP | a POST is repeated after a time-out |
| pooled devices (owner Public) | comma list in `User` | join, leave | lending API | read-modify-write |
| ports | interface list of a device, switch state, one dictionary for all refreshes | configure, refresh, reset, initialise (Celery) | lending, switches | a session with a switch and the writes of a document are many steps, and a task works on an old copy |
| power | keepAlive, Operator, outlets | keep on, power off (Jenkins), reboot | CDUs, lending | check and act are far apart |
| Cube devices, PCs, tools | flag and user fields | take up, release | mail | two writes and a read-back |
| tickets | collection `ticket` | add, edit, modify, delete | mail | next id from the last one; edit is delete and insert |
| dashboard | counters, logs | LogAndCounts | all pages | lost updates |
| VLAN pools | range strings | combine, split | ports, VMs | range arithmetic |
| virtual machines | VM documents | sync, configure, power | ESXi, Celery | tasks that poll other tasks |
| agentd restart script | process, port | stop, start, verify | operating system | races with exiting processes |
| agentd registries, query builder | none | look-ups, translation | model service | pure functions |
| firewall automation, LDAP, Jira, mail transport | none of their own | dialogues | external systems | pure I/O, not modelled |

What makes each correct: a user sees only his own conversations; what was said
is kept in order and within bounds; deletes and expiry remove what they should
and nothing else; every request ends. A device is with its owner or with one
borrower; whoever has it asked for it; whoever loses it is told; a page that
moves a device does all that belongs to it; a tool's answer is true and arrives.
The document of a device tells the truth about its ports, and whoever gets a
device gets clean ports. Tickets and their authors survive edits. Totals do not
run away. Ranges of VLANs survive the round trip through a form. A restart
replaces the old agent and leaves one running.

## Modules

`Conversations` - one record `req[r]` per HTTP request is the local state of
its handler; each action is one access to a dictionary (the point at which the
interpreter can switch threads). `ScanSessions` ... `delete_message_histories`
are the sweep, `LookupSession`, `EvictSession`, `TouchSession` are
`get_conversation_for_user`, `load_message_history`, `save_message_history` and
`append_message_to_conversation` are a turn, `delete_*` the delete route,
`Restart` a new process. `Preemptive` chooses whether threads switch inside a
handler, which the server allows; switched off it gives the schedule of the
serial run. `Overlapped` tells the conversations whose turns have
overlapped, which the chat page never lets happen. `disturbed` is history: the
requests in whose way another thread has got, and at which conversation. A scan
that sees its dictionary change size may raise (`ScanInterrupted`), a `del` after an
`in` that is no longer true raises as well (`EraseCollides`, `DropCollides`), and a
session that a cleanup has judged expired may be saved again before it is deleted
(`Condemned`). A stream may fail before, while or after its turn is persisted
(`StreamFails`). `persist_chat_turn` runs on the event loop, so two of
them never overlap (`LoopFree`), though pool threads interleave with them. The
model's answer, its tools and its failures are nondeterministic. Messages and
histories are abstracted to the turns they stem from. `creator` and `log` are
history variables.

`Lending` - the abstract specification: a device is lent by its owner only and
comes back to its owner.

`DeviceLending` - `holder` is the field `User`; `req[r]` the handler of one
request; the actions are the database calls (`find_one` with the decision taken
on what it read, `update_one`), the mail, the queued ports task and the
transfer record, in the order of the code. The five entry points differ in what
they check and ignore: `Decide`, `IgnoresResult`, `Recipient`. `Contained` says
which names occur in the text of a device's owner, for the substring test.
Names outside `Users` have no account (`Unknown`, or a name read by the LLM).
An outage (`Fault`) makes calls of one handler fail; a write that fails may have
been applied all the same, its answer lost. `overtaken` is history: the requests
whose device another one wrote between their own read and their mail. Handlers
overlap in every way; there is no serial variant. The logs, counters and sidebar
refresh of the pages are not part of this module.

`DeviceTools` - extends `DeviceLending` with the agent's calls: `Send`,
`HTTPError`, `Response` are the loop of `request_resource`; `Deliver` and
`Lose` are the network; attempts that were given up may still be delivered.

`Ports` - the ports of one device: `switch` is what the switches have, `db` the
fields of the document, `refres` the module-level dictionary that every refresh
of a Cisco port fills and returns, `job[j]` a handler or the Celery task of a
handover. A telnet session is one step, or breaks off between two commands with
some of them done (`Interrupted`); filling `refres` takes two steps and its message a
third, and every field of the document is another. Of the answers of a refresh,
`vlan fail` (`re.split` never returns an empty list, `switchcfg.py:696-715`) and
`pullout` (set by no code) cannot occur; `not switchport`, which writes no mode or
VLAN, is answered for a port that nobody has made a switch port (`AtFirst`); and a
`FormerTrunk`, a trunk port that was initialised and still has its description, makes
`Cisco.Refresh` raise (`accesscheck[0]`, `switchcfg.py:359`). That IOS does not list
a default access VLAN in a port's configuration is an assumption about the switch.
`CiscoSet`, `DellSet` and `Initialised` say what a session leaves on the switch,
`Shown` what a refresh reads from it; `resetvlan` passes the power where the mode
is expected, and `Dell.Initial` cannot log in, as in the code. `known`, `hit` and
`disturbed` are history.

`Counters` - the totals of the dashboard: `LogAndCounts` and its relatives as
separate calls (`insert_log`, `find_totals`, `update_totals`), and the recount of
`refreshdesh` with the reads and reports that follow it. `started`, `slack`, `floor` and
`counted` are history. `OtherPage` is what other modules
do to this state: it is what makes `CountersSpec` a specification that pages can
implement.

`Tickets` - the page `ticket()` on top of `Counters`: number, read, delete, insert,
mail, count. `Membership` - the abstract specification of a pooled device: a set
that a user joins and leaves. `PublicPool` - `publicuserconfig`, which keeps that
set as a list of names that it reads and writes whole; `Stale` tells a request
whose copy is out of date. `Pages` - the three
together: every request is one page, and all share the counters.

`VlanSort` - `BubbleSort`, one comparison per step. `VlanRanges` - the way of a
user's VLANs through the form that `usersetting` shows after a user was added or
edited: sorted, combined to ranges, split again.

`AgentRestart` - `restart_agentd.py` step by step, several runs of it, the agents it
and `start.sh` start, their clients, and what `pgrep` and `lsof` see of them. A
command may fail to see or to kill some of the processes, or not run at all
(`Misses`, `StopRaises`, and a check that fails and counts as a free port): `missed` is
the history of what this did to a script. A script that asks for the service's
health has a connection of its own, so another script's `release_port` can kill it.

`ConversationsProofs`, `DeviceLendingProofs`, `DeviceToolsProofs`, `PagesProofs`, `CountersProofs`,
`PortsProofs`, `AgentRestartProofs`, `VlanProofs` - the proofs. `MC*` modules supply constants.
Operators named `Bug...` are single mistakes a maintainer could make; `PROJECT.json` names
for each property one that breaks it.

## Runs

| Run | Shows |
|---|---|
| conversations_preemptive | `Confidential`, `PersistOrder`, `TranscriptBounded`, `RemovalJustified` with switches everywhere |
| conversations_serial | when handlers are not interrupted: `TranscriptMatchesMemory` where turns have not overlapped, `DeletedStaysDeleted` (a running stream cannot undo a delete) |
| conversations_live | `EveryRequestEnds` |
| lending_races | three overlapping handlers of any kind with an outage, a name contained in another and an id in both collections: a device is lent on in three named ways only (`LendingIsRespected`), and `HolderAccountable`, `MailNamesBorrower`, `LoserIsTold`, `PageComplete` |
| lending_lost | violation, see Findings |
| tools_races | `SuccessIsReal`, `FailureExplained` for retries against overlapping handlers |
| tools_repeats | `RepeatNeedsReturn` with the deployed `retry_count` of 2, overlapping handlers and `dutborrow` |
| tools_live | `EveryCallEnds` with the deployed `retry_count` |
| ports_races | any two handlers or tasks at once, with a failure: `DatabaseAccountable`, `RefreshRepairs`, `SettingsAgree`, `TaskResetsCisco` |
| pages | three pages at once, with a failure: `TotalsBounded`, `TotalsKept`, `TicketsSurvive`, `AuthorKept`, `MembersJoined` and `MembershipRespected` under any interleaving; `UniqueIds` for ticket requests that do not overlap |
| vlan_ranges | all short lists: `SortedAtEnd`, `KeepsElements`, `RoundTrip`, `RangesMaximal` |
| restart | `OldAgentsGone` and, under fairness, `ServiceReturns` for two overlapping restarts, one of whose commands may fail |

Bounds. Two users and two conversations suffice for one user against another
and a sweep of somebody else's session; four requests allow create, two
overlapping turns and a delete (or a second create that disturbs a scan); time
to live 1 and one tick (two in the serial run) let a session expire before,
during and after a turn; `MaxMessages` 3 cuts in the middle of a turn. For lending, three
requests cover borrow, refusal, return and borrow again, or three overlapping
handlers; the devices include an id that is in both collections, one whose
owner has no account and one whose owner's text contains another user's name; one
outage hits any call. `tools_*` have one call with two or three attempts and one or
two requests of others; what `tools_live` is about needs only a borrow. `ports_races` has two
handlers on four ports: a loop meets a Dell port, an aggregated port and one
that is no switch port or a former trunk, a single request hits a port before, at or behind the loop, and one
outage falls on a session or on the write of a field; one VLAN besides the unused
one suffices to tell stale from fresh, because the history `known` is kept per
port. In `pages` three requests are enough for two edits against a delete, two
additions against an edit, two counting pages against a recount, or a join, a
leave and a join; numbers run to 2, so that an addition meets an edited ticket.
`vlan_ranges` takes every list of up to five of the numbers 1 to 6: gaps,
neighbours, repetitions and several ranges in one list. `restart` has two runs of
the script and three processes: an old agent and one for each script, or one of
`start.sh` in between; one agent crashes or one command fails, each at any
place. Deadlock is not checked: the bounded set of requests is
used up, and loops and scripts end. Symmetry is used in safety runs only.

Fairness. `FairSpec` assumes that a runnable thread or coroutine is scheduled
and that the model service answers or fails (its client has time-outs), never
that a client sends or stays. `FairToolSpec` assumes only that an attempt's
time-out (`timeout_seconds`) fires. `FairRestartSpec` assumes that the machine goes
on running the scripts (every wait in them is bounded) and the agents that start;
clients may keep their connections for ever and no agent has to finish its
shutdown.

## Findings

* `lending_lost`: two overlapping borrows both succeed.

Met while modelling and not kept as runs:

* `MAX_CONVERSATION_MESSAGES`, documented as the maximum number of history
  messages, cuts the transcript only; the history given to the model grows
  without bound.
* With thread switches inside handlers `TranscriptMatchesMemory` and
  `DeletedStaysDeleted` fail: `persist_chat_turn` saves the history and then an
  append raises because another thread resized the dictionary it iterates over;
  a touch that read before a delete writes after it. A cleanup also removes a
  session that it had collected as expired and that another thread has saved
  again since: the fourth case of `RemovalJustified`, without which it fails.
* After a race on a device the mail may name another borrower than the one who
  caused it, and the person who was read and not the one who lost the device is
  told: the exceptions of `MailNamesBorrower` and `LoserIsTold` for requests that were
  `overtaken`.
* A borrower whose name is part of the owner's is taken for the owner
  (`MistakenBorrow`).
* `Dell.Initial` waits for the prompt of a Cisco switch, so a handover leaves the
  VLANs of the previous user on Dell ports, although the comment in `dutborrow` says
  all ports are reset. `resetvlan` leaves a Cisco port as it is and writes
  UnusedNetwork into the document. After two overlapping refreshes a document can
  show the VLAN of another port.
* When a handover has initialised a trunk port, every later refresh of it raises
  at `switchcfg.py:359`, and `refreshallport` never gets to the ports after it, until
  somebody configures the port.
* Two additions at once give two tickets one number, an outage between delete and
  insert loses a ticket, overlapping joins lose a member, overlapping operations
  are counted once.
* The branch `searchuser` of `usersetting` renders `vabadmin/usersetting.html`
  (`main/views.py:1925`), which does not exist: only adding and editing show the form.
* VLAN 1 alone is read as `no VLAN` by `SplitRanges`, which stores `--`, and
  `CombineRanges` then raises on it.
* The pattern of `pgrep` does not match the command line of an agent that
  `restart_agentd.py` started: its verification fails although the service is
  healthy. `release_port` also kills clients of the port on the same machine, another
  script's health check included. A check that fails counts as a free port
  (`restart_agentd.py:95-96`), nobody looks at what `release_port` returns (`80-83`), and
  after an exception in `stop_service` (`158-160`) `main` goes on: an agent that the
  script could not see or kill survives the restart.

## Proofs

For all values of the constants that satisfy the assumptions of the modules
(positive time to live and bounds, null values outside their sets, finite sets of
requests, calls and agents, lists of natural numbers). A theorem that needs more
says so: `ASSUME ~Preemptive`, in `DeletionIsFinal` and `TranscriptsMatch` only, is the
schedule in which a handler is not switched out between its calls, the schedule of
the serial run; without it `TranscriptMatchesMemory` and `DeletedStaysDeleted` are
false (see Findings). Every theorem `Spec => []P` goes through an
inductive invariant that has its name below.

`ConversationsProofs`. What an action does to sessions, histories and its own
request is stated once, as the `Effect` lemmas; all but the first two invariants rest on them.
* `TypeSafe`: `TypeOK` alone is not inductive: that a touched or appended session is a
  session depends on which fields a request has filled at its step. `TypeInv` adds
  `Placed`, which ties step, call site, conversation and snapshot of every request.
* `Confidentiality`: `OwnerInv` says that every session, history, snapshot and
  context consists of turns of the conversation's creator, and that a request past
  the owner check (`PastCheck`) acts for the creator. Creators never change and a
  request never changes its user or conversation (`Same`), so what was once checked
  stays true however stale it is: this is why the missing locks do not leak
  conversations.
* `TranscriptsStayBounded`: `BoundInv` bounds the snapshots in flight as well.
* `PersistedInOrder`: `OrderInv`. Every session and every snapshot of one (`Kept`), every
  history and context (`Memory`) is in order; where a request stands tells whether
  its turn has begun to persist (`Queued`); and the message that is about to be
  appended comes after all that is in any session or snapshot (`Persisting`,
  `Below`), so that a late write may lose messages but reorders none.
* `RemovalsAreJustified`: `JudgedInv`. What a cleanup or a lookup has judged and not yet
  removed (`Condemned`) is expired until another thread saves it, and then the pair
  of request and conversation is in `disturbed` (`Judged`); only the creator drops one.
* `DeletionIsFinal` (`~Preemptive`): `SerialInv`. Only one handler
  is between two of its steps, and what it has found still holds (`Foundation`): the
  session it touches or appends to is there, the one it has deleted is gone; a
  stream that outlives a delete finds no session.
* `TranscriptsMatch` (`~Preemptive`): `MatchInv`. Session and history of a conversation
  without overlapped turns are `Consistent`: the transcript of the history, cut to
  `MaxMessages`, is the list of messages; while a turn persists it is
  the transcript of the context with what has been appended so far (`Written`), and
  the context of a turn that streams is a `Prefix` of the history. Rests on lemmas
  on cutting and appending (`LastNAppend`, `TranscriptAppend`).

`DeviceLendingProofs`.
* `LendingTypeSafe`, `DevicesAccountable`, `PagesComplete`, for any interleaving and
  outage: `LendInv` ties the fields of a request to its step (`RequestInv`), the holder
  to an applied borrow (`HolderInv`) and the work of a page to its step (`PageInv`).
* `MailsNameBorrowers`, `LosersAreTold`, also for any interleaving and outage: `FreshInv`.
  Unless a request was overtaken, what it has read is there when it writes and what
  it has written is there when it composes the mail (`Fresh`); whatever a mail says was
  written by some request (`WrittenInv`, `MailFor`).
* `ImplementsLending`, for any names, schedule and outage: every step of every
  handler is a step of `Lending` or none, or one of the three named exceptions. A
  request that passed the check read a holder whose name is in the owner's text
  (`Fresh`), so that at its write the holder is the owner, has changed since, or has
  such a name.

`DeviceToolsProofs`. `ToolsTypeSafe`, `ReportedSuccessIsReal`, `ReportedFailureExplained`: `ToolInv`
adds to `LendInv` that a later attempt is unsent, an earlier one has failed or lapsed
and the current one is what the call answers from (`CallInv`, `AttemptInv`).
`RepeatsNeedReturns`, for any schedule, names and entry points: `RepeatInv` - a device
that was taken does not count as free or was given back, and of two requests that
both took it one was overtaken or it was given back.

`PagesProofs`.
* `PagesTotalsBounded`, `PagesTotalsKept`: every step of a page is a step of the counters
  or leaves them alone (the lemma `PagesImplementCounting`, `PagesSpec => CountersSpec`),
  so that what `CountersProofs` shows of the totals holds for the pages.
* `AuthorsAreKept`, `NoTicketIsLost`, `NumbersAreUnique`: `TicketInv`. A request carries the
  author it has read (`TicketReq`); without overlap only one is between its calls
  (`Alone`), and without outage nothing has the number it is about to insert
  (`Gap`). The next number is new because it follows the greatest (`NewIdIsNew`).
* `OnlyMembersJoined`, `ImplementsMembership`, `PagesTypeSafe`: `PoolInv`. Whoever is in a list
  that a request has read asked to join (`PoolReq`); the list that a leave writes has
  everybody else and nobody new (`OthersRemain`, `NewListForm`), which is a step of
  `Membership` whenever the copy is the list that is stored.

`CountersProofs`. `CountersTypeSafe`, `TotalsStayBounded`, `TotalsStayKept`, for any number of requests and
faults. A total is bounded by what has been counted, but a call in flight carries a stale copy plus
one, and a recount carries a copy of the log. `CountInv` bounds each of them with a
reserve: the calls that have started and not yet written (`Waiting`), those whose
document is not in the log (`Missing`), and the slack of earlier recounts
(`TotalsInv`, `SeenInv`, `LogInv`, `FlagInv`). From below, `FloorInv`: a call that has read a
total read at least the floor, or one less once an overlapping call has raised it
(`ReadInv`).

`PortsProofs`. `PortsTypeSafe`, `DocumentsAccountable`, `RefreshesRepair`, `SettingsLast`,
`HandoverResets`: `PortsInv`. A step has the kinds that reach it (`Flow`); two handlers
that touch the same ports have both been disturbed (`Apart`); the VLAN a handler
is about to write is known on its port (`KnownTo`, `SwitchKnown`); and one that was
neither disturbed nor hit has done to document and switch what its step says
(`Mirror`: `Refreshing`, `Setting`, `Clearing`). The three action properties follow at the
step in which it ends; that a refresh raises at former trunks only follows from
what `fill` has read there (`Copying`).

`AgentRestartProofs`. `RestartTypeSafe`, `RestartReplaces`: `RestartInv`. An agent only ages
(`Moves`); what a script has found at its start has served, and is dead or in `missed`
once the script is past the step that kills its kind (`ScriptInv`); `Reserve` keeps an unused
process for every script that will need one.

`VlanProofs`.
* `SortTypeSafe`, `Sorts`, `KeepsAll`: `BubbleSort` sorts every list. The loops look wrong
  (the inner one starts over, the comparison is reversed), and `SortedAtEnd` is far
  from inductive. `SortInv` says what does hold: before row `i` the first `i - 1`
  elements are in order (`PrefixSorted`) and the last of them is the greatest of the
  whole list (`GreatestBefore`); the inner loop up to `i` inserts element `i` among
  them (`Inserted`), after which position `i` holds the greatest (`GreatestHere`) and
  the rest of the loop changes nothing; the first row only brings the greatest to
  the front (`FirstRow`).
* `RangesSurvive`, `RangesAreMaximal`: `RangesInv`. The groups are the maximal runs of
  consecutive numbers (`StartsForm`, `Groups`), expanding them one after the other
  rebuilds the list (`SplitCombined`), and the permutation of the sort is a
  bijection between the places of a number before and after (`SameCounts`).

Loops over data. The provers cannot instantiate the library's induction
theorems. What `Others`, `Starts` and the flattening of ranges compute is shown
instead by the least position at which it would be wrong (`OthersRemain`, `Climb`)
and by building the function value by value (`Recursion`).

What the proofs changed in the model: arms of `CiscoSet` overlapped; `SharedAssumption` had been left implicit; `SettingsAgree` did not
except an initialisation whose port is in an aggregation, which the code leaves
alone and four ports in fixed places had not shown; `Others` and `Starts` are written
as the loops they are in the code.

Only model-checked: `EveryRequestEnds`, `EveryCallEnds` and `ServiceReturns` (fairness and
`ENABLED` are outside what TLAPS proves here).

## Plan

1. Done: `Conversations`, `Lending`, `DeviceLending`, `DeviceTools`, `Ports`, `Counters`, `VlanSort`,
   `Tickets`, `PublicPool`, `Pages`, `VlanRanges`, `AgentRestart`, with proofs of all their
   safety properties.
2. Theorems that could follow: the safety part of the liveness properties (a
   request that waits has an action that can be taken, a variant that every step
   lowers), and `TranscriptsMatch` and `DeletionIsFinal` under weaker schedules than
   `~Preemptive`.

## Not modelled

Authentication, firewall automation, ESXi and switch dialogues below the level of
a session, Jira and mail transport (I/O with external systems); the agentd
registry and query builder and the local-AI proxy (no state); the sidebar cache
and the lists of devices on the same VLAN (derived data); port power and
spanning tree; the power of devices (the poweroff hook that reads all devices and
switches them off one by one) and the two fields of shared machines, for which the
code states no rule that could be checked; the front end's rendering. `app/static` holds vendored JavaScript
(DataTables, moment, jQuery, Flot, Raphael, mocha, ...), by far the largest part
of the repository's files and lines, and is not part of the program's own logic;
the program is the Python under `app/`, and the map counts lines of that.
