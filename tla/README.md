# Forger Desktop: a formal model

This directory models the parts of Forger Desktop (`src/`) whose correctness
depends on the order in which things happen: people, timers, child processes,
WhatsApp and crashes act on state that several operations share. The modules are
TLA+; TLC checks them on small instances and TLAPS proves the main safety results
for every value of the constants.

Paths below are relative to the repository (`src/main/...` is the Electron main
process).

## 1. The system

Forger Desktop is an Electron application. Its main process is one JavaScript
thread: code between two `await`s runs without interruption, everything else
interleaves. Most state is in SQLite (synchronous calls), the rest in memory.

### 1.1 Inventory

| Component | State it keeps | Operations | Talks to |
|---|---|---|---|
| Repository collaboration (`repository-collaboration/`) | groups, repositories, grants, receipts, tasks, outbox (SQLite); active runs, sends in flight, an intake chain (memory) | owner: configure a group, link and unlink a folder, set grants, cancel, retry; messages; pump; execute; deliver | WhatsApp connection (roster, send, live messages), Codex child process |
| WhatsApp agent channel (`personal-agents/whatsapp-channel/`, `whatsapp-channel-service.ts`) | bindings of a chat to an agent, requests, turns, deliveries, seen messages (SQLite); one promise chain per binding, one per account (memory) | bind, enable, access, approve, correct, retry a delivery, dismiss; messages; pump; complete; deliver | conversations of personal agents, WhatsApp |
| Agent conversations (`agent-conversation-manager.ts`, `agent-store*.ts`) | agents, conversations, messages, runs (SQLite); child processes, cancelled runs, a lock per conversation (memory) | send, ask a peer, execute, cancel, steer, revoke network access | runtimes (Codex, Claude), channel, voice, routines, remote sessions |
| Routines and wakeups (`agent-routine-manager.ts`, `agent-routine-schedule.ts`) | a schedule and its next occurrence, a journal of runs, wakeups (SQLite); a timer for each (memory) | create, change, delete, run by hand, wake up, catch up at start | conversations |
| Automations (`automation-manager.ts`) | schedules, runs, next due time; timers | create, edit, run | command runner |
| Workflows (`workflow-manager.ts`, `workflow/`) | definitions and revisions, reviews, the applied revision, the next scheduled instant, run records (JSON files); active runs, approvals, a timer, a lock per workflow (memory) | save, restore, review, apply, delete, enable, run, run a step, retry, approve, cancel, dispose | agents, apps, MCP |
| Remote sessions (`remote-session-service.ts`) | sessions and their owner | open, take over, close | conversations, cloud devices |
| Installed apps, runtimes (`installed-apps/`, `runtime/`) | registry, folders, processes, ports | install, update, repair, uninstall, start, stop | child processes, downloads |
| Chat orchestrator (`chat/`), app agents, background tasks | runs and their progress | send, cancel, resume | runtimes |
| Connections (`connections/`, `connections-service.ts`) | accounts, sockets, message archive, send rates | pair, connect, ingest, send | WhatsApp and other services |
| MCP servers (`forger-mcp-server.ts`, `app-mcp-*.ts`) | tokens, sessions, approvals | tool calls | all of the above |
| Cloud devices and relay, Sidekick and voice, backups, updater, network shares, memory, secrets, files, providers, OAuth | described in `PROJECT.json` | | |
| IPC, preload, renderer | user interface state | | main process |

A WhatsApp message enters through `connections/modules/whatsapp/live-routing.ts`:
repository collaboration sees it first, and what it does not take goes to the
agent channel. Repository collaboration and the agent channel share one pattern:
a message is checked against durable grants, work is queued in SQLite behind
locks, a child process does it, and an outbox sends the answer; every grant may
disappear during any `await` of this path. That pattern is the core of
the program's own logic, and the reason it comes first here.

What the channel admits becomes a run of a conversation of the agent, beside what a
person writes, a voice session says, a routine or a wakeup sends and another agent asks.
All of them go through `sendMessageInternal` and one promise chain per conversation.
Workflows are the other way work starts: a graph of steps that ask, call tools, agents
and apps, and that a schedule may begin.

### 1.2 What is hard

`PROJECT.json` lists each hazard at its line. In short:

- **Interleavings over an await.** The roster of a group is read over the network;
  what was checked before may be gone after. `pump`, `execute`, `acceptMessage`,
  `retryTask`, `configureGroup` and `deliverOutbox` each have such a window.
- **Partial owner changes.** An owner change writes the configuration in one
  transaction and withdraws work and outputs in later ones: a crash may separate them.
- **Two sides of one run.** In the channel the chat, the request, the turn and the run
  are written by different operations, some outside of the chat's chain of jobs; late
  ends of runs meet chats that have moved on.
- **Replay.** A crash loses what is in memory; a late answer may revive what has
  ended; a message may be notified twice.
- **Order.** Turns of one conversation run one after the other, folders are
  exclusive over all groups, outputs of a group keep their order when a send fails.
- **Uncertain sends.** A reply that may have been sent must not be sent again.
- **Liveness.** A lock, a predecessor, an unreadable roster, a stop or a flush in
  flight must not hold a turn or an output for ever; a cancellation that waits for a
  process must not hold the lock that the process needs to end.
- **Schedules.** A timer, a start by hand, a change and a restart look at the same
  instant: it must start one run, and no operation may leave the schedule without
  a timer.
- **Loops that race.** The loop of a workflow run waits for whichever node is first,
  while nodes end, are skipped, are approved or are cancelled.
- **Limits.** 100 queued turns per group, 10 repositories per instruction.

### 1.3 What makes each component correct

- *Repository collaboration*: folder exclusion, conversations as lines, no replay,
  no work and no output beyond what the owner allows now, every turn ends.
- *Agent channel*: one active request per binding and agreement of binding,
  request and turn; a reply crosses the wire once; an edit withdraws everything
  begun under the old configuration; equivalent chats are never both on.
- *Agent conversations*: one run and one process per conversation, a cancelled run has no
  effect afterwards, children are reaped, every call gets the lock.
- *Routines and automations*: an occurrence starts one run at most, and an enabled
  routine is never forgotten.
- *Workflows*: a node starts after its inputs, and nothing is left pending; what asks is
  not called before the answer; what was reviewed is what is applied; an instant starts one
  run; cancel, closing and recovery leave nothing running.
- *Installed apps*: an app is never replaced while its process runs; a failed
  update leaves the old version.

## 2. Modules

| Module | Models | Extends |
|---|---|---|
| `CollaborationStore` | the tables of repository collaboration, and its reads and writes as operators | community modules |
| `TurnQueue` | what repository collaboration promises: turns that hold folders, abstractly | community modules |
| `RepositoryCollaboration` | the service: actions, fairness, properties, the refinement of `TurnQueue` | `CollaborationStore` |
| `MCRepositoryCollaboration` | instances for TLC: folders, messages, grants, bounds | `RepositoryCollaboration` |
| `RepositoryCollaborationProofs` | theorems and their proofs | `RepositoryCollaboration`, `TLAPS` |
| `TurnQueueProofs` | that the service implements `TurnQueue` | `RepositoryCollaborationProofs` |
| `OutboxProofs` | what the outbox of the service promises | `RepositoryCollaborationProofs` |
| `WhatsAppAgentChannel` | the channel of a personal agent: tables, coordinator, outbox, the service around them; fairness, properties | community modules |
| `MCWhatsAppAgentChannel` | instances for TLC: chats, identities, messages, bounds | `WhatsAppAgentChannel` |
| `WhatsAppAgentChannelProofs` | theorems and their proofs | `WhatsAppAgentChannel`, `FiniteSetTheorems`, `TLAPS` |
| `PersonalAgents` | one conversation of an agent, its lock and its runs, the routine and the wakeup that write in it; fairness, properties | standard modules |
| `MCPersonalAgents` | instances for TLC: kinds of conversation and what may happen in each | `PersonalAgents` |
| `PersonalAgentsProofs` | theorems and their proofs | `PersonalAgents`, `TLAPS` |
| `WorkflowGraph` | which nodes of a graph may start, which never will, how a run ends | standard modules |
| `WorkflowRuns` | one workflow: revisions, schedule, runs, nodes; fairness, properties | `WorkflowGraph` |
| `MCWorkflowRuns` | instances for TLC: graphs, schedules and what may happen | `WorkflowRuns` |
| `WorkflowRunsProofs` | theorems and their proofs | `WorkflowRuns`, `FiniteSetTheorems`, `TLAPS` |

### 2.1 `CollaborationStore`

The variables are the tables of `schema.ts`: `enabled` and `activatedAt`
(`collaboration_groups`; activation times are counted, not dated), `repository`
(a row is unlinked, linked, or removed: a removed row never comes back, linking
the folder again makes a new row), `grants`, `task` (columns that never
change) and `status`, `outbox` in rowid order, `receipts`. A write is an operator from a
table to a table, because an operation of the service makes several of them
in one step: `Suppress(outbox, ...)`, `SetStatus`, `CreateTask`, `Recovered`.
Operators that the code runs after its own writes read primed variables and say
"after" in their comment.

Folders are sequences of path components, so that `RootsOverlap` is the prefix
relation the code computes on real paths. The column `parent_task_id` is
`parent`; `chain`, the set of all ancestors, is the closure the recursive query
of the code walks.

### 2.2 `RepositoryCollaboration`

One step is the code between two awaits. What is in flight over an await is a
volatile variable: `exec[t]` for `execute` (member lookup, folder validation,
Codex, second lookup), `intake` for `acceptMessage` (a promise chain makes it
one at a time), `enabling` and `retrying` for owner calls at the roster, `flush`
for `deliverOutbox` (roster, throttle of the transport, connection, socket).
`exec[t] # "idle"` is the entry of the code's `active` map.

| Code (`service.ts`) | Actions |
|---|---|
| `start`, `stop`, the timer, process death | `Start`, `Stop`, `Stopped`, `Tick`, `Crash` |
| `configureGroup` | `Pause`; `BeginEnable`, `FinishEnable`, `RefuseEnable` |
| `addRepository`, `removeRepository`, `setAccess` | `AddRepository`, `RemoveRepository`, `SetAccess` |
| `cancelTask`, `refreshMembership` | `CancelTask`, `RefreshMembership` |
| `retryTask` | `BeginRetry`, `FinishRetry`, `RefuseRetry` |
| `routeMessage`, `handleMessage`, `acceptMessage` | `Deliver`; `AnswerCommand`, `AnswerHelp`, `AcceptWork`, `Ignore` |
| `pump` | `Pump`, an operator every caller includes |
| `execute` | `MemberAnswered`, `Validated`, `Executed`, `Remembered`, `ExecutionFails` |
| `flushOutbox`, `deliverOutbox`, `whatsapp-transport.ts`, `sendMessage` of the WhatsApp manager | `StartFlush`, `Scan`; `RosterAnswered`, `Throttled`, `RateLimited`, `Sends`, `Sent`, `DeliveryFails` |
| `cancelUnauthorized` | `Unauthorized`, `UnauthorizedOutputs`, `Settle` |

The code's `pump` loops until nothing changes; `Pump` states its result: who is
denied, who is stuck behind a failed turn, and the set of turns that reserve their
folders when candidates are visited in creation order (`Starts`). Owner changes
that write several times (`OwnerChange`) have a second outcome: the process dies
after the first transaction.

`TurnQueue` leaves only the turns: what each works on, which one it continues, and a
stage. `StageOf` maps the status of a task and its place in `execute` to a stage, and
`ImplementsTurnQueue` says that every step of the service, restarts and owner changes
included, is a step of the queue or a stutter. The abstract module says in a page what the
nine hundred lines of the service keep: folders are held from the reservation until the
work has really stopped, a turn is worked on once at most, and a conversation is a line.

The roster, WhatsApp and Codex are outside: any lookup answers any
set of people or fails, any send succeeds, fails, or asks to wait, and a run
ends with a result or an error at any time.

### 2.3 `WhatsAppAgentChannel`

The durable variables are the tables: `binding` (`whatsapp_agent_bindings` with its
policy and participants; `conversation` is the conversation the chat writes to),
`request` (`whatsapp_agent_requests` in rowid order), `turn` (the status of
`whatsapp_agent_turns`), `handled` (seen messages marked handled) and `run` (what the
store of the agents knows of the run of a request; `lost` is a run whose process died
with the program). The code writes the first three one after the other in
`settleRequest`, `markTurnStatus`, `setEnabled` and `putBinding`, and correctness is
that they agree.

The volatile variables are what is in flight. `work[k]` is the promise chain of a
chat (`enqueue`, `coordinator.ts:341`): the head is the job that runs, and the field
`at` says which await it is at. Several things do *not* go through that chain, and this
is where the interleavings are: OFF in the settings, saving and removing a chat, the
outbox, and the conversation manager, whose lock (`HasLock`) is what makes an
admission wait for the cancellations called before it (`cancels`).

| Code | Actions |
|---|---|
| `handleInbound` | `Receive`; `Refuse`, `AcceptTask`, `AcceptCorrection` then `QueueCorrection`, `MessageOff`, `BeginMessageOn` then `FinishMessageOn` |
| `pump` | `StartPump`, `Dispatch` (the author is known), `ContextRead`, and the admission: `AdmitRun`, `RejectRun`, `LoseAdmission` (the store cannot say whether the run was created) |
| run events, `deliverCandidate`, `settleWithoutReply` | `RunEnds`; `Deliver`, `SettleWithoutReply` |
| `setEnabled`, `changeEnabled` | `TurnOff`; `BeginOn`, `FinishOn` |
| `putBinding`, `deleteBinding`, `updateAlias` | `Put`, `Delete`, `UpdateAlias`; the run they cancel ends in `CancelRun` |
| `cancelRequest`, `retryDelivery`, `dismissRequest` | `AskCancel`, `Retire`, `Retired`; `RetryDelivery`; `Dismiss` |
| `flushAccount`, `sendReply`, `sendMessage` of the WhatsApp manager | `Flush`, `Cross` (the final authorisation, then the socket); `SendRefused`, `SendLater`, `SendUncertain`, `SendConfirmed` |
| `initialize`, `close`, process death | `Start`, `Stop`; `Torn`, death between the two writes of OFF or of a removal |

What the model takes as one step, and why:

- A message arrives with the identities of its chat (`live-routing.ts`, after
  `resolveIdentityIds` at `manager.ts:494` of the WhatsApp module): the socket that
  delivers it is up, so that lookup answers. Lookups for owner actions and authors may
  fail (`Lookups`).
- Between the check of `sendMessageInternalUnlocked` (`agent-conversation-manager.ts:423`)
  and the creation of the run only the store of the agents is awaited, and
  `executeRun` checks again (line 847) before it spawns.
- The waits of `putBinding` on the local store are not steps; the wait for the
  cancellation of a run is.
- One agent and one account: rows of another agent share nothing with these but
  the outbox timer. Two chats are needed only for two names of one conversation.

`crossed` and `obsolete` are history variables: how often the reply of a request was
handed to the socket, and which requests began under a configuration that was saved
over since. No guard reads them.

### 2.4 `PersonalAgents`

One conversation, of one of the five kinds (`origin`: the person's, a routine's, a voice
session's, a WhatsApp chat's, one between two agents), because what may be written in a
conversation and who may stop a run depend on the kind. The durable variables are the rows:
`status` and `source` of the runs in the order they were created, `routine`, `wakeup`. The
volatile ones are `stage` (where `executeRun` of a run is), `canceledRunIds`, `line` (the calls
that hold or wait for `withConversationMutation`, the holder first), `at` (the await the holder is at),
`asking` (calls of `askPeerAgent`, which do not take the lock), `timer`, and `lingering` (runs whose
killed process was not seen to exit).

SQLite is synchronous: an `await` of the store lets only microtasks in, none of which changes
the rows a step reads. Such awaits are not steps. The awaits that are: the lock, the runtime of
the agent, the preparation of a run, its process, and the exit of a killed process.

| Code | Actions |
|---|---|
| `sendMessage`, `sendSidekickMessage`, `sendWhatsAppMessage`, `sendMessageInternalUnlocked`, `createRun` | `SendMessage`; `SendRefused`, `SendBegins`, `SendAdmitted` |
| `askPeerAgent` | `AskPeerAgent`; `AskAdmitted`, `AskRefused` |
| `executeRun`, `executeRunSafely`, `completeRun`, `failRun` | `StartRun`, `PrepareRun`, `PreparationFails`, `OnChild`, `ChildExits`, `FinishRun`, `FailRun` |
| `cancelRun`, `cancelRunUnlocked`, `stopRunChild`, `steerMessage`, `onNetworkAccessRevoked` | `CancelRun`, `SteerMessage`, `NetworkRevoked`; `CancelBegins`, `SteerRefused`, `StopChild`, `ChildGone`, `CancellationUnconfirmed` |
| routines: timer, `runNow`, `update`, `setEnabled`, `delete`, `finishRoutineRun` | `RoutineDue`, `RunNow`, `UpdateRoutine`, `DeleteRoutine`; the operator `FinishRoutineRun` in every step that ends or refuses a run of it; `Tick` |
| wakeups: the tool, cancellation, `fireWakeup` | `ScheduleWakeup`, `CancelWakeup`, `FireWakeup` |
| process end, `initialize`, `reconcileWhatsAppConversation` | `Stop`, `Start` |

`WhatsAppAgentChannel` uses the same conversation from the outside: there a run is external,
admitted behind the lock and ended or cancelled at any time. `PersonalAgents` has what the channel
counts on: `OneAtATime`, `Quiet` and `EverythingEnds` hold for the kind `whatsapp` with its corrections,
cancellations and revocations.

### 2.5 `WorkflowGraph` and `WorkflowRuns`

`WorkflowGraph` is `engine.ts` as operators over a definition and the status of its nodes: `Ready`,
`Skippable`, `RunOutcome`, `ValidGraph`. `Settled` in `WorkflowRuns` is their reference definition: it says
of the end of a run, whatever the order in which its nodes ended, which nodes must have run.

`WorkflowRuns` is one workflow. An operation takes the lock of the workflow (`withWorkflowLock`) and is
one step; what goes on after it is released is a step of its own: a run, an application that looks at
the installed apps, a start that the schedule decided. `at[r]` is the place of `executeRun`
or `executeSingleNode`, `stage[r][n]` that of `executeNode`.

| Code (`workflow-manager.ts`, `node-runtime.ts`) | Actions |
|---|---|
| `upsert`, `restoreRevision`, `review`, `delete`, `setEnabled` | `Upsert`, `RestoreRevision`, `Review`, `Delete`, `SetEnabled` |
| `apply` | `BeginApply`; `FinishApply`, `RejectApply` |
| `runNow`, `runNode`, `retryRun`, `startRun`, `launchRunTask`, `cancelPreparedRun` | `RunNow`, `RunNode`, `RetryRun`; `Launch` |
| `scheduleWorkflow`, `handleDueScheduledRun`, `advanceScheduleUnlocked` | the operator `Schedule` in every step that reaches it; `TimerFires`, `DueGone`, `DueRun`, `DueSkip`, `StartDue`; `Tick` |
| `executeRun`, `executeSingleNode` | `PreflightPasses`, `PreflightFails`, `Stop`, `SkipNode`, `StartNodes`, `Finish`, `FinishStep`, `Leave` |
| `executeNode`, `approveNode`, `cancelRun` | `Answer`, `Execute`, `Return`, `Close`; `Approve`; `CancelRun` |
| `dispose`, process death, `initialize`, `failInterruptedRuns` | `Dispose`, `Disposed`; `Crash`, `Torn`; `Initialize` |

`approved` and `called` are history variables. `MAX_PARALLEL_NODES` is a constant, 2 in the runs instead of
the 4 of the code, so that a graph of four nodes reaches the limit. Whether a window of missed
runs has passed is a choice (`MayCatchUp`, `MaySkip`): the time since the instant is not modelled.

## 3. Runs

The runs of one module use the same specification; each bounds the events that its
question does not need. `Limit` names every bound. In repository collaboration:
owner changes, cancellations,
retries, deliveries of messages (a message may be delivered twice), outages (stops
and crashes) and torn owner changes. In the channel: edits (saving, removing, renaming),
switches (ON and OFF in the settings), recoveries (cancel, retry, dismiss), notified
messages, faults (an admission without an answer), torn operations and outages. In
workflows and conversations, one run starts in any of several scenarios, each with its own budgets
(`Starts`), instead of one run per scenario.
`MaxRequests` bounds the rows of the channel. `MaxTasks` bounds the rows; the actions that
make a row keep one free for each call that will need it (`Room`), so that the
bound never changes what a call does. In `WorkflowRuns` what starts a run waits for a free row
(`Free`), and the demands and ticks of a scenario are fewer than its rows allow; in `PersonalAgents` a
message without a free row is refused, as it may be anyway while it waits for the runtime.

| Run | Instance | Question |
|---|---|---|
| `Queue` | 2 groups, 3 folders (one inside another, in the other group), 4 messages of 2 people, 3 tasks, 2 queued per group, a cancel, an outage; delivery does not answer | `TypeOK`, `NoOverlap`, `LinearConversation`, `NothingIsReplayed`, `ImplementsTurnQueue` |
| `Access` | 1 group, 2 folders, 2 messages, 2 tasks, 2 owner changes, a cancel, a retry, an outage | `AuthorizedWork`, `PendingIsAuthorized`, `MessageWorksOnce` |
| `Delivery` | 3 people of whom one is the linked account, 2 folders of which one may be linked later, one task, status output and turn outputs, an owner change, a cancel, an outage, an owner change torn by a crash, every roster, send failures and rate limits | `OrderedDelivery`, `WireIsAuthorized` |
| `Drain` | a conversation of two turns over one folder, an outage, unreadable rosters, send failures; fairness | `TurnsSettle`, `OutboxDrains`, `StopsComplete` |
| `Chat` | 1 chat, 2 people (one known to the access list by another identity), 2 requests, tasks and corrections, an edit, a switch, a recovery, a lost admission; lookups and cancellations may fail | `TypeOK`, `Agreement`, `NoStrayRun`, `StartsAuthorized`, `NoLateReply` |
| `Crash` | 1 chat, 2 people, 2 requests, a switch, a recovery, an outage, a torn operation | `SentOnce`, `NothingReplayed` |
| `Names` | a phone chat and its linked identity, ON, OFF and a task by message, an edit, 2 switches, an outage | `EquivalentExclusive`, `OneRequestPerMessage` |
| `Replies` | 1 chat, 2 requests, an edit, a recovery, an outage; fairness | `Answered`, `Posted` |
| `Agents` | five scenarios: a routine and the person (twice, once with an outage), a voice session, a channel, agents that ask each other; 3 runs, 2 occurrences; fairness | `TypeOK`, `OneAtATime`, `Timetable`, `Quiet`, `EverythingEnds` |
| `Workflows` | eleven scenarios: branching, failing and wide graphs cancelled or closed at any moment, steps and retries, revisions around a run, schedules that are paused, missed and restarted; 4 nodes, 3 runs; fairness | `TypeOK`, `SourcesFirst`, `Settled`, `RetriesAreSafe`, `SlotOnce`, `Armed`, `ShownIsLive`, `CallsApproved`, `AppliesReviewed`, `RunsMoveOn`, `DisposeEnds` |
| `OneRun` | the scenarios with several runs | finding |
| `StepIsAlone` | the scenarios with steps and retries | finding |

*Why these bounds are enough.* A violation of `NoOverlap` needs two turns and of
the conversation properties three (a turn, and two that both continue it), and the
code compares turns in pairs. A grant can be lost or regained in two owner
changes, which covers "lost, given back, then a stale answer arrives". Only one
process exists, so one outage separates everything before it from everything
after it. A delivery handles outputs one at a time: two outputs of one group are
enough for their order. In `Queue` the roster of deliveries does not answer
(`Online = FALSE`): the properties there are about turns, and outputs stay
pending, which is the least helpful case for a reply to an output.

In the channel, two requests are one that is active and one that waits for it, and a
chat never has more than one active: a third would wait like the second. One edit
during a turn is what separates the configuration a turn began under from the one it
ends under. A torn operation and an outage are two restarts. `Names` needs three
messages (ON under one name, OFF under the other, a task that comes under both) and
two switches (the settings turning each of the names on).

In a conversation a hazard is about a run, the one after it, and a call that comes between: two messages
and two stops, three rows so that the run after a corrected one is there too. Two occurrences are the one a
run was started for and the one its end sets. In a workflow, four nodes are the least with a branch that
meets again beside a third way in; three run records are a run, the one that overlaps it, and the one that
the second release lets in. Each scenario has the events its question needs and no others: together
they fire every action.

*What the bounds exclude on purpose.* Some properties fail outside of their run, each
in the way section 5 lists: `NothingReplayed` when a chat is removed and added again
(`Crash` has no edits), `EquivalentExclusive` when a lookup fails (`Names` has
`Lookups = {TRUE}`), `OneRequestPerMessage` when a correction is notified under both identities (`Names` has no
corrections), `Agreement` after a crash inside OFF (`Chat` has no torn
operation), and `PendingIsAuthorized` after a crash inside an owner change (`Access` tears nothing). `Armed` speaks of workflows whose revisions all have a schedule: applying a revision
without one leaves the workflow enabled with nothing to wait for. `EverythingEnds` speaks of runs that the
program does not outlive (section 5 says what becomes of the others). In the fair runs of the channel chats are not switched on by message: ON by
message does not pump the queue, and nothing in the repository says that it should.

`CHECK_DEADLOCK FALSE` is in every configuration: when the budgets are spent the
program may be down or idle with nothing left to do. That it does not stop
*before* its work is done is what `TurnsSettle`, `OutboxDrains` and
`StopsComplete` show, `Answered` and `Posted` for the channel, `EverythingEnds` for conversations, and
`RunsMoveOn` and `DisposeEnds` for workflows.

*Symmetry* is not used: people and folders differ in their grants and paths, runs in their order,
nodes in their edges.

### 3.1 Fairness

`Fairness` in `RepositoryCollaboration` is used by `Drain` only, that of
`WhatsAppAgentChannel` by `Replies` only, those of `PersonalAgents` and `WorkflowRuns` by `Agents` and `Workflows`.

- Weak fairness of `Start`: the owner starts the program again after an outage
  (outages are bounded). Of `Tick`: the service's ten-second timer. Of `Stopped`:
  the awaited drain.
- Weak fairness of the steps of a run: a lookup resolves or rejects, and Codex
  is killed after 30 minutes in total or 5 without output
  (`codex-executor.ts:366`).
- Weak fairness of `Delivery`: every wait of a delivery ends, in one way or another.
- Strong fairness of a positive membership answer and of the successful steps of
  a delivery: WhatsApp may fail any number of times but not for ever. Without
  it nothing can be promised: a task whose author's membership cannot be
  read stays queued, on purpose.

In the channel: weak fairness of the job at the head of each chain (lookups, reads and
calls settle), of the end of a run (its process exits or is stopped by the
timeout at `agent-conversation-manager.ts:932`), of a cancellation that holds its lock, of ON in the settings after
its lookup, of `Start`, and of the outbox and its answers. Strong fairness of
`Cross \/ SendRefused`: WhatsApp may put a reply off any number of times, but one that
is tried again and again is taken or refused in the end. There is no fairness of
`LoseAdmission`: it may happen, nothing needs it.

In a conversation: weak fairness of the step that the holder of the lock is at (the promise chain hands
the lock on), of `askPeerAgent`'s answer, of the steps of each run (a run has an absolute limit,
`agent-conversation-manager.ts:932`, after which its process is killed; an exit is waited for four seconds), and of
the two timers. Not of `Start`: nothing has to restart the program.

In a workflow: weak fairness of the steps of each run and each node (promises settle; a call ends
by an answer, an abort or its timeout) and of what the manager does by itself. The timeouts of agent steps
are in the code; for tools and connections the model assumes that the call ends. Answers of the person to an
approval are not fair: `RunsMoveOn` lets a run wait for one, and `DisposeEnds` holds because `dispose`
answers no for the person.

Nothing is assumed of owners, of people or of message deliveries.

## 4. Proofs

`RepositoryCollaborationProofs` proves, for every number of groups,
people, folders, tasks and messages, and every bound:

| Theorem | States |
|---|---|
| `Invariance` | `Spec => []IInv`, the inductive invariant |
| `TypeCorrect` | `Spec => []TypeOK` |
| `FoldersAreExclusive` | `Spec => []NoOverlap` |
| `RunsAreReserved` | `Spec => []RunningIsReserved` |
| `TurnsInOrder` | `Spec => []PredecessorCompleted` |
| `ConversationsAreLines` | `Spec => []LinearConversation` |
| `WorkIsAuthorized` | `Spec => []AuthorizedWork` |
| `NoReplay` | `Spec => NothingIsReplayed` |

The assumptions are `RepositoryAssumption` (`CollaborationStore`) and
`ServiceAssumption` (`RepositoryCollaboration`): the types of the constants,
well-formed messages, positive limits. TLC evaluates them in every run.

*The argument.* None of the properties is inductive alone. `IInv` is
`Ledger(phase, status, exec, task)`, `AuthorizedWork`, and the types of the
configuration, rows, delivery and calls in flight. `Ledger` relates the volatile
and the durable side: reservations exclude each other, a marked run is reserved,
`exec` past the validation implies a begun task, ancestors have smaller ids
and are closed under `parent`, a turn in progress has a completed predecessor,
siblings do not exist. It takes its four parts as arguments because almost every
action is an *edit* of them followed by `Pump`: one lemma shows that `Pump`
takes any edited state (`Edited(st, ex)`: the `Ledger` holds of it, and what
`Pump` will not visit is authorised) to one a step may end in (`Kept`), whatever the edit
was, and each action only has to show that its edit is one. `Onward` is the part of both that speaks of
two states: nothing begun is queued again, and nothing ended changes. `AuthorizedWork` is preserved by owner
changes because `Unauthorized` contains every live task that lost a grant, and
across a crash in the middle of one because it says nothing while the program is
down and `Start` pumps before anything else happens.

`RunningIsReserved` and `PredecessorCompleted` are checked by no run of their own: `ImplementsTurnQueue`
implies them on the instance, and the theorems state them for every one.

`TurnQueueProofs` proves that the service does what `TurnQueue` says, from the same assumptions:

| Theorem | States |
|---|---|
| `Refinement` | `Spec => ImplementsTurnQueue`: every step of the service is a step of the turns, or none |

*The argument.* `TurnQueue` says who may hold which folders and in which order turns go on, and nothing of
groups, grants or crashes. Every action of the service changes the stage of its turns in one of two ways:
calmly (new turns arrive, turns that wait are dropped, turns that run end), or by one turn that goes from
its validation on. What `Pump` starts afterwards is a subset of the waiting turns whose folders are free,
taken at once, so edit and pump together are one step of `TurnQueue`. `IInv` gives what the mapping needs: that
what is reserved is what the abstract turns hold, and that the turn before is complete. The one fact that is not in `IInv`
is `RowsFull`: every task that exists has folders to work on, as `TurnQueue` asks of a turn.

`OutboxProofs` proves of the messages of the service:

| Theorem | States |
|---|---|
| `OutboxInvariance` | `Spec => []OInv`, the inductive invariant of the outbox |
| `DeliveriesInOrder` | `Spec => []OrderedDelivery` |
| `SocketIsAuthorized` | `Spec => WireIsAuthorized` |
| `MessagesWorkOnce` | `Spec => MessageWorksOnce` |
| `WaitingIsAuthorized` | `Limit["torn"] = 0 => (Spec => []PendingIsAuthorized)` |

*The argument.* `OInv` adds seven parts to `IInv`. `Ordered` is the order of delivery. `Looping` says what makes it
inductive: whatever waits before the output that the flush is at belongs to a group that the flush has given up, and
what came later waits behind. `Known`, `Family` and `Written` are about rows: an output is about a task that
exists, a conversation stays in one group and on the same folders (so that a notice about a turn is authorised
by the folders of its ancestors), and the message of every row has a receipt, which is why it makes no second row
(`MessagesWorkOnce`). `IntakeGranted` is what an intake may still count on during its roster lookup. `CurrentFit` says that
what the flush is at may still be shown or is suppressed, crash or no crash; with the last reading of `canSend`
it gives `SocketIsAuthorized`. Most operations do one thing to the table, silence some of it and append one output at most,
and hand the result to the flush; so the lemmas speak of that table (`out`), and the flush only silences more of it.

`WaitingIsAuthorized` has a hypothesis: that no change of the
owner is cut in two by a crash. It is needed. After a crash between the first write of such a change
and the suppression of the outputs that became unauthorised, `start()` lets the flush find them, and it stops at the first
output it may hand over; the ones behind it wait unauthorised until the next flush. Nothing of it reaches
the socket, as `SocketIsAuthorized` states without the hypothesis.
The run `Access`, which checks `PendingIsAuthorized`, tears nothing.

`PersonalAgentsProofs` proves, for any number of runs and occurrences, any kind of conversation and any
budgets:

| Theorem | States |
|---|---|
| `AgentInvariance` | `Spec => []IInv`, the inductive invariant |
| `AgentTypes` | `Spec => []TypeOK` |
| `RunsAlone` | `Spec => []OneAtATime` |
| `TimetableHolds` | `Spec => []Timetable` |
| `QuietHolds` | `Spec => Quiet` |

The assumption is `AgentAssumption` (types of the constants). TLC evaluates it in `Agents`.

*The argument.* The lock is the heart of it: what the holder did before it waited is still true when it goes
on, although messages, cancellations, peers, timers and processes come meanwhile. `IInv` says
this part by part. `RowsInv`: only the newest run is live. `LineInv` says of each waiting call what it
was admitted for, and `PlaceInv` and `WakeInv` what the holder may rely on at each await: a cancellation has ended
its run before it waits for what executes it, and while a message waits for the runtime no run and no wakeup
can come, because whoever could bring one waits behind it or needs a process. `ActingInv` ties processes to rows: what
executes is running, or is what the holder is waiting for while nothing is live. That is why a second process
cannot start beside the first. `RowOccInv` and `CallOccInv` say that an occurrence of the routine is in
one place: due, in the line, or in a row; `Remembered` that an enabled routine has its timer or
something that will set it. For each part there is a lemma that no step disturbs it; calls that only join
the line are taken together (`Comes`).

`WorkflowRunsProofs` proves, for any library of finite graphs, any number of runs and instants, and any bounds:

| Theorem | States |
|---|---|
| `WorkflowInvariance` | `Spec => []IInv`, the inductive invariant |
| `WorkflowRunsTypes` | `Spec => []TypeOK` |
| `SourcesComeFirst` | `Spec => []SourcesFirst` |
| `RunsEndSettled` | `Spec => []Settled` |
| `RetriesCallOnce` | `Spec => []RetriesAreSafe` |
| `SlotsStartOnce` | `Spec => []SlotOnce` |
| `ScheduleStaysArmed` | `Spec => []Armed` |
| `ShownRunsLive` | `Spec => []ShownIsLive` |
| `CallsNeedApproval` | `Spec => CallsApproved` |
| `OnlyReviewedIsApplied` | `Spec => AppliesReviewed` |

The assumption is `WorkflowAssumption`: the types of the constants, with lists of nodes that are finite and edges
that wait for success, failure or either (`workflows.ts:15`). TLC evaluates it in `Workflows`.

*The argument.* `IInv` is `TypeOK`, `FiledInv` (what is filed under a number is a run that began), `SlotInv` (an
instant of the schedule is with one decided start or in one record, never both), `Armed`, `ShownIsLive`, `AwayInv` (what
the process has forgotten), and `RunInv(r)` of each run. `RunInv` has six parts: a run that has not begun
is blank; where a run is decides who holds it; the stage of a node agrees with what it waits for; who was asked for a permission and
answered; `CourseInv`, that every node is where the graph sends it; and what an ended
run leaves behind. Steps that take one run further are summarised once: `Advances(r)` says what they leave alone, and the
parts about the other runs follow from it for all of them.

`Settled` is where the graph matters: when no node is ready, going on or asking, none is pending either. A
pending node would have a source that is pending, and that one another: a set of nodes each with a source in
the set, which a sorted graph does not have. This is `Acyclic`, proved of the recursive function
`Unsorted` of `WorkflowGraph` by taking a smallest counterexample among the subsets, since strict inclusion
of finite sets is well-founded; no induction theorem with an operator for parameter is needed.

`WhatsAppAgentChannelProofs` proves, for any chats and identities, people, messages, requests and bounds:

| Theorem | States |
|---|---|
| `ChannelInvariance` | `Spec => []IInv`, the inductive invariant |
| `ChannelTypes` | `Spec => []TypeOK` |
| `RepliesCrossOnce` | `Spec => []SentOnce` |
| `RunsAreAttended` | `Spec => []NoStrayRun` |
| `LateRepliesAreDropped` | `Spec => NoLateReply` |
| `AuthorizedStarts` | `Spec => StartsAuthorized` |
| `TablesAgree` | `Spec /\ [][~Torn]_vars => []Agreement` |
| `NoReplay` | `Spec => NothingReplayed`, of the behaviours that remove no chat |
| `OneChatOfAConversation` | `Spec => []EquivalentExclusive`, if lookups answer and no two such chats are on at first |
| `NoSecondRequest` | `Spec => []OneRequestPerMessage`, if corrections come in chats with one identity |

The assumption is `ChannelAssumption` (types of the constants; identities are mutual). TLC evaluates it in the four
runs of the channel.

*The argument.* Some forty actions write the tables, many of them outside of the chain of their chat. Each is
summarised once, in `Moves`: what becomes of the status, the reply and the run of every request
(`StatusStep`, `DeliveryStep`, `RunStep`), of the row of every chat (`BindingStep`), of the jobs of every chain
(`ChainStep`, `NewJob`) and of the cancellations under way; `SendStep` is the reply in flight. For every action a lemma
(`PutMoves`, `RetireMoves`, ...) shows that it is such a step, and the parts of `IInv` follow from the summary.
`RowInv` says what the status of a request tells of its run and its reply. `ActiveInv` is the heart: the request a chat
names is its own, under its own revision, by an author it accepts, without a reply, and not obsolete. `ChainInv` says
what a job may count on at the await it is at, such as that a request has no run before its admission. `SendInv` says that
the reply in flight is marked unknown and has crossed only if it is at the socket, and `DownInv` that a dead process
leaves nothing in memory. `NoStrayRun` is inductive beside them because whoever lets go of a request has called the
cancellation of its run in the same step (`LetsGo`).

*The hypotheses* of the last four theorems are what the code relies on; section 5 shows what happens without
them. `TablesAgree`: a crash between the two writes of OFF or of a removal leaves a request active that no chat
names. `NoReplay`: a request that waits for its identity lookup is not read again, so what a removal has cancelled
beside the chain begins after all when the chat is added again; the extra invariant `LookedUp` says that nothing else
cancels what is looked up. `OneChatOfAConversation`: a chat whose lookup fails looks alone. `NoSecondRequest`: a
correction waits for the run it corrects and is then queued without another look at the mark of its message
(`coordinator.ts:99-156`), and the wait holds the chain of one chat only. With one identity the chain protects
it, and tasks mark their message in the step that looks at the mark.

*Only model-checked*: `TurnsSettle`, `OutboxDrains`, `StopsComplete`, `Answered`, `Posted`, `EverythingEnds`,
`RunsMoveOn`, `DisposeEnds` (liveness under fairness, out of the prover's reach); the properties of the two findings,
which do not hold; `PendingIsAuthorized` where changes are torn, which fails;
`Agreement`, `NothingReplayed`, `EquivalentExclusive` and `OneRequestPerMessage` without the hypotheses above, which
fail. `CollaborationStore`, `TurnQueue` and
`WorkflowGraph` are proved about in the modules that use them.

## 5. Findings

Two runs end with a counterexample:

1. `OneRun`. The write of the end of a workflow run frees the workflow (`persistRunUnlocked`,
   `workflow-manager.ts:954`), and so does the `finally` of `executeRun` (line 809). A second run may begin between
   the two; the second release then lets a third one in, which runs beside it. Two tests say that only one run
   executes (`test/main/workflow-manager-behavior.test.mjs:371`,
   `test/main/workflow-revisions-and-review-behavior.test.mjs:476`).
2. `StepIsAlone`. `retryRunOperation` starts any failed run that called nothing with `startRun`
   (`workflow-manager.ts:399`). The retry of a step that failed while the apps were looked at runs the whole
   workflow; the comment of `runNode` (line 403) says that a single node runs in isolation.

Further disagreements and gaps met while reading and modelling. Those that name a run can be seen by changing it as
described; the others are outside of what the modules state.

*Repository collaboration*

- *Activation and the roster.* `docs/repository-collaboration.md:7` says only
  messages newer than the group's activation are eligible. The time is compared before
  the roster lookup and not after it (`service.ts:419`): a message that waits while its
  group is paused and enabled becomes work of the later activation.
- *Retries and the queue limit.* The same line says each group
  accepts at most 100 queued turns. `acceptMessage` counts them, `retryTask`
  (`service.ts:329`) does not.
- *A crash inside an owner change.* What it should have suppressed waits after the restart until the delivery comes to it.
  With a torn change in `AccessLimit`, `PendingIsAuthorized` fails; nothing of it reaches the socket
  (`SocketIsAuthorized`).

*WhatsApp agent channel*

- *A reply in flight.* `whatsapp-channel/store.ts:302` says configuration changes
  revoke pending replies atomically. A reply in flight is marked unknown and is not
  withdrawn; a transient failure makes it pending again (`outbox.ts:82-91`), and it is
  sent under the new configuration.
- *A process that does not exit.* `putBinding` waits for the cancellation of the
  replaced run before it pumps (`whatsapp-channel-service.ts:426`). When the process
  does not exit in time the call fails after its commit, and what is queued waits for
  another event: with `Confirms = {TRUE, FALSE}` in `Replies`, `Answered` fails.
- *Removed and added again.* `pump` keeps the row of a request over the identity lookup and
  `activateRequest` does not read its status again (`coordinator.ts:187`): a request
  cancelled by the removal of its chat becomes active when the chat is added again
  meanwhile. With two edits in `CrashLimit`, `NothingReplayed` fails.
  `docs/whatsapp-agent-channels.md:19` says that a removal cancels queued requests.
- *A crash inside OFF.* `changeEnabled` clears the active turn of the chat in one write
  and retires the request in the next (`coordinator.ts:292`); the recovery looks only
  at requests a chat names. With a torn operation in `ChatLimit`, `Agreement` fails and
  the request stays active. `docs/whatsapp-agent-channels.md:31` says that runs that
  lost their process become interrupted.
- *A failed identity lookup.* `resolveIdentityIds` then answers the chat alone
  (`coordinator.ts:170`). With `Lookups = {TRUE, FALSE}` in `Names`,
  `EquivalentExclusive` fails. `docs/whatsapp-channel-validation.md:36` says that
  two activations cannot both succeed.
- *A correction that comes twice.* It waits for the run it corrects while its message is only claimed, and
  a claim does not keep a copy out (`store.ts:402`). If the chat is paused during that wait, its other identity is switched
  on and takes a task, and the correction is notified again, it corrects that task as well and becomes two
  requests. `OneRequestPerMessage` fails in `Names` with a task under each name, a correction, an edit, two
  switches, four messages and four requests, after 26 steps (no outage is needed).
  `docs/whatsapp-channel-validation.md:36` says that equivalent message copies do not duplicate execution.

*Conversations, routines and wakeups*

- *Runs that outlive the program's memory.* Only the channel ends the runs it finds at a start. The row of a run
  of any other conversation stays queued or running (`agent-store.ts:831`), so the conversation is busy for good, and
  its routine skips every later occurrence.
- *Wakeups that are lost.* `fireWakeup` marks the wakeup fired before its message is sent
  (`agent-routine-manager.ts:394`). In a voice conversation or one between agents the message is refused, and behind
  another message that was admitted first it finds the conversation busy; nothing tries again.
- *Lingering processes.* A cancellation whose process does not exit within four seconds fails, and the next message is
  admitted beside that process. It may still ask for a wakeup while the message waits for the runtime. `OneAtATime`
  and `Quiet` except these runs by name (`lingering`).
- *The running flag.* An occurrence that is skipped because the conversation is busy also clears the flag of the run
  that goes on (the flag is shown, no code reads it back).

*Workflows*

- *Interrupted runs.* A restart ends the run the workflow shows last, `lastRun`. When a skipped record was written
  during the run, that record is last, and the interrupted run stays running in the history. So does a run that the
  program dies in the middle of ending: `persistRunUnlocked` writes first that the workflow is free and the run over
  (`workflow-manager.ts:964`), then the record (965), and a restart looks at the former (`Torn`; `ShownIsLive` speaks
  of what the workflow shows).
- *Deleted while prepared.* `cancelPreparedRun` writes `running: false` for a workflow that was deleted meanwhile.
- *Applying a revision without a schedule* to an enabled workflow leaves it enabled, with a next instant and no timer.
- *Steps that ask.* The comment of `runNode` says that approvals are bypassed; an app action asks in a step too, as
  `docs/workflow-app-action-contract.md` wants (`CallsApproved` states the latter).
- *Processes of agent steps.* A process that is being started when its run is cancelled is registered afterwards
  (`workflow/node-runtime.ts:802`).
- *Failing writes.* A write of a node's progress that fails again in the handler of its own failure ends the run as failed
  while other nodes of it go on (`workflow-manager.ts:752`); the model has no failing writes.

## 6. What is left out

Of repository collaboration: the grammar of commands (a message is a parsed
record), wording, the content of notices (only full or notice is kept), the checks of a
folder on disk (they succeed or fail), the arguments and output of Codex, the
activity log, the participant directory, image attachments, and connection and executor
identifiers (one of each). None of them changes which task runs or which output
is sent, except by failing, and failing is modelled.

Of the channel: the grammar of messages, the text and the chunks of a reply, quoted
context, grants of connections and file folders, capabilities, migrations of the
schema, the list of candidates and previews for the settings, the activity list, and
approvals inside a run. A run is external: it is admitted behind the lock of its
conversation, ends in one of three ways and can be cancelled. The purpose of a chat is
taken to be set, and times (retry delays, expiry) are not modelled.

Of conversations: what is said (messages, prompts, progress, activity, memories, approvals inside of a run), provider
threads, forks, archiving and deletion of agents and conversations, groups and spawned agents. Of routines: the
arithmetic of schedules and windows (an occurrence that is due is run or missed, both are possible) and the journal of
routine runs, which no code reads back to decide. One conversation is enough for what is checked, since a lock
belongs to a conversation and a routine to one; what crosses conversations (a peer that waits for its answer, depth
limits of delegation) is not modelled.

Of workflows: loops over items (`forEach`), the text of conditions and templates, what a tool or provider answers,
the processes of agent steps, writes that fail, a crash between the writes of
one operation (but for the two that end a run: `Torn`), the rollback of the feature controller, and the pure code of
sanitizing, output schemas and legacy definitions. Other workflows share nothing with this one but the files they are
written to.

The other components are listed in `PROJECT.json` with the reason or their place
in the plan. Most of the repository by size is the renderer, translations, request handlers and clients of services
outside of it: what they do is I/O and presentation, with the state behind the components above.

## 7. Plan

In this order; each module gets an MC module, runs and mutants like the ones above.

Done: `RepositoryCollaboration` with the refinement of `TurnQueue`, `WhatsAppAgentChannel`, `WorkflowGraph` and
`WorkflowRuns`, `PersonalAgents`, with TLC and with the proofs of their safety properties.

1. **`Peers`**: several conversations that ask each other, to see that nobody waits in a circle; the channel on top of
   `PersonalAgents` instead of its external runs.
2. **`Automations`**, with the schedule of `WorkflowRuns`.
3. **`InstalledApps`**: lifecycle operations against running processes.
4. Small modules: workspace locks of the provider runs, updater states, ownership of the
   microphone, and intersection of channel grants as a pure operator.

Every safety property that a passing run checks is stated by a theorem. Proofs to add: that the runs of `PersonalAgents`
satisfy what `WhatsAppAgentChannel` assumes of them.
