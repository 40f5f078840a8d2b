----------------------- MODULE RepositoryCollaboration -----------------------
(***************************************************************************)
(* src/main/repository-collaboration/service.ts: people of a WhatsApp      *)
(* group ask for work on linked repositories, turns queue up behind folder *)
(* locks, Codex runs them, and the outbox carries the answers back.        *)
(*                                                                         *)
(* The program is one JavaScript thread, so the code between two awaits is *)
(* one step.  What is in flight over an await is volatile state: a run     *)
(* (exec), the message being accepted (intake), owner calls waiting for    *)
(* the roster (enabling, retrying) and the delivery of the outbox (flush). *)
(* The roster itself belongs to WhatsApp: any lookup may answer anything,  *)
(* or fail.                                                                *)
(***************************************************************************)
EXTENDS CollaborationStore

CONSTANTS
  SelfIds,              \* identities of the linked account itself
  Messages,             \* commands people may send: see the record below
  MaxQueuedPerGroup,    \* MAX_QUEUED_PER_GROUP
  MaxReposPerTask,      \* repositories one instruction may select
  MaxSendAttempts,      \* attempts of the transport while WhatsApp asks to wait
  Online,               \* FALSE: the roster lookup of a delivery never answers
  InitiallyEnabled,     \* groups the owner has already activated
  InitiallyLinked,      \* repositories already linked
  InitialGrants,        \* grants already given
  Limit                 \* bounds: how often each kind of event happens

Budget == {"changes",     \* owner changes to groups, repositories and grants
           "cancels",     \* owner or roster cancellations
           "retries",     \* owner retries
           "deliveries",  \* notifications of a message (a message may come twice)
           "outages",     \* stops and crashes of the program
           "torn"}        \* crashes between two writes of one owner change

(* A parsed command.  names: the repositories it selects, {} when it names   *)
(* none; target: the task it names ("#id") or replies to, 0 for none; epoch: *)
(* how many times its group had been activated when it was sent.             *)
WellFormed(m) ==
  /\ m.group \in Groups /\ m.sender \in Participants
  /\ m.kind \in {"work", "status", "cancel"}
  /\ m.names \in SUBSET {r \in Repos : HomeGroup[r] = m.group}
  /\ m.target \in 0..MaxTasks /\ m.reply \in BOOLEAN
  /\ m.kind # "work" => m.target # 0 /\ ~m.reply
  /\ m.epoch \in Nat

ASSUME ServiceAssumption ==
  /\ SelfIds \subseteq Participants
  /\ \A m \in Messages : WellFormed(m)
  /\ MaxQueuedPerGroup \in Nat \ {0}
  /\ MaxReposPerTask \in Nat \ {0}
  /\ MaxSendAttempts \in Nat \ {0}
  /\ Online \in BOOLEAN
  /\ InitiallyEnabled \subseteq Groups
  /\ InitiallyLinked \subseteq Repos
  /\ InitialGrants \in [Participants -> SUBSET InitiallyLinked]
  /\ Limit \in [Budget -> Nat]

VARIABLES
  phase,     \* "down", "up", or "stopping": stop() is draining
  exec,      \* task |-> where its execute() waits; not "idle": an entry of active
  intake,    \* the message acceptMessage waits with, and the grants it read
  enabling,  \* groups with an enable call waiting for the roster
  retrying,  \* tasks with a retry call waiting for the roster
  flush,     \* where deliverOutbox() waits
  used       \* budget |-> events of that kind so far

serviceVars == <<phase, exec, intake, enabling, retrying, flush, used>>
vars == <<storeVars, serviceVars>>

ExecStep == {"idle", "member", "validate", "run", "remember"}
FlushStep == {"idle", "roster", "throttle", "manager", "wire"}

NoIntake == [message |-> None, granted |-> {}]
NoFlush == [at |-> "idle", cur |-> 0, rest |-> {}, failed |-> {}, full |-> FALSE, tries |-> 0]

Spend(kind) ==
  /\ used[kind] < Limit[kind]
  /\ used' = [used EXCEPT ![kind] = @ + 1]

Active == {t \in TaskId : exec[t] # "idle"}

(* The AbortController of a run is only aborted by cancel, which also marks  *)
(* the task, and by stop.                                                    *)
Aborted(t) == status[t] = "cancelling" \/ phase # "up"

Init ==
  /\ enabled = [g \in Groups |-> g \in InitiallyEnabled]
  /\ activatedAt = [g \in Groups |-> IF g \in InitiallyEnabled THEN 1 ELSE 0]
  /\ repository = [r \in Repos |-> IF r \in InitiallyLinked THEN "linked" ELSE "unlinked"]
  /\ grants = InitialGrants
  /\ task = [t \in TaskId |-> NoTask]
  /\ status = [t \in TaskId |-> "absent"]
  /\ outbox = <<>>
  /\ receipts = {}
  /\ phase = "down"
  /\ exec = [t \in TaskId |-> "idle"]
  /\ intake = NoIntake
  /\ enabling = {}
  /\ retrying = {}
  /\ flush = NoFlush
  /\ used = [k \in Budget |-> 0]

-----------------------------------------------------------------------------
(***************************************************************************)
(* cancel(): the task, and down its conversation the turns that depend on  *)
(* it, as long as each is still queued or running.                         *)
(***************************************************************************)

(* The tasks of Q reached from S going down conversations inside Q; after. *)
Below(S, Q) ==
  {t \in Q : t \in S \/ \E a \in task'[t].chain \cap S : \A b \in task'[t].chain : b > a => b \in Q}

Live(st) == {t \in TaskId : st[t] \in {"queued", "running"}}

Hit(st, roots) == Below(roots \cap Live(st), Live(st))

Cancelled(st, ex, hit) ==
  [t \in TaskId |-> IF t \in hit THEN IF ex[t] = "idle" THEN "cancelled" ELSE "cancelling" ELSE st[t]]

(***************************************************************************)
(* pump(), after: what is queued and not reserved is cancelled when its    *)
(* author lost a grant, sent to review when an earlier turn failed, and    *)
(* otherwise reserves its folders when nothing that overlaps them is       *)
(* reserved.  Tasks are visited in the order they were created.            *)
(***************************************************************************)

Dead == {"failed", "cancelled", "cancelling", "needs_attention"}

Waiting(st, ex) == {t \in TaskId : st[t] = "queued" /\ ex[t] = "idle"}

Denied(st, ex) == {t \in Waiting(st, ex) : ~AllowedAfter(t)}

Stuck(st, ex) ==
  Below(Denied(st, ex) \cup {t \in TaskId : st[t] \in Dead},
        Waiting(st, ex)) \ Denied(st, ex)

(* mutant of Ready: the turn before is not waited for *)
AnyTurn(st, ex) == Waiting(st, ex) \ Denied(st, ex)

Ready(st, ex) ==
  {t \in Waiting(st, ex) \ Denied(st, ex) : task'[t].parent # 0 => st[task'[t].parent] = "completed"}

(* Tasks whose pending outputs pump suppresses: those it cancels. *)
Fallen(st, ex) == IF phase' = "up" THEN Below(Denied(st, ex), Waiting(st, ex)) ELSE {}

(* first come, first served, as far as the folders allow *)
Starts(S, st, ex) ==
  \A t \in Ready(st, ex) :
    t \in S <=> ~ \E u \in TaskId : /\ ex[u] # "idle" \/ (u \in S /\ u < t)
                                   /\ Conflict(task'[t].repos, task'[u].repos)

Pump(st, ex) ==
  IF phase' # "up"
  THEN status' = st /\ exec' = ex
  ELSE /\ status' = [t \in TaskId |-> IF t \in Denied(st, ex) THEN "cancelled"
                                      ELSE IF t \in Stuck(st, ex) THEN "needs_attention" ELSE st[t]]
       /\ \E S \in SUBSET Ready(st, ex) :
            /\ Starts(S, st, ex)
            /\ exec' = [t \in TaskId |-> IF t \in S THEN "member" ELSE ex[t]]

-----------------------------------------------------------------------------
(***************************************************************************)
(* flushOutbox() and the loop of deliverOutbox(): one delivery at a time,  *)
(* over the outputs that were pending when it began.                       *)
(***************************************************************************)

(* The loop refuses an output before it asks for the roster; after. *)
Refused(o) ==
  \/ ~enabled'[o.group]
  \/ o.task # 0 /\ (~AllowedAfter(o.task) \/ status'[o.task] \in {"cancelled", "cancelling"})
  \/ GrantedAfter(o.group, o.to) = {}

(* The loop goes on with the outputs in rest, leaving alone the groups a      *)
(* send has failed for; it suppresses what it refuses and waits at the next   *)
(* output it does not; after.                                                 *)
Scan(rest, failed, out) ==
  LET open == {i \in rest : out[i].group \notin failed}
      taken == {i \in open : ~Refused(out[i])}
  IN IF phase' # "up"
     THEN outbox' = out /\ flush' = NoFlush
     ELSE /\ outbox' = Suppress(out, {i \in open \ taken : \A j \in taken : i < j})
          /\ \/ taken = {} /\ flush' = NoFlush
             \/ \E i \in taken :
                  /\ \A j \in taken : i <= j
                  /\ flush' = [at |-> "roster", cur |-> i, rest |-> {j \in rest : j > i},
                               failed |-> failed, full |-> FALSE, tries |-> 0]

StartFlush(table) ==
  \E out \in {table} :
    IF flush.at # "idle" \/ phase' # "up"
    THEN outbox' = out /\ flush' = flush
    ELSE Scan({i \in DOMAIN out : out[i].state = "pending"}, {}, out)

-----------------------------------------------------------------------------
(***************************************************************************)
(* Start, stop, crash, timer.                                              *)
(***************************************************************************)

configVars == <<enabled, activatedAt, repository, grants>>

(* start(): recoverInterrupted, then pump and flush. *)
Start ==
  /\ phase = "down"
  /\ phase' = "up"
  /\ UNCHANGED <<configVars, task, receipts, intake, enabling, retrying, used>>
  /\ Pump(Recovered, exec)
  /\ StartFlush(Suppress(RecoveredOutbox, OutputsOf(outbox, Fallen(Recovered, exec))))

(* stop(): no more intake, every run is told to abort, and a run that had    *)
(* begun is left for review.  It then waits for what is in flight.           *)
Stop ==
  /\ phase = "up"
  /\ Spend("outages")
  /\ phase' = "stopping"
  /\ status' = SetStatus(status, {t \in Active : status[t] = "running"}, "needs_attention")
  /\ UNCHANGED <<configVars, task, outbox, receipts, exec, intake, enabling, retrying, flush>>

(* The drain is over; the database closes under the calls still waiting. *)
Stopped ==
  /\ phase = "stopping"
  /\ Active = {} /\ intake = NoIntake /\ flush = NoFlush
  /\ phase' = "down"
  /\ enabling' = {} /\ retrying' = {}
  /\ UNCHANGED <<storeVars, exec, intake, flush, used>>

(* The process dies: all that is left is the database. *)
Die ==
  /\ phase' = "down"
  /\ exec' = [t \in TaskId |-> "idle"]
  /\ intake' = NoIntake
  /\ enabling' = {} /\ retrying' = {}
  /\ flush' = NoFlush

Crash ==
  /\ phase # "down"
  /\ Spend("outages")
  /\ Die
  /\ UNCHANGED storeVars

(* mutants of Tick: the timer only flushes; it only pumps *)
TickFlushes ==
  /\ phase = "up"
  /\ UNCHANGED <<configVars, task, receipts, phase, intake, enabling, retrying, used, status, exec>>
  /\ StartFlush(outbox)

TickPumps ==
  /\ phase = "up"
  /\ UNCHANGED <<configVars, task, receipts, phase, intake, enabling, retrying, used, outbox, flush>>
  /\ Pump(status, exec)

(* The ten-second timer: pump and flush. *)
Tick ==
  /\ phase = "up"
  /\ UNCHANGED <<configVars, task, receipts, phase, intake, enabling, retrying, used>>
  /\ Pump(status, exec)
  /\ StartFlush(Suppress(outbox, OutputsOf(outbox, Fallen(status, exec))))

-----------------------------------------------------------------------------
(***************************************************************************)
(* cancelUnauthorized() after an owner change, then pump() when the        *)
(* operation ends with it.  out: the outbox as the operation left it.      *)
(***************************************************************************)

(* mutant of Unauthorized: running work goes on *)
UnauthorizedQueued(st) == Hit(st, {t \in Live(st) : st[t] = "queued" /\ ~AllowedAfter(t)})

Unauthorized(st) == Hit(st, {t \in Live(st) : ~AllowedAfter(t)})

(* mutant of UnauthorizedOutputs: the grants of the author are not read *)
UnreadableOutputs(out) ==
  {i \in DOMAIN out : ~enabled'[out[i].group] \/ GrantedAfter(out[i].group, out[i].to) = {}}

UnauthorizedOutputs(out) ==
  {i \in DOMAIN out : \/ ~enabled'[out[i].group]
                      \/ GrantedAfter(out[i].group, out[i].to) = {}
                      \/ out[i].task # 0 /\ ~AllowedAfter(out[i].task)}

CancelUnauthorized(out) ==
  Suppress(out, OutputsOf(out, Unauthorized(status)) \cup UnauthorizedOutputs(out))

Settle(out, pumps) ==
  LET st == Cancelled(status, exec, Unauthorized(status))
  IN /\ IF pumps THEN Pump(st, exec) ELSE status' = st /\ exec' = exec
     /\ outbox' = CancelUnauthorized(out)
     /\ UNCHANGED <<phase, intake, retrying, flush>>

(* An owner change writes the configuration and then settles, unless the     *)
(* program dies in between.  out: the outbox as the change leaves it; calls: *)
(* the enable calls still waiting.                                           *)
OwnerChange(out, pumps, calls) ==
  /\ phase # "down"
  /\ UNCHANGED <<task, receipts>>
  /\ \/ /\ Spend("changes")
        /\ enabling' = calls
        /\ phase' = phase
        /\ Settle(out, pumps)
     \/ /\ Spend("torn")
        /\ Die
        /\ UNCHANGED <<status, outbox>>

(* configureGroup with enabled = false. *)
Pause(g) ==
  /\ enabled[g]
  /\ enabled' = [enabled EXCEPT ![g] = FALSE]
  /\ UNCHANGED <<activatedAt, repository, grants>>
  /\ OwnerChange(outbox, TRUE, enabling)

(* configureGroup with enabled = true reads the grants, then waits for the   *)
(* roster ...                                                                *)
BeginEnable(g) ==
  /\ phase # "down"
  /\ g \notin enabling
  /\ used["changes"] < Limit["changes"]
  /\ \E p \in Participants : Granted(g, p) # {}
  /\ enabling' = enabling \cup {g}
  /\ UNCHANGED <<storeVars, phase, exec, intake, retrying, flush, used>>

(* ... and writes when somebody it read a grant of is in the roster.         *)
FinishEnable(g) ==
  /\ g \in enabling
  /\ enabled' = [enabled EXCEPT ![g] = TRUE]
  /\ activatedAt' = [activatedAt EXCEPT ![g] = IF enabled[g] THEN @ ELSE @ + 1]
  /\ UNCHANGED <<repository, grants>>
  /\ OwnerChange(outbox, TRUE, enabling \ {g})

RefuseEnable(g) ==
  /\ g \in enabling
  /\ enabling' = enabling \ {g}
  /\ UNCHANGED <<storeVars, phase, exec, intake, retrying, flush, used>>

(* addRepository: a folder is linked to a group once.  No other table moves. *)
AddRepository(r) ==
  /\ phase # "down"
  /\ repository[r] = "unlinked"
  /\ \A s \in Linked(HomeGroup[r]) : Root[s] # Root[r]
  /\ repository' = [repository EXCEPT ![r] = "linked"]
  /\ Spend("changes")
  /\ UNCHANGED <<enabled, activatedAt, grants, task, status, outbox, receipts,
                 phase, exec, intake, enabling, retrying, flush>>

(* removeRepository: it does not pump. *)
RemoveRepository(r) ==
  /\ repository[r] = "linked"
  /\ repository' = [repository EXCEPT ![r] = "removed"]
  /\ grants' = [p \in Participants |-> grants[p] \ {r}]
  /\ UNCHANGED <<enabled, activatedAt>>
  /\ OwnerChange(outbox, FALSE, enabling)

(* setAccess.  Granting waits for the roster first but reads nothing before  *)
(* the wait.  An output is suppressed when its reader loses a grant, or when *)
(* anybody loses a grant its task needs.                                     *)
RevokedOutputs(g, p, removed) ==
  {i \in DOMAIN outbox :
     /\ removed # {} /\ outbox[i].group = g
     /\ \/ outbox[i].to = p
        \/ outbox[i].task # 0 /\ task[outbox[i].task].repos \cap removed # {}}

SetAccess(g, p, R) ==
  /\ R # Granted(g, p)
  /\ grants' = [grants EXCEPT ![p] = {r \in @ : HomeGroup[r] # g} \cup R]
  /\ UNCHANGED <<enabled, activatedAt, repository>>
  /\ OwnerChange(Suppress(outbox, RevokedOutputs(g, p, Granted(g, p) \ R)), TRUE, enabling)

-----------------------------------------------------------------------------
(***************************************************************************)
(* cancelTask, retryTask, refreshMembership.                               *)
(***************************************************************************)

(* cancel(t), which does not pump: folders are released when the run ends.   *)
CancelTurn(t) ==
  LET hit == Hit(status, {t})
  IN /\ status' = Cancelled(status, exec, hit)
     /\ outbox' = Suppress(outbox, OutputsOf(outbox, hit))

cancelFrame == <<configVars, task, receipts, phase, exec, intake, enabling, retrying, flush>>

CancelTask(t) ==
  /\ phase # "down" /\ t \in Live(status)
  /\ Spend("cancels")
  /\ UNCHANGED cancelFrame
  /\ CancelTurn(t)

(* refreshMembership, started by the timer for a running task: the author is *)
(* no longer in the roster, or the roster cannot be read.                    *)
RefreshMembership(t) ==
  /\ phase = "up" /\ status[t] = "running"
  /\ Spend("cancels")
  /\ UNCHANGED cancelFrame
  /\ CancelTurn(t)

(* Bound: every call that waits to create a task finds a free row. *)
Room == Cardinality(FreeId) > Cardinality(retrying) + (IF intake = NoIntake THEN 0 ELSE 1)

(* retryTask checks the task, then waits for the roster ...                  *)
BeginRetry(t) ==
  /\ phase # "down" /\ Room
  /\ status[t] \in {"failed", "cancelled", "needs_attention"}
  /\ t \notin retrying
  /\ Allowed(t)
  /\ Spend("retries")
  /\ retrying' = retrying \cup {t}
  /\ UNCHANGED <<storeVars, phase, exec, intake, enabling, flush>>

(* ... and queues a fresh turn for the same request, outside its             *)
(* conversation, without looking at the task or the queue again.             *)
FinishRetry(t) ==
  /\ t \in retrying
  /\ retrying' = retrying \ {t}
  /\ UNCHANGED <<configVars, receipts, phase, intake, enabling, flush, used>>
  /\ \E n \in TaskId :
       LET st == [status EXCEPT ![n] = "queued"]
       IN /\ CreateTask(n, NewTask(task[t].group, task[t].author, task[t].repos, 0, task[t].source))
          /\ Pump(st, exec)
          /\ outbox' = Suppress(outbox, OutputsOf(outbox, Fallen(st, exec)))

RefuseRetry(t) ==
  /\ t \in retrying
  /\ retrying' = retrying \ {t}
  /\ UNCHANGED <<storeVars, phase, exec, intake, enabling, flush, used>>

-----------------------------------------------------------------------------
(***************************************************************************)
(* execute(): from the reservation to its release.                         *)
(***************************************************************************)

execFrame == <<configVars, task, receipts, phase, intake, enabling, retrying, used>>

(* The finally block: a cancelled run has stopped, the folders are free,     *)
(* and the queue moves.                                                      *)
Release(t, st) ==
  Pump([st EXCEPT ![t] = IF @ = "cancelling" THEN "cancelled" ELSE @],
       [exec EXCEPT ![t] = "idle"])

(* mutant of Return: no finally block *)
ReturnHolding(t) == UNCHANGED <<status, exec, outbox, flush>>

(* return from the try block, with nothing more to say *)
Return(t) ==
  /\ Release(t, status)
  /\ UNCHANGED <<outbox, flush>>

(* The author is not in the roster: cancel, then return. *)
Expelled(t) ==
  LET hit == Hit(status, {t})
  IN /\ Release(t, Cancelled(status, exec, hit))
     /\ outbox' = Suppress(outbox, OutputsOf(outbox, hit))
     /\ flush' = flush

(* An output about t, and the flush that output() begins. *)
Tell(t) == StartFlush(Append(outbox, Output(task[t].group, t, task[t].author)))

(* The catch block, once the membership of the author is verified. *)
Fails(t) ==
  IF Aborted(t) \/ status[t] = "cancelled"
  THEN Return(t)
  ELSE Release(t, [status EXCEPT ![t] = "failed"]) /\ Tell(t)

MayRun(t) == ~Aborted(t) /\ Allowed(t)

(* The first roster lookup.  When it fails nothing has begun: the task stays *)
(* queued for the timer, and pump is not called.                             *)
MemberAnswered(t) ==
  /\ exec[t] = "member"
  /\ UNCHANGED execFrame
  /\ \/ /\ exec' = [exec EXCEPT ![t] = "validate"]
        /\ UNCHANGED <<status, outbox, flush>>
     \/ Expelled(t)
     \/ /\ ~Aborted(t) /\ status[t] = "queued"
        /\ exec' = [exec EXCEPT ![t] = "idle"]
        /\ UNCHANGED <<status, outbox, flush>>
     \/ /\ Aborted(t) \/ status[t] # "queued"
        /\ Fails(t)

(* The folders are what they were when the owner linked them: Codex starts.  *)
Validated(t) ==
  /\ exec[t] = "validate"
  /\ UNCHANGED execFrame
  /\ IF MayRun(t)
     THEN /\ status' = [status EXCEPT ![t] = "running"]
          /\ exec' = [exec EXCEPT ![t] = "run"]
          /\ Tell(t)
     ELSE Return(t)

(* Codex has answered; the author must still be in the group. *)
Executed(t) ==
  /\ exec[t] = "run"
  /\ UNCHANGED execFrame
  /\ IF MayRun(t) /\ status[t] = "running"
     THEN /\ exec' = [exec EXCEPT ![t] = "remember"]
          /\ UNCHANGED <<status, outbox, flush>>
     ELSE Return(t)

(* The second lookup: completion and its output are one transaction. *)
Remembered(t) ==
  /\ exec[t] = "remember"
  /\ UNCHANGED execFrame
  /\ \/ IF MayRun(t) /\ status[t] = "running"
        THEN Release(t, [status EXCEPT ![t] = "completed"]) /\ Tell(t)
        ELSE Return(t)
     \/ Expelled(t)

(* A folder that changed, a failed execution, a failed second lookup. *)
ExecutionFails(t) ==
  /\ exec[t] \in {"validate", "run", "remember"}
  /\ UNCHANGED execFrame
  /\ Fails(t)

-----------------------------------------------------------------------------
(***************************************************************************)
(* acceptMessage().  Messages are accepted one at a time.                  *)
(***************************************************************************)

intakeFrame == <<configVars, phase, enabling, retrying, used>>

(* A notification reaches the service and passes the checks before the       *)
(* roster lookup: the group is on, the message is newer than its activation, *)
(* and the sender has a grant.  One that does not pass changes nothing.      *)
Deliver(m) ==
  /\ phase = "up" /\ intake = NoIntake
  /\ m.kind = "work" => Room
  /\ m.epoch = activatedAt[m.group]
  /\ enabled[m.group]
  /\ Granted(m.group, m.sender) # {}
  /\ Spend("deliveries")
  /\ intake' = [message |-> m, granted |-> Granted(m.group, m.sender)]
  /\ UNCHANGED <<storeVars, phase, exec, enabling, retrying, flush>>

(* The task the message points at: named by id, or whose delivered output it *)
(* replies to; 0 when there is none in this group.                           *)
Pointed(m) ==
  IF /\ m.target # 0
     /\ Exists(m.target) /\ task[m.target].group = m.group
     /\ m.reply => \E i \in OutputsOf(outbox, {m.target}) : outbox[i].state = "sent"
  THEN m.target ELSE 0

(* The sender is in the roster, and nothing they had been granted before the *)
(* lookup is gone after it.                                                  *)
Admitted ==
  LET m == intake.message
  IN /\ intake # NoIntake /\ phase = "up"
     /\ enabled[m.group]
     /\ intake.granted \subseteq Granted(m.group, m.sender)
     /\ Pointed(m) # 0 => task[Pointed(m)].repos \subseteq intake.granted

(* The turn new work is appended to; 0 for a new conversation. *)
IsParent(parent, m) == IF Pointed(m) = 0 THEN parent = 0 ELSE parent \in TaskId /\ IsLatest(parent, Pointed(m))

(* selectRepositories among what the sender was granted; {} is no selection. *)
Selected(m) ==
  IF m.names # {} THEN IF m.names \subseteq intake.granted THEN m.names ELSE {}
  ELSE IF Cardinality(intake.granted) = 1 THEN intake.granted ELSE {}

Selection(parent, m) == IF parent = 0 THEN Selected(m) ELSE task[parent].repos

(* The message gets an explanation instead of a task. *)
Refusal(parent, m) ==
  \/ m.target # 0 /\ ~m.reply /\ Pointed(m) = 0
  \/ parent # 0 /\ status[parent] \in Dead
  \/ Selection(parent, m) = {}
  \/ Cardinality(Selection(parent, m)) > MaxReposPerTask
  \/ QueuedIn(m.group) >= MaxQueuedPerGroup

(* status and cancel commands are answered once. *)
AnswerCommand ==
  LET m == intake.message
      hit == IF m.kind = "cancel" THEN Hit(status, {Pointed(m)}) ELSE {}
  IN /\ Admitted /\ m.kind # "work" /\ Pointed(m) # 0
     /\ Unclaimed(m)
     /\ receipts' = receipts \cup {Receipt(m)}
     /\ intake' = NoIntake
     /\ UNCHANGED <<intakeFrame, task, exec>>
     /\ status' = Cancelled(status, exec, hit)
     /\ StartFlush(Append(Suppress(outbox, OutputsOf(outbox, hit)), Output(m.group, 0, m.sender)))

(* The explanation is not claimed: the same message is explained again. *)
AnswerHelp ==
  LET m == intake.message
  IN /\ Admitted /\ m.kind = "work"
     /\ \E parent \in 0..MaxTasks : IsParent(parent, m) /\ Refusal(parent, m)
     /\ intake' = NoIntake
     /\ UNCHANGED <<intakeFrame, task, status, receipts, exec>>
     /\ StartFlush(Append(outbox, Output(m.group, 0, m.sender)))

(* createTaskForMessage: receipt, task and acknowledgement are one           *)
(* transaction; then flush and pump.                                         *)
AcceptWork ==
  LET m == intake.message
  IN /\ Admitted /\ m.kind = "work"
     /\ Unclaimed(m)
     /\ receipts' = receipts \cup {Receipt(m)}
     /\ intake' = NoIntake
     /\ UNCHANGED intakeFrame
     /\ \E parent \in 0..MaxTasks, n \in TaskId :
          /\ IsParent(parent, m) /\ ~Refusal(parent, m)
          /\ CreateTask(n, NewTask(m.group, m.sender, Selection(parent, m), parent, Receipt(m)))
          /\ Pump([status EXCEPT ![n] = "queued"], exec)
          /\ StartFlush(Append(outbox, Output(m.group, n, m.sender)))

(* The sender is not in the roster, the roster cannot be read, a check after *)
(* the lookup fails, or the message has been answered before.                *)
Ignore ==
  /\ intake # NoIntake
  /\ intake' = NoIntake
  /\ UNCHANGED <<storeVars, phase, exec, enabling, retrying, flush, used>>

-----------------------------------------------------------------------------
(***************************************************************************)
(* deliverOutbox(), one await after the other, with the transport          *)
(* (whatsapp-transport.ts) and the connection it calls.                    *)
(***************************************************************************)

deliveryFrame == <<configVars, task, status, receipts, phase, exec, intake, enabling, retrying, used>>

Current == outbox[flush.cur]

Present(o, people) == o.to \in people /\ (o.task # 0 => task[o.task].author \in people)

(* Everyone else in the roster may see every repository of the task. *)
EveryoneAuthorized(o, people) ==
  o.task # 0 => \A p \in people \ SelfIds : task[o.task].repos \subseteq Granted(o.group, p)

Authorized(o) == enabled[o.group] /\ (o.task # 0 => Allowed(o.task))

(* The roster for the current output: it is suppressed, or handed to the     *)
(* transport in full or as a notice.                                         *)
RosterAnswered ==
  /\ Online /\ flush.at = "roster"
  /\ UNCHANGED deliveryFrame
  /\ \E people \in SUBSET Participants :
       IF Present(Current, people) /\ Authorized(Current)
       THEN /\ flush' = [flush EXCEPT !.at = "throttle", !.tries = 1,
                                      !.full = EveryoneAuthorized(Current, people)]
            /\ outbox' = outbox
       ELSE Scan(flush.rest, flush.failed, Suppress(outbox, {flush.cur}))

(* mutant of CanSend: the output is not read again *)
CanSendSuppressed(people) ==
  /\ phase = "up" /\ Authorized(Current) /\ Present(Current, people)
  /\ flush.full => EveryoneAuthorized(Current, people)

(* canSend, at its last check: the roster it read is people. *)
CanSend(people) ==
  /\ phase = "up"
  /\ Current.state = "pending"
  /\ Authorized(Current)
  /\ Present(Current, people)
  /\ flush.full => EveryoneAuthorized(Current, people)

(* The pause between sends is over and canSend agrees: the connection is     *)
(* called.                                                                   *)
Throttled ==
  /\ Online /\ flush.at = "throttle"
  /\ \E people \in SUBSET Participants : CanSend(people)
  /\ flush' = [flush EXCEPT !.at = "manager"]
  /\ UNCHANGED <<outbox, deliveryFrame>>

(* WhatsApp asks to wait: the transport tries again, from its pause. *)
RateLimited ==
  /\ flush.at = "manager" /\ flush.tries < MaxSendAttempts
  /\ flush' = [flush EXCEPT !.at = "throttle", !.tries = @ + 1]
  /\ UNCHANGED <<outbox, deliveryFrame>>

(* The connection asks canSend once more and writes to the socket. *)
Sends ==
  /\ flush.at = "manager"
  /\ \E people \in SUBSET Participants : CanSend(people)
  /\ flush' = [flush EXCEPT !.at = "wire"]
  /\ UNCHANGED <<outbox, deliveryFrame>>

(* WhatsApp acknowledges; a row suppressed meanwhile stays suppressed. *)
Sent ==
  /\ flush.at = "wire"
  /\ UNCHANGED deliveryFrame
  /\ Scan(flush.rest, flush.failed, UpdateOutputs(outbox, {flush.cur}, "sent"))

(* mutant of DeliveryFails: the group is not held back *)
DeliveryFailsAlone ==
  /\ Online /\ flush.at # "idle"
  /\ UNCHANGED deliveryFrame
  /\ Scan(flush.rest, flush.failed, outbox)

(* A lookup failed, canSend refused, or the send did: the output stays       *)
(* pending and the rest of its group waits for the next flush.               *)
DeliveryFails ==
  /\ Online /\ flush.at # "idle"
  /\ UNCHANGED deliveryFrame
  /\ Scan(flush.rest, flush.failed \cup {Current.group}, outbox)

-----------------------------------------------------------------------------
Lifecycle == Start \/ Stop \/ Stopped \/ Crash \/ Tick

Owner ==
  \/ \E g \in Groups : Pause(g) \/ BeginEnable(g) \/ FinishEnable(g) \/ RefuseEnable(g)
  \/ \E r \in Repos : AddRepository(r) \/ RemoveRepository(r)
  \/ \E g \in Groups, p \in Participants : \E R \in SUBSET Linked(g) : SetAccess(g, p, R)
  \/ \E t \in TaskId : CancelTask(t) \/ BeginRetry(t) \/ FinishRetry(t) \/ RefuseRetry(t)

Execution ==
  \E t \in TaskId : \/ MemberAnswered(t) \/ Validated(t) \/ Executed(t) \/ Remembered(t)
                    \/ ExecutionFails(t) \/ RefreshMembership(t)

Intake == (\E m \in Messages : Deliver(m)) \/ AnswerCommand \/ AnswerHelp \/ AcceptWork \/ Ignore

Delivery == RosterAnswered \/ Throttled \/ RateLimited \/ Sends \/ Sent \/ DeliveryFails

Next == Lifecycle \/ Owner \/ Execution \/ Intake \/ Delivery

Spec == Init /\ [][Next]_vars

(***************************************************************************)
(* Fairness.  The owner restarts the program, the timer of the service     *)
(* fires, and what a step waits for ends: lookups and folder checks        *)
(* answer, Codex is stopped after 30 minutes at most, or 5 without output  *)
(* (codex-executor.ts:366).  WhatsApp may fail any number of times, but    *)
(* not for ever: a lookup or a send that is tried again and again succeeds *)
(* in the end.                                                             *)
(***************************************************************************)

RunAdvances(t) ==
  MemberAnswered(t) \/ Validated(t) \/ Executed(t) \/ Remembered(t) \/ ExecutionFails(t)

MemberConfirmed(t) == MemberAnswered(t) /\ exec'[t] = "validate"

IntakeAdvances == AnswerCommand \/ AnswerHelp \/ AcceptWork \/ Ignore

Fairness ==
  /\ WF_vars(Start) /\ WF_vars(Tick) /\ WF_vars(Stopped)
  /\ WF_vars(IntakeAdvances)
  /\ WF_vars(Delivery)
  /\ \A t \in TaskId : WF_vars(RunAdvances(t)) /\ SF_vars(MemberConfirmed(t))
  /\ SF_vars(RosterAnswered) /\ SF_vars(Throttled) /\ SF_vars(Sends) /\ SF_vars(Sent)

FairSpec == Spec /\ Fairness

-----------------------------------------------------------------------------
(***************************************************************************)
(* What the operations promise together.                                   *)
(***************************************************************************)

TaskRow ==
  [group : Groups \cup {None}, author : Participants \cup {None}, repos : SUBSET Repos,
   parent : 0..MaxTasks, chain : SUBSET TaskId, source : receipts \cup {None}]

OutputRow ==
  [group : Groups, task : 0..MaxTasks, to : Participants, state : {"pending", "sent", "suppressed"}]

FlushState ==
  [at : FlushStep, cur : Nat, rest : SUBSET Nat, failed : SUBSET Groups, full : BOOLEAN, tries : Nat]

(* Every table and every variable of the service holds a value of its type. *)
TypeOK ==
  /\ enabled \in [Groups -> BOOLEAN]
  /\ activatedAt \in [Groups -> Nat]
  /\ repository \in [Repos -> {"unlinked", "linked", "removed"}]
  /\ grants \in [Participants -> SUBSET Repos]
  /\ task \in [TaskId -> TaskRow]
  /\ status \in [TaskId -> TaskStatus]
  /\ outbox \in Seq(OutputRow)
  /\ phase \in {"down", "up", "stopping"}
  /\ exec \in [TaskId -> ExecStep]
  /\ intake = NoIntake \/ (intake.message \in Messages /\ intake.granted \subseteq Repos)
  /\ enabling \subseteq Groups
  /\ retrying \subseteq TaskId
  /\ flush \in FlushState
  /\ used \in [Budget -> Nat]

(* Two turns never hold a folder and a folder inside it, of one group or of  *)
(* several: pump (service.ts:558-573) compares every candidate with every    *)
(* reservation, and execute releases only in its finally block.              *)
NoOverlap ==
  \A t, u \in Active :
    t # u => \A r \in task[t].repos, s \in task[u].repos : ~IsPrefix(Root[r], Root[s])

(* While the program is up, a task marked running or cancelling still holds  *)
(* its reservation: its folders are not lent to another turn before the run  *)
(* has ended (service.ts:694-699), and no crash, stop or restart leaves a    *)
(* task marked running with nobody running it.                               *)
RunningIsReserved ==
  phase = "up" => \A t \in TaskId : status[t] \in {"running", "cancelling"} => t \in Active

(* A turn of a conversation holds folders, runs or has completed only when   *)
(* the turn before it has completed (service.ts:539-557).                    *)
PredecessorCompleted ==
  \A t \in TaskId :
    /\ t \in Active \/ status[t] \in {"running", "completed"}
    /\ task[t].parent # 0
    => status[task[t].parent] = "completed"

(* Two people who add to one conversation never continue the same turn: a    *)
(* conversation stays a line (service.ts:455-462).                           *)
LinearConversation ==
  \A t, u \in TaskId : task[t].parent # 0 /\ task[t].parent = task[u].parent => t = u

Final == {"completed", "cancelled", "failed", "needs_attention"}

(* What was begun is never queued again, and what has ended stays ended,     *)
(* across stops, crashes, restarts and late answers of the roster: Codex is  *)
(* not run twice for a task (store.ts:348-353, service.ts:282-286).          *)
NothingIsReplayed ==
  [][\A t \in TaskId : /\ status[t] \in {"running", "cancelling"} => status'[t] # "queued"
                       /\ status[t] \in Final => status'[t] = status[t]]_vars

(* While the program is up, whatever is queued or running is work its author *)
(* may still ask for: no pause, revocation, unlinking or crash in the middle *)
(* of one leaves behind a task the owner no longer allows                    *)
(* (service.ts:261-268, 535-538).                                            *)
AuthorizedWork == phase = "up" => \A t \in Live(status) : Allowed(t)

(* A message makes one task at most, however often it is notified and        *)
(* whatever happens between two notifications; only a retry of the owner     *)
(* makes another (store.ts:248-272).                                         *)
MessageWorksOnce ==
  [][\A n \in TaskId : ~Exists(n) /\ Exists(n)' /\ retrying' = retrying
       => \A t \in TaskId : Exists(t) => task[t].source # task'[n].source]_vars

(* An output that waits is one the group may still see: a pause, a           *)
(* revocation, an unlinking or a cancellation silences what was waiting, so  *)
(* that granting again later brings nothing of it back (service.ts:215-229,  *)
(* 269-280, 297-302).                                                        *)
PendingIsAuthorized ==
  phase = "up" =>
    \A i \in DOMAIN outbox :
      outbox[i].state = "pending" =>
        /\ Authorized(outbox[i])
        /\ Granted(outbox[i].group, outbox[i].to) # {}
        /\ outbox[i].task # 0 => status[outbox[i].task] \notin {"cancelled", "cancelling"}

(* Outputs of a group are delivered in the order they were written: one that *)
(* cannot be sent holds back the later ones of its group (service.ts:866).   *)
OrderedDelivery ==
  \A i, j \in DOMAIN outbox :
    /\ i < j /\ outbox[i].group = outbox[j].group
    /\ outbox[j].state = "sent"
    => outbox[i].state # "pending"

(* Nothing goes to the socket for a reader who lost every grant, nor about a *)
(* task that was cancelled, even when that happened after the roster was     *)
(* read or during the pauses of the transport, and even after a crash in the *)
(* middle of the revocation (service.ts:813-861).                            *)
WireIsAuthorized ==
  [][flush.at # "wire" /\ flush'.at = "wire"
       => /\ Granted(Current.group, Current.to) # {}
          /\ Current.task # 0 => status[Current.task] \notin {"cancelled", "cancelling"}]_vars

(* Where a turn is: what was marked running when the program died has ended, *)
(* though only the next start writes it down.                                *)
StageOf(t) ==
  CASE status[t] = "absent" -> "none"
    [] status[t] = "completed" -> "done"
    [] status[t] = "queued" /\ exec[t] = "idle" -> "waiting"
    [] status[t] = "queued" /\ exec[t] # "idle" -> "held"
    [] status[t] = "running" /\ exec[t] # "idle" -> "working"
    [] status[t] \in {"cancelling", "needs_attention"} /\ exec[t] # "idle" -> "stopping"
    [] OTHER -> "ended"

Turns == INSTANCE TurnQueue WITH
  Turn <- TaskId, Folders <- Repos, Path <- Root,
  stage <- [t \in TaskId |-> StageOf(t)],
  folders <- [t \in TaskId |-> task[t].repos],
  after <- [t \in TaskId |-> task[t].parent]

(* Under the roster, the outbox, the owner, cancellations, stops and crashes *)
(* lies a queue of turns: each is worked on at most once, in the order of    *)
(* its conversation, alone in its folders until it has really stopped        *)
(* (service.ts:533-591, 633-699).                                            *)
ImplementsTurnQueue == Turns!Spec

(* Every turn that was accepted ends: nothing waits for ever behind a folder *)
(* lock, a predecessor, an unreachable roster, a stop or a crash             *)
(* (service.ts:71-75, 657-699).                                              *)
TurnsSettle ==
  \A t \in TaskId : status[t] \in {"queued", "running", "cancelling"} ~> status[t] \in Final

(* The outbox is emptied again and again: an output is not forgotten because *)
(* a flush was in flight when it was written, nor because a send failed      *)
(* (service.ts:736-743, 864-867).                                            *)
OutboxDrains == []<>(\A i \in DOMAIN outbox : outbox[i].state # "pending")

(* stop() returns: the drain does not wait for what the stop itself holds up *)
(* (service.ts:80-103).                                                      *)
StopsComplete == phase = "stopping" ~> phase = "down"

=============================================================================
