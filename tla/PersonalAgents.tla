---------------------------- MODULE PersonalAgents ----------------------------
(***************************************************************************)
(* src/main/personal-agents/agent-conversation-manager.ts and              *)
(* agent-routine-manager.ts: one conversation of a personal agent, its     *)
(* runs and the lock they share, the routine and the wakeup that write in  *)
(* it.                                                                     *)
(*                                                                         *)
(* The store is synchronous SQLite behind async functions: an await of it  *)
(* does not let anything else in.  The awaits that wait are steps of their *)
(* own: the lock, the runtime of the agent, the preparation of a run, its  *)
(* process, the exit of a process that was killed.                         *)
(***************************************************************************)
EXTENDS Naturals, Sequences

CONSTANTS
  MaxRuns,   \* bound: rows of personal_agent_runs
  MaxClock,  \* bound: occurrences of the routine that pass
  Starts     \* states to begin in, with what may happen: [origin, left]

Runs == 1..MaxRuns
Origin == {"user", "routine", "sidekick", "whatsapp", "agent"}
Source == {"human", "sidekick", "whatsapp", "agent", "routine", "scheduled_wakeup"}

Budget == {"sends",    \* messages of a person or of another agent
           "stops",    \* cancellations, corrections, revoked network access
           "routines", \* changes and manual starts of the routine
           "wakeups",  \* wakeups the agent asks for, or somebody cancels
           "outages"}  \* the program ends, in order or not

ASSUME AgentAssumption ==
  /\ MaxRuns \in Nat /\ MaxClock \in Nat
  /\ \A s \in Starts : s.origin \in Origin /\ s.left \in [Budget -> Nat]

VARIABLES
  up,       \* the program runs
  origin,   \* of the conversation
  status,   \* run |-> its row, runs in the order they were created
  source,   \* run |-> who wrote its message
  stage,    \* run |-> where executeRun is
  canceledRunIds,
  line,     \* calls that hold or wait for withConversationMutation, in order
  at,       \* what the first of them waits for
  asking,   \* calls of askPeerAgent waiting for the runtime, outside the lock
  lingering, \* runs whose killed process was not seen to exit in time
  routine,  \* its row: [exists, enabled, next], next 0 for none
  timer,    \* the timer of the routine is set
  clock,    \* occurrences that have passed
  wakeup,   \* a wakeup of the conversation is scheduled, and so its timer set
  left,     \* budget |-> events of that kind that may still happen
  occurrence \* history: run |-> occurrence it was started for, 0 for none

runVars == <<status, source, stage, canceledRunIds, occurrence>>
lockVars == <<line, at>>
routineVars == <<routine, timer>>
vars == <<up, origin, runVars, lockVars, asking, lingering, routineVars, clock, wakeup, left>>

Stage == {"none", "queued", "preparing", "launching", "alive", "killed", "finishing", "failing", "done"}
Ended == {"completed", "failed", "canceled"}
RunStatus == {"none", "queued", "running"} \cup Ended

Calls ==
  [op : {"send", "start", "finish", "fail", "cancel", "steer"}, run : Runs \cup {0},
   source : Source, occurrence : 0..MaxClock]

Call(op, r, src, occ) == [op |-> op, run |-> r, source |-> src, occurrence |-> occ]
Send(src, occ) == Call("send", 0, src, occ)

Init ==
  \E s \in Starts :
    /\ up = TRUE /\ origin = s.origin /\ left = s.left
    /\ status = [r \in Runs |-> "none"]
    /\ source = [r \in Runs |-> "human"]
    /\ stage = [r \in Runs |-> "none"]
    /\ occurrence = [r \in Runs |-> 0]
    /\ canceledRunIds = {} /\ lingering = {}
    /\ line = <<>> /\ at = "entry" /\ asking = 0
    /\ routine = [exists |-> s.origin = "routine", enabled |-> TRUE, next |-> 1]
    /\ timer = (s.origin = "routine")
    /\ clock = 0 /\ wakeup = FALSE

-----------------------------------------------------------------------------
(***************************************************************************)
(* Reads.                                                                  *)
(***************************************************************************)

Live(r) == status[r] \in {"queued", "running"}
Used == {r \in Runs : status[r] # "none"}

(* createRun and the conversation look at the newest run only. *)
Busy == \E r \in Used : Live(r) /\ \A q \in Used : q <= r

(* The row after the newest, as long as there is room for one. *)
IsNew(r) == \A q \in Runs : q \in Used <=> q < r

Idle == line = <<>>
Holder == Head(line)
Holds(op) == ~Idle /\ Holder.op = op

Preparing(r) == stage[r] \in {"preparing", "launching"}
HasChild(r) == stage[r] \in {"alive", "killed"}

(* conversationFromRow: the conversations somebody else than the person writes in. *)
ReadOnly == origin \in {"agent", "sidekick", "whatsapp"}

Bypasses(src) == src \in {"sidekick", "whatsapp"}
Scheduled(src) == src \in {"routine", "scheduled_wakeup"}

(* sendMessageInternalUnlocked, before it waits for the runtime *)
Admissible(src) ==
  /\ ReadOnly => Bypasses(src)
  /\ wakeup => Scheduled(src)
  /\ ~Busy

-----------------------------------------------------------------------------
(***************************************************************************)
(* The lock: a call waits behind those that came before it.                *)
(***************************************************************************)

Spend(kind) == left[kind] > 0 /\ left' = [left EXCEPT ![kind] = @ - 1]

Enter(call) == line' = Append(line, call) /\ UNCHANGED at
Leave == line' = Tail(line) /\ at' = "entry"
Wait(place) == at' = place /\ UNCHANGED line

SetStage(r, s) == stage' = [stage EXCEPT ![r] = s]
SetStatus(r, s) == status' = [status EXCEPT ![r] = s]

(* The next occurrence is computed from now, and the timer set for it. *)
Rescheduled(enabled) ==
  /\ routine' = [routine EXCEPT !.enabled = enabled, !.next = IF enabled THEN clock + 1 ELSE 0]
  /\ timer' = enabled

(* mutant of FinishRoutineRun: the timer is set for the occurrence that was *)
FinishAndKeepNext(src) ==
  IF src = "routine" /\ routine.exists
  THEN timer' = routine.enabled /\ UNCHANGED routine
  ELSE UNCHANGED routineVars

(* finishRoutineRun: a routine run has ended or was not admitted. *)
FinishRoutineRun(src) ==
  IF src = "routine" /\ routine.exists THEN Rescheduled(routine.enabled) ELSE UNCHANGED routineVars

(* The end of executeRunSafely: a routine hears of it. *)
Over(r) ==
  /\ SetStage(r, "done")
  /\ canceledRunIds' = canceledRunIds \ {r}
  /\ FinishRoutineRun(source[r])

(* failRun waits for the lock. *)
Fail(r) == SetStage(r, "failing") /\ Enter(Call("fail", r, source[r], 0))

runFrame == <<up, origin, source, occurrence, asking, lingering, clock, wakeup, left>>
callFrame == <<up, origin, asking, clock, wakeup, left>>

-----------------------------------------------------------------------------
(***************************************************************************)
(* Messages.                                                               *)
(***************************************************************************)

(* createRun: a row; executeRun takes the lock after whoever waits for it. *)
Create(r, src, occ, waiting) ==
  /\ IsNew(r)
  /\ SetStatus(r, "queued")
  /\ source' = [source EXCEPT ![r] = src]
  /\ occurrence' = [occurrence EXCEPT ![r] = occ]
  /\ SetStage(r, "queued")
  /\ line' = Append(waiting, Call("start", r, src, 0))

(* sendMessage, sendSidekickMessage, sendWhatsAppMessage *)
Writes(src) ==
  \/ src = "human" /\ origin \in {"user", "routine"}
  \/ src \in {"sidekick", "whatsapp"} /\ origin = src

SendMessage(src) ==
  /\ up /\ Writes(src)
  /\ Spend("sends")
  /\ Enter(Send(src, 0))
  /\ UNCHANGED <<up, origin, runVars, asking, lingering, routineVars, clock, wakeup>>

(* An error of the send: startRoutineRun writes it down, nobody else keeps the message. *)
SendRefused ==
  /\ Holds("send")
  /\ \/ at = "entry" /\ ~Admissible(Holder.source)
     \/ at = "runtime"
  /\ Leave
  /\ FinishRoutineRun(Holder.source)
  /\ UNCHANGED <<callFrame, runVars, lingering>>

SendBegins ==
  /\ Holds("send") /\ at = "entry" /\ Admissible(Holder.source)
  /\ Wait("runtime")
  /\ UNCHANGED <<callFrame, runVars, lingering, routineVars>>

SendAdmitted ==
  /\ Holds("send") /\ at = "runtime" /\ ~Busy
  /\ \E r \in Runs : Create(r, Holder.source, Holder.occurrence, Tail(line))
  /\ at' = "entry"
  /\ UNCHANGED <<callFrame, canceledRunIds, lingering, routineVars>>

(* askPeerAgent: a message of another agent, with the checks but not the lock. *)
AskPeerAgent ==
  /\ up /\ origin = "agent" /\ ~Busy
  /\ Spend("sends")
  /\ asking' = asking + 1
  /\ UNCHANGED <<up, origin, runVars, lockVars, lingering, routineVars, clock, wakeup>>

MayCreate == ~Busy

AskAdmitted ==
  /\ asking > 0 /\ MayCreate
  /\ asking' = asking - 1
  /\ \E r \in Runs : Create(r, "agent", 0, line)
  /\ UNCHANGED <<up, origin, at, canceledRunIds, lingering, routineVars, clock, wakeup, left>>

AskRefused ==
  /\ asking > 0
  /\ asking' = asking - 1
  /\ UNCHANGED <<up, origin, runVars, lockVars, lingering, routineVars, clock, wakeup, left>>

-----------------------------------------------------------------------------
(***************************************************************************)
(* A run.                                                                  *)
(***************************************************************************)

MayStart(r) == status[r] = "queued" /\ r \notin canceledRunIds

StartRun ==
  /\ Holds("start")
  /\ LET r == Holder.run IN
     IF MayStart(r)
     THEN SetStatus(r, "running") /\ SetStage(r, "preparing") /\ UNCHANGED <<canceledRunIds, routineVars>>
     ELSE Over(r) /\ UNCHANGED status
  /\ Leave
  /\ UNCHANGED runFrame

(* Runtime, workspace, prompt: found, or not; a run canceled meanwhile goes no further. *)
PrepareRun(r) ==
  /\ stage[r] = "preparing"
  /\ IF r \in canceledRunIds
     THEN Over(r) /\ UNCHANGED lockVars
     ELSE SetStage(r, "launching") /\ UNCHANGED <<canceledRunIds, lockVars, routineVars>>
  /\ UNCHANGED <<runFrame, status>>

(* The preparation fails, or the provider before it has a process. *)
PreparationFails(r) ==
  /\ Preparing(r)
  /\ Fail(r)
  /\ UNCHANGED <<runFrame, status, canceledRunIds, routineVars>>

(* onChild: a run that was canceled meanwhile has its process killed. *)
Spawned(r) == IF r \in canceledRunIds THEN "killed" ELSE "alive"

OnChild(r) ==
  /\ stage[r] = "launching"
  /\ SetStage(r, Spawned(r))
  /\ UNCHANGED <<runFrame, status, canceledRunIds, lockVars, routineVars>>

(* The process ends, with an answer or with an error. *)
ChildExits(r) ==
  /\ HasChild(r)
  /\ \/ SetStage(r, "finishing") /\ Enter(Call("finish", r, source[r], 0))
     \/ Fail(r)
  /\ UNCHANGED <<runFrame, status, canceledRunIds, routineVars>>

(* mutant of Answers: only an answer that was published stops another *)
AnswersOnce(r) == status[r] # "completed"

(* The answer is published, unless the run has ended otherwise. *)
Answers(r) == status[r] = "running" /\ r \notin canceledRunIds

FinishRun ==
  /\ Holds("finish")
  /\ IF Answers(Holder.run) THEN SetStatus(Holder.run, "completed") ELSE UNCHANGED status
  /\ Over(Holder.run)
  /\ Leave
  /\ UNCHANGED runFrame

FailRun ==
  /\ Holds("fail")
  /\ IF Live(Holder.run) THEN SetStatus(Holder.run, "failed") ELSE UNCHANGED status
  /\ Over(Holder.run)
  /\ Leave
  /\ UNCHANGED runFrame

-----------------------------------------------------------------------------
(***************************************************************************)
(* Cancellation and correction.                                            *)
(***************************************************************************)

(* cancelRun: the channel, and the voice session, for a run it started itself. *)
CancelRun(r) ==
  /\ up /\ r \in Used
  /\ origin = "whatsapp" \/ (origin = "sidekick" /\ stage[r] # "none")
  /\ Spend("stops")
  /\ Enter(Call("cancel", r, source[r], 0))
  /\ UNCHANGED <<up, origin, runVars, asking, lingering, routineVars, clock, wakeup>>

(* onNetworkAccessRevoked: the run is marked before the lock is waited for. *)
NetworkRevoked(r) ==
  /\ up /\ origin = "whatsapp" /\ stage[r] \notin {"none", "done"}
  /\ Spend("stops")
  /\ canceledRunIds' = canceledRunIds \cup {r}
  /\ Enter(Call("cancel", r, source[r], 0))
  /\ UNCHANGED <<up, origin, status, source, stage, occurrence, asking, lingering, routineVars, clock, wakeup>>

(* steerMessage: another message in the place of the run the caller expects. *)
SteerMessage(r) ==
  /\ up /\ origin = "whatsapp" /\ r \in Used
  /\ Spend("stops")
  /\ Enter(Call("steer", r, "whatsapp", 0))
  /\ UNCHANGED <<up, origin, runVars, asking, lingering, routineVars, clock, wakeup>>

Stops == Holds("cancel") \/ Holds("steer")

Steerable(r) == ~wakeup /\ Live(r) /\ \A q \in Used : q <= r

SteerRefused ==
  /\ Holds("steer") /\ at = "entry" /\ ~Steerable(Holder.run)
  /\ Leave
  /\ UNCHANGED <<callFrame, runVars, lingering, routineVars>>

(* cancelRunUnlocked: a run that has ended has its process stopped once more. *)
CancelBegins ==
  /\ Stops /\ at = "entry"
  /\ Holds("steer") => Steerable(Holder.run)
  /\ LET r == Holder.run IN
     IF Live(r)
     THEN SetStatus(r, "canceled") /\ canceledRunIds' = canceledRunIds \cup {r}
     ELSE UNCHANGED <<status, canceledRunIds>>
  /\ Wait("preparation")
  /\ UNCHANGED <<callFrame, source, stage, occurrence, lingering, routineVars>>

(* What follows: a correction becomes the message it carries. *)
CancelDone ==
  IF Holds("steer")
  THEN line' = [line EXCEPT ![1] = Send(Holder.source, 0)] /\ at' = "entry"
  ELSE Leave

(* mutants of Prepared: nothing is waited for; the end of the run is *)
AtOnce(r) == TRUE
RunOver(r) == stage[r] \in {"none", "done"}

(* stopRunChild: the preparation is waited for, and the exit of the process. *)
Prepared(r) == ~Preparing(r)

StopChild ==
  /\ Stops /\ at = "preparation" /\ Prepared(Holder.run)
  /\ IF HasChild(Holder.run)
     THEN SetStage(Holder.run, "killed") /\ Wait("exit")
     ELSE CancelDone /\ UNCHANGED stage
  /\ UNCHANGED <<callFrame, status, source, canceledRunIds, occurrence, lingering, routineVars>>

ChildGone ==
  /\ Stops /\ at = "exit" /\ ~HasChild(Holder.run)
  /\ CancelDone
  /\ UNCHANGED <<callFrame, runVars, lingering, routineVars>>

(* waitForChildExit gives up after four seconds: the call fails. *)
CancellationUnconfirmed ==
  /\ Stops /\ at = "exit" /\ HasChild(Holder.run)
  /\ Leave
  /\ lingering' = lingering \cup {Holder.run}
  /\ UNCHANGED <<callFrame, runVars, routineVars>>

-----------------------------------------------------------------------------
(***************************************************************************)
(* The routine.                                                            *)
(***************************************************************************)

routineFrame == <<up, origin, runVars, asking, lingering, clock, wakeup>>

(* startRoutineRun: skipped when the conversation is busy. *)
StartRoutineRun(occ, armed) ==
  IF Busy
  THEN FinishRoutineRun("routine") /\ UNCHANGED lockVars
  ELSE Enter(Send("routine", occ)) /\ timer' = armed /\ UNCHANGED routine

(* The timer, also one that is late: the occurrence is missed, or starts. *)
RoutineDue ==
  /\ up /\ timer /\ routine.next <= clock
  /\ \/ FinishRoutineRun("routine") /\ UNCHANGED lockVars
     \/ StartRoutineRun(routine.next, FALSE)
  /\ UNCHANGED <<routineFrame, left>>

RunNow ==
  /\ up /\ routine.exists
  /\ Spend("routines")
  /\ StartRoutineRun(0, timer)
  /\ UNCHANGED routineFrame

(* update, setEnabled *)
UpdateRoutine(enabled) ==
  /\ up /\ routine.exists
  /\ Spend("routines")
  /\ Rescheduled(enabled)
  /\ UNCHANGED <<routineFrame, lockVars>>

(* delete: the conversation stays, as one of the person's. *)
DeleteRoutine ==
  /\ up /\ routine.exists
  /\ Spend("routines")
  /\ routine' = [exists |-> FALSE, enabled |-> FALSE, next |-> 0]
  /\ timer' = FALSE
  /\ origin' = "user"
  /\ UNCHANGED <<up, runVars, lockVars, asking, lingering, clock, wakeup>>

Tick ==
  /\ routine.exists /\ clock < MaxClock
  /\ clock' = clock + 1
  /\ UNCHANGED <<up, origin, runVars, lockVars, asking, lingering, routineVars, wakeup, left>>

-----------------------------------------------------------------------------
(***************************************************************************)
(* The wakeup.                                                             *)
(***************************************************************************)

wakeupFrame == <<up, origin, runVars, asking, lingering, routineVars, clock>>

(* The agent asks for one with its tool, as long as its process is there. *)
ScheduleWakeup(r) ==
  /\ up /\ HasChild(r) /\ origin # "whatsapp" /\ ~wakeup
  /\ Spend("wakeups")
  /\ wakeup' = TRUE
  /\ UNCHANGED <<wakeupFrame, lockVars>>

CancelWakeup ==
  /\ up /\ wakeup
  /\ Spend("wakeups")
  /\ wakeup' = FALSE
  /\ UNCHANGED <<wakeupFrame, lockVars>>

(* fireWakeup: tried again while a run goes on; else fired, and then sent. *)
FireWakeup ==
  /\ up /\ wakeup /\ ~Busy
  /\ wakeup' = FALSE
  /\ Enter(Send("scheduled_wakeup", 0))
  /\ UNCHANGED <<wakeupFrame, left>>

-----------------------------------------------------------------------------
(***************************************************************************)
(* The program ends and starts again.                                      *)
(***************************************************************************)

(* In order or not, nothing waits for the runs: their rows stay as they are. *)
Stop ==
  /\ up /\ Spend("outages")
  /\ up' = FALSE
  /\ stage' = [r \in Runs |-> "none"]
  /\ canceledRunIds' = {} /\ lingering' = {}
  /\ line' = <<>> /\ at' = "entry" /\ asking' = 0
  /\ timer' = FALSE
  /\ UNCHANGED <<origin, status, source, occurrence, routine, clock, wakeup>>

(* mutant of Reconciled: a status the table does not know *)
ReconciledInterrupted ==
  [r \in Runs |-> IF origin = "whatsapp" /\ Live(r) THEN "interrupted" ELSE status[r]]

(* Only the channel ends the runs it finds (reconcileWhatsAppConversation). *)
Reconciled ==
  [r \in Runs |-> IF origin = "whatsapp" /\ Live(r) THEN "failed" ELSE status[r]]

(* initialize of the routine manager: timers for the routine and the wakeup. *)
Start ==
  /\ ~up /\ up' = TRUE
  /\ status' = Reconciled
  /\ timer' = (routine.exists /\ routine.enabled)
  /\ UNCHANGED <<origin, source, stage, canceledRunIds, occurrence, lockVars, asking, lingering,
                 routine, clock, wakeup, left>>

-----------------------------------------------------------------------------
(* What goes on by itself. *)
Proceeds ==
  \/ SendRefused \/ SendBegins \/ SendAdmitted
  \/ StartRun \/ FinishRun \/ FailRun
  \/ SteerRefused \/ CancelBegins \/ StopChild \/ ChildGone \/ CancellationUnconfirmed

RunStep(r) == PrepareRun(r) \/ PreparationFails(r) \/ OnChild(r) \/ ChildExits(r)

Next ==
  \/ \E src \in Source : SendMessage(src)
  \/ AskPeerAgent \/ AskAdmitted \/ AskRefused
  \/ Proceeds
  \/ \E r \in Runs : RunStep(r) \/ CancelRun(r) \/ NetworkRevoked(r) \/ SteerMessage(r) \/ ScheduleWakeup(r)
  \/ RoutineDue \/ RunNow \/ DeleteRoutine \/ Tick
  \/ \E b \in BOOLEAN : UpdateRoutine(b)
  \/ CancelWakeup \/ FireWakeup
  \/ Stop \/ Start

(* The lock is handed on; runtimes, preparations and processes answer or   *)
(* time out (an absolute limit for a run, four seconds for an exit); timers *)
(* fire.  Nobody has to write, to cancel or to start the program.          *)
Fairness ==
  /\ WF_vars(Proceeds)
  /\ WF_vars(AskAdmitted \/ AskRefused)
  /\ \A r \in Runs : WF_vars(RunStep(r))
  /\ WF_vars(RoutineDue) /\ WF_vars(FireWakeup)

Spec == Init /\ [][Next]_vars
FairSpec == Spec /\ Fairness

-----------------------------------------------------------------------------
(***************************************************************************)
(* Properties.                                                             *)
(***************************************************************************)

(* Every variable keeps its type; a run that has a row has one of the known *)
(* statuses, and the rows are created in order (agent-store.ts:825-872).    *)
TypeOK ==
  /\ up \in BOOLEAN /\ timer \in BOOLEAN /\ wakeup \in BOOLEAN
  /\ origin \in Origin
  /\ status \in [Runs -> RunStatus] /\ stage \in [Runs -> Stage]
  /\ source \in [Runs -> Source] /\ occurrence \in [Runs -> 0..MaxClock]
  /\ \A r, q \in Runs : q \in Used /\ r < q => r \in Used
  /\ canceledRunIds \subseteq Runs /\ lingering \subseteq Runs
  /\ line \in Seq(Calls)
  /\ at \in {"entry", "runtime", "preparation", "exit"}
  /\ asking \in Nat /\ clock \in 0..MaxClock
  /\ routine \in [exists : BOOLEAN, enabled : BOOLEAN, next : 0..MaxClock + 1]
  /\ left \in [Budget -> Nat]

(* A conversation has one run at a time, whoever writes in it, also when    *)
(* other agents do without its lock; the process of the next run begins     *)
(* after that of the last one has ended, unless a cancellation said it did  *)
(* not see it end; and a process is not left to a run that was canceled     *)
(* (agent-conversation-manager.ts:284-347, 402, 500, 949-953).              *)
OneAtATime ==
  /\ \A r, q \in Runs : Live(r) /\ Live(q) => r = q
  /\ \A r, q \in Runs \ lingering : (stage[r] = "launching" \/ HasChild(r)) /\ HasChild(q) => r = q
  /\ \A r \in Runs : status[r] = "canceled" /\ stage[r] = "alive" => Stops /\ Holder.run = r

(* What has ended stays ended: a run that was canceled neither restarts nor *)
(* publishes, whenever the preparation, the process or the completion it    *)
(* was in comes back (613-756); an answer is that of the newest run; and    *)
(* while a wakeup is scheduled no person gets a message in (399), unless    *)
(* it was asked for by a process that outlived its cancellation.            *)
Quiet ==
  [][\A r \in Runs :
       /\ status[r] \in Ended => status'[r] = status[r]
       /\ status[r] # "completed" /\ status'[r] = "completed" => \A q \in Used' : q <= r
       /\ status[r] = "none" /\ status'[r] = "queued" /\ ~Scheduled(source'[r])
            => ~wakeup \/ origin = "agent" \/ lingering # {}]_vars

(* An occurrence of a routine starts at most one run, whatever is run by    *)
(* hand, changed or restarted meanwhile; and the routine is not forgotten:  *)
(* while the program is up an enabled one has its timer set or a run in     *)
(* hand, whose end will set it (agent-routine-manager.ts:185-347).          *)
Timetable ==
  /\ \A r, q \in Runs : occurrence[r] = occurrence[q] /\ occurrence[r] # 0 => r = q
  /\ up /\ routine.exists /\ routine.enabled =>
       \/ timer
       \/ \E i \in DOMAIN line : line[i].source = "routine"
       \/ \E r \in Runs : source[r] = "routine" /\ stage[r] \notin {"none", "done"}

(* Every run the program does not outlive ends, and every call that waits   *)
(* for the lock gets it: no cancellation waits, with the lock, for a        *)
(* preparation or a process that waits for the lock (319-347, 677-681).     *)
EverythingEnds ==
  /\ \A r \in Runs : Live(r) ~> ~Live(r) \/ stage[r] = "none"
  /\ []<>(line = <<>>)

=============================================================================
