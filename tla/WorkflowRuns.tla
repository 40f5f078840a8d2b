----------------------------- MODULE WorkflowRuns -----------------------------
(***************************************************************************)
(* src/main/workflow-manager.ts and workflow/node-runtime.ts: one          *)
(* workflow, its revisions, its schedule and its runs.                     *)
(*                                                                         *)
(* The operations of a workflow take a lock (withWorkflowLock): each is    *)
(* one step.  Those that go on afterwards, a run, an application that      *)
(* looks at the apps, a start the schedule decided, are steps of their own *)
(* between which anything may happen.  What follows an operation before    *)
(* the next await (scheduleWorkflow) belongs to its step.  A write is part *)
(* of the step that decides it, and does not fail; the program may die     *)
(* between the two that end a run.                                         *)
(***************************************************************************)
EXTENDS WorkflowGraph, Sequences, SequencesExt

CONSTANTS
  Library,     \* name |-> definition
  Drafts,      \* names of the definitions the person may save later
  Nodes,       \* nodes of the definitions
  MaxRuns,     \* bound: run records
  MaxParallel, \* MAX_PARALLEL_NODES
  Starts       \* states to begin in, with what may happen: [saved, applied, left]

Runs == 1..MaxRuns

Budget == {"edits",    \* saving, restoring, reviewing, applying, deleting
           "switches", \* enabling and pausing
           "demands",  \* runs, steps and retries the person asks for
           "cancels",  \* cancelRun
           "ticks",    \* the clock passes a scheduled instant, or its grace period
           "outages"}  \* the feature is switched off, the program closes or dies

ASSUME WorkflowAssumption ==
  /\ \A d \in DOMAIN Library :
       /\ Library[d].nodes \subseteq Nodes
       /\ Library[d].kind \in [Library[d].nodes -> NodeKind]
       /\ Library[d].asks \subseteq Library[d].nodes
       /\ \A e \in Library[d].edges : e.when \in When
       /\ Library[d].missed \in MissedRunPolicy
  /\ Drafts \subseteq DOMAIN Library
  /\ Nodes \subseteq Nat \ {0} /\ IsFiniteSet(Nodes)
  /\ MaxRuns \in Nat
  /\ MaxParallel \in Nat \ {0}
  /\ \A s \in Starts :
       /\ s.saved \in DOMAIN Library /\ ValidGraph(Library[s.saved])
       /\ s.applied \in BOOLEAN
       /\ s.left \in [Budget -> Nat]

VARIABLES
  workflow,  \* row of workflows.json, and its revisions
  row,       \* run |-> its record in workflow-runs
  phase,     \* of the manager
  at,        \* run |-> where executeRun or executeSingleNode is
  stage,     \* run |-> node |-> where executeNode is
  canceled,  \* runs told to stop
  applying,  \* revision an application looks at the apps for, 0 for none
  timer,     \* instant the timer is set for, 0 for none
  dues,      \* calls of handleDueScheduledRun waiting for the lock
  starts,    \* starts the schedule has decided, waiting for the lock
  hour,      \* scheduled instants that have passed
  late,      \* the last of them is out of its grace period
  left,      \* budget |-> events of that kind that may still happen
  approved,  \* history: <<run, node>> the person approved
  called     \* history: <<run, node>> whose action or tool was called

execution == <<at, stage, canceled>>
schedule == <<timer, dues, starts>>
clock == <<hour, late>>
vars == <<workflow, row, phase, execution, applying, schedule, clock, left, approved, called>>

Up == phase = "up"
Disposing == phase \in {"closing", "disabling"}

NoRow == [status |-> "none", trigger |-> "none", draft |-> "", revision |-> 0, slot |-> 0,
          only |-> 0, safe |-> FALSE, node |-> <<>>]

RunEnded == {"succeeded", "completed_with_issues", "failed", "canceled", "skipped"}
RunStatus == {"none", "queued", "running", "waiting_approval"} \cup RunEnded

Stage == {"none", "asked", "approved", "denied", "begun", "calling", "closing"}
Place == {"none", "prepared", "preflight", "turn", "cascade", "race", "drain", "step", "leaving"}

Spend(kind) == left[kind] > 0 /\ left' = [left EXCEPT ![kind] = @ - 1]

Init ==
  \E s \in Starts :
    /\ workflow = [revisions |-> <<s.saved>>, reviewed |-> s.applied,
                   applied |-> IF s.applied THEN 1 ELSE 0,
                   enabled |-> FALSE, nextRun |-> 0, running |-> FALSE, lastRun |-> 0]
    /\ left = s.left
    /\ row = [r \in Runs |-> NoRow]
    /\ phase = "up"
    /\ at = [r \in Runs |-> "none"]
    /\ stage = [r \in Runs |-> [n \in Nodes |-> "none"]]
    /\ canceled = {}
    /\ applying = 0 /\ timer = 0 /\ dues = 0 /\ starts = {}
    /\ hour = 0 /\ late = TRUE
    /\ approved = {} /\ called = {}

-----------------------------------------------------------------------------
(***************************************************************************)
(* Reads and writes.                                                       *)
(***************************************************************************)

Exists == workflow.revisions # <<>>
Current == Len(workflow.revisions)
Of(i) == Library[workflow.revisions[i]]
GraphOf(r) == Library[row[r].draft]

(* requireRunnableRevision: the applied revision, or the draft when there is none. *)
Runnable == IF workflow.applied # 0 THEN workflow.applied ELSE Current

(* A run that has just been admitted is launched before the lock is taken again. *)
Unlocked == \A r \in Runs : at[r] # "prepared"

Active(r) == at[r] \notin {"none", "prepared"}
Executing(r) == {n \in Nodes : stage[r][n] # "none"}
Free == {r \in Runs : row[r].status = "none"}

SetRow(r, rec) == row' = [row EXCEPT ![r] = rec]

(* persistRunUnlocked of a run that goes on: the workflow shows it last. *)
ShowRun(r) == workflow' = IF Exists THEN [workflow EXCEPT !.lastRun = r] ELSE workflow

(* persistRunUnlocked of a run that ends: the workflow is free again.  It is *)
(* written before the record (Torn).                                          *)
EndRun(r, rec) ==
  /\ SetRow(r, rec)
  /\ workflow' = IF Exists THEN [workflow EXCEPT !.lastRun = r, !.running = FALSE] ELSE workflow

WaitsOrRuns(node) ==
  IF \E n \in DOMAIN node : node[n] = "waiting_approval" THEN "waiting_approval" ELSE "running"

(* syncNodeRun *)
Sync(r, node) ==
  /\ SetRow(r, [row[r] EXCEPT !.node = node, !.status = WaitsOrRuns(node)])
  /\ ShowRun(r)

Record(status, trigger, i, slot, only) ==
  [status |-> status, trigger |-> trigger, draft |-> workflow.revisions[i], revision |-> i,
   slot |-> slot, only |-> only, safe |-> FALSE,
   node |-> [n \in Of(i).nodes |-> IF status = "skipped" \/ only \notin {0, n} THEN "skipped" ELSE "pending"]]

(* The workflow has a schedule to follow, after the writes of the step. *)
Follows(w) ==
  /\ phase' = "up" /\ w.enabled /\ w.applied # 0 /\ w.nextRun # 0
  /\ Library[w.revisions[w.applied]].scheduled

(* mutant of Schedule: an instant that has passed is not served *)
ScheduleFuture(dues0) ==
  /\ timer' = IF Follows(workflow') /\ workflow'.nextRun > hour THEN workflow'.nextRun ELSE 0
  /\ dues' = dues0

(* scheduleWorkflow: the timer is set, or handleDueScheduledRun is called. *)
Schedule(dues0) ==
  LET next == IF Follows(workflow') THEN workflow'.nextRun ELSE 0
  IN /\ timer' = IF next > hour THEN next ELSE 0
     /\ dues' = IF next \in 1..hour THEN dues0 + 1 ELSE dues0

-----------------------------------------------------------------------------
(***************************************************************************)
(* The definition and its revisions.                                       *)
(***************************************************************************)

Edit == Up /\ Unlocked /\ Exists /\ Spend("edits")

Save(d) ==
  /\ ValidGraph(Library[d])
  /\ workflow' = [workflow EXCEPT !.revisions = Append(@, d), !.reviewed = FALSE]
  /\ UNCHANGED <<row, phase, execution, applying, schedule, clock, approved, called>>

Upsert(d) == Edit /\ Save(d)

RestoreRevision(i) == Edit /\ Save(workflow.revisions[i])

Review ==
  /\ Edit /\ ~workflow.reviewed
  /\ workflow' = [workflow EXCEPT !.reviewed = TRUE]
  /\ UNCHANGED <<row, phase, execution, applying, schedule, clock, approved, called>>

(* apply: the revision is captured, then the apps are looked at without the lock. *)
BeginApply ==
  /\ Edit /\ workflow.reviewed /\ applying = 0
  /\ applying' = Current
  /\ UNCHANGED <<workflow, row, phase, execution, schedule, clock, approved, called>>

(* mutant of StillReady: what happened meanwhile is not looked at *)
StillThere == Up /\ Exists

StillReady == Up /\ Exists /\ applying = Current /\ workflow.reviewed

FinishApply ==
  /\ applying # 0 /\ Unlocked /\ StillReady
  /\ workflow' = [workflow EXCEPT !.applied = applying]
  /\ applying' = 0
  /\ UNCHANGED <<row, phase, execution, schedule, clock, left, approved, called>>

(* The revision has changed, an app does not answer, or the manager goes away. *)
RejectApply ==
  /\ applying # 0
  /\ applying' = 0
  /\ UNCHANGED <<workflow, row, phase, execution, schedule, clock, left, approved, called>>

Delete ==
  /\ Edit
  /\ workflow' = [revisions |-> <<>>, reviewed |-> FALSE, applied |-> 0, enabled |-> FALSE,
                  nextRun |-> 0, running |-> FALSE, lastRun |-> 0]
  /\ timer' = 0
  /\ UNCHANGED <<row, phase, execution, applying, dues, starts, clock, approved, called>>

SetEnabled(enabled) ==
  /\ Up /\ Unlocked /\ Exists /\ Spend("switches")
  /\ enabled => workflow.applied # 0 /\ Of(workflow.applied).scheduled
  /\ workflow' = [workflow EXCEPT !.enabled = enabled, !.nextRun = IF enabled THEN hour + 1 ELSE 0]
  /\ UNCHANGED <<row, phase, execution, applying, starts, clock, approved, called>>
  /\ Schedule(dues)

-----------------------------------------------------------------------------
(***************************************************************************)
(* Starting a run.                                                         *)
(***************************************************************************)

(* The record is made under the lock.  While another run goes on, it says    *)
(* that this one was skipped.                                                *)
Start(r, trigger, i, slot, only) ==
  IF workflow.running
  THEN /\ SetRow(r, Record("skipped", trigger, i, slot, only))
       /\ workflow' = [workflow EXCEPT !.lastRun = r]
       /\ UNCHANGED at
  ELSE /\ SetRow(r, Record("queued", trigger, i, slot, only))
       /\ workflow' = [workflow EXCEPT !.lastRun = r, !.running = TRUE]
       /\ at' = [at EXCEPT ![r] = "prepared"]

NextFree(r) == r \in Free /\ \A q \in Free : r <= q

(* The person asks for a run, a step or a retry. *)
Demand ==
  /\ Up /\ Unlocked /\ Exists /\ Spend("demands")
  /\ Cardinality(starts) < Cardinality(Free)
  /\ UNCHANGED <<phase, stage, canceled, applying, schedule, clock, approved, called>>

RunNow(r) == Demand /\ NextFree(r) /\ Start(r, "manual", Runnable, 0, 0)

RunNode(r, n) ==
  /\ Demand /\ NextFree(r)
  /\ n \in Of(Runnable).nodes
  /\ Start(r, "step", Runnable, 0, n)

(* Any failed run that called nothing may be started again, with its trigger. *)
RetryRun(r, previous) ==
  /\ Demand /\ NextFree(r)
  /\ row[previous].status = "failed" /\ row[previous].safe
  /\ row[previous].trigger = "scheduled" => workflow.enabled /\ workflow.applied # 0
  /\ Start(r, row[previous].trigger, row[previous].revision, 0, 0)

(* launchRunTask, or cancelPreparedRun when the manager went away meanwhile. *)
(* A step is said to run before the apps are looked at.                      *)
Launch(r) ==
  /\ at[r] = "prepared"
  /\ IF Up
     THEN /\ at' = [at EXCEPT ![r] = "preflight"]
          /\ IF row[r].only = 0 THEN UNCHANGED <<row, workflow>> ELSE Sync(r, row[r].node)
     ELSE /\ at' = [at EXCEPT ![r] = "none"]
          /\ EndRun(r, [row[r] EXCEPT !.status = "canceled",
                          !.node = [n \in DOMAIN @ |-> IF @[n] = "skipped" THEN "skipped" ELSE "canceled"]])
  /\ UNCHANGED <<phase, stage, canceled, applying, schedule, clock, left, approved, called>>

-----------------------------------------------------------------------------
(***************************************************************************)
(* The clock and the schedule.                                             *)
(***************************************************************************)

Tick ==
  /\ Spend("ticks")
  /\ late' = ~late
  /\ hour' = IF late THEN hour + 1 ELSE hour
  /\ UNCHANGED <<workflow, row, phase, execution, applying, schedule, approved, called>>

TimerFires ==
  /\ timer # 0 /\ timer <= hour
  /\ UNCHANGED <<workflow, row, phase, execution, applying, starts, clock, left, approved, called>>
  /\ Schedule(dues)

Watched ==
  Up /\ workflow.enabled /\ workflow.applied # 0 /\ workflow.nextRun # 0 /\ Of(workflow.applied).scheduled

(* mutants of Advance: the instant that is served stays due; none follows it *)
StayDue(w) == w
NoneFollows(w) == [w EXCEPT !.nextRun = 0]

(* advanceScheduleUnlocked *)
Advance(w) == [w EXCEPT !.nextRun = hour + 1]

WithinGrace == workflow.nextRun = hour /\ ~late

(* A window may be longer or shorter than the time that has passed. *)
MayCatchUp == Of(workflow.applied).missed \in {"always", "within_window"}
MaySkip == Of(workflow.applied).missed \in {"within_window", "skip"}

(* handleDueScheduledRun: another call has served the instant, or the        *)
(* schedule is off.                                                          *)
DueGone ==
  /\ dues > 0 /\ Unlocked
  /\ ~Watched \/ workflow.nextRun > hour
  /\ UNCHANGED workflow
  /\ UNCHANGED <<row, phase, execution, applying, starts, clock, left, approved, called>>
  /\ IF Watched THEN Schedule(dues - 1) ELSE dues' = dues - 1 /\ timer' = timer

(* ... the instant is served: the schedule moves on, the start follows *)
DueRun ==
  /\ dues > 0 /\ Unlocked /\ Watched /\ workflow.nextRun <= hour
  /\ WithinGrace \/ MayCatchUp
  /\ Cardinality(starts) < Cardinality(Free)
  /\ workflow' = Advance(workflow)
  /\ starts' = starts \cup {[revision |-> workflow.applied, slot |-> workflow.nextRun]}
  /\ UNCHANGED <<row, phase, execution, applying, clock, left, approved, called>>
  /\ Schedule(dues - 1)

(* ... the instant was missed: a record says so *)
DueSkip(r) ==
  /\ dues > 0 /\ Unlocked /\ Watched /\ workflow.nextRun <= hour
  /\ ~WithinGrace /\ MaySkip
  /\ NextFree(r) /\ Cardinality(starts) < Cardinality(Free)
  /\ SetRow(r, Record("skipped", "scheduled", workflow.applied, 0, 0))
  /\ workflow' = Advance([workflow EXCEPT !.lastRun = r])
  /\ UNCHANGED <<phase, execution, applying, starts, clock, left, approved, called>>
  /\ Schedule(dues - 1)

StartDue(r, s) ==
  /\ s \in starts /\ Unlocked
  /\ starts' = starts \ {s}
  /\ IF Up /\ Exists /\ workflow.enabled /\ workflow.applied # 0
     THEN NextFree(r) /\ Start(r, "scheduled", s.revision, s.slot, 0)
     ELSE UNCHANGED <<row, workflow, at>>
  /\ UNCHANGED <<phase, stage, canceled, applying, timer, dues, clock, left, approved, called>>

-----------------------------------------------------------------------------
(***************************************************************************)
(* A run: executeRun, executeSingleNode.                                   *)
(***************************************************************************)

Looked(r) == IF row[r].only = 0 THEN GraphOf(r).nodes ELSE {row[r].only}

(* requiresApproval: a step does not ask, unless it is an app action. *)
Asks(r, n) ==
  \/ GraphOf(r).kind[n] = "action"
  \/ row[r].only = 0 /\ n \in GraphOf(r).asks

(* executeNode, up to its first await; a run that is cancelled is not asked for *)
BeginNodes(r, S) ==
  /\ stage' = [stage EXCEPT ![r] =
       [n \in Nodes |-> IF n \notin S THEN @[n]
                        ELSE IF ~Asks(r, n) THEN "begun"
                        ELSE IF r \in canceled THEN "denied" ELSE "asked"]]
  /\ Sync(r, [n \in DOMAIN row[r].node |-> IF n \notin S THEN row[r].node[n]
                                           ELSE IF Asks(r, n) THEN "waiting_approval" ELSE "running"])

PreflightPasses(r) ==
  /\ at[r] = "preflight" /\ Unlocked
  /\ IF row[r].only = 0
     THEN at' = [at EXCEPT ![r] = "turn"] /\ Sync(r, row[r].node) /\ UNCHANGED stage
     ELSE at' = [at EXCEPT ![r] = "step"] /\ BeginNodes(r, {row[r].only})
  /\ UNCHANGED <<phase, canceled, applying, schedule, clock, left, approved, called>>

(* An app is missing or has changed: nothing was called. *)
PreflightFails(r) ==
  /\ at[r] = "preflight" /\ Unlocked
  /\ \E n \in Looked(r) : GraphOf(r).kind[n] = "action"
  /\ at' = [at EXCEPT ![r] = "leaving"]
  /\ EndRun(r, [row[r] EXCEPT !.status = "failed", !.safe = TRUE])
  /\ UNCHANGED <<phase, stage, canceled, applying, schedule, clock, left, approved, called>>

(* The loop looks for a cancellation when it comes round, not while it skips. *)
Stop(r) ==
  /\ at[r] = "turn" /\ r \in canceled
  /\ at' = [at EXCEPT ![r] = "drain"]
  /\ UNCHANGED <<workflow, row, phase, stage, canceled, applying, schedule, clock, left, approved, called>>

Scanning(r) == at[r] = "cascade" \/ (at[r] = "turn" /\ r \notin canceled)

SkipNode(r, n) ==
  /\ Scanning(r) /\ Unlocked
  /\ n \in Skippable(GraphOf(r), row[r].node)
  /\ at' = [at EXCEPT ![r] = "cascade"]
  /\ Sync(r, [row[r].node EXCEPT ![n] = "skipped"])
  /\ UNCHANGED <<phase, stage, canceled, applying, schedule, clock, left, approved, called>>

Lowest(S, k) == {n \in S : Cardinality({m \in S : m < n}) < k}

StartNodes(r) ==
  LET S == Lowest(Ready(GraphOf(r), row[r].node), MaxParallel - Cardinality(Executing(r)))
  IN /\ Scanning(r) /\ Unlocked
     /\ Skippable(GraphOf(r), row[r].node) = {}
     /\ IF S = {} THEN UNCHANGED <<stage, row, workflow>> ELSE BeginNodes(r, S)
     /\ at' = [at EXCEPT ![r] = IF S = {} /\ Executing(r) = {} THEN "drain" ELSE "race"]
     /\ UNCHANGED <<phase, canceled, applying, schedule, clock, left, approved, called>>

(* mutant of Ended: a run that failed may be started again *)
EndedForRetry(rec, status) == [rec EXCEPT !.status = status, !.safe = status = "failed"]

(* The apps were looked at: the nodes may have called something. *)
Ended(rec, status) == [rec EXCEPT !.status = status, !.safe = FALSE]

(* What is left was never started: the run was cancelled. *)
Drained(node) == [n \in DOMAIN node |-> IF node[n] \in Finished THEN node[n] ELSE "canceled"]

Finish(r) ==
  LET node == Drained(row[r].node)
  IN /\ at[r] = "drain" /\ Executing(r) = {} /\ Unlocked
     /\ at' = [at EXCEPT ![r] = "leaving"]
     /\ EndRun(r, Ended([row[r] EXCEPT !.node = node],
                        IF r \in canceled THEN "canceled" ELSE RunOutcome(GraphOf(r), node)))
     /\ UNCHANGED <<phase, stage, canceled, applying, schedule, clock, left, approved, called>>

FinishStep(r) ==
  /\ at[r] = "step" /\ Executing(r) = {} /\ Unlocked
  /\ at' = [at EXCEPT ![r] = "leaving"]
  /\ EndRun(r, Ended(row[r],
                     IF r \in canceled THEN "canceled"
                     ELSE IF row[r].node[row[r].only] \in {"succeeded", "refuted"} THEN "succeeded" ELSE "failed"))
  /\ UNCHANGED <<phase, stage, canceled, applying, schedule, clock, left, approved, called>>

(* The end of executeRun: the workflow is marked free, whoever runs it now. *)
Leave(r) ==
  /\ at[r] = "leaving" /\ Unlocked
  /\ at' = [at EXCEPT ![r] = "none"]
  /\ canceled' = canceled \ {r}
  /\ workflow' = [workflow EXCEPT !.running = FALSE]
  /\ UNCHANGED <<row, phase, stage, applying, starts, clock, left, approved, called>>
  /\ IF row[r].only = 0 THEN Schedule(dues) ELSE UNCHANGED <<timer, dues>>

-----------------------------------------------------------------------------
(***************************************************************************)
(* A node: executeNode.                                                    *)
(***************************************************************************)

(* The node has a result; its promise settles after the next await. *)
Settle(r, n, status) ==
  /\ stage' = [stage EXCEPT ![r][n] = "closing"]
  /\ Sync(r, [row[r].node EXCEPT ![n] = status])

Approve(r, n, yes) ==
  /\ Up /\ stage[r][n] = "asked"
  /\ stage' = [stage EXCEPT ![r][n] = IF yes THEN "approved" ELSE "denied"]
  /\ approved' = IF yes THEN approved \cup {<<r, n>>} ELSE approved
  /\ UNCHANGED <<workflow, row, phase, at, canceled, applying, schedule, clock, left, called>>

(* executeNode goes on after the answer. *)
Answered(r, n) ==
  IF r \in canceled THEN Settle(r, n, "canceled")
  ELSE IF stage[r][n] = "approved"
  THEN /\ stage' = [stage EXCEPT ![r][n] = "begun"]
       /\ Sync(r, [row[r].node EXCEPT ![n] = "running"])
  ELSE Settle(r, n, "failed")

Answer(r, n) ==
  /\ stage[r][n] \in {"approved", "denied"} /\ Unlocked
  /\ Answered(r, n)
  /\ UNCHANGED <<phase, at, canceled, applying, schedule, clock, left, approved, called>>

(* mutant of StopsBefore: a run that is cancelled calls what has begun *)
GoesOn(r) == FALSE

StopsBefore(r) == r \in canceled

(* A condition has its result at once; an action or a tool is called. *)
Execute(r, n) ==
  /\ stage[r][n] = "begun" /\ Unlocked
  /\ \/ /\ StopsBefore(r)
        /\ Settle(r, n, "canceled")
        /\ UNCHANGED called
     \/ /\ ~StopsBefore(r) /\ GraphOf(r).kind[n] = "condition"
        /\ \E holds \in BOOLEAN : Settle(r, n, IF holds THEN "succeeded" ELSE "refuted")
        /\ UNCHANGED called
     \/ /\ ~StopsBefore(r) /\ GraphOf(r).kind[n] # "condition"
        /\ stage' = [stage EXCEPT ![r][n] = "calling"]
        /\ called' = called \cup {<<r, n>>}
        /\ UNCHANGED <<row, workflow>>
  /\ UNCHANGED <<phase, at, canceled, applying, schedule, clock, left, approved>>

(* The call answers, fails, is aborted, or takes too long. *)
Return(r, n) ==
  /\ stage[r][n] = "calling" /\ Unlocked
  /\ \E status \in {"succeeded", IF r \in canceled THEN "canceled" ELSE "failed"} : Settle(r, n, status)
  /\ UNCHANGED <<phase, at, canceled, applying, schedule, clock, left, approved, called>>

(* mutant of Woken: the loop is not told that a node is done *)
Asleep(r) == at

Woken(r) == [at EXCEPT ![r] = IF @ = "race" THEN "turn" ELSE @]

Close(r, n) ==
  /\ stage[r][n] = "closing"
  /\ stage' = [stage EXCEPT ![r][n] = "none"]
  /\ at' = Woken(r)
  /\ UNCHANGED <<workflow, row, phase, canceled, applying, schedule, clock, left, approved, called>>

(* mutant of CancelAll: who was asked is left waiting *)
FlagAll(R) == canceled' = canceled \cup R /\ stage' = stage

(* cancelActiveRun: who was asked is answered no. *)
CancelAll(R) ==
  /\ canceled' = canceled \cup R
  /\ stage' = [r \in Runs |-> [n \in Nodes |->
                 IF r \in R /\ stage[r][n] = "asked" THEN "denied" ELSE stage[r][n]]]

CancelRun(r) ==
  /\ Up /\ Active(r) /\ r \notin canceled /\ at[r] # "leaving"
  /\ Spend("cancels")
  /\ CancelAll({r})
  /\ UNCHANGED <<workflow, row, phase, at, applying, schedule, clock, approved, called>>

-----------------------------------------------------------------------------
(***************************************************************************)
(* The manager comes and goes.                                             *)
(***************************************************************************)

(* dispose, when the program closes or the feature is switched off *)
Dispose(to) ==
  /\ Up /\ Spend("outages")
  /\ phase' = to
  /\ timer' = 0
  /\ CancelAll({r \in Runs : Active(r)})
  /\ UNCHANGED <<workflow, row, at, applying, dues, starts, clock, approved, called>>

Disposed ==
  /\ Disposing
  /\ \A r \in Runs : at[r] = "none"
  /\ applying = 0 /\ dues = 0 /\ starts = {}
  /\ phase' = IF phase = "closing" THEN "down" ELSE "off"
  /\ UNCHANGED <<workflow, row, execution, applying, schedule, clock, left, approved, called>>

Die ==
  /\ Up \/ Disposing
  /\ Spend("outages")
  /\ phase' = IF phase = "disabling" THEN "off" ELSE "down"
  /\ at' = [r \in Runs |-> "none"]
  /\ stage' = [r \in Runs |-> [n \in Nodes |-> "none"]]
  /\ canceled' = {} /\ applying' = 0 /\ timer' = 0 /\ dues' = 0 /\ starts' = {}
  /\ UNCHANGED <<clock, approved, called>>

Crash == Die /\ UNCHANGED <<workflow, row>>

(* The end of a run is what executeRun or executeSingleNode writes next. *)
Ending(r) ==
  \/ at[r] = "preflight" /\ \E n \in Looked(r) : GraphOf(r).kind[n] = "action"
  \/ at[r] \in {"drain", "step"} /\ Executing(r) = {}

(* The program dies between the two writes of EndRun: the workflow shows    *)
(* that the run has ended (lastRun 0, nothing to reconcile), its record does *)
(* not.                                                                      *)
Torn(r) ==
  /\ Die /\ Exists /\ Unlocked /\ Ending(r)
  /\ SetRow(r, [row[r] EXCEPT !.node = IF at[r] = "drain" THEN Drained(@) ELSE @])
  /\ workflow' = [workflow EXCEPT !.lastRun = 0, !.running = FALSE]

(* mutant of Interrupted: nothing is reconciled *)
NoneInterrupted(w) == {}

(* failInterruptedRuns: the run the workflow shows last, and no other *)
Interrupted(w) == IF w.lastRun # 0 /\ row[w.lastRun].status \notin RunEnded THEN {w.lastRun} ELSE {}

(* initialize: after switching the feature on, the schedule counts from now. *)
Initialize ==
  /\ phase \in {"down", "off"}
  /\ phase' = "up"
  /\ LET R == Interrupted(workflow)
         next == IF phase = "off" /\ workflow.enabled /\ Of(workflow.applied).scheduled
                 THEN hour + 1 ELSE workflow.nextRun
     IN /\ row' = [r \in Runs |-> IF r \notin R THEN row[r]
                                  ELSE [row[r] EXCEPT !.status = "failed", !.node = Drained(@)]]
        /\ workflow' = [workflow EXCEPT !.running = FALSE, !.nextRun = next]
  /\ Schedule(0)
  /\ UNCHANGED <<execution, applying, starts, clock, left, approved, called>>

-----------------------------------------------------------------------------

Person ==
  \/ \E d \in Drafts : Upsert(d)
  \/ \E i \in 1..Current : RestoreRevision(i)
  \/ Review
  \/ BeginApply
  \/ Delete
  \/ \E b \in BOOLEAN : SetEnabled(b)
  \/ \E r \in Runs : RunNow(r)
  \/ \E r \in Runs, n \in Nodes : RunNode(r, n)
  \/ \E r, p \in Runs : RetryRun(r, p)
  \/ \E r \in Runs : CancelRun(r)
  \/ \E r \in Runs, n \in Nodes, yes \in BOOLEAN : Approve(r, n, yes)

NodeStep(r, n) == Answer(r, n) \/ Execute(r, n) \/ Return(r, n) \/ Close(r, n)

RunStep(r) ==
  \/ Launch(r)
  \/ PreflightPasses(r)
  \/ PreflightFails(r)
  \/ Stop(r)
  \/ \E n \in Nodes : SkipNode(r, n)
  \/ StartNodes(r)
  \/ Finish(r)
  \/ FinishStep(r)
  \/ Leave(r)

Manager ==
  \/ FinishApply
  \/ RejectApply
  \/ TimerFires
  \/ DueGone
  \/ DueRun
  \/ \E r \in Runs : DueSkip(r)
  \/ \E r \in Runs, s \in starts : StartDue(r, s)
  \/ Disposed

Next ==
  \/ Person
  \/ \E r \in Runs : RunStep(r)
  \/ \E r \in Runs, n \in Nodes : NodeStep(r, n)
  \/ Manager
  \/ Tick
  \/ \E to \in {"closing", "disabling"} : Dispose(to)
  \/ Crash
  \/ \E r \in Runs : Torn(r)
  \/ Initialize

(* What the program does by itself is not put off for ever: promises are     *)
(* settled, timers fire, and calls end, by their timeouts at the latest.  The *)
(* person need not do anything.                                              *)
Fairness ==
  /\ \A r \in Runs : WF_vars(RunStep(r))
  /\ \A r \in Runs, n \in Nodes : WF_vars(NodeStep(r, n))
  /\ WF_vars(Manager)

Spec == Init /\ [][Next]_vars /\ Fairness

-----------------------------------------------------------------------------
(***************************************************************************)
(* Properties.                                                             *)
(***************************************************************************)

Workflow ==
  [revisions : Seq(DOMAIN Library), reviewed : BOOLEAN, applied : Nat, enabled : BOOLEAN,
   nextRun : Nat, running : BOOLEAN, lastRun : {0} \cup Runs]

IsRow(x) ==
  /\ DOMAIN x = DOMAIN NoRow
  /\ x.status \in RunStatus /\ x.trigger \in {"none", "manual", "step", "scheduled"}
  /\ x.revision \in Nat /\ x.slot \in Nat /\ x.only \in {0} \cup Nodes /\ x.safe \in BOOLEAN
  /\ x.status # "none" => x.draft \in DOMAIN Library /\ x.node \in [Library[x.draft].nodes -> NodeStatus]

(* Types, and what the stored fields say of each other: the workflow applies *)
(* a revision it has, and only a workflow with one is enabled.               *)
TypeOK ==
  /\ workflow \in Workflow
  /\ workflow.applied <= Current
  /\ workflow.enabled => workflow.applied # 0 /\ workflow.nextRun # 0
  /\ DOMAIN row = Runs /\ \A r \in Runs : IsRow(row[r])
  /\ phase \in {"up", "closing", "disabling", "down", "off"}
  /\ at \in [Runs -> Place] /\ stage \in [Runs -> [Nodes -> Stage]]
  /\ \A r \in Runs : at[r] # "none" => row[r].status # "none"
  /\ canceled \subseteq Runs /\ applying \in Nat
  /\ timer \in Nat /\ dues \in Nat
  /\ \A s \in starts : s.revision \in Nat /\ s.slot \in Nat
  /\ hour \in Nat /\ late \in BOOLEAN
  /\ left \in [Budget -> Nat]
  /\ approved \subseteq Runs \X Nodes /\ called \subseteq Runs \X Nodes

(* A node starts when all the nodes it comes after have ended, however the   *)
(* loop, the skips and the other nodes interleave (resolveNodeReadiness).    *)
SourcesFirst ==
  \A r \in Runs : row[r].only = 0 /\ Active(r) =>
    \A n \in Executing(r) : SourcesFinished(GraphOf(r), n, row[r].node)

(* How an edge fires: the status of its source, and its condition. *)
Fires == {"succeeded", "refuted", "failed"} \X {"always"} \cup
         {<<"succeeded", "success">>, <<"refuted", "error">>, <<"failed", "error">>}

(* A run that was not stopped leaves nothing behind: every node has run if   *)
(* it is a root or one of its edges fired, has been skipped otherwise, and    *)
(* the run succeeded when no node failed, and failed when nothing took a      *)
(* failure up.  No order of the loop's steps makes it give up early.          *)
Settled ==
  \A r \in Runs :
    LET g == GraphOf(r)
        node == row[r].node
    IN /\ at[r] = "leaving" /\ row[r].only = 0 /\ ~row[r].safe /\ r \notin canceled
       => /\ \A n \in g.nodes :
               /\ node[n] \in {"succeeded", "refuted", "failed", "skipped"}
               /\ node[n] # "skipped" <=>
                    (Into(g, n) = {} \/ \E e \in Into(g, n) : <<node[e.from], e.when>> \in Fires)
          /\ row[r].status = "succeeded" <=> \A n \in g.nodes : node[n] # "failed"
          /\ row[r].status = "failed" <=>
               \E n \in g.nodes : node[n] = "failed" /\ \A e \in g.edges : e.from = n => e.when = "success"

(* An action or a tool is called while the manager is up and the run is not  *)
(* cancelled, and, if it asks, after the person approved it in this run: an    *)
(* app action also in a step (docs/workflow-app-action-contract.md), whatever  *)
(* cancelRun, approveNode and dispose do in between.                           *)
CallsApproved ==
  [][\A c \in called' \ called :
       LET g == GraphOf(c[1])
       IN /\ Up /\ c[1] \notin canceled
          /\ g.kind[c[2]] = "action" \/ (c[2] \in g.asks /\ row[c[1]].trigger # "step") => c \in approved]_vars

(* A run that may be retried has called nothing (retryRun). *)
RetriesAreSafe ==
  \A r \in Runs : row[r].safe => row[r].status = "failed" /\ \A n \in Nodes : <<r, n>> \notin called

(* What is applied is the draft as it is now, reviewed since it was saved,   *)
(* whatever was saved, restored or deleted while the apps were looked at.      *)
AppliesReviewed ==
  [][workflow'.applied \notin {0, workflow.applied}
     => workflow'.applied = Current /\ workflow.reviewed]_vars

(* A scheduled instant starts one run at most, though the timer, a run that  *)
(* ends, the person and a restart all look at the schedule.                   *)
SlotOnce ==
  \A r, q \in Runs :
    /\ row[r].slot # 0 /\ row[r].slot = row[q].slot
    /\ row[r].status # "skipped" /\ row[q].status # "skipped"
    => r = q

(* An enabled workflow has its timer set for the next instant, or a call      *)
(* that serves it: no operation forgets the schedule.  (Applying a revision    *)
(* without a schedule does, see the README.)                                   *)
Armed ==
  Up /\ workflow.enabled /\ (\A i \in 1..Current : Of(i).scheduled)
  => timer = workflow.nextRun \/ dues > 0

(* A workflow that says it is running has a run that goes on, and the run it  *)
(* shows as unfinished goes on: after a restart too.                           *)
ShownIsLive ==
  Up => /\ workflow.running => \E r \in Runs : at[r] # "none"
        /\ workflow.lastRun # 0 /\ row[workflow.lastRun].status \notin RunEnded
           => at[workflow.lastRun] # "none"

(* A run comes to its end unless it waits for the person: the loop is always  *)
(* woken, and MAX_PARALLEL_NODES starves no node.                              *)
RunsMoveOn ==
  \A r \in Runs : at[r] # "none" ~> (at[r] = "none" \/ \E n \in Nodes : stage[r][n] = "asked")

(* Switching the feature off and closing the program come to an end,          *)
(* approvals that are waited for and starts that are decided included.        *)
DisposeEnds == Disposing ~> ~Disposing

(* One run at a time. *)
OneRun == Cardinality({r \in Runs : at[r] \notin {"none", "leaving"}}) <= 1

(* A step runs its node and no other. *)
StepIsAlone ==
  \A r \in Runs : row[r].trigger = "step" =>
    Cardinality({n \in DOMAIN row[r].node : row[r].node[n] # "skipped"}) <= 1

=============================================================================
