--------------------------- MODULE TurnQueueProofs ---------------------------
(***************************************************************************)
(* Repository collaboration implements TurnQueue, for every value of the   *)
(* constants.                                                              *)
(*                                                                         *)
(* A step of the service edits the statuses and the reservations and then  *)
(* runs pump() on the result, so the stage of a turn is read twice: after  *)
(* the edit, where only one turn may be asked for, begin or complete, and  *)
(* after pump(), which only moves what waits.                              *)
(***************************************************************************)
EXTENDS RepositoryCollaborationProofs

(* StageOf, over given statuses and reservations. *)
StageIn(st, ex, t) ==
  CASE st[t] = "absent" -> "none"
    [] st[t] = "completed" -> "done"
    [] st[t] = "queued" /\ ex[t] = "idle" -> "waiting"
    [] st[t] = "queued" /\ ex[t] # "idle" -> "held"
    [] st[t] = "running" /\ ex[t] # "idle" -> "working"
    [] st[t] \in {"cancelling", "needs_attention"} /\ ex[t] # "idle" -> "stopping"
    [] OTHER -> "ended"

(* What an edit may do to any number of turns ... *)
Calm(a, b) ==
  \/ a = b
  \/ a = "held" /\ b = "waiting"
  \/ a \in {"held", "working"} /\ b = "stopping"
  \/ a \in {"waiting", "held", "working", "stopping"} /\ b = "ended"

(* ... and to one. *)
Advance(a, b) ==
  \/ Calm(a, b)
  \/ a = "held" /\ b = "working"
  \/ a = "working" /\ b = "done"

(* The row of a new turn. *)
NewRow(n) ==
  /\ task'[n].repos \in (SUBSET Repos) \ {{}}
  /\ \/ task'[n].parent = 0
     \/ /\ task'[n].parent \in TaskId /\ status[task'[n].parent] # "absent"
        /\ \A u \in TaskId : task[u].parent # task'[n].parent

(* What a step hands to pump(), or leaves when it does not pump. *)
EditedStages(st, ex) ==
  \E n \in TaskId \cup {0} :
    \A t \in TaskId :
      \/ /\ t # n /\ task'[t] = task[t]
         /\ Calm(StageOf(t), StageIn(st, ex, t))
      \/ /\ t = n /\ task'[t] = task[t]
         /\ Advance(StageOf(t), StageIn(st, ex, t))
      \/ /\ t = n /\ NewRow(t)
         /\ StageOf(t) = "none" /\ StageIn(st, ex, t) = "waiting"

(* Every row has folders to work on. *)
RowsFull == \A t \in TaskId : status[t] # "absent" => task[t].repos # {}

-----------------------------------------------------------------------------
(* A turn has one stage. *)
LEMMA StageNow ==
  ASSUME NEW t \in TaskId
  PROVE  /\ StageOf(t) = StageIn(status, exec, t)
         /\ StageOf(t)' = StageIn(status', exec', t)
BY DEF StageOf, StageIn

(* The stage, read from the status and the reservation. *)
LEMMA StageCases ==
  ASSUME NEW st \in [TaskId -> TaskStatus], NEW ex \in [TaskId -> ExecStep], NEW t \in TaskId
  PROVE  /\ StageIn(st, ex, t) \in {"none", "waiting", "held", "working", "stopping", "done", "ended"}
         /\ StageIn(st, ex, t) = "none" <=> st[t] = "absent"
         /\ StageIn(st, ex, t) = "done" <=> st[t] = "completed"
         /\ StageIn(st, ex, t) = "waiting" <=> st[t] = "queued" /\ ex[t] = "idle"
         /\ StageIn(st, ex, t) = "held" <=> st[t] = "queued" /\ ex[t] # "idle"
         /\ StageIn(st, ex, t) = "working" <=> st[t] = "running" /\ ex[t] # "idle"
         /\ StageIn(st, ex, t) = "stopping" <=> st[t] \in {"cancelling", "needs_attention"} /\ ex[t] # "idle"
         /\ StageIn(st, ex, t) = "ended" <=>
              \/ st[t] \in {"cancelled", "failed"}
              \/ st[t] \in {"running", "cancelling", "needs_attention"} /\ ex[t] = "idle"
<1>1. st[t] \in TaskStatus /\ ex[t] \in ExecStep
  OBVIOUS
<1>2. QED
  BY <1>1 DEF StageIn, TaskStatus

(* pump() moves what waits, and only to a reservation or to an end. *)
LEMMA PumpStages ==
  ASSUME NEW st \in [TaskId -> TaskStatus], NEW ex \in [TaskId -> ExecStep],
         Pump(st, ex) \/ (status' = st /\ exec' = ex),
         Ledger(phase', st, ex, task'),
         NEW t \in TaskId
  PROVE  \/ StageOf(t)' = StageIn(st, ex, t)
         \/ StageIn(st, ex, t) = "waiting" /\ StageOf(t)' \in {"waiting", "held", "ended"}
<1>1. CASE status' = st /\ exec' = ex
  BY <1>1, StageNow
<1>2. CASE Pump(st, ex)
  <2>1. CASE t \notin Waiting(st, ex)
    <3>1. status'[t] = st[t] /\ exec'[t] = ex[t]
      BY <1>2, <2>1, PumpMoves
    <3>2. StageIn(status', exec', t) = StageIn(st, ex, t)
      BY <3>1 DEF StageIn
    <3>3. QED
      BY <3>2, StageNow
  <2>2. CASE t \in Waiting(st, ex)
    <3>1. StageIn(st, ex, t) = "waiting"
      BY <2>2 DEF Waiting, StageIn
    <3>2. /\ status' \in [TaskId -> TaskStatus] /\ exec' \in [TaskId -> ExecStep]
          /\ status'[t] \in {"queued", "cancelled", "needs_attention"}
      BY <1>2, <2>2, PumpMoves
    <3>3. status'[t] # "queued" => exec'[t] = "idle"
      <4>1. CASE phase' # "up"
        BY <1>2, <2>2, <4>1, PumpMoves DEF Waiting
      <4>2. CASE phase' = "up"
        <5>1. Ledger(phase', status', exec', task')
          BY <1>2, PumpKeepsLedger
        <5>2. exec'[t] \in {"idle", "member"}
          BY <1>2, <2>2, PumpMoves
        <5>3. QED
          BY <3>2, <4>2, <5>1, <5>2 DEF Ledger, InStep
      <4>3. QED
        BY <4>1, <4>2
    <3>4. StageIn(status', exec', t) \in {"waiting", "held", "ended"}
      BY <3>2, <3>3, StageCases
    <3>5. QED
      BY <3>1, <3>4, StageNow
  <2>3. QED
    BY <2>1, <2>2
<1>3. QED
  BY <1>1, <1>2

(* The queue compares paths as the service does. *)
LEMMA SamePrefix == \A r, s : Turns!IsPrefix(r, s) <=> IsPrefix(r, s)
BY DEF IsPrefix, Turns!IsPrefix

(* What holds folders holds them alone, after the turn it continues. *)
LEMMA HoldingIsAllowed ==
  ASSUME Ledger(phase', status', exec', task'), NEW t \in TaskId, StageOf(t)' = "held"
  PROVE  Turns!MayHold(t)
<1>1. status' \in [TaskId -> TaskStatus] /\ exec' \in [TaskId -> ExecStep]
  BY DEF Ledger, LedgerTypes
<1>2. exec'[t] # "idle"
  BY <1>1, StageNow, StageCases
<1>3. \A u \in TaskId : StageOf(u)' \in {"held", "working", "stopping"} => exec'[u] # "idle"
  BY <1>1, StageNow, StageCases
<1>4. \A u \in TaskId \ {t} : StageOf(u)' \in {"held", "working", "stopping"}
        => \A r \in task'[t].repos, s \in task'[u].repos :
             ~IsPrefix(Root[r], Root[s]) /\ ~IsPrefix(Root[s], Root[r])
  BY <1>2, <1>3 DEF Ledger, Exclusive, Conflict, RootsOverlap
<1>5. task'[t].parent # 0 => /\ task'[t].parent \in TaskId
                             /\ status'[task'[t].parent] = "completed"
  BY <1>2 DEF Ledger, InOrder, Rows
<1>6. \A u \in TaskId : status'[u] = "completed" => StageOf(u)' = "done"
  BY <1>1, StageNow, StageCases
<1>7. QED
  BY <1>4, <1>5, <1>6, SamePrefix DEF Turns!MayHold, Turns!Holding, Turns!Apart

(* An edit and the pump() after it are a step of the queue. *)
LEMMA EditAndPumpIsAStep ==
  ASSUME NEW st, NEW ex, EditedStages(st, ex),
         Ledger(phase, status, exec, task), Ledger(phase', st, ex, task'),
         Pump(st, ex) \/ (status' = st /\ exec' = ex),
         Ledger(phase', status', exec', task')
  PROVE  Turns!Next
<1>1. /\ st \in [TaskId -> TaskStatus] /\ ex \in [TaskId -> ExecStep]
      /\ status \in [TaskId -> TaskStatus] /\ exec \in [TaskId -> ExecStep]
  BY DEF Ledger, LedgerTypes
<1>2. PICK n \in TaskId \cup {0} :
        \A t \in TaskId :
          \/ t # n /\ task'[t] = task[t] /\ Calm(StageOf(t), StageIn(st, ex, t))
          \/ t = n /\ task'[t] = task[t] /\ Advance(StageOf(t), StageIn(st, ex, t))
          \/ t = n /\ NewRow(t) /\ StageOf(t) = "none" /\ StageIn(st, ex, t) = "waiting"
  BY DEF EditedStages
<1>3. \A t \in TaskId : \/ StageOf(t)' = StageIn(st, ex, t)
                        \/ StageIn(st, ex, t) = "waiting" /\ StageOf(t)' \in {"waiting", "held", "ended"}
  BY <1>1, PumpStages
<1>4. \A t \in TaskId : StageOf(t)' = "held" => Turns!MayHold(t)
  BY HoldingIsAllowed
<1>5. \A t \in TaskId : StageOf(t) \in {"none", "waiting", "held", "working", "stopping", "done", "ended"}
  BY <1>1, StageNow, StageCases
<1>6. ASSUME NEW t \in TaskId PROVE Turns!Ask(t) \/ (Turns!Known(t) /\ (Turns!Live(t) \/ Turns!Rest(t)))
  <2>1. CASE task'[t] = task[t] /\ Advance(StageOf(t), StageIn(st, ex, t))
    <3>1. Turns!Known(t)
      BY <2>1 DEF Turns!Known
    <3>2. Turns!Live(t) \/ Turns!Rest(t)
      BY <1>3, <1>4, <1>5, <2>1
         DEF Advance, Calm, Turns!Live, Turns!Rest, Turns!Become, Turns!Stage,
             Turns!Hold, Turns!GiveBack, Turns!Begin, Turns!Complete, Turns!Stop, Turns!End
    <3>3. QED
      BY <3>1, <3>2
  <2>2. CASE NewRow(t) /\ StageOf(t) = "none" /\ StageIn(st, ex, t) = "waiting"
    <3>1. task'[t].parent \in TaskId /\ status[task'[t].parent] # "absent"
            => StageOf(task'[t].parent) # "none"
      BY <1>1, StageNow, StageCases
    <3>2. QED
      BY <1>3, <1>4, <2>2, <3>1 DEF NewRow, Turns!Ask, Turns!Become
  <2>3. QED
    BY <1>2, <2>1, <2>2 DEF Advance
<1>7. ASSUME NEW t \in TaskId, NEW u \in TaskId, t # u
      PROVE  ~(Turns!Begin(t) /\ Turns!Begin(u)) /\ ~(Turns!Complete(t) /\ Turns!Complete(u))
             /\ ~(Turns!Ask(t) /\ Turns!Ask(u))
  <2>1. ASSUME NEW v \in TaskId, v # n PROVE ~Turns!Begin(v) /\ ~Turns!Complete(v) /\ ~Turns!Ask(v)
    BY <1>2, <1>3, <2>1 DEF Calm, Turns!Begin, Turns!Complete, Turns!Ask, Turns!Become
  <2>2. QED
    BY <1>7, <2>1
<1>8. QED
  BY <1>6, <1>7 DEF Turns!Next


-----------------------------------------------------------------------------
(***************************************************************************)
(* The edit of every action.                                               *)
(***************************************************************************)

(* An action edits, and pumps or not. *)
EditsAndPumps ==
  \E st, ex : /\ EditedStages(st, ex)
              /\ Ledger(phase', st, ex, task')
              /\ Pump(st, ex) \/ (status' = st /\ exec' = ex)

(* An edit that only stops, gives back or ends turns. *)
LEMMA CalmEdit ==
  ASSUME NEW st, NEW ex, task' = task,
         \A t \in TaskId : Calm(StageOf(t), StageIn(st, ex, t))
  PROVE  EditedStages(st, ex)
<1>1. \A t \in TaskId : t # 0
  BY DEF TaskId
<1>2. QED
  BY <1>1 DEF EditedStages

(* An edit that moves one turn on. *)
LEMMA OneEdit ==
  ASSUME NEW st, NEW ex, task' = task, NEW n \in TaskId,
         \A t \in TaskId \ {n} : st[t] = status[t] /\ ex[t] = exec[t],
         Advance(StageOf(n), StageIn(st, ex, n))
  PROVE  EditedStages(st, ex)
<1>1. \A t \in TaskId \ {n} : Calm(StageOf(t), StageIn(st, ex, t))
  BY StageNow DEF StageIn, Calm
<1>2. QED
  BY <1>1 DEF EditedStages

(* What leaves the rows, their statuses and the reservations alone. *)
LEMMA NothingMovedStages ==
  ASSUME Kept, UNCHANGED <<task, status, exec>> PROVE EditsAndPumps
<1>1. EditedStages(status, exec)
  BY StageNow, CalmEdit DEF Calm
<1>2. QED
  BY <1>1 DEF EditsAndPumps, Kept

(* cancel(): what waits ends, what holds folders is told to stop. *)
LEMMA CancelledStages ==
  ASSUME QueueInv, task' = task, NEW hit \in SUBSET Live(status)
  PROVE  EditedStages(Cancelled(status, exec, hit), exec)
<1> DEFINE st == Cancelled(status, exec, hit)
<1>1. /\ status \in [TaskId -> TaskStatus] /\ exec \in [TaskId -> ExecStep]
      /\ st \in [TaskId -> TaskStatus]
  BY DEF QueueInv, Ledger, LedgerTypes, Cancelled, TaskStatus
<1>2. \A t \in TaskId : \/ st[t] = status[t]
                        \/ /\ status[t] \in {"queued", "running"}
                           /\ st[t] = IF exec[t] = "idle" THEN "cancelled" ELSE "cancelling"
  BY DEF Cancelled, Live
<1> HIDE DEF st
<1>3. \A t \in TaskId : Calm(StageOf(t), StageIn(st, exec, t))
  <2>1. TAKE t \in TaskId
  <2>2. CASE st[t] = status[t]
    BY <2>2, StageNow DEF Calm, StageIn
  <2>3. CASE st[t] # status[t]
    BY <1>1, <1>2, <2>3, StageNow, StageCases DEF Calm
  <2>4. QED
    BY <2>2, <2>3
<1>4. EditedStages(st, exec)
  BY <1>3, CalmEdit
<1>5. QED
  BY <1>4 DEF st

(* A step that only cancels. *)
LEMMA CancelSteps ==
  ASSUME QueueInv, Kept, UNCHANGED <<task, exec>>, NEW hit \in SUBSET Live(status),
         status' = Cancelled(status, exec, hit)
  PROVE  EditsAndPumps
BY CancelledStages DEF EditsAndPumps, Kept

(* A process that ends gives everything back. *)
LEMMA DownSteps ==
  ASSUME QueueInv, Kept, UNCHANGED <<task, status>>, exec' = [t \in TaskId |-> "idle"]
  PROVE  EditsAndPumps
<1>1. /\ status \in [TaskId -> TaskStatus] /\ exec \in [TaskId -> ExecStep]
      /\ exec' \in [TaskId -> ExecStep]
  BY DEF QueueInv, Ledger, LedgerTypes, ExecStep
<1>2. \A t \in TaskId : exec'[t] = "idle"
  OBVIOUS
<1>3. \A t \in TaskId : Calm(StageOf(t), StageIn(status, exec', t))
  BY <1>1, <1>2, StageNow, StageCases DEF Calm, TaskStatus
<1>4. QED
  BY <1>3, CalmEdit DEF EditsAndPumps, Kept

(* start() ends nothing that had not ended with the process. *)
LEMMA StartSteps == ASSUME QueueInv, Start PROVE EditsAndPumps
<1>1. /\ status \in [TaskId -> TaskStatus] /\ exec \in [TaskId -> ExecStep]
      /\ \A t \in TaskId : exec[t] = "idle"
  BY DEF QueueInv, Ledger, LedgerTypes, Backed, Start
<1>2. \A t \in TaskId : StageIn(Recovered, exec, t) = StageIn(status, exec, t)
  BY <1>1 DEF StageIn, Recovered, SetStatus, Interrupted
<1>3. EditedStages(Recovered, exec)
  BY <1>2, StageNow, CalmEdit DEF Calm, Start
<1>4. Ledger(phase', Recovered, exec, task') /\ Pump(Recovered, exec)
  BY RecoveredIsEdited DEF Edited
<1>5. QED
  BY <1>3, <1>4 DEF EditsAndPumps

(* stop() tells what runs to stop. *)
LEMMA StopSteps == ASSUME QueueInv, Kept, Stop PROVE EditsAndPumps
<1>1. /\ status \in [TaskId -> TaskStatus] /\ exec \in [TaskId -> ExecStep]
      /\ status' \in [TaskId -> TaskStatus] /\ exec' = exec /\ task' = task
      /\ \A t \in TaskId : \/ status'[t] = status[t]
                           \/ /\ status[t] = "running" /\ exec[t] # "idle"
                              /\ status'[t] = "needs_attention"
  BY DEF QueueInv, Ledger, LedgerTypes, Stop, SetStatus, Active, TaskStatus
<1>2. \A t \in TaskId : Calm(StageOf(t), StageIn(status', exec', t))
  <2>1. TAKE t \in TaskId
  <2>2. CASE status'[t] = status[t]
    BY <1>1, <2>2, StageNow DEF Calm, StageIn
  <2>3. CASE status'[t] # status[t]
    BY <1>1, <2>3, StageNow, StageCases DEF Calm
  <2>4. QED
    BY <2>2, <2>3
<1>3. QED
  BY <1>1, <1>2, CalmEdit DEF EditsAndPumps, Kept

(* The timer edits nothing. *)
LEMMA TickSteps == ASSUME QueueInv, Tick PROVE EditsAndPumps
<1>1. EditedStages(status, exec)
  BY StageNow, CalmEdit DEF Calm, Tick
<1>2. Edited(status, exec) /\ Pump(status, exec)
  BY SameIsEdited DEF Tick
<1>3. QED
  BY <1>1, <1>2 DEF EditsAndPumps, Edited

(* An owner change only cancels, or the process dies. *)
LEMMA OwnerChangeSteps ==
  ASSUME QueueInv, Kept, NEW out, NEW pumps, NEW calls, OwnerChange(out, pumps, calls)
  PROVE  EditsAndPumps
<1>1. task' = task
  BY DEF OwnerChange
<1>2. CASE Die /\ status' = status
  BY <1>1, <1>2, DownSteps DEF Die
<1>3. CASE Settle(out, pumps)
  <2> DEFINE st == Cancelled(status, exec, Unauthorized(status))
  <2>1. Edited(st, exec) /\ Unauthorized(status) \subseteq Live(status)
    BY <1>1, <1>3, SettleEdits
  <2>2. EditedStages(st, exec)
    BY <1>1, <2>1, CancelledStages
  <2>3. Pump(st, exec) \/ (status' = st /\ exec' = exec)
    BY <1>3 DEF Settle
  <2> HIDE DEF st
  <2>4. QED
    BY <2>1, <2>2, <2>3 DEF EditsAndPumps, Edited
<1>4. QED
  BY <1>2, <1>3 DEF OwnerChange

(* A new row is asked for, at the end of its conversation or of its own. *)
LEMMA CreateSteps ==
  ASSUME QueueInv, UNCHANGED <<configVars, phase>>,
         NEW n \in TaskId, NEW row, CreateTask(n, row),
         Pump([status EXCEPT ![n] = "queued"], exec),
         row.group \in Groups, row.author \in Participants,
         row.repos \in (SUBSET Repos) \ {{}},
         \/ row.parent = 0 /\ row.chain = {}
         \/ /\ row.parent \in TaskId /\ Exists(row.parent)
            /\ row.chain = task[row.parent].chain \cup {row.parent}
            /\ \A v \in TaskId : Exists(v) => task[v].parent # row.parent
  PROVE  EditsAndPumps
<1> DEFINE st == [status EXCEPT ![n] = "queued"]
<1>1. /\ status \in [TaskId -> TaskStatus] /\ exec \in [TaskId -> ExecStep]
      /\ st \in [TaskId -> TaskStatus]
      /\ task' = [task EXCEPT ![n] = row] /\ task \in [TaskId -> TaskRow]
      /\ status[n] = "absent" /\ exec[n] = "idle"
  BY DEF QueueInv, Ledger, LedgerTypes, Backed, TypeOK, CreateTask, IsNextId, FreeId, TaskStatus
<1>2. st[n] = "queued" /\ \A t \in TaskId \ {n} : st[t] = status[t] /\ task'[t] = task[t]
  BY <1>1
<1>3. task'[n] = row
  BY <1>1
<1>4. Edited(st, exec)
  BY CreateEdits
<1> HIDE DEF st
<1>5. \A t \in TaskId \ {n} : Calm(StageOf(t), StageIn(st, exec, t))
  BY <1>2, StageNow DEF Calm, StageIn
<1>6. StageOf(n) = "none" /\ StageIn(st, exec, n) = "waiting"
  BY <1>1, <1>2, StageNow DEF StageIn
<1>7. NewRow(n)
  <2>1. \A u \in TaskId : row.parent # 0 => task[u].parent # row.parent
    BY DEF QueueInv, Ledger, Rows, Exists
  <2>2. QED
    BY <1>3, <2>1 DEF NewRow, Exists
<1>8. EditedStages(st, exec)
  BY <1>2, <1>5, <1>6, <1>7 DEF EditedStages
<1>9. QED
  BY <1>4, <1>8 DEF EditsAndPumps, Edited, st

(* A retry asks for the folders of the task it retries. *)
LEMMA FinishRetrySteps ==
  ASSUME QueueInv, RowsFull, NEW t \in TaskId, FinishRetry(t) PROVE EditsAndPumps
<1> DEFINE row == NewTask(task[t].group, task[t].author, task[t].repos, 0, task[t].source)
<1>1. PICK n \in TaskId : CreateTask(n, row) /\ Pump([status EXCEPT ![n] = "queued"], exec)
  BY DEF FinishRetry
<1>2. /\ row.group \in Groups /\ row.author \in Participants
      /\ row.repos \in (SUBSET Repos) \ {{}}
      /\ row.parent = 0 /\ row.chain = {}
  <2>1. status[t] # "absent" /\ task[t] \in TaskRow
    BY DEF FinishRetry, QueueInv, RowsTyped
  <2>2. task[t].repos # {} /\ task[t].repos \subseteq Repos
    BY <2>1 DEF RowsFull, TaskRow
  <2>3. QED
    BY <2>1, <2>2 DEF NewTask, QueueInv, RowsTyped
<1>3. UNCHANGED <<configVars, phase>>
  BY DEF FinishRetry
<1> HIDE DEF row
<1>4. QED
  BY <1>1, <1>2, <1>3, CreateSteps

(* Work asks for folders its author selected, or for those of its conversation. *)
LEMMA AcceptWorkSteps ==
  ASSUME QueueInv, RowsFull, AcceptWork PROVE EditsAndPumps
<1> DEFINE m == intake.message
<1>1. PICK parent \in 0..MaxTasks, n \in TaskId :
        /\ IsParent(parent, m) /\ ~Refusal(parent, m)
        /\ CreateTask(n, NewTask(m.group, m.sender, Selection(parent, m), parent, Receipt(m)))
        /\ Pump([status EXCEPT ![n] = "queued"], exec)
  BY DEF AcceptWork
<1> DEFINE row == NewTask(m.group, m.sender, Selection(parent, m), parent, Receipt(m))
<1>2. m \in Messages /\ intake.granted \subseteq Repos
  BY DEF AcceptWork, Admitted, QueueInv, TypeOK
<1>3. m.group \in Groups /\ m.sender \in Participants
  BY <1>2, ServiceAssumption DEF WellFormed
<1>4. parent # 0 => /\ parent \in TaskId /\ Exists(parent)
                    /\ \A v \in TaskId : Exists(v) => task[v].parent # parent
  BY <1>1 DEF IsParent, IsLatest
<1>5. Selection(parent, m) \in (SUBSET Repos) \ {{}}
  <2>1. Selection(parent, m) # {}
    BY <1>1 DEF Refusal
  <2>2. Selected(m) \subseteq Repos
    BY <1>2 DEF Selected
  <2>3. parent # 0 => task[parent].repos \subseteq Repos
    BY <1>4 DEF QueueInv, TypeOK, TaskRow
  <2>4. Selection(parent, m) \subseteq Repos
    BY <2>2, <2>3 DEF Selection
  <2>5. QED
    BY <2>1, <2>4
<1>6. /\ row.group \in Groups /\ row.author \in Participants
      /\ row.repos \in (SUBSET Repos) \ {{}}
      /\ row.parent = parent
      /\ row.chain = IF parent = 0 THEN {} ELSE task[parent].chain \cup {parent}
  BY <1>3, <1>5 DEF NewTask
<1>7. UNCHANGED <<configVars, phase>>
  BY DEF AcceptWork, intakeFrame
<1>8. CreateTask(n, row) /\ Pump([status EXCEPT ![n] = "queued"], exec)
  BY <1>1
<1> HIDE DEF row
<1>9. \/ row.parent = 0 /\ row.chain = {}
      \/ /\ row.parent \in TaskId /\ Exists(row.parent)
         /\ row.chain = task[row.parent].chain \cup {row.parent}
         /\ \A v \in TaskId : Exists(v) => task[v].parent # row.parent
  BY <1>4, <1>6
<1>10. QED
  BY <1>6, <1>7, <1>8, <1>9, CreateSteps

(* The finally block, on statuses that cancel() may have changed first. *)
LEMMA ReleaseSteps ==
  ASSUME QueueInv, task' = task, NEW t \in TaskId, NEW st, exec[t] # "idle",
         Edited(st, exec), phase' = "up" => st[t] # "running",
         \/ st = status
         \/ \E hit \in SUBSET Live(status) : st = Cancelled(status, exec, hit),
         Release(t, st)
  PROVE  EditsAndPumps
<1> DEFINE st2 == [st EXCEPT ![t] = IF @ = "cancelling" THEN "cancelled" ELSE @]
           ex2 == [exec EXCEPT ![t] = "idle"]
<1>1. Edited(st2, ex2) /\ Pump(st2, ex2)
  BY ReleaseEdits DEF Release
<1>2. /\ status \in [TaskId -> TaskStatus] /\ exec \in [TaskId -> ExecStep]
      /\ st \in [TaskId -> TaskStatus]
  BY DEF QueueInv, Edited, Ledger, LedgerTypes
<1>3. /\ st2 \in [TaskId -> TaskStatus] /\ ex2 \in [TaskId -> ExecStep]
      /\ st2[t] = (IF st[t] = "cancelling" THEN "cancelled" ELSE st[t]) /\ ex2[t] = "idle"
      /\ \A u \in TaskId \ {t} : st2[u] = st[u] /\ ex2[u] = exec[u]
  BY <1>2 DEF TaskStatus, ExecStep
<1> HIDE DEF st2, ex2
<1>4. \A u \in TaskId : \/ st[u] = status[u]
                        \/ /\ status[u] \in {"queued", "running"}
                           /\ st[u] = IF exec[u] = "idle" THEN "cancelled" ELSE "cancelling"
  BY DEF Cancelled, Live
<1>5. status[t] # "absent"
  BY DEF QueueInv, Ledger, Backed
<1>6. \A u \in TaskId : Calm(StageOf(u), StageIn(st2, ex2, u))
  <2>1. TAKE u \in TaskId
  <2>2. CASE u # t
    <3>1. st2[u] = st[u] /\ ex2[u] = exec[u]
      BY <1>3, <2>2
    <3>2. CASE st[u] = status[u]
      BY <3>1, <3>2, StageNow DEF Calm, StageIn
    <3>3. CASE st[u] # status[u]
      BY <1>2, <1>3, <1>4, <3>1, <3>3, StageNow, StageCases DEF Calm
    <3>4. QED
      BY <3>2, <3>3
  <2>3. CASE u = t
    <3>1. StageIn(st2, ex2, t) = (IF status[t] = "completed" THEN "done"
                                  ELSE IF status[t] = "queued" /\ st[t] = status[t] THEN "waiting" ELSE "ended")
      BY <1>2, <1>3, <1>4, <1>5, StageCases DEF TaskStatus
    <3>2. QED
      BY <1>2, <1>5, <2>3, <3>1, StageNow, StageCases DEF Calm
  <2>4. QED
    BY <2>2, <2>3
<1>7. EditedStages(st2, ex2)
  BY <1>6, CalmEdit
<1>8. QED
  BY <1>1, <1>7 DEF EditsAndPumps, Edited

(* return, with nothing cancelled. *)
LEMMA ReturnSteps ==
  ASSUME QueueInv, UNCHANGED <<configVars, task, phase>>,
         NEW t \in TaskId, exec[t] # "idle",
         status[t] = "running" => ~MayRun(t),
         Return(t)
  PROVE  EditsAndPumps
<1>1. phase' = "up" => status[t] # "running"
  BY DEF QueueInv, AuthorizedWork, Live, MayRun, Aborted
<1>2. QED
  BY <1>1, SameIsEdited, ReleaseSteps DEF Return

(* The author has left: cancel, then return. *)
LEMMA ExpelledSteps ==
  ASSUME QueueInv, UNCHANGED <<configVars, task, phase>>,
         NEW t \in TaskId, exec[t] # "idle", Expelled(t)
  PROVE  EditsAndPumps
<1> DEFINE hit == Hit(status, {t})
           st == Cancelled(status, exec, hit)
<1>1. hit \in SUBSET Live(status)
  BY HitIsLive
<1>2. Edited(st, exec)
  BY <1>1, CancelEdits
<1>3. st[t] # "running"
  <2>1. t \in Live(status) => t \in hit
    BY HitIsLive
  <2>2. QED
    BY <2>1 DEF Cancelled, Live
<1>4. Release(t, st)
  BY DEF Expelled
<1>5. \E h \in SUBSET Live(status) : st = Cancelled(status, exec, h)
  BY <1>1
<1> HIDE DEF hit, st
<1>6. QED
  BY <1>2, <1>3, <1>4, <1>5, ReleaseSteps

(* A run fails, or completes: only while it works. *)
LEMMA EndSteps ==
  ASSUME QueueInv, UNCHANGED <<configVars, task, phase>>,
         NEW t \in TaskId, exec[t] # "idle", phase = "up",
         NEW s \in {"failed", "completed"}, s = "completed" => status[t] = "running",
         Release(t, [status EXCEPT ![t] = s])
  PROVE  EditsAndPumps
<1> DEFINE st == [status EXCEPT ![t] = s]
           ex == [exec EXCEPT ![t] = "idle"]
<1>1. Edited(st, ex) /\ Pump(st, ex)
  BY EndEdits
<1>2. /\ status \in [TaskId -> TaskStatus] /\ exec \in [TaskId -> ExecStep]
      /\ st \in [TaskId -> TaskStatus] /\ ex \in [TaskId -> ExecStep]
      /\ status[t] \in {"queued", "running", "cancelling"}
  BY DEF QueueInv, Ledger, LedgerTypes, InStep, ExecStep, TaskStatus
<1>3. /\ st[t] = s /\ ex[t] = "idle"
      /\ \A u \in TaskId \ {t} : st[u] = status[u] /\ ex[u] = exec[u]
  BY <1>2
<1> HIDE DEF st, ex
<1>4. Advance(StageOf(t), StageIn(st, ex, t))
  BY <1>2, <1>3, StageNow, StageCases DEF Advance, Calm
<1>5. EditedStages(st, ex)
  BY <1>3, <1>4, OneEdit
<1>6. QED
  BY <1>1, <1>5 DEF EditsAndPumps, Edited

(* The catch block. *)
LEMMA FailsSteps ==
  ASSUME QueueInv, UNCHANGED <<configVars, task, phase>>,
         NEW t \in TaskId, exec[t] # "idle", Fails(t)
  PROVE  EditsAndPumps
<1>1. CASE Aborted(t) \/ status[t] = "cancelled"
  BY <1>1, ReturnSteps DEF Fails, MayRun
<1>2. CASE ~Aborted(t) /\ status[t] # "cancelled"
  BY <1>2, EndSteps DEF Fails, Aborted
<1>3. QED
  BY <1>1, <1>2

(* One reservation changes, and the statuses do not. *)
LEMMA ReservationSteps ==
  ASSUME QueueInv, Kept, UNCHANGED <<task, status>>,
         NEW t \in TaskId, exec[t] # "idle", NEW e \in ExecStep, exec' = [exec EXCEPT ![t] = e],
         e = "idle" => status[t] = "queued"
  PROVE  EditsAndPumps
<1>1. /\ status \in [TaskId -> TaskStatus] /\ exec \in [TaskId -> ExecStep]
      /\ exec' \in [TaskId -> ExecStep] /\ exec'[t] = e
      /\ \A u \in TaskId \ {t} : exec'[u] = exec[u]
  BY DEF QueueInv, Ledger, LedgerTypes
<1>2. Calm(StageOf(t), StageIn(status, exec', t))
  <2>1. CASE e # "idle"
    BY <1>1, <2>1, StageNow DEF Calm, StageIn
  <2>2. CASE e = "idle"
    BY <1>1, <2>2, StageNow DEF Calm, StageIn
  <2>3. QED
    BY <2>1, <2>2
<1>3. EditedStages(status', exec')
  BY <1>1, <1>2, OneEdit DEF Advance
<1>4. QED
  BY <1>3 DEF EditsAndPumps, Kept

(* execute(), one await after the other. *)
LEMMA ExecutionSteps == ASSUME QueueInv, Kept, Execution PROVE EditsAndPumps
<1>1. PICK t \in TaskId : \/ MemberAnswered(t) \/ Validated(t) \/ Executed(t) \/ Remembered(t)
                          \/ ExecutionFails(t) \/ RefreshMembership(t)
  BY DEF Execution
<1>2. CASE MemberAnswered(t)
  <2>1. UNCHANGED <<configVars, task, phase>> /\ exec[t] # "idle"
    BY <1>2 DEF MemberAnswered, execFrame
  <2>2. CASE exec' = [exec EXCEPT ![t] = "validate"] /\ status' = status
    BY <2>1, <2>2, ReservationSteps DEF ExecStep
  <2>3. CASE status[t] = "queued" /\ exec' = [exec EXCEPT ![t] = "idle"] /\ status' = status
    BY <2>1, <2>3, ReservationSteps DEF ExecStep
  <2>4. CASE Expelled(t)
    BY <2>1, <2>4, ExpelledSteps
  <2>5. CASE Fails(t)
    BY <2>1, <2>5, FailsSteps
  <2>6. QED
    BY <1>2, <2>2, <2>3, <2>4, <2>5 DEF MemberAnswered
<1>3. CASE Validated(t)
  <2>1. UNCHANGED <<configVars, task, phase>> /\ exec[t] = "validate"
    BY <1>3 DEF Validated, execFrame
  <2>2. CASE MayRun(t)
    <3>1. /\ status' = [status EXCEPT ![t] = "running"]
          /\ exec' = [exec EXCEPT ![t] = "run"]
      BY <1>3, <2>2 DEF Validated
    <3>2. /\ status \in [TaskId -> TaskStatus] /\ exec \in [TaskId -> ExecStep]
          /\ status[t] = "queued"
      BY <2>1, <2>2 DEF MayRun, Aborted, QueueInv, Ledger, LedgerTypes, InStep
    <3>3. /\ status'[t] = "running" /\ exec'[t] = "run"
          /\ \A u \in TaskId \ {t} : status'[u] = status[u] /\ exec'[u] = exec[u]
      BY <3>1, <3>2
    <3>4. Advance(StageOf(t), StageIn(status', exec', t))
      BY <2>1, <3>2, <3>3, StageNow DEF Advance, StageIn
    <3>5. EditedStages(status', exec')
      BY <2>1, <3>3, <3>4, OneEdit
    <3>6. QED
      BY <3>5 DEF EditsAndPumps, Kept
  <2>3. CASE ~MayRun(t)
    BY <1>3, <2>1, <2>3, ReturnSteps DEF Validated
  <2>4. QED
    BY <2>2, <2>3
<1>4. CASE Executed(t)
  <2>1. UNCHANGED <<configVars, task, phase>> /\ exec[t] # "idle"
    BY <1>4 DEF Executed, execFrame
  <2>2. CASE MayRun(t) /\ status[t] = "running"
    BY <1>4, <2>1, <2>2, ReservationSteps DEF Executed, ExecStep
  <2>3. CASE ~(MayRun(t) /\ status[t] = "running")
    BY <1>4, <2>1, <2>3, ReturnSteps DEF Executed
  <2>4. QED
    BY <2>2, <2>3
<1>5. CASE Remembered(t)
  <2>1. UNCHANGED <<configVars, task, phase>> /\ exec[t] # "idle"
    BY <1>5 DEF Remembered, execFrame
  <2>2. CASE Expelled(t)
    BY <2>1, <2>2, ExpelledSteps
  <2>3. CASE MayRun(t) /\ status[t] = "running" /\ Release(t, [status EXCEPT ![t] = "completed"])
    BY <2>1, <2>3, EndSteps DEF MayRun, Aborted
  <2>4. CASE ~(MayRun(t) /\ status[t] = "running") /\ Return(t)
    BY <2>1, <2>4, ReturnSteps
  <2>5. QED
    BY <1>5, <2>2, <2>3, <2>4 DEF Remembered
<1>6. CASE ExecutionFails(t)
  BY <1>6, FailsSteps DEF ExecutionFails, execFrame
<1>7. CASE RefreshMembership(t)
  BY <1>7, HitIsLive, CancelSteps DEF RefreshMembership, CancelTurn, cancelFrame
<1>8. QED
  BY <1>1, <1>2, <1>3, <1>4, <1>5, <1>6, <1>7

(* Every step edits as the queue allows. *)
LEMMA NextSteps == ASSUME QueueInv, RowsFull, Kept, Next PROVE EditsAndPumps
<1>1. CASE Lifecycle
  <2>1. CASE Stopped
    <3>1. exec' = [t \in TaskId |-> "idle"]
      BY <2>1 DEF Stopped, Active, QueueInv, Ledger, LedgerTypes
    <3>2. QED
      BY <2>1, <3>1, DownSteps DEF Stopped, storeVars
  <2>2. CASE Crash
    BY <2>2, DownSteps DEF Crash, Die, storeVars
  <2>3. QED
    BY <1>1, <2>1, <2>2, StartSteps, StopSteps, TickSteps DEF Lifecycle
<1>2. CASE Owner
  <2>1. CASE \E g \in Groups : Pause(g) \/ FinishEnable(g)
    BY <2>1, OwnerChangeSteps DEF Pause, FinishEnable
  <2>2. CASE \E r \in Repos : RemoveRepository(r)
    BY <2>2, OwnerChangeSteps DEF RemoveRepository
  <2>3. CASE \E g \in Groups, p \in Participants : \E R \in SUBSET Linked(g) : SetAccess(g, p, R)
    BY <2>3, OwnerChangeSteps DEF SetAccess
  <2>4. CASE \E t \in TaskId : CancelTask(t)
    BY <2>4, HitIsLive, CancelSteps DEF CancelTask, CancelTurn, cancelFrame
  <2>5. CASE \E t \in TaskId : FinishRetry(t)
    BY <2>5, FinishRetrySteps
  <2>6. CASE \/ \E r \in Repos : AddRepository(r)
             \/ \E g \in Groups : BeginEnable(g) \/ RefuseEnable(g)
             \/ \E t \in TaskId : BeginRetry(t) \/ RefuseRetry(t)
    BY <2>6, NothingMovedStages DEF AddRepository, BeginEnable, RefuseEnable, BeginRetry, RefuseRetry, storeVars
  <2>7. QED
    BY <1>2, <2>1, <2>2, <2>3, <2>4, <2>5, <2>6 DEF Owner
<1>3. CASE Execution
  BY <1>3, ExecutionSteps
<1>4. CASE Intake
  <2>1. CASE AnswerCommand
    <3>1. PICK hit : hit \subseteq Live(status) /\ status' = Cancelled(status, exec, hit)
      BY <2>1, HitIsLive DEF AnswerCommand
    <3>2. QED
      BY <2>1, <3>1, CancelSteps DEF AnswerCommand
  <2>2. CASE (\E m \in Messages : Deliver(m)) \/ AnswerHelp \/ Ignore
    BY <2>2, NothingMovedStages DEF Deliver, AnswerHelp, Ignore, storeVars
  <2>3. QED
    BY <1>4, <2>1, <2>2, AcceptWorkSteps DEF Intake
<1>5. CASE Delivery
  BY <1>5, NothingMovedStages
     DEF Delivery, deliveryFrame, RosterAnswered, Throttled, RateLimited, Sends, Sent, DeliveryFails
<1>6. QED
  BY <1>1, <1>2, <1>3, <1>4, <1>5 DEF Next

(* Rows keep folders to work on. *)
LEMMA RowsStayFull ==
  ASSUME QueueInv, RowsFull, Kept, EditsAndPumps PROVE RowsFull'
<1>1. PICK st, ex : /\ EditedStages(st, ex) /\ Ledger(phase', st, ex, task')
                    /\ Pump(st, ex) \/ (status' = st /\ exec' = ex)
  BY DEF EditsAndPumps
<1>2. /\ st \in [TaskId -> TaskStatus] /\ ex \in [TaskId -> ExecStep]
      /\ status \in [TaskId -> TaskStatus] /\ exec \in [TaskId -> ExecStep]
      /\ status' \in [TaskId -> TaskStatus] /\ exec' \in [TaskId -> ExecStep]
  BY <1>1 DEF QueueInv, Kept, Ledger, LedgerTypes
<1>3. SUFFICES ASSUME NEW t \in TaskId, status'[t] # "absent" PROVE task'[t].repos # {}
  BY DEF RowsFull
<1>4. CASE NewRow(t)
  BY <1>4 DEF NewRow
<1>5. CASE task'[t] = task[t] /\ Advance(StageOf(t), StageIn(st, ex, t))
  <2>1. StageIn(st, ex, t) # "none"
    BY <1>1, <1>2, <1>3, PumpStages, StageNow, StageCases
  <2>2. StageOf(t) # "none"
    BY <1>5, <2>1 DEF Advance, Calm
  <2>3. status[t] # "absent"
    BY <1>2, <2>2, StageNow, StageCases
  <2>4. QED
    BY <1>5, <2>3 DEF RowsFull
<1>6. QED
  BY <1>1, <1>4, <1>5 DEF EditedStages, Advance

(* The invariant of the service, with rows that have folders. *)
QInv == IInv /\ RowsFull

(* Every step of the service is a step of the queue, or changes nothing of it. *)
LEMMA StepRefines ==
  ASSUME QInv, [Next]_vars PROVE QInv' /\ [Turns!Next]_Turns!vars
<1>1. IInv' /\ Kept
  BY StepKeeps DEF QInv
<1>2. CASE Next
  <2>1. EditsAndPumps
    BY <1>1, <1>2, NextSteps, IInvQueue DEF QInv
  <2>2. RowsFull'
    BY <1>1, <2>1, RowsStayFull, IInvQueue DEF QInv
  <2>3. Turns!Next
    BY <1>1, <2>1, EditAndPumpIsAStep DEF EditsAndPumps, Kept, QInv, IInv
  <2>4. QED
    BY <1>1, <2>2, <2>3 DEF QInv
<1>3. CASE UNCHANGED vars
  <2>1. UNCHANGED <<task, status, exec>>
    BY <1>3 DEF vars, storeVars, serviceVars
  <2>2. RowsFull'
    BY <2>1 DEF QInv, RowsFull
  <2>3. UNCHANGED Turns!vars
    BY <2>1 DEF Turns!vars, StageOf
  <2>4. QED
    BY <1>1, <2>2, <2>3 DEF QInv
<1>4. QED
  BY <1>2, <1>3

(* Repository collaboration implements the queue of turns: under any roster, *)
(* owner changes, cancellations, stops and crashes, folders are held from    *)
(* the reservation until the work has stopped, a turn is worked on once at   *)
(* most, after the turn it continues, and a conversation is a line           *)
(* (service.ts:533-591, 633-699).                                            *)
THEOREM Refinement == Spec => ImplementsTurnQueue
<1>1. Init => QInv /\ Turns!Init
  <2>1. SUFFICES ASSUME Init PROVE QInv /\ Turns!Init
    OBVIOUS
  <2>2. IInv /\ RowsFull
    BY <2>1, InitIInv DEF Init, RowsFull
  <2>3. Turns!Init
    BY <2>1 DEF Init, Turns!Init, StageOf, NoTask
  <2>4. QED
    BY <2>2, <2>3 DEF QInv
<1>2. QInv /\ [Next]_vars => QInv' /\ [Turns!Next]_Turns!vars
  BY StepRefines
<1>3. QED
  BY <1>1, <1>2, PTL DEF Spec, ImplementsTurnQueue, Turns!Spec

=============================================================================
