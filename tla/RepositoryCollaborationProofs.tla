-------------------- MODULE RepositoryCollaborationProofs --------------------
(***************************************************************************)
(* Proofs about RepositoryCollaboration, for every set of groups, people,  *)
(* repositories and messages and every bound.                              *)
(*                                                                         *)
(* Almost every action edits the statuses and reservations and then lets   *)
(* pump() loose on the result, so the inductive invariant is stated over   *)
(* four arguments (the phase, the statuses, the reservations, the rows)    *)
(* instead of over the variables: Ledger holds before the action, the edit *)
(* keeps it, and pump() keeps it whatever it starts from.                  *)
(***************************************************************************)
EXTENDS RepositoryCollaboration, TLAPS

(* The invariant, part by part: ph the phase, st the statuses, ex the        *)
(* reservations, tk the rows.                                                *)
LedgerTypes(ph, st, ex) ==
  /\ ph \in {"down", "up", "stopping"}
  /\ st \in [TaskId -> TaskStatus]
  /\ ex \in [TaskId -> ExecStep]

(* Folders are held by one turn at a time. *)
Exclusive(ex, tk) ==
  \A t, u \in TaskId :
    ex[t] # "idle" /\ ex[u] # "idle" /\ t # u => ~Conflict(tk[t].repos, tk[u].repos)

(* Only what exists holds folders, and nothing does while the program is down. *)
Backed(ph, st, ex) ==
  \A t \in TaskId : ex[t] # "idle" => ph # "down" /\ st[t] # "absent"

(* While the program is up, the status of a run says how far it is. *)
InStep(ph, st, ex) ==
  ph = "up" =>
    \A t \in TaskId :
      /\ st[t] \in {"running", "cancelling"} => ex[t] # "idle"
      /\ ex[t] \in {"member", "validate"} => st[t] \in {"queued", "cancelling"}
      /\ ex[t] \in {"run", "remember"} => st[t] \in {"running", "cancelling"}

(* Ids are handed out in order, and a conversation only points backwards. *)
Rows(st, tk) ==
  \A t \in TaskId :
    /\ st[t] = "absent" => tk[t].parent = 0
    /\ st[t] # "absent" => \A u \in TaskId : u < t => st[u] # "absent"
    /\ tk[t].parent = 0 => tk[t].chain = {}
    /\ tk[t].parent # 0 => /\ tk[t].parent \in TaskId
                           /\ tk[t].parent < t
                           /\ st[tk[t].parent] # "absent"
                           /\ tk[t].parent \in tk[t].chain
                           /\ \A a \in tk[t].chain : a \in TaskId /\ a <= tk[t].parent

(* A turn starts after the turn before it. *)
InOrder(st, ex, tk) ==
  \A t \in TaskId :
    /\ ex[t] # "idle" \/ st[t] \in {"running", "completed"}
    /\ tk[t].parent # 0
    => st[tk[t].parent] = "completed"

(* A turn is continued by one turn at most. *)
Lines(tk) ==
  \A t, u \in TaskId : tk[t].parent # 0 /\ tk[t].parent = tk[u].parent => t = u

Ledger(ph, st, ex, tk) ==
  /\ LedgerTypes(ph, st, ex)
  /\ Exclusive(ex, tk)
  /\ Backed(ph, st, ex)
  /\ InStep(ph, st, ex)
  /\ Rows(st, tk)
  /\ InOrder(st, ex, tk)
  /\ Lines(tk)

(* What is live and not at the mercy of the next pump() is authorised; after. *)
Cleared(st, ex) ==
  \A t \in Live(st) \ Waiting(st, ex) : AllowedAfter(t)

(* Nothing has vanished since status, nor moved backwards, and what is new   *)
(* has a group and an author.                                                *)
Onward(st) ==
  \A t \in TaskId : /\ status[t] # "absent" => st[t] # "absent"
                    /\ status[t] = "absent" /\ st[t] # "absent"
                       => task'[t].group \in Groups /\ task'[t].author \in Participants
                    /\ status[t] \in {"running", "cancelling"} => st[t] # "queued"
                    /\ status[t] \in Final => st[t] = status[t]

(* What a step has to leave behind, as far as the queue goes. *)
Kept ==
  /\ Ledger(phase', status', exec', task')
  /\ AuthorizedWork'
  /\ Onward(status')

(* What an action hands to pump(). *)
Edited(st, ex) ==
  /\ Ledger(phase', st, ex, task')
  /\ phase' = "up" => Cleared(st, ex)
  /\ Onward(st)

-----------------------------------------------------------------------------
(* rootsOverlap (repository-validation.ts:58) does not depend on the order. *)
LEMMA ConflictSymmetric ==
  \A R, S : Conflict(R, S) <=> Conflict(S, R)
BY DEF Conflict, RootsOverlap

(* pump() changes no status but those of waiting tasks, and no reservation   *)
(* but to make one.                                                          *)
LEMMA PumpMoves ==
  ASSUME NEW st \in [TaskId -> TaskStatus], NEW ex \in [TaskId -> ExecStep],
         Pump(st, ex)
  PROVE  /\ status' \in [TaskId -> TaskStatus]
         /\ exec' \in [TaskId -> ExecStep]
         /\ \A t \in TaskId \ Waiting(st, ex) : status'[t] = st[t] /\ exec'[t] = ex[t]
         /\ \A t \in Waiting(st, ex) :
              /\ status'[t] \in {"queued", "cancelled", "needs_attention"}
              /\ exec'[t] \in {"idle", "member"}
         /\ phase' # "up" => status' = st /\ exec' = ex
<1>1. CASE phase' # "up"
  BY <1>1 DEF Pump, Waiting, TaskStatus, ExecStep
<1>2. CASE phase' = "up"
  <2>1. PICK S \in SUBSET Ready(st, ex) :
          exec' = [t \in TaskId |-> IF t \in S THEN "member" ELSE ex[t]]
    BY <1>2 DEF Pump
  <2>2. S \subseteq Waiting(st, ex)
    BY <2>1 DEF Ready
  <2>3. status' = [t \in TaskId |-> IF t \in Denied(st, ex) THEN "cancelled"
                                   ELSE IF t \in Stuck(st, ex) THEN "needs_attention" ELSE st[t]]
    BY <1>2 DEF Pump
  <2>4. Denied(st, ex) \subseteq Waiting(st, ex) /\ Stuck(st, ex) \subseteq Waiting(st, ex)
    BY DEF Denied, Stuck, Below
  <2>5. QED
    BY <1>2, <2>1, <2>2, <2>3, <2>4 DEF Waiting, TaskStatus, ExecStep
<1>3. QED
  BY <1>1, <1>2

(* A turn pump() starts is not one it sends to review: its predecessor has   *)
(* completed, so nothing above it in the conversation has failed.            *)
LEMMA StartedStaysQueued ==
  ASSUME NEW st \in [TaskId -> TaskStatus], NEW ex \in [TaskId -> ExecStep],
         Rows(st, task'),
         NEW t \in Ready(st, ex)
  PROVE  t \notin Denied(st, ex) /\ t \notin Stuck(st, ex)
<1>1. t \in Waiting(st, ex) /\ t \notin Denied(st, ex) /\ t \in TaskId /\ st[t] = "queued"
  BY DEF Ready, Waiting
<1>2. SUFFICES ASSUME t \in Stuck(st, ex) PROVE FALSE
  BY <1>1
<1> DEFINE Top == Denied(st, ex) \cup {u \in TaskId : st[u] \in Dead}
<1>3. t \notin Top
  BY <1>1 DEF Dead
<1>4. PICK a \in task'[t].chain \cap Top :
         \A b \in task'[t].chain : b > a => b \in Waiting(st, ex)
  BY <1>2, <1>3 DEF Stuck, Below
<1>5. task'[t].parent # 0 /\ task'[t].parent \in task'[t].chain
      /\ a \in TaskId /\ a <= task'[t].parent /\ task'[t].parent \in TaskId
  BY <1>1, <1>4 DEF Rows
<1>6. st[task'[t].parent] = "completed"
  BY <1>5 DEF Ready
<1>7. CASE a = task'[t].parent
  BY <1>4, <1>6, <1>7 DEF Denied, Waiting, Dead
<1>8. CASE a # task'[t].parent
  <2>1. task'[t].parent > a
    BY <1>5, <1>8 DEF TaskId
  <2>2. QED
    BY <2>1, <1>4, <1>5, <1>6 DEF Waiting
<1>9. QED
  BY <1>7, <1>8

(* pump() keeps the ledger. *)
LEMMA PumpKeepsLedger ==
  ASSUME NEW st, NEW ex, Ledger(phase', st, ex, task'), Pump(st, ex)
  PROVE  Ledger(phase', status', exec', task')
<1>1. st \in [TaskId -> TaskStatus] /\ ex \in [TaskId -> ExecStep]
  BY DEF Ledger, LedgerTypes
<1>2. CASE phase' # "up"
  BY <1>1, <1>2, PumpMoves
<1>3. CASE phase' = "up"
  <2>1. PICK S \in SUBSET Ready(st, ex) :
          /\ Starts(S, st, ex)
          /\ exec' = [t \in TaskId |-> IF t \in S THEN "member" ELSE ex[t]]
    BY <1>3 DEF Pump
  <2>2. status' = [t \in TaskId |-> IF t \in Denied(st, ex) THEN "cancelled"
                                   ELSE IF t \in Stuck(st, ex) THEN "needs_attention" ELSE st[t]]
    BY <1>3 DEF Pump
  <2>3. /\ status' \in [TaskId -> TaskStatus]
        /\ exec' \in [TaskId -> ExecStep]
        /\ \A t \in TaskId \ Waiting(st, ex) : status'[t] = st[t] /\ exec'[t] = ex[t]
        /\ \A t \in Waiting(st, ex) : /\ status'[t] \in {"queued", "cancelled", "needs_attention"}
                                      /\ exec'[t] \in {"idle", "member"}
    BY <1>1, PumpMoves
  <2>4. \A t \in S : t \in Waiting(st, ex) /\ status'[t] = "queued"
    <3>1. TAKE t \in S
    <3>2. t \in Ready(st, ex) /\ t \in Waiting(st, ex) /\ t \in TaskId /\ st[t] = "queued"
      BY <2>1 DEF Ready, Waiting
    <3>3. t \notin Denied(st, ex) /\ t \notin Stuck(st, ex)
      BY <1>1, <3>2, StartedStaysQueued DEF Ledger
    <3>4. QED
      BY <2>2, <3>2, <3>3
  <2>5. \A t \in TaskId : exec'[t] # "idle" => t \in S \/ ex[t] # "idle"
    BY <2>1
  <2>6. LedgerTypes(phase', status', exec')
    BY <2>3 DEF Ledger, LedgerTypes
  <2>7. Exclusive(exec', task')
    <3>1. SUFFICES ASSUME NEW t \in TaskId, NEW u \in TaskId, t # u,
                          exec'[t] # "idle", exec'[u] # "idle",
                          Conflict(task'[t].repos, task'[u].repos)
                   PROVE  FALSE
      BY DEF Exclusive
    <3>2. Conflict(task'[u].repos, task'[t].repos)
      BY <3>1, ConflictSymmetric
    <3>3. \A v \in S : ~ \E w \in TaskId : /\ ex[w] # "idle" \/ (w \in S /\ w < v)
                                           /\ Conflict(task'[v].repos, task'[w].repos)
      BY <2>1 DEF Starts
    <3>4. CASE ex[t] # "idle" /\ ex[u] # "idle"
      BY <3>1, <3>4 DEF Ledger, Exclusive
    <3>5. CASE t \in S /\ ex[u] # "idle"
      BY <3>1, <3>3, <3>5
    <3>6. CASE u \in S /\ ex[t] # "idle"
      BY <3>2, <3>3, <3>6
    <3>7. CASE t \in S /\ u \in S
      <4>1. t < u \/ u < t
        BY <3>1 DEF TaskId
      <4>2. QED
        BY <3>1, <3>2, <3>3, <3>7, <4>1
    <3>8. QED
      BY <2>5, <3>1, <3>4, <3>5, <3>6, <3>7
  <2>8. Backed(phase', status', exec')
    BY <1>3, <2>3, <2>4, <2>5 DEF Ledger, Backed, Waiting
  <2>9. InStep(phase', status', exec')
    <3>1. SUFFICES ASSUME NEW t \in TaskId
                   PROVE  /\ status'[t] \in {"running", "cancelling"} => exec'[t] # "idle"
                          /\ exec'[t] \in {"member", "validate"} => status'[t] \in {"queued", "cancelling"}
                          /\ exec'[t] \in {"run", "remember"} => status'[t] \in {"running", "cancelling"}
      BY DEF InStep
    <3>2. CASE t \in Waiting(st, ex)
      BY <2>3, <2>4, <2>5, <3>2 DEF Waiting
    <3>3. CASE t \notin Waiting(st, ex)
      BY <1>3, <2>3, <3>3 DEF Ledger, InStep
    <3>4. QED
      BY <3>2, <3>3
  <2>10. Rows(status', task')
    <3>1. \A t \in TaskId : status'[t] = "absent" <=> st[t] = "absent"
      BY <2>3 DEF Waiting
    <3>2. QED
      BY <3>1 DEF Ledger, Rows
  <2>11. InOrder(status', exec', task')
    <3>1. SUFFICES ASSUME NEW t \in TaskId, task'[t].parent # 0,
                          exec'[t] # "idle" \/ status'[t] \in {"running", "completed"}
                   PROVE  status'[task'[t].parent] = "completed"
      BY DEF InOrder
    <3>2. task'[t].parent \in TaskId
      BY <3>1 DEF Ledger, Rows
    <3>3. st[task'[t].parent] = "completed"
      <4>1. CASE t \in S
        BY <2>1, <3>1, <4>1 DEF Ready
      <4>2. CASE t \notin S
        <5>1. ex[t] # "idle" \/ st[t] \in {"running", "completed"}
          BY <2>3, <2>5, <3>1, <4>2
        <5>2. QED
          BY <3>1, <5>1 DEF Ledger, InOrder
      <4>3. QED
        BY <4>1, <4>2
    <3>4. QED
      BY <2>3, <3>2, <3>3 DEF Waiting
  <2>12. QED
    BY <2>6, <2>7, <2>8, <2>9, <2>10, <2>11 DEF Ledger
<1>4. QED
  BY <1>2, <1>3

(* After pump() whatever is queued or running is authorised. *)
LEMMA PumpAuthorizes ==
  ASSUME NEW st \in [TaskId -> TaskStatus], NEW ex \in [TaskId -> ExecStep],
         phase' = "up" => Cleared(st, ex), Pump(st, ex)
  PROVE  AuthorizedWork'
<1>1. SUFFICES ASSUME phase' = "up", NEW t \in Live(status') PROVE AllowedAfter(t)
  BY DEF AuthorizedWork, Live, Allowed, AllowedAfter
<1>2. t \in TaskId /\ status'[t] \in {"queued", "running"}
  BY <1>1 DEF Live
<1>3. CASE t \in Waiting(st, ex)
  <2>1. status' = [u \in TaskId |-> IF u \in Denied(st, ex) THEN "cancelled"
                                   ELSE IF u \in Stuck(st, ex) THEN "needs_attention" ELSE st[u]]
    BY <1>1 DEF Pump
  <2>2. t \notin Denied(st, ex)
    BY <1>2, <2>1
  <2>3. QED
    BY <1>3, <2>2 DEF Denied
<1>4. CASE t \notin Waiting(st, ex)
  <2>1. status'[t] = st[t]
    BY <1>2, <1>4, PumpMoves
  <2>2. QED
    BY <1>1, <1>2, <1>4, <2>1 DEF Cleared, Live
<1>5. QED
  BY <1>3, <1>4

(* An action that ends with pump() keeps everything its edit prepared. *)
LEMMA PumpKeeps ==
  ASSUME NEW st, NEW ex, Edited(st, ex), Pump(st, ex)
  PROVE  Kept
<1>1. st \in [TaskId -> TaskStatus] /\ ex \in [TaskId -> ExecStep]
  BY DEF Edited, Ledger, LedgerTypes
<1>2. Ledger(phase', status', exec', task')
  BY PumpKeepsLedger DEF Edited
<1>3. AuthorizedWork'
  BY <1>1, PumpAuthorizes DEF Edited
<1>4. Onward(status')
  <2>1. SUFFICES ASSUME NEW t \in TaskId
                 PROVE  /\ status[t] # "absent" => status'[t] # "absent"
                        /\ status[t] = "absent" /\ status'[t] # "absent"
                           => task'[t].group \in Groups /\ task'[t].author \in Participants
                        /\ status[t] \in {"running", "cancelling"} => status'[t] # "queued"
                        /\ status[t] \in Final => status'[t] = status[t]
    BY DEF Onward
  <2>2. CASE st[t] = "queued"
    <3>1. status'[t] # "absent"
      BY <1>1, <2>2, PumpMoves DEF Waiting
    <3>2. QED
      BY <2>2, <3>1 DEF Edited, Onward, Final
  <2>3. CASE st[t] # "queued"
    <3>1. status'[t] = st[t]
      BY <1>1, <2>3, PumpMoves DEF Waiting
    <3>2. QED
      BY <2>3, <3>1 DEF Edited, Onward
  <2>4. QED
    BY <2>2, <2>3
<1>5. QED
  BY <1>2, <1>3, <1>4 DEF Kept

-----------------------------------------------------------------------------
(***************************************************************************)
(* The edits.                                                              *)
(***************************************************************************)

(* cancel() only reaches what is queued or running.                         *)
LEMMA HitIsLive ==
  ASSUME NEW st, NEW roots PROVE Hit(st, roots) \subseteq Live(st) /\ roots \cap Live(st) \subseteq Hit(st, roots)
BY DEF Hit, Below

(* cancel() keeps the ledger: a run is marked, a waiting turn ends. *)
LEMMA CancelKeepsLedger ==
  ASSUME NEW ph, NEW st, NEW ex, NEW tk, NEW hit \in SUBSET Live(st),
         Ledger(ph, st, ex, tk)
  PROVE  Ledger(ph, Cancelled(st, ex, hit), ex, tk)
<1> DEFINE new == Cancelled(st, ex, hit)
<1>1. /\ st \in [TaskId -> TaskStatus]
      /\ ex \in [TaskId -> ExecStep]
      /\ new \in [TaskId -> TaskStatus]
  BY DEF Ledger, LedgerTypes, Cancelled, TaskStatus
<1>2. \A t \in TaskId :
        \/ new[t] = st[t]
        \/ /\ st[t] \in {"queued", "running"}
           /\ new[t] = IF ex[t] = "idle" THEN "cancelled" ELSE "cancelling"
  BY DEF Cancelled, Live
<1> HIDE DEF new
<1>3. LedgerTypes(ph, new, ex)
  BY <1>1 DEF Ledger, LedgerTypes
<1>4. Backed(ph, new, ex)
  BY <1>1, <1>2 DEF Ledger, Backed
<1>5. InStep(ph, new, ex)
  BY <1>1, <1>2 DEF Ledger, InStep, ExecStep
<1>6. Rows(new, tk)
  <2>1. \A t \in TaskId : new[t] = "absent" <=> st[t] = "absent"
    BY <1>2
  <2>2. QED
    BY <2>1 DEF Ledger, Rows
<1>7. InOrder(new, ex, tk)
  <2>1. \A t \in TaskId : st[t] = "completed" => new[t] = "completed"
    BY <1>2
  <2>2. \A t \in TaskId : new[t] \in {"running", "completed"} => st[t] = new[t]
    BY <1>2
  <2>3. QED
    BY <2>1, <2>2 DEF Ledger, InOrder, Rows
<1>8. Ledger(ph, new, ex, tk)
  BY <1>3, <1>4, <1>5, <1>6, <1>7 DEF Ledger
<1>9. QED
  BY <1>8 DEF new

(* The finally block of execute() keeps the ledger, with the status the run  *)
(* ends with.                                                                *)
LEMMA ReleaseKeepsLedger ==
  ASSUME NEW ph, NEW st, NEW ex, NEW tk, NEW t \in TaskId, NEW s \in TaskStatus,
         Ledger(ph, st, ex, tk), ex[t] # "idle",
         \/ s = st[t] /\ (ph = "up" => s \notin {"running", "cancelling"})
         \/ s = "cancelled" /\ st[t] = "cancelling"
         \/ s \in {"failed", "completed"} /\ ph = "up"
  PROVE  Ledger(ph, [st EXCEPT ![t] = s], [ex EXCEPT ![t] = "idle"], tk)
<1> DEFINE st2 == [st EXCEPT ![t] = s]
           ex2 == [ex EXCEPT ![t] = "idle"]
<1>1. /\ st \in [TaskId -> TaskStatus]
      /\ ex \in [TaskId -> ExecStep]
      /\ st[t] # "absent" /\ s # "absent"
      /\ ph = "up" => st[t] \in {"queued", "running", "cancelling"}
  BY DEF Ledger, LedgerTypes, Backed, InStep, ExecStep
<1>2. /\ st2 \in [TaskId -> TaskStatus]
      /\ ex2 \in [TaskId -> ExecStep]
      /\ st2[t] = s /\ ex2[t] = "idle"
      /\ \A u \in TaskId \ {t} : st2[u] = st[u] /\ ex2[u] = ex[u]
  BY <1>1 DEF ExecStep
<1> HIDE DEF st2, ex2
<1>3. LedgerTypes(ph, st2, ex2)
  BY <1>2 DEF Ledger, LedgerTypes
<1>4. Exclusive(ex2, tk)
  BY <1>2 DEF Ledger, Exclusive
<1>5. Backed(ph, st2, ex2)
  BY <1>2 DEF Ledger, Backed
<1>6. InStep(ph, st2, ex2)
  BY <1>2 DEF Ledger, InStep
<1>7. Rows(st2, tk)
  <2>1. \A u \in TaskId : st2[u] = "absent" <=> st[u] = "absent"
    BY <1>1, <1>2
  <2>2. QED
    BY <2>1 DEF Ledger, Rows
<1>8. InOrder(st2, ex2, tk)
  <2>1. SUFFICES ASSUME NEW u \in TaskId, tk[u].parent # 0,
                        ex2[u] # "idle" \/ st2[u] \in {"running", "completed"}
                 PROVE  st2[tk[u].parent] = "completed"
    BY DEF InOrder
  <2>2. tk[u].parent \in TaskId
    BY <2>1 DEF Ledger, Rows
  <2>3. st[tk[u].parent] = "completed"
    BY <1>2, <2>1 DEF Ledger, InOrder
  <2>4. CASE tk[u].parent # t
    BY <1>2, <2>2, <2>3, <2>4
  <2>5. CASE tk[u].parent = t
    BY <1>1, <1>2, <2>3, <2>5
  <2>6. QED
    BY <2>4, <2>5
<1>9. Ledger(ph, st2, ex2, tk)
  BY <1>3, <1>4, <1>5, <1>6, <1>7, <1>8 DEF Ledger
<1>10. QED
  BY <1>9 DEF st2, ex2

(* createTask() keeps the ledger, for a new conversation and for a turn      *)
(* appended to the latest of one.                                            *)
LEMMA CreateKeepsLedger ==
  ASSUME NEW ph, NEW n \in TaskId, NEW row, IsNextId(n),
         task \in [TaskId -> TaskRow],
         Ledger(ph, status, exec, task),
         \/ row.parent = 0 /\ row.chain = {}
         \/ /\ row.parent \in TaskId /\ Exists(row.parent)
            /\ row.chain = task[row.parent].chain \cup {row.parent}
            /\ \A v \in TaskId : Exists(v) => task[v].parent # row.parent
  PROVE  Ledger(ph, [status EXCEPT ![n] = "queued"], exec, [task EXCEPT ![n] = row])
<1> DEFINE st == [status EXCEPT ![n] = "queued"]
           tk == [task EXCEPT ![n] = row]
<1>1. /\ status \in [TaskId -> TaskStatus]
      /\ exec \in [TaskId -> ExecStep]
      /\ status[n] = "absent" /\ exec[n] = "idle"
      /\ task[n].parent = 0
      /\ \A u \in TaskId : status[u] = "absent" => n <= u
  BY DEF Ledger, LedgerTypes, Backed, Rows, IsNextId, FreeId
<1>2. /\ st \in [TaskId -> TaskStatus]
      /\ st[n] = "queued" /\ tk[n] = row
      /\ \A u \in TaskId \ {n} : st[u] = status[u] /\ tk[u] = task[u]
  BY <1>1 DEF TaskStatus
<1>3. row.parent \in TaskId /\ row.parent # 0 => row.parent < n
  BY <1>1 DEF Ledger, Rows, Exists, TaskId
<1> HIDE DEF st, tk
<1>4. LedgerTypes(ph, st, exec)
  BY <1>2 DEF Ledger, LedgerTypes
<1>5. Exclusive(exec, tk)
  BY <1>1, <1>2 DEF Ledger, Exclusive
<1>6. Backed(ph, st, exec)
  BY <1>1, <1>2 DEF Ledger, Backed
<1>7. InStep(ph, st, exec)
  BY <1>1, <1>2 DEF Ledger, InStep
<1>8. Rows(st, tk)
  <2>1. SUFFICES ASSUME NEW t \in TaskId
                 PROVE  /\ st[t] = "absent" => tk[t].parent = 0
                        /\ st[t] # "absent" => \A u \in TaskId : u < t => st[u] # "absent"
                        /\ tk[t].parent = 0 => tk[t].chain = {}
                        /\ tk[t].parent # 0 => /\ tk[t].parent \in TaskId
                                               /\ tk[t].parent < t
                                               /\ st[tk[t].parent] # "absent"
                                               /\ tk[t].parent \in tk[t].chain
                                               /\ \A a \in tk[t].chain : a \in TaskId /\ a <= tk[t].parent
    BY DEF Rows
  <2>2. CASE t # n
    BY <1>1, <1>2, <2>2 DEF Ledger, Rows
  <2>3. CASE t = n
    <3>1. \A u \in TaskId : u < t => st[u] # "absent"
      BY <1>1, <1>2, <2>3 DEF TaskId
    <3>2. CASE row.parent = 0 /\ row.chain = {}
      BY <1>2, <2>3, <3>1, <3>2
    <3>3. CASE /\ row.parent \in TaskId /\ Exists(row.parent)
               /\ row.chain = task[row.parent].chain \cup {row.parent}
      <4>1. row.parent # 0 /\ row.parent < n /\ row.parent # n
        BY <1>3, <3>3 DEF TaskId
      <4>2. st[row.parent] # "absent"
        BY <1>2, <3>3, <4>1 DEF Exists
      <4>3. \A a \in task[row.parent].chain : a \in TaskId /\ a <= row.parent
        <5>1. TAKE a \in task[row.parent].chain
        <5>2. task[row.parent].parent # 0
          BY <3>3, <5>1 DEF Ledger, Rows
        <5>3. /\ a \in TaskId /\ a <= task[row.parent].parent
              /\ task[row.parent].parent \in TaskId
              /\ task[row.parent].parent < row.parent
          BY <3>3, <5>1, <5>2 DEF Ledger, Rows
        <5>4. QED
          BY <3>3, <5>3 DEF TaskId
      <4>4. row.parent <= row.parent
        BY <3>3 DEF TaskId
      <4>5. QED
        BY <1>2, <2>3, <3>1, <3>3, <4>1, <4>2, <4>3, <4>4
    <3>4. QED
      BY <3>2, <3>3
  <2>4. QED
    BY <2>2, <2>3
<1>9. InOrder(st, exec, tk)
  BY <1>1, <1>2 DEF Ledger, InOrder, Rows
<1>10. Lines(tk)
  <2>1. \A t \in TaskId \ {n} : row.parent # 0 => task[t].parent # row.parent
    BY DEF Ledger, Rows, Exists
  <2>2. QED
    BY <1>2, <2>1 DEF Ledger, Lines
<1>11. Ledger(ph, st, exec, tk)
  BY <1>4, <1>5, <1>6, <1>7, <1>8, <1>9, <1>10 DEF Ledger
<1>12. QED
  BY <1>11 DEF st, tk

-----------------------------------------------------------------------------
(***************************************************************************)
(* Every action keeps the ledger and what is authorised, and brings        *)
(* nothing back.                                                           *)
(***************************************************************************)

(* What exists, and what somebody asks to retry, has a group and an author.  *)
RowsTyped ==
  /\ task \in [TaskId -> TaskRow]
  /\ retrying \subseteq TaskId
  /\ \A t \in TaskId : status[t] # "absent" => task[t].group \in Groups /\ task[t].author \in Participants
  /\ \A t \in retrying : status[t] # "absent"

QueueInv ==
  /\ TypeOK
  /\ RowsTyped
  /\ Ledger(phase, status, exec, task)
  /\ AuthorizedWork

(* A step that leaves the queue and the configuration alone keeps them.     *)
LEMMA NothingMoved ==
  ASSUME QueueInv, UNCHANGED <<configVars, task, status, exec, phase>>
  PROVE  Kept
<1>1. Ledger(phase', status', exec', task')
  BY DEF QueueInv
<1>2. AuthorizedWork'
  BY DEF QueueInv, AuthorizedWork, Allowed, AllowedIn, GrantedIn, Live, configVars
<1>3. Onward(status')
  BY DEF Onward, Final
<1>4. QED
  BY <1>1, <1>2, <1>3 DEF Kept

(* While the configuration and the rows stand still, what was authorised is. *)
LEMMA StillAllowed ==
  ASSUME QueueInv, phase = "up", UNCHANGED configVars,
         NEW t \in Live(status), task'[t] = task[t]
  PROVE  AllowedAfter(t)
BY DEF QueueInv, AuthorizedWork, Allowed, AllowedAfter, AllowedIn, GrantedIn, configVars

(* cancel() of anything, when the configuration stands still. *)
LEMMA CancelEdits ==
  ASSUME QueueInv, UNCHANGED <<configVars, task, phase>>,
         NEW hit \in SUBSET Live(status)
  PROVE  Edited(Cancelled(status, exec, hit), exec)
<1>1. Ledger(phase', Cancelled(status, exec, hit), exec, task')
  BY CancelKeepsLedger DEF QueueInv
<1>2. Live(Cancelled(status, exec, hit)) \subseteq Live(status)
  BY DEF Live, Cancelled
<1>3. phase' = "up" => Cleared(Cancelled(status, exec, hit), exec)
  BY <1>2, StillAllowed DEF Cleared, Live
<1>4. Onward(Cancelled(status, exec, hit))
  BY DEF Onward, Cancelled, Live, Final
<1>5. QED
  BY <1>1, <1>3, <1>4 DEF Edited

(* A step that only cancels keeps the ledger and what is authorised.        *)
LEMMA CancelKeeps ==
  ASSUME QueueInv, UNCHANGED <<configVars, task, phase, exec>>,
         NEW hit \in SUBSET Live(status),
         status' = Cancelled(status, exec, hit)
  PROVE  Kept
<1>1. Edited(status', exec')
  BY CancelEdits
<1>2. AuthorizedWork'
  <2>1. SUFFICES ASSUME phase' = "up", NEW t \in Live(status') PROVE AllowedAfter(t)
    BY DEF AuthorizedWork, Live, Allowed, AllowedAfter
  <2>2. t \in Live(status)
    BY <2>1 DEF Live, Cancelled
  <2>3. QED
    BY <2>1, <2>2, StillAllowed
<1>3. QED
  BY <1>1, <1>2 DEF Kept, Edited

(* start(): what was executing is for review ... *)
LEMMA RecoveredIsEdited ==
  ASSUME QueueInv, Start
  PROVE  Edited(Recovered, exec) /\ Pump(Recovered, exec)
<1>1. /\ status \in [TaskId -> TaskStatus]
      /\ Recovered \in [TaskId -> TaskStatus]
      /\ \A t \in TaskId : exec[t] = "idle"
      /\ \A t \in TaskId : \/ status[t] \in {"running", "cancelling"} /\ Recovered[t] = "needs_attention"
                           \/ status[t] \notin {"running", "cancelling"} /\ Recovered[t] = status[t]
  BY DEF QueueInv, Ledger, LedgerTypes, Backed, Start, Recovered, SetStatus, Interrupted, TaskStatus
<1>2. Pump(Recovered, exec) /\ phase' = "up" /\ task' = task
  BY DEF Start
<1> HIDE DEF Recovered
<1>3. Ledger(phase', Recovered, exec, task')
  <2>1. LedgerTypes(phase', Recovered, exec) /\ Exclusive(exec, task') /\ Lines(task')
        /\ Backed(phase', Recovered, exec)
    BY <1>1, <1>2 DEF QueueInv, Ledger, LedgerTypes, Exclusive, Backed
  <2>2. InStep(phase', Recovered, exec)
    BY <1>1 DEF InStep
  <2>3. Rows(Recovered, task')
    <3>1. \A t \in TaskId : Recovered[t] = "absent" <=> status[t] = "absent"
      BY <1>1
    <3>2. QED
      BY <1>2, <3>1 DEF QueueInv, Ledger, Rows
  <2>4. InOrder(Recovered, exec, task')
    <3>1. \A t \in TaskId : status[t] = "completed" <=> Recovered[t] = "completed"
      BY <1>1
    <3>2. QED
      BY <1>1, <1>2, <3>1 DEF QueueInv, Ledger, InOrder, Rows
  <2>5. QED
    BY <2>1, <2>2, <2>3, <2>4 DEF Ledger
<1>4. Cleared(Recovered, exec)
  BY <1>1 DEF Cleared, Live, Waiting
<1>5. Onward(Recovered)
  BY <1>1 DEF Onward, Final
<1>6. QED
  BY <1>2, <1>3, <1>4, <1>5 DEF Edited

(* ... and the queue moves. *)
LEMMA StartKeeps == ASSUME QueueInv, Start PROVE Kept
BY RecoveredIsEdited, PumpKeeps

(* stop(): what was running is for review, and still holds its folders.     *)
LEMMA StopKeeps == ASSUME QueueInv, Stop PROVE Kept
<1>1. /\ status \in [TaskId -> TaskStatus]
      /\ status' \in [TaskId -> TaskStatus]
      /\ \A t \in TaskId : \/ status'[t] = status[t]
                           \/ status[t] = "running" /\ status'[t] = "needs_attention"
  BY DEF QueueInv, Ledger, LedgerTypes, Stop, SetStatus, Active, TaskStatus
<1>2. phase' = "stopping" /\ task' = task /\ exec' = exec
  BY DEF Stop
<1>3. LedgerTypes(phase', status', exec') /\ Exclusive(exec', task') /\ Lines(task')
  BY <1>1, <1>2 DEF QueueInv, Ledger, LedgerTypes
<1>4. Backed(phase', status', exec') /\ InStep(phase', status', exec')
  BY <1>1, <1>2 DEF QueueInv, Ledger, Backed, InStep
<1>5. Rows(status', task')
  <2>1. \A t \in TaskId : status'[t] = "absent" <=> status[t] = "absent"
    BY <1>1
  <2>2. QED
    BY <1>2, <2>1 DEF QueueInv, Ledger, Rows
<1>6. InOrder(status', exec', task')
  BY <1>1, <1>2 DEF QueueInv, Ledger, InOrder, Rows
<1>7. Onward(status')
  BY <1>1 DEF Onward, Final
<1>8. QED
  BY <1>2, <1>3, <1>4, <1>5, <1>6, <1>7 DEF Kept, Ledger, AuthorizedWork

(* A process that ends, with every run let go or killed. *)
LEMMA DownKeeps ==
  ASSUME QueueInv, phase' = "down", task' = task, status' = status,
         exec' = [t \in TaskId |-> "idle"]
  PROVE  Kept
<1>1. LedgerTypes(phase', status', exec') /\ Exclusive(exec', task') /\ Lines(task')
  BY DEF QueueInv, Ledger, LedgerTypes, Exclusive, ExecStep
<1>2. Backed(phase', status', exec') /\ InStep(phase', status', exec')
  BY DEF Backed, InStep
<1>3. Rows(status', task')
  BY DEF QueueInv, Ledger
<1>4. InOrder(status', exec', task')
  BY DEF QueueInv, Ledger, InOrder
<1>5. QED
  BY <1>1, <1>2, <1>3, <1>4 DEF Kept, Ledger, AuthorizedWork, Onward, Final

(* The drain ends with nothing reserved.                                    *)
LEMMA StoppedKeeps == ASSUME QueueInv, Stopped PROVE Kept
<1>1. exec' = [t \in TaskId |-> "idle"]
  BY DEF Stopped, Active, QueueInv, Ledger, LedgerTypes
<1>2. QED
  BY <1>1, DownKeeps DEF Stopped, storeVars

(* A crash loses the reservations and keeps the rows.                       *)
LEMMA CrashKeeps == ASSUME QueueInv, Crash PROVE Kept
BY DownKeeps DEF Crash, Die, storeVars

(* The timer lets pump() loose on what is there.                            *)
LEMMA TickKeeps == ASSUME QueueInv, Tick PROVE Kept
<1>1. /\ Pump(status, exec)
      /\ UNCHANGED <<configVars, task, phase>>
  BY DEF Tick
<1>2. Ledger(phase', status, exec, task')
  BY <1>1 DEF QueueInv
<1>3. phase' = "up" => Cleared(status, exec)
  BY <1>1, StillAllowed DEF Cleared, Live
<1>4. Onward(status)
  BY DEF Onward, Final
<1>5. QED
  BY <1>1, <1>2, <1>3, <1>4, PumpKeeps DEF Edited

(* pause, enable, unlink, grant and revoke: whatever the change leaves       *)
(* unauthorised is cancelled with it ...                                     *)
LEMMA SettleEdits ==
  ASSUME QueueInv, NEW out, NEW pumps, Settle(out, pumps), task' = task
  PROVE  LET st == Cancelled(status, exec, Unauthorized(status))
         IN /\ Edited(st, exec)
            /\ \A t \in Live(st) : AllowedAfter(t)
            /\ Unauthorized(status) \subseteq Live(status)
<1> DEFINE hit == Unauthorized(status)
           st == Cancelled(status, exec, hit)
<1>1. /\ hit \subseteq Live(status)
      /\ \A t \in Live(status) : ~AllowedAfter(t) => t \in hit
  BY HitIsLive DEF Unauthorized
<1>2. phase' = phase
  BY DEF Settle
<1> HIDE DEF hit
<1>3. Ledger(phase', st, exec, task')
  BY <1>1, <1>2, CancelKeepsLedger DEF QueueInv
<1>4. \A t \in Live(st) : AllowedAfter(t)
  BY <1>1 DEF Live, Cancelled
<1>5. Onward(st)
  BY <1>1 DEF Onward, Cancelled, Live, Final
<1>6. QED
  BY <1>1, <1>3, <1>4, <1>5 DEF Edited, Cleared, hit

(* ... or the process dies in between and start() will look at it.           *)
LEMMA OwnerChangeKeeps ==
  ASSUME QueueInv, NEW out, NEW pumps, NEW calls, OwnerChange(out, pumps, calls)
  PROVE  Kept
<1>1. CASE Die /\ status' = status
  BY <1>1, DownKeeps DEF OwnerChange, Die
<1>2. CASE Settle(out, pumps)
  <2> DEFINE st == Cancelled(status, exec, Unauthorized(status))
  <2>1. Edited(st, exec) /\ \A t \in Live(st) : AllowedAfter(t)
    BY <1>2, SettleEdits DEF OwnerChange
  <2>2. IF pumps THEN Pump(st, exec) ELSE status' = st /\ exec' = exec
    BY <1>2 DEF Settle
  <2> HIDE DEF st
  <2>3. CASE pumps
    BY <2>1, <2>2, <2>3, PumpKeeps
  <2>4. CASE ~pumps
    <3>1. AuthorizedWork'
      BY <2>1, <2>2, <2>4 DEF AuthorizedWork, Live, Allowed, AllowedAfter
    <3>2. QED
      BY <2>1, <2>2, <2>4, <3>1 DEF Kept, Edited
  <2>5. QED
    BY <2>3, <2>4
<1>3. QED
  BY <1>1, <1>2 DEF OwnerChange

(* Linking a folder takes no grant away.                                    *)
LEMMA AddRepositoryKeeps ==
  ASSUME QueueInv, NEW r \in Repos, AddRepository(r) PROVE Kept
<1>1. UNCHANGED <<enabled, grants, task, status, exec, phase>>
  BY DEF AddRepository
<1>2. \A s \in Repos : repository[s] = "linked" => repository'[s] = "linked"
  BY DEF AddRepository, QueueInv, TypeOK
<1>3. AuthorizedWork'
  <2>1. SUFFICES ASSUME phase = "up", NEW t \in Live(status) PROVE AllowedAfter(t)
    BY <1>1 DEF AuthorizedWork, Live, Allowed, AllowedAfter
  <2>2. Allowed(t)
    BY <2>1 DEF QueueInv, AuthorizedWork
  <2>3. task[t].repos \subseteq Repos
    BY <2>1 DEF Live, QueueInv, TypeOK, TaskRow
  <2>4. QED
    BY <1>1, <1>2, <2>2, <2>3 DEF Allowed, AllowedAfter, AllowedIn, GrantedIn
<1>4. Onward(status')
  BY <1>1 DEF Onward, Final
<1>5. QED
  BY <1>1, <1>3, <1>4 DEF Kept, QueueInv

(* cancelTask and refreshMembership only cancel.                            *)
LEMMA CancelTurnKeeps ==
  ASSUME QueueInv, NEW t \in TaskId, CancelTask(t) \/ RefreshMembership(t)
  PROVE  Kept
<1>1. status' = Cancelled(status, exec, Hit(status, {t}))
  BY DEF CancelTask, RefreshMembership, CancelTurn
<1>2. UNCHANGED <<configVars, task, phase, exec>>
  BY DEF CancelTask, RefreshMembership, cancelFrame
<1>3. QED
  BY <1>1, <1>2, HitIsLive, CancelKeeps

(* A row that is created is queued and handed to pump().                     *)
LEMMA CreateEdits ==
  ASSUME QueueInv, UNCHANGED <<configVars, phase>>,
         NEW n \in TaskId, NEW row, CreateTask(n, row),
         row.group \in Groups, row.author \in Participants,
         \/ row.parent = 0 /\ row.chain = {}
         \/ /\ row.parent \in TaskId /\ Exists(row.parent)
            /\ row.chain = task[row.parent].chain \cup {row.parent}
            /\ \A v \in TaskId : Exists(v) => task[v].parent # row.parent
  PROVE  Edited([status EXCEPT ![n] = "queued"], exec)
<1> DEFINE st == [status EXCEPT ![n] = "queued"]
<1>1. /\ IsNextId(n) /\ task' = [task EXCEPT ![n] = row]
      /\ task \in [TaskId -> TaskRow]
      /\ status \in [TaskId -> TaskStatus]
      /\ status[n] = "absent" /\ exec[n] = "idle"
  BY DEF CreateTask, IsNextId, FreeId, QueueInv, TypeOK, Ledger, LedgerTypes, Backed
<1>2. Ledger(phase', st, exec, task')
  BY <1>1, CreateKeepsLedger DEF QueueInv
<1>3. phase' = "up" => Cleared(st, exec)
  <2>1. SUFFICES ASSUME phase = "up", NEW t \in Live(st) \ Waiting(st, exec)
                 PROVE  AllowedAfter(t)
    BY DEF Cleared
  <2>2. t # n /\ t \in Live(status)
    BY <1>1, <2>1 DEF Live, Waiting
  <2>3. task'[t] = task[t]
    BY <1>1, <2>2 DEF Live
  <2>4. QED
    BY <2>1, <2>2, <2>3, StillAllowed
<1>4. Onward(st)
  BY <1>1 DEF Onward, Final
<1>5. QED
  BY <1>2, <1>3, <1>4 DEF Edited

(* A retry creates a row of its own conversation and pumps.                 *)
LEMMA FinishRetryKeeps ==
  ASSUME QueueInv, NEW t \in TaskId, FinishRetry(t) PROVE Kept
<1> DEFINE row == NewTask(task[t].group, task[t].author, task[t].repos, 0, task[t].source)
<1>1. PICK n \in TaskId : /\ CreateTask(n, row)
                          /\ Pump([status EXCEPT ![n] = "queued"], exec)
  BY DEF FinishRetry
<1>2. row.group \in Groups /\ row.author \in Participants /\ row.parent = 0 /\ row.chain = {}
  <2>1. status[t] # "absent"
    BY DEF FinishRetry, QueueInv, RowsTyped
  <2>2. QED
    BY <2>1 DEF NewTask, QueueInv, RowsTyped
<1>3. UNCHANGED <<configVars, phase>>
  BY DEF FinishRetry
<1> HIDE DEF row
<1>4. Edited([status EXCEPT ![n] = "queued"], exec)
  BY <1>1, <1>2, <1>3, CreateEdits
<1>5. QED
  BY <1>1, <1>4, PumpKeeps

(* The finally block, on statuses st that may have been cancelled first.     *)
LEMMA ReleaseEdits ==
  ASSUME NEW t \in TaskId, NEW st, exec[t] # "idle",
         Edited(st, exec), phase' = "up" => st[t] # "running"
  PROVE  Edited([st EXCEPT ![t] = IF @ = "cancelling" THEN "cancelled" ELSE @], [exec EXCEPT ![t] = "idle"])
<1> DEFINE s == IF st[t] = "cancelling" THEN "cancelled" ELSE st[t]
           st2 == [st EXCEPT ![t] = s]
           ex2 == [exec EXCEPT ![t] = "idle"]
<1>1. st \in [TaskId -> TaskStatus] /\ exec \in [TaskId -> ExecStep]
  BY DEF Edited, Ledger, LedgerTypes
<1>2. st2 = [st EXCEPT ![t] = IF @ = "cancelling" THEN "cancelled" ELSE @]
  OBVIOUS
<1>4. s \in TaskStatus
  BY <1>1 DEF TaskStatus
<1>5. \/ s = st[t] /\ (phase' = "up" => s \notin {"running", "cancelling"})
      \/ s = "cancelled" /\ st[t] = "cancelling"
  OBVIOUS
<1>6. /\ st2 \in [TaskId -> TaskStatus] /\ st2[t] = s
      /\ \A u \in TaskId \ {t} : st2[u] = st[u] /\ ex2[u] = exec[u]
      /\ ex2[t] = "idle"
  BY <1>1, <1>4
<1>7. s # "queued" \/ s = st[t]
  OBVIOUS
<1>8. s = st[t] \/ (st[t] = "cancelling" /\ s = "cancelled")
  OBVIOUS
<1> HIDE DEF s, st2, ex2
<1>9. Ledger(phase', st2, ex2, task')
  BY <1>4, <1>5, ReleaseKeepsLedger DEF Edited, st2, ex2
<1>10. phase' = "up" => Cleared(st2, ex2)
  <2>1. SUFFICES ASSUME phase' = "up", NEW u \in Live(st2) \ Waiting(st2, ex2)
                 PROVE  AllowedAfter(u)
    BY DEF Cleared
  <2>2. u # t
    BY <1>6, <1>8, <2>1 DEF Live, Waiting
  <2>3. u \in Live(st) \ Waiting(st, exec)
    BY <1>6, <2>1, <2>2 DEF Live, Waiting
  <2>4. QED
    BY <2>1, <2>3 DEF Edited, Cleared
<1>11. Onward(st2)
  BY <1>6, <1>8 DEF Edited, Onward, Final
<1>12. Edited(st2, ex2)
  BY <1>9, <1>10, <1>11 DEF Edited
<1>13. QED
  BY <1>2, <1>12 DEF ex2

(* So the queue moves from there. *)
LEMMA ReleaseKeeps ==
  ASSUME NEW t \in TaskId, NEW st, exec[t] # "idle",
         Edited(st, exec), phase' = "up" => st[t] # "running",
         Release(t, st)
  PROVE  Kept
BY ReleaseEdits, PumpKeeps DEF Release

(* What pump() finds when nothing was edited before it.                     *)
LEMMA SameIsEdited ==
  ASSUME QueueInv, UNCHANGED <<configVars, task, phase>>
  PROVE  Edited(status, exec)
<1>1. phase' = "up" => Cleared(status, exec)
  BY StillAllowed DEF Cleared, Live
<1>2. Onward(status)
  BY DEF Onward, Final
<1>3. QED
  BY <1>1, <1>2 DEF Edited, QueueInv

(* return: a run that is still marked running has lost its authorisation.    *)
LEMMA ReturnKeeps ==
  ASSUME QueueInv, UNCHANGED <<configVars, task, phase>>,
         NEW t \in TaskId, exec[t] # "idle",
         status[t] = "running" => ~MayRun(t),
         Return(t)
  PROVE  Kept
<1>1. phase' = "up" => status[t] # "running"
  BY DEF QueueInv, AuthorizedWork, Live, MayRun, Aborted
<1>2. QED
  BY <1>1, SameIsEdited, ReleaseKeeps DEF Return

(* The author has left: the turn is cancelled, with what continues it.       *)
LEMMA ExpelledKeeps ==
  ASSUME QueueInv, UNCHANGED <<configVars, task, phase>>,
         NEW t \in TaskId, exec[t] # "idle", Expelled(t)
  PROVE  Kept
<1> DEFINE hit == Hit(status, {t})
           st == Cancelled(status, exec, hit)
<1>1. hit \in SUBSET Live(status)
  BY HitIsLive
<1>2. Edited(st, exec)
  BY <1>1, CancelEdits
<1>3. st[t] # "running"
  <2>1. t \in Live(status) => t \in hit
    BY HitIsLive
  <2>2. QED
    BY <2>1 DEF Cancelled, Live
<1>4. Release(t, st)
  BY DEF Expelled
<1> HIDE DEF hit, st
<1>5. QED
  BY <1>2, <1>3, <1>4, ReleaseKeeps

(* A run ends with a status of its own while the program is up.              *)
LEMMA EndEdits ==
  ASSUME QueueInv, UNCHANGED <<configVars, task, phase>>,
         NEW t \in TaskId, exec[t] # "idle", phase = "up",
         NEW s \in {"failed", "completed"},
         Release(t, [status EXCEPT ![t] = s])
  PROVE  LET st == [status EXCEPT ![t] = s]
             ex == [exec EXCEPT ![t] = "idle"]
         IN Edited(st, ex) /\ Pump(st, ex)
<1> DEFINE st == [status EXCEPT ![t] = s]
           ex == [exec EXCEPT ![t] = "idle"]
<1>1. /\ status \in [TaskId -> TaskStatus] /\ exec \in [TaskId -> ExecStep]
      /\ status[t] \in {"queued", "running", "cancelling"}
  BY DEF QueueInv, Ledger, LedgerTypes, InStep, ExecStep
<1>2. /\ st[t] = s /\ ex[t] = "idle"
      /\ \A u \in TaskId \ {t} : st[u] = status[u] /\ ex[u] = exec[u]
  BY <1>1
<1>3. [st EXCEPT ![t] = IF @ = "cancelling" THEN "cancelled" ELSE @] = st
  BY <1>1
<1>4. Pump(st, ex)
  BY <1>3 DEF Release
<1> HIDE DEF st, ex
<1>5. Ledger(phase', st, ex, task')
  BY ReleaseKeepsLedger DEF QueueInv, st, ex, TaskStatus
<1>6. Cleared(st, ex)
  <2>1. SUFFICES ASSUME NEW u \in Live(st) \ Waiting(st, ex) PROVE AllowedAfter(u)
    BY DEF Cleared
  <2>2. u \in Live(status)
    BY <1>2, <2>1 DEF Live
  <2>3. QED
    BY <2>2, StillAllowed
<1>7. Onward(st)
  BY <1>1, <1>2 DEF Onward, Final
<1>8. QED
  BY <1>4, <1>5, <1>6, <1>7 DEF Edited, st, ex

(* The queue moves from there too. *)
LEMMA EndKeeps ==
  ASSUME QueueInv, UNCHANGED <<configVars, task, phase>>,
         NEW t \in TaskId, exec[t] # "idle", phase = "up",
         NEW s \in {"failed", "completed"},
         Release(t, [status EXCEPT ![t] = s])
  PROVE  Kept
BY EndEdits, PumpKeeps

(* The catch block ends the run, or marks the task failed.                  *)
LEMMA FailsKeeps ==
  ASSUME QueueInv, UNCHANGED <<configVars, task, phase>>,
         NEW t \in TaskId, exec[t] # "idle", Fails(t)
  PROVE  Kept
<1>1. CASE Aborted(t) \/ status[t] = "cancelled"
  BY <1>1, ReturnKeeps DEF Fails, MayRun
<1>2. CASE ~Aborted(t) /\ status[t] # "cancelled"
  BY <1>2, EndKeeps DEF Fails, Aborted
<1>3. QED
  BY <1>1, <1>2

(* The first roster lookup: a run goes on, ends, or waits for the timer.    *)
LEMMA MemberAnsweredKeeps ==
  ASSUME QueueInv, NEW t \in TaskId, MemberAnswered(t) PROVE Kept
<1>1. UNCHANGED <<configVars, task, phase>> /\ exec[t] = "member"
  BY DEF MemberAnswered, execFrame
<1>2. /\ status \in [TaskId -> TaskStatus] /\ exec \in [TaskId -> ExecStep]
      /\ phase = "up" => status[t] \in {"queued", "cancelling"}
      /\ phase # "down" /\ status[t] # "absent"
  BY <1>1 DEF QueueInv, Ledger, LedgerTypes, InStep, Backed
<1>3. CASE exec' = [exec EXCEPT ![t] = "validate"] /\ status' = status
  <2>1. \A u \in TaskId : (exec'[u] = "idle" <=> exec[u] = "idle") /\ (u # t => exec'[u] = exec[u])
    BY <1>1, <1>2, <1>3
  <2>2. Ledger(phase', status', exec', task')
    BY <1>1, <1>2, <1>3, <2>1 DEF QueueInv, Ledger, LedgerTypes, Exclusive, Backed, InStep, InOrder, ExecStep
  <2>3. AuthorizedWork' /\ Onward(status')
    BY <1>1, <1>3, StillAllowed DEF AuthorizedWork, Live, Allowed, AllowedAfter, Onward, Final
  <2>4. QED
    BY <2>2, <2>3 DEF Kept
<1>4. CASE Expelled(t)
  BY <1>1, <1>4, ExpelledKeeps
<1>5. CASE ~Aborted(t) /\ status[t] = "queued" /\ exec' = [exec EXCEPT ![t] = "idle"] /\ status' = status
  <2>1. Ledger(phase', [status EXCEPT ![t] = status[t]], exec', task')
    BY <1>1, <1>2, <1>5, ReleaseKeepsLedger DEF QueueInv
  <2>2. [status EXCEPT ![t] = status[t]] = status'
    BY <1>2, <1>5
  <2>3. AuthorizedWork' /\ Onward(status')
    BY <1>1, <1>5, StillAllowed DEF AuthorizedWork, Live, Allowed, AllowedAfter, Onward, Final
  <2>4. QED
    BY <2>1, <2>2, <2>3 DEF Kept
<1>6. CASE Fails(t)
  BY <1>1, <1>6, FailsKeeps
<1>7. QED
  BY <1>3, <1>4, <1>5, <1>6 DEF MemberAnswered

(* A task is marked running only by the run that holds its folders.         *)
LEMMA ValidatedKeeps ==
  ASSUME QueueInv, NEW t \in TaskId, Validated(t) PROVE Kept
<1>1. UNCHANGED <<configVars, task, phase>> /\ exec[t] = "validate"
  BY DEF Validated, execFrame
<1>2. CASE MayRun(t)
  <2>1. /\ status' = [status EXCEPT ![t] = "running"]
        /\ exec' = [exec EXCEPT ![t] = "run"]
    BY <1>2 DEF Validated
  <2>2. /\ phase = "up" /\ status[t] = "queued" /\ AllowedAfter(t)
        /\ status \in [TaskId -> TaskStatus] /\ exec \in [TaskId -> ExecStep]
    BY <1>1, <1>2 DEF MayRun, Aborted, Allowed, AllowedAfter, AllowedIn, GrantedIn, configVars,
                      QueueInv, Ledger, LedgerTypes, InStep
  <2>3. /\ status' \in [TaskId -> TaskStatus] /\ exec' \in [TaskId -> ExecStep]
        /\ status'[t] = "running" /\ exec'[t] = "run"
        /\ \A u \in TaskId \ {t} : status'[u] = status[u] /\ exec'[u] = exec[u]
    BY <2>1, <2>2 DEF TaskStatus, ExecStep
  <2>4. LedgerTypes(phase', status', exec') /\ Exclusive(exec', task') /\ Lines(task')
    BY <1>1, <2>3 DEF QueueInv, Ledger, LedgerTypes, Exclusive
  <2>5. Backed(phase', status', exec') /\ InStep(phase', status', exec')
    BY <1>1, <2>2, <2>3 DEF QueueInv, Ledger, Backed, InStep
  <2>6. Rows(status', task')
    <3>1. \A u \in TaskId : status'[u] = "absent" <=> status[u] = "absent"
      BY <2>2, <2>3
    <3>2. QED
      BY <1>1, <3>1 DEF QueueInv, Ledger, Rows
  <2>7. InOrder(status', exec', task')
    BY <1>1, <2>2, <2>3 DEF QueueInv, Ledger, InOrder, Rows
  <2>8. AuthorizedWork'
    <3>1. SUFFICES ASSUME NEW u \in Live(status') PROVE AllowedAfter(u)
      BY DEF AuthorizedWork, Live, Allowed, AllowedAfter
    <3>2. CASE u = t
      BY <2>2, <3>2
    <3>3. CASE u # t
      BY <1>1, <2>2, <2>3, <3>1, <3>3, StillAllowed DEF Live
    <3>4. QED
      BY <3>2, <3>3
  <2>9. Onward(status')
    BY <2>2, <2>3 DEF Onward, Final
  <2>10. QED
    BY <2>4, <2>5, <2>6, <2>7, <2>8, <2>9 DEF Kept, Ledger
<1>3. CASE ~MayRun(t)
  BY <1>1, <1>3, ReturnKeeps DEF Validated
<1>4. QED
  BY <1>2, <1>3

(* Codex has answered: the run goes on or ends.                             *)
LEMMA ExecutedKeeps ==
  ASSUME QueueInv, NEW t \in TaskId, Executed(t) PROVE Kept
<1>1. UNCHANGED <<configVars, task, phase>> /\ exec[t] = "run"
  BY DEF Executed, execFrame
<1>2. CASE MayRun(t) /\ status[t] = "running"
  <2>1. status' = status /\ exec' = [exec EXCEPT ![t] = "remember"]
    BY <1>2 DEF Executed
  <2>2. /\ exec \in [TaskId -> ExecStep] /\ exec' \in [TaskId -> ExecStep]
        /\ \A u \in TaskId : (exec'[u] = "idle" <=> exec[u] = "idle") /\ (u # t => exec'[u] = exec[u])
    BY <1>1, <2>1 DEF QueueInv, Ledger, LedgerTypes, ExecStep
  <2>3. Ledger(phase', status', exec', task')
    BY <1>1, <1>2, <2>1, <2>2 DEF QueueInv, Ledger, LedgerTypes, Exclusive, Backed, InStep, InOrder
  <2>4. AuthorizedWork' /\ Onward(status')
    BY <1>1, <2>1, StillAllowed DEF AuthorizedWork, Live, Allowed, AllowedAfter, Onward, Final
  <2>5. QED
    BY <2>3, <2>4 DEF Kept
<1>3. CASE ~(MayRun(t) /\ status[t] = "running")
  BY <1>1, <1>3, ReturnKeeps DEF Executed
<1>4. QED
  BY <1>2, <1>3

(* A task is completed only by its own run, while it is running.            *)
LEMMA RememberedKeeps ==
  ASSUME QueueInv, NEW t \in TaskId, Remembered(t) PROVE Kept
<1>1. UNCHANGED <<configVars, task, phase>> /\ exec[t] = "remember"
  BY DEF Remembered, execFrame
<1>2. CASE Expelled(t)
  BY <1>1, <1>2, ExpelledKeeps
<1>3. CASE MayRun(t) /\ status[t] = "running" /\ Release(t, [status EXCEPT ![t] = "completed"])
  BY <1>1, <1>3, EndKeeps DEF MayRun, Aborted
<1>4. CASE ~(MayRun(t) /\ status[t] = "running") /\ Return(t)
  BY <1>1, <1>4, ReturnKeeps
<1>5. QED
  BY <1>2, <1>3, <1>4 DEF Remembered

(* A failure after the first lookup is the catch block.                     *)
LEMMA ExecutionFailsKeeps ==
  ASSUME QueueInv, NEW t \in TaskId, ExecutionFails(t) PROVE Kept
BY FailsKeeps DEF ExecutionFails, execFrame

(* A command cancels what it names, or nothing.                             *)
LEMMA AnswerCommandKeeps ==
  ASSUME QueueInv, AnswerCommand PROVE Kept
<1>1. PICK hit : hit \subseteq Live(status) /\ status' = Cancelled(status, exec, hit)
  BY HitIsLive DEF AnswerCommand
<1>2. UNCHANGED <<configVars, task, phase, exec>>
  BY DEF AnswerCommand, intakeFrame
<1>3. QED
  BY <1>1, <1>2, CancelKeeps

(* A message becomes a turn at the end of its conversation.                 *)
LEMMA AcceptWorkKeeps ==
  ASSUME QueueInv, AcceptWork PROVE Kept
<1> DEFINE m == intake.message
<1>1. PICK parent \in 0..MaxTasks, n \in TaskId :
        /\ IsParent(parent, m)
        /\ CreateTask(n, NewTask(m.group, m.sender, Selection(parent, m), parent, Receipt(m)))
        /\ Pump([status EXCEPT ![n] = "queued"], exec)
  BY DEF AcceptWork
<1> DEFINE row == NewTask(m.group, m.sender, Selection(parent, m), parent, Receipt(m))
<1>2. /\ row.group \in Groups /\ row.author \in Participants
      /\ row.parent = parent
      /\ row.chain = IF parent = 0 THEN {} ELSE task[parent].chain \cup {parent}
  <2>1. m \in Messages
    BY DEF AcceptWork, Admitted, QueueInv, TypeOK
  <2>2. m.group \in Groups /\ m.sender \in Participants
    BY <2>1, ServiceAssumption DEF WellFormed
  <2>3. QED
    BY <2>2 DEF NewTask
<1>3. UNCHANGED <<configVars, phase>>
  BY DEF AcceptWork, intakeFrame
<1>4. CreateTask(n, row)
  BY <1>1
<1> HIDE DEF row
<1>5. CASE parent = 0
  <2>1. row.parent = 0 /\ row.chain = {}
    BY <1>2, <1>5
  <2>2. Edited([status EXCEPT ![n] = "queued"], exec)
    BY <1>2, <1>3, <1>4, <2>1, CreateEdits
  <2>3. QED
    BY <1>1, <2>2, PumpKeeps
<1>6. CASE parent # 0
  <2>1. /\ parent \in TaskId /\ Exists(parent)
        /\ \A v \in TaskId : Exists(v) => task[v].parent # parent
    BY <1>1, <1>6 DEF IsParent, IsLatest
  <2>2. /\ row.parent \in TaskId /\ Exists(row.parent)
        /\ row.chain = task[row.parent].chain \cup {row.parent}
        /\ \A v \in TaskId : Exists(v) => task[v].parent # row.parent
    BY <1>2, <1>6, <2>1
  <2>3. Edited([status EXCEPT ![n] = "queued"], exec)
    BY <1>2, <1>3, <1>4, <2>2, CreateEdits
  <2>4. QED
    BY <1>1, <2>3, PumpKeeps
<1>7. QED
  BY <1>5, <1>6

(* What only moves messages, outputs and calls that wait.                    *)
LEMMA IntakeAndDeliveryKeep ==
  ASSUME QueueInv,
         \/ \E g \in Groups : BeginEnable(g) \/ RefuseEnable(g)
         \/ \E t \in TaskId : BeginRetry(t) \/ RefuseRetry(t)
         \/ \E m \in Messages : Deliver(m)
         \/ AnswerHelp \/ Ignore \/ Delivery
  PROVE  Kept
<1>1. UNCHANGED <<configVars, task, status, exec, phase>>
  BY DEF BeginEnable, RefuseEnable, BeginRetry, RefuseRetry, Deliver, AnswerHelp, Ignore, intakeFrame,
         storeVars, configVars, Delivery, deliveryFrame,
         RosterAnswered, Throttled, RateLimited, Sends, Sent, DeliveryFails
<1>2. QED
  BY <1>1, NothingMoved

(* Every step keeps what the queue promises.                                *)
LEMMA NextKeeps == ASSUME QueueInv, Next PROVE Kept
<1>1. CASE Lifecycle
  BY <1>1, StartKeeps, StopKeeps, StoppedKeeps, CrashKeeps, TickKeeps DEF Lifecycle
<1>2. CASE Owner
  <2>1. CASE \E g \in Groups : Pause(g) \/ FinishEnable(g)
    BY <2>1, OwnerChangeKeeps DEF Pause, FinishEnable
  <2>2. CASE \E r \in Repos : RemoveRepository(r)
    BY <2>2, OwnerChangeKeeps DEF RemoveRepository
  <2>3. CASE \E r \in Repos : AddRepository(r)
    BY <2>3, AddRepositoryKeeps
  <2>4. CASE \E g \in Groups, p \in Participants : \E R \in SUBSET Linked(g) : SetAccess(g, p, R)
    BY <2>4, OwnerChangeKeeps DEF SetAccess
  <2>5. CASE \E t \in TaskId : CancelTask(t)
    BY <2>5, CancelTurnKeeps
  <2>6. CASE \E t \in TaskId : FinishRetry(t)
    BY <2>6, FinishRetryKeeps
  <2>7. QED
    BY <1>2, <2>1, <2>2, <2>3, <2>4, <2>5, <2>6, IntakeAndDeliveryKeep DEF Owner
<1>3. CASE Execution
  BY <1>3, MemberAnsweredKeeps, ValidatedKeeps, ExecutedKeeps, RememberedKeeps, ExecutionFailsKeeps,
     CancelTurnKeeps DEF Execution
<1>4. CASE Intake
  BY <1>4, AnswerCommandKeeps, AcceptWorkKeeps, IntakeAndDeliveryKeep DEF Intake
<1>5. CASE Delivery
  BY <1>5, IntakeAndDeliveryKeep
<1>6. QED
  BY <1>1, <1>2, <1>3, <1>4, <1>5 DEF Next

(* So does a step that changes nothing.                                     *)
LEMMA StutterKeeps == ASSUME QueueInv, UNCHANGED vars PROVE Kept
BY NothingMoved DEF vars, storeVars, serviceVars, configVars

(* The ledger is empty at first.                                            *)
LEMMA InitLedger == Init => Ledger(phase, status, exec, task) /\ AuthorizedWork
<1>1. SUFFICES ASSUME Init PROVE Ledger(phase, status, exec, task) /\ AuthorizedWork
  OBVIOUS
<1>2. /\ phase = "down"
      /\ \A t \in TaskId : status[t] = "absent" /\ exec[t] = "idle"
                           /\ task[t].parent = 0 /\ task[t].chain = {}
  BY <1>1 DEF Init, NoTask
<1>3. LedgerTypes(phase, status, exec)
  BY <1>1 DEF Init, LedgerTypes, TaskStatus, ExecStep
<1>4. QED
  BY <1>2, <1>3 DEF Ledger, Exclusive, Backed, InStep, Rows, InOrder, Lines, AuthorizedWork

-----------------------------------------------------------------------------
(***************************************************************************)
(* Types: the outbox and its delivery, the rows, the rest.                 *)
(***************************************************************************)

(* The delivery only looks at outputs that exist.                            *)
DeliveryTyped ==
  /\ outbox \in Seq(OutputRow)
  /\ flush \in FlushState
  /\ flush.at # "idle" => flush.cur \in DOMAIN outbox /\ flush.rest \subseteq DOMAIN outbox

ConfigTyped ==
  /\ enabled \in [Groups -> BOOLEAN]
  /\ activatedAt \in [Groups -> Nat]
  /\ repository \in [Repos -> {"unlinked", "linked", "removed"}]
  /\ grants \in [Participants -> SUBSET Repos]

CallsTyped ==
  /\ intake = NoIntake \/ (intake.message \in Messages /\ intake.granted \subseteq Repos)
  /\ enabling \subseteq Groups
  /\ used \in [Budget -> Nat]

(* updateOutput keeps the rows of the outbox rows, and their order.         *)
LEMMA UpdateTyped ==
  ASSUME NEW out \in Seq(OutputRow), NEW I, NEW s \in {"sent", "suppressed"}
  PROVE  /\ UpdateOutputs(out, I, s) \in Seq(OutputRow)
         /\ DOMAIN UpdateOutputs(out, I, s) = DOMAIN out
<1>1. \A i \in DOMAIN out : out[i] \in OutputRow
  OBVIOUS
<1>2. \A i \in DOMAIN out : [out[i] EXCEPT !.state = s] \in OutputRow
  BY <1>1 DEF OutputRow
<1>3. DOMAIN out = 1..Len(out) /\ Len(out) \in Nat
  OBVIOUS
<1>4. UpdateOutputs(out, I, s) \in [1..Len(out) -> OutputRow]
  BY <1>1, <1>2, <1>3 DEF UpdateOutputs
<1>5. QED
  BY <1>3, <1>4

(* So does suppressing some of them.                                        *)
LEMMA SuppressTyped ==
  ASSUME NEW out \in Seq(OutputRow), NEW I
  PROVE  Suppress(out, I) \in Seq(OutputRow) /\ DOMAIN Suppress(out, I) = DOMAIN out
BY UpdateTyped DEF Suppress

(* A new output is a row, and moves no other.                               *)
LEMMA AppendTyped ==
  ASSUME NEW out \in Seq(OutputRow), NEW g \in Groups, NEW t \in 0..MaxTasks, NEW p \in Participants
  PROVE  /\ Append(out, Output(g, t, p)) \in Seq(OutputRow)
         /\ DOMAIN out \subseteq DOMAIN Append(out, Output(g, t, p))
<1>1. Output(g, t, p) \in OutputRow
  BY DEF Output, OutputRow
<1>2. QED
  BY <1>1

(* The loop of deliverOutbox() waits at a row that exists, if it waits.     *)
LEMMA ScanTyped ==
  ASSUME NEW out \in Seq(OutputRow), NEW rest \in SUBSET DOMAIN out, NEW failed \in SUBSET Groups,
         Scan(rest, failed, out)
  PROVE  DeliveryTyped'
<1>1. outbox' \in Seq(OutputRow) /\ DOMAIN outbox' = DOMAIN out
  BY SuppressTyped DEF Scan
<1>2. NoFlush \in FlushState /\ NoFlush.at = "idle"
  BY DEF NoFlush, FlushState, FlushStep
<1>3. CASE flush' = NoFlush
  BY <1>1, <1>2, <1>3 DEF DeliveryTyped
<1>4. CASE flush' # NoFlush
  <2>1. PICK i \in rest : flush' = [at |-> "roster", cur |-> i, rest |-> {j \in rest : j > i},
                                   failed |-> failed, full |-> FALSE, tries |-> 0]
    BY <1>4 DEF Scan
  <2>2. rest \subseteq Nat
    OBVIOUS
  <2>3. flush' \in FlushState
    BY <2>1, <2>2 DEF FlushState, FlushStep
  <2>4. flush'.cur \in DOMAIN outbox' /\ flush'.rest \subseteq DOMAIN outbox'
    BY <1>1, <2>1
  <2>5. QED
    BY <1>1, <2>3, <2>4 DEF DeliveryTyped
<1>5. QED
  BY <1>3, <1>4

(* So does a flush, begun or already in flight.                             *)
LEMMA StartFlushTyped ==
  ASSUME DeliveryTyped, NEW out \in Seq(OutputRow), DOMAIN outbox \subseteq DOMAIN out,
         StartFlush(out)
  PROVE  DeliveryTyped'
<1>1. CASE outbox' = out /\ flush' = flush
  BY <1>1 DEF DeliveryTyped
<1>2. CASE Scan({i \in DOMAIN out : out[i].state = "pending"}, {}, out)
  BY <1>2, ScanTyped
<1>3. QED
  BY <1>1, <1>2 DEF StartFlush

(* The inductive invariant. *)
IInv ==
  /\ Ledger(phase, status, exec, task)
  /\ AuthorizedWork
  /\ ConfigTyped
  /\ RowsTyped
  /\ DeliveryTyped
  /\ CallsTyped

(* The inductive invariant holds the types and what the queue needs.        *)
LEMMA IInvQueue == IInv => TypeOK /\ QueueInv
BY DEF IInv, TypeOK, QueueInv, Ledger, LedgerTypes, ConfigTyped, RowsTyped, DeliveryTyped, CallsTyped

(* Suppressing outputs, or giving the flush up, keeps the delivery typed.   *)
LEMMA OutboxKept ==
  ASSUME DeliveryTyped, NEW I, outbox' = Suppress(outbox, I) \/ outbox' = outbox,
         flush' = flush \/ flush' = NoFlush
  PROVE  DeliveryTyped'
<1>1. outbox' \in Seq(OutputRow) /\ DOMAIN outbox' = DOMAIN outbox
  BY SuppressTyped DEF DeliveryTyped
<1>2. NoFlush \in FlushState /\ NoFlush.at = "idle"
  BY DEF NoFlush, FlushState, FlushStep
<1>3. QED
  BY <1>1, <1>2 DEF DeliveryTyped

(* Starting, stopping, crashing and the timer keep the delivery typed.      *)
LEMMA LifecycleDelivers == ASSUME IInv, Lifecycle PROVE DeliveryTyped'
<1>1. CASE Start
  <2>1. RecoveredOutbox \in Seq(OutputRow) /\ DOMAIN RecoveredOutbox = DOMAIN outbox
    BY SuppressTyped DEF RecoveredOutbox, IInv, DeliveryTyped
  <2> DEFINE out == Suppress(RecoveredOutbox, OutputsOf(outbox, Fallen(Recovered, exec)))
  <2>2. out \in Seq(OutputRow) /\ DOMAIN outbox \subseteq DOMAIN out
    BY <2>1, SuppressTyped
  <2>3. StartFlush(out)
    BY <1>1 DEF Start
  <2> HIDE DEF out
  <2>4. QED
    BY <2>2, <2>3, StartFlushTyped DEF IInv
<1>2. CASE Tick
  <2> DEFINE out == Suppress(outbox, OutputsOf(outbox, Fallen(status, exec)))
  <2>1. out \in Seq(OutputRow) /\ DOMAIN outbox \subseteq DOMAIN out
    BY SuppressTyped DEF IInv, DeliveryTyped
  <2>2. StartFlush(out)
    BY <1>2 DEF Tick
  <2> HIDE DEF out
  <2>3. QED
    BY <2>1, <2>2, StartFlushTyped DEF IInv
<1>3. CASE Stop \/ Stopped \/ Crash
  BY <1>3, OutboxKept DEF Stop, Stopped, Crash, Die, storeVars, IInv
<1>4. QED
  BY <1>1, <1>2, <1>3 DEF Lifecycle

(* An owner change only suppresses outputs.                                 *)
LEMMA OwnerChangeDelivers ==
  ASSUME IInv, NEW I, NEW out, out = outbox \/ out = Suppress(outbox, I),
         NEW pumps, NEW calls, OwnerChange(out, pumps, calls)
  PROVE  DeliveryTyped'
<1>1. out \in Seq(OutputRow) /\ DOMAIN out = DOMAIN outbox
  BY SuppressTyped DEF IInv, DeliveryTyped
<1>2. CASE outbox' = outbox /\ flush' = NoFlush
  BY <1>2, OutboxKept DEF IInv
<1>3. CASE outbox' = CancelUnauthorized(out) /\ flush' = flush
  <2>1. outbox' \in Seq(OutputRow) /\ DOMAIN outbox' = DOMAIN outbox
    BY <1>1, <1>3, SuppressTyped DEF CancelUnauthorized
  <2>2. QED
    BY <1>3, <2>1 DEF IInv, DeliveryTyped
<1>4. QED
  BY <1>2, <1>3 DEF OwnerChange, Settle, Die

(* So do all calls of the owner.                                            *)
LEMMA OwnerDelivers == ASSUME IInv, Owner PROVE DeliveryTyped'
<1>1. CASE \E g \in Groups : Pause(g) \/ FinishEnable(g)
  BY <1>1, OwnerChangeDelivers DEF Pause, FinishEnable
<1>2. CASE \E r \in Repos : RemoveRepository(r)
  BY <1>2, OwnerChangeDelivers DEF RemoveRepository
<1>3. CASE \E g \in Groups, p \in Participants : \E R \in SUBSET Linked(g) : SetAccess(g, p, R)
  BY <1>3, OwnerChangeDelivers DEF SetAccess
<1>4. CASE \/ \E g \in Groups : BeginEnable(g) \/ RefuseEnable(g)
           \/ \E r \in Repos : AddRepository(r)
           \/ \E t \in TaskId : CancelTask(t) \/ BeginRetry(t) \/ FinishRetry(t) \/ RefuseRetry(t)
  BY <1>4, OutboxKept DEF IInv, BeginEnable, RefuseEnable, AddRepository, BeginRetry, FinishRetry, RefuseRetry,
                          CancelTask, CancelTurn, cancelFrame, storeVars
<1>5. QED
  BY <1>1, <1>2, <1>3, <1>4 DEF Owner

(* The outputs of a run are rows: its task has a group and an author.       *)
LEMMA TellDelivers ==
  ASSUME IInv, NEW t \in TaskId, exec[t] # "idle", Tell(t) PROVE DeliveryTyped'
<1>1. task[t].group \in Groups /\ task[t].author \in Participants
  BY DEF IInv, Ledger, Backed, RowsTyped
<1>2. t \in 0..MaxTasks
  BY DEF TaskId
<1>3. outbox \in Seq(OutputRow)
  BY DEF IInv, DeliveryTyped
<1>4. QED
  BY <1>1, <1>2, <1>3, AppendTyped, StartFlushTyped DEF Tell, IInv

(* The steps of a run keep the delivery typed.                              *)
LEMMA ExecutionDelivers == ASSUME IInv, Execution PROVE DeliveryTyped'
<1>1. PICK t \in TaskId : \/ MemberAnswered(t) \/ Validated(t) \/ Executed(t) \/ Remembered(t)
                          \/ ExecutionFails(t) \/ RefreshMembership(t)
  BY DEF Execution
<1>2. CASE RefreshMembership(t)
  BY <1>2, OutboxKept DEF IInv, RefreshMembership, CancelTurn, cancelFrame
<1>3. CASE exec[t] # "idle" /\ Tell(t)
  BY <1>3, TellDelivers
<1>4. CASE UNCHANGED <<outbox, flush>>
  BY <1>4, OutboxKept DEF IInv
<1>5. CASE Expelled(t)
  BY <1>5, OutboxKept DEF IInv, Expelled
<1>6. QED
  BY <1>1, <1>2, <1>3, <1>4, <1>5
     DEF MemberAnswered, Validated, Executed, Remembered, ExecutionFails, Fails, Return

(* So do the answers to messages.                                           *)
LEMMA IntakeDelivers == ASSUME IInv, Intake PROVE DeliveryTyped'
<1> DEFINE m == intake.message
<1>1. outbox \in Seq(OutputRow)
  BY DEF IInv, DeliveryTyped
<1>2. intake # NoIntake => m.group \in Groups /\ m.sender \in Participants
  BY ServiceAssumption DEF IInv, CallsTyped, WellFormed
<1>3. 0 \in 0..MaxTasks
  BY RepositoryAssumption
<1>4. CASE AnswerCommand
  <2>1. PICK I : StartFlush(Append(Suppress(outbox, I), Output(m.group, 0, m.sender)))
    BY <1>4 DEF AnswerCommand
  <2>2. m.group \in Groups /\ m.sender \in Participants
    BY <1>2, <1>4 DEF AnswerCommand, Admitted
  <2>3. Suppress(outbox, I) \in Seq(OutputRow) /\ DOMAIN Suppress(outbox, I) = DOMAIN outbox
    BY <1>1, SuppressTyped
  <2> HIDE DEF m
  <2>4. /\ Append(Suppress(outbox, I), Output(m.group, 0, m.sender)) \in Seq(OutputRow)
        /\ DOMAIN outbox \subseteq DOMAIN Append(Suppress(outbox, I), Output(m.group, 0, m.sender))
    BY <1>3, <2>2, <2>3, AppendTyped
  <2>5. QED
    BY <2>1, <2>4, StartFlushTyped DEF IInv
<1>5. CASE AnswerHelp \/ AcceptWork
  <2>1. PICK t \in 0..MaxTasks : StartFlush(Append(outbox, Output(m.group, t, m.sender)))
    <3>1. CASE AnswerHelp
      BY <1>3, <3>1 DEF AnswerHelp
    <3>2. CASE AcceptWork
      <4>1. TaskId \subseteq 0..MaxTasks
        BY DEF TaskId
      <4>2. QED
        BY <3>2, <4>1 DEF AcceptWork
    <3>3. QED
      BY <1>5, <3>1, <3>2
  <2>2. m.group \in Groups /\ m.sender \in Participants
    BY <1>2, <1>5 DEF AnswerHelp, AcceptWork, Admitted
  <2> HIDE DEF m
  <2>3. QED
    BY <1>1, <2>1, <2>2, AppendTyped, StartFlushTyped DEF IInv
<1>6. CASE (\E n \in Messages : Deliver(n)) \/ Ignore
  BY <1>6, OutboxKept DEF IInv, Deliver, Ignore, storeVars
<1>7. QED
  BY <1>4, <1>5, <1>6 DEF Intake

(* So does the delivery itself.                                             *)
LEMMA DeliveryDelivers == ASSUME IInv, Delivery PROVE DeliveryTyped'
<1>1. /\ outbox \in Seq(OutputRow) /\ flush \in FlushState
      /\ flush.at # "idle" => flush.cur \in DOMAIN outbox /\ flush.rest \subseteq DOMAIN outbox
  BY DEF IInv, DeliveryTyped
<1>2. flush.failed \in SUBSET Groups
  BY <1>1 DEF FlushState
<1>3. flush.at # "idle" => Current.group \in Groups
  <2>1. SUFFICES ASSUME flush.at # "idle" PROVE Current.group \in Groups
    OBVIOUS
  <2>2. outbox[flush.cur] \in OutputRow
    BY <1>1, <2>1
  <2>3. QED
    BY <2>2 DEF Current, OutputRow
<1>4. ASSUME outbox' = outbox, flush.at # "idle",
             NEW a \in FlushStep, NEW b \in BOOLEAN, NEW n \in Nat,
             flush' = [flush EXCEPT !.at = a, !.full = b, !.tries = n]
      PROVE  DeliveryTyped'
  <2>1. flush' \in FlushState /\ flush'.cur = flush.cur /\ flush'.rest = flush.rest
    BY <1>1, <1>4 DEF FlushState
  <2>2. QED
    BY <1>1, <1>4, <2>1 DEF DeliveryTyped
<1>5. ASSUME flush.at # "idle", NEW failed \in SUBSET Groups,
             NEW out \in Seq(OutputRow), DOMAIN out = DOMAIN outbox,
             Scan(flush.rest, failed, out)
      PROVE  DeliveryTyped'
  BY <1>1, <1>5, ScanTyped
<1>6. flush.full \in BOOLEAN /\ flush.tries \in Nat
  BY <1>1 DEF FlushState
<1>7. CASE RosterAnswered
  <2>1. flush.at # "idle"
    BY <1>7 DEF RosterAnswered
  <2>2. PICK people \in SUBSET Participants :
          \/ /\ flush' = [flush EXCEPT !.at = "throttle", !.tries = 1,
                                       !.full = EveryoneAuthorized(Current, people)]
             /\ outbox' = outbox
          \/ Scan(flush.rest, flush.failed, Suppress(outbox, {flush.cur}))
    BY <1>7 DEF RosterAnswered
  <2>3. CASE Scan(flush.rest, flush.failed, Suppress(outbox, {flush.cur}))
    BY <1>1, <1>2, <1>5, <2>1, <2>3, SuppressTyped
  <2>4. CASE /\ flush' = [flush EXCEPT !.at = "throttle", !.tries = 1,
                                       !.full = EveryoneAuthorized(Current, people)]
             /\ outbox' = outbox
    <3>1. EveryoneAuthorized(Current, people) \in BOOLEAN
      BY DEF EveryoneAuthorized
    <3>2. flush' = [flush EXCEPT !.at = "throttle", !.full = EveryoneAuthorized(Current, people), !.tries = 1]
      BY <1>1, <2>4 DEF FlushState
    <3>3. QED
      BY <1>4, <2>1, <2>4, <3>1, <3>2 DEF FlushStep
  <2>5. QED
    BY <2>2, <2>3, <2>4
<1>8. CASE Throttled \/ RateLimited \/ Sends
  <2>1. flush.at # "idle" /\ outbox' = outbox
    BY <1>8 DEF Throttled, RateLimited, Sends
  <2>2. CASE Throttled
    <3>1. flush' = [flush EXCEPT !.at = "manager", !.full = flush.full, !.tries = flush.tries]
      BY <1>1, <2>2 DEF Throttled, FlushState
    <3>2. QED
      BY <1>4, <1>6, <2>1, <3>1 DEF FlushStep
  <2>3. CASE Sends
    <3>1. flush' = [flush EXCEPT !.at = "wire", !.full = flush.full, !.tries = flush.tries]
      BY <1>1, <2>3 DEF Sends, FlushState
    <3>2. QED
      BY <1>4, <1>6, <2>1, <3>1 DEF FlushStep
  <2>4. CASE RateLimited
    <3>1. flush' = [flush EXCEPT !.at = "throttle", !.full = flush.full, !.tries = flush.tries + 1]
      BY <1>1, <2>4 DEF RateLimited, FlushState
    <3>2. flush.tries + 1 \in Nat
      BY <1>6
    <3>3. QED
      BY <1>4, <1>6, <2>1, <3>1, <3>2 DEF FlushStep
  <2>5. QED
    BY <1>8, <2>2, <2>3, <2>4
<1>9. CASE Sent
  <2>1. Scan(flush.rest, flush.failed, UpdateOutputs(outbox, {flush.cur}, "sent")) /\ flush.at # "idle"
    BY <1>9 DEF Sent
  <2>2. QED
    BY <1>1, <1>2, <1>5, <2>1, UpdateTyped
<1>10. CASE DeliveryFails
  <2>1. flush.failed \cup {Current.group} \in SUBSET Groups
    BY <1>2, <1>3, <1>10 DEF DeliveryFails
  <2>2. QED
    BY <1>1, <1>5, <1>10, <2>1 DEF DeliveryFails
<1>11. QED
  BY <1>7, <1>8, <1>9, <1>10 DEF Delivery

(* Every step keeps the delivery typed.                                     *)
LEMMA NextDelivers == ASSUME IInv, Next PROVE DeliveryTyped'
BY LifecycleDelivers, OwnerDelivers, ExecutionDelivers, IntakeDelivers, DeliveryDelivers DEF Next

(* Every step keeps the configuration tables typed.                         *)
LEMMA NextConfigures == ASSUME IInv, Next PROVE ConfigTyped'
<1>1. CASE UNCHANGED configVars
  BY <1>1 DEF IInv, ConfigTyped, configVars
<1> USE DEF IInv, ConfigTyped
<1>2. CASE \E g \in Groups : Pause(g) \/ FinishEnable(g)
  <2>1. PICK g \in Groups : Pause(g) \/ FinishEnable(g)
    BY <1>2
  <2>2. repository' = repository /\ grants' = grants
    BY <2>1 DEF Pause, FinishEnable
  <2>3. enabled' \in [Groups -> BOOLEAN]
    BY <2>1 DEF Pause, FinishEnable
  <2>4. activatedAt' \in [Groups -> Nat]
    <3>1. CASE Pause(g)
      BY <3>1 DEF Pause
    <3>2. CASE FinishEnable(g)
      <4>1. activatedAt[g] \in Nat
        OBVIOUS
      <4>2. activatedAt' = [activatedAt EXCEPT ![g] = activatedAt[g]]
            \/ activatedAt' = [activatedAt EXCEPT ![g] = activatedAt[g] + 1]
        BY <3>2 DEF FinishEnable
      <4>3. QED
        BY <4>1, <4>2
    <3>3. QED
      BY <2>1, <3>1, <3>2
  <2>5. QED
    BY <2>2, <2>3, <2>4
<1>3. CASE \E r \in Repos : AddRepository(r) \/ RemoveRepository(r)
  <2>1. PICK r \in Repos : AddRepository(r) \/ RemoveRepository(r)
    BY <1>3
  <2>2. enabled' = enabled /\ activatedAt' = activatedAt
    BY <2>1 DEF AddRepository, RemoveRepository
  <2>3. repository' \in [Repos -> {"unlinked", "linked", "removed"}]
    BY <2>1 DEF AddRepository, RemoveRepository
  <2>4. grants' \in [Participants -> SUBSET Repos]
    <3>1. CASE AddRepository(r)
      BY <3>1 DEF AddRepository
    <3>2. CASE RemoveRepository(r)
      <4>1. \A p \in Participants : grants[p] \ {r} \in SUBSET Repos
        OBVIOUS
      <4>2. grants' = [p \in Participants |-> grants[p] \ {r}]
        BY <3>2 DEF RemoveRepository
      <4>3. QED
        BY <4>1, <4>2
    <3>3. QED
      BY <2>1, <3>1, <3>2
  <2>5. QED
    BY <2>2, <2>3, <2>4
<1>4. CASE \E g \in Groups, p \in Participants : \E R \in SUBSET Linked(g) : SetAccess(g, p, R)
  BY <1>4 DEF SetAccess, Linked, IInv, ConfigTyped
<1>5. CASE Lifecycle
  BY <1>1, <1>5 DEF Lifecycle, Start, Stop, Stopped, Crash, Tick, storeVars, configVars
<1>6. CASE Owner
  <2>1. CASE \/ \E g \in Groups : BeginEnable(g) \/ RefuseEnable(g)
             \/ \E t \in TaskId : CancelTask(t) \/ BeginRetry(t) \/ FinishRetry(t) \/ RefuseRetry(t)
    BY <1>1, <2>1 DEF BeginEnable, RefuseEnable, CancelTask, cancelFrame, BeginRetry, FinishRetry,
                      RefuseRetry, storeVars, configVars
  <2>2. QED
    BY <1>2, <1>3, <1>4, <1>6, <2>1 DEF Owner
<1>7. CASE Execution
  BY <1>1, <1>7 DEF Execution, MemberAnswered, Validated, Executed, Remembered, ExecutionFails,
                    RefreshMembership, execFrame, cancelFrame
<1>8. CASE Intake
  BY <1>1, <1>8 DEF Intake, Deliver, AnswerCommand, AnswerHelp, AcceptWork, Ignore, intakeFrame,
                    storeVars, configVars
<1>9. CASE Delivery
  BY <1>1, <1>9 DEF Delivery, deliveryFrame, RosterAnswered, Throttled, RateLimited, Sends, Sent, DeliveryFails
<1>10. QED
  BY <1>5, <1>6, <1>7, <1>8, <1>9 DEF Next

(* Every step keeps what is in flight, and the bounds, typed.               *)
LEMMA NextCalls == ASSUME IInv, Next PROVE CallsTyped'
<1>1. CASE UNCHANGED <<intake, enabling, used>>
  BY <1>1 DEF IInv, CallsTyped
<1>2. ASSUME NEW kind \in Budget, Spend(kind) PROVE used' \in [Budget -> Nat]
  BY <1>2 DEF Spend, IInv, CallsTyped
<1>3. /\ used \in [Budget -> Nat] /\ enabling \subseteq Groups
      /\ intake = NoIntake \/ (intake.message \in Messages /\ intake.granted \subseteq Repos)
  BY DEF IInv, CallsTyped
<1>4. /\ "changes" \in Budget /\ "cancels" \in Budget /\ "retries" \in Budget
      /\ "deliveries" \in Budget /\ "outages" \in Budget /\ "torn" \in Budget
  BY DEF Budget
<1>5. CASE Lifecycle
  BY <1>2, <1>3, <1>4, <1>5 DEF Lifecycle, Start, Stop, Stopped, Crash, Tick, Die, CallsTyped
<1>6. ASSUME NEW out, NEW pumps, NEW calls \in SUBSET Groups, OwnerChange(out, pumps, calls)
      PROVE  CallsTyped'
  BY <1>2, <1>3, <1>4, <1>6 DEF OwnerChange, Settle, Die, CallsTyped
<1>7. CASE Owner
  <2>1. CASE \E g \in Groups : Pause(g) \/ FinishEnable(g)
    BY <1>3, <1>6, <2>1 DEF Pause, FinishEnable
  <2>2. CASE \E r \in Repos : RemoveRepository(r)
    BY <1>3, <1>6, <2>2 DEF RemoveRepository
  <2>3. CASE \E g \in Groups, p \in Participants : \E R \in SUBSET Linked(g) : SetAccess(g, p, R)
    BY <1>3, <1>6, <2>3 DEF SetAccess
  <2>4. CASE \E g \in Groups : BeginEnable(g) \/ RefuseEnable(g)
    BY <1>3, <2>4 DEF BeginEnable, RefuseEnable, CallsTyped
  <2>5. CASE \/ \E r \in Repos : AddRepository(r)
             \/ \E t \in TaskId : CancelTask(t) \/ BeginRetry(t) \/ FinishRetry(t) \/ RefuseRetry(t)
    BY <1>2, <1>3, <1>4, <2>5 DEF AddRepository, CancelTask, cancelFrame, BeginRetry, FinishRetry, RefuseRetry,
                                  CallsTyped
  <2>6. QED
    BY <1>7, <2>1, <2>2, <2>3, <2>4, <2>5 DEF Owner
<1>8. CASE Execution
  BY <1>1, <1>2, <1>3, <1>4, <1>8
     DEF Execution, MemberAnswered, Validated, Executed, Remembered, ExecutionFails,
         RefreshMembership, execFrame, cancelFrame, CallsTyped
<1>9. CASE Intake
  <2>1. CASE \E m \in Messages : Deliver(m)
    <3>1. PICK m \in Messages : Deliver(m)
      BY <2>1
    <3>2. intake'.message = m /\ intake'.granted = Granted(m.group, m.sender) /\ enabling' = enabling
      BY <3>1 DEF Deliver
    <3>3. Granted(m.group, m.sender) \subseteq Repos
      BY ServiceAssumption DEF WellFormed, Granted, GrantedIn, IInv, ConfigTyped
    <3>4. used' \in [Budget -> Nat]
      BY <1>2, <1>4, <3>1 DEF Deliver
    <3>5. QED
      BY <1>3, <3>2, <3>3, <3>4 DEF CallsTyped
  <2>2. CASE AnswerCommand \/ AnswerHelp \/ AcceptWork \/ Ignore
    BY <1>3, <2>2 DEF AnswerCommand, AnswerHelp, AcceptWork, Ignore, intakeFrame, CallsTyped
  <2>3. QED
    BY <1>9, <2>1, <2>2 DEF Intake
<1>10. CASE Delivery
  BY <1>1, <1>10 DEF Delivery, deliveryFrame, RosterAnswered, Throttled, RateLimited, Sends, Sent, DeliveryFails
<1>11. QED
  BY <1>5, <1>7, <1>8, <1>9, <1>10 DEF Next

(* Rows never change.                                                        *)
LEMMA RowsKept ==
  ASSUME IInv, Kept, task' = task, receipts \subseteq receipts',
         \A t \in retrying' : t \in TaskId /\ status[t] # "absent"
  PROVE  RowsTyped'
<1>1. task' \in [TaskId -> TaskRow']
  BY DEF IInv, RowsTyped, TaskRow
<1>2. \A t \in TaskId : status'[t] # "absent" => task'[t].group \in Groups /\ task'[t].author \in Participants
  BY DEF IInv, RowsTyped, Kept, Onward
<1>3. \A t \in retrying' : status'[t] # "absent"
  BY DEF Kept, Onward
<1>4. QED
  BY <1>1, <1>2, <1>3 DEF RowsTyped

(* A new row is of its type when its folders are, its parent is an id, and   *)
(* the message it comes from is on record.                                   *)
LEMMA RowCreated ==
  ASSUME IInv, Kept, receipts \subseteq receipts',
         retrying' \subseteq retrying,
         NEW n \in TaskId, NEW row \in TaskRow', CreateTask(n, row)
  PROVE  RowsTyped'
<1>1. task' \in [TaskId -> TaskRow']
  <2>1. task \in [TaskId -> TaskRow']
    BY DEF IInv, RowsTyped, TaskRow
  <2>2. QED
    BY <2>1 DEF CreateTask
<1>2. \A t \in TaskId : status'[t] # "absent" => task'[t].group \in Groups /\ task'[t].author \in Participants
  <2>1. \A t \in TaskId : status[t] # "absent" => task'[t] = task[t]
    BY DEF CreateTask, IsNextId, FreeId, IInv, RowsTyped
  <2>2. QED
    BY <2>1 DEF IInv, RowsTyped, Kept, Onward
<1>3. \A t \in retrying' : t \in TaskId /\ status'[t] # "absent"
  BY DEF Kept, Onward, IInv, RowsTyped
<1>4. QED
  BY <1>1, <1>2, <1>3 DEF RowsTyped

(* A retry copies the row of the task it retries.                            *)
LEMMA FinishRetryRows ==
  ASSUME IInv, Kept, NEW t \in TaskId, FinishRetry(t) PROVE RowsTyped'
<1> DEFINE row == NewTask(task[t].group, task[t].author, task[t].repos, 0, task[t].source)
<1>1. PICK n \in TaskId : CreateTask(n, row)
  BY DEF FinishRetry
<1>2. receipts' = receipts /\ retrying' \subseteq retrying
  BY DEF FinishRetry
<1>3. task[t] \in TaskRow
  BY DEF IInv, RowsTyped
<1>4. 0 \in 0..MaxTasks
  BY RepositoryAssumption
<1>5. row \in TaskRow'
  BY <1>2, <1>3, <1>4 DEF NewTask, TaskRow
<1> HIDE DEF row
<1>6. QED
  BY <1>1, <1>2, <1>5, RowCreated

(* Work asks for folders its author was granted, or for those of the turn it *)
(* continues, and its message is claimed in the same step.                   *)
LEMMA AcceptWorkRows ==
  ASSUME IInv, Kept, AcceptWork PROVE RowsTyped'
<1> DEFINE m == intake.message
<1>1. PICK parent \in 0..MaxTasks, n \in TaskId :
        /\ IsParent(parent, m)
        /\ CreateTask(n, NewTask(m.group, m.sender, Selection(parent, m), parent, Receipt(m)))
  BY DEF AcceptWork
<1> DEFINE row == NewTask(m.group, m.sender, Selection(parent, m), parent, Receipt(m))
<1>2. receipts' = receipts \cup {Receipt(m)} /\ retrying' = retrying
  BY DEF AcceptWork, intakeFrame
<1>3. m \in Messages /\ intake.granted \subseteq Repos
  BY DEF AcceptWork, Admitted, IInv, CallsTyped
<1>4. m.group \in Groups /\ m.sender \in Participants
  BY <1>3, ServiceAssumption DEF WellFormed
<1>5. parent # 0 => parent \in TaskId /\ task[parent] \in TaskRow
  BY <1>1 DEF TaskId, IInv, RowsTyped
<1>6. Selection(parent, m) \subseteq Repos
  <2>1. Selected(m) \subseteq Repos
    BY <1>3 DEF Selected
  <2>2. QED
    BY <1>5, <2>1 DEF Selection, TaskRow
<1>7. row.chain \subseteq TaskId
  BY <1>5 DEF NewTask, TaskRow
<1>8. row \in TaskRow'
  <2>1. row = [group |-> m.group, author |-> m.sender, repos |-> Selection(parent, m), parent |-> parent,
               chain |-> row.chain, source |-> Receipt(m)]
    BY DEF NewTask
  <2>2. Receipt(m) \in receipts'
    BY <1>2
  <2> HIDE DEF row
  <2>3. QED
    BY <1>4, <1>6, <1>7, <2>1, <2>2 DEF TaskRow
<1>9. CreateTask(n, row)
  BY <1>1
<1> HIDE DEF row
<1>10. QED
  BY <1>2, <1>8, <1>9, RowCreated

(* No other action writes a row, nor forgets a message.                      *)
LEMMA NextRows == ASSUME IInv, Kept, Next PROVE RowsTyped'
<1>1. \A t \in retrying : t \in TaskId /\ status[t] # "absent"
  BY DEF IInv, RowsTyped
<1>2. CASE task' = task /\ receipts \subseteq receipts' /\ retrying' \subseteq retrying
  BY <1>1, <1>2, RowsKept
<1>3. CASE Lifecycle
  BY <1>2, <1>3 DEF Lifecycle, Start, Stop, Stopped, Crash, Tick, Die, storeVars
<1>4. CASE Owner
  <2>1. CASE \E t \in TaskId : FinishRetry(t)
    BY <2>1, FinishRetryRows
  <2>2. CASE \E t \in TaskId : BeginRetry(t)
    <3>1. PICK t \in TaskId : BeginRetry(t)
      BY <2>2
    <3>2. retrying' = retrying \cup {t} /\ status[t] # "absent" /\ task' = task /\ receipts' = receipts
      BY <3>1 DEF BeginRetry, storeVars
    <3>3. QED
      BY <1>1, <3>2, RowsKept
  <2>3. CASE \/ \E g \in Groups : Pause(g) \/ FinishEnable(g)
             \/ \E r \in Repos : RemoveRepository(r)
             \/ \E g \in Groups, p \in Participants : \E R \in SUBSET Linked(g) : SetAccess(g, p, R)
    BY <1>2, <2>3 DEF Pause, FinishEnable, RemoveRepository, SetAccess, OwnerChange, Settle, Die
  <2>4. CASE \/ \E g \in Groups : BeginEnable(g) \/ RefuseEnable(g)
             \/ \E r \in Repos : AddRepository(r)
             \/ \E t \in TaskId : CancelTask(t) \/ RefuseRetry(t)
    BY <1>2, <2>4 DEF BeginEnable, RefuseEnable, AddRepository, CancelTask, cancelFrame, RefuseRetry, storeVars
  <2>5. QED
    BY <1>4, <2>1, <2>2, <2>3, <2>4 DEF Owner
<1>5. CASE Execution
  BY <1>2, <1>5 DEF Execution, MemberAnswered, Validated, Executed, Remembered, ExecutionFails,
                    RefreshMembership, execFrame, cancelFrame
<1>6. CASE Intake
  <2>1. CASE AcceptWork
    BY <2>1, AcceptWorkRows
  <2>2. CASE (\E m \in Messages : Deliver(m)) \/ AnswerCommand \/ AnswerHelp \/ Ignore
    BY <1>2, <2>2 DEF Deliver, AnswerCommand, AnswerHelp, Ignore, intakeFrame, storeVars
  <2>3. QED
    BY <1>6, <2>1, <2>2 DEF Intake
<1>7. CASE Delivery
  BY <1>2, <1>7 DEF Delivery, deliveryFrame, RosterAnswered, Throttled, RateLimited, Sends, Sent, DeliveryFails
<1>8. QED
  BY <1>3, <1>4, <1>5, <1>6, <1>7 DEF Next

-----------------------------------------------------------------------------
(***************************************************************************)
(* The theorems.                                                           *)
(***************************************************************************)

(* The program begins with IInv: no task, nothing in flight.                 *)
LEMMA InitIInv == Init => IInv
<1>1. SUFFICES ASSUME Init PROVE IInv
  OBVIOUS
<1>2. Ledger(phase, status, exec, task) /\ AuthorizedWork
  BY <1>1, InitLedger
<1>3. ConfigTyped
  BY <1>1, ServiceAssumption DEF Init, ConfigTyped
<1>4. RowsTyped
  <2>1. NoTask \in TaskRow
    BY RepositoryAssumption DEF NoTask, TaskRow
  <2>2. QED
    BY <1>1, <2>1 DEF Init, RowsTyped
<1>5. DeliveryTyped
  BY <1>1 DEF Init, DeliveryTyped, NoFlush, FlushState, FlushStep
<1>6. CallsTyped
  BY <1>1 DEF Init, CallsTyped
<1>7. QED
  BY <1>2, <1>3, <1>4, <1>5, <1>6 DEF IInv

(* Every step keeps IInv, and brings nothing back.                           *)
LEMMA StepKeeps == ASSUME IInv, [Next]_vars PROVE IInv' /\ Kept
<1>1. CASE Next
  <2>1. Kept
    BY <1>1, IInvQueue, NextKeeps
  <2>2. ConfigTyped' /\ RowsTyped' /\ DeliveryTyped' /\ CallsTyped'
    BY <1>1, <2>1, NextConfigures, NextRows, NextDelivers, NextCalls
  <2>3. QED
    BY <2>1, <2>2 DEF Kept, IInv
<1>2. CASE UNCHANGED vars
  <2>1. Kept
    BY <1>2, IInvQueue, StutterKeeps
  <2>2. ConfigTyped' /\ DeliveryTyped' /\ CallsTyped'
    BY <1>2 DEF vars, storeVars, serviceVars, IInv, ConfigTyped, DeliveryTyped, CallsTyped
  <2>3. RowsTyped'
    BY <1>2, <2>1, RowsKept DEF vars, storeVars, serviceVars, IInv, RowsTyped
  <2>4. QED
    BY <2>1, <2>2, <2>3 DEF Kept, IInv
<1>3. QED
  BY <1>1, <1>2

(* IInv holds in every state.                                                *)
THEOREM Invariance == Spec => []IInv
<1>1. Init => IInv
  BY InitIInv
<1>2. IInv /\ [Next]_vars => IInv'
  BY StepKeeps
<1>3. QED
  BY <1>1, <1>2, PTL DEF Spec

(* The tables and the variables of the service hold values of their types,   *)
(* whatever the rosters answer and wherever the program stops or dies.       *)
THEOREM TypeCorrect == Spec => []TypeOK
<1>1. IInv => TypeOK
  BY IInvQueue
<1>2. QED
  BY <1>1, Invariance, PTL

(* Two turns never hold overlapping folders, of one group or of several.     *)
THEOREM FoldersAreExclusive == Spec => []NoOverlap
<1>1. IInv => NoOverlap
  BY DEF IInv, Ledger, Exclusive, NoOverlap, Active, Conflict, RootsOverlap
<1>2. QED
  BY <1>1, Invariance, PTL

(* While the program is up, what is marked running or being cancelled still  *)
(* holds its folders.                                                        *)
THEOREM RunsAreReserved == Spec => []RunningIsReserved
<1>1. IInv => RunningIsReserved
  BY DEF IInv, Ledger, InStep, RunningIsReserved, Active
<1>2. QED
  BY <1>1, Invariance, PTL

(* A turn of a conversation starts only after the turn before it completed.  *)
THEOREM TurnsInOrder == Spec => []PredecessorCompleted
<1>1. IInv => PredecessorCompleted
  BY DEF IInv, Ledger, InOrder, PredecessorCompleted, Active
<1>2. QED
  BY <1>1, Invariance, PTL

(* Two people who add to a conversation never continue the same turn.        *)
THEOREM ConversationsAreLines == Spec => []LinearConversation
<1>1. IInv => LinearConversation
  BY DEF IInv, Ledger, Lines, LinearConversation
<1>2. QED
  BY <1>1, Invariance, PTL

(* While the program is up, whatever is queued or running is still allowed.  *)
THEOREM WorkIsAuthorized == Spec => []AuthorizedWork
<1>1. IInv => AuthorizedWork
  BY DEF IInv
<1>2. QED
  BY <1>1, Invariance, PTL

(* What was begun is never queued again and what has ended stays ended, over *)
(* every stop, crash, restart and late answer.                               *)
THEOREM NoReplay == Spec => NothingIsReplayed
<1>1. IInv /\ [Next]_vars =>
        [\A t \in TaskId : /\ status[t] \in {"running", "cancelling"} => status'[t] # "queued"
                           /\ status[t] \in Final => status'[t] = status[t]]_vars
  BY StepKeeps DEF Kept, Onward
<1>2. QED
  BY <1>1, Invariance, PTL DEF Spec, NothingIsReplayed

=============================================================================
