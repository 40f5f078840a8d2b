------------------------- MODULE CollaborationStore -------------------------
(***************************************************************************)
(* The SQLite tables of repository collaboration                           *)
(* (src/main/repository-collaboration/schema.ts and store.ts) and the      *)
(* reads and writes the service composes into its operations.  A write is  *)
(* an operator from a table to a table, so that an operation of the        *)
(* service can run several of them in one step, in the order of the code.  *)
(*                                                                         *)
(* An operator named or commented "after" reads the tables as the current  *)
(* step leaves them (primed): the code runs it after its own writes.       *)
(***************************************************************************)
EXTENDS Integers, FiniteSets, Sequences, SequencesExt

CONSTANTS
  Groups,         \* WhatsApp groups the owner has configured (rows of collaboration_groups)
  Participants,   \* verified identities of people in the groups
  Repos,          \* repositories the owner may link, one row each
  HomeGroup,      \* the group a repository row belongs to
  Root,           \* its canonical folder, as the sequence of its path components
  MaxTasks,       \* bound: rows of collaboration_tasks
  None            \* no group, no author, no message

ASSUME RepositoryAssumption ==
  /\ HomeGroup \in [Repos -> Groups]
  /\ MaxTasks \in Nat
  /\ None \notin Groups \cup Participants

TaskId == 1..MaxTasks

TaskStatus == {"absent", "queued", "running", "cancelling", "completed",
               "cancelled", "failed", "needs_attention"}

VARIABLES
  enabled,      \* group |-> not paused
  activatedAt,  \* group |-> number of times it was activated (0: never)
  repository,   \* repository |-> "unlinked", "linked" or "removed"
  grants,       \* participant |-> repositories granted to them
  task,         \* task |-> the columns that never change once the row exists
  status,       \* task |-> its status column ("absent": no such row)
  outbox,       \* collaboration_outbox in rowid order
  receipts      \* messages already turned into work or into an answer

storeVars == <<enabled, activatedAt, repository, grants, task, status, outbox, receipts>>

(* The immutable columns of a task.  "chain" is the conversation the turn   *)
(* continues: its parent, the parent of its parent, and so on.              *)
NoTask == [group |-> None, author |-> None, repos |-> {}, parent |-> 0,
           chain |-> {}, source |-> None]

(***************************************************************************)
(* Reads.                                                                  *)
(***************************************************************************)

(* store.allowedRepositoryIds, over given tables; now; after *)
GrantedIn(gr, rp, g, p) == {r \in gr[p] : HomeGroup[r] = g /\ rp[r] = "linked"}

Granted(g, p) == GrantedIn(grants, repository, g, p)
GrantedAfter(g, p) == GrantedIn(grants', repository', g, p)

(* store.repositories(groupId) *)
Linked(g) == {r \in Repos : HomeGroup[r] = g /\ repository[r] = "linked"}

Exists(t) == status[t] # "absent"

(* service.allowed: the group is on and the author still holds every grant;  *)
(* over given tables; now; after.                                            *)
AllowedIn(en, gr, rp, k) ==
  /\ en[k.group]
  /\ k.repos # {}
  /\ k.repos \subseteq GrantedIn(gr, rp, k.group, k.author)

Allowed(t) == AllowedIn(enabled, grants, repository, task[t])
AllowedAfter(t) == AllowedIn(enabled', grants', repository', task'[t])

(* mutant of RootsOverlap: folders inside one another are told apart *)
SameRoot(r, s) == Root[r] = Root[s]

(* rootsOverlap: the same folder, or one inside the other. *)
RootsOverlap(r, s) == IsPrefix(Root[r], Root[s]) \/ IsPrefix(Root[s], Root[r])

Conflict(R, S) == \E r \in R, s \in S : RootsOverlap(r, s)

FreeId == {t \in TaskId : status[t] = "absent"}

(* The next rowid: tasks() returns tasks in the order of their ids. *)
IsNextId(t) == t \in FreeId /\ \A u \in FreeId : t <= u

(* mutant of IsLatest: the turn that was named is continued *)
IsNamed(u, t) == Exists(u) /\ u = t

(* u is the latest turn of the conversation of t, found child by child. *)
IsLatest(u, t) ==
  /\ Exists(u)
  /\ u = t \/ t \in task[u].chain
  /\ \A v \in TaskId : Exists(v) => task[v].parent # u

QueuedIn(g) == Cardinality({t \in TaskId : status[t] = "queued" /\ task[t].group = g})

(***************************************************************************)
(* Writes.                                                                 *)
(***************************************************************************)

Output(g, t, p) == [group |-> g, task |-> t, to |-> p, state |-> "pending"]

SetStatus(st, T, s) == [t \in TaskId |-> IF t \in T THEN s ELSE st[t]]

(* updateOutput changes a row only while it is pending. *)
UpdateOutputs(out, I, s) ==
  [i \in DOMAIN out |->
     IF i \in I /\ out[i].state = "pending" THEN [out[i] EXCEPT !.state = s] ELSE out[i]]

Suppress(out, I) == UpdateOutputs(out, I, "suppressed")

OutputsOf(out, T) == {i \in DOMAIN out : out[i].task \in T}

(* claimMessage: a message is known by its group, its id and its sender. *)
Receipt(m) == <<m.group, m.id, m.sender>>

(* mutant of Unclaimed *)
EveryMessage(m) == TRUE

Unclaimed(m) == Receipt(m) \notin receipts

(* store.createTask, after.  The row is queued, whatever its parent does. *)
NewTask(g, p, R, parent, source) ==
  [group |-> g, author |-> p, repos |-> R, parent |-> parent,
   chain |-> IF parent = 0 THEN {} ELSE task[parent].chain \cup {parent},
   source |-> source]

CreateTask(t, row) ==
  /\ IsNextId(t)
  /\ task' = [task EXCEPT ![t] = row]

(* mutant of Interrupted: no recovery *)
NothingInterrupted == {}

(* store.recoverInterrupted: what was executing needs the owner's review,   *)
(* and nothing it had to say is sent.                                       *)
Interrupted == {t \in TaskId : status[t] \in {"running", "cancelling"}}

(* mutants of Recovered: interrupted work is queued again; the error code is written as the status *)
Requeued == SetStatus(status, Interrupted, "queued")
Mislabelled == SetStatus(status, Interrupted, "interrupted")

Recovered == SetStatus(status, Interrupted, "needs_attention")

RecoveredOutbox ==
  Suppress(outbox, OutputsOf(outbox, {t \in TaskId : Recovered[t] = "needs_attention"}))

=============================================================================
