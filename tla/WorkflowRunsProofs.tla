-------------------------- MODULE WorkflowRunsProofs --------------------------
(***************************************************************************)
(* Theorems about WorkflowRuns: the invariants and the action properties   *)
(* that the run Workflows checks, for every definition, every number of    *)
(* runs and nodes, and every budget.                                       *)
(***************************************************************************)
EXTENDS WorkflowRuns, FiniteSetTheorems, TLAPS

(* Places at which nodes of a run may execute; those of the loop, which has  *)
(* all nodes to run, and those before it.                                    *)
Loop == {"turn", "cascade", "race", "drain"}
Work == Loop \cup {"step"}
Before == {"prepared", "preflight"}

(* What is stored: revisions are graphs that were validated, records and      *)
(* decided starts name revisions the workflow has, and what it shows last is  *)
(* a record.                                                                  *)
FiledInv ==
  /\ \A i \in 1..Current : ValidGraph(Of(i))
  /\ \A r \in Runs : row[r].status # "none" => ValidGraph(GraphOf(r))
  /\ Exists => /\ \A r \in Runs : row[r].status # "none" => row[r].revision \in 1..Current
               /\ \A s \in starts : s.revision \in 1..Current
  /\ workflow.lastRun # 0 => row[workflow.lastRun].status # "none"

(* An instant that has been given to a start has passed, and what is due     *)
(* next comes after it.                                                       *)
Given(i) == i # 0 /\ i <= hour /\ (workflow.nextRun # 0 => i < workflow.nextRun)

(* An instant is with one start that is decided, or in one record.           *)
SlotInv ==
  /\ \A r \in Runs : row[r].slot # 0 => Given(row[r].slot)
  /\ \A s \in starts : Given(s.slot) /\ \A r \in Runs : row[r].slot # s.slot
  /\ \A s, t \in starts : s.slot = t.slot => s = t
  /\ \A r, q \in Runs : row[r].slot # 0 /\ row[r].slot = row[q].slot => r = q

(* A record that was not made is empty, and its run has called nothing.      *)
BlankInv(r) ==
  row[r].status = "none" => row[r] = NoRow /\ \A n \in Nodes : <<r, n>> \notin called

(* Where a run is, against what its record says of it and where its nodes    *)
(* are: it has one node or all of them, a run that leaves has ended, and only  *)
(* a run at work executes nodes or calls.                                      *)
PlaceInv(r) ==
  /\ row[r].status # "none" => row[r].only \in {0} \cup GraphOf(r).nodes
  /\ row[r].only # 0 => row[r].trigger = "step"
  /\ at[r] \in Loop => row[r].only = 0
  /\ at[r] = "step" => row[r].only # 0
  /\ at[r] = "leaving" => row[r].status \in RunEnded
  /\ at[r] \notin Work => \A n \in Nodes : stage[r][n] = "none"
  /\ at[r] \in Before => \A n \in Nodes : <<r, n>> \notin called
  /\ row[r].safe => /\ at[r] \in {"leaving", "none"} /\ row[r].status = "failed"
                    /\ \A n \in Nodes : <<r, n>> \notin called

(* The stored status of a node whose executeNode is at s.                     *)
Shows(s, status) ==
  \/ s = "none" /\ status \in {"pending"} \cup Finished
  \/ s \in {"asked", "approved", "denied"} /\ status = "waiting_approval"
  \/ s \in {"begun", "calling"} /\ status = "running"
  \/ s = "closing" /\ status \in Finished

StageInv(r) ==
  at[r] # "none" =>
    /\ \A n \in Executing(r) : n \in GraphOf(r).nodes
    /\ \A n \in GraphOf(r).nodes : Shows(stage[r][n], row[r].node[n])

(* What asks goes on because it was approved.                                 *)
PermitInv(r) ==
  \A n \in Nodes :
    /\ stage[r][n] = "approved" => <<r, n>> \in approved
    /\ stage[r][n] = "begun" /\ Asks(r, n) => <<r, n>> \in approved

(* A node is where the graph sends it: it has started because an edge fired   *)
(* or it is a root, or was skipped because none will; in both cases its        *)
(* sources had ended.                                                          *)
Sent(g, node, n) ==
  Into(g, n) = {} \/ (SourcesFinished(g, n, node) /\ AnyTaken(g, n, node))

Passed(g, node, n) ==
  Into(g, n) # {} /\ SourcesFinished(g, n, node) /\ ~AnyTaken(g, n, node)

CourseInv(r) ==
  LET g == GraphOf(r)
      node == row[r].node
  IN at[r] \in Before \cup Loop /\ row[r].only = 0 =>
       \A n \in g.nodes :
         /\ node[n] \notin {"pending", "skipped", "canceled"} => Sent(g, node, n)
         /\ node[n] = "skipped" => Passed(g, node, n)
         /\ node[n] = "canceled" => r \in canceled
         /\ stage[r][n] # "none" => SourcesFinished(g, n, node)
         /\ at[r] \in Before => node[n] = "pending"
         /\ at[r] = "drain" /\ r \notin canceled => node[n] \in Finished

(* Settled, of one run: what its record says of the graph.                    *)
WellEnded(g, node, status) ==
  /\ \A n \in g.nodes :
       /\ node[n] \in {"succeeded", "refuted", "failed", "skipped"}
       /\ node[n] # "skipped" <=>
            (Into(g, n) = {} \/ \E e \in Into(g, n) : <<node[e.from], e.when>> \in Fires)
  /\ status = "succeeded" <=> \A n \in g.nodes : node[n] # "failed"
  /\ status = "failed" <=>
       \E n \in g.nodes : node[n] = "failed" /\ \A e \in g.edges : e.from = n => e.when = "success"

SettledInv(r) ==
  at[r] = "leaving" /\ row[r].only = 0 /\ ~row[r].safe /\ r \notin canceled
  => WellEnded(GraphOf(r), row[r].node, row[r].status)

RunInv(r) ==
  /\ BlankInv(r)
  /\ PlaceInv(r)
  /\ StageInv(r)
  /\ PermitInv(r)
  /\ CourseInv(r)
  /\ SettledInv(r)

(* While the manager goes away, what is active has been told to stop; when   *)
(* it is gone nothing is left.                                                *)
AwayInv ==
  /\ Up \/ \A r \in Runs : Active(r) => r \in canceled
  /\ Up \/ Disposing \/ \A r \in Runs : at[r] = "none"

IInv ==
  /\ TypeOK
  /\ FiledInv
  /\ SlotInv
  /\ \A r \in Runs : RunInv(r)
  /\ AwayInv
  /\ Armed
  /\ ShownIsLive

-----------------------------------------------------------------------------
(***************************************************************************)
(* Graphs.                                                                 *)
(***************************************************************************)

(* A set of finite sets that is not empty has a member none of whose strict  *)
(* subsets is in it.                                                          *)
LEMMA Smallest ==
  ASSUME NEW S, IsFiniteSet(S), NEW T, T \subseteq SUBSET S, T # {}
  PROVE  \E x \in T : \A y \in T : y \subseteq x => y = x
<1>1. IsWellFoundedOn(StrictSubsetOrdering(S), SUBSET S)
  BY FS_StrictSubsetOrderingWellFounded, FS_FiniteSubsetsOfFinite
<1>2. \E x \in T : \A y \in T : <<y, x>> \notin StrictSubsetOrdering(S)
  BY <1>1, WFMin
<1> QED
  BY <1>2 DEF StrictSubsetOrdering

(* What a node has an edge from, inside of a set of nodes.                    *)
Sourced(g, n, S) == \E e \in g.edges : e.to = n /\ e.from \in S

(* topologicalOrder: a set of nodes each of which has a source in the set is  *)
(* left over, so a graph that could be sorted has no such set.                *)
LEMMA Acyclic ==
  ASSUME NEW g, IsFiniteSet(g.nodes), Unsorted(g) = {},
         NEW P, P \subseteq g.nodes, \A n \in P : Sourced(g, n, P)
  PROVE  P = {}
<1> DEFINE Sourceless(S) == {n \in S : \A e \in g.edges : e.to = n => e.from \notin S}
           Sort(f) == [S \in SUBSET g.nodes |-> IF Sourceless(S) = {} THEN S ELSE f[S \ Sourceless(S)]]
           f0 == CHOOSE f : f = Sort(f)
           Kept(S) == UNION {C \in SUBSET S : \A n \in C : Sourced(g, n, C)}
           f1 == [S \in SUBSET g.nodes |-> Kept(S)]
<1>1. \A S \in SUBSET g.nodes : Sourceless(S) = {} => Kept(S) = S
  <2> SUFFICES ASSUME NEW S \in SUBSET g.nodes, Sourceless(S) = {}
               PROVE  Kept(S) = S
    OBVIOUS
  <2>1. \A n \in S : Sourced(g, n, S)
    BY DEF Sourced
  <2> QED
    BY <2>1
<1>2. \A S \in SUBSET g.nodes : Kept(S) = Kept(S \ Sourceless(S))
  <2> SUFFICES ASSUME NEW S \in SUBSET g.nodes, NEW C \in SUBSET S, \A n \in C : Sourced(g, n, C)
               PROVE  C \in SUBSET (S \ Sourceless(S))
    OBVIOUS
  <2> QED
    BY DEF Sourced
<1>3. f1 = Sort(f1)
  <2> SUFFICES ASSUME NEW S \in SUBSET g.nodes
               PROVE  Kept(S) = IF Sourceless(S) = {} THEN S ELSE f1[S \ Sourceless(S)]
    OBVIOUS
  <2>1. f1[S \ Sourceless(S)] = Kept(S \ Sourceless(S))
    OBVIOUS
  <2> HIDE DEF Kept, Sourceless, f1
  <2> QED
    BY <1>1, <1>2, <2>1
<1>4. f0 = Sort(f0)
  <2> HIDE DEF f1, Sort
  <2> QED
    BY <1>3
<1>5. f0[g.nodes] = {}
  BY DEF Unsorted
<1> HIDE DEF f0, f1, Kept
<1>6. \A S \in SUBSET g.nodes : P \subseteq S => P \subseteq f0[S]
  <2> DEFINE T == {S \in SUBSET g.nodes : P \subseteq S /\ ~(P \subseteq f0[S])}
  <2> SUFFICES ASSUME T # {} PROVE FALSE
    OBVIOUS
  <2>1. PICK S \in T : \A R \in T : R \subseteq S => R = S
    <3>1. T \subseteq SUBSET g.nodes
      OBVIOUS
    <3> HIDE DEF T
    <3> QED
      BY <3>1, Smallest
  <2>2. f0[S] = IF Sourceless(S) = {} THEN S ELSE f0[S \ Sourceless(S)]
    <3>1. Sort(f0)[S] = IF Sourceless(S) = {} THEN S ELSE f0[S \ Sourceless(S)]
      OBVIOUS
    <3> HIDE DEF Sort, Sourceless, T
    <3> QED
      BY <1>4, <3>1
  <2>3. Sourceless(S) # {}
    BY <2>2
  <2>4. P \subseteq S \ Sourceless(S)
    BY DEF Sourced
  <2>5. S \ Sourceless(S) \in SUBSET g.nodes /\ S \ Sourceless(S) \subseteq S /\ S \ Sourceless(S) # S
    BY <2>3
  <2>6. ~(P \subseteq f0[S \ Sourceless(S)])
    <3> HIDE DEF Sourceless
    <3> QED
      BY <2>2, <2>3
  <2> HIDE DEF Sourceless
  <2> QED
    BY <2>1, <2>4, <2>5, <2>6
<1> QED
  BY <1>5, <1>6

(* The first of a set of node numbers.                                        *)
LEMMA First ==
  ASSUME NEW S \in SUBSET Nodes, S # {}
  PROVE  \E n \in S : \A m \in S : n <= m
<1> DEFINE Below(n) == {m \in S : m <= n}
           T == {Below(n) : n \in S}
<1>1. S \subseteq Nat
  BY WorkflowAssumption
<1>2. PICK x \in T : \A y \in T : y \subseteq x => y = x
  <2>1. T \subseteq SUBSET Nodes /\ T # {}
    OBVIOUS
  <2>2. IsFiniteSet(Nodes)
    BY WorkflowAssumption
  <2> HIDE DEF T
  <2> QED
    BY <2>1, <2>2, Smallest
<1>3. PICK n \in S : x = Below(n)
  OBVIOUS
<1>4. ASSUME NEW m \in S, ~(n <= m) PROVE FALSE
  <2>1. m \in Nat /\ n \in Nat
    BY <1>1, <1>4
  <2>2. Below(m) \subseteq Below(n)
    <3> SUFFICES ASSUME NEW k \in S, k <= m PROVE k <= n
      OBVIOUS
    <3>1. k \in Nat
      BY <1>1
    <3> QED
      BY <1>4, <2>1, <3>1
  <2>3. Below(m) \in T /\ n \notin Below(m) /\ n \in Below(n)
    BY <1>4, <2>1
  <2> QED
    BY <1>2, <1>3, <2>2, <2>3
<1> QED
  BY <1>4

(* MAX_PARALLEL_NODES starves nothing: when nothing executes, something that  *)
(* may start does.                                                            *)
LEMMA LowestFirst ==
  ASSUME NEW S \in SUBSET Nodes, NEW k \in Nat \ {0}, Lowest(S, k) = {}
  PROVE  S = {}
<1> SUFFICES ASSUME S # {} PROVE FALSE
  OBVIOUS
<1>1. PICK n \in S : \A m \in S : n <= m
  BY First
<1>2. {m \in S : m < n} = {}
  <2> SUFFICES ASSUME NEW m \in S PROVE ~(m < n)
    OBVIOUS
  <2>1. m \in Nat /\ n \in Nat
    BY WorkflowAssumption
  <2> QED
    BY <1>1, <2>1
<1>3. Cardinality({m \in S : m < n}) < k
  BY <1>2, FS_EmptySet
<1> QED
  BY <1>3 DEF Lowest

-----------------------------------------------------------------------------
(***************************************************************************)
(* Types, and what is stored.                                              *)
(***************************************************************************)

(* The parts of TypeOK, by who writes them.                                   *)
WorkflowTypes ==
  /\ workflow \in Workflow
  /\ workflow.applied <= Current
  /\ workflow.enabled => workflow.applied # 0 /\ workflow.nextRun # 0

RowTypes == DOMAIN row = Runs /\ \A r \in Runs : IsRow(row[r])

PlaceTypes ==
  /\ at \in [Runs -> Place] /\ stage \in [Runs -> [Nodes -> Stage]]
  /\ \A r \in Runs : at[r] # "none" => row[r].status # "none"
  /\ canceled \subseteq Runs
  /\ approved \subseteq Runs \X Nodes /\ called \subseteq Runs \X Nodes

ClockTypes ==
  /\ phase \in {"up", "closing", "disabling", "down", "off"}
  /\ applying \in Nat /\ timer \in Nat /\ dues \in Nat
  /\ \A s \in starts : s.revision \in Nat /\ s.slot \in Nat
  /\ hour \in Nat /\ late \in BOOLEAN
  /\ left \in [Budget -> Nat]

(* TypeOK is these parts, before and after a step.                            *)
LEMMA TypeParts ==
  /\ TypeOK <=> WorkflowTypes /\ RowTypes /\ PlaceTypes /\ ClockTypes
  /\ TypeOK' <=> WorkflowTypes' /\ RowTypes' /\ PlaceTypes' /\ ClockTypes'
BY DEF TypeOK, WorkflowTypes, RowTypes, PlaceTypes, ClockTypes

(* A definition of the library.                                               *)
LEMMA GraphType ==
  ASSUME NEW d \in DOMAIN Library
  PROVE  /\ Library[d].nodes \subseteq Nodes /\ IsFiniteSet(Library[d].nodes)
         /\ \A e \in Library[d].edges : e.when \in When
<1>1. Library[d].nodes \subseteq Nodes /\ IsFiniteSet(Nodes)
  BY WorkflowAssumption
<1>2. \A e \in Library[d].edges : e.when \in When
  BY WorkflowAssumption
<1> QED
  BY <1>1, <1>2, FS_Subset

(* The graph of a run that was made.                                          *)
LEMMA RunGraph ==
  ASSUME TypeOK, FiledInv, NEW r \in Runs, row[r].status # "none"
  PROVE  /\ IsRow(row[r])
         /\ GraphOf(r).nodes \subseteq Nodes /\ IsFiniteSet(GraphOf(r).nodes)
         /\ \A e \in GraphOf(r).edges : /\ e.when \in When
                                        /\ e.from \in GraphOf(r).nodes /\ e.to \in GraphOf(r).nodes
         /\ Unsorted(GraphOf(r)) = {}
         /\ row[r].node \in [GraphOf(r).nodes -> NodeStatus]
<1>1. IsRow(row[r])
  BY TypeParts DEF RowTypes
<1>2. row[r].draft \in DOMAIN Library /\ row[r].node \in [Library[row[r].draft].nodes -> NodeStatus]
  BY <1>1 DEF IsRow
<1>3. ValidGraph(GraphOf(r))
  BY DEF FiledInv
<1> QED
  BY <1>1, <1>2, <1>3, GraphType DEF GraphOf, ValidGraph, EdgesKnown

(* A record that goes on or ends: what it was made for stays.                 *)
Edited(x, y) ==
  /\ IsRow(y) /\ y.status # "none"
  /\ y.trigger = x.trigger /\ y.draft = x.draft /\ y.revision = x.revision
  /\ y.slot = x.slot /\ y.only = x.only

(* What a step that takes the run r further leaves alone.                     *)
Others(r) == DOMAIN row' = Runs /\ \A q \in Runs \ {r} : row'[q] = row[q]

Marked ==
  /\ workflow' \in Workflow
  /\ workflow'.revisions = workflow.revisions /\ workflow'.reviewed = workflow.reviewed
  /\ workflow'.applied = workflow.applied /\ workflow'.enabled = workflow.enabled
  /\ workflow'.nextRun = workflow.nextRun

(* A write of one record leaves the others.                                   *)
LEMMA RowSet ==
  ASSUME RowTypes, NEW r \in Runs, NEW rec, SetRow(r, rec)
  PROVE  Others(r) /\ row'[r] = rec
BY DEF RowTypes, SetRow, Others

(* What runs write of the workflow: the run shown last, and if one runs.      *)
LEMMA WorkflowMarked ==
  ASSUME WorkflowTypes, NEW r \in Runs
  PROVE  /\ workflow' = [workflow EXCEPT !.lastRun = r] => Marked
         /\ workflow' = [workflow EXCEPT !.lastRun = r, !.running = FALSE] => Marked
         /\ workflow' = [workflow EXCEPT !.lastRun = r, !.running = TRUE] => Marked
         /\ workflow' = [workflow EXCEPT !.running = FALSE] => Marked
         /\ workflow' = workflow => Marked
BY DEF WorkflowTypes, Workflow, Marked

(* syncNodeRun, of a run and the status of its nodes.                         *)
LEMMA Synced ==
  ASSUME TypeOK, NEW r \in Runs, row[r].status # "none",
         NEW node \in [GraphOf(r).nodes -> NodeStatus], Sync(r, node)
  PROVE  /\ Others(r) /\ Marked /\ Edited(row[r], row'[r])
         /\ row'[r].node = node /\ row'[r].safe = row[r].safe
         /\ row'[r].status \in {"running", "waiting_approval"}
         /\ workflow' = workflow \/ workflow' = [workflow EXCEPT !.lastRun = r]
<1>1. RowTypes /\ WorkflowTypes /\ IsRow(row[r])
  BY TypeParts DEF RowTypes
<1>2. WaitsOrRuns(node) \in {"running", "waiting_approval"}
  BY DEF WaitsOrRuns
<1>3. row'[r] = [row[r] EXCEPT !.node = node, !.status = WaitsOrRuns(node)] /\ Others(r)
  BY <1>1, RowSet DEF Sync
<1>4. Edited(row[r], row'[r]) /\ row'[r].node = node /\ row'[r].safe = row[r].safe
      /\ row'[r].status = WaitsOrRuns(node)
  <2>1. WaitsOrRuns(node) \in RunStatus \ {"none"} /\ node \in [Library[row[r].draft].nodes -> NodeStatus]
    BY <1>2 DEF RunStatus, GraphOf
  <2> DEFINE x == row[r]  y == row'[r]  status == WaitsOrRuns(node)
  <2>2. IsRow(x) /\ x.status # "none" /\ node \in [Library[x.draft].nodes -> NodeStatus]
        /\ status \in RunStatus \ {"none"} /\ y = [x EXCEPT !.node = node, !.status = status]
    BY <1>1, <1>3, <2>1
  <2> HIDE DEF x, y, status
  <2>3. Edited(x, y) /\ y.node = node /\ y.status = status /\ y.safe = x.safe
    BY <2>2 DEF IsRow, NoRow, Edited
  <2> QED
    BY <2>3 DEF x, y, status
<1>5. workflow' = workflow \/ workflow' = [workflow EXCEPT !.lastRun = r]
  BY DEF Sync, ShowRun
<1> QED
  BY <1>1, <1>2, <1>3, <1>4, <1>5, WorkflowMarked

(* persistRunUnlocked of a run that ends.                                     *)
LEMMA RunIsEnded ==
  ASSUME TypeOK, NEW r \in Runs, NEW rec, Edited(row[r], rec), EndRun(r, rec)
  PROVE  /\ Others(r) /\ Marked /\ row'[r] = rec
         /\ workflow' = workflow \/ workflow' = [workflow EXCEPT !.lastRun = r, !.running = FALSE]
<1>1. RowTypes /\ WorkflowTypes
  BY TypeParts
<1> QED
  BY <1>1, RowSet, WorkflowMarked DEF EndRun

-----------------------------------------------------------------------------
(***************************************************************************)
(* Steps that take one run further.                                        *)
(***************************************************************************)

(* What such a step leaves alone, of the other runs, of the workflow and of   *)
(* the run.                                                                   *)
Apart(r) ==
  /\ at' \in [Runs -> Place] /\ stage' \in [Runs -> [Nodes -> Stage]] /\ canceled' \subseteq Runs
  /\ \A q \in Runs \ {r} : /\ at'[q] = at[q] /\ stage'[q] = stage[q]
                           /\ q \in canceled' <=> q \in canceled
  /\ approved \subseteq approved' /\ approved' \subseteq Runs \X Nodes
  /\ called \subseteq called' /\ called' \subseteq called \cup ({r} \X Nodes)

Shown(r) ==
  /\ workflow'.running => workflow.running
  /\ workflow'.lastRun \in {workflow.lastRun, r}
  /\ at[r] # "none"
  /\ at'[r] = "none" => ~Up \/ (~workflow'.running /\ row'[r].status \in RunEnded)
  /\ ~Up => at'[r] = "none" \/ at[r] = at'[r] \/ Active(r)
  /\ at'[r] # "none" /\ r \in canceled => r \in canceled'

Timed ==
  /\ UNCHANGED <<phase, applying, starts, clock>>
  /\ UNCHANGED <<timer, dues>> \/ Schedule(dues)
  /\ left' \in [Budget -> Nat]

Advances(r) ==
  /\ Others(r) /\ Edited(row[r], row'[r])
  /\ Marked
  /\ Apart(r)
  /\ Shown(r)
  /\ Timed

(* The invariant of the runs that a step does not touch.                      *)
LEMMA Untouched ==
  ASSUME NEW q \in Runs, RunInv(q),
         row'[q] = row[q], at'[q] = at[q], stage'[q] = stage[q], q \in canceled' <=> q \in canceled,
         approved \subseteq approved', \A n \in Nodes : <<q, n>> \in called' <=> <<q, n>> \in called
  PROVE  RunInv(q)'
<1>1. GraphOf(q)' = GraphOf(q) /\ Executing(q)' = Executing(q)
      /\ \A n \in Nodes : Asks(q, n)' <=> Asks(q, n)
  BY DEF GraphOf, Executing, Asks
<1>2. BlankInv(q)'
  BY DEF RunInv, BlankInv
<1>3. PlaceInv(q)'
  BY <1>1 DEF RunInv, PlaceInv
<1>4. StageInv(q)'
  BY <1>1 DEF RunInv, StageInv
<1>5. PermitInv(q)'
  BY <1>1 DEF RunInv, PermitInv
<1>6. CourseInv(q)'
  BY <1>1 DEF RunInv, CourseInv
<1>7. SettledInv(q)'
  BY <1>1 DEF RunInv, SettledInv
<1> QED
  BY <1>2, <1>3, <1>4, <1>5, <1>6, <1>7 DEF RunInv

(* An instant that is set, or served by a call.                               *)
LEMMA Rearmed ==
  ASSUME phase' = "up" => WorkflowTypes', NEW d \in Nat, Schedule(d), hour' = hour, hour \in Nat
  PROVE  Armed'
<1> SUFFICES ASSUME phase' = "up", workflow'.enabled, \A i \in 1..Current' : Of(i)'.scheduled
             PROVE  timer' = workflow'.nextRun \/ dues' > 0
  BY DEF Armed, Up
<1>1. workflow'.applied \in Nat /\ workflow'.applied # 0 /\ workflow'.nextRun \in Nat /\ workflow'.nextRun # 0
      /\ workflow'.applied <= Current'
  BY DEF WorkflowTypes, Workflow
<1>2. Current' \in Nat
  BY DEF WorkflowTypes, Workflow, Current
<1>3. workflow'.applied \in 1..Current'
  BY <1>1, <1>2
<1>4. Library[workflow'.revisions[workflow'.applied]].scheduled
  BY <1>3 DEF Of
<1>5. Follows(workflow')
  BY <1>1, <1>4 DEF Follows
<1> HIDE DEF Follows
<1> QED
  BY <1>1, <1>5 DEF Schedule

(* What a step that takes a run further has to keep of its own run only.      *)
LEMMA Advanced ==
  ASSUME IInv, NEW r \in Runs, Advances(r), RunInv(r)'
  PROVE  IInv'
<1>1. WorkflowTypes /\ RowTypes /\ PlaceTypes /\ ClockTypes
  BY TypeParts DEF IInv
<1>2. WorkflowTypes' /\ Current' = Current /\ (Exists' <=> Exists)
  BY <1>1 DEF Advances, Marked, WorkflowTypes, Current, Exists
<1>3. RowTypes' /\ \A q \in Runs : q # r => row'[q] = row[q]
  BY <1>1 DEF RowTypes, Advances, Others, Edited
<1>4. PlaceTypes'
  <2>1. \A q \in Runs : at'[q] # "none" => row'[q].status # "none"
    BY <1>1, <1>3 DEF PlaceTypes, Advances, Edited, Apart
  <2>2. called' \subseteq Runs \X Nodes
    BY <1>1 DEF PlaceTypes, Advances, Apart
  <2> QED
    BY <2>1, <2>2 DEF PlaceTypes, Advances, Apart
<1>5. ClockTypes'
  <2>1. timer' \in Nat /\ dues' \in Nat
    <3>1. CASE UNCHANGED <<timer, dues>>
      BY <1>1, <3>1 DEF ClockTypes
    <3>2. CASE Schedule(dues)
      <4>1. workflow'.nextRun \in Nat
        BY <1>2 DEF WorkflowTypes, Workflow
      <4> HIDE DEF Follows
      <4> QED
        BY <1>1, <3>2, <4>1 DEF ClockTypes, Schedule
    <3> QED
      BY <3>1, <3>2 DEF Advances, Timed
  <2> QED
    BY <1>1, <2>1 DEF ClockTypes, Advances, Timed, clock
<1>6. TypeOK'
  BY <1>2, <1>3, <1>4, <1>5, TypeParts
<1>7. FiledInv'
  <2>1. \A i \in 1..Current' : ValidGraph(Of(i))'
    BY <1>2 DEF IInv, FiledInv, Of, Advances, Marked
  <2>2. \A q \in Runs : row'[q].status # "none" => ValidGraph(GraphOf(q))'
    <3> SUFFICES ASSUME NEW q \in Runs, row'[q].status # "none" PROVE ValidGraph(GraphOf(q))'
      OBVIOUS
    <3>1. row'[q].draft = row[q].draft /\ row[q].status # "none"
      BY <1>1, <1>3 DEF Advances, Edited, Shown, PlaceTypes
    <3>2. GraphOf(q)' = GraphOf(q) /\ ValidGraph(GraphOf(q))
      BY <3>1 DEF GraphOf, IInv, FiledInv
    <3> QED
      BY <3>2
  <2>3. \A q \in Runs : row'[q].status # "none" => row'[q].revision = row[q].revision /\ row[q].status # "none"
    BY <1>1, <1>3 DEF Advances, Edited, Shown, PlaceTypes
  <2>4. workflow'.lastRun # 0 => row'[workflow'.lastRun].status # "none"
    BY <1>1, <1>3 DEF IInv, FiledInv, Advances, Edited, Shown, WorkflowTypes, Workflow
  <2> QED
    BY <1>2, <2>1, <2>2, <2>3, <2>4 DEF IInv, FiledInv, Advances, Timed
<1>8. SlotInv'
  <2>1. \A q \in Runs : row'[q].slot = row[q].slot
    BY <1>3 DEF Advances, Edited
  <2>2. \A i : Given(i)' <=> Given(i)
    BY DEF Given, Advances, Marked, Timed, clock
  <2>3. starts' = starts
    BY DEF Advances, Timed
  <2> QED
    BY <2>1, <2>2, <2>3 DEF IInv, SlotInv
<1>9. \A q \in Runs : RunInv(q)'
  <2> SUFFICES ASSUME NEW q \in Runs, q # r PROVE RunInv(q)'
    OBVIOUS
  <2>1. \A n \in Nodes : <<q, n>> \in called' <=> <<q, n>> \in called
    BY DEF Advances, Apart
  <2> QED
    BY <1>3, <2>1, Untouched DEF IInv, Advances, Apart
<1>10. AwayInv'
  <2>1. phase' = phase
    BY DEF Advances, Timed
  <2>2. ~Up /\ Active(r)' => r \in canceled'
    BY DEF IInv, AwayInv, Advances, Shown, Active
  <2>3. \A q \in Runs : q # r /\ ~Up /\ Active(q)' => q \in canceled'
    BY DEF IInv, AwayInv, Advances, Apart, Active
  <2>4. \A q \in Runs : at'[q] # "none" => at[q] # "none"
    BY DEF Advances, Apart, Shown
  <2> QED
    BY <2>1, <2>2, <2>3, <2>4 DEF IInv, AwayInv, Up, Disposing
<1>11. Armed'
  <2>1. CASE UNCHANGED <<timer, dues>>
    BY <1>2, <2>1 DEF IInv, Armed, Up, Of, Advances, Timed, Marked
  <2>2. CASE Schedule(dues)
    <3>1. hour' = hour /\ hour \in Nat /\ dues \in Nat
      BY <1>1 DEF ClockTypes, Advances, Timed, clock
    <3> QED
      BY <1>2, <2>2, <3>1, Rearmed
  <2> QED
    BY <2>1, <2>2 DEF Advances, Timed
<1>12. ShownIsLive'
  <2> SUFFICES ASSUME Up
               PROVE  /\ workflow'.running => \E q \in Runs : at'[q] # "none"
                      /\ workflow'.lastRun # 0 /\ row'[workflow'.lastRun].status \notin RunEnded
                         => at'[workflow'.lastRun] # "none"
    BY DEF ShownIsLive, Advances, Timed, Up
  <2>1. ASSUME workflow'.running PROVE \E q \in Runs : at'[q] # "none"
    BY <2>1 DEF Advances, Shown
  <2>2. ASSUME workflow'.lastRun # 0, row'[workflow'.lastRun].status \notin RunEnded
        PROVE  at'[workflow'.lastRun] # "none"
    <3>1. CASE workflow'.lastRun = r
      BY <2>2, <3>1 DEF Advances, Shown
    <3>2. CASE workflow'.lastRun # r
      <4>1. workflow'.lastRun = workflow.lastRun /\ workflow.lastRun \in Runs
        BY <1>1, <2>2, <3>2 DEF Advances, Shown, WorkflowTypes, Workflow
      <4> QED
        BY <1>3, <2>2, <3>2, <4>1 DEF IInv, ShownIsLive, Advances, Apart
    <3> QED
      BY <3>1, <3>2
  <2> QED
    BY <2>1, <2>2
<1> QED
  BY <1>6, <1>7, <1>8, <1>9, <1>10, <1>11, <1>12 DEF IInv

(* What is known of a run that goes on.                                       *)
LEMMA Live ==
  ASSUME IInv, NEW r \in Runs, at[r] # "none"
  PROVE  /\ row[r].status # "none" /\ IsRow(row[r]) /\ Edited(row[r], row[r])
         /\ GraphOf(r).nodes \subseteq Nodes
         /\ \A e \in GraphOf(r).edges : /\ e.when \in When
                                        /\ e.from \in GraphOf(r).nodes /\ e.to \in GraphOf(r).nodes
         /\ row[r].node \in [GraphOf(r).nodes -> NodeStatus] /\ DOMAIN row[r].node = GraphOf(r).nodes
         /\ TypeOK /\ WorkflowTypes /\ RowTypes /\ PlaceTypes /\ ClockTypes
         /\ BlankInv(r) /\ PlaceInv(r) /\ StageInv(r) /\ PermitInv(r) /\ CourseInv(r) /\ SettledInv(r)
<1>1. WorkflowTypes /\ RowTypes /\ PlaceTypes /\ ClockTypes /\ TypeOK /\ FiledInv
  BY TypeParts DEF IInv
<1>2. row[r].status # "none"
  BY <1>1 DEF PlaceTypes
<1>3. IsRow(row[r]) /\ Edited(row[r], row[r])
  BY <1>1, <1>2 DEF RowTypes, Edited
<1>4. RunInv(r)
  BY DEF IInv
<1> QED
  BY <1>1, <1>2, <1>3, <1>4, RunGraph DEF RunInv

(* The graph of the run stays, and what of it asks.                           *)
LEMMA SameGraph ==
  ASSUME NEW r \in Runs, Edited(row[r], row'[r])
  PROVE  /\ GraphOf(r)' = GraphOf(r) /\ row'[r].only = row[r].only /\ row'[r].trigger = row[r].trigger
         /\ row'[r].status # "none"
         /\ \A n \in Nodes : Asks(r, n)' <=> Asks(r, n)
BY DEF Edited, GraphOf, Asks

(* launchRunTask, cancelPreparedRun                                           *)
LEMMA LaunchStep ==
  ASSUME IInv, NEW r \in Runs, Launch(r)
  PROVE  IInv'
<1>1. at[r] = "prepared" /\ at[r] # "none"
  BY DEF Launch
<1>2. \A n \in Nodes : stage[r][n] = "none"
  BY <1>1, Live DEF PlaceInv, Work, Loop
<1>3. ~row[r].safe
  BY <1>1, Live DEF PlaceInv
<1>4. at' = [at EXCEPT ![r] = at'[r]] /\ UNCHANGED <<stage, canceled, approved, called>> /\ Timed
  BY <1>1, Live DEF Launch, Timed, PlaceTypes, ClockTypes, schedule
<1>5. CASE Up
  <2>1. at'[r] = "preflight"
    BY <1>1, <1>5, Live DEF Launch, PlaceTypes
  <2>2. /\ Others(r) /\ Marked /\ Edited(row[r], row'[r])
        /\ row'[r].node = row[r].node /\ row'[r].safe = row[r].safe
        /\ workflow' = workflow \/ workflow' = [workflow EXCEPT !.lastRun = r]
    <3>1. CASE row[r].only = 0
      <4>1. UNCHANGED <<row, workflow>>
        BY <1>5, <3>1 DEF Launch
      <4> QED
        BY <1>1, <4>1, Live, WorkflowMarked DEF Others, RowTypes
    <3>2. CASE row[r].only # 0
      BY <1>1, <1>5, <3>2, Live, Synced DEF Launch
    <3> QED
      BY <3>1, <3>2
  <2>3. Apart(r)
    BY <1>1, <1>4, <2>1, Live DEF Apart, PlaceTypes, Place
  <2>4. Shown(r)
    BY <1>1, <1>4, <1>5, <2>1, <2>2, Live DEF Shown, WorkflowTypes, Workflow
  <2>5. RunInv(r)'
    <3>1. BlankInv(r)' /\ PlaceInv(r)'
      BY <1>1, <1>2, <1>3, <1>4, <2>1, <2>2, Live, SameGraph DEF BlankInv, PlaceInv, Before, Work, Loop
    <3>2. StageInv(r)' /\ PermitInv(r)'
      BY <1>1, <1>2, <1>4, <2>2, Live, SameGraph DEF StageInv, PermitInv, Executing
    <3>3. CourseInv(r)' /\ SettledInv(r)'
      BY <1>1, <1>2, <1>4, <2>1, <2>2, Live, SameGraph DEF CourseInv, SettledInv, Before, Loop
    <3> QED
      BY <3>1, <3>2, <3>3 DEF RunInv
  <2> QED
    BY <1>4, <2>2, <2>3, <2>4, <2>5, Advanced DEF Advances
<1>6. CASE ~Up
  <2> DEFINE node == [n \in DOMAIN row[r].node |-> IF row[r].node[n] = "skipped" THEN "skipped" ELSE "canceled"]
             rec == [row[r] EXCEPT !.status = "canceled", !.node = node]
  <2>1. at'[r] = "none" /\ EndRun(r, rec)
    BY <1>1, <1>6, Live DEF Launch, PlaceTypes
  <2>2. Edited(row[r], rec) /\ rec.status = "canceled" /\ rec.safe = row[r].safe
    <3>1. node \in [GraphOf(r).nodes -> NodeStatus]
      BY <1>1, Live DEF NodeStatus, Finished
    <3>2. IsRow(row[r]) /\ row[r].status # "none"
      BY <1>1, Live
    <3> HIDE DEF node
    <3> QED
      BY <3>1, <3>2 DEF IsRow, NoRow, Edited, RunStatus, RunEnded, GraphOf
  <2> HIDE DEF node, rec
  <2>3. /\ Others(r) /\ Marked /\ row'[r] = rec
        /\ workflow' = workflow \/ workflow' = [workflow EXCEPT !.lastRun = r, !.running = FALSE]
    BY <1>1, <2>1, <2>2, Live, RunIsEnded
  <2>4. Apart(r)
    BY <1>1, <1>4, <2>1, Live DEF Apart, PlaceTypes, Place
  <2>5. Shown(r)
    BY <1>1, <1>4, <1>6, <2>1, <2>3, Live DEF Shown, WorkflowTypes, Workflow
  <2>6. RunInv(r)'
    <3>1. BlankInv(r)' /\ PlaceInv(r)'
      BY <1>1, <1>2, <1>3, <1>4, <2>1, <2>2, <2>3, Live, SameGraph DEF BlankInv, PlaceInv, Before, Work, Loop
    <3>2. StageInv(r)' /\ PermitInv(r)'
      BY <1>1, <1>2, <1>4, <2>1, <2>2, <2>3, Live, SameGraph DEF StageInv, PermitInv, Executing
    <3>3. CourseInv(r)' /\ SettledInv(r)'
      BY <2>1 DEF CourseInv, SettledInv, Before, Loop
    <3> QED
      BY <3>1, <3>2, <3>3 DEF RunInv
  <2> QED
    BY <1>4, <2>2, <2>3, <2>4, <2>5, <2>6, Advanced DEF Advances
<1> QED
  BY <1>5, <1>6

(* What has ended does not change: a node that has started or was skipped     *)
(* stays where the graph sent it.                                             *)
LEMMA FinishedStays ==
  ASSUME NEW g, \A e \in g.edges : e.from \in g.nodes, NEW old, NEW node,
         \A m \in g.nodes : old[m] \in Finished => node[m] = old[m],
         NEW n
  PROVE  /\ SourcesFinished(g, n, old) => SourcesFinished(g, n, node)
         /\ SourcesFinished(g, n, old) => (AnyTaken(g, n, node) <=> AnyTaken(g, n, old))
         /\ Sent(g, old, n) => Sent(g, node, n)
         /\ Passed(g, old, n) => Passed(g, node, n)
<1>1. \A e \in Into(g, n) : e.from \in g.nodes
  BY DEF Into
<1>2. SourcesFinished(g, n, old) => \A e \in Into(g, n) : node[e.from] = old[e.from]
  BY <1>1 DEF SourcesFinished
<1>3. SourcesFinished(g, n, old) => SourcesFinished(g, n, node)
  BY <1>2 DEF SourcesFinished
<1>4. SourcesFinished(g, n, old) => (AnyTaken(g, n, node) <=> AnyTaken(g, n, old))
  BY <1>2 DEF AnyTaken, EdgeTaken
<1> QED
  BY <1>3, <1>4 DEF Sent, Passed

(* A step that moves nodes on as the graph says keeps the course.             *)
LEMMA CourseOn ==
  ASSUME IInv, NEW r \in Runs, at[r] \in Before \cup Loop, at'[r] \in Loop,
         Edited(row[r], row'[r]), r \in canceled => r \in canceled',
         \A m \in GraphOf(r).nodes :
           LET old == row[r].node[m]
               new == row'[r].node[m]
           IN /\ old \in Finished => new = old
              /\ new \in {"pending", "skipped", "canceled"} \/ old \notin {"pending", "skipped", "canceled"}
                 \/ Sent(GraphOf(r), row[r].node, m)
              /\ new = "skipped" => old = "skipped" \/ Passed(GraphOf(r), row[r].node, m)
              /\ new = "canceled" => r \in canceled'
              /\ stage'[r][m] # "none" =>
                   stage[r][m] # "none" \/ SourcesFinished(GraphOf(r), m, row[r].node)
              /\ at'[r] = "drain" /\ r \notin canceled' => new \in Finished
  PROVE  CourseInv(r)'
<1> DEFINE g == GraphOf(r)
           old == row[r].node
           new == row'[r].node
<1>1. at[r] # "none"
  BY DEF Before, Loop
<1>2. \A m : /\ SourcesFinished(g, m, old) => SourcesFinished(g, m, new)
             /\ Sent(g, old, m) => Sent(g, new, m)
             /\ Passed(g, old, m) => Passed(g, new, m)
  <2>1. \A e \in g.edges : e.from \in g.nodes
    BY <1>1, Live
  <2>2. \A m \in g.nodes : old[m] \in Finished => new[m] = old[m]
    OBVIOUS
  <2> HIDE DEF g, old, new
  <2> QED
    BY <2>1, <2>2, FinishedStays
<1>3. row'[r].only = 0 => /\ row[r].only = 0
                          /\ \A m \in g.nodes :
                               /\ old[m] \notin {"pending", "skipped", "canceled"} => Sent(g, old, m)
                               /\ old[m] = "skipped" => Passed(g, old, m)
                               /\ stage[r][m] # "none" => SourcesFinished(g, m, old)
  BY <1>1, Live DEF CourseInv, Edited
<1>4. GraphOf(r)' = g /\ at'[r] \notin Before
  BY SameGraph DEF Before, Loop
<1> SUFFICES ASSUME row'[r].only = 0, NEW m \in g.nodes
             PROVE  /\ new[m] \notin {"pending", "skipped", "canceled"} => Sent(g, new, m)
                    /\ new[m] = "skipped" => Passed(g, new, m)
                    /\ new[m] = "canceled" => r \in canceled'
                    /\ stage'[r][m] # "none" => SourcesFinished(g, m, new)
                    /\ at'[r] = "drain" /\ r \notin canceled' => new[m] \in Finished
  BY <1>4 DEF CourseInv
<1>5. new[m] \notin {"pending", "skipped", "canceled"} => Sent(g, new, m)
  BY <1>2, <1>3
<1>6. new[m] = "skipped" => Passed(g, new, m)
  BY <1>2, <1>3
<1>7. stage'[r][m] # "none" => SourcesFinished(g, m, new)
  BY <1>2, <1>3
<1> QED
  BY <1>5, <1>6, <1>7

(* A run that is active goes on, or shows its end.                            *)
LEMMA GoesOnShown ==
  ASSUME IInv, NEW r \in Runs, Active(r), at'[r] # "none", r \in canceled => r \in canceled',
         \/ workflow' = workflow
         \/ workflow' = [workflow EXCEPT !.lastRun = r]
         \/ workflow' = [workflow EXCEPT !.lastRun = r, !.running = FALSE]
  PROVE  Shown(r)
<1>1. at[r] # "none"
  BY DEF Active
<1> QED
  BY <1>1, Live DEF Shown, WorkflowTypes, Workflow

(* The steps of the loop that wait for nothing.                               *)
LEMMA StopStep ==
  ASSUME IInv, NEW r \in Runs, Stop(r)
  PROVE  IInv'
<1>1. at[r] = "turn" /\ at[r] # "none" /\ Active(r) /\ r \in canceled
  BY DEF Stop, Active
<1>2. /\ at' = [at EXCEPT ![r] = "drain"] /\ at'[r] = "drain"
      /\ UNCHANGED <<workflow, row, stage, canceled, approved, called>> /\ Timed
  BY <1>1, Live DEF Stop, Timed, PlaceTypes, ClockTypes, schedule
<1>3. Others(r) /\ Edited(row[r], row'[r]) /\ Marked
  BY <1>1, <1>2, Live, WorkflowMarked DEF Others, RowTypes
<1>4. Apart(r)
  BY <1>1, <1>2, Live DEF Apart, PlaceTypes, Place
<1>5. Shown(r)
  BY <1>1, <1>2, GoesOnShown
<1>6. RunInv(r)'
  <2>1. BlankInv(r)' /\ PlaceInv(r)'
    BY <1>1, <1>2, Live, SameGraph, <1>3 DEF BlankInv, PlaceInv, Before, Work, Loop
  <2>2. StageInv(r)' /\ PermitInv(r)'
    BY <1>1, <1>2, <1>3, Live, SameGraph DEF StageInv, PermitInv, Executing
  <2>3. CourseInv(r)' /\ SettledInv(r)'
    BY <1>1, <1>2, <1>3, Live, SameGraph DEF CourseInv, SettledInv, Before, Loop
  <2> QED
    BY <2>1, <2>2, <2>3 DEF RunInv
<1> QED
  BY <1>2, <1>3, <1>4, <1>5, <1>6, Advanced DEF Advances

(* Nothing was called: the run may be retried.                                *)
LEMMA PreflightFailsStep ==
  ASSUME IInv, NEW r \in Runs, PreflightFails(r)
  PROVE  IInv'
<1> DEFINE rec == [row[r] EXCEPT !.status = "failed", !.safe = TRUE]
<1>1. at[r] = "preflight" /\ at[r] # "none" /\ Active(r) /\ EndRun(r, rec)
  BY DEF PreflightFails, Active
<1>2. /\ at' = [at EXCEPT ![r] = "leaving"] /\ at'[r] = "leaving"
      /\ UNCHANGED <<stage, canceled, approved, called>> /\ Timed
  BY <1>1, Live DEF PreflightFails, Timed, PlaceTypes, ClockTypes, schedule
<1>3. Edited(row[r], rec) /\ rec.status = "failed" /\ rec.safe /\ rec.node = row[r].node
  BY <1>1, Live DEF IsRow, NoRow, Edited, RunStatus, RunEnded
<1> HIDE DEF rec
<1>4. /\ Others(r) /\ Marked /\ row'[r] = rec
      /\ workflow' = workflow \/ workflow' = [workflow EXCEPT !.lastRun = r, !.running = FALSE]
  BY <1>1, <1>3, Live, RunIsEnded
<1>5. Apart(r)
  BY <1>1, <1>2, Live DEF Apart, PlaceTypes, Place
<1>6. Shown(r)
  BY <1>1, <1>2, <1>4, GoesOnShown
<1>7. RunInv(r)'
  <2>1. BlankInv(r)' /\ PlaceInv(r)'
    BY <1>1, <1>2, <1>3, <1>4, Live, SameGraph DEF BlankInv, PlaceInv, Before, Work, Loop, RunEnded
  <2>2. StageInv(r)' /\ PermitInv(r)'
    BY <1>1, <1>2, <1>3, <1>4, Live, SameGraph DEF StageInv, PermitInv, Executing
  <2>3. CourseInv(r)' /\ SettledInv(r)'
    BY <1>2, <1>3, <1>4 DEF CourseInv, SettledInv, Before, Loop
  <2> QED
    BY <2>1, <2>2, <2>3 DEF RunInv
<1> QED
  BY <1>2, <1>3, <1>4, <1>5, <1>6, <1>7, Advanced DEF Advances

(* The end of executeRun.                                                     *)
LEMMA LeaveStep ==
  ASSUME IInv, NEW r \in Runs, Leave(r)
  PROVE  IInv'
<1>1. at[r] = "leaving" /\ at[r] # "none" /\ Active(r)
  BY DEF Leave, Active
<1>2. /\ at' = [at EXCEPT ![r] = "none"] /\ at'[r] = "none" /\ canceled' = canceled \ {r}
      /\ UNCHANGED <<row, stage, approved, called>> /\ workflow' = [workflow EXCEPT !.running = FALSE]
  BY <1>1, Live DEF Leave, PlaceTypes
<1>3. Timed
  <2>1. UNCHANGED <<timer, dues>> \/ Schedule(dues)
    BY DEF Leave
  <2> HIDE DEF Schedule
  <2> QED
    BY <1>1, <2>1, Live DEF Leave, Timed, ClockTypes
<1>4. Others(r) /\ Edited(row[r], row'[r]) /\ Marked
  BY <1>1, <1>2, Live, WorkflowMarked DEF Others, RowTypes
<1>5. Apart(r)
  BY <1>1, <1>2, Live DEF Apart, PlaceTypes, Place
<1>6. Shown(r)
  BY <1>1, <1>2, Live DEF Shown, WorkflowTypes, Workflow, PlaceInv
<1>7. RunInv(r)'
  <2>1. BlankInv(r)' /\ PlaceInv(r)'
    BY <1>1, <1>2, <1>4, Live, SameGraph DEF BlankInv, PlaceInv, Before, Work, Loop
  <2>2. StageInv(r)' /\ PermitInv(r)'
    BY <1>1, <1>2, <1>4, Live, SameGraph DEF StageInv, PermitInv, Executing
  <2>3. CourseInv(r)' /\ SettledInv(r)'
    BY <1>2 DEF CourseInv, SettledInv, Before, Loop
  <2> QED
    BY <2>1, <2>2, <2>3 DEF RunInv
<1> QED
  BY <1>2, <1>3, <1>4, <1>5, <1>6, <1>7, Advanced DEF Advances

(* What is skipped is where the graph sends it, and what had ended stays.     *)
LEMMA SkipNodeStep ==
  ASSUME IInv, NEW r \in Runs, NEW n \in Nodes, SkipNode(r, n)
  PROVE  IInv'
<1> DEFINE g == GraphOf(r)
           old == row[r].node
           node == [row[r].node EXCEPT ![n] = "skipped"]
<1>1. at[r] \in {"turn", "cascade"} /\ at[r] # "none" /\ Active(r)
  BY DEF SkipNode, Active, Scanning
<1>2. n \in g.nodes /\ old[n] = "pending" /\ Passed(g, old, n)
  BY DEF SkipNode, Skippable, Passed
<1>3. /\ at' = [at EXCEPT ![r] = "cascade"] /\ at'[r] = "cascade"
      /\ UNCHANGED <<stage, canceled, approved, called>> /\ Timed
  BY <1>1, Live DEF SkipNode, Timed, PlaceTypes, ClockTypes, schedule
<1>4. node \in [g.nodes -> NodeStatus]
  BY <1>1, Live DEF NodeStatus, Finished
<1>5. /\ Others(r) /\ Marked /\ Edited(row[r], row'[r])
      /\ row'[r].node = node /\ row'[r].safe = row[r].safe
      /\ workflow' = workflow \/ workflow' = [workflow EXCEPT !.lastRun = r]
  <2>1. Sync(r, node)
    BY DEF SkipNode
  <2> HIDE DEF node
  <2> QED
    BY <1>1, <1>4, <2>1, Live, Synced
<1>6. Apart(r)
  BY <1>1, <1>3, Live DEF Apart, PlaceTypes, Place
<1>7. Shown(r)
  BY <1>1, <1>3, <1>5, GoesOnShown
<1>8. \A m \in g.nodes : /\ m # n => node[m] = old[m]
                         /\ node[n] = "skipped"
  BY <1>1, <1>2, Live
<1>9. RunInv(r)'
  <2> HIDE DEF node
  <2>1. BlankInv(r)' /\ PlaceInv(r)'
    BY <1>1, <1>3, <1>5, Live, SameGraph DEF BlankInv, PlaceInv, Before, Work, Loop
  <2>2. StageInv(r)' /\ PermitInv(r)'
    BY <1>1, <1>2, <1>3, <1>5, <1>8, Live, SameGraph DEF StageInv, PermitInv, Executing, Shows, Finished
  <2>3. SettledInv(r)'
    BY <1>3 DEF SettledInv
  <2>4. CourseInv(r)'
    <3>1. \A m \in g.nodes :
            /\ old[m] \in Finished => node[m] = old[m]
            /\ node[m] \in {"pending", "skipped", "canceled"} \/ old[m] \notin {"pending", "skipped", "canceled"}
            /\ node[m] = "skipped" => old[m] = "skipped" \/ Passed(g, old, m)
            /\ node[m] = "canceled" => r \in canceled
      BY <1>1, <1>2, <1>8, Live DEF CourseInv, PlaceInv, Finished, Before, Loop
    <3>2. at[r] \in Before \cup Loop /\ at'[r] \in Loop /\ at'[r] # "drain"
      BY <1>1, <1>3 DEF Loop
    <3> QED
      BY <1>3, <1>5, <3>1, <3>2, CourseOn
  <2> QED
    BY <2>1, <2>2, <2>3, <2>4 DEF RunInv
<1> QED
  BY <1>3, <1>5, <1>6, <1>7, <1>9, Advanced DEF Advances

(* The loop gives up when nothing executes, may start or has to be skipped:   *)
(* then every node has ended, because the graph has no cycle.                 *)
LEMMA Exhausted ==
  ASSUME IInv, NEW r \in Runs, at[r] # "none", Executing(r) = {},
         Ready(GraphOf(r), row[r].node) = {}, Skippable(GraphOf(r), row[r].node) = {}
  PROVE  \A n \in GraphOf(r).nodes : row[r].node[n] \in Finished
<1> DEFINE g == GraphOf(r)
           node == row[r].node
           P == {n \in g.nodes : node[n] = "pending"}
<1>1. \A n \in g.nodes : node[n] \in {"pending"} \cup Finished
  <2> SUFFICES ASSUME NEW n \in g.nodes PROVE node[n] \in {"pending"} \cup Finished
    OBVIOUS
  <2>1. stage[r][n] = "none"
    BY Live DEF Executing
  <2> QED
    BY <2>1, Live DEF StageInv, Shows
<1>2. \A n \in P : Sourced(g, n, P)
  <2> SUFFICES ASSUME NEW n \in g.nodes, node[n] = "pending" PROVE Sourced(g, n, P)
    OBVIOUS
  <2>1. Into(g, n) # {} /\ ~SourcesFinished(g, n, node)
    BY DEF Ready, Skippable
  <2>2. PICK e \in Into(g, n) : node[e.from] \notin Finished
    BY <2>1 DEF SourcesFinished
  <2>3. e \in g.edges /\ e.to = n /\ e.from \in g.nodes
    BY <2>2, Live DEF Into
  <2> QED
    BY <1>1, <2>2, <2>3 DEF Sourced
<1>3. IsFiniteSet(g.nodes) /\ Unsorted(g) = {}
  BY Live, RunGraph DEF IInv
<1>4. P = {}
  <2>1. P \subseteq g.nodes
    OBVIOUS
  <2> HIDE DEF P, g
  <2> QED
    BY <1>2, <1>3, <2>1, Acyclic
<1> QED
  BY <1>1, <1>4

(* executeNode of several nodes, up to their first await.                     *)
LEMMA Began ==
  ASSUME IInv, NEW r \in Runs, at[r] # "none",
         NEW S \in SUBSET GraphOf(r).nodes, BeginNodes(r, S)
  PROVE  /\ Others(r) /\ Marked /\ Edited(row[r], row'[r]) /\ row'[r].safe = row[r].safe
         /\ workflow' = workflow \/ workflow' = [workflow EXCEPT !.lastRun = r]
         /\ stage' \in [Runs -> [Nodes -> Stage]] /\ \A q \in Runs \ {r} : stage'[q] = stage[q]
         /\ \A n \in Nodes \ S : stage'[r][n] = stage[r][n]
         /\ \A n \in GraphOf(r).nodes \ S : row'[r].node[n] = row[r].node[n]
         /\ \A n \in S : IF Asks(r, n)
                         THEN stage'[r][n] \in {"asked", "denied"} /\ row'[r].node[n] = "waiting_approval"
                         ELSE stage'[r][n] = "begun" /\ row'[r].node[n] = "running"
<1> DEFINE node == [n \in DOMAIN row[r].node |-> IF n \notin S THEN row[r].node[n]
                                                 ELSE IF Asks(r, n) THEN "waiting_approval" ELSE "running"]
<1>1. GraphOf(r).nodes \subseteq Nodes /\ row[r].node \in [GraphOf(r).nodes -> NodeStatus]
  BY Live
<1>2. node \in [GraphOf(r).nodes -> NodeStatus]
  BY <1>1 DEF NodeStatus
<1>3. /\ Others(r) /\ Marked /\ Edited(row[r], row'[r])
      /\ row'[r].node = node /\ row'[r].safe = row[r].safe
      /\ workflow' = workflow \/ workflow' = [workflow EXCEPT !.lastRun = r]
  <2>1. Sync(r, node)
    BY DEF BeginNodes
  <2> HIDE DEF node
  <2> QED
    BY <1>2, <2>1, Live, Synced
<1>4. stage \in [Runs -> [Nodes -> Stage]]
  BY Live DEF PlaceTypes
<1>5. /\ stage' \in [Runs -> [Nodes -> Stage]] /\ \A q \in Runs \ {r} : stage'[q] = stage[q]
      /\ \A n \in Nodes \ S : stage'[r][n] = stage[r][n]
      /\ \A n \in S : IF Asks(r, n) THEN stage'[r][n] \in {"asked", "denied"} ELSE stage'[r][n] = "begun"
  <2> DEFINE new == [n \in Nodes |-> IF n \notin S THEN stage[r][n]
                                     ELSE IF ~Asks(r, n) THEN "begun"
                                     ELSE IF r \in canceled THEN "denied" ELSE "asked"]
  <2>1. stage' = [stage EXCEPT ![r] = new]
    BY DEF BeginNodes
  <2>2. new \in [Nodes -> Stage]
    BY <1>4 DEF Stage
  <2>3. stage'[r] = new
    BY <1>4, <2>1
  <2>4. /\ \A n \in Nodes \ S : new[n] = stage[r][n]
        /\ \A n \in S : IF Asks(r, n) THEN new[n] \in {"asked", "denied"} ELSE new[n] = "begun"
    BY <1>1
  <2> HIDE DEF new
  <2> QED
    BY <1>1, <1>4, <2>1, <2>2, <2>3, <2>4
<1> QED
  BY <1>1, <1>3, <1>5

(* The apps are as they should be: the loop begins, or the node of a step.    *)
LEMMA PreflightPassesStep ==
  ASSUME IInv, NEW r \in Runs, PreflightPasses(r)
  PROVE  IInv'
<1>1. at[r] = "preflight" /\ at[r] # "none" /\ Active(r)
  BY DEF PreflightPasses, Active
<1>2. UNCHANGED <<canceled, approved, called>> /\ Timed
  BY <1>1, Live DEF PreflightPasses, Timed, ClockTypes, schedule
<1>3. ~row[r].safe /\ \A n \in Nodes : stage[r][n] = "none" /\ <<r, n>> \notin called
  BY <1>1, Live DEF PlaceInv, Before, Work, Loop
<1>4. CASE row[r].only = 0
  <2>1. at' = [at EXCEPT ![r] = "turn"] /\ at'[r] = "turn" /\ UNCHANGED stage /\ Sync(r, row[r].node)
    BY <1>1, <1>4, Live DEF PreflightPasses, PlaceTypes
  <2>2. /\ Others(r) /\ Marked /\ Edited(row[r], row'[r])
        /\ row'[r].node = row[r].node /\ row'[r].safe = row[r].safe
        /\ workflow' = workflow \/ workflow' = [workflow EXCEPT !.lastRun = r]
    BY <1>1, <2>1, Live, Synced
  <2>3. Apart(r)
    BY <1>1, <1>2, <2>1, Live DEF Apart, PlaceTypes, Place
  <2>4. Shown(r)
    BY <1>1, <1>2, <2>1, <2>2, GoesOnShown
  <2>5. RunInv(r)'
    <3>1. BlankInv(r)' /\ PlaceInv(r)'
      BY <1>1, <1>3, <1>4, <2>1, <2>2, Live, SameGraph DEF BlankInv, PlaceInv, Before, Work, Loop
    <3>2. StageInv(r)' /\ PermitInv(r)'
      BY <1>1, <1>2, <2>1, <2>2, Live, SameGraph DEF StageInv, PermitInv, Executing
    <3>3. CourseInv(r)' /\ SettledInv(r)'
      BY <1>1, <1>2, <1>4, <2>1, <2>2, Live, SameGraph DEF CourseInv, SettledInv, Before, Loop
    <3> QED
      BY <3>1, <3>2, <3>3 DEF RunInv
  <2> QED
    BY <1>2, <2>2, <2>3, <2>4, <2>5, Advanced DEF Advances
<1>5. CASE row[r].only # 0
  <2>1. at' = [at EXCEPT ![r] = "step"] /\ at'[r] = "step" /\ BeginNodes(r, {row[r].only})
    BY <1>1, <1>5, Live DEF PreflightPasses, PlaceTypes
  <2>2. {row[r].only} \in SUBSET GraphOf(r).nodes
    BY <1>1, <1>5, Live DEF PlaceInv
  <2> DEFINE S == {row[r].only}
  <2>3. /\ Others(r) /\ Marked /\ Edited(row[r], row'[r]) /\ row'[r].safe = row[r].safe
        /\ workflow' = workflow \/ workflow' = [workflow EXCEPT !.lastRun = r]
        /\ stage' \in [Runs -> [Nodes -> Stage]] /\ \A q \in Runs \ {r} : stage'[q] = stage[q]
        /\ \A n \in Nodes \ S : stage'[r][n] = stage[r][n]
        /\ \A n \in GraphOf(r).nodes \ S : row'[r].node[n] = row[r].node[n]
        /\ \A n \in S : IF Asks(r, n)
                        THEN stage'[r][n] \in {"asked", "denied"} /\ row'[r].node[n] = "waiting_approval"
                        ELSE stage'[r][n] = "begun" /\ row'[r].node[n] = "running"
    <3> HIDE DEF S
    <3> QED
      BY <1>1, <2>1, <2>2, Began DEF S
  <2> HIDE DEF S
  <2>4. Apart(r)
    BY <1>1, <1>2, <2>1, <2>3, Live DEF Apart, PlaceTypes, Place
  <2>5. Shown(r)
    BY <1>1, <1>2, <2>1, <2>3, GoesOnShown
  <2>6. RunInv(r)'
    <3>1. BlankInv(r)' /\ PlaceInv(r)'
      BY <1>1, <1>3, <1>5, <2>1, <2>3, Live, SameGraph DEF BlankInv, PlaceInv, Before, Work, Loop
    <3>2. StageInv(r)'
      BY <1>1, <1>3, <2>2, <2>3, Live, SameGraph DEF StageInv, Executing, Shows, S
    <3>3. PermitInv(r)'
      BY <1>1, <1>2, <1>3, <2>2, <2>3, Live, SameGraph DEF PermitInv, S
    <3>4. CourseInv(r)' /\ SettledInv(r)'
      BY <2>1 DEF CourseInv, SettledInv, Before, Loop
    <3> QED
      BY <3>1, <3>2, <3>3, <3>4 DEF RunInv
  <2> QED
    BY <1>2, <2>3, <2>4, <2>5, <2>6, Advanced DEF Advances
<1> QED
  BY <1>4, <1>5

(* Nodes start, or nothing can: then nothing is left, by Acyclic.             *)
LEMMA StartNodesStep ==
  ASSUME IInv, NEW r \in Runs, StartNodes(r)
  PROVE  IInv'
<1> DEFINE g == GraphOf(r)
           old == row[r].node
           k == MaxParallel - Cardinality(Executing(r))
           S == Lowest(Ready(g, old), k)
           to == IF S = {} /\ Executing(r) = {} THEN "drain" ELSE "race"
<1>1. at[r] \in {"turn", "cascade"} /\ at[r] # "none" /\ Active(r)
      /\ Skippable(g, old) = {} /\ S \subseteq Ready(g, old)
  BY DEF StartNodes, Active, Scanning, Lowest
<1>2. at' = [at EXCEPT ![r] = to] /\ at'[r] = to /\ UNCHANGED <<canceled, approved, called>> /\ Timed
  <2>1. at' = [at EXCEPT ![r] = to]
    BY DEF StartNodes
  <2> HIDE DEF to
  <2> QED
    BY <1>1, <2>1, Live DEF StartNodes, Timed, PlaceTypes, ClockTypes, schedule
<1>3. ~row[r].safe
  BY <1>1, Live DEF PlaceInv
<1>4. IF S = {} THEN UNCHANGED <<stage, row, workflow>> ELSE BeginNodes(r, S)
  BY DEF StartNodes
<1>5. to = "drain" => \A n \in g.nodes : old[n] \in Finished
  <2> SUFFICES ASSUME S = {}, Executing(r) = {} PROVE \A n \in g.nodes : old[n] \in Finished
    OBVIOUS
  <2>1. k = MaxParallel /\ MaxParallel \in Nat \ {0}
    BY FS_EmptySet, WorkflowAssumption
  <2>2. Ready(g, old) \in SUBSET Nodes
    BY <1>1, Live DEF Ready
  <2>3. Ready(g, old) = {}
    <3> HIDE DEF k, g, old
    <3> QED
      BY <2>1, <2>2, LowestFirst
  <2> QED
    BY <1>1, <2>3, Exhausted
<1>6. \A n \in S : n \in g.nodes /\ old[n] = "pending" /\ Sent(g, old, n) /\ SourcesFinished(g, n, old)
  BY <1>1 DEF Ready, Sent, SourcesFinished
<1>7. S \in SUBSET g.nodes
  BY <1>6
<1>8. to \in {"drain", "race"} /\ (to = "drain" => S = {})
  OBVIOUS
<1> HIDE DEF k, S, to
<1>9. /\ Others(r) /\ Marked /\ Edited(row[r], row'[r]) /\ row'[r].safe = row[r].safe
      /\ workflow' = workflow \/ workflow' = [workflow EXCEPT !.lastRun = r]
      /\ stage' \in [Runs -> [Nodes -> Stage]] /\ \A q \in Runs \ {r} : stage'[q] = stage[q]
      /\ \A n \in Nodes \ S : stage'[r][n] = stage[r][n]
      /\ \A n \in g.nodes \ S : row'[r].node[n] = old[n]
      /\ \A n \in S : IF Asks(r, n)
                      THEN stage'[r][n] \in {"asked", "denied"} /\ row'[r].node[n] = "waiting_approval"
                      ELSE stage'[r][n] = "begun" /\ row'[r].node[n] = "running"
  <2>1. CASE S = {}
    <3>1. UNCHANGED <<stage, row, workflow>>
      BY <1>4, <2>1
    <3> QED
      BY <1>1, <2>1, <3>1, Live, WorkflowMarked DEF Others, RowTypes, PlaceTypes
  <2>2. CASE S # {}
    <3>1. BeginNodes(r, S)
      BY <1>4, <2>2
    <3> QED
      BY <1>1, <1>7, <3>1, Began
  <2> QED
    BY <2>1, <2>2
<1>10. Apart(r)
  BY <1>1, <1>2, <1>8, <1>9, Live DEF Apart, PlaceTypes, Place
<1>11. Shown(r)
  BY <1>1, <1>2, <1>8, <1>9, GoesOnShown
<1>12. RunInv(r)'
  <2>1. BlankInv(r)' /\ PlaceInv(r)'
    BY <1>1, <1>2, <1>3, <1>8, <1>9, Live, SameGraph DEF BlankInv, PlaceInv, Before, Work, Loop
  <2>2. StageInv(r)'
    <3>1. GraphOf(r)' = g /\ g.nodes \subseteq Nodes
      BY <1>1, <1>9, Live, SameGraph
    <3>2. \A n \in Nodes : stage'[r][n] # "none" => n \in g.nodes
      BY <1>1, <1>7, <1>9, Live DEF StageInv, Executing
    <3>3. \A n \in g.nodes : Shows(stage'[r][n], row'[r].node[n])
      BY <1>1, <1>9, <3>1, Live DEF StageInv, Shows
    <3> QED
      BY <3>1, <3>2, <3>3 DEF StageInv, Executing
  <2>3. PermitInv(r)'
    BY <1>1, <1>2, <1>7, <1>9, Live, SameGraph DEF PermitInv
  <2>4. SettledInv(r)'
    BY <1>2, <1>8 DEF SettledInv
  <2>5. CourseInv(r)'
    <3>1. at[r] \in Before \cup Loop /\ at'[r] \in Loop
      BY <1>1, <1>2, <1>8 DEF Loop
    <3>2. \A m \in g.nodes :
            /\ old[m] \in Finished => row'[r].node[m] = old[m]
            /\ row'[r].node[m] \in {"pending", "skipped", "canceled"} \/ old[m] \notin {"pending", "skipped", "canceled"}
               \/ Sent(g, old, m)
            /\ row'[r].node[m] = "skipped" => old[m] = "skipped" \/ Passed(g, old, m)
      BY <1>6, <1>9 DEF Finished
    <3>3. \A m \in g.nodes : row'[r].node[m] = "canceled" => r \in canceled'
      BY <1>1, <1>2, <1>9, Live DEF CourseInv, PlaceInv, Before, Loop
    <3>4. \A m \in g.nodes : stage'[r][m] # "none" => stage[r][m] # "none" \/ SourcesFinished(g, m, old)
      BY <1>1, <1>6, <1>9, Live
    <3>5. \A m \in g.nodes : at'[r] = "drain" /\ r \notin canceled' => row'[r].node[m] \in Finished
      BY <1>2, <1>5, <1>8, <1>9
    <3> QED
      BY <1>2, <1>9, <3>1, <3>2, <3>3, <3>4, <3>5, CourseOn
  <2> QED
    BY <2>1, <2>2, <2>3, <2>4, <2>5 DEF RunInv
<1> QED
  BY <1>2, <1>9, <1>10, <1>11, <1>12, Advanced DEF Advances

(* computeRunOutcome, when every node is where the graph sends it.            *)
LEMMA Outcome ==
  ASSUME NEW g, \A e \in g.edges : e.when \in When, NEW node,
         \A n \in g.nodes : /\ node[n] \in {"succeeded", "refuted", "failed", "skipped"}
                            /\ node[n] # "skipped" => Sent(g, node, n)
                            /\ node[n] = "skipped" => Passed(g, node, n)
  PROVE  WellEnded(g, node, RunOutcome(g, node)) /\ RunOutcome(g, node) \in RunEnded
<1>1. \A e : EdgeTaken(e, node) <=> <<node[e.from], e.when>> \in Fires
  BY DEF EdgeTaken, Fires
<1>2. \A n \in g.nodes : node[n] # "skipped" <=>
        (Into(g, n) = {} \/ \E e \in Into(g, n) : <<node[e.from], e.when>> \in Fires)
  BY <1>1 DEF Sent, Passed, AnyTaken
<1>3. \A n : ~FailureHandled(g, n) <=> \A e \in g.edges : e.from = n => e.when = "success"
  BY DEF FailureHandled, When
<1>4. \A n \in g.nodes : node[n] # "canceled"
  OBVIOUS
<1>5. RunOutcome(g, node) =
        IF \E n \in g.nodes : node[n] = "failed" /\ ~FailureHandled(g, n) THEN "failed"
        ELSE IF \E n \in g.nodes : node[n] = "failed" THEN "completed_with_issues"
        ELSE "succeeded"
  BY <1>4 DEF RunOutcome
<1>6. RunOutcome(g, node) = "succeeded" <=> \A n \in g.nodes : node[n] # "failed"
  BY <1>5
<1>7. RunOutcome(g, node) = "failed" <=>
        \E n \in g.nodes : node[n] = "failed" /\ \A e \in g.edges : e.from = n => e.when = "success"
  BY <1>3, <1>5
<1>8. RunOutcome(g, node) \in RunEnded
  BY <1>5 DEF RunEnded
<1> HIDE DEF RunOutcome
<1> QED
  BY <1>2, <1>6, <1>7, <1>8 DEF WellEnded

(* Every node has ended: the record says what the graph says.                 *)
LEMMA FinishRun ==
  ASSUME IInv, NEW r \in Runs, Finish(r)
  PROVE  IInv'
<1> DEFINE g == GraphOf(r)
           old == row[r].node
           node == Drained(old)
           status == IF r \in canceled THEN "canceled" ELSE RunOutcome(g, node)
           rec == Ended([row[r] EXCEPT !.node = node], status)
<1>1. at[r] = "drain" /\ at[r] # "none" /\ Active(r) /\ Executing(r) = {} /\ EndRun(r, rec)
  BY DEF Finish, Active
<1>2. /\ at' = [at EXCEPT ![r] = "leaving"] /\ at'[r] = "leaving"
      /\ UNCHANGED <<stage, canceled, approved, called>> /\ Timed
  BY <1>1, Live DEF Finish, Timed, PlaceTypes, ClockTypes, schedule
<1>3. node \in [g.nodes -> NodeStatus] /\ \A n \in g.nodes : node[n] \in Finished
  BY <1>1, Live DEF Drained, NodeStatus, Finished
<1>4. ASSUME r \notin canceled
      PROVE  WellEnded(g, node, RunOutcome(g, node)) /\ RunOutcome(g, node) \in RunEnded
  <2>1. row[r].only = 0
    BY <1>1, Live DEF PlaceInv, Loop
  <2>2. \A n \in g.nodes : /\ old[n] \in Finished /\ old[n] # "canceled"
                           /\ old[n] \notin {"pending", "skipped", "canceled"} => Sent(g, old, n)
                           /\ old[n] = "skipped" => Passed(g, old, n)
    BY <1>1, <1>4, <2>1, Live DEF CourseInv, Loop
  <2>3. node = old
    BY <1>1, <2>2, Live DEF Drained
  <2>4. \A n \in g.nodes : /\ old[n] \in {"succeeded", "refuted", "failed", "skipped"}
                           /\ old[n] # "skipped" => Sent(g, old, n)
                           /\ old[n] = "skipped" => Passed(g, old, n)
    BY <2>2 DEF Finished
  <2>5. \A e \in g.edges : e.when \in When
    BY <1>1, Live
  <2> HIDE DEF node, g, old
  <2> QED
    BY <2>3, <2>4, <2>5, Outcome
<1>5. status \in RunEnded
  BY <1>4 DEF RunEnded
<1>6. Edited(row[r], rec) /\ rec.status = status /\ ~rec.safe /\ rec.node = node
  <2>1. IsRow(row[r]) /\ row[r].status # "none" /\ node \in [Library[row[r].draft].nodes -> NodeStatus]
    BY <1>1, <1>3, Live DEF GraphOf
  <2>2. status \in RunStatus \ {"none"}
    BY <1>5 DEF RunEnded, RunStatus
  <2> HIDE DEF node, status
  <2> QED
    BY <2>1, <2>2 DEF IsRow, NoRow, Edited, Ended
<1> HIDE DEF rec, node
<1>7. /\ Others(r) /\ Marked /\ row'[r] = rec
      /\ workflow' = workflow \/ workflow' = [workflow EXCEPT !.lastRun = r, !.running = FALSE]
  BY <1>1, <1>6, Live, RunIsEnded
<1>8. Apart(r)
  BY <1>1, <1>2, Live DEF Apart, PlaceTypes, Place
<1>9. Shown(r)
  BY <1>1, <1>2, <1>7, GoesOnShown
<1>10. RunInv(r)'
  <2>1. GraphOf(r)' = g /\ row'[r].status = status /\ row'[r].node = node
    BY <1>6, <1>7, SameGraph
  <2>2. BlankInv(r)' /\ PlaceInv(r)'
    <3> HIDE DEF status
    <3>1. \A n \in Nodes : stage'[r][n] = "none"
      BY <1>1, <1>2 DEF Executing
    <3> QED
      BY <1>1, <1>2, <1>5, <1>6, <1>7, <3>1, Live, SameGraph DEF BlankInv, PlaceInv, Before, Work, Loop
  <2>3. StageInv(r)' /\ PermitInv(r)'
    BY <1>1, <1>2, <1>3, <2>1, Live DEF StageInv, PermitInv, Executing, Shows
  <2>4. CourseInv(r)'
    BY <1>2 DEF CourseInv, Before, Loop
  <2>5. SettledInv(r)'
    BY <1>2, <1>4, <2>1 DEF SettledInv
  <2> QED
    BY <2>2, <2>3, <2>4, <2>5 DEF RunInv
<1> QED
  BY <1>2, <1>6, <1>7, <1>8, <1>9, <1>10, Advanced DEF Advances

(* The node of a step has ended.                                              *)
LEMMA FinishStepRun ==
  ASSUME IInv, NEW r \in Runs, FinishStep(r)
  PROVE  IInv'
<1> DEFINE status == IF r \in canceled THEN "canceled"
                     ELSE IF row[r].node[row[r].only] \in {"succeeded", "refuted"} THEN "succeeded" ELSE "failed"
           rec == Ended(row[r], status)
<1>1. at[r] = "step" /\ at[r] # "none" /\ Active(r) /\ Executing(r) = {} /\ EndRun(r, rec)
  BY DEF FinishStep, Active
<1>2. /\ at' = [at EXCEPT ![r] = "leaving"] /\ at'[r] = "leaving"
      /\ UNCHANGED <<stage, canceled, approved, called>> /\ Timed
  BY <1>1, Live DEF FinishStep, Timed, PlaceTypes, ClockTypes, schedule
<1>3. status \in RunEnded
  BY DEF RunEnded
<1> HIDE DEF status
<1>4. Edited(row[r], rec) /\ rec.status = status /\ ~rec.safe /\ rec.node = row[r].node
  <2>1. IsRow(row[r]) /\ row[r].status # "none"
    BY <1>1, Live
  <2> QED
    BY <1>3, <2>1 DEF IsRow, NoRow, Edited, Ended, RunEnded, RunStatus
<1> HIDE DEF rec
<1>5. /\ Others(r) /\ Marked /\ row'[r] = rec
      /\ workflow' = workflow \/ workflow' = [workflow EXCEPT !.lastRun = r, !.running = FALSE]
  BY <1>1, <1>4, Live, RunIsEnded
<1>6. Apart(r)
  BY <1>1, <1>2, Live DEF Apart, PlaceTypes, Place
<1>7. Shown(r)
  BY <1>1, <1>2, <1>5, GoesOnShown
<1>8. row'[r].only # 0
  BY <1>1, <1>4, <1>5, Live, SameGraph DEF PlaceInv
<1>9. RunInv(r)'
  <2>1. BlankInv(r)' /\ PlaceInv(r)'
    <3>1. \A n \in Nodes : stage'[r][n] = "none"
      BY <1>1, <1>2 DEF Executing
    <3> QED
      BY <1>1, <1>2, <1>3, <1>4, <1>5, <3>1, Live, SameGraph DEF BlankInv, PlaceInv, Before, Work, Loop
  <2>2. StageInv(r)' /\ PermitInv(r)'
    BY <1>1, <1>2, <1>4, <1>5, Live, SameGraph DEF StageInv, PermitInv, Executing, Shows
  <2>3. CourseInv(r)' /\ SettledInv(r)'
    BY <1>2, <1>8 DEF CourseInv, SettledInv, Before, Loop
  <2> QED
    BY <2>1, <2>2, <2>3 DEF RunInv
<1> QED
  BY <1>2, <1>4, <1>5, <1>6, <1>7, <1>9, Advanced DEF Advances

-----------------------------------------------------------------------------
(***************************************************************************)
(* Steps of a node, of an approval and of a cancellation.                  *)
(***************************************************************************)

(* A node that executes belongs to a run at work, whose graph has it.         *)
LEMMA AtWork ==
  ASSUME IInv, NEW r \in Runs, NEW n \in Nodes, stage[r][n] # "none"
  PROVE  /\ at[r] \in Work /\ at[r] # "none" /\ Active(r) /\ ~row[r].safe
         /\ n \in GraphOf(r).nodes /\ Shows(stage[r][n], row[r].node[n])
<1>1. at[r] \in Work
  BY DEF IInv, RunInv, PlaceInv
<1>2. at[r] # "none" /\ Active(r)
  BY <1>1 DEF Work, Loop, Active
<1>3. ~row[r].safe
  BY <1>1, <1>2, Live DEF PlaceInv, Work, Loop
<1>4. n \in GraphOf(r).nodes /\ Shows(stage[r][n], row[r].node[n])
  BY <1>2, Live DEF StageInv, Executing
<1> QED
  BY <1>1, <1>2, <1>3, <1>4

(* The stored rows, when a step writes none.                                  *)
LEMMA NothingWritten ==
  ASSUME IInv, NEW r \in Runs, at[r] # "none", UNCHANGED <<row, workflow>>
  PROVE  Others(r) /\ Edited(row[r], row'[r]) /\ Marked
BY Live, WorkflowMarked DEF Others, RowTypes

(* executeNode goes on after an approval, or has a result.                    *)
LEMMA NodeMoves ==
  ASSUME IInv, NEW r \in Runs, NEW n \in Nodes,
         NEW to, NEW status,
         \/ stage[r][n] = "approved" /\ to = "begun" /\ status = "running"
         \/ /\ stage[r][n] \in {"approved", "denied", "begun", "calling"}
            /\ to = "closing" /\ status \in {"succeeded", "refuted", "failed", "canceled"},
         status = "canceled" => r \in canceled,
         stage' = [stage EXCEPT ![r][n] = to], Sync(r, [row[r].node EXCEPT ![n] = status]),
         UNCHANGED <<at, canceled, approved, called>>, Timed
  PROVE  IInv'
<1> DEFINE g == GraphOf(r)
           old == row[r].node
           new == [row[r].node EXCEPT ![n] = status]
<1>1. /\ at[r] \in Work /\ at[r] # "none" /\ Active(r) /\ ~row[r].safe
      /\ n \in g.nodes /\ old[n] \in {"waiting_approval", "running"}
  BY AtWork DEF Shows
<1>2. new \in [g.nodes -> NodeStatus]
  BY <1>1, Live DEF NodeStatus, Finished
<1>3. new[n] = status /\ \A m \in g.nodes : m # n => new[m] = old[m]
  BY <1>1, Live
<1> HIDE DEF new
<1>4. /\ Others(r) /\ Marked /\ Edited(row[r], row'[r])
      /\ row'[r].node = new /\ row'[r].safe = row[r].safe
      /\ workflow' = workflow \/ workflow' = [workflow EXCEPT !.lastRun = r]
  BY <1>1, <1>2, Live, Synced DEF new
<1>5. /\ stage' \in [Runs -> [Nodes -> Stage]] /\ \A q \in Runs : q # r => stage'[q] = stage[q]
      /\ stage'[r][n] = to /\ \A m \in Nodes : m # n => stage'[r][m] = stage[r][m]
  BY <1>1, Live DEF PlaceTypes, Stage
<1>6. Apart(r)
  BY <1>1, <1>5, Live DEF Apart, PlaceTypes
<1>7. Shown(r)
  BY <1>1, <1>4, GoesOnShown
<1>8. RunInv(r)'
  <2>1. BlankInv(r)' /\ PlaceInv(r)'
    BY <1>1, <1>4, Live, SameGraph DEF BlankInv, PlaceInv, Before, Work, Loop
  <2>2. StageInv(r)'
    <3>1. \A m \in Nodes : stage'[r][m] # "none" => m \in g.nodes
      BY <1>1, <1>5, Live DEF StageInv, Executing
    <3>2. \A m \in g.nodes : Shows(stage'[r][m], new[m])
      BY <1>1, <1>3, <1>5, Live DEF StageInv, Shows, Finished
    <3> QED
      BY <1>4, <3>1, <3>2, SameGraph DEF StageInv, Executing
  <2>3. PermitInv(r)'
    BY <1>1, <1>4, <1>5, Live, SameGraph DEF PermitInv
  <2>4. SettledInv(r)'
    BY <1>1 DEF SettledInv, Work, Loop
  <2>5. CourseInv(r)'
    <3>1. CASE at[r] = "step"
      BY <3>1 DEF CourseInv, Before, Loop
    <3>2. CASE at[r] \in Loop
      <4>1. row[r].only = 0
        BY <1>1, <3>2, Live DEF PlaceInv
      <4>2. \A m \in g.nodes : old[m] = "canceled" => r \in canceled
        BY <1>1, <3>2, <4>1, Live DEF CourseInv
      <4>3. at[r] = "drain" => r \in canceled
        <5>1. old[n] \notin Finished
          BY <1>1 DEF Finished
        <5> QED
          BY <1>1, <3>2, <4>1, <5>1, Live DEF CourseInv
      <4>4. \A m \in g.nodes :
              /\ old[m] \in Finished => new[m] = old[m]
              /\ new[m] \in {"pending", "skipped", "canceled"} \/ old[m] \notin {"pending", "skipped", "canceled"}
              /\ new[m] = "skipped" => old[m] = "skipped"
              /\ new[m] = "canceled" => r \in canceled
        BY <1>1, <1>3, <4>2 DEF Finished
      <4>5. \A m \in g.nodes : stage'[r][m] # "none" => stage[r][m] # "none"
        BY <1>1, <1>5, Live
      <4> QED
        BY <1>4, <3>2, <4>3, <4>4, <4>5, CourseOn
    <3> QED
      BY <1>1, <3>1, <3>2 DEF Work
  <2> QED
    BY <2>1, <2>2, <2>3, <2>4, <2>5 DEF RunInv
<1> QED
  BY <1>4, <1>6, <1>7, <1>8, Advanced DEF Advances

(* The node goes on after the answer.                                         *)
LEMMA AnswerStep ==
  ASSUME IInv, NEW r \in Runs, NEW n \in Nodes, Answer(r, n)
  PROVE  IInv'
<1>1. stage[r][n] \in {"approved", "denied"} /\ Answered(r, n)
      /\ UNCHANGED <<phase, at, canceled, applying, schedule, clock, left, approved, called>>
  BY DEF Answer
<1>2. Timed
  BY <1>1, AtWork, Live DEF Timed, ClockTypes, schedule
<1>3. CASE r \in canceled
  BY <1>1, <1>2, <1>3, NodeMoves DEF Answered, Settle
<1>4. CASE r \notin canceled /\ stage[r][n] = "approved"
  BY <1>1, <1>2, <1>4, NodeMoves DEF Answered
<1>5. CASE r \notin canceled /\ stage[r][n] = "denied"
  BY <1>1, <1>2, <1>5, NodeMoves DEF Answered, Settle
<1> QED
  BY <1>1, <1>3, <1>4, <1>5

(* A call has come to its end.                                                *)
LEMMA ReturnStep ==
  ASSUME IInv, NEW r \in Runs, NEW n \in Nodes, Return(r, n)
  PROVE  IInv'
<1>1. stage[r][n] = "calling"
      /\ UNCHANGED <<phase, at, canceled, applying, schedule, clock, left, approved, called>>
  BY DEF Return
<1>2. Timed
  BY <1>1, AtWork, Live DEF Timed, ClockTypes, schedule
<1>3. PICK status \in {"succeeded", "failed", "canceled"} :
         (status = "canceled" => r \in canceled) /\ Settle(r, n, status)
  BY DEF Return
<1> QED
  BY <1>1, <1>2, <1>3, NodeMoves DEF Settle

(* A condition has its result, or an action or a tool is called.              *)
LEMMA ExecuteStep ==
  ASSUME IInv, NEW r \in Runs, NEW n \in Nodes, Execute(r, n)
  PROVE  IInv'
<1>1. stage[r][n] = "begun"
      /\ UNCHANGED <<phase, at, canceled, applying, schedule, clock, left, approved>>
  BY DEF Execute
<1>2. Timed
  BY <1>1, AtWork, Live DEF Timed, ClockTypes, schedule
<1>3. CASE StopsBefore(r) /\ Settle(r, n, "canceled") /\ UNCHANGED called
  BY <1>1, <1>2, <1>3, NodeMoves DEF Settle, StopsBefore
<1>4. ASSUME NEW status \in {"succeeded", "refuted"}, Settle(r, n, status), UNCHANGED called
      PROVE  IInv'
  BY <1>1, <1>2, <1>4, NodeMoves DEF Settle
<1>5. CASE /\ stage' = [stage EXCEPT ![r][n] = "calling"]
           /\ called' = called \cup {<<r, n>>}
           /\ UNCHANGED <<row, workflow>>
  <2>1. /\ at[r] \in Work /\ at[r] # "none" /\ Active(r) /\ ~row[r].safe
        /\ n \in GraphOf(r).nodes /\ row[r].node[n] = "running"
    BY <1>1, AtWork DEF Shows
  <2>2. Others(r) /\ Edited(row[r], row'[r]) /\ Marked
    BY <1>5, <2>1, NothingWritten
  <2>3. /\ stage' \in [Runs -> [Nodes -> Stage]] /\ \A q \in Runs : q # r => stage'[q] = stage[q]
        /\ stage'[r][n] = "calling" /\ \A m \in Nodes : m # n => stage'[r][m] = stage[r][m]
    BY <1>5, <2>1, Live DEF PlaceTypes, Stage
  <2>4. Apart(r)
    BY <1>1, <1>5, <2>1, <2>3, Live DEF Apart, PlaceTypes
  <2>5. Shown(r)
    BY <1>1, <1>5, <2>1, GoesOnShown
  <2>6. RunInv(r)'
    <3>1. BlankInv(r)' /\ PlaceInv(r)'
      BY <1>1, <1>5, <2>1, <2>2, Live, SameGraph DEF BlankInv, PlaceInv, Before, Work, Loop
    <3>2. StageInv(r)' /\ PermitInv(r)'
      BY <1>1, <1>5, <2>1, <2>2, <2>3, Live, SameGraph DEF StageInv, PermitInv, Executing, Shows
    <3>3. SettledInv(r)'
      BY <1>1, <2>1 DEF SettledInv, Work, Loop
    <3>4. CourseInv(r)'
      BY <1>1, <1>5, <2>1, <2>2, <2>3, Live, SameGraph DEF CourseInv, Before, Loop, Work
    <3> QED
      BY <3>1, <3>2, <3>3, <3>4 DEF RunInv
  <2> QED
    BY <1>2, <2>2, <2>4, <2>5, <2>6, Advanced DEF Advances
<1> QED
  BY <1>3, <1>4, <1>5 DEF Execute

(* The promise of a node settles.                                             *)
LEMMA CloseStep ==
  ASSUME IInv, NEW r \in Runs, NEW n \in Nodes, Close(r, n)
  PROVE  IInv'
<1>1. /\ stage[r][n] = "closing" /\ stage' = [stage EXCEPT ![r][n] = "none"]
      /\ at' = [at EXCEPT ![r] = IF @ = "race" THEN "turn" ELSE @]
      /\ UNCHANGED <<workflow, row, phase, canceled, applying, schedule, clock, left, approved, called>>
  BY DEF Close, Woken
<1>2. /\ at[r] \in Work /\ at[r] # "none" /\ Active(r) /\ ~row[r].safe
      /\ n \in GraphOf(r).nodes /\ row[r].node[n] \in Finished
  BY <1>1, AtWork DEF Shows
<1>3. Timed
  BY <1>1, <1>2, Live DEF Timed, ClockTypes, schedule
<1>4. /\ at'[r] = (IF at[r] = "race" THEN "turn" ELSE at[r]) /\ at' \in [Runs -> Place]
      /\ \A q \in Runs : q # r => at'[q] = at[q]
  BY <1>1, <1>2, Live DEF PlaceTypes, Place
<1>5. Others(r) /\ Edited(row[r], row'[r]) /\ Marked
  BY <1>1, <1>2, NothingWritten
<1>6. /\ stage' \in [Runs -> [Nodes -> Stage]] /\ \A q \in Runs : q # r => stage'[q] = stage[q]
      /\ stage'[r][n] = "none" /\ \A m \in Nodes : m # n => stage'[r][m] = stage[r][m]
  BY <1>1, <1>2, Live DEF PlaceTypes, Stage
<1>7. Apart(r)
  BY <1>1, <1>2, <1>4, <1>6, Live DEF Apart, PlaceTypes
<1>8. Shown(r)
  BY <1>1, <1>2, <1>4, GoesOnShown
<1>9. RunInv(r)'
  <2>1. BlankInv(r)' /\ PlaceInv(r)'
    BY <1>1, <1>2, <1>4, <1>5, Live, SameGraph DEF BlankInv, PlaceInv, Before, Work, Loop
  <2>2. StageInv(r)' /\ PermitInv(r)'
    BY <1>1, <1>2, <1>5, <1>6, Live, SameGraph DEF StageInv, PermitInv, Executing, Shows
  <2>3. SettledInv(r)'
    BY <1>2, <1>4 DEF SettledInv, Work, Loop
  <2>4. CourseInv(r)'
    BY <1>1, <1>2, <1>4, <1>5, <1>6, Live, SameGraph DEF CourseInv, Before, Loop, Work
  <2> QED
    BY <2>1, <2>2, <2>3, <2>4 DEF RunInv
<1> QED
  BY <1>3, <1>5, <1>7, <1>8, <1>9, Advanced DEF Advances

(* approveNode                                                                *)
LEMMA ApproveStep ==
  ASSUME IInv, NEW r \in Runs, NEW n \in Nodes, NEW yes \in BOOLEAN, Approve(r, n, yes)
  PROVE  IInv'
<1> DEFINE to == IF yes THEN "approved" ELSE "denied"
<1>1. /\ stage[r][n] = "asked" /\ stage' = [stage EXCEPT ![r][n] = to]
      /\ approved \subseteq approved' /\ approved' \subseteq approved \cup {<<r, n>>}
      /\ to = "approved" => <<r, n>> \in approved'
      /\ UNCHANGED <<workflow, row, phase, at, canceled, applying, schedule, clock, left, called>>
  BY DEF Approve
<1>2. to \in {"approved", "denied"}
  OBVIOUS
<1> HIDE DEF to
<1>3. /\ at[r] \in Work /\ at[r] # "none" /\ Active(r) /\ ~row[r].safe
      /\ n \in GraphOf(r).nodes /\ row[r].node[n] = "waiting_approval"
  BY <1>1, AtWork DEF Shows
<1>4. Timed
  BY <1>1, <1>3, Live DEF Timed, ClockTypes, schedule
<1>5. Others(r) /\ Edited(row[r], row'[r]) /\ Marked
  BY <1>1, <1>3, NothingWritten
<1>6. /\ stage' \in [Runs -> [Nodes -> Stage]] /\ \A q \in Runs : q # r => stage'[q] = stage[q]
      /\ stage'[r][n] = to /\ \A m \in Nodes : m # n => stage'[r][m] = stage[r][m]
  BY <1>1, <1>2, <1>3, Live DEF PlaceTypes, Stage
<1>7. Apart(r)
  BY <1>1, <1>3, <1>6, Live DEF Apart, PlaceTypes
<1>8. Shown(r)
  BY <1>1, <1>3, GoesOnShown
<1>9. RunInv(r)'
  <2>1. BlankInv(r)' /\ PlaceInv(r)'
    BY <1>1, <1>3, <1>5, Live, SameGraph DEF BlankInv, PlaceInv, Before, Work, Loop
  <2>2. StageInv(r)' /\ PermitInv(r)'
    BY <1>1, <1>2, <1>3, <1>5, <1>6, Live, SameGraph DEF StageInv, PermitInv, Executing, Shows
  <2>3. SettledInv(r)'
    BY <1>1, <1>3 DEF SettledInv, Work, Loop
  <2>4. CourseInv(r)'
    BY <1>1, <1>3, <1>5, <1>6, Live, SameGraph DEF CourseInv, Before, Loop, Work
  <2> QED
    BY <2>1, <2>2, <2>3, <2>4 DEF RunInv
<1> QED
  BY <1>4, <1>5, <1>7, <1>8, <1>9, Advanced DEF Advances

(* A run that is told to stop: who was asked is answered no.                  *)
LEMMA Told ==
  ASSUME IInv, NEW q \in Runs, at[q] # "none", row'[q] = row[q], at'[q] = at[q], q \in canceled',
         \A n \in Nodes : stage'[q][n] = IF stage[q][n] = "asked" THEN "denied" ELSE stage[q][n],
         UNCHANGED <<approved, called>>
  PROVE  RunInv(q)'
<1>1. /\ Edited(row[q], row'[q])
      /\ \A n \in Nodes : /\ stage'[q][n] = "none" <=> stage[q][n] = "none"
                          /\ stage'[q][n] \in {"approved", "begun"} => stage'[q][n] = stage[q][n]
                          /\ \A s : Shows(stage[q][n], s) => Shows(stage'[q][n], s)
  BY Live DEF Shows
<1>2. BlankInv(q)' /\ PlaceInv(q)'
  BY <1>1, Live, SameGraph DEF BlankInv, PlaceInv
<1>3. StageInv(q)' /\ PermitInv(q)'
  BY <1>1, Live, SameGraph DEF StageInv, PermitInv, Executing
<1>4. SettledInv(q)'
  BY DEF SettledInv
<1>5. CourseInv(q)'
  BY <1>1, Live, SameGraph DEF CourseInv
<1> QED
  BY <1>2, <1>3, <1>4, <1>5 DEF RunInv

(* cancelRun                                                                  *)
LEMMA CancelRunStep ==
  ASSUME IInv, NEW r \in Runs, CancelRun(r)
  PROVE  IInv'
<1>1. /\ Active(r) /\ at[r] # "none" /\ Spend("cancels") /\ CancelAll({r})
      /\ UNCHANGED <<workflow, row, phase, at, applying, schedule, clock, approved, called>>
  BY DEF CancelRun, Active
<1>2. Timed
  BY <1>1, Live DEF Timed, ClockTypes, schedule, Spend, Budget
<1>3. /\ canceled' = canceled \cup {r} /\ stage' \in [Runs -> [Nodes -> Stage]]
      /\ \A q \in Runs : q # r => stage'[q] = stage[q]
      /\ \A n \in Nodes : stage'[r][n] = IF stage[r][n] = "asked" THEN "denied" ELSE stage[r][n]
  BY <1>1, Live DEF CancelAll, PlaceTypes, Stage
<1>4. Others(r) /\ Edited(row[r], row'[r]) /\ Marked
  BY <1>1, NothingWritten
<1>5. Apart(r)
  BY <1>1, <1>3, Live DEF Apart, PlaceTypes
<1>6. Shown(r)
  BY <1>1, <1>3, GoesOnShown
<1>7. RunInv(r)'
  BY <1>1, <1>3, Told
<1> QED
  BY <1>2, <1>4, <1>5, <1>6, <1>7, Advanced DEF Advances

-----------------------------------------------------------------------------
(***************************************************************************)
(* Steps that make a record.                                               *)
(***************************************************************************)

(* The record of a run, for a revision the workflow has.                      *)
LEMMA RecordMade ==
  ASSUME IInv, NEW i \in 1..Current, NEW status \in {"queued", "skipped"},
         NEW trigger \in {"none", "manual", "step", "scheduled"}, NEW slot \in Nat,
         NEW only \in {0} \cup Of(i).nodes, NEW rec, rec = Record(status, trigger, i, slot, only)
  PROVE  /\ IsRow(rec) /\ rec.status = status /\ rec.trigger = trigger /\ rec.revision = i
         /\ rec.slot = slot /\ rec.only = only /\ ~rec.safe /\ Library[rec.draft] = Of(i)
         /\ \A n \in Of(i).nodes : rec.node[n] \in {"pending", "skipped"}
         /\ status = "queued" /\ only = 0 => \A n \in Of(i).nodes : rec.node[n] = "pending"
         /\ ValidGraph(Of(i)) /\ Of(i).nodes \subseteq Nodes
<1>1. workflow.revisions[i] \in DOMAIN Library
  BY TypeParts DEF IInv, WorkflowTypes, Workflow, Current
<1>2. Of(i).nodes \subseteq Nodes
  BY <1>1, GraphType DEF Of
<1> DEFINE node == [n \in Of(i).nodes |-> IF status = "skipped" \/ only \notin {0, n} THEN "skipped" ELSE "pending"]
<1>3. node \in [Of(i).nodes -> NodeStatus] /\ \A n \in Of(i).nodes : node[n] \in {"pending", "skipped"}
  BY DEF NodeStatus, Finished
<1>4. status = "queued" /\ only = 0 => \A n \in Of(i).nodes : node[n] = "pending"
  BY <1>2, WorkflowAssumption
<1> DEFINE draft == workflow.revisions[i]
<1>5. rec = [status |-> status, trigger |-> trigger, draft |-> draft, revision |-> i,
             slot |-> slot, only |-> only, safe |-> FALSE, node |-> node]
  BY DEF Record
<1>6. Library[draft] = Of(i) /\ draft \in DOMAIN Library
  BY <1>1 DEF Of
<1>7. i \in Nat /\ only \in {0} \cup Nodes /\ ValidGraph(Of(i))
  BY <1>2 DEF IInv, FiledInv
<1> HIDE DEF node, draft
<1>8. /\ rec.status = status /\ rec.trigger = trigger /\ rec.revision = i /\ rec.draft = draft
      /\ rec.slot = slot /\ rec.only = only /\ ~rec.safe /\ rec.node = node
  BY <1>5
<1>9. IsRow(rec)
  BY <1>3, <1>5, <1>6, <1>7 DEF IsRow, NoRow, RunStatus, RunEnded
<1> QED
  BY <1>2, <1>3, <1>4, <1>6, <1>7, <1>8, <1>9

(* A record that was not made: its run is nowhere.                            *)
LEMMA Unmade ==
  ASSUME IInv, NEW r \in Runs, NextFree(r)
  PROVE  /\ row[r].status = "none" /\ at[r] = "none"
         /\ \A n \in Nodes : stage[r][n] = "none" /\ <<r, n>> \notin called
<1>1. row[r].status = "none"
  BY DEF NextFree, Free
<1>2. at[r] = "none"
  BY <1>1, TypeParts DEF IInv, PlaceTypes
<1>3. RunInv(r)
  BY DEF IInv
<1> QED
  BY <1>1, <1>2, <1>3 DEF RunInv, BlankInv, PlaceInv, Work, Loop

(* The run of a record that is made.                                          *)
LEMMA RunMade ==
  ASSUME IInv, NEW r \in Runs, NextFree(r),
         NEW i \in 1..Current, NEW status \in {"queued", "skipped"},
         NEW trigger \in {"none", "manual", "step", "scheduled"}, NEW slot \in Nat,
         NEW only \in {0} \cup Of(i).nodes, only # 0 => trigger = "step",
         row'[r] = Record(status, trigger, i, slot, only),
         at'[r] = (IF status = "queued" THEN "prepared" ELSE at[r]),
         UNCHANGED <<stage, approved, called>>
  PROVE  RunInv(r)'
<1> DEFINE rec == Record(status, trigger, i, slot, only)
<1>1. /\ row'[r].status = status /\ row'[r].trigger = trigger /\ row'[r].only = only /\ ~row'[r].safe
      /\ GraphOf(r)' = Of(i) /\ Of(i).nodes \subseteq Nodes
      /\ \A n \in Of(i).nodes : row'[r].node[n] \in {"pending", "skipped"}
      /\ status = "queued" /\ only = 0 => \A n \in Of(i).nodes : row'[r].node[n] = "pending"
  <2> DEFINE x == row'[r]
  <2>1. x = Record(status, trigger, i, slot, only)
    OBVIOUS
  <2> HIDE DEF x
  <2>2. /\ x.status = status /\ x.trigger = trigger /\ x.only = only /\ ~x.safe
        /\ Library[x.draft] = Of(i) /\ Of(i).nodes \subseteq Nodes
        /\ \A n \in Of(i).nodes : x.node[n] \in {"pending", "skipped"}
        /\ status = "queued" /\ only = 0 => \A n \in Of(i).nodes : x.node[n] = "pending"
    BY <2>1, RecordMade
  <2> QED
    BY <2>2 DEF x, GraphOf
<1>2. at'[r] \in {"prepared", "none"} /\ (at'[r] = "prepared" => status = "queued")
      /\ \A n \in Nodes : stage'[r][n] = "none" /\ <<r, n>> \notin called'
  BY Unmade
<1>3. BlankInv(r)' /\ PlaceInv(r)'
  BY <1>1, <1>2 DEF BlankInv, PlaceInv, Before, Work, Loop
<1>4. StageInv(r)' /\ PermitInv(r)'
  BY <1>1, <1>2 DEF StageInv, PermitInv, Executing, Shows, Finished
<1>5. SettledInv(r)'
  BY <1>2 DEF SettledInv
<1>6. CourseInv(r)'
  BY <1>1, <1>2 DEF CourseInv, Before, Loop
<1> QED
  BY <1>3, <1>4, <1>5, <1>6 DEF RunInv

(* What the making of a record keeps, with the schedule left to the step.     *)
LEMMA Made ==
  ASSUME IInv, Up, Exists, NEW r \in Runs, NextFree(r),
         NEW i \in 1..Current, NEW status \in {"queued", "skipped"},
         NEW trigger \in {"none", "manual", "step", "scheduled"}, NEW slot \in Nat,
         NEW only \in {0} \cup Of(i).nodes, only # 0 => trigger = "step",
         SetRow(r, Record(status, trigger, i, slot, only)),
         at' = (IF status = "queued" THEN [at EXCEPT ![r] = "prepared"] ELSE at),
         UNCHANGED <<phase, stage, canceled, approved, called>>,
         workflow'.revisions = workflow.revisions, workflow'.lastRun = r,
         workflow'.running => workflow.running \/ status = "queued",
         \A s \in starts' : s.revision \in 1..Current
  PROVE  /\ RowTypes' /\ PlaceTypes' /\ FiledInv' /\ \A q \in Runs : RunInv(q)'
         /\ AwayInv' /\ ShownIsLive'
         /\ row'[r].slot = slot /\ \A q \in Runs : q # r => row'[q] = row[q]
<1>1. WorkflowTypes /\ RowTypes /\ PlaceTypes /\ ClockTypes
  BY TypeParts DEF IInv
<1> DEFINE rec == row'[r]
<1>2. Others(r) /\ rec = Record(status, trigger, i, slot, only)
  BY <1>1, RowSet
<1>3. /\ IsRow(rec) /\ rec.status = status /\ rec.revision = i /\ rec.slot = slot
      /\ ValidGraph(Library[rec.draft])
  <2> HIDE DEF rec
  <2> QED
    BY <1>2, RecordMade
<1>4. row[r].status = "none" /\ at[r] = "none"
  BY Unmade
<1>5. /\ at'[r] = (IF status = "queued" THEN "prepared" ELSE "none") /\ at' \in [Runs -> Place]
      /\ \A q \in Runs : q # r => at'[q] = at[q]
  BY <1>1, <1>4 DEF PlaceTypes, Place
<1>6. RowTypes' /\ \A q \in Runs : q # r => row'[q] = row[q]
  BY <1>1, <1>2, <1>3 DEF RowTypes, Others
<1>7. PlaceTypes'
  BY <1>1, <1>3, <1>5, <1>6 DEF PlaceTypes
<1>8. FiledInv'
  <2>1. Current' = Current /\ \A j \in 1..Current : Of(j)' = Of(j)
    BY DEF Current, Of
  <2>2. \A q \in Runs : row'[q].status # "none" => ValidGraph(GraphOf(q))'
    BY <1>3, <1>6 DEF IInv, FiledInv, GraphOf
  <2>3. \A q \in Runs : row'[q].status # "none" => row'[q].revision \in 1..Current
    BY <1>3, <1>6 DEF IInv, FiledInv
  <2>4. row'[workflow'.lastRun].status # "none"
    BY <1>3
  <2> QED
    BY <2>1, <2>2, <2>3, <2>4 DEF IInv, FiledInv
<1>9. \A q \in Runs : RunInv(q)'
  <2>1. RunInv(r)'
    BY <1>2, <1>4, <1>5, RunMade
  <2>2. \A q \in Runs : q # r => RunInv(q)'
    BY <1>5, <1>6, Untouched DEF IInv
  <2> QED
    BY <2>1, <2>2
<1>10. AwayInv'
  BY DEF AwayInv, Up
<1>11. ShownIsLive'
  <2>1. workflow'.running => \E q \in Runs : at'[q] # "none"
    BY <1>4, <1>5 DEF IInv, ShownIsLive
  <2>2. row'[r].status \notin RunEnded => at'[r] # "none"
    BY <1>3, <1>5 DEF RunEnded
  <2> QED
    BY <2>1, <2>2 DEF ShownIsLive
<1> QED
  BY <1>3, <1>6, <1>7, <1>8, <1>9, <1>10, <1>11

(* The instant a record or a decided start has been given stays with it.      *)
LEMMA SlotMade ==
  ASSUME IInv, NEW r \in Runs, \A q \in Runs : q # r => row'[q] = row[q],
         NEW slot \in Nat, row'[r].slot = slot,
         slot # 0 => Given(slot) /\ \A q \in Runs : row[q].slot # slot,
         starts' \subseteq starts, \A s \in starts' : s.slot # slot,
         \A i \in Nat : Given(i) => Given(i)'
  PROVE  SlotInv'
<1>1. SlotInv /\ (\A s \in starts : s.slot \in Nat) /\ \A q \in Runs : row[q].slot \in Nat
  BY TypeParts DEF IInv, ClockTypes, RowTypes, IsRow
<1>2. \A q \in Runs : row'[q].slot # 0 => Given(row[q].slot)'
  <2> SUFFICES ASSUME NEW q \in Runs, row'[q].slot # 0 PROVE Given(row[q].slot)'
    OBVIOUS
  <2>1. row'[q].slot \in Nat /\ Given(row'[q].slot)
    BY <1>1 DEF SlotInv
  <2> DEFINE i == row'[q].slot
  <2>2. i \in Nat /\ Given(i)
    BY <2>1
  <2> HIDE DEF i
  <2>3. /\ i # 0 /\ i <= hour' /\ (workflow'.nextRun # 0 => i < workflow'.nextRun)
    BY <2>2 DEF Given
  <2> QED
    BY <2>3 DEF i, Given
<1>3. \A s \in starts' : Given(s.slot)' /\ \A q \in Runs : row'[q].slot # s.slot
  BY <1>1 DEF SlotInv
<1>4. \A s, t \in starts' : s.slot = t.slot => s = t
  BY <1>1 DEF SlotInv
<1>5. \A p, q \in Runs : row'[p].slot # 0 /\ row'[p].slot = row'[q].slot => p = q
  BY <1>1 DEF SlotInv
<1> QED
  BY <1>2, <1>3, <1>4, <1>5 DEF SlotInv

(* startRun: a run is queued, or a record says it was skipped.                *)
LEMMA Started ==
  ASSUME IInv, Up, Exists, NEW r \in Runs, NextFree(r),
         NEW i \in 1..Current, NEW trigger \in {"none", "manual", "step", "scheduled"}, NEW slot \in Nat,
         NEW only \in {0} \cup Of(i).nodes, only # 0 => trigger = "step",
         Start(r, trigger, i, slot, only),
         slot # 0 => Given(slot) /\ \A q \in Runs : row[q].slot # slot,
         starts' \subseteq starts, \A s \in starts' : s.slot # slot,
         UNCHANGED <<phase, stage, canceled, applying, timer, dues, clock, approved, called>>,
         left' \in [Budget -> Nat]
  PROVE  IInv'
<1>1. WorkflowTypes /\ RowTypes /\ PlaceTypes /\ ClockTypes
  BY TypeParts DEF IInv
<1> DEFINE status == IF workflow.running THEN "skipped" ELSE "queued"
<1>2. /\ status \in {"queued", "skipped"}
      /\ SetRow(r, Record(status, trigger, i, slot, only))
      /\ at' = IF status = "queued" THEN [at EXCEPT ![r] = "prepared"] ELSE at
      /\ \/ workflow' = [workflow EXCEPT !.lastRun = r]
         \/ workflow' = [workflow EXCEPT !.lastRun = r, !.running = TRUE] /\ status = "queued"
  BY DEF Start
<1> HIDE DEF status
<1>3. Marked /\ workflow'.lastRun = r /\ (workflow'.running => workflow.running \/ status = "queued")
  <2>1. Marked
    BY <1>1, <1>2, WorkflowMarked
  <2>2. workflow'.lastRun = r /\ (workflow'.running => workflow.running \/ status = "queued")
    BY <1>1, <1>2 DEF WorkflowTypes, Workflow
  <2> QED
    BY <2>1, <2>2
<1>4. /\ RowTypes' /\ PlaceTypes' /\ FiledInv' /\ \A q \in Runs : RunInv(q)'
      /\ AwayInv' /\ ShownIsLive'
      /\ row'[r].slot = slot /\ \A q \in Runs : q # r => row'[q] = row[q]
  <2>1. \A s \in starts' : s.revision \in 1..Current
    BY DEF IInv, FiledInv
  <2>2. workflow'.revisions = workflow.revisions
    BY <1>3 DEF Marked
  <2> QED
    BY <1>2, <1>3, <2>1, <2>2, Made
<1>5. WorkflowTypes'
  BY <1>1, <1>3 DEF WorkflowTypes, Marked, Current
<1>6. ClockTypes'
  BY <1>1 DEF ClockTypes, clock
<1>7. SlotInv'
  <2>1. \A j \in Nat : Given(j) => Given(j)'
    BY <1>3 DEF Given, Marked, clock
  <2> QED
    BY <1>4, <2>1, SlotMade
<1>8. Armed'
  BY <1>3 DEF IInv, Armed, Up, Current, Of, Marked
<1> QED
  BY <1>4, <1>5, <1>6, <1>7, <1>8, TypeParts DEF IInv

(* The revision a run is started with is one the workflow has.                *)
LEMMA RunnableRevision ==
  ASSUME IInv, Exists
  PROVE  Runnable \in 1..Current
<1>1. workflow.applied \in Nat /\ workflow.applied <= Current /\ workflow.revisions \in Seq(DOMAIN Library)
  BY TypeParts DEF IInv, WorkflowTypes, Workflow
<1>2. Current \in Nat /\ Current # 0
  BY <1>1 DEF Exists, Current
<1> HIDE DEF Current
<1> QED
  BY <1>1, <1>2 DEF Runnable

(* What the person's demands leave alone.                                     *)
LEMMA DemandFacts ==
  ASSUME IInv, Demand
  PROVE  /\ Up /\ Exists /\ left' \in [Budget -> Nat]
         /\ UNCHANGED <<phase, stage, canceled, applying, schedule, clock, approved, called>>
<1>1. ClockTypes
  BY TypeParts DEF IInv
<1> QED
  BY <1>1 DEF Demand, Spend, Budget, ClockTypes

(* runNow                                                                     *)
LEMMA RunNowStep ==
  ASSUME IInv, NEW r \in Runs, RunNow(r)
  PROVE  IInv'
<1>1. NextFree(r) /\ Start(r, "manual", Runnable, 0, 0) /\ Demand
  BY DEF RunNow
<1>2. Runnable \in 1..Current /\ Up /\ Exists
  BY <1>1, RunnableRevision, DemandFacts
<1>3. \A s \in starts : s.slot # 0
  BY DEF IInv, SlotInv, Given
<1> QED
  BY <1>1, <1>2, <1>3, DemandFacts, Started DEF schedule

(* runNode                                                                    *)
LEMMA RunNodeStep ==
  ASSUME IInv, NEW r \in Runs, NEW n \in Nodes, RunNode(r, n)
  PROVE  IInv'
<1>1. NextFree(r) /\ Start(r, "step", Runnable, 0, n) /\ Demand /\ n \in Of(Runnable).nodes
  BY DEF RunNode
<1>2. Runnable \in 1..Current /\ Up /\ Exists
  BY <1>1, RunnableRevision, DemandFacts
<1>3. \A s \in starts : s.slot # 0
  BY DEF IInv, SlotInv, Given
<1> QED
  BY <1>1, <1>2, <1>3, DemandFacts, Started DEF schedule

(* retryRun: the record it repeats names a revision the workflow has.         *)
LEMMA RetryRunStep ==
  ASSUME IInv, NEW r \in Runs, NEW p \in Runs, RetryRun(r, p)
  PROVE  IInv'
<1>1. /\ NextFree(r) /\ Demand /\ row[p].status = "failed"
      /\ Start(r, row[p].trigger, row[p].revision, 0, 0)
  BY DEF RetryRun
<1>2. Up /\ Exists
  BY <1>1, DemandFacts
<1>3. row[p].revision \in 1..Current /\ row[p].trigger \in {"none", "manual", "step", "scheduled"}
  <2>1. row[p].revision \in 1..Current
    BY <1>1, <1>2 DEF IInv, FiledInv
  <2>2. IsRow(row[p])
    BY TypeParts DEF IInv, RowTypes
  <2> QED
    BY <2>1, <2>2 DEF IsRow
<1>4. \A s \in starts : s.slot # 0
  BY DEF IInv, SlotInv, Given
<1> QED
  BY <1>1, <1>2, <1>3, <1>4, DemandFacts, Started DEF schedule

-----------------------------------------------------------------------------
(***************************************************************************)
(* Steps of the definition, of the schedule and of the manager.            *)
(***************************************************************************)

(* A step that moves no run keeps all that is about runs.                     *)
LEMMA RunsStay ==
  ASSUME IInv, UNCHANGED <<row, execution, approved, called>>
  PROVE  /\ RowTypes' /\ PlaceTypes' /\ \A r \in Runs : RunInv(r)'
         /\ phase' = phase => AwayInv'
         /\ phase' = phase /\ (workflow'.running => workflow.running)
            /\ workflow'.lastRun \in {0, workflow.lastRun} => ShownIsLive'
<1>1. RowTypes' /\ PlaceTypes'
  BY TypeParts DEF IInv, RowTypes, PlaceTypes, execution
<1>2. \A r \in Runs : RunInv(r)'
  BY Untouched DEF IInv, execution
<1>3. phase' = phase => AwayInv'
  BY DEF IInv, AwayInv, Up, Disposing, Active, execution
<1>4. phase' = phase /\ (workflow'.running => workflow.running)
      /\ workflow'.lastRun \in {0, workflow.lastRun} => ShownIsLive'
  BY DEF IInv, ShownIsLive, Up, execution
<1> QED
  BY <1>1, <1>2, <1>3, <1>4

(* ... and what is stored, when no revision is added.                          *)
LEMMA FiledStays ==
  ASSUME IInv, UNCHANGED row, workflow'.revisions \in {workflow.revisions, <<>>},
         workflow'.lastRun \in {0, workflow.lastRun},
         workflow'.revisions # <<>> => \A s \in starts' : s.revision \in 1..Current
  PROVE  FiledInv'
<1>1. CASE workflow'.revisions = workflow.revisions
  <2>1. Current' = Current /\ (Exists' <=> Exists) /\ \A i \in 1..Current : Of(i)' = Of(i)
    BY <1>1 DEF Current, Exists, Of
  <2>2. \A r \in Runs : GraphOf(r)' = GraphOf(r)
    BY DEF GraphOf
  <2> QED
    BY <1>1, <2>1, <2>2 DEF IInv, FiledInv, Exists
<1>2. CASE workflow'.revisions = <<>>
  <2>1. Current' = 0 /\ ~Exists'
    BY <1>2 DEF Current, Exists
  <2>2. \A r \in Runs : GraphOf(r)' = GraphOf(r)
    BY DEF GraphOf
  <2> QED
    BY <2>1, <2>2 DEF IInv, FiledInv
<1> QED
  BY <1>1, <1>2

(* An instant stays given while time passes and what is due next moves on.    *)
LEMMA GivenStays ==
  ASSUME IInv, hour' \in Nat, hour <= hour', workflow'.nextRun \in {0, workflow.nextRun, hour + 1}
  PROVE  \A i \in Nat : Given(i) => Given(i)'
<1>1. hour \in Nat
  BY TypeParts DEF IInv, ClockTypes
<1>2. workflow.nextRun \in Nat
  BY TypeParts DEF IInv, WorkflowTypes, Workflow
<1> QED
  BY <1>1, <1>2 DEF Given

(* No instant is given away or made anew.                                     *)
LEMMA SlotsStay ==
  ASSUME IInv, \A r \in Runs : row'[r].slot = row[r].slot, starts' \subseteq starts,
         hour' \in Nat, hour <= hour', workflow'.nextRun \in {0, workflow.nextRun, hour + 1}
  PROVE  SlotInv'
<1>1. \A i \in Nat : Given(i) => Given(i)'
  BY GivenStays
<1>2. \A s \in starts : s.slot \in Nat
  BY TypeParts DEF IInv, ClockTypes
<1>3. \A r \in Runs : row[r].slot \in Nat
  BY TypeParts DEF IInv, RowTypes, IsRow
<1>4. \A r \in Runs : row'[r].slot # 0 => Given(row[r].slot)'
  <2> SUFFICES ASSUME NEW r \in Runs, row[r].slot # 0 PROVE Given(row[r].slot)'
    OBVIOUS
  <2>1. Given(row[r].slot)
    BY DEF IInv, SlotInv
  <2> DEFINE i == row[r].slot
  <2>2. i' = i /\ i \in Nat
    BY <1>3
  <2> QED
    BY <1>1, <2>1, <2>2 DEF Given
<1>5. \A s \in starts' : Given(s.slot)' /\ \A r \in Runs : row'[r].slot # s.slot
  <2> SUFFICES ASSUME NEW s \in starts PROVE Given(s.slot)'
    BY DEF IInv, SlotInv
  <2>1. Given(s.slot)
    BY DEF IInv, SlotInv
  <2> QED
    BY <1>1, <1>2, <2>1
<1>6. \A s, t \in starts' : s.slot = t.slot => s = t
  BY DEF IInv, SlotInv
<1>7. \A r, q \in Runs : row'[r].slot # 0 /\ row'[r].slot = row'[q].slot => r = q
  BY DEF IInv, SlotInv
<1> QED
  BY <1>4, <1>5, <1>6, <1>7 DEF SlotInv

(* The timer stays right when neither it nor the schedule changes.            *)
LEMMA ArmedStays ==
  ASSUME IInv, UNCHANGED <<phase, timer, dues>>,
         workflow'.nextRun = workflow.nextRun,
         workflow'.enabled => workflow.enabled /\ \A i \in 1..Current : i \in 1..Current' /\ Of(i)' = Of(i)
  PROVE  Armed'
BY DEF IInv, Armed, Up

(* What scheduleWorkflow sets.                                                *)
LEMMA ScheduleTypes ==
  ASSUME NEW d \in Nat, Schedule(d), workflow' \in Workflow, hour \in Nat
  PROVE  timer' \in Nat /\ dues' \in Nat
<1>1. workflow'.nextRun \in Nat
  BY DEF Workflow
<1> HIDE DEF Follows
<1> QED
  BY <1>1 DEF Schedule

(* A revision that is added leaves the others.                                *)
LEMMA Appended ==
  ASSUME NEW S, NEW s \in Seq(S), NEW d \in S
  PROVE  /\ Len(s) \in Nat /\ Len(Append(s, d)) = Len(s) + 1 /\ Append(s, d)[Len(s) + 1] = d
         /\ \A i \in 1..Len(s) : Append(s, d)[i] = s[i]
OBVIOUS

(* upsert, restoreRevision                                                    *)
LEMMA SaveStep ==
  ASSUME IInv, Edit, NEW d \in DOMAIN Library, Save(d)
  PROVE  IInv'
<1>1. WorkflowTypes /\ RowTypes /\ PlaceTypes /\ ClockTypes
  BY TypeParts DEF IInv
<1>2. /\ ValidGraph(Library[d]) /\ workflow' = [workflow EXCEPT !.revisions = Append(@, d), !.reviewed = FALSE]
      /\ UNCHANGED <<row, phase, execution, applying, schedule, clock, approved, called>>
      /\ left' \in [Budget -> Nat]
  BY <1>1 DEF Save, Edit, Spend, Budget, ClockTypes
<1> DEFINE revs == Append(workflow.revisions, d)
<1>3. /\ workflow' \in Workflow /\ workflow'.revisions = revs
      /\ workflow'.applied = workflow.applied /\ workflow'.enabled = workflow.enabled
      /\ workflow'.nextRun = workflow.nextRun /\ workflow'.running = workflow.running
      /\ workflow'.lastRun = workflow.lastRun
  <2>1. workflow' = [workflow EXCEPT !.revisions = revs, !.reviewed = FALSE]
    BY <1>2
  <2>2. workflow.revisions \in Seq(DOMAIN Library)
    BY <1>1 DEF WorkflowTypes, Workflow
  <2>3. revs \in Seq(DOMAIN Library)
    BY <2>2
  <2> HIDE DEF revs
  <2> QED
    BY <1>1, <2>1, <2>3 DEF WorkflowTypes, Workflow
<1>4. /\ Current \in Nat /\ Current' = Current + 1
      /\ \A i \in 1..Current : Of(i)' = Of(i)
      /\ Library[workflow'.revisions[Current + 1]] = Library[d]
  <2> DEFINE old == workflow.revisions
  <2>1. old \in Seq(DOMAIN Library)
    BY <1>1 DEF WorkflowTypes, Workflow
  <2>2. Len(old) \in Nat /\ Len(revs) = Len(old) + 1 /\ revs[Len(old) + 1] = d
        /\ \A i \in 1..Len(old) : revs[i] = old[i]
    BY <2>1, Appended
  <2> HIDE DEF revs
  <2> QED
    BY <1>3, <2>2 DEF Current, Of
<1> HIDE DEF revs
<1>5. WorkflowTypes'
  BY <1>1, <1>3, <1>4 DEF WorkflowTypes, Workflow
<1>6. ClockTypes'
  BY <1>1, <1>2 DEF ClockTypes, schedule, clock
<1>7. FiledInv'
  <2>1. \A i \in 1..Current' : ValidGraph(Of(i))'
    <3> SUFFICES ASSUME NEW i \in 1..Current' PROVE ValidGraph(Of(i))'
      OBVIOUS
    <3>1. CASE i \in 1..Current
      <4>1. Of(i)' = Of(i) /\ ValidGraph(Of(i))
        BY <1>4, <3>1 DEF IInv, FiledInv
      <4> QED
        BY <4>1
    <3>2. CASE i = Current + 1
      <4>1. Of(i)' = Library[d]
        BY <1>4, <3>2 DEF Of
      <4> QED
        BY <1>2, <4>1
    <3> QED
      BY <1>4, <3>1, <3>2
  <2>2. \A r \in Runs : GraphOf(r)' = GraphOf(r)
    BY <1>2 DEF GraphOf
  <2>3. Exists
    BY DEF Edit
  <2> QED
    BY <1>2, <1>3, <1>4, <2>1, <2>2, <2>3 DEF IInv, FiledInv, schedule
<1>8. SlotInv'
  BY <1>1, <1>2, <1>3, SlotsStay DEF clock, schedule, ClockTypes
<1>9. Armed'
  BY <1>2, <1>3, <1>4, ArmedStays DEF schedule
<1>10. /\ RowTypes' /\ PlaceTypes' /\ (\A r \in Runs : RunInv(r)')
       /\ AwayInv' /\ ShownIsLive'
  BY <1>2, <1>3, RunsStay
<1> QED
  BY <1>5, <1>6, <1>7, <1>8, <1>9, <1>10, TypeParts DEF IInv

(* reviewRevision                                                             *)
LEMMA ReviewStep ==
  ASSUME IInv, Review
  PROVE  IInv'
<1>1. WorkflowTypes /\ RowTypes /\ PlaceTypes /\ ClockTypes
  BY TypeParts DEF IInv
<1>2. /\ workflow' = [workflow EXCEPT !.reviewed = TRUE]
      /\ UNCHANGED <<row, phase, execution, applying, schedule, clock, approved, called>>
      /\ left' \in [Budget -> Nat]
  BY <1>1 DEF Review, Edit, Spend, Budget, ClockTypes
<1>3. WorkflowTypes' /\ workflow' = [workflow EXCEPT !.reviewed = workflow'.reviewed]
      /\ workflow'.lastRun = workflow.lastRun /\ workflow'.running = workflow.running
      /\ workflow'.revisions = workflow.revisions /\ workflow'.nextRun = workflow.nextRun
      /\ workflow'.enabled = workflow.enabled
  BY <1>1, <1>2 DEF WorkflowTypes, Workflow, Current
<1>4. ClockTypes'
  BY <1>1, <1>2 DEF ClockTypes, schedule, clock
<1>5. FiledInv'
  BY <1>2, <1>3, FiledStays DEF IInv, FiledInv, Exists, schedule
<1>6. SlotInv'
  BY <1>1, <1>2, <1>3, SlotsStay DEF clock, schedule, ClockTypes
<1>7. Armed'
  BY <1>2, <1>3, ArmedStays DEF schedule, Current, Of
<1>8. /\ RowTypes' /\ PlaceTypes' /\ (\A r \in Runs : RunInv(r)')
      /\ AwayInv' /\ ShownIsLive'
  BY <1>2, <1>3, RunsStay
<1> QED
  BY <1>3, <1>4, <1>5, <1>6, <1>7, <1>8, TypeParts DEF IInv

(* Steps that write nothing of the workflow and move no run.                  *)
LEMMA Aside ==
  ASSUME IInv, UNCHANGED <<workflow, row, phase, execution, approved, called>>, ClockTypes',
         starts' \subseteq starts, hour <= hour',
         UNCHANGED <<timer, dues>> \/ Armed'
  PROVE  IInv'
<1>1. WorkflowTypes' /\ hour' \in Nat
  BY TypeParts DEF IInv, WorkflowTypes, Current, ClockTypes
<1>2. FiledInv'
  BY FiledStays DEF IInv, FiledInv, Exists
<1>3. SlotInv'
  BY <1>1, SlotsStay
<1>4. Armed'
  BY ArmedStays DEF Current, Of
<1>5. /\ RowTypes' /\ PlaceTypes' /\ (\A r \in Runs : RunInv(r)')
      /\ AwayInv' /\ ShownIsLive'
  BY RunsStay
<1> QED
  BY <1>1, <1>2, <1>3, <1>4, <1>5, TypeParts DEF IInv

(* An application begins, or is turned down.                                  *)
LEMMA ApplyingStep ==
  ASSUME IInv, BeginApply \/ RejectApply
  PROVE  IInv'
<1>1. ClockTypes /\ Current \in Nat
  BY TypeParts DEF IInv, WorkflowTypes, Workflow, Current
<1>2. /\ UNCHANGED <<workflow, row, phase, execution, schedule, clock, approved, called>>
      /\ applying' \in Nat /\ left' \in [Budget -> Nat]
  BY <1>1 DEF BeginApply, RejectApply, Edit, Spend, Budget, ClockTypes
<1>3. ClockTypes' /\ hour <= hour'
  BY <1>1, <1>2 DEF ClockTypes, schedule, clock
<1> QED
  BY <1>2, <1>3, Aside DEF schedule

(* Time passes.                                                               *)
LEMMA TickStep ==
  ASSUME IInv, Tick
  PROVE  IInv'
<1>1. ClockTypes
  BY TypeParts DEF IInv
<1>2. ClockTypes' /\ hour <= hour'
  BY <1>1 DEF Tick, Spend, Budget, ClockTypes, schedule
<1> QED
  BY <1>2, Aside DEF Tick, schedule

(* The timer looks at the schedule.                                           *)
LEMMA TimerFiresStep ==
  ASSUME IInv, TimerFires
  PROVE  IInv'
<1>1. ClockTypes /\ WorkflowTypes
  BY TypeParts DEF IInv
<1>2. /\ UNCHANGED <<workflow, row, phase, execution, applying, starts, clock, left, approved, called>>
      /\ Schedule(dues)
  BY DEF TimerFires
<1>3. WorkflowTypes'
  BY <1>1, <1>2 DEF WorkflowTypes, Current
<1>4. ClockTypes' /\ hour <= hour'
  <2>1. timer' \in Nat /\ dues' \in Nat
    BY <1>1, <1>2, <1>3, ScheduleTypes DEF ClockTypes, WorkflowTypes
  <2> QED
    BY <1>1, <1>2, <2>1 DEF ClockTypes, clock
<1>5. Armed'
  BY <1>1, <1>2, <1>3, Rearmed DEF ClockTypes, clock
<1> QED
  BY <1>2, <1>4, <1>5, Aside

(* The instant was served, or the schedule is off: the timer stays right.     *)
LEMMA DueGoneStep ==
  ASSUME IInv, DueGone
  PROVE  IInv'
<1>1. ClockTypes /\ WorkflowTypes
  BY TypeParts DEF IInv
<1>2. /\ UNCHANGED <<workflow, row, phase, execution, applying, starts, clock, left, approved, called>>
      /\ dues - 1 \in Nat
      /\ IF Watched THEN Schedule(dues - 1) ELSE dues' = dues - 1 /\ timer' = timer
  BY <1>1 DEF DueGone, ClockTypes
<1>3. WorkflowTypes'
  BY <1>1, <1>2 DEF WorkflowTypes, Current
<1>4. timer' \in Nat /\ dues' \in Nat
  <2>1. CASE Watched
    BY <1>1, <1>2, <1>3, <2>1, ScheduleTypes DEF ClockTypes, WorkflowTypes
  <2>2. CASE ~Watched
    BY <1>1, <1>2, <2>2 DEF ClockTypes
  <2> QED
    BY <2>1, <2>2
<1>5. ClockTypes' /\ hour <= hour'
  BY <1>1, <1>2, <1>4 DEF ClockTypes, clock
<1>6. Armed'
  <2>1. CASE Watched
    BY <1>1, <1>2, <1>3, <2>1, Rearmed DEF ClockTypes, clock
  <2>2. CASE ~Watched
    <3> SUFFICES ASSUME Up, workflow.enabled, \A i \in 1..Current : Of(i).scheduled
                 PROVE  FALSE
      BY <1>2 DEF Armed, Up, Current, Of
    <3>1. workflow.applied \in 1..Current /\ workflow.nextRun # 0
      BY <1>1 DEF WorkflowTypes, Workflow, Current
    <3> QED
      BY <2>2, <3>1 DEF Watched
  <2> QED
    BY <2>1, <2>2
<1> QED
  BY <1>2, <1>5, <1>6, Aside

(* dispose has come to its end.                                               *)
LEMMA DisposedStep ==
  ASSUME IInv, Disposed
  PROVE  IInv'
<1>1. ClockTypes /\ WorkflowTypes
  BY TypeParts DEF IInv
<1>2. /\ UNCHANGED <<workflow, row, execution, applying, schedule, clock, left, approved, called>>
      /\ phase' \in {"down", "off"} /\ \A r \in Runs : at[r] = "none"
  BY DEF Disposed
<1>3. WorkflowTypes' /\ ClockTypes' /\ hour' \in Nat /\ hour <= hour'
  BY <1>1, <1>2 DEF WorkflowTypes, Current, ClockTypes, schedule, clock
<1>4. FiledInv'
  BY <1>2, FiledStays DEF IInv, FiledInv, Exists, schedule
<1>5. SlotInv'
  BY <1>2, <1>3, SlotsStay DEF schedule
<1>6. RowTypes' /\ PlaceTypes' /\ \A r \in Runs : RunInv(r)'
  BY <1>2, RunsStay
<1>7. AwayInv' /\ Armed' /\ ShownIsLive'
  BY <1>2 DEF AwayInv, Armed, ShownIsLive, Up, Active, execution
<1> QED
  BY <1>3, <1>4, <1>5, <1>6, <1>7, TypeParts DEF IInv

(* The revision is applied.                                                   *)
LEMMA FinishApplyStep ==
  ASSUME IInv, FinishApply
  PROVE  IInv'
<1>1. WorkflowTypes /\ ClockTypes
  BY TypeParts DEF IInv
<1>2. /\ workflow' = [workflow EXCEPT !.applied = applying]
      /\ applying # 0 /\ applying = Current /\ applying \in Nat /\ applying' = 0
      /\ UNCHANGED <<row, phase, execution, schedule, clock, left, approved, called>>
  BY <1>1 DEF FinishApply, StillReady, ClockTypes
<1>3. WorkflowTypes'
      /\ workflow'.lastRun = workflow.lastRun /\ workflow'.running = workflow.running
      /\ workflow'.revisions = workflow.revisions /\ workflow'.nextRun = workflow.nextRun
      /\ workflow'.enabled = workflow.enabled
  BY <1>1, <1>2 DEF WorkflowTypes, Workflow, Current
<1>4. ClockTypes'
  BY <1>1, <1>2 DEF ClockTypes, schedule, clock
<1>5. FiledInv'
  BY <1>2, <1>3, FiledStays DEF IInv, FiledInv, Exists, schedule
<1>6. SlotInv'
  BY <1>1, <1>2, <1>3, SlotsStay DEF clock, schedule, ClockTypes
<1>7. Armed'
  BY <1>2, <1>3, ArmedStays DEF schedule, Current, Of
<1>8. /\ RowTypes' /\ PlaceTypes' /\ (\A r \in Runs : RunInv(r)')
      /\ AwayInv' /\ ShownIsLive'
  BY <1>2, <1>3, RunsStay
<1> QED
  BY <1>3, <1>4, <1>5, <1>6, <1>7, <1>8, TypeParts DEF IInv

(* delete: its runs go on without it.                                         *)
LEMMA DeleteStep ==
  ASSUME IInv, Delete
  PROVE  IInv'
<1>1. WorkflowTypes /\ ClockTypes
  BY TypeParts DEF IInv
<1>2. /\ workflow' = [revisions |-> <<>>, reviewed |-> FALSE, applied |-> 0, enabled |-> FALSE,
                      nextRun |-> 0, running |-> FALSE, lastRun |-> 0]
      /\ timer' = 0 /\ left' \in [Budget -> Nat]
      /\ UNCHANGED <<row, phase, execution, applying, dues, starts, clock, approved, called>>
  BY <1>1 DEF Delete, Edit, Spend, Budget, ClockTypes
<1>3. WorkflowTypes'
  BY <1>2 DEF WorkflowTypes, Workflow, Current
<1>4. ClockTypes'
  BY <1>1, <1>2 DEF ClockTypes, clock
<1>5. FiledInv'
  BY <1>2, FiledStays
<1>6. SlotInv'
  BY <1>1, <1>2, SlotsStay DEF clock, ClockTypes
<1>7. Armed'
  BY <1>2 DEF Armed
<1>8. /\ RowTypes' /\ PlaceTypes' /\ (\A r \in Runs : RunInv(r)')
      /\ AwayInv' /\ ShownIsLive'
  BY <1>2, RunsStay
<1> QED
  BY <1>3, <1>4, <1>5, <1>6, <1>7, <1>8, TypeParts DEF IInv

(* setEnabled: the schedule counts from now.                                  *)
LEMMA SetEnabledStep ==
  ASSUME IInv, NEW b \in BOOLEAN, SetEnabled(b)
  PROVE  IInv'
<1>1. WorkflowTypes /\ ClockTypes
  BY TypeParts DEF IInv
<1>2. /\ workflow' = [workflow EXCEPT !.enabled = b, !.nextRun = IF b THEN hour + 1 ELSE 0]
      /\ (b => workflow.applied # 0) /\ left' \in [Budget -> Nat]
      /\ UNCHANGED <<row, phase, execution, applying, starts, clock, approved, called>>
      /\ Schedule(dues)
  BY <1>1 DEF SetEnabled, Spend, Budget, ClockTypes
<1> DEFINE next == IF b THEN hour + 1 ELSE 0
<1>3. /\ workflow' \in Workflow /\ workflow'.applied = workflow.applied /\ workflow'.enabled = b
      /\ workflow'.lastRun = workflow.lastRun /\ workflow'.running = workflow.running
      /\ workflow'.revisions = workflow.revisions /\ workflow'.nextRun = next
  <2>1. next \in Nat /\ workflow' = [workflow EXCEPT !.enabled = b, !.nextRun = next]
    BY <1>1, <1>2 DEF ClockTypes
  <2> HIDE DEF next
  <2> QED
    BY <1>1, <2>1 DEF WorkflowTypes, Workflow
<1>9. WorkflowTypes' /\ workflow'.nextRun \in {0, hour + 1}
  BY <1>1, <1>2, <1>3 DEF WorkflowTypes, Current, ClockTypes
<1> HIDE DEF next
<1>4. ClockTypes'
  <2>1. timer' \in Nat /\ dues' \in Nat
    BY <1>1, <1>2, <1>9, ScheduleTypes DEF ClockTypes, WorkflowTypes
  <2> QED
    BY <1>1, <1>2, <2>1 DEF ClockTypes, clock
<1>5. FiledInv'
  BY <1>2, <1>3, FiledStays DEF IInv, FiledInv, Exists
<1>6. SlotInv'
  BY <1>1, <1>2, <1>9, SlotsStay DEF clock, ClockTypes
<1>7. Armed'
  BY <1>1, <1>2, <1>9, Rearmed DEF ClockTypes, clock
<1>8. /\ RowTypes' /\ PlaceTypes' /\ (\A r \in Runs : RunInv(r)')
      /\ AwayInv' /\ ShownIsLive'
  BY <1>2, <1>3, RunsStay
<1> QED
  BY <1>4, <1>5, <1>6, <1>7, <1>8, <1>9, TypeParts DEF IInv

(* A schedule that is watched follows a revision the workflow has.            *)
LEMMA WatchedFacts ==
  ASSUME IInv, Watched
  PROVE  /\ Up /\ Exists /\ workflow.enabled /\ workflow.nextRun # 0 /\ workflow.nextRun \in Nat
         /\ workflow.applied \in 1..Current /\ hour + 1 \in Nat /\ hour \in Nat /\ hour + 1 # 0
<1>1. WorkflowTypes /\ ClockTypes
  BY TypeParts DEF IInv
<1>2. workflow.applied \in Nat /\ workflow.applied # 0 /\ workflow.applied <= Current /\ Current \in Nat
  BY <1>1 DEF WorkflowTypes, Workflow, Watched, Current
<1>3. Exists
  BY <1>1, <1>2 DEF Exists, Current
<1> QED
  BY <1>1, <1>2, <1>3 DEF Watched, WorkflowTypes, Workflow, ClockTypes

(* The instant goes from the schedule to a decided start, and comes no more.  *)
LEMMA DueRunStep ==
  ASSUME IInv, DueRun
  PROVE  IInv'
<1> DEFINE next == hour + 1
<1>0. PICK new : new = [revision |-> workflow.applied, slot |-> workflow.nextRun]
  OBVIOUS
<1>1. WorkflowTypes /\ ClockTypes /\ RowTypes
  BY TypeParts DEF IInv
<1>2. /\ workflow' = [workflow EXCEPT !.nextRun = next] /\ workflow.nextRun <= hour
      /\ starts' = starts \cup {new} /\ Watched /\ dues - 1 \in Nat
      /\ UNCHANGED <<row, phase, execution, applying, clock, left, approved, called>>
      /\ Schedule(dues - 1)
  BY <1>0, <1>1 DEF DueRun, Advance, ClockTypes
<1>3. /\ Exists /\ workflow.applied \in 1..Current /\ workflow.nextRun # 0 /\ workflow.nextRun \in Nat
      /\ next \in Nat /\ next # 0 /\ hour \in Nat
  BY <1>2, WatchedFacts
<1>4. /\ new.revision = workflow.applied /\ new.slot = workflow.nextRun
      /\ workflow.nextRun < next /\ hour < next
  BY <1>0, <1>2, <1>3
<1>5. /\ workflow' \in Workflow /\ workflow'.revisions = workflow.revisions
      /\ workflow'.applied = workflow.applied /\ workflow'.enabled = workflow.enabled
      /\ workflow'.nextRun = next /\ workflow'.running = workflow.running
      /\ workflow'.lastRun = workflow.lastRun
  <2> HIDE DEF next
  <2> QED
    BY <1>1, <1>2, <1>3 DEF WorkflowTypes, Workflow
<1>6. WorkflowTypes'
  BY <1>1, <1>3, <1>5 DEF WorkflowTypes, Current
<1>7. ClockTypes' /\ hour' = hour
  <2>1. timer' \in Nat /\ dues' \in Nat
    BY <1>1, <1>2, <1>5, ScheduleTypes DEF ClockTypes
  <2>2. workflow.applied \in Nat
    BY <1>3
  <2> QED
    BY <1>1, <1>2, <1>3, <1>4, <2>1, <2>2 DEF ClockTypes, clock
<1>8. FiledInv'
  BY <1>2, <1>3, <1>4, <1>5, FiledStays DEF IInv, FiledInv
<1>9. SlotInv'
  <2>1. \A i \in Nat : Given(i) => Given(i)'
    BY <1>5, <1>7, <1>3, GivenStays
  <2>2. \A i \in Nat : Given(i) => i < workflow.nextRun
    BY <1>3 DEF Given
  <2>3. Given(new.slot)'
    BY <1>2, <1>3, <1>4, <1>5, <1>7 DEF Given
  <2>4. \A r \in Runs : row[r].slot \in Nat /\ (row[r].slot # 0 => Given(row[r].slot))
    BY <1>1 DEF IInv, SlotInv, RowTypes, IsRow
  <2>5. \A s \in starts : s.slot \in Nat /\ Given(s.slot)
    BY <1>1 DEF IInv, SlotInv, ClockTypes
  <2>6. \A r \in Runs : row'[r].slot # 0 => Given(row[r].slot)'
    <3> SUFFICES ASSUME NEW r \in Runs, row[r].slot # 0 PROVE Given(row[r].slot)'
      BY <1>2
    <3> DEFINE i == row[r].slot
    <3>1. i' = i /\ i \in Nat /\ Given(i)
      BY <1>2, <2>4
    <3> QED
      BY <2>1, <3>1 DEF Given
  <2>7. \A r \in Runs : row'[r].slot = row[r].slot /\ row[r].slot # new.slot
    BY <1>2, <1>3, <1>4, <2>2, <2>4
  <2>8. \A s \in starts : s.slot # new.slot
    BY <1>3, <1>4, <2>2, <2>5
  <2>9. \A s \in starts' : Given(s.slot)' /\ \A r \in Runs : row'[r].slot # s.slot
    <3>1. \A s \in starts : Given(s.slot)'
      BY <2>1, <2>5
    <3>2. \A s \in starts : \A r \in Runs : row[r].slot # s.slot
      BY DEF IInv, SlotInv
    <3> QED
      BY <1>2, <2>3, <2>7, <3>1, <3>2
  <2>10. \A s, t \in starts' : s.slot = t.slot => s = t
    BY <1>2, <2>8 DEF IInv, SlotInv
  <2>11. \A r, q \in Runs : row'[r].slot # 0 /\ row'[r].slot = row'[q].slot => r = q
    BY <2>7 DEF IInv, SlotInv
  <2> QED
    BY <2>6, <2>9, <2>10, <2>11 DEF SlotInv
<1>10. Armed'
  BY <1>1, <1>2, <1>6, Rearmed DEF ClockTypes, clock
<1>11. /\ RowTypes' /\ PlaceTypes' /\ (\A r \in Runs : RunInv(r)')
       /\ AwayInv' /\ ShownIsLive'
  BY <1>2, <1>5, RunsStay
<1> QED
  BY <1>6, <1>7, <1>8, <1>9, <1>10, <1>11, TypeParts DEF IInv

(* An instant was missed, and a record says so.                               *)
LEMMA DueSkipStep ==
  ASSUME IInv, NEW r \in Runs, DueSkip(r)
  PROVE  IInv'
<1> DEFINE next == hour + 1
           i == workflow.applied
<1>1. WorkflowTypes /\ ClockTypes
  BY TypeParts DEF IInv
<1>2. /\ workflow' = [workflow EXCEPT !.lastRun = r, !.nextRun = next]
      /\ Watched /\ dues - 1 \in Nat /\ NextFree(r)
      /\ SetRow(r, Record("skipped", "scheduled", i, 0, 0))
      /\ UNCHANGED <<phase, execution, applying, starts, clock, left, approved, called>>
      /\ Schedule(dues - 1)
  BY <1>1 DEF DueSkip, Advance, ClockTypes, WorkflowTypes, Workflow
<1>3. Up /\ Exists /\ i \in 1..Current /\ next \in Nat /\ next # 0 /\ hour \in Nat
  BY <1>2, WatchedFacts
<1>4. /\ workflow' \in Workflow /\ workflow'.revisions = workflow.revisions
      /\ workflow'.applied = workflow.applied /\ workflow'.enabled = workflow.enabled
      /\ workflow'.nextRun = next /\ workflow'.running = workflow.running
      /\ workflow'.lastRun = r
  <2> HIDE DEF next
  <2> QED
    BY <1>1, <1>2, <1>3 DEF WorkflowTypes, Workflow
<1>5. WorkflowTypes'
  BY <1>1, <1>3, <1>4 DEF WorkflowTypes, Current
<1>6. ClockTypes' /\ hour' = hour
  <2>1. timer' \in Nat /\ dues' \in Nat
    BY <1>1, <1>2, <1>4, ScheduleTypes DEF ClockTypes
  <2> QED
    BY <1>1, <1>2, <2>1 DEF ClockTypes, clock
<1>7. /\ RowTypes' /\ PlaceTypes' /\ FiledInv' /\ (\A q \in Runs : RunInv(q)')
      /\ AwayInv' /\ ShownIsLive'
      /\ row'[r].slot = 0 /\ \A q \in Runs : q # r => row'[q] = row[q]
  <2>1. \A s \in starts' : s.revision \in 1..Current
    BY <1>2, <1>3 DEF IInv, FiledInv
  <2>2. at' = at /\ UNCHANGED <<phase, stage, canceled, approved, called>>
    BY <1>2 DEF execution
  <2> HIDE DEF i
  <2> QED
    BY <1>2, <1>3, <1>4, <2>1, <2>2, Made
<1>8. SlotInv'
  <2>1. \A j \in Nat : Given(j) => Given(j)'
    BY <1>3, <1>4, <1>6, GivenStays
  <2>2. \A s \in starts' : s.slot # 0
    BY <1>2 DEF IInv, SlotInv, Given
  <2> QED
    BY <1>2, <1>7, <2>1, <2>2, SlotMade
<1>9. Armed'
  BY <1>1, <1>2, <1>5, Rearmed DEF ClockTypes, clock
<1> QED
  BY <1>5, <1>6, <1>7, <1>8, <1>9, TypeParts DEF IInv

(* The instant goes from the decided start to a record, or is dropped.        *)
LEMMA StartDueStep ==
  ASSUME IInv, NEW r \in Runs, NEW s \in starts, StartDue(r, s)
  PROVE  IInv'
<1>1. ClockTypes /\ SlotInv
  BY TypeParts DEF IInv
<1>2. /\ starts' = starts \ {s}
      /\ UNCHANGED <<phase, stage, canceled, applying, timer, dues, clock, left, approved, called>>
      /\ s.slot \in Nat /\ s.revision \in Nat
  BY <1>1 DEF StartDue, ClockTypes
<1>3. CASE Up /\ Exists /\ workflow.enabled /\ workflow.applied # 0
  <2>1. NextFree(r) /\ Start(r, "scheduled", s.revision, s.slot, 0)
    BY <1>3 DEF StartDue
  <2>2. s.revision \in 1..Current
    BY <1>3 DEF IInv, FiledInv
  <2>3. s.slot # 0 => Given(s.slot) /\ \A q \in Runs : row[q].slot # s.slot
    BY <1>1 DEF SlotInv
  <2>4. \A t \in starts' : t.slot # s.slot
    BY <1>1, <1>2 DEF SlotInv
  <2>5. left' \in [Budget -> Nat]
    BY <1>1, <1>2 DEF ClockTypes
  <2> DEFINE i == s.revision  slot == s.slot
  <2>6. /\ i \in 1..Current /\ slot \in Nat /\ Start(r, "scheduled", i, slot, 0)
        /\ (slot # 0 => Given(slot) /\ \A q \in Runs : row[q].slot # slot)
        /\ \A t \in starts' : t.slot # slot
    BY <1>2, <2>1, <2>2, <2>3, <2>4
  <2> HIDE DEF i, slot
  <2> QED
    BY <1>2, <1>3, <2>1, <2>5, <2>6, Started
<1>4. CASE ~(Up /\ Exists /\ workflow.enabled /\ workflow.applied # 0)
  <2>1. UNCHANGED <<row, workflow, at>>
    BY <1>4 DEF StartDue
  <2>2. ClockTypes' /\ hour' = hour /\ hour \in Nat
    BY <1>1, <1>2 DEF ClockTypes, clock
  <2> QED
    BY <1>2, <2>1, <2>2, Aside DEF execution
<1> QED
  BY <1>3, <1>4

(* dispose: whatever goes on is told to stop.                                 *)
LEMMA DisposeStep ==
  ASSUME IInv, NEW to \in {"closing", "disabling"}, Dispose(to)
  PROVE  IInv'
<1>1. WorkflowTypes /\ RowTypes /\ PlaceTypes /\ ClockTypes
  BY TypeParts DEF IInv
<1> DEFINE R == {r \in Runs : Active(r)}
<1>2. /\ phase' = to /\ timer' = 0 /\ left' \in [Budget -> Nat] /\ CancelAll(R)
      /\ UNCHANGED <<workflow, row, at, applying, dues, starts, clock, approved, called>>
  BY <1>1 DEF Dispose, Spend, Budget, ClockTypes
<1>3. /\ canceled' = canceled \cup R /\ canceled' \subseteq Runs /\ stage' \in [Runs -> [Nodes -> Stage]]
      /\ \A r \in Runs : \A n \in Nodes :
           stage'[r][n] = IF r \in R /\ stage[r][n] = "asked" THEN "denied" ELSE stage[r][n]
  <2> HIDE DEF R
  <2>1. canceled' = canceled \cup R
    BY <1>2 DEF CancelAll
  <2>2. R \subseteq Runs
    BY DEF R
  <2> QED
    BY <1>1, <1>2, <2>1, <2>2 DEF CancelAll, PlaceTypes, Stage
<1>4. WorkflowTypes' /\ RowTypes' /\ PlaceTypes' /\ ClockTypes'
  BY <1>1, <1>2, <1>3 DEF WorkflowTypes, Current, RowTypes, PlaceTypes, ClockTypes, clock
<1>5. FiledInv'
  BY <1>2, FiledStays DEF IInv, FiledInv, Exists
<1>6. SlotInv'
  BY <1>1, <1>2, SlotsStay DEF clock, ClockTypes
<1>7. ASSUME NEW r \in Runs PROVE RunInv(r)'
  <2>1. CASE Active(r)
    <3>1. at[r] # "none" /\ r \in canceled'
          /\ \A n \in Nodes : stage'[r][n] = IF stage[r][n] = "asked" THEN "denied" ELSE stage[r][n]
      BY <1>3, <2>1 DEF Active
    <3> QED
      BY <1>2, <3>1, Told
  <2>2. CASE ~Active(r)
    <3>1. r \in canceled' <=> r \in canceled
      BY <1>3, <2>2
    <3>2. stage'[r] = stage[r]
      BY <1>1, <1>3, <2>2 DEF PlaceTypes
    <3> QED
      BY <1>2, <3>1, <3>2, Untouched DEF IInv
  <2> QED
    BY <2>1, <2>2
<1>8. AwayInv' /\ Armed' /\ ShownIsLive'
  BY <1>2, <1>3 DEF AwayInv, Armed, ShownIsLive, Up, Disposing, Active
<1> QED
  BY <1>4, <1>5, <1>6, <1>7, <1>8, TypeParts DEF IInv

(* A run that is nowhere, with what its record had to say of itself.          *)
LEMMA Gone ==
  ASSUME IInv, NEW r \in Runs, at'[r] = "none", \A n \in Nodes : stage'[r][n] = "none",
         UNCHANGED called,
         \/ row'[r] = row[r]
         \/ row[r].status # "none" /\ Edited(row[r], row'[r]) /\ row'[r].safe = row[r].safe /\ ~row[r].safe
  PROVE  RunInv(r)'
<1>1. RunInv(r)
  BY DEF IInv
<1>2. /\ row'[r].draft = row[r].draft /\ row'[r].only = row[r].only /\ row'[r].trigger = row[r].trigger
      /\ row'[r].safe = row[r].safe /\ (row'[r].status # "none" <=> row[r].status # "none")
      /\ row'[r].safe => row'[r] = row[r]
  BY DEF Edited
<1>3. GraphOf(r)' = GraphOf(r)
  BY <1>2 DEF GraphOf
<1>4. BlankInv(r)'
  BY <1>1, <1>2 DEF RunInv, BlankInv, Edited
<1>5. PlaceInv(r)'
  BY <1>1, <1>2, <1>3 DEF RunInv, PlaceInv, Loop, Work, Before
<1>6. StageInv(r)' /\ PermitInv(r)' /\ SettledInv(r)'
  BY <1>1 DEF StageInv, PermitInv, SettledInv
<1>7. CourseInv(r)'
  BY DEF CourseInv, Before, Loop
<1> QED
  BY <1>4, <1>5, <1>6, <1>7 DEF RunInv

(* The program dies: what is stored is what is left.                          *)
LEMMA DieStep ==
  ASSUME IInv, Die, WorkflowTypes', RowTypes', FiledInv',
         workflow'.nextRun = workflow.nextRun,
         \A r \in Runs : /\ row'[r].slot = row[r].slot
                         /\ \/ row'[r] = row[r]
                            \/ /\ row[r].status # "none" /\ Edited(row[r], row'[r])
                               /\ row'[r].safe = row[r].safe /\ ~row[r].safe
  PROVE  IInv'
<1>1. ClockTypes /\ PlaceTypes
  BY TypeParts DEF IInv
<1>2. /\ phase' \in {"off", "down"} /\ left' \in [Budget -> Nat]
      /\ at' = [r \in Runs |-> "none"] /\ stage' = [r \in Runs |-> [n \in Nodes |-> "none"]]
      /\ canceled' = {} /\ applying' = 0 /\ timer' = 0 /\ dues' = 0 /\ starts' = {}
      /\ UNCHANGED <<clock, approved, called>>
  BY <1>1 DEF Die, Spend, Budget, ClockTypes
<1>3. PlaceTypes' /\ ClockTypes'
  BY <1>1, <1>2 DEF PlaceTypes, ClockTypes, clock, Place, Stage
<1>4. SlotInv'
  BY <1>1, <1>2, SlotsStay DEF clock, ClockTypes
<1>5. \A r \in Runs : RunInv(r)'
  BY <1>2, Gone
<1>6. AwayInv' /\ Armed' /\ ShownIsLive'
  BY <1>2 DEF AwayInv, Armed, ShownIsLive, Up, Active
<1> QED
  BY <1>3, <1>4, <1>5, <1>6, TypeParts DEF IInv

(* ... between two steps                                                      *)
LEMMA CrashStep ==
  ASSUME IInv, Crash
  PROVE  IInv'
<1>1. WorkflowTypes /\ RowTypes
  BY TypeParts DEF IInv
<1>2. Die /\ UNCHANGED <<workflow, row>> /\ starts' = {}
  BY DEF Crash, Die
<1>3. WorkflowTypes' /\ RowTypes'
  BY <1>1, <1>2 DEF WorkflowTypes, Current, RowTypes
<1>4. FiledInv'
  BY <1>2, FiledStays DEF IInv, FiledInv, Exists
<1> QED
  BY <1>2, <1>3, <1>4, DieStep

(* ... between the two writes that end a run                                  *)
LEMMA TornStep ==
  ASSUME IInv, NEW r \in Runs, Torn(r)
  PROVE  IInv'
<1> DEFINE x == row[r]
           node == IF at[r] = "drain" THEN Drained(x.node) ELSE x.node
           y == [x EXCEPT !.node = node]
<1>1. WorkflowTypes /\ RowTypes /\ PlaceTypes
  BY TypeParts DEF IInv
<1>2. /\ Die /\ SetRow(r, y) /\ starts' = {}
      /\ workflow' = [workflow EXCEPT !.lastRun = 0, !.running = FALSE]
      /\ at[r] \in {"preflight", "drain", "step"}
  BY DEF Torn, Ending, Die
<1>3. Others(r) /\ row'[r] = y
  BY <1>1, <1>2, RowSet
<1>4. IsRow(x) /\ x.status # "none" /\ ~x.safe
  BY <1>1, <1>2 DEF RowTypes, PlaceTypes, IInv, RunInv, PlaceInv
<1>5. node \in [Library[x.draft].nodes -> NodeStatus]
  BY <1>4 DEF IsRow, Drained, NodeStatus, Finished
<1>6. Edited(x, row'[r]) /\ row'[r].safe = x.safe
  <2>1. row'[r] = [x EXCEPT !.node = node]
    BY <1>3
  <2> HIDE DEF x, node
  <2> QED
    BY <1>4, <1>5, <2>1 DEF IsRow, NoRow, Edited
<1> HIDE DEF y, node
<1>7. \A q \in Runs : /\ row'[q].draft = row[q].draft /\ row'[q].slot = row[q].slot
                      /\ row'[q].revision = row[q].revision
                      /\ row'[q].status # "none" <=> row[q].status # "none"
  BY <1>3, <1>4, <1>6 DEF Others, Edited
<1>8. RowTypes'
  BY <1>1, <1>3, <1>6 DEF RowTypes, Others, Edited
<1>9. /\ workflow' \in Workflow /\ workflow'.revisions = workflow.revisions
      /\ workflow'.applied = workflow.applied /\ workflow'.enabled = workflow.enabled
      /\ workflow'.nextRun = workflow.nextRun /\ workflow'.lastRun = 0
  BY <1>1, <1>2 DEF WorkflowTypes, Workflow
<1>10. WorkflowTypes'
  BY <1>1, <1>9 DEF WorkflowTypes, Current
<1>11. FiledInv'
  <2>1. Current' = Current /\ (Exists' <=> Exists) /\ \A i \in 1..Current : Of(i)' = Of(i)
    BY <1>9 DEF Current, Exists, Of
  <2>2. \A q \in Runs : GraphOf(q)' = GraphOf(q)
    BY <1>7 DEF GraphOf
  <2> QED
    BY <1>2, <1>7, <1>9, <2>1, <2>2 DEF IInv, FiledInv
<1>12. \A q \in Runs : \/ row'[q] = row[q]
                       \/ /\ row[q].status # "none" /\ Edited(row[q], row'[q])
                          /\ row'[q].safe = row[q].safe /\ ~row[q].safe
  BY <1>3, <1>4, <1>6 DEF Others
<1> QED
  BY <1>2, <1>7, <1>8, <1>9, <1>10, <1>11, <1>12, DieStep

(* initialize: the run that was shown as going on has failed.                 *)
LEMMA InitializeStep ==
  ASSUME IInv, Initialize
  PROVE  IInv'
<1> DEFINE R == Interrupted(workflow)
<1>0. PICK next : next = IF phase = "off" /\ workflow.enabled /\ Of(workflow.applied).scheduled
                         THEN hour + 1 ELSE workflow.nextRun
  OBVIOUS
<1>1. WorkflowTypes /\ RowTypes /\ PlaceTypes /\ ClockTypes
  BY TypeParts DEF IInv
<1>2. /\ phase' = "up" /\ phase \in {"down", "off"} /\ Schedule(0)
      /\ row' = [r \in Runs |-> IF r \notin R THEN row[r]
                                ELSE [row[r] EXCEPT !.status = "failed", !.node = Drained(@)]]
      /\ workflow' = [workflow EXCEPT !.running = FALSE, !.nextRun = next]
      /\ UNCHANGED <<execution, applying, starts, clock, left, approved, called>>
  BY <1>0 DEF Initialize
<1>3. \A r \in R : r \in Runs /\ r = workflow.lastRun /\ row[r].status \notin RunEnded \cup {"none"}
  BY <1>1 DEF Interrupted, WorkflowTypes, Workflow, IInv, FiledInv
<1>4. workflow.lastRun # 0 /\ row[workflow.lastRun].status \notin RunEnded => workflow.lastRun \in R
  BY DEF Interrupted
<1> HIDE DEF R
<1>5. next \in Nat /\ next \in {workflow.nextRun, hour + 1} /\ (workflow.enabled => next # 0) /\ hour \in Nat
  BY <1>0, <1>1 DEF WorkflowTypes, Workflow, ClockTypes
<1>6. /\ workflow' \in Workflow /\ workflow'.revisions = workflow.revisions
      /\ workflow'.applied = workflow.applied /\ workflow'.enabled = workflow.enabled
      /\ workflow'.nextRun = next /\ ~workflow'.running
      /\ workflow'.lastRun = workflow.lastRun
  BY <1>1, <1>2, <1>5 DEF WorkflowTypes, Workflow
<1>7. WorkflowTypes'
  BY <1>1, <1>5, <1>6 DEF WorkflowTypes, Current
<1>8. ClockTypes' /\ hour' = hour
  <2>1. timer' \in Nat /\ dues' \in Nat
    BY <1>2, <1>5, <1>6, ScheduleTypes
  <2> QED
    BY <1>1, <1>2, <2>1 DEF ClockTypes, clock
<1>9. \A r \in Runs : at[r] = "none" /\ \A n \in Nodes : stage[r][n] = "none"
  <2>1. \A r \in Runs : at[r] = "none"
    BY <1>2 DEF IInv, AwayInv, Up, Disposing
  <2> QED
    BY <2>1 DEF IInv, RunInv, PlaceInv, Work, Loop
<1>10. \A r \in Runs : r \notin R => row'[r] = row[r]
  BY <1>2
<1>11. \A r \in R : /\ Edited(row[r], row'[r]) /\ row'[r].status = "failed"
                    /\ row'[r].safe = row[r].safe /\ ~row[r].safe
  <2> SUFFICES ASSUME NEW r \in R
               PROVE  /\ Edited(row[r], row'[r]) /\ row'[r].status = "failed"
                      /\ row'[r].safe = row[r].safe /\ ~row[r].safe
    OBVIOUS
  <2>1. r \in Runs /\ row[r].status # "none" /\ IsRow(row[r]) /\ row[r].status # "failed"
    BY <1>1, <1>3 DEF RowTypes, RunEnded
  <2>2. ~row[r].safe
    BY <2>1 DEF IInv, RunInv, PlaceInv
  <2>3. row'[r] = [row[r] EXCEPT !.status = "failed", !.node = Drained(@)]
    BY <1>2, <2>1
  <2> DEFINE x == row[r]  y == row'[r]  node == Drained(x.node)
  <2>4. x.node \in [Library[x.draft].nodes -> NodeStatus] /\ x.draft \in DOMAIN Library
    BY <2>1 DEF IsRow
  <2>5. node \in [Library[x.draft].nodes -> NodeStatus]
    BY <2>4 DEF Drained, NodeStatus, Finished
  <2>6. y = [x EXCEPT !.status = "failed", !.node = node] /\ IsRow(x) /\ x.status # "none"
    BY <2>1, <2>3
  <2> HIDE DEF x, y, node
  <2>7. Edited(x, y) /\ y.status = "failed" /\ y.safe = x.safe
    BY <2>4, <2>5, <2>6 DEF IsRow, NoRow, Edited, RunStatus, RunEnded
  <2> QED
    BY <2>2, <2>7 DEF x, y
<1>12. \A r \in Runs : /\ row'[r].draft = row[r].draft /\ row'[r].slot = row[r].slot
                       /\ row'[r].revision = row[r].revision
                       /\ row'[r].status # "none" <=> row[r].status # "none"
  BY <1>3, <1>10, <1>11 DEF Edited
<1>13. RowTypes'
  BY <1>1, <1>2, <1>10, <1>11 DEF RowTypes, Edited
<1>14. PlaceTypes'
  BY <1>1, <1>2, <1>12 DEF PlaceTypes, execution
<1>15. FiledInv'
  <2>1. Current' = Current /\ (Exists' <=> Exists) /\ \A i \in 1..Current : Of(i)' = Of(i)
    BY <1>6 DEF Current, Exists, Of
  <2>2. \A r \in Runs : GraphOf(r)' = GraphOf(r)
    BY <1>12 DEF GraphOf
  <2>3. workflow'.lastRun # 0 => row'[workflow'.lastRun].status # "none"
    BY <1>1, <1>6, <1>12 DEF IInv, FiledInv, WorkflowTypes, Workflow
  <2> QED
    BY <1>2, <1>12, <2>1, <2>2, <2>3 DEF IInv, FiledInv
<1>16. SlotInv'
  <2>1. starts' \subseteq starts
    BY DEF Initialize
  <2>2. hour' \in Nat /\ hour <= hour'
    BY <1>5, <1>8
  <2>3. workflow'.nextRun \in {0, workflow.nextRun, hour + 1}
    BY <1>5, <1>6
  <2> QED
    BY <1>12, <2>1, <2>2, <2>3, SlotsStay
<1>17. \A r \in Runs : RunInv(r)'
  BY <1>2, <1>3, <1>9, <1>10, <1>11, Gone DEF execution
<1>18. AwayInv'
  BY <1>2 DEF AwayInv, Up
<1>19. Armed'
  BY <1>2, <1>7, <1>8, <1>5, Rearmed
<1>20. ShownIsLive'
  <2>1. workflow.lastRun # 0 => workflow.lastRun \in Runs
    BY <1>1 DEF WorkflowTypes, Workflow
  <2>2. workflow.lastRun # 0 => row'[workflow.lastRun].status \in RunEnded
    BY <1>4, <1>10, <1>11, <2>1 DEF RunEnded
  <2> QED
    BY <1>6, <2>2 DEF ShownIsLive
<1> QED
  BY <1>7, <1>8, <1>13, <1>14, <1>15, <1>16, <1>17, <1>18, <1>19, <1>20, TypeParts DEF IInv

(* upsert of a definition, or of one the workflow has had.                    *)
LEMMA EditStep ==
  ASSUME IInv, (\E d \in Drafts : Upsert(d)) \/ (\E i \in 1..Current : RestoreRevision(i))
  PROVE  IInv'
<1>1. \A i \in 1..Current : workflow.revisions[i] \in DOMAIN Library
  BY TypeParts DEF IInv, WorkflowTypes, Workflow, Current
<1>2. Drafts \subseteq DOMAIN Library
  BY WorkflowAssumption
<1> QED
  BY <1>1, <1>2, SaveStep DEF Upsert, RestoreRevision

-----------------------------------------------------------------------------
(***************************************************************************)
(* The invariant.                                                          *)
(***************************************************************************)

(* The states to begin in.                                                    *)
LEMMA InitIInv ==
  ASSUME Init
  PROVE  IInv
<1>1. PICK s \in Starts :
        /\ workflow = [revisions |-> <<s.saved>>, reviewed |-> s.applied,
                       applied |-> IF s.applied THEN 1 ELSE 0,
                       enabled |-> FALSE, nextRun |-> 0, running |-> FALSE, lastRun |-> 0]
        /\ left = s.left
        /\ row = [r \in Runs |-> NoRow] /\ phase = "up"
        /\ at = [r \in Runs |-> "none"] /\ stage = [r \in Runs |-> [n \in Nodes |-> "none"]]
        /\ canceled = {} /\ applying = 0 /\ timer = 0 /\ dues = 0 /\ starts = {}
        /\ hour = 0 /\ late = TRUE /\ approved = {} /\ called = {}
  BY DEF Init
<1>2. /\ s.saved \in DOMAIN Library /\ ValidGraph(Library[s.saved])
      /\ s.applied \in BOOLEAN /\ s.left \in [Budget -> Nat]
  BY WorkflowAssumption
<1>3. Current = 1 /\ workflow.revisions = <<s.saved>> /\ Exists
  BY <1>1 DEF Current, Exists
<1>4. WorkflowTypes
  <2> DEFINE revs == <<s.saved>>  applied == IF s.applied THEN 1 ELSE 0
  <2>1. /\ revs \in Seq(DOMAIN Library) /\ applied \in Nat /\ applied <= 1
        /\ workflow = [revisions |-> revs, reviewed |-> s.applied, applied |-> applied,
                       enabled |-> FALSE, nextRun |-> 0, running |-> FALSE, lastRun |-> 0]
    BY <1>1, <1>2
  <2> HIDE DEF revs, applied
  <2> QED
    BY <1>2, <1>3, <2>1 DEF WorkflowTypes, Workflow
<1>5. RowTypes /\ PlaceTypes
  BY <1>1 DEF RowTypes, IsRow, NoRow, RunStatus, PlaceTypes, Place, Stage
<1>6. ClockTypes
  BY <1>1, <1>2 DEF ClockTypes
<1>7. FiledInv
  <2>1. \A i \in 1..Current : ValidGraph(Of(i))
    <3>1. Of(1) = Library[s.saved]
      BY <1>3 DEF Of
    <3> QED
      BY <1>2, <1>3, <3>1
  <2>2. (\A r \in Runs : row[r].status = "none") /\ starts = {} /\ workflow.lastRun = 0
    BY <1>1 DEF NoRow
  <2> QED
    BY <2>1, <2>2 DEF FiledInv
<1>8. SlotInv
  BY <1>1 DEF SlotInv, NoRow
<1>9. ASSUME NEW r \in Runs PROVE RunInv(r)
  <2>1. row[r] = NoRow /\ at[r] = "none" /\ (\A n \in Nodes : stage[r][n] = "none") /\ called = {}
    BY <1>1
  <2>2. BlankInv(r) /\ PlaceInv(r)
    <3>1. row[r].status = "none" /\ row[r].only = 0 /\ ~row[r].safe
      <4>1. NoRow.status = "none" /\ NoRow.only = 0 /\ NoRow.safe = FALSE
        BY DEF NoRow
      <4> QED
        BY <2>1, <4>1
    <3>2. BlankInv(r)
      BY <2>1 DEF BlankInv
    <3>3. PlaceInv(r)
      BY <2>1, <3>1 DEF PlaceInv, Loop, Work, Before
    <3> QED
      BY <3>2, <3>3
  <2>3. StageInv(r) /\ PermitInv(r) /\ CourseInv(r) /\ SettledInv(r)
    BY <2>1 DEF StageInv, PermitInv, CourseInv, SettledInv, Loop, Before
  <2> QED
    BY <2>2, <2>3 DEF RunInv
<1>10. AwayInv /\ Armed /\ ShownIsLive
  BY <1>1 DEF AwayInv, Armed, ShownIsLive, Up
<1> QED
  BY <1>4, <1>5, <1>6, <1>7, <1>8, <1>9, <1>10, TypeParts DEF IInv

(* Nothing happens.                                                           *)
LEMMA StutterStep ==
  ASSUME IInv, UNCHANGED vars
  PROVE  IInv'
<1>1. UNCHANGED <<workflow, row, phase, execution, approved, called>> /\ UNCHANGED <<timer, dues>>
      /\ UNCHANGED starts /\ UNCHANGED <<applying, clock, left>>
  BY DEF vars, schedule
<1>2. ClockTypes /\ hour \in Nat
  BY TypeParts DEF IInv, ClockTypes
<1>3. ClockTypes' /\ hour <= hour'
  BY <1>1, <1>2 DEF ClockTypes, clock
<1> QED
  BY <1>1, <1>3, Aside

(* Every step of the manager, of its runs and of the person keeps it.         *)
LEMMA NextStep ==
  ASSUME IInv, [Next]_vars
  PROVE  IInv'
<1>1. ASSUME Person PROVE IInv'
  <2>1. ASSUME (\E d \in Drafts : Upsert(d)) \/ (\E i \in 1..Current : RestoreRevision(i)) PROVE IInv'
    BY <2>1, EditStep
  <2>2. ASSUME Review PROVE IInv'
    BY <2>2, ReviewStep
  <2>3. ASSUME BeginApply PROVE IInv'
    BY <2>3, ApplyingStep
  <2>4. ASSUME Delete PROVE IInv'
    BY <2>4, DeleteStep
  <2>5. ASSUME NEW b \in BOOLEAN, SetEnabled(b) PROVE IInv'
    BY <2>5, SetEnabledStep
  <2>6. ASSUME NEW r \in Runs, RunNow(r) PROVE IInv'
    BY <2>6, RunNowStep
  <2>7. ASSUME NEW r \in Runs, NEW n \in Nodes, RunNode(r, n) PROVE IInv'
    BY <2>7, RunNodeStep
  <2>8. ASSUME NEW r \in Runs, NEW p \in Runs, RetryRun(r, p) PROVE IInv'
    BY <2>8, RetryRunStep
  <2>9. ASSUME NEW r \in Runs, CancelRun(r) PROVE IInv'
    BY <2>9, CancelRunStep
  <2>10. ASSUME NEW r \in Runs, NEW n \in Nodes, NEW yes \in BOOLEAN, Approve(r, n, yes) PROVE IInv'
    BY <2>10, ApproveStep
  <2> QED
    BY <1>1, <2>1, <2>2, <2>3, <2>4, <2>5, <2>6, <2>7, <2>8, <2>9, <2>10 DEF Person
<1>2. ASSUME NEW r \in Runs, RunStep(r) PROVE IInv'
  BY <1>2, LaunchStep, PreflightPassesStep, PreflightFailsStep, StopStep, SkipNodeStep, StartNodesStep,
     FinishRun, FinishStepRun, LeaveStep DEF RunStep
<1>3. ASSUME NEW r \in Runs, NEW n \in Nodes, NodeStep(r, n) PROVE IInv'
  BY <1>3, AnswerStep, ExecuteStep, ReturnStep, CloseStep DEF NodeStep
<1>4. ASSUME Manager PROVE IInv'
  BY <1>4, FinishApplyStep, ApplyingStep, TimerFiresStep, DueGoneStep, DueRunStep, DueSkipStep,
     StartDueStep, DisposedStep DEF Manager
<1>5. ASSUME Tick PROVE IInv'
  BY <1>5, TickStep
<1>6. ASSUME NEW to \in {"closing", "disabling"}, Dispose(to) PROVE IInv'
  BY <1>6, DisposeStep
<1>7. ASSUME Crash PROVE IInv'
  BY <1>7, CrashStep
<1>8. ASSUME NEW r \in Runs, Torn(r) PROVE IInv'
  BY <1>8, TornStep
<1>9. ASSUME Initialize PROVE IInv'
  BY <1>9, InitializeStep
<1>10. ASSUME UNCHANGED vars PROVE IInv'
  BY <1>10, StutterStep
<1> QED
  BY <1>1, <1>2, <1>3, <1>4, <1>5, <1>6, <1>7, <1>8, <1>9, <1>10 DEF Next

(* The inductive invariant: every reachable state of the manager, the stored  *)
(* workflow and its runs, for every definition and every budget.              *)
THEOREM WorkflowInvariance == Spec => []IInv
<1>1. Init => IInv
  BY InitIInv
<1>2. IInv /\ [Next]_vars => IInv'
  BY NextStep
<1> QED
  BY <1>1, <1>2, PTL DEF Spec

(* Types of the manager's state and of what it stores.                        *)
THEOREM WorkflowRunsTypes == Spec => []TypeOK
<1>1. IInv => TypeOK
  BY DEF IInv
<1> QED
  BY <1>1, WorkflowInvariance, PTL

(* A node executes when all the nodes it comes after have ended: CourseInv    *)
(* says so of every run of the loop (resolveNodeReadiness).                   *)
THEOREM SourcesComeFirst == Spec => []SourcesFirst
<1>1. IInv => SourcesFirst
  <2> SUFFICES ASSUME IInv, NEW r \in Runs, row[r].only = 0, Active(r), NEW n \in Executing(r)
               PROVE  SourcesFinished(GraphOf(r), n, row[r].node)
    BY DEF SourcesFirst
  <2>1. n \in Nodes /\ stage[r][n] # "none" /\ at[r] # "none"
    BY DEF Executing, Active
  <2>2. at[r] \in Loop
    BY <2>1, Live DEF PlaceInv, Work
  <2>3. n \in GraphOf(r).nodes
    BY <2>1, Live DEF StageInv
  <2> QED
    BY <2>1, <2>2, <2>3, Live DEF CourseInv
<1> QED
  BY <1>1, WorkflowInvariance, PTL

(* Settled says SettledInv of every run.                                      *)
LEMMA SettledParts == Settled <=> \A r \in Runs : SettledInv(r)
BY DEF Settled, SettledInv, WellEnded

(* A run that was not stopped leaves nothing behind: a graph that could be    *)
(* sorted never leaves nodes that are neither ready nor skippable while        *)
(* nothing executes (topologicalOrder, executeRun, terminalOutcome).           *)
THEOREM RunsEndSettled == Spec => []Settled
<1>1. IInv => Settled
  BY SettledParts DEF IInv, RunInv
<1> QED
  BY <1>1, WorkflowInvariance, PTL

(* A run that may be retried has called nothing (retryRun).                   *)
THEOREM RetriesCallOnce == Spec => []RetriesAreSafe
<1>1. IInv => RetriesAreSafe
  BY DEF IInv, RunInv, PlaceInv, RetriesAreSafe
<1> QED
  BY <1>1, WorkflowInvariance, PTL

(* A scheduled instant starts one run at most: until it is in a record it is  *)
(* with one decided start, and what is due next comes after it                 *)
(* (handleDueScheduledRun, advanceScheduleUnlocked).                           *)
THEOREM SlotsStartOnce == Spec => []SlotOnce
<1>1. IInv => SlotOnce
  BY DEF IInv, SlotInv, SlotOnce
<1> QED
  BY <1>1, WorkflowInvariance, PTL

(* No operation forgets the schedule of an enabled workflow (scheduleWorkflow). *)
THEOREM ScheduleStaysArmed == Spec => []Armed
<1>1. IInv => Armed
  BY DEF IInv
<1> QED
  BY <1>1, WorkflowInvariance, PTL

(* What the workflow shows as running runs, after a restart too               *)
(* (persistRunUnlocked, failInterruptedRuns).                                  *)
THEOREM ShownRunsLive == Spec => []ShownIsLive
<1>1. IInv => ShownIsLive
  BY DEF IInv
<1> QED
  BY <1>1, WorkflowInvariance, PTL

-----------------------------------------------------------------------------
(***************************************************************************)
(* What a step may never do.                                               *)
(***************************************************************************)

(* Only executeNode, once a node has begun, calls.                            *)
LEMMA OnlyExecuteCalls ==
  ASSUME [Next]_vars
  PROVE  called' = called \/ \E r \in Runs, n \in Nodes : Execute(r, n)
<1>1. ASSUME Person PROVE called' = called
  BY <1>1 DEF Person, Upsert, RestoreRevision, Save, Review, BeginApply, Delete, SetEnabled, RunNow, RunNode,
     RetryRun, Demand, CancelRun, Approve
<1>2. ASSUME NEW r \in Runs, RunStep(r) PROVE called' = called
  BY <1>2 DEF RunStep, Launch, PreflightPasses, PreflightFails, Stop, SkipNode, StartNodes, Finish,
     FinishStep, Leave
<1>3. ASSUME NEW r \in Runs, NEW n \in Nodes, NodeStep(r, n) PROVE called' = called \/ Execute(r, n)
  BY <1>3 DEF NodeStep, Answer, Return, Close
<1>4. ASSUME Manager PROVE called' = called
  BY <1>4 DEF Manager, FinishApply, RejectApply, TimerFires, DueGone, DueRun, DueSkip, StartDue, Disposed
<1>5. ASSUME \/ Tick \/ Crash \/ Initialize \/ \E r \in Runs : Torn(r)
             \/ \E to \in {"closing", "disabling"} : Dispose(to)
             \/ UNCHANGED vars
      PROVE  called' = called
  BY <1>5 DEF Tick, Dispose, Crash, Torn, Die, Initialize, vars
<1> QED
  BY <1>1, <1>2, <1>3, <1>4, <1>5 DEF Next

(* An action or a tool is called while the manager is up and the run is not   *)
(* cancelled, and after the person approved it if it asks (executeNode,        *)
(* requiresApproval, cancelActiveRun, dispose).                                *)
THEOREM CallsNeedApproval == Spec => CallsApproved
<1> DEFINE Good == \A c \in called' \ called :
                     LET g == GraphOf(c[1])
                     IN /\ Up /\ c[1] \notin canceled
                        /\ g.kind[c[2]] = "action" \/ (c[2] \in g.asks /\ row[c[1]].trigger # "step")
                           => c \in approved
<1>1. IInv /\ [Next]_vars => Good
  <2> SUFFICES ASSUME IInv, [Next]_vars, NEW c \in called' \ called
               PROVE  /\ Up /\ c[1] \notin canceled
                      /\ \/ GraphOf(c[1]).kind[c[2]] = "action"
                         \/ c[2] \in GraphOf(c[1]).asks /\ row[c[1]].trigger # "step"
                         => c \in approved
    OBVIOUS
  <2>1. PICK r \in Runs, n \in Nodes : Execute(r, n)
    BY OnlyExecuteCalls
  <2>2. c = <<r, n>> /\ r \notin canceled /\ stage[r][n] = "begun"
    BY <2>1 DEF Execute, StopsBefore
  <2>3. at[r] # "none" /\ Active(r)
    BY <2>2, AtWork
  <2>4. Up
    BY <2>2, <2>3 DEF IInv, AwayInv
  <2>5. Asks(r, n) => <<r, n>> \in approved
    BY <2>2, <2>3, Live DEF PermitInv
  <2>6. row[r].trigger # "step" => row[r].only = 0
    BY <2>3, Live DEF PlaceInv
  <2> QED
    BY <2>2, <2>4, <2>5, <2>6 DEF Asks
<1>2. IInv /\ [Next]_vars => [Good]_vars
  BY <1>1
<1> QED
  BY <1>2, WorkflowInvariance, PTL DEF Spec, CallsApproved

(* Only a finished application changes what is applied, but for deleting.     *)
LEMMA OnlyFinishApplies ==
  ASSUME IInv, [Next]_vars, workflow'.applied \notin {0, workflow.applied}
  PROVE  FinishApply
<1> USE DEF ShowRun, EndRun, Sync, Start
<1>1. workflow \in Workflow
  BY TypeParts DEF IInv, WorkflowTypes
<1>2. ASSUME Person PROVE workflow'.applied \in {0, workflow.applied}
  <2>1. ASSUME (\E d \in Drafts : Upsert(d)) \/ (\E i \in 1..Current : RestoreRevision(i))
        PROVE  workflow'.applied = workflow.applied
    BY <1>1, <2>1 DEF Upsert, RestoreRevision, Save, Workflow
  <2>2. ASSUME Review \/ BeginApply PROVE workflow'.applied = workflow.applied
    BY <1>1, <2>2 DEF Review, BeginApply, Workflow
  <2>5. ASSUME Delete PROVE workflow'.applied = 0
    BY <2>5 DEF Delete
  <2>6. ASSUME NEW b \in BOOLEAN, SetEnabled(b) PROVE workflow'.applied = workflow.applied
    <3>1. \E next : workflow' = [workflow EXCEPT !.enabled = b, !.nextRun = next]
      BY <2>6 DEF SetEnabled
    <3> QED
      BY <1>1, <3>1 DEF Workflow
  <2>3. ASSUME \/ \E r \in Runs : RunNow(r)
               \/ \E r \in Runs, n \in Nodes : RunNode(r, n)
               \/ \E r, p \in Runs : RetryRun(r, p)
        PROVE  workflow'.applied = workflow.applied
    BY <1>1, <2>3 DEF RunNow, RunNode, RetryRun, Workflow
  <2>4. ASSUME \/ \E r \in Runs : CancelRun(r)
               \/ \E r \in Runs, n \in Nodes, yes \in BOOLEAN : Approve(r, n, yes)
        PROVE  workflow'.applied = workflow.applied
    BY <2>4 DEF CancelRun, Approve
  <2> QED
    BY <1>2, <2>1, <2>2, <2>3, <2>4, <2>5, <2>6 DEF Person
<1>3. ASSUME NEW r \in Runs, RunStep(r) PROVE workflow'.applied = workflow.applied
  BY <1>1, <1>3 DEF RunStep, Launch, PreflightPasses, PreflightFails, Stop, SkipNode, StartNodes, BeginNodes,
     Finish, FinishStep, Leave, Workflow
<1>4. ASSUME NEW r \in Runs, NEW n \in Nodes, NodeStep(r, n) PROVE workflow'.applied = workflow.applied
  BY <1>1, <1>4 DEF NodeStep, Answer, Answered, Execute, Return, Close, Settle, Workflow
<1>5. ASSUME Manager PROVE workflow'.applied = workflow.applied \/ FinishApply
  <2>1. ASSUME RejectApply \/ TimerFires \/ DueGone \/ Disposed PROVE workflow'.applied = workflow.applied
    BY <2>1 DEF RejectApply, TimerFires, DueGone, Disposed
  <2>2. ASSUME DueRun \/ \E r \in Runs : DueSkip(r) PROVE workflow'.applied = workflow.applied
    BY <1>1, <2>2 DEF DueRun, DueSkip, Advance, Workflow
  <2>3. ASSUME NEW r \in Runs, NEW s \in starts, StartDue(r, s) PROVE workflow'.applied = workflow.applied
    BY <1>1, <2>3 DEF StartDue, Workflow
  <2> QED
    BY <1>5, <2>1, <2>2, <2>3 DEF Manager
<1>6. ASSUME \/ Tick \/ Crash
             \/ \E to \in {"closing", "disabling"} : Dispose(to)
             \/ UNCHANGED vars
      PROVE  workflow'.applied = workflow.applied
  BY <1>6 DEF Tick, Dispose, Crash, vars
<1>7. ASSUME Initialize \/ \E r \in Runs : Torn(r) PROVE workflow'.applied = workflow.applied
  BY <1>1, <1>7 DEF Initialize, Torn, Workflow
<1> QED
  BY <1>2, <1>3, <1>4, <1>5, <1>6, <1>7 DEF Next

(* What is applied is the draft as it is now, reviewed since it was saved     *)
(* (applyRevision, after the apps were looked at).                             *)
THEOREM OnlyReviewedIsApplied == Spec => AppliesReviewed
<1> DEFINE Good == workflow'.applied \notin {0, workflow.applied}
                   => workflow'.applied = Current /\ workflow.reviewed
<1>1. IInv /\ [Next]_vars => Good
  <2> SUFFICES ASSUME IInv, [Next]_vars, workflow'.applied \notin {0, workflow.applied}
               PROVE  workflow'.applied = Current /\ workflow.reviewed
    OBVIOUS
  <2>1. workflow \in Workflow
    BY TypeParts DEF IInv, WorkflowTypes
  <2>2. FinishApply
    BY OnlyFinishApplies
  <2> QED
    BY <2>1, <2>2 DEF FinishApply, StillReady, Workflow
<1>2. IInv /\ [Next]_vars => [Good]_vars
  BY <1>1
<1> QED
  BY <1>2, WorkflowInvariance, PTL DEF Spec, AppliesReviewed

=============================================================================
