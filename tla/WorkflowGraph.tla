---------------------------- MODULE WorkflowGraph ----------------------------
(***************************************************************************)
(* src/main/workflow/engine.ts: which nodes of a workflow may start, which *)
(* never will, and how a run ends.                                         *)
(*                                                                         *)
(* A definition is a record                                                *)
(*   nodes: 1..n, in the order of the list     kind: node |-> NodeKind     *)
(*   edges: set of [from, to, when]            asks: nodes that ask first  *)
(*   scheduled: it has a schedule              missed: MissedRunPolicy     *)
(* and the progress of a run is a function from its nodes to their status. *)
(***************************************************************************)
EXTENDS Naturals, FiniteSets

(* "tool" stands for forger_tool, connection, llm_agent and forger_agent. *)
NodeKind == {"condition", "action", "tool"}
When == {"success", "error", "always"}
MissedRunPolicy == {"always", "within_window", "skip"}

(* A condition that does not hold has succeeded with result = false: "refuted". *)
Finished == {"succeeded", "refuted", "failed", "skipped", "canceled"}
NodeStatus == {"pending", "waiting_approval", "running"} \cup Finished

(* topologicalOrder: the nodes it cannot sort, empty when there is no cycle. *)
Unsorted(g) ==
  LET sort[S \in SUBSET g.nodes] ==
        LET free == {n \in S : \A e \in g.edges : e.to = n => e.from \notin S}
        IN IF free = {} THEN S ELSE sort[S \ free]
  IN sort[g.nodes]

(* mutant of ValidGraph: cycles are not looked for *)
EdgesKnown(g) ==
  /\ g.nodes # {}
  /\ \A e \in g.edges : e.from \in g.nodes /\ e.to \in g.nodes /\ e.from # e.to

(* validateWorkflowGraph *)
ValidGraph(g) == EdgesKnown(g) /\ Unsorted(g) = {}

(* A skipped or cancelled source takes no edge, not even an unconditional one. *)
EdgeTaken(e, node) ==
  /\ node[e.from] \in {"succeeded", "refuted", "failed"}
  /\ \/ e.when = "always"
     \/ e.when = "success" /\ node[e.from] = "succeeded"
     \/ e.when = "error" /\ node[e.from] \in {"refuted", "failed"}

Into(g, n) == {e \in g.edges : e.to = n}

SourcesFinished(g, n, node) == \A e \in Into(g, n) : node[e.from] \in Finished
AnyTaken(g, n, node) == \E e \in Into(g, n) : EdgeTaken(e, node)

(* mutant of Ready: the first edge that is taken starts the node *)
ReadyEarly(g, node) ==
  {n \in g.nodes : node[n] = "pending" /\ (Into(g, n) = {} \/ AnyTaken(g, n, node))}

(* resolveNodeReadiness().ready *)
Ready(g, node) ==
  {n \in g.nodes : /\ node[n] = "pending"
                   /\ Into(g, n) = {} \/ (SourcesFinished(g, n, node) /\ AnyTaken(g, n, node))}

(* resolveNodeReadiness().skipped *)
Skippable(g, node) ==
  {n \in g.nodes : /\ node[n] = "pending" /\ Into(g, n) # {}
                   /\ SourcesFinished(g, n, node) /\ ~AnyTaken(g, n, node)}

(* isFailureHandled *)
FailureHandled(g, n) == \E e \in g.edges : e.from = n /\ e.when \in {"error", "always"}

(* computeRunOutcome *)
RunOutcome(g, node) ==
  LET failed == {n \in g.nodes : node[n] = "failed"}
  IN IF \E n \in g.nodes : node[n] = "canceled" THEN "canceled"
     ELSE IF \E n \in failed : ~FailureHandled(g, n) THEN "failed"
     ELSE IF failed # {} THEN "completed_with_issues"
     ELSE "succeeded"

=============================================================================
