---------------------------- MODULE MCWorkflowRuns ----------------------------
(* Small instances of WorkflowRuns for TLC.                                  *)
EXTENDS WorkflowRuns

Edge(from, to, when) == [from |-> from, to |-> to, when |-> when]

Definition(kind, asks, edges, scheduled, missed) ==
  [nodes |-> DOMAIN kind, kind |-> kind, asks |-> asks, edges |-> edges,
   scheduled |-> scheduled, missed |-> missed]

Manual(kind, asks, edges) == Definition(kind, asks, edges, FALSE, "skip")

(* a condition with two branches that meet again, one of them an app action *)
Branches ==
  Manual(<<"condition", "action", "tool", "condition">>, {},
         {Edge(1, 2, "success"), Edge(1, 3, "error"), Edge(2, 4, "success"), Edge(3, 4, "always")})

(* a failure that is taken up, or is not; a node whose branch may be dead *)
Rescue ==
  Manual(<<"tool", "tool", "tool", "condition">>, {2},
         {Edge(1, 2, "success"), Edge(1, 3, "error"), Edge(2, 4, "error"), Edge(3, 4, "success")})

(* more roots than may run at the same time, and two that are joined *)
Wide ==
  Manual(<<"tool", "condition", "tool", "tool">>, {3},
         {Edge(1, 4, "always"), Edge(3, 4, "success")})

(* a cycle behind a root: it must not be saved *)
Looping ==
  Manual(<<"condition", "condition", "condition">>, {},
         {Edge(1, 2, "always"), Edge(2, 3, "always"), Edge(3, 2, "always")})

TwoSteps == Manual(<<"action", "tool">>, {2}, {Edge(1, 2, "success")})

Hourly == Definition(<<"tool">>, {}, {}, TRUE, "within_window")
Strict == Definition(<<"action">>, {}, {}, TRUE, "skip")

Definitions ==
  [branches |-> Branches, rescue |-> Rescue, wide |-> Wide, looping |-> Looping,
   twosteps |-> TwoSteps, hourly |-> Hourly, strict |-> Strict]

Limits(edits, switches, demands, cancels, ticks, outages) ==
  [edits |-> edits, switches |-> switches, demands |-> demands, cancels |-> cancels,
   ticks |-> ticks, outages |-> outages]

Begin(d, applied, limits) == [saved |-> d, applied |-> applied, left |-> limits]

(* runs of each definition, cancelled or closed at any moment *)
Executions ==
  {Begin("branches", TRUE, Limits(0, 0, 1, 1, 0, 0)),
   Begin("rescue", TRUE, Limits(0, 0, 1, 1, 0, 0)),
   Begin("wide", TRUE, Limits(0, 0, 1, 1, 0, 1))}

(* steps and retries, and several runs one after the other *)
Demands ==
  {Begin("strict", TRUE, Limits(0, 0, 3, 0, 0, 0)),
   Begin("twosteps", TRUE, Limits(0, 0, 2, 1, 0, 0)),
   Begin("twosteps", TRUE, Limits(0, 0, 1, 0, 0, 2))}

(* saving, reviewing and applying around a run *)
Revisions == {Begin("twosteps", FALSE, Limits(4, 0, 1, 0, 0, 0))}

(* the schedule, paused, missed, restarted *)
Schedules ==
  {Begin("hourly", TRUE, Limits(0, 1, 1, 0, 2, 1)),
   Begin("hourly", TRUE, Limits(0, 2, 0, 0, 3, 0)),
   Begin("strict", TRUE, Limits(0, 1, 0, 0, 2, 2)),
   Begin("strict", TRUE, Limits(1, 1, 0, 0, 2, 0))}

AllStarts == Executions \cup Demands \cup Revisions \cup Schedules

=============================================================================
