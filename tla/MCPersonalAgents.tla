--------------------------- MODULE MCPersonalAgents ---------------------------
(* Small instances of PersonalAgents for TLC.                                *)
EXTENDS PersonalAgents, TLC

Limits(sends, stops, routines, wakeups, outages) ==
  ("sends" :> sends) @@ ("stops" :> stops) @@ ("routines" :> routines) @@
  ("wakeups" :> wakeups) @@ ("outages" :> outages)

Scenario(o, sends, stops, routines, wakeups, outages) ==
  [origin |-> o, left |-> Limits(sends, stops, routines, wakeups, outages)]

(* A routine and the person in its conversation; a voice session that is   *)
(* interrupted; a channel that is corrected; agents that ask each other.   *)
Conversations ==
  {Scenario("routine", 1, 0, 2, 1, 0), Scenario("routine", 1, 0, 1, 1, 1),
   Scenario("sidekick", 2, 2, 0, 2, 1), Scenario("whatsapp", 2, 2, 0, 0, 1),
   Scenario("agent", 3, 0, 0, 2, 1)}

=============================================================================
