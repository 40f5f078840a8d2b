------------------------------ MODULE TurnQueue ------------------------------
(***************************************************************************)
(* What repository collaboration promises its groups, without the roster,  *)
(* the outbox, the owner or the restarts that the service works through: a *)
(* turn asked for waits until it may hold its folders, is worked on once   *)
(* at most, and gives the folders back before anyone else holds them.      *)
(***************************************************************************)
EXTENDS Naturals, Sequences, SequencesExt

CONSTANTS
  Turn,    \* ids of turns: positive numbers
  Folders, \* repositories
  Path     \* folder |-> its canonical path

VARIABLES
  stage,   \* turn |-> where it is in its life
  folders, \* turn |-> what it works on
  after    \* turn |-> the turn it continues, 0 for none

vars == <<stage, folders, after>>

Stage == {"none", "waiting", "held", "working", "stopping", "done", "ended"}

(* Folders are held from the reservation until the work has really stopped. *)
Holding == {"held", "working", "stopping"}

Apart(R, S) == \A r \in R, s \in S : ~IsPrefix(Path[r], Path[s]) /\ ~IsPrefix(Path[s], Path[r])

Init ==
  /\ stage = [t \in Turn |-> "none"]
  /\ folders = [t \in Turn |-> {}]
  /\ after = [t \in Turn |-> 0]

(* The folders of t are nobody else's, and the turn it continues is done. *)
MayHold(t) ==
  /\ \A u \in Turn \ {t} : stage'[u] \in Holding => Apart(folders'[t], folders'[u])
  /\ after'[t] # 0 => stage'[after'[t]] = "done"

Become(t, from, to) == stage[t] \in from /\ stage'[t] \in to

(* A turn is asked for: a new conversation, or the end of one that exists. *)
Ask(t) ==
  /\ Become(t, {"none"}, {"waiting", "held", "ended"})
  /\ folders'[t] \in (SUBSET Folders) \ {{}}
  /\ \/ after'[t] = 0
     \/ /\ after'[t] \in Turn /\ stage[after'[t]] # "none"
        /\ \A u \in Turn : after[u] # after'[t]
  /\ stage'[t] = "held" => MayHold(t)

Known(t) == folders'[t] = folders[t] /\ after'[t] = after[t]

Hold(t) == Become(t, {"waiting"}, {"held"}) /\ MayHold(t)

(* The reservation is given up with nothing done: the turn waits again. *)
GiveBack(t) == Become(t, {"held"}, {"waiting"})

Begin(t) == Become(t, {"held"}, {"working"})

Complete(t) == Become(t, {"working"}, {"done"})

(* Told to stop, it holds its folders until it has. *)
Stop(t) == Become(t, {"held", "working"}, {"stopping"})

(* Cancelled, failed, or left for the owner to review. *)
End(t) == Become(t, Stage \ {"none", "done", "ended"}, {"ended"})

Live(t) == Hold(t) \/ GiveBack(t) \/ Begin(t) \/ Complete(t) \/ Stop(t) \/ End(t)

Rest(t) == stage'[t] = stage[t]

(* Turns move together: one ends and another takes its folders in one step.  *)
(* One at a time begins, and one at a time completes.                        *)
Next ==
  /\ DOMAIN stage' = Turn /\ DOMAIN folders' = Turn /\ DOMAIN after' = Turn
  /\ \A t \in Turn : Ask(t) \/ (Known(t) /\ (Live(t) \/ Rest(t)))
  /\ \A t, u \in Turn : \/ t = u
                        \/ ~(Begin(t) /\ Begin(u)) /\ ~(Complete(t) /\ Complete(u)) /\ ~(Ask(t) /\ Ask(u))

Spec == Init /\ [][Next]_vars

=============================================================================
