------------------------- MODULE PersonalAgentsProofs -------------------------
(***************************************************************************)
(* Proofs about PersonalAgents, for any number of runs and occurrences:    *)
(* one inductive invariant, IInv, a lemma for each part of it that says no *)
(* step disturbs that part, and the theorems that follow.                  *)
(***************************************************************************)
EXTENDS PersonalAgents, TLAPS

-----------------------------------------------------------------------------
(***************************************************************************)
(* The inductive invariant.                                                *)
(***************************************************************************)

(* executeRun is between the start of a run and the end of its process. *)
Acting(r) == Preparing(r) \/ HasChild(r)

(* Only the newest run is live; a run that executes has a row; and one whose *)
(* process was not seen to end has ended and been killed.                    *)
RowsInv ==
  \A r \in Runs :
    /\ Live(r) => \A q \in Used : q <= r
    /\ stage[r] # "none" => r \in Used
    /\ r \in lingering => /\ status[r] \in Ended
                          /\ ~Preparing(r) /\ stage[r] # "alive"

(* What a call was admitted for: an existing run, in a conversation of its kind, *)
(* with the source of the run it speaks of.                                  *)
CallInv(c) ==
  /\ c.op # "send" => c.run \in Used
  /\ c.op \in {"cancel", "steer"} => origin \in {"sidekick", "whatsapp"}
  /\ c.op \in {"send", "steer"} /\ Bypasses(c.source) => origin = c.source
  /\ c.op \in {"start", "finish", "fail"} => c.source = source[c.run]

LineInv == \A i \in DOMAIN line : CallInv(line[i])

(* Where the holder of the lock may wait, and what it has done by then: a      *)
(* cancellation has ended its run before it waits for what executes it.      *)
PlaceInv ==
  /\ line = <<>> => at = "entry"
  /\ at = "runtime" => Holds("send") /\ origin # "agent"
  /\ at \in {"preparation", "exit"} => Stops /\ status[Holder.run] \in Ended
  /\ at = "exit" => ~Preparing(Holder.run) /\ stage[Holder.run] # "alive"

(* Only conversations between agents are asked, only that of a routine has one, *)
(* and a program that is down has no calls and executes nothing.             *)
OriginInv ==
  /\ asking > 0 => origin = "agent"
  /\ routine.exists => origin = "routine"
  /\ ~up => line = <<>> /\ asking = 0 /\ \A r \in Runs : stage[r] = "none"

(* What executes is running, or is what the holder of the lock waits for while *)
(* no run is live: nothing can be admitted beside it.                        *)
ActingInv ==
  \A r \in Runs \ lingering :
    Acting(r) => \/ status[r] = "running"
                 \/ at \in {"preparation", "exit"} /\ Holder.run = r /\ \A q \in Runs : ~Live(q)

(* While a message waits for the runtime, nothing that holds up its admission  *)
(* can come: no run, and no wakeup but from a process that lingers.          *)
WakeInv ==
  at = "runtime" =>
    /\ \A r \in Runs : ~Live(r)
    /\ ~Scheduled(Holder.source) => ~wakeup \/ lingering # {}

(* The occurrence a run was started for has passed and is no other run's; when *)
(* it is the next one still, the run has not ended.                          *)
RowOccInv ==
  \A r \in Runs : occurrence[r] # 0 =>
    /\ occurrence[r] <= clock /\ source[r] = "routine" /\ r \in Used
    /\ routine.exists /\ occurrence[r] = routine.next => Live(r)
    /\ \A q \in Runs : occurrence[q] = occurrence[r] => q = r

(* The same of an occurrence that waits to be sent.                          *)
CallOccInv ==
  \A i \in DOMAIN line : line[i].occurrence # 0 =>
    /\ line[i].occurrence <= clock /\ line[i].op = "send" /\ line[i].source = "routine"
    /\ timer => line[i].occurrence # routine.next
    /\ \A r \in Runs : occurrence[r] # line[i].occurrence
    /\ \A j \in DOMAIN line : line[j].occurrence = line[i].occurrence => j = i

(* Deleting a routine clears its timer. *)
TimerInv == timer => routine.exists

(* The second part of Timetable. *)
Remembered ==
  up /\ routine.exists /\ routine.enabled =>
    \/ timer
    \/ \E i \in DOMAIN line : line[i].source = "routine"
    \/ \E r \in Runs : source[r] = "routine" /\ stage[r] \notin {"none", "done"}

IInv ==
  /\ TypeOK /\ RowsInv /\ LineInv /\ PlaceInv /\ OriginInv /\ ActingInv /\ WakeInv
  /\ RowOccInv /\ CallOccInv /\ TimerInv /\ Remembered

-----------------------------------------------------------------------------
(***************************************************************************)
(* The line: a call joins it, leaves it, or becomes another.               *)
(***************************************************************************)

(* Enter puts a call at the end and leaves the others where they are. *)
LEMMA Entered ==
  ASSUME NEW S, NEW s \in Seq(S), NEW c \in S
  PROVE  /\ Append(s, c) \in Seq(S) /\ Append(s, c) # <<>>
         /\ Head(Append(s, c)) = IF s = <<>> THEN c ELSE Head(s)
         /\ \A i \in DOMAIN s : i \in DOMAIN Append(s, c) /\ Append(s, c)[i] = s[i]
         /\ \A i \in DOMAIN Append(s, c) \ DOMAIN s : Append(s, c)[i] = c
         /\ \A i, j \in DOMAIN Append(s, c) : i \notin DOMAIN s /\ j \notin DOMAIN s => i = j
  OBVIOUS

(* Leave takes the first call away and leaves the others in their order. *)
LEMMA Left ==
  ASSUME NEW S, NEW s \in Seq(S), s # <<>>
  PROVE  /\ Tail(s) \in Seq(S) /\ Head(s) \in S
         /\ 1 \in DOMAIN s /\ Head(s) = s[1]
         /\ \A i \in DOMAIN Tail(s) : i + 1 \in DOMAIN s /\ Tail(s)[i] = s[i + 1]
         /\ \A i \in DOMAIN s : i # 1 => i - 1 \in DOMAIN Tail(s) /\ Tail(s)[i - 1] = s[i]
  OBVIOUS

(* A correction becomes the message it carries and stays where it is. *)
LEMMA Became ==
  ASSUME NEW S, NEW s \in Seq(S), s # <<>>, NEW c \in S
  PROVE  /\ [s EXCEPT ![1] = c] \in Seq(S) /\ [s EXCEPT ![1] = c] # <<>>
         /\ Head([s EXCEPT ![1] = c]) = c
         /\ DOMAIN [s EXCEPT ![1] = c] = DOMAIN s
         /\ [s EXCEPT ![1] = c][1] = c
         /\ \A i \in DOMAIN s : i # 1 => [s EXCEPT ![1] = c][i] = s[i]
  OBVIOUS

-----------------------------------------------------------------------------
(***************************************************************************)
(* Calls.                                                                  *)
(***************************************************************************)

(* The parts of a call have their types. *)
LEMMA CallParts ==
  ASSUME NEW c \in Calls
  PROVE  /\ c.op \in {"send", "start", "finish", "fail", "cancel", "steer"}
         /\ c.run \in Runs \cup {0} /\ c.source \in Source /\ c.occurrence \in 0..MaxClock
  BY DEF Calls

(* Call makes a call of its parts. *)
LEMMA CallMade ==
  ASSUME NEW op \in {"send", "start", "finish", "fail", "cancel", "steer"},
         NEW r \in Runs \cup {0}, NEW src \in Source, NEW occ \in 0..MaxClock
  PROVE  /\ Call(op, r, src, occ) \in Calls
         /\ Call(op, r, src, occ).op = op /\ Call(op, r, src, occ).run = r
         /\ Call(op, r, src, occ).source = src /\ Call(op, r, src, occ).occurrence = occ
  BY DEF Calls, Call

(* What is known of the call that holds the lock. *)
LEMMA HolderKnown ==
  ASSUME line \in Seq(Calls), ~Idle, LineInv
  PROVE  /\ Holder \in Calls /\ Holder = line[1] /\ 1 \in DOMAIN line /\ line # <<>>
         /\ Holder.source \in Source /\ Holder.occurrence \in 0..MaxClock
         /\ CallInv(Holder)
         /\ Holder.op # "send" => Holder.run \in Runs
<1>1. Holder \in Calls /\ Holder = line[1] /\ 1 \in DOMAIN line /\ line # <<>>
  BY Left DEF Holder, Idle
<1>2. Holder.source \in Source /\ Holder.occurrence \in 0..MaxClock
  BY <1>1, CallParts
<1>3. CallInv(Holder)
  BY <1>1 DEF LineInv
<1>4. QED BY <1>1, <1>2, <1>3 DEF CallInv, Used

(* A call that comes keeps the line a sequence of calls. *)
LEMMA Joins ==
  ASSUME NEW op \in {"send", "start", "finish", "fail", "cancel", "steer"},
         NEW r \in Runs \cup {0}, NEW src \in Source, NEW occ \in 0..MaxClock,
         NEW waiting \in Seq(Calls), line' = Append(waiting, Call(op, r, src, occ))
  PROVE  line' \in Seq(Calls)
  BY CallMade, Entered

(* So does a call that goes, or that becomes a message. *)
LEMMA Departs ==
  ASSUME line \in Seq(Calls), line # <<>>, Holder.source \in Source, Leave \/ CancelDone
  PROVE  line' \in Seq(Calls)
<1>1. Send(Holder.source, 0) \in Calls
  BY CallMade, AgentAssumption DEF Send
<1>2. QED BY <1>1, Left, Became DEF Leave, CancelDone

(* The budgets remain natural numbers. *)
LEMMA BudgetTyped ==
  ASSUME left \in [Budget -> Nat], NEW kind \in Budget, Spend(kind)
  PROVE  left' \in [Budget -> Nat]
  BY DEF Spend

(* The routine keeps its type when its next occurrence is computed. *)
LEMMA RoutineTyped ==
  ASSUME TypeOK,
         \/ \E src \in Source : FinishRoutineRun(src)
         \/ \E b \in BOOLEAN : Rescheduled(b)
  PROVE  /\ routine' \in [exists : BOOLEAN, enabled : BOOLEAN, next : 0..MaxClock + 1]
         /\ timer' \in BOOLEAN
<1>1. clock + 1 \in 0..MaxClock + 1 /\ 0 \in 0..MaxClock + 1
  BY AgentAssumption DEF TypeOK
<1>2. ASSUME NEW b \in BOOLEAN, Rescheduled(b)
      PROVE  /\ routine' \in [exists : BOOLEAN, enabled : BOOLEAN, next : 0..MaxClock + 1]
             /\ timer' \in BOOLEAN
  <2>1. routine \in [exists : BOOLEAN, enabled : BOOLEAN, next : 0..MaxClock + 1]
    BY DEF TypeOK
  <2>2. (IF b THEN clock + 1 ELSE 0) \in 0..MaxClock + 1
    BY <1>1
  <2>3. QED BY <1>2, <2>1, <2>2 DEF Rescheduled
<1>3. routine.enabled \in BOOLEAN /\ routine.exists \in BOOLEAN
  BY DEF TypeOK
<1>4. QED BY <1>2, <1>3 DEF FinishRoutineRun, TypeOK, routineVars

(* The newest run is the only one that may be queued or running. *)
LEMMA NewestLives ==
  ASSUME RowsInv
  PROVE  /\ \A r, q \in Runs : Live(r) /\ Live(q) => r = q
         /\ ~Busy => \A r \in Runs : ~Live(r)
<1>1. \A r \in Runs : Live(r) => r \in Used
  BY DEF Live, Used
<1>2. \A r, q \in Runs : Live(r) /\ Live(q) => r <= q /\ q <= r
  BY <1>1 DEF RowsInv
<1>3. \A r, q \in Runs : r <= q /\ q <= r => r = q
  BY AgentAssumption DEF Runs
<1>4. ~Busy => \A r \in Runs : ~Live(r)
  BY <1>1 DEF RowsInv, Busy
<1>5. QED BY <1>2, <1>3, <1>4

(* RowsInv is kept when runs only move on and nothing new lingers. *)
LEMMA RowsMoveOn ==
  ASSUME RowsInv, status \in [Runs -> RunStatus],
         \A r \in Runs : /\ status'[r] # "none" <=> status[r] # "none"
                         /\ Live(r)' => Live(r)
                         /\ stage'[r] # "none" => status[r] # "none"
                         /\ status[r] \in Ended => status'[r] \in Ended
                         /\ r \in lingering => ~Preparing(r)' /\ stage'[r] # "alive",
         lingering' \subseteq lingering
  PROVE  RowsInv'
<1>1. SUFFICES ASSUME NEW r \in Runs
             PROVE  /\ Live(r)' => \A q \in Used' : q <= r
                    /\ stage'[r] # "none" => r \in Used'
                    /\ r \in lingering' => status'[r] \in Ended /\ ~Preparing(r)' /\ stage'[r] # "alive"
  BY DEF RowsInv
<1>2. Live(r)' => \A q \in Used' : q <= r
  BY DEF RowsInv, Used
<1>3. r \in lingering' => status'[r] \in Ended /\ ~Preparing(r)' /\ stage'[r] # "alive"
  BY DEF RowsInv
<1>4. QED BY <1>2, <1>3 DEF Used

(* LineInv is kept when calls leave, change into messages and come with what it asks. *)
LEMMA LineMovesOn ==
  ASSUME LineInv, line \in Seq(Calls),
         origin' = origin \/ origin \notin {"sidekick", "whatsapp"},
         \A q \in Used : q \in Used' /\ source'[q] = source[q],
         \/ line' = line
         \/ line # <<>> /\ line' = Tail(line)
         \/ Holds("steer") /\ line' = [line EXCEPT ![1] = Send(Holder.source, 0)]
         \/ \E c \in Calls : CallInv(c)' /\ line' = Append(line, c)
         \/ line # <<>> /\ \E c \in Calls : CallInv(c)' /\ line' = Append(Tail(line), c)
  PROVE  LineInv'
<1>1. \A c \in Calls : CallInv(c) => CallInv(c)'
  BY DEF CallInv, Bypasses
<1>2. \A i \in DOMAIN line : line[i] \in Calls /\ CallInv(line[i])
  BY DEF LineInv
<1>3. SUFFICES ASSUME NEW i \in DOMAIN line'
               PROVE  \E c \in Calls : c = line'[i] /\ CallInv(c)'
  BY DEF LineInv, CallInv
<1>4. CASE line' = line
  BY <1>1, <1>2, <1>4
<1>5. CASE line # <<>> /\ line' = Tail(line)
  BY <1>1, <1>2, <1>5, Left
<1>6. CASE Holds("steer") /\ line' = [line EXCEPT ![1] = Send(Holder.source, 0)]
  <2>1. Holder.source \in Source /\ 0 \in 0..MaxClock /\ line # <<>> /\ CallInv(Holder) /\ Holder.op = "steer"
    BY <1>6, HolderKnown, AgentAssumption DEF Holds
  <2>2. PICK c \in Calls : c = Send(Holder.source, 0)
    BY <2>1 DEF Send, Call, Calls
  <2>3. CallInv(c)'
    BY <2>1, <2>2 DEF CallInv, Bypasses, Send, Call
  <2>4. QED BY <1>1, <1>2, <1>6, <2>1, <2>2, <2>3, Became
<1>7. CASE \E c \in Calls : CallInv(c)' /\ line' = Append(line, c)
  BY <1>1, <1>2, <1>7, Entered
<1>8. CASE line # <<>> /\ \E c \in Calls : CallInv(c)' /\ line' = Append(Tail(line), c)
  <2>1. Tail(line) \in Seq(Calls) /\ \A j \in DOMAIN Tail(line) : \E c \in Calls : c = Tail(line)[j] /\ CallInv(c)'
    BY <1>1, <1>2, <1>8, Left
  <2>2. QED BY <1>8, <2>1, Entered
<1>9. QED BY <1>4, <1>5, <1>6, <1>7, <1>8

(* A new row comes after those there are. *)
LEMMA NewRow ==
  ASSUME status \in [Runs -> RunStatus], NEW r \in Runs, IsNew(r), SetStatus(r, "queued")
  PROVE  \A q \in Runs : status'[q] # "none" <=> q <= r
  BY AgentAssumption DEF IsNew, SetStatus, Used, Runs

(* PlaceInv is kept when the holder and the place stay, and ended runs stay ended. *)
LEMMA PlaceStays ==
  ASSUME PlaceInv, LineInv, line \in Seq(Calls), at' = at,
         line = <<>> \/ (line' # <<>> /\ Head(line') = Head(line)),
         origin' = origin \/ origin' # "agent",
         \A q \in Runs : /\ status[q] \in Ended => status'[q] \in Ended
                         /\ ~Preparing(q) /\ stage[q] # "alive"
                              => stage'[q] \notin {"preparing", "launching", "alive"}
  PROVE  PlaceInv'
<1>1. CASE at = "entry"
  BY <1>1 DEF PlaceInv
<1>2. CASE at # "entry"
  <2>1. ~Idle /\ line # <<>> /\ Holder' = Holder /\ (Holds("send") <=> Holds("send")') /\ (Stops <=> Stops')
    BY <1>2 DEF PlaceInv, Idle, Holder, Holds, Stops
  <2>2. Stops => Holder.run \in Runs
    BY <2>1, HolderKnown DEF Stops, Holds
  <2>3. QED BY <1>2, <2>1, <2>2 DEF PlaceInv, Preparing
<1>3. QED BY <1>1, <1>2

(* ActingInv is kept when nothing begins to act, and the holder, the place and the rows stay. *)
LEMMA ActingStays ==
  ASSUME ActingInv, PlaceInv, line \in Seq(Calls), at' = at, status' = status, lingering' = lingering,
         line' = line \/ \E c \in Calls : line' = Append(line, c),
         \A q \in Runs : Acting(q)' => Acting(q)
  PROVE  ActingInv'
<1>1. at # "entry" => Head(line') = Head(line)
  BY Entered DEF PlaceInv
<1>2. at \in {"preparation", "exit"} => Holder' = Holder
  BY <1>1 DEF Holder
<1>3. QED BY <1>2 DEF ActingInv, Live

(* WakeInv is kept when no wakeup comes, and the holder, the place and the rows stay. *)
LEMMA WakeStays ==
  ASSUME WakeInv, PlaceInv, line \in Seq(Calls), at' = at, status' = status, lingering' = lingering,
         wakeup' => wakeup,
         line' = line \/ \E c \in Calls : line' = Append(line, c)
  PROVE  WakeInv'
<1>1. at = "runtime" => Holder' = Holder
  BY Entered DEF PlaceInv, Holder
<1>2. QED BY <1>1 DEF WakeInv, Live

(* What finishRoutineRun does: the routine is set for a new occurrence, or is left alone. *)
LEMMA RoutineFinished ==
  ASSUME TypeOK, NEW src, FinishRoutineRun(src)
  PROVE  \/ /\ src = "routine" /\ routine.exists /\ routine'.exists
            /\ routine'.next \in {0, clock + 1} /\ timer' = routine'.enabled
         \/ /\ src # "routine" \/ ~routine.exists
            /\ UNCHANGED <<routine, timer>>
  BY DEF FinishRoutineRun, Rescheduled, routineVars, TypeOK

(* RowOccInv is kept while rows keep what they were started for, and the       *)
(* routine either stays or goes on to an occurrence that nothing was started for. *)
LEMMA RowOccStays ==
  ASSUME RowOccInv, occurrence \in [Runs -> 0..MaxClock], clock \in Nat, clock' \in Nat, clock <= clock',
         \A q \in Runs : /\ occurrence'[q] = occurrence[q]
                         /\ occurrence[q] # 0 => source'[q] = source[q] /\ (q \in Used => q \in Used'),
         \/ /\ routine'.next = routine.next /\ (routine'.exists => routine.exists)
            /\ \A q \in Runs : occurrence[q] # 0 /\ routine'.exists /\ Live(q) => Live(q)'
         \/ routine'.next \in {0, clock + 1}
  PROVE  RowOccInv'
<1>1. SUFFICES ASSUME NEW r \in Runs, occurrence'[r] # 0
               PROVE  /\ occurrence'[r] <= clock' /\ source'[r] = "routine" /\ r \in Used'
                      /\ routine'.exists /\ occurrence'[r] = routine'.next => Live(r)'
                      /\ \A q \in Runs : occurrence'[q] = occurrence'[r] => q = r
  BY DEF RowOccInv, Live
<1>2. occurrence[r] \in Nat /\ occurrence[r] # 0 /\ occurrence[r] <= clock
  BY <1>1, AgentAssumption DEF RowOccInv
<1>3. source'[r] = "routine" /\ r \in Used' /\ \A q \in Runs : occurrence'[q] = occurrence'[r] => q = r
  BY <1>1, <1>2 DEF RowOccInv
<1>4. routine'.exists /\ occurrence'[r] = routine'.next => Live(r)'
  BY <1>1, <1>2 DEF RowOccInv, Live
<1>5. QED BY <1>2, <1>3, <1>4

(* CallOccInv is kept when calls leave, and those that come are for no occurrence. *)
LEMMA CallOccStays ==
  ASSUME CallOccInv, line \in Seq(Calls), clock \in Nat, clock' \in Nat, clock <= clock',
         \A q \in Runs : occurrence'[q] = occurrence[q],
         \/ routine'.next = routine.next /\ (timer' => timer)
         \/ routine'.next \in {0, clock + 1},
         \/ line' = line \/ line' = <<>>
         \/ line # <<>> /\ line' = Tail(line)
         \/ \E c \in Calls : c.occurrence = 0 /\ line' = Append(line, c)
         \/ line # <<>> /\ \E c \in Calls : c.occurrence = 0 /\ line' = [line EXCEPT ![1] = c]
         \/ line # <<>> /\ \E c \in Calls : c.occurrence = 0 /\ line' = Append(Tail(line), c)
  PROVE  CallOccInv'
<1>1. PICK k \in {0, 1} : \A i \in DOMAIN line' : line'[i].occurrence # 0 =>
             i + k \in DOMAIN line /\ line'[i] = line[i + k]
  <2>1. CASE line' = line \/ line' = <<>>
    <3>1. \A i \in DOMAIN line' : line'[i].occurrence # 0 => i + 0 \in DOMAIN line /\ line'[i] = line[i + 0]
      BY <2>1
    <3>2. QED BY <3>1
  <2>2. CASE line # <<>> /\ line' = Tail(line)
    <3>1. \A i \in DOMAIN line' : line'[i].occurrence # 0 => i + 1 \in DOMAIN line /\ line'[i] = line[i + 1]
      BY <2>2, Left
    <3>2. QED BY <3>1
  <2>3. CASE \E c \in Calls : c.occurrence = 0 /\ line' = Append(line, c)
    <3>1. \A i \in DOMAIN line' : line'[i].occurrence # 0 => i + 0 \in DOMAIN line /\ line'[i] = line[i + 0]
      BY <2>3, Entered
    <3>2. QED BY <3>1
  <2>4. CASE line # <<>> /\ \E c \in Calls : c.occurrence = 0 /\ line' = [line EXCEPT ![1] = c]
    <3>1. \A i \in DOMAIN line' : line'[i].occurrence # 0 => i + 0 \in DOMAIN line /\ line'[i] = line[i + 0]
      BY <2>4, Became
    <3>2. QED BY <3>1
  <2>5. CASE line # <<>> /\ \E c \in Calls : c.occurrence = 0 /\ line' = Append(Tail(line), c)
    <3>1. \A i \in DOMAIN line' : line'[i].occurrence # 0 => i \in DOMAIN Tail(line) /\ line'[i] = Tail(line)[i]
      BY <2>5, Left, Entered
    <3>2. \A i \in DOMAIN line' : line'[i].occurrence # 0 => i + 1 \in DOMAIN line /\ line'[i] = line[i + 1]
      BY <2>5, <3>1, Left
    <3>3. QED BY <3>2
  <2>6. QED BY <2>1, <2>2, <2>3, <2>4, <2>5
<1>2. \A i \in DOMAIN line' : i \in Nat
  BY Left, Entered, Became
<1>3. SUFFICES ASSUME NEW i \in DOMAIN line', line'[i].occurrence # 0
               PROVE  /\ line'[i].occurrence <= clock' /\ line'[i].op = "send" /\ line'[i].source = "routine"
                      /\ timer' => line'[i].occurrence # routine'.next
                      /\ \A r \in Runs : occurrence'[r] # line'[i].occurrence
                      /\ \A j \in DOMAIN line' : line'[j].occurrence = line'[i].occurrence => j = i
  BY DEF CallOccInv
<1>4. i + k \in DOMAIN line /\ line'[i] = line[i + k] /\ line[i + k] \in Calls
  BY <1>1, <1>3
<1>5. line'[i].occurrence \in Nat /\ line'[i].occurrence <= clock
  BY <1>3, <1>4, CallParts, AgentAssumption DEF CallOccInv
<1>6. line'[i].op = "send" /\ line'[i].source = "routine" /\ \A r \in Runs : occurrence'[r] # line'[i].occurrence
  BY <1>3, <1>4 DEF CallOccInv
<1>7. timer' => line'[i].occurrence # routine'.next
  BY <1>3, <1>4, <1>5 DEF CallOccInv
<1>8. \A j \in DOMAIN line' : line'[j].occurrence = line'[i].occurrence => j = i
  <2>1. SUFFICES ASSUME NEW j \in DOMAIN line', line'[j].occurrence = line'[i].occurrence
                 PROVE  j = i
    OBVIOUS
  <2>2. j + k \in DOMAIN line /\ line'[j] = line[j + k]
    BY <1>1, <1>3, <2>1
  <2>3. j + k = i + k
    BY <1>3, <1>4, <2>1, <2>2 DEF CallOccInv
  <2>4. QED BY <1>2, <2>3
<1>9. QED BY <1>5, <1>6, <1>7, <1>8

(* The steps by which a call joins the line and little else happens. *)
Comes ==
  \/ \E src \in Source : SendMessage(src)
  \/ \E r \in Runs : CancelRun(r) \/ NetworkRevoked(r) \/ SteerMessage(r)
  \/ \E r \in Runs : PreparationFails(r) \/ ChildExits(r)
  \/ FireWakeup

(* What they have in common. *)
LEMMA CallComes ==
  ASSUME TypeOK, RowsInv, Comes
  PROVE  /\ \E c \in Calls : CallInv(c)' /\ c.occurrence = 0 /\ line' = Append(line, c)
         /\ UNCHANGED <<up, origin, at, status, source, occurrence, asking, lingering, routine, timer, clock>>
         /\ wakeup' => wakeup
         /\ \A q \in Runs : \/ stage'[q] = stage[q]
                            \/ Acting(q) /\ stage'[q] \in {"finishing", "failing"}
<1>0. /\ RowsInv /\ stage \in [Runs -> Stage] /\ source \in [Runs -> Source] /\ 0 \in 0..MaxClock
      /\ Source = {"human", "sidekick", "whatsapp", "agent", "routine", "scheduled_wakeup"}
  BY AgentAssumption DEF TypeOK, Source
<1>1. CASE \E src \in Source : SendMessage(src)
  <2>1. PICK src \in Source : SendMessage(src)
    BY <1>1
  <2>2. PICK c \in Calls : c = Call("send", 0, src, 0)
    BY <1>0 DEF Calls, Call
  <2>3. line' = Append(line, c) /\ c.occurrence = 0
    BY <2>1, <2>2 DEF SendMessage, Enter, Send, Call
  <2>4. UNCHANGED <<up, origin, at, status, source, occurrence, asking, lingering, routine, timer, clock>> /\ (wakeup' => wakeup)
    BY <2>1 DEF SendMessage, runVars, routineVars, Enter
  <2>5. CallInv(c)'
    BY <1>0, <2>1, <2>2, <2>4 DEF SendMessage, Writes, CallInv, Bypasses, Used, Call
  <2>6. \A q \in Runs : \/ stage'[q] = stage[q]
                        \/ Acting(q) /\ stage'[q] \in {"finishing", "failing"}
    BY <1>0, <2>1 DEF SendMessage, runVars, routineVars, SetStage, Acting
  <2>7. QED BY <2>3, <2>4, <2>5, <2>6
<1>2. CASE \E r \in Runs : CancelRun(r)
  <2>1. PICK r \in Runs : CancelRun(r)
    BY <1>2
  <2>2. PICK c \in Calls : c = Call("cancel", r, source[r], 0)
    BY <1>0 DEF Calls, Call
  <2>3. line' = Append(line, c) /\ c.occurrence = 0
    BY <2>1, <2>2 DEF CancelRun, Enter, Send, Call
  <2>4. UNCHANGED <<up, origin, at, status, source, occurrence, asking, lingering, routine, timer, clock>> /\ (wakeup' => wakeup)
    BY <2>1 DEF CancelRun, runVars, routineVars, Enter
  <2>5. CallInv(c)'
    BY <1>0, <2>1, <2>2, <2>4 DEF CancelRun, CallInv, Bypasses, Used, Call
  <2>6. \A q \in Runs : \/ stage'[q] = stage[q]
                        \/ Acting(q) /\ stage'[q] \in {"finishing", "failing"}
    BY <1>0, <2>1 DEF CancelRun, runVars, routineVars, SetStage, Acting
  <2>7. QED BY <2>3, <2>4, <2>5, <2>6
<1>3. CASE \E r \in Runs : NetworkRevoked(r)
  <2>1. PICK r \in Runs : NetworkRevoked(r)
    BY <1>3
  <2>2. PICK c \in Calls : c = Call("cancel", r, source[r], 0)
    BY <1>0 DEF Calls, Call
  <2>3. line' = Append(line, c) /\ c.occurrence = 0
    BY <2>1, <2>2 DEF NetworkRevoked, Enter, Send, Call
  <2>4. UNCHANGED <<up, origin, at, status, source, occurrence, asking, lingering, routine, timer, clock>> /\ (wakeup' => wakeup)
    BY <2>1 DEF NetworkRevoked, runVars, routineVars, Enter
  <2>5. CallInv(c)'
    BY <1>0, <2>1, <2>2, <2>4 DEF NetworkRevoked, RowsInv, CallInv, Bypasses, Used, Call
  <2>6. \A q \in Runs : \/ stage'[q] = stage[q]
                        \/ Acting(q) /\ stage'[q] \in {"finishing", "failing"}
    BY <1>0, <2>1 DEF NetworkRevoked, runVars, routineVars, SetStage, Acting
  <2>7. QED BY <2>3, <2>4, <2>5, <2>6
<1>4. CASE \E r \in Runs : SteerMessage(r)
  <2>1. PICK r \in Runs : SteerMessage(r)
    BY <1>4
  <2>2. PICK c \in Calls : c = Call("steer", r, "whatsapp", 0)
    BY <1>0 DEF Calls, Call
  <2>3. line' = Append(line, c) /\ c.occurrence = 0
    BY <2>1, <2>2 DEF SteerMessage, Enter, Send, Call
  <2>4. UNCHANGED <<up, origin, at, status, source, occurrence, asking, lingering, routine, timer, clock>> /\ (wakeup' => wakeup)
    BY <2>1 DEF SteerMessage, runVars, routineVars, Enter
  <2>5. CallInv(c)'
    BY <1>0, <2>1, <2>2, <2>4 DEF SteerMessage, CallInv, Bypasses, Used, Call
  <2>6. \A q \in Runs : \/ stage'[q] = stage[q]
                        \/ Acting(q) /\ stage'[q] \in {"finishing", "failing"}
    BY <1>0, <2>1 DEF SteerMessage, runVars, routineVars, SetStage, Acting
  <2>7. QED BY <2>3, <2>4, <2>5, <2>6
<1>5. CASE \E r \in Runs : PreparationFails(r)
  <2>1. PICK r \in Runs : PreparationFails(r)
    BY <1>5
  <2>2. PICK c \in Calls : c = Call("fail", r, source[r], 0)
    BY <1>0 DEF Calls, Call
  <2>3. line' = Append(line, c) /\ c.occurrence = 0
    BY <2>1, <2>2 DEF PreparationFails, Fail, Enter, Send, Call
  <2>4. UNCHANGED <<up, origin, at, status, source, occurrence, asking, lingering, routine, timer, clock>> /\ (wakeup' => wakeup)
    BY <2>1 DEF PreparationFails, Fail, runFrame, routineVars, Enter
  <2>5. CallInv(c)'
    BY <1>0, <2>1, <2>2, <2>4 DEF PreparationFails, Preparing, RowsInv, CallInv, Bypasses, Used,
       Call
  <2>6. \A q \in Runs : \/ stage'[q] = stage[q]
                        \/ Acting(q) /\ stage'[q] \in {"finishing", "failing"}
    BY <1>0, <2>1 DEF PreparationFails, Fail, runFrame, routineVars, SetStage, Acting
  <2>7. QED BY <2>3, <2>4, <2>5, <2>6
<1>6. CASE FireWakeup
  <2>1. FireWakeup
    BY <1>6
  <2>2. PICK c \in Calls : c = Call("send", 0, "scheduled_wakeup", 0)
    BY <1>0 DEF Calls, Call
  <2>3. line' = Append(line, c) /\ c.occurrence = 0
    BY <2>1, <2>2 DEF FireWakeup, Enter, Send, Call
  <2>4. UNCHANGED <<up, origin, at, status, source, occurrence, asking, lingering, routine, timer, clock>> /\ (wakeup' => wakeup)
    BY <2>1 DEF FireWakeup, wakeupFrame, runVars, routineVars, Enter
  <2>5. CallInv(c)'
    BY <1>0, <2>1, <2>2, <2>4 DEF FireWakeup, CallInv, Bypasses, Used, Call
  <2>6. \A q \in Runs : \/ stage'[q] = stage[q]
                        \/ Acting(q) /\ stage'[q] \in {"finishing", "failing"}
    BY <1>0, <2>1 DEF FireWakeup, wakeupFrame, runVars, routineVars, SetStage, Acting
  <2>7. QED BY <2>3, <2>4, <2>5, <2>6
<1>7. CASE \E r \in Runs : ChildExits(r)
  <2>1. PICK r \in Runs : ChildExits(r)
    BY <1>7
  <2>2. UNCHANGED <<up, origin, at, status, source, occurrence, asking, lingering, routine, timer, clock, wakeup>>
    BY <2>1 DEF ChildExits, Fail, Enter, runFrame, routineVars
  <2>3. PICK c \in Calls : /\ c \in {Call("finish", r, source[r], 0), Call("fail", r, source[r], 0)}
                           /\ line' = Append(line, c)
    <3>1. Call("finish", r, source[r], 0) \in Calls /\ Call("fail", r, source[r], 0) \in Calls
      BY <1>0 DEF Calls, Call
    <3>2. QED BY <2>1, <3>1 DEF ChildExits, Fail, Enter
  <2>4. r \in Used
    BY <1>0, <2>1 DEF ChildExits, HasChild, RowsInv
  <2>5. CallInv(c)' /\ c.occurrence = 0
    BY <2>2, <2>3, <2>4 DEF CallInv, Used, Call
  <2>6. \A q \in Runs : \/ stage'[q] = stage[q]
                        \/ Acting(q) /\ stage'[q] \in {"finishing", "failing"}
    BY <1>0, <2>1 DEF ChildExits, Fail, SetStage, Acting
  <2>7. QED BY <2>2, <2>3, <2>5, <2>6
<1>8. QED BY <1>1, <1>2, <1>3, <1>4, <1>5, <1>6, <1>7 DEF Comes

(* Remembered is kept while the routine stays as it is and whoever remembers it does. *)
LEMMA RememberedStays ==
  ASSUME Remembered, timer => timer',
         up' /\ routine'.exists /\ routine'.enabled => up /\ routine.exists /\ routine.enabled,
         \A i \in DOMAIN line : line[i].source = "routine" => \E j \in DOMAIN line' : line'[j].source = "routine",
         \A r \in Runs : source[r] = "routine" /\ stage[r] \notin {"none", "done"}
                           => source'[r] = "routine" /\ stage'[r] \notin {"none", "done"}
  PROVE  Remembered'
  BY DEF Remembered

-----------------------------------------------------------------------------
(*****************************************************************************)
(* Every step keeps the types.                                             *)
(*****************************************************************************)

(* The rows of the runs keep their types, and are created in order. *)
LEMMA RowsTyped ==
  ASSUME TypeOK, LineInv, [Next]_vars
  PROVE  /\ status' \in [Runs -> RunStatus] /\ stage' \in [Runs -> Stage]
         /\ source' \in [Runs -> Source] /\ occurrence' \in [Runs -> 0..MaxClock]
         /\ \A r, q \in Runs : q \in Used' /\ r < q => r \in Used'
<1> USE TypeOK, HolderKnown, AgentAssumption DEF
    TypeOK, Runs, vars, runVars, lockVars, routineVars, runFrame, callFrame, routineFrame,
    wakeupFrame, SetStage, SetStatus, Live, Used, Busy, RunStatus, Stage, Ended, Source,
    Idle, Stops, Holds
<1>1. CASE UNCHANGED <<status, stage, source, occurrence>>
  BY <1>1 DEF Used
<1>2. CASE AskAdmitted
  <2>1. PICK r \in Runs : Create(r, "agent", 0, line)
    BY <1>2 DEF AskAdmitted
  <2>2. "agent" \in Source /\ 0 \in 0..MaxClock
    OBVIOUS
  <2>3. status' \in [Runs -> RunStatus] /\ stage' \in [Runs -> Stage]
    BY <1>2, <2>1 DEF AskAdmitted, Create
  <2>4. source' \in [Runs -> Source] /\ occurrence' \in [Runs -> 0..MaxClock]
    BY <1>2, <2>1, <2>2 DEF AskAdmitted, Create
  <2>5. \A q \in Runs : status'[q] # "none" <=> q <= r
    BY <2>1, NewRow DEF Create
  <2>6. \A p, q \in Runs : q \in Used' /\ p < q => p \in Used'
    BY <2>5
  <2>7. QED BY <2>3, <2>4, <2>6
<1>3. CASE SendAdmitted
  BY <1>3 DEF SendAdmitted, Create, IsNew
<1>4. CASE StartRun
  <2>1. CASE MayStart(Holder.run)
    <3>1. status' \in [Runs -> RunStatus] /\ \A r \in Runs : r \in Used' <=> r \in Used
      BY <1>4, <2>1 DEF StartRun, MayStart, Over
    <3>2. stage' \in [Runs -> Stage] /\ UNCHANGED <<source, occurrence>>
      BY <1>4, <2>1 DEF StartRun, MayStart, Over
    <3>3. QED BY <3>1, <3>2
  <2>2. CASE ~MayStart(Holder.run)
    BY <1>4, <2>2 DEF StartRun, MayStart, Over
  <2>3. QED BY <2>1, <2>2
<1>5. CASE FinishRun
  BY <1>5 DEF FinishRun, Over, Answers
<1>6. CASE FailRun
  BY <1>6 DEF FailRun, Over
<1>7. CASE CancelBegins
  <2>1. CASE Live(Holder.run)
    <3>1. status' \in [Runs -> RunStatus] /\ \A r \in Runs : r \in Used' <=> r \in Used
      BY <1>7, <2>1 DEF CancelBegins, Steerable
    <3>2. stage' \in [Runs -> Stage] /\ UNCHANGED <<source, occurrence>>
      BY <1>7, <2>1 DEF CancelBegins, Steerable
    <3>3. QED BY <3>1, <3>2
  <2>2. CASE ~Live(Holder.run)
    BY <1>7, <2>2 DEF CancelBegins, Steerable
  <2>3. QED BY <2>1, <2>2
<1>8. CASE StopChild
  BY <1>8 DEF StopChild, Prepared, CancelDone
<1>9. CASE \E r \in Runs : PrepareRun(r)
  BY <1>9 DEF PrepareRun, Over
<1>10. CASE \E r \in Runs : PreparationFails(r)
  BY <1>10 DEF PreparationFails, Fail
<1>11. CASE \E r \in Runs : OnChild(r)
  BY <1>11 DEF OnChild, Spawned
<1>12. CASE \E r \in Runs : ChildExits(r)
  BY <1>12 DEF ChildExits, Fail
<1>13. CASE Stop
  BY <1>13 DEF Stop
<1>14. CASE Start
  BY <1>14 DEF Start, Reconciled
<1>15. QED
  BY <1>1, <1>2, <1>3, <1>4, <1>5, <1>6, <1>7, <1>8, <1>9, <1>10, <1>11, <1>12, <1>13, <1>14 DEF
    Next, Proceeds, RunStep, SendMessage, Writes, AskPeerAgent, AskRefused, SendRefused,
    SendBegins, Admissible, SteerRefused, ChildGone, CancelDone, CancellationUnconfirmed,
    CancelRun, NetworkRevoked, SteerMessage, ScheduleWakeup, RoutineDue, StartRoutineRun,
    RunNow, DeleteRoutine, Tick, UpdateRoutine, CancelWakeup, FireWakeup

(* The line remains a sequence of calls. *)
LEMMA LineTyped ==
  ASSUME TypeOK, LineInv, RowsInv, [Next]_vars
  PROVE  line' \in Seq(Calls)
<1>0. /\ TypeOK /\ RowsInv /\ line \in Seq(Calls) /\ source \in [Runs -> Source]
      /\ 0 \in 0..MaxClock /\ routine.next \in 0..MaxClock + 1 /\ clock \in 0..MaxClock
      /\ Source = {"human", "sidekick", "whatsapp", "agent", "routine", "scheduled_wakeup"}
      /\ LineInv
  BY AgentAssumption DEF TypeOK, Source
<1>1. CASE UNCHANGED <<line>>
  BY <1>1, <1>0
<1>2. CASE Comes
  BY <1>0, <1>2, CallComes, Entered
<1>3. CASE AskAdmitted
  <2>1. PICK r \in Runs : Create(r, "agent", 0, line)
    BY <1>3 DEF AskAdmitted
  <2>2. line' = Append(line, Call("start", r, "agent", 0))
    BY <2>1 DEF Create
  <2>3. QED BY <1>0, <2>2, Joins
<1>4. CASE SendRefused
  <2>1. ~Idle /\ (Leave \/ CancelDone \/ line' = line)
    BY <1>4 DEF SendRefused, Holds
  <2>2. line # <<>> /\ Holder.source \in Source
    BY <1>0, <2>1, HolderKnown
  <2>3. QED BY <1>0, <2>1, <2>2, Departs
<1>5. CASE SendAdmitted
  <2>1. PICK r \in Runs : Create(r, Holder.source, Holder.occurrence, Tail(line))
    BY <1>5 DEF SendAdmitted
  <2>2. line # <<>> /\ Holder.source \in Source
    BY <1>0, <1>5, HolderKnown DEF SendAdmitted, Holds
  <2>3. Tail(line) \in Seq(Calls)
    BY <1>0, <2>2, Left
  <2>4. line' = Append(Tail(line), Call("start", r, Holder.source, 0))
    BY <2>1 DEF Create
  <2>5. QED BY <1>0, <2>2, <2>3, <2>4, Joins
<1>6. CASE StartRun
  <2>1. ~Idle /\ (Leave \/ CancelDone \/ line' = line)
    BY <1>6 DEF StartRun, Holds
  <2>2. line # <<>> /\ Holder.source \in Source
    BY <1>0, <2>1, HolderKnown
  <2>3. QED BY <1>0, <2>1, <2>2, Departs
<1>7. CASE FinishRun
  <2>1. ~Idle /\ (Leave \/ CancelDone \/ line' = line)
    BY <1>7 DEF FinishRun, Holds
  <2>2. line # <<>> /\ Holder.source \in Source
    BY <1>0, <2>1, HolderKnown
  <2>3. QED BY <1>0, <2>1, <2>2, Departs
<1>8. CASE FailRun
  <2>1. ~Idle /\ (Leave \/ CancelDone \/ line' = line)
    BY <1>8 DEF FailRun, Holds
  <2>2. line # <<>> /\ Holder.source \in Source
    BY <1>0, <2>1, HolderKnown
  <2>3. QED BY <1>0, <2>1, <2>2, Departs
<1>9. CASE SteerRefused
  <2>1. ~Idle /\ (Leave \/ CancelDone \/ line' = line)
    BY <1>9 DEF SteerRefused, Holds
  <2>2. line # <<>> /\ Holder.source \in Source
    BY <1>0, <2>1, HolderKnown
  <2>3. QED BY <1>0, <2>1, <2>2, Departs
<1>10. CASE StopChild
  <2>1. ~Idle /\ (Leave \/ CancelDone \/ line' = line)
    BY <1>10 DEF StopChild, Stops, Holds, Wait
  <2>2. line # <<>> /\ Holder.source \in Source
    BY <1>0, <2>1, HolderKnown
  <2>3. QED BY <1>0, <2>1, <2>2, Departs
<1>11. CASE ChildGone
  <2>1. ~Idle /\ (Leave \/ CancelDone \/ line' = line)
    BY <1>11 DEF ChildGone, Stops, Holds
  <2>2. line # <<>> /\ Holder.source \in Source
    BY <1>0, <2>1, HolderKnown
  <2>3. QED BY <1>0, <2>1, <2>2, Departs
<1>12. CASE CancellationUnconfirmed
  <2>1. ~Idle /\ (Leave \/ CancelDone \/ line' = line)
    BY <1>12 DEF CancellationUnconfirmed, Stops, Holds
  <2>2. line # <<>> /\ Holder.source \in Source
    BY <1>0, <2>1, HolderKnown
  <2>3. QED BY <1>0, <2>1, <2>2, Departs
<1>13. CASE RoutineDue
  <2>1. CASE line' = Append(line, Call("send", 0, "routine", routine.next))
    <3>1. routine.next \in 0..MaxClock
      BY <1>0, <1>13, AgentAssumption DEF RoutineDue
    <3>2. QED BY <1>0, <2>1, <3>1, Joins
  <2>2. QED BY <1>0, <1>13, <2>1 DEF RoutineDue, StartRoutineRun, Enter, Send, lockVars
<1>14. CASE RunNow
  <2>1. CASE line' = Append(line, Call("send", 0, "routine", 0))
    <3>1. 0 \in 0..MaxClock
      BY <1>0
    <3>2. QED BY <1>0, <2>1, <3>1, Joins
  <2>2. QED BY <1>0, <1>14, <2>1 DEF RunNow, StartRoutineRun, Enter, Send, lockVars
<1>15. CASE Stop
  BY <1>15 DEF Stop
<1>16. QED
  BY <1>1, <1>2, <1>3, <1>4, <1>5, <1>6, <1>7, <1>8, <1>9, <1>10, <1>11, <1>12, <1>13, <1>14,
     <1>15 DEF
    Next, Proceeds, RunStep, Comes, vars, runVars, lockVars, routineVars, runFrame,
    callFrame, routineFrame, wakeupFrame, Wait, AskPeerAgent, AskRefused, SendBegins,
    Admissible, CancelBegins, Steerable, PrepareRun, Over, OnChild, Spawned,
    ScheduleWakeup, DeleteRoutine, Tick, UpdateRoutine, CancelWakeup, Start, Reconciled

(* The other variables keep their types. *)
LEMMA RestTyped ==
  ASSUME TypeOK, LineInv, [Next]_vars
  PROVE  /\ up' \in BOOLEAN /\ timer' \in BOOLEAN /\ wakeup' \in BOOLEAN /\ origin' \in Origin
         /\ canceledRunIds' \subseteq Runs /\ lingering' \subseteq Runs
         /\ at' \in {"entry", "runtime", "preparation", "exit"}
         /\ asking' \in Nat /\ clock' \in 0..MaxClock
         /\ routine' \in [exists : BOOLEAN, enabled : BOOLEAN, next : 0..MaxClock + 1]
         /\ left' \in [Budget -> Nat]
<1> USE TypeOK, HolderKnown, AgentAssumption, BudgetTyped, RoutineTyped DEF
    TypeOK, vars, runVars, lockVars, routineVars, runFrame, callFrame, routineFrame,
    wakeupFrame, Enter, Leave, Wait, Idle, Stops, Holds, Origin, Source, Budget
<1>1. CASE UNCHANGED <<up, timer, wakeup, origin, canceledRunIds, lingering, at, asking, clock, routine, left>>
  BY <1>1
<1>2. CASE \E src \in Source : SendMessage(src)
  BY <1>2 DEF SendMessage, Writes
<1>3. CASE AskPeerAgent
  BY <1>3 DEF AskPeerAgent
<1>4. CASE AskAdmitted
  BY <1>4 DEF AskAdmitted, MayCreate, Create, IsNew
<1>5. CASE AskRefused
  BY <1>5 DEF AskRefused
<1>6. CASE SendRefused
  BY <1>6 DEF SendRefused
<1>7. CASE SendBegins
  BY <1>7 DEF SendBegins, Admissible
<1>8. CASE SendAdmitted
  BY <1>8 DEF SendAdmitted, Create, IsNew
<1>9. CASE StartRun
  BY <1>9 DEF StartRun, Over, MayStart
<1>10. CASE FinishRun
  BY <1>10 DEF FinishRun, Over, Answers
<1>11. CASE FailRun
  BY <1>11 DEF FailRun, Over
<1>12. CASE SteerRefused
  BY <1>12 DEF SteerRefused
<1>13. CASE CancelBegins
  BY <1>13 DEF CancelBegins, Steerable
<1>14. CASE StopChild
  BY <1>14 DEF StopChild, Prepared, CancelDone
<1>15. CASE ChildGone
  BY <1>15 DEF ChildGone, CancelDone
<1>16. CASE CancellationUnconfirmed
  BY <1>16 DEF CancellationUnconfirmed
<1>17. CASE \E r \in Runs : PrepareRun(r)
  BY <1>17 DEF PrepareRun, Over
<1>18. CASE \E r \in Runs : PreparationFails(r)
  BY <1>18 DEF PreparationFails, Fail
<1>19. CASE \E r \in Runs : ChildExits(r)
  BY <1>19 DEF ChildExits, Fail
<1>20. CASE \E r \in Runs : CancelRun(r)
  BY <1>20 DEF CancelRun
<1>21. CASE \E r \in Runs : NetworkRevoked(r)
  BY <1>21 DEF NetworkRevoked
<1>22. CASE \E r \in Runs : SteerMessage(r)
  BY <1>22 DEF SteerMessage
<1>23. CASE \E r \in Runs : ScheduleWakeup(r)
  BY <1>23 DEF ScheduleWakeup
<1>24. CASE RoutineDue
  BY <1>24 DEF RoutineDue, StartRoutineRun
<1>25. CASE RunNow
  BY <1>25 DEF RunNow, StartRoutineRun
<1>26. CASE DeleteRoutine
  <2>1. routine' \in [exists : BOOLEAN, enabled : BOOLEAN, next : 0..MaxClock + 1]
    BY <1>26 DEF DeleteRoutine
  <2>2. QED BY <1>26, <2>1 DEF DeleteRoutine
<1>27. CASE Tick
  BY <1>27 DEF Tick
<1>28. CASE \E b \in BOOLEAN : UpdateRoutine(b)
  BY <1>28 DEF UpdateRoutine
<1>29. CASE CancelWakeup
  BY <1>29 DEF CancelWakeup
<1>30. CASE FireWakeup
  BY <1>30 DEF FireWakeup
<1>31. CASE Stop
  BY <1>31 DEF Stop
<1>32. CASE Start
  BY <1>32 DEF Start, Reconciled
<1>33. QED
  BY <1>1, <1>2, <1>3, <1>4, <1>5, <1>6, <1>7, <1>8, <1>9, <1>10, <1>11, <1>12, <1>13, <1>14,
     <1>15, <1>16, <1>17, <1>18, <1>19, <1>20, <1>21, <1>22, <1>23, <1>24, <1>25, <1>26, <1>27,
     <1>28, <1>29, <1>30, <1>31, <1>32 DEF
    Next, Proceeds, RunStep, OnChild, Spawned

-----------------------------------------------------------------------------
(*****************************************************************************)
(* Every step keeps the invariant.                                         *)
(*****************************************************************************)

(* No step makes an older run live, or lets one execute without a row. *)
LEMMA RowsKept ==
  ASSUME TypeOK, LineInv, RowsInv, PlaceInv, [Next]_vars
  PROVE  RowsInv'
<1>0. /\ line \in Seq(Calls) /\ LineInv
      /\ RowsInv /\ PlaceInv /\ MaxRuns \in Nat
      /\ status \in [Runs -> RunStatus] /\ stage \in [Runs -> Stage]
      /\ lingering \subseteq Runs
  BY AgentAssumption DEF TypeOK
<1>1. CASE UNCHANGED <<status, stage, lingering>>
  BY <1>1, <1>0 DEF RowsInv, Live, Used, Preparing
<1>2. CASE AskAdmitted
  <2>1. PICK r \in Runs : Create(r, "agent", 0, line)
    BY <1>2 DEF AskAdmitted
  <2>2. \A q \in Runs : ~Live(q)
    BY <1>2, <1>0, NewestLives DEF AskAdmitted, MayCreate
  <2>3. \A q \in Runs : status'[q] # "none" <=> q <= r
    BY <1>0, <2>1, NewRow DEF Create
  <2>4. \A q \in Runs : Live(q)' => q = r
    BY <1>0, <2>1, <2>2 DEF Create, SetStatus, Live
  <2>5. \A q \in Runs : status[q] \in Ended => status'[q] = status[q] /\ stage'[q] = stage[q]
    BY <1>0, <2>1 DEF Create, IsNew, SetStatus, SetStage, Used, Ended, Runs
  <2>6. lingering' = lingering /\ \A q \in Runs : stage'[q] # "none" => status'[q] # "none"
    BY <1>0, <1>2, <2>1 DEF Create, SetStatus, SetStage, RowsInv, Used, AskAdmitted
  <2>7. \A q \in Runs : Live(q)' => \A p \in Used' : p <= q
    BY <2>3, <2>4 DEF Used
  <2>8. QED BY <1>0, <2>5, <2>6, <2>7 DEF RowsInv, Preparing, Used
<1>3. CASE SendAdmitted
  <2>1. PICK r \in Runs : Create(r, Holder.source, Holder.occurrence, Tail(line))
    BY <1>3 DEF SendAdmitted
  <2>2. \A q \in Runs : ~Live(q)
    BY <1>3, <1>0, NewestLives DEF SendAdmitted
  <2>3. \A q \in Runs : status'[q] # "none" <=> q <= r
    BY <1>0, <2>1, NewRow DEF Create
  <2>4. \A q \in Runs : Live(q)' => q = r
    BY <1>0, <2>1, <2>2 DEF Create, SetStatus, Live
  <2>5. \A q \in Runs : status[q] \in Ended => status'[q] = status[q] /\ stage'[q] = stage[q]
    BY <1>0, <2>1 DEF Create, IsNew, SetStatus, SetStage, Used, Ended, Runs
  <2>6. lingering' = lingering /\ \A q \in Runs : stage'[q] # "none" => status'[q] # "none"
    BY <1>0, <1>3, <2>1 DEF Create, SetStatus, SetStage, RowsInv, Used, callFrame, SendAdmitted
  <2>7. \A q \in Runs : Live(q)' => \A p \in Used' : p <= q
    BY <2>3, <2>4 DEF Used
  <2>8. QED BY <1>0, <2>5, <2>6, <2>7 DEF RowsInv, Preparing, Used
<1>4. CASE StartRun
  <2>1. Holder.run \in Runs /\ status[Holder.run] # "none"
    BY <1>4, <1>0, HolderKnown DEF StartRun, CallInv, Holds, Used
  <2>2. \A q \in Runs : /\ status'[q] # "none" <=> status[q] # "none"
                        /\ Live(q)' => Live(q)
                        /\ stage'[q] # "none" => status[q] # "none"
                        /\ status[q] \in Ended => status'[q] \in Ended
                        /\ q \in lingering => ~Preparing(q)' /\ stage'[q] # "alive"
    <3>1. CASE MayStart(Holder.run)
      BY <1>4, <1>0, <2>1, <3>1 DEF StartRun, MayStart, Over, RowsInv, Used, SetStage,
         SetStatus, Live, Preparing, Ended
    <3>2. CASE ~MayStart(Holder.run)
      BY <1>4, <1>0, <2>1, <3>2 DEF StartRun, MayStart, Over, RowsInv, Used, SetStage,
         SetStatus, Live, Preparing, Ended
    <3>3. QED BY <3>1, <3>2
  <2>3. lingering' \subseteq lingering
    BY <1>4 DEF StartRun, runFrame
  <2>4. QED BY <1>0, <2>2, <2>3, RowsMoveOn DEF Live, Preparing
<1>5. CASE FinishRun
  <2>1. Holder.run \in Runs /\ status[Holder.run] # "none"
    BY <1>5, <1>0, HolderKnown DEF FinishRun, CallInv, Holds, Used
  <2>2. \A q \in Runs : /\ status'[q] # "none" <=> status[q] # "none"
                        /\ Live(q)' => Live(q)
                        /\ stage'[q] # "none" => status[q] # "none"
                        /\ status[q] \in Ended => status'[q] \in Ended
                        /\ q \in lingering => ~Preparing(q)' /\ stage'[q] # "alive"
    <3>1. CASE Answers(Holder.run)
      BY <1>5, <1>0, <2>1, <3>1 DEF FinishRun, Answers, Over, RowsInv, Used, SetStage,
         SetStatus, Live, Preparing, Ended
    <3>2. CASE ~Answers(Holder.run)
      BY <1>5, <1>0, <2>1, <3>2 DEF FinishRun, Answers, Over, RowsInv, Used, SetStage,
         SetStatus, Live, Preparing, Ended
    <3>3. QED BY <3>1, <3>2
  <2>3. lingering' \subseteq lingering
    BY <1>5 DEF FinishRun, runFrame
  <2>4. QED BY <1>0, <2>2, <2>3, RowsMoveOn DEF Live, Preparing
<1>6. CASE FailRun
  <2>1. Holder.run \in Runs /\ status[Holder.run] # "none"
    BY <1>6, <1>0, HolderKnown DEF FailRun, CallInv, Holds, Used
  <2>2. \A q \in Runs : /\ status'[q] # "none" <=> status[q] # "none"
                        /\ Live(q)' => Live(q)
                        /\ stage'[q] # "none" => status[q] # "none"
                        /\ status[q] \in Ended => status'[q] \in Ended
                        /\ q \in lingering => ~Preparing(q)' /\ stage'[q] # "alive"
    <3>1. CASE Live(Holder.run)
      BY <1>6, <1>0, <2>1, <3>1 DEF FailRun, Over, RowsInv, Used, SetStage, SetStatus, Live,
         Preparing, Ended
    <3>2. CASE ~Live(Holder.run)
      BY <1>6, <1>0, <2>1, <3>2 DEF FailRun, Over, RowsInv, Used, SetStage, SetStatus, Live,
         Preparing, Ended
    <3>3. QED BY <3>1, <3>2
  <2>3. lingering' \subseteq lingering
    BY <1>6 DEF FailRun, runFrame
  <2>4. QED BY <1>0, <2>2, <2>3, RowsMoveOn DEF Live, Preparing
<1>7. CASE CancelBegins
  BY <1>7, <1>0, HolderKnown, NewestLives DEF
    CancelBegins, Steerable, RowsInv, PlaceInv, TypeOK, Runs, vars, runVars, lockVars,
    routineVars, runFrame, callFrame, routineFrame, wakeupFrame, SetStage, SetStatus, Live,
    Used, Preparing, HasChild, Ended, Idle, Stops, Holds
<1>8. CASE StopChild
  BY <1>8, <1>0, HolderKnown, NewestLives DEF
    StopChild, Prepared, CancelDone, RowsInv, PlaceInv, TypeOK, Runs, vars, runVars,
    lockVars, routineVars, runFrame, callFrame, routineFrame, wakeupFrame, SetStage,
    SetStatus, Live, Used, Preparing, HasChild, Ended, Idle, Stops, Holds
<1>9. CASE CancellationUnconfirmed
  <2>1. status[Holder.run] \in Ended /\ ~Preparing(Holder.run) /\ stage[Holder.run] # "alive"
    BY <1>9, <1>0 DEF CancellationUnconfirmed, PlaceInv
  <2>2. UNCHANGED <<status, stage>> /\ lingering' = lingering \cup {Holder.run}
    BY <1>9 DEF CancellationUnconfirmed, runVars
  <2>3. QED BY <1>0, <2>1, <2>2 DEF RowsInv, Live, Used, Preparing
<1>10. CASE \E r \in Runs : PrepareRun(r)
  BY <1>10, <1>0, HolderKnown, NewestLives DEF
    PrepareRun, Over, RowsInv, PlaceInv, TypeOK, Runs, vars, runVars, lockVars,
    routineVars, runFrame, callFrame, routineFrame, wakeupFrame, SetStage, SetStatus, Live,
    Used, Preparing, HasChild, Ended, Idle, Stops, Holds
<1>11. CASE \E r \in Runs : PreparationFails(r)
  BY <1>11, <1>0, HolderKnown, NewestLives DEF
    PreparationFails, Fail, RowsInv, PlaceInv, TypeOK, Runs, vars, runVars, lockVars,
    routineVars, runFrame, callFrame, routineFrame, wakeupFrame, SetStage, SetStatus, Live,
    Used, Preparing, HasChild, Ended, Idle, Stops, Holds
<1>12. CASE \E r \in Runs : OnChild(r)
  BY <1>12, <1>0, HolderKnown, NewestLives DEF
    OnChild, Spawned, RowsInv, PlaceInv, TypeOK, Runs, vars, runVars, lockVars,
    routineVars, runFrame, callFrame, routineFrame, wakeupFrame, SetStage, SetStatus, Live,
    Used, Preparing, HasChild, Ended, Idle, Stops, Holds
<1>13. CASE \E r \in Runs : ChildExits(r)
  BY <1>13, <1>0, HolderKnown, NewestLives DEF
    ChildExits, Fail, RowsInv, PlaceInv, TypeOK, Runs, vars, runVars, lockVars,
    routineVars, runFrame, callFrame, routineFrame, wakeupFrame, SetStage, SetStatus, Live,
    Used, Preparing, HasChild, Ended, Idle, Stops, Holds
<1>14. CASE Stop
  BY <1>14, <1>0, HolderKnown, NewestLives DEF
    Stop, RowsInv, PlaceInv, TypeOK, Runs, vars, runVars, lockVars, routineVars, runFrame,
    callFrame, routineFrame, wakeupFrame, SetStage, SetStatus, Live, Used, Preparing,
    HasChild, Ended, Idle, Stops, Holds
<1>15. CASE Start
  BY <1>15, <1>0, HolderKnown, NewestLives DEF
    Start, Reconciled, RowsInv, PlaceInv, TypeOK, Runs, vars, runVars, lockVars,
    routineVars, runFrame, callFrame, routineFrame, wakeupFrame, SetStage, SetStatus, Live,
    Used, Preparing, HasChild, Ended, Idle, Stops, Holds
<1>16. QED
  BY <1>1, <1>2, <1>3, <1>4, <1>5, <1>6, <1>7, <1>8, <1>9, <1>10, <1>11, <1>12, <1>13, <1>14,
     <1>15 DEF
    Next, Proceeds, RunStep, vars, runVars, lockVars, routineVars, runFrame, callFrame,
    routineFrame, wakeupFrame, SendMessage, Writes, AskPeerAgent, AskRefused, SendRefused,
    SendBegins, Admissible, SteerRefused, ChildGone, CancelDone, CancelRun, NetworkRevoked,
    SteerMessage, ScheduleWakeup, RoutineDue, StartRoutineRun, RunNow, DeleteRoutine, Tick,
    UpdateRoutine, CancelWakeup, FireWakeup

(* Every call that comes is what CallInv asks, and remains so while it waits. *)
LEMMA LineKept ==
  ASSUME TypeOK, LineInv, RowsInv, OriginInv, [Next]_vars
  PROVE  LineInv'
<1>0. /\ TypeOK /\ line \in Seq(Calls) /\ LineInv /\ RowsInv
      /\ status \in [Runs -> RunStatus] /\ stage \in [Runs -> Stage] /\ source \in [Runs -> Source]
      /\ 0 \in 0..MaxClock /\ clock \in 0..MaxClock /\ routine.next \in 0..MaxClock + 1 /\ MaxRuns \in Nat
      /\ Source = {"human", "sidekick", "whatsapp", "agent", "routine", "scheduled_wakeup"}
  BY AgentAssumption DEF TypeOK, Source
<1>1. CASE UNCHANGED <<line, origin, status, source>>
  BY <1>1, <1>0 DEF LineInv, CallInv, Bypasses, Used
<1>2. CASE Comes
  <2>1. UNCHANGED <<origin, status, source>> /\ \E c \in Calls : CallInv(c)' /\ line' = Append(line, c)
    BY <1>0, <1>2, CallComes
  <2>2. QED BY <1>0, <2>1, LineMovesOn DEF Used
<1>3. CASE AskAdmitted
  <2>1. PICK r \in Runs : Create(r, "agent", 0, line)
    BY <1>3 DEF AskAdmitted
  <2>2. r \in Used' /\ source'[r] = "agent" /\ origin' = origin /\ \A q \in Used : q \in Used' /\ source'[q] = source[q]
    <3>1. r \notin Used
      BY <1>0, <2>1 DEF Create, IsNew, Runs
    <3>2. r \in Used' /\ source'[r] = "agent"
      BY <1>0, <2>1 DEF Create, SetStatus, Used
    <3>3. \A q \in Used : q \in Used' /\ source'[q] = source[q]
      BY <1>0, <2>1, <3>1 DEF Create, SetStatus, Used
    <3>4. QED BY <1>3, <3>2, <3>3 DEF AskAdmitted, callFrame
  <2>3. PICK c \in Calls : c = Call("start", r, "agent", 0)
    BY <1>0 DEF Calls, Call
  <2>4. CallInv(c)'
    BY <2>2, <2>3 DEF CallInv, Bypasses, Call
  <2>5. line' = Append(line, c)
    BY <2>1, <2>3 DEF Create
  <2>6. QED BY <1>0, <2>2, <2>4, <2>5, LineMovesOn
<1>4. CASE SendRefused
  <2>1. ~Idle /\ line # <<>>
    BY <1>4 DEF SendRefused, Holds, Stops, Idle
  <2>2. origin' = origin /\ \A q \in Used : q \in Used' /\ source'[q] = source[q]
    BY <1>0, <1>4 DEF SendRefused, callFrame, runVars, Used
  <2>3. \/ line' = line \/ line' = Tail(line)
        \/ Holds("steer") /\ line' = [line EXCEPT ![1] = Send(Holder.source, 0)]
    BY <1>4 DEF SendRefused, Leave, CancelDone, Wait
  <2>4. QED BY <1>0, <2>1, <2>2, <2>3, LineMovesOn
<1>5. CASE SendAdmitted
  <2>1. PICK r \in Runs : Create(r, Holder.source, Holder.occurrence, Tail(line))
    BY <1>5 DEF SendAdmitted
  <2>2. r \in Used' /\ source'[r] = Holder.source /\ origin' = origin /\ \A q \in Used : q \in Used' /\ source'[q] = source[q]
    <3>1. r \notin Used
      BY <1>0, <2>1 DEF Create, IsNew, Runs
    <3>2. r \in Used' /\ source'[r] = Holder.source
      BY <1>0, <2>1 DEF Create, SetStatus, Used
    <3>3. \A q \in Used : q \in Used' /\ source'[q] = source[q]
      BY <1>0, <2>1, <3>1 DEF Create, SetStatus, Used
    <3>4. QED BY <1>5, <3>2, <3>3 DEF SendAdmitted, callFrame
  <2>3. line # <<>> /\ Holder.source \in Source
    BY <1>0, <1>5, HolderKnown DEF SendAdmitted, Holds
  <2>4. PICK c \in Calls : c = Call("start", r, Holder.source, 0)
    BY <1>0, <2>3 DEF Calls, Call
  <2>5. CallInv(c)'
    BY <2>2, <2>4 DEF CallInv, Bypasses, Call
  <2>6. line' = Append(Tail(line), c)
    BY <2>1, <2>4 DEF Create
  <2>7. QED BY <1>0, <2>2, <2>3, <2>5, <2>6, LineMovesOn
<1>6. CASE StartRun
  <2>1. ~Idle /\ line # <<>>
    BY <1>6 DEF StartRun, Holds, Stops, Idle
  <2>2. origin' = origin /\ \A q \in Used : q \in Used' /\ source'[q] = source[q]
    BY <1>0, <1>6 DEF StartRun, runFrame, MayStart, SetStatus, Over, Used
  <2>3. \/ line' = line \/ line' = Tail(line)
        \/ Holds("steer") /\ line' = [line EXCEPT ![1] = Send(Holder.source, 0)]
    BY <1>6 DEF StartRun, Leave, CancelDone, Wait
  <2>4. QED BY <1>0, <2>1, <2>2, <2>3, LineMovesOn
<1>7. CASE FinishRun
  <2>1. ~Idle /\ line # <<>>
    BY <1>7 DEF FinishRun, Holds, Stops, Idle
  <2>2. origin' = origin /\ \A q \in Used : q \in Used' /\ source'[q] = source[q]
    BY <1>0, <1>7 DEF FinishRun, runFrame, Answers, SetStatus, Over, Used
  <2>3. \/ line' = line \/ line' = Tail(line)
        \/ Holds("steer") /\ line' = [line EXCEPT ![1] = Send(Holder.source, 0)]
    BY <1>7 DEF FinishRun, Leave, CancelDone, Wait
  <2>4. QED BY <1>0, <2>1, <2>2, <2>3, LineMovesOn
<1>8. CASE FailRun
  <2>1. ~Idle /\ line # <<>>
    BY <1>8 DEF FailRun, Holds, Stops, Idle
  <2>2. origin' = origin /\ \A q \in Used : q \in Used' /\ source'[q] = source[q]
    BY <1>0, <1>8 DEF FailRun, runFrame, SetStatus, Over, Used
  <2>3. \/ line' = line \/ line' = Tail(line)
        \/ Holds("steer") /\ line' = [line EXCEPT ![1] = Send(Holder.source, 0)]
    BY <1>8 DEF FailRun, Leave, CancelDone, Wait
  <2>4. QED BY <1>0, <2>1, <2>2, <2>3, LineMovesOn
<1>9. CASE SteerRefused
  <2>1. ~Idle /\ line # <<>>
    BY <1>9 DEF SteerRefused, Holds, Stops, Idle
  <2>2. origin' = origin /\ \A q \in Used : q \in Used' /\ source'[q] = source[q]
    BY <1>0, <1>9 DEF SteerRefused, callFrame, runVars, Used
  <2>3. \/ line' = line \/ line' = Tail(line)
        \/ Holds("steer") /\ line' = [line EXCEPT ![1] = Send(Holder.source, 0)]
    BY <1>9 DEF SteerRefused, Leave, CancelDone, Wait
  <2>4. QED BY <1>0, <2>1, <2>2, <2>3, LineMovesOn
<1>10. CASE CancelBegins
  <2>1. ~Idle /\ line # <<>>
    BY <1>10 DEF CancelBegins, Holds, Stops, Idle
  <2>2. origin' = origin /\ \A q \in Used : q \in Used' /\ source'[q] = source[q]
    BY <1>0, <1>10 DEF CancelBegins, callFrame, SetStatus, Used
  <2>3. \/ line' = line \/ line' = Tail(line)
        \/ Holds("steer") /\ line' = [line EXCEPT ![1] = Send(Holder.source, 0)]
    BY <1>10 DEF CancelBegins, Leave, CancelDone, Wait
  <2>4. QED BY <1>0, <2>1, <2>2, <2>3, LineMovesOn
<1>11. CASE StopChild
  <2>1. ~Idle /\ line # <<>>
    BY <1>11 DEF StopChild, Holds, Stops, Idle
  <2>2. origin' = origin /\ \A q \in Used : q \in Used' /\ source'[q] = source[q]
    BY <1>0, <1>11 DEF StopChild, callFrame, Used
  <2>3. \/ line' = line \/ line' = Tail(line)
        \/ Holds("steer") /\ line' = [line EXCEPT ![1] = Send(Holder.source, 0)]
    BY <1>11 DEF StopChild, Leave, CancelDone, Wait
  <2>4. QED BY <1>0, <2>1, <2>2, <2>3, LineMovesOn
<1>12. CASE ChildGone
  <2>1. ~Idle /\ line # <<>>
    BY <1>12 DEF ChildGone, Holds, Stops, Idle
  <2>2. origin' = origin /\ \A q \in Used : q \in Used' /\ source'[q] = source[q]
    BY <1>0, <1>12 DEF ChildGone, callFrame, runVars, Used
  <2>3. \/ line' = line \/ line' = Tail(line)
        \/ Holds("steer") /\ line' = [line EXCEPT ![1] = Send(Holder.source, 0)]
    BY <1>12 DEF ChildGone, Leave, CancelDone, Wait
  <2>4. QED BY <1>0, <2>1, <2>2, <2>3, LineMovesOn
<1>13. CASE CancellationUnconfirmed
  <2>1. ~Idle /\ line # <<>>
    BY <1>13 DEF CancellationUnconfirmed, Holds, Stops, Idle
  <2>2. origin' = origin /\ \A q \in Used : q \in Used' /\ source'[q] = source[q]
    BY <1>0, <1>13 DEF CancellationUnconfirmed, callFrame, runVars, Used
  <2>3. \/ line' = line \/ line' = Tail(line)
        \/ Holds("steer") /\ line' = [line EXCEPT ![1] = Send(Holder.source, 0)]
    BY <1>13 DEF CancellationUnconfirmed, Leave, CancelDone, Wait
  <2>4. QED BY <1>0, <2>1, <2>2, <2>3, LineMovesOn
<1>14. CASE RoutineDue
  <2>1. origin' = origin /\ \A q \in Used : q \in Used' /\ source'[q] = source[q]
    BY <1>14 DEF RoutineDue, routineFrame, runVars, Used
  <2>2. CASE line' = Append(line, Call("send", 0, "routine", routine.next))
    <3>1. routine.next \in 0..MaxClock
      BY <1>0, <1>14, AgentAssumption DEF RoutineDue
    <3>2. PICK c \in Calls : c = Call("send", 0, "routine", routine.next)
      BY <1>0, <3>1 DEF Calls, Call
    <3>3. CallInv(c)'
      BY <3>2 DEF CallInv, Bypasses, Call
    <3>4. QED BY <1>0, <2>1, <2>2, <3>2, <3>3, LineMovesOn
  <2>3. CASE line' = line
    BY <1>0, <2>1, <2>3, LineMovesOn
  <2>4. QED BY <1>14, <2>2, <2>3 DEF RoutineDue, StartRoutineRun, Enter, Send, lockVars
<1>15. CASE RunNow
  <2>1. origin' = origin /\ \A q \in Used : q \in Used' /\ source'[q] = source[q]
    BY <1>15 DEF RunNow, routineFrame, runVars, Used
  <2>2. CASE line' = Append(line, Call("send", 0, "routine", 0))
    <3>1. 0 \in 0..MaxClock
      BY <1>0, <1>15, AgentAssumption DEF RunNow
    <3>2. PICK c \in Calls : c = Call("send", 0, "routine", 0)
      BY <1>0, <3>1 DEF Calls, Call
    <3>3. CallInv(c)'
      BY <3>2 DEF CallInv, Bypasses, Call
    <3>4. QED BY <1>0, <2>1, <2>2, <3>2, <3>3, LineMovesOn
  <2>3. CASE line' = line
    BY <1>0, <2>1, <2>3, LineMovesOn
  <2>4. QED BY <1>15, <2>2, <2>3 DEF RunNow, StartRoutineRun, Enter, Send, lockVars
<1>16. CASE DeleteRoutine
  <2>1. origin \notin {"sidekick", "whatsapp"} /\ line' = line
    BY <1>16 DEF DeleteRoutine, OriginInv, lockVars
  <2>2. \A q \in Used : q \in Used' /\ source'[q] = source[q]
    BY <1>16 DEF DeleteRoutine, runVars, Used
  <2>3. QED BY <1>0, <2>1, <2>2, LineMovesOn
<1>17. CASE Stop
  BY <1>17 DEF Stop, LineInv
<1>18. CASE Start
  <2>1. line' = line /\ origin' = origin /\ \A q \in Used : q \in Used' /\ source'[q] = source[q]
    BY <1>0, <1>18 DEF Start, Reconciled, Used, Live, lockVars
  <2>2. QED BY <1>0, <2>1, LineMovesOn
<1>19. QED
  BY <1>1, <1>2, <1>3, <1>4, <1>5, <1>6, <1>7, <1>8, <1>9, <1>10, <1>11, <1>12, <1>13, <1>14,
     <1>15, <1>16, <1>17, <1>18 DEF
    Next, Proceeds, RunStep, Comes, vars, runVars, lockVars, routineVars, runFrame,
    callFrame, routineFrame, wakeupFrame, Wait, AskPeerAgent, AskRefused, SendBegins,
    Admissible, PrepareRun, Over, OnChild, Spawned, ScheduleWakeup, Tick, UpdateRoutine,
    CancelWakeup

(* The holder waits only after it has done what PlaceInv asks; nobody undoes it. *)
LEMMA PlaceKept ==
  ASSUME TypeOK, LineInv, RowsInv, PlaceInv, OriginInv, [Next]_vars
  PROVE  PlaceInv'
<1>0. /\ TypeOK /\ line \in Seq(Calls) /\ LineInv /\ RowsInv /\ PlaceInv /\ OriginInv
      /\ status \in [Runs -> RunStatus] /\ stage \in [Runs -> Stage] /\ source \in [Runs -> Source]
      /\ 0 \in 0..MaxClock /\ clock \in 0..MaxClock /\ routine.next \in 0..MaxClock + 1 /\ MaxRuns \in Nat
      /\ Source = {"human", "sidekick", "whatsapp", "agent", "routine", "scheduled_wakeup"}
  BY AgentAssumption DEF TypeOK, Source
<1>1. CASE UNCHANGED <<line, at, origin, status, stage>>
  BY <1>1, <1>0 DEF PlaceInv, Holds, Stops, Holder, Idle, Preparing
<1>2. CASE Comes
  <2>1. /\ UNCHANGED <<at, origin, status>> /\ \E c \in Calls : line' = Append(line, c)
        /\ \A q \in Runs : stage'[q] = stage[q] \/ stage'[q] \in {"finishing", "failing"}
    BY <1>0, <1>2, CallComes
  <2>2. line = <<>> \/ (line' # <<>> /\ Head(line') = Head(line))
    BY <1>0, <2>1, Entered
  <2>3. QED BY <1>0, <2>1, <2>2, PlaceStays DEF Preparing
<1>3. CASE AskAdmitted
  <2>1. PICK r \in Runs : Create(r, "agent", 0, line)
    BY <1>3 DEF AskAdmitted
  <2>2. at' = at /\ origin' = origin
    BY <1>3 DEF AskAdmitted
  <2>3. PICK c \in Calls : line' = Append(line, c)
    BY <1>0, <2>1 DEF Create, Call, Calls
  <2>4. line = <<>> \/ (line' # <<>> /\ Head(line') = Head(line))
    BY <1>0, <2>3, Entered
  <2>5. \A q \in Runs : /\ status[q] \in Ended => status'[q] \in Ended
                        /\ ~Preparing(q) /\ stage[q] # "alive"
                              => stage'[q] \notin {"preparing", "launching", "alive"}
    BY <1>0, <2>1 DEF Create, IsNew, Used, Runs, SetStatus, SetStage, Ended, Preparing
  <2>6. QED BY <1>0, <2>2, <2>4, <2>5, PlaceStays
<1>4. CASE SendRefused
  BY <1>4 DEF SendRefused, Leave, CancelDone, PlaceInv
<1>5. CASE SendBegins
  <2>1. Holds("send") /\ CallInv(Holder) /\ UNCHANGED <<line, origin>> /\ at' = "runtime"
    BY <1>0, <1>5, HolderKnown DEF SendBegins, Holds, Wait, callFrame
  <2>2. origin # "agent"
    BY <1>5, <2>1 DEF SendBegins, Admissible, ReadOnly, CallInv, Bypasses, Holds
  <2>3. QED BY <2>1, <2>2 DEF PlaceInv, Holds, Holder, Idle
<1>6. CASE SendAdmitted
  BY <1>6 DEF SendAdmitted, Leave, CancelDone, PlaceInv
<1>7. CASE StartRun
  BY <1>7 DEF StartRun, Leave, CancelDone, PlaceInv
<1>8. CASE FinishRun
  BY <1>8 DEF FinishRun, Leave, CancelDone, PlaceInv
<1>9. CASE FailRun
  BY <1>9 DEF FailRun, Leave, CancelDone, PlaceInv
<1>10. CASE SteerRefused
  BY <1>10 DEF SteerRefused, Leave, CancelDone, PlaceInv
<1>11. CASE CancelBegins
  <2>1. Stops /\ line # <<>> /\ Holder.run \in Runs /\ status[Holder.run] # "none"
    BY <1>0, <1>11, HolderKnown DEF CancelBegins, Stops, Holds, CallInv, Used
  <2>2. line' = line /\ at' = "preparation"
    BY <1>11 DEF CancelBegins, Wait
  <2>3. status'[Holder.run] \in Ended
    <3>1. CASE Live(Holder.run)
      BY <1>0, <1>11, <2>1, <3>1 DEF CancelBegins, SetStatus, Ended
    <3>2. CASE ~Live(Holder.run)
      BY <1>0, <1>11, <2>1, <3>2 DEF CancelBegins, Live, RunStatus, Ended
    <3>3. QED BY <3>1, <3>2
  <2>4. QED BY <2>1, <2>2, <2>3 DEF PlaceInv, Stops, Holds, Holder, Idle
<1>12. CASE StopChild
  <2>1. CASE at' = "entry"
    BY <2>1 DEF PlaceInv
  <2>2. CASE at' # "entry"
    <3>1. Stops /\ at = "preparation" /\ line # <<>> /\ Holder.run \in Runs /\ status[Holder.run] \in Ended
      BY <1>0, <1>12, HolderKnown DEF StopChild, Stops, Holds, PlaceInv
    <3>2. line' = line /\ at' = "exit" /\ stage'[Holder.run] = "killed" /\ status' = status
      BY <1>0, <1>12, <2>2, <3>1 DEF StopChild, CancelDone, Leave, Wait, SetStage
    <3>3. QED BY <3>1, <3>2 DEF PlaceInv, Stops, Holds, Holder, Idle, Preparing
  <2>3. QED BY <2>1, <2>2
<1>13. CASE ChildGone
  BY <1>13 DEF ChildGone, Leave, CancelDone, PlaceInv
<1>14. CASE CancellationUnconfirmed
  BY <1>14 DEF CancellationUnconfirmed, Leave, CancelDone, PlaceInv
<1>15. CASE \E r \in Runs : PrepareRun(r)
  <2>1. PICK r \in Runs : PrepareRun(r)
    BY <1>15
  <2>2. at' = at /\ origin' = origin
    BY <1>0, <2>1 DEF PrepareRun, runFrame, lockVars, Enter, Fail, StartRoutineRun, runVars
  <2>3. line' = line \/ \E c \in Calls : line' = Append(line, c)
    BY <1>0, <2>1, AgentAssumption DEF PrepareRun, runFrame, lockVars, Enter, Send, Fail,
       StartRoutineRun, Call, Calls
  <2>4. line = <<>> \/ (line' # <<>> /\ Head(line') = Head(line))
    BY <1>0, <2>3, Entered
  <2>5. \A q \in Runs : /\ status[q] \in Ended => status'[q] \in Ended
                        /\ ~Preparing(q) /\ stage[q] # "alive"
                              => stage'[q] \notin {"preparing", "launching", "alive"}
    BY <1>0, <2>1 DEF PrepareRun, runFrame, runVars, Over, Fail, SetStage, SetStatus, Preparing,
       HasChild, Spawned, Ended
  <2>6. QED BY <1>0, <2>2, <2>4, <2>5, PlaceStays
<1>16. CASE \E r \in Runs : OnChild(r)
  <2>1. PICK r \in Runs : OnChild(r)
    BY <1>16
  <2>2. at' = at /\ origin' = origin
    BY <1>0, <2>1 DEF OnChild, runFrame, lockVars, Enter, Fail, StartRoutineRun, runVars
  <2>3. line' = line \/ \E c \in Calls : line' = Append(line, c)
    BY <1>0, <2>1, AgentAssumption DEF OnChild, runFrame, lockVars, Enter, Send, Fail,
       StartRoutineRun, Call, Calls
  <2>4. line = <<>> \/ (line' # <<>> /\ Head(line') = Head(line))
    BY <1>0, <2>3, Entered
  <2>5. \A q \in Runs : /\ status[q] \in Ended => status'[q] \in Ended
                        /\ ~Preparing(q) /\ stage[q] # "alive"
                              => stage'[q] \notin {"preparing", "launching", "alive"}
    BY <1>0, <2>1 DEF OnChild, runFrame, runVars, Over, Fail, SetStage, SetStatus, Preparing,
       HasChild, Spawned, Ended
  <2>6. QED BY <1>0, <2>2, <2>4, <2>5, PlaceStays
<1>17. CASE RoutineDue
  <2>1. RoutineDue
    BY <1>17
  <2>2. at' = at /\ origin' = origin
    BY <1>0, <2>1 DEF RoutineDue, routineFrame, lockVars, Enter, Fail, StartRoutineRun, runVars
  <2>3. line' = line \/ \E c \in Calls : line' = Append(line, c)
    BY <1>0, <2>1, AgentAssumption DEF RoutineDue, routineFrame, lockVars, Enter, Send, Fail,
       StartRoutineRun, Call, Calls
  <2>4. line = <<>> \/ (line' # <<>> /\ Head(line') = Head(line))
    BY <1>0, <2>3, Entered
  <2>5. \A q \in Runs : /\ status[q] \in Ended => status'[q] \in Ended
                        /\ ~Preparing(q) /\ stage[q] # "alive"
                              => stage'[q] \notin {"preparing", "launching", "alive"}
    BY <1>0, <2>1 DEF RoutineDue, routineFrame, runVars, Over, Fail, SetStage, SetStatus,
       Preparing, HasChild, Spawned, Ended
  <2>6. QED BY <1>0, <2>2, <2>4, <2>5, PlaceStays
<1>18. CASE RunNow
  <2>1. RunNow
    BY <1>18
  <2>2. at' = at /\ origin' = origin
    BY <1>0, <2>1 DEF RunNow, routineFrame, lockVars, Enter, Fail, StartRoutineRun, runVars
  <2>3. line' = line \/ \E c \in Calls : line' = Append(line, c)
    BY <1>0, <2>1, AgentAssumption DEF RunNow, routineFrame, lockVars, Enter, Send, Fail,
       StartRoutineRun, Call, Calls
  <2>4. line = <<>> \/ (line' # <<>> /\ Head(line') = Head(line))
    BY <1>0, <2>3, Entered
  <2>5. \A q \in Runs : /\ status[q] \in Ended => status'[q] \in Ended
                        /\ ~Preparing(q) /\ stage[q] # "alive"
                              => stage'[q] \notin {"preparing", "launching", "alive"}
    BY <1>0, <2>1 DEF RunNow, routineFrame, runVars, Over, Fail, SetStage, SetStatus, Preparing,
       HasChild, Spawned, Ended
  <2>6. QED BY <1>0, <2>2, <2>4, <2>5, PlaceStays
<1>19. CASE DeleteRoutine
  <2>1. DeleteRoutine
    BY <1>19
  <2>2. at' = at /\ origin' # "agent"
    BY <1>0, <2>1 DEF DeleteRoutine, runVars, lockVars, Enter, Fail, StartRoutineRun, runVars
  <2>3. line' = line \/ \E c \in Calls : line' = Append(line, c)
    BY <1>0, <2>1, AgentAssumption DEF DeleteRoutine, runVars, lockVars, Enter, Send, Fail,
       StartRoutineRun, Call, Calls
  <2>4. line = <<>> \/ (line' # <<>> /\ Head(line') = Head(line))
    BY <1>0, <2>3, Entered
  <2>5. \A q \in Runs : /\ status[q] \in Ended => status'[q] \in Ended
                        /\ ~Preparing(q) /\ stage[q] # "alive"
                              => stage'[q] \notin {"preparing", "launching", "alive"}
    BY <1>0, <2>1 DEF DeleteRoutine, runVars, runVars, Over, Fail, SetStage, SetStatus,
       Preparing, HasChild, Spawned, Ended
  <2>6. QED BY <1>0, <2>2, <2>4, <2>5, PlaceStays
<1>20. CASE Stop
  BY <1>20 DEF Stop, Leave, CancelDone, PlaceInv
<1>21. CASE Start
  <2>1. Start
    BY <1>21
  <2>2. at' = at /\ origin' = origin
    BY <1>0, <2>1 DEF Start, runVars, lockVars, Enter, Fail, StartRoutineRun, runVars
  <2>3. line' = line \/ \E c \in Calls : line' = Append(line, c)
    BY <1>0, <2>1, AgentAssumption DEF Start, runVars, lockVars, Enter, Send, Fail,
       StartRoutineRun, Call, Calls
  <2>4. line = <<>> \/ (line' # <<>> /\ Head(line') = Head(line))
    BY <1>0, <2>3, Entered
  <2>5. \A q \in Runs : /\ status[q] \in Ended => status'[q] \in Ended
                        /\ ~Preparing(q) /\ stage[q] # "alive"
                              => stage'[q] \notin {"preparing", "launching", "alive"}
    BY <1>0, <2>1 DEF Start, runVars, runVars, Reconciled, Live, Ended, Preparing
  <2>6. QED BY <1>0, <2>2, <2>4, <2>5, PlaceStays
<1>22. QED
  BY <1>1, <1>2, <1>3, <1>4, <1>5, <1>6, <1>7, <1>8, <1>9, <1>10, <1>11, <1>12, <1>13, <1>14,
     <1>15, <1>16, <1>17, <1>18, <1>19, <1>20, <1>21 DEF
    Next, Proceeds, RunStep, Comes, vars, runVars, lockVars, routineVars, runFrame,
    callFrame, routineFrame, wakeupFrame, AskPeerAgent, AskRefused, ScheduleWakeup, Tick,
    UpdateRoutine, CancelWakeup

(* The origin changes with its routine only; a stop leaves no call behind. *)
LEMMA OriginKept ==
  ASSUME TypeOK, RowsInv, OriginInv, [Next]_vars
  PROVE  OriginInv'
<1>0. /\ TypeOK /\ RowsInv /\ OriginInv /\ asking \in Nat
      /\ routine \in [exists : BOOLEAN, enabled : BOOLEAN, next : 0..MaxClock + 1]
  BY DEF TypeOK
<1>1. CASE UNCHANGED <<up, origin, line, asking, routine, stage>>
  BY <1>1, <1>0 DEF OriginInv
<1>2. CASE Comes
  <2>1. up
    BY <1>0, <1>2 DEF Comes, OriginInv, SendMessage, CancelRun, NetworkRevoked, SteerMessage,
       PreparationFails,
                ChildExits, FireWakeup, Preparing, HasChild
  <2>2. UNCHANGED <<up, origin, asking, routine>>
    BY <1>0, <1>2, CallComes
  <2>3. QED BY <1>0, <2>1, <2>2 DEF OriginInv
<1>3. CASE AskPeerAgent
  BY <1>0, <1>3 DEF AskPeerAgent, OriginInv, routineVars
<1>4. CASE AskAdmitted
  BY <1>0, <1>4 DEF AskAdmitted, OriginInv, routineVars
<1>5. CASE AskRefused
  BY <1>0, <1>5 DEF AskRefused, OriginInv, routineVars
<1>6. CASE SendRefused
  <2>1. SendRefused
    BY <1>6
  <2>2. up
    BY <1>0, <2>1 DEF OriginInv, SendRefused, Stops, Holds, Idle
  <2>3. UNCHANGED <<up, origin, asking>> /\ routine'.exists = routine.exists
    BY <1>0, <2>1 DEF SendRefused, callFrame, runFrame, routineFrame, wakeupFrame, lockVars,
       runVars, routineVars, Over, FinishRoutineRun, Rescheduled, StartRoutineRun
  <2>4. QED BY <1>0, <2>2, <2>3 DEF OriginInv
<1>7. CASE SendBegins
  <2>1. SendBegins
    BY <1>7
  <2>2. up
    BY <1>0, <2>1 DEF OriginInv, SendBegins, Stops, Holds, Idle
  <2>3. UNCHANGED <<up, origin, asking>> /\ routine'.exists = routine.exists
    BY <1>0, <2>1 DEF SendBegins, callFrame, runFrame, routineFrame, wakeupFrame, lockVars,
       runVars, routineVars, Over, FinishRoutineRun, Rescheduled, StartRoutineRun
  <2>4. QED BY <1>0, <2>2, <2>3 DEF OriginInv
<1>8. CASE SendAdmitted
  <2>1. SendAdmitted
    BY <1>8
  <2>2. up
    BY <1>0, <2>1 DEF OriginInv, SendAdmitted, Stops, Holds, Idle
  <2>3. UNCHANGED <<up, origin, asking>> /\ routine'.exists = routine.exists
    BY <1>0, <2>1 DEF SendAdmitted, callFrame, runFrame, routineFrame, wakeupFrame, lockVars,
       runVars, routineVars, Over, FinishRoutineRun, Rescheduled, StartRoutineRun
  <2>4. QED BY <1>0, <2>2, <2>3 DEF OriginInv
<1>9. CASE StartRun
  <2>1. StartRun
    BY <1>9
  <2>2. up
    BY <1>0, <2>1 DEF OriginInv, StartRun, Stops, Holds, Idle
  <2>3. UNCHANGED <<up, origin, asking>> /\ routine'.exists = routine.exists
    BY <1>0, <2>1 DEF StartRun, callFrame, runFrame, routineFrame, wakeupFrame, lockVars,
       runVars, routineVars, Over, FinishRoutineRun, Rescheduled, StartRoutineRun
  <2>4. QED BY <1>0, <2>2, <2>3 DEF OriginInv
<1>10. CASE FinishRun
  <2>1. FinishRun
    BY <1>10
  <2>2. up
    BY <1>0, <2>1 DEF OriginInv, FinishRun, Stops, Holds, Idle
  <2>3. UNCHANGED <<up, origin, asking>> /\ routine'.exists = routine.exists
    BY <1>0, <2>1 DEF FinishRun, callFrame, runFrame, routineFrame, wakeupFrame, lockVars,
       runVars, routineVars, Over, FinishRoutineRun, Rescheduled, StartRoutineRun
  <2>4. QED BY <1>0, <2>2, <2>3 DEF OriginInv
<1>11. CASE FailRun
  <2>1. FailRun
    BY <1>11
  <2>2. up
    BY <1>0, <2>1 DEF OriginInv, FailRun, Stops, Holds, Idle
  <2>3. UNCHANGED <<up, origin, asking>> /\ routine'.exists = routine.exists
    BY <1>0, <2>1 DEF FailRun, callFrame, runFrame, routineFrame, wakeupFrame, lockVars,
       runVars, routineVars, Over, FinishRoutineRun, Rescheduled, StartRoutineRun
  <2>4. QED BY <1>0, <2>2, <2>3 DEF OriginInv
<1>12. CASE SteerRefused
  <2>1. SteerRefused
    BY <1>12
  <2>2. up
    BY <1>0, <2>1 DEF OriginInv, SteerRefused, Stops, Holds, Idle
  <2>3. UNCHANGED <<up, origin, asking>> /\ routine'.exists = routine.exists
    BY <1>0, <2>1 DEF SteerRefused, callFrame, runFrame, routineFrame, wakeupFrame, lockVars,
       runVars, routineVars, Over, FinishRoutineRun, Rescheduled, StartRoutineRun
  <2>4. QED BY <1>0, <2>2, <2>3 DEF OriginInv
<1>13. CASE CancelBegins
  <2>1. CancelBegins
    BY <1>13
  <2>2. up
    BY <1>0, <2>1 DEF OriginInv, CancelBegins, Stops, Holds, Idle
  <2>3. UNCHANGED <<up, origin, asking>> /\ routine'.exists = routine.exists
    BY <1>0, <2>1 DEF CancelBegins, callFrame, runFrame, routineFrame, wakeupFrame, lockVars,
       runVars, routineVars, Over, FinishRoutineRun, Rescheduled, StartRoutineRun
  <2>4. QED BY <1>0, <2>2, <2>3 DEF OriginInv
<1>14. CASE StopChild
  <2>1. StopChild
    BY <1>14
  <2>2. up
    BY <1>0, <2>1 DEF OriginInv, StopChild, Stops, Holds, Idle
  <2>3. UNCHANGED <<up, origin, asking>> /\ routine'.exists = routine.exists
    BY <1>0, <2>1 DEF StopChild, callFrame, runFrame, routineFrame, wakeupFrame, lockVars,
       runVars, routineVars, Over, FinishRoutineRun, Rescheduled, StartRoutineRun
  <2>4. QED BY <1>0, <2>2, <2>3 DEF OriginInv
<1>15. CASE ChildGone
  <2>1. ChildGone
    BY <1>15
  <2>2. up
    BY <1>0, <2>1 DEF OriginInv, ChildGone, Stops, Holds, Idle
  <2>3. UNCHANGED <<up, origin, asking>> /\ routine'.exists = routine.exists
    BY <1>0, <2>1 DEF ChildGone, callFrame, runFrame, routineFrame, wakeupFrame, lockVars,
       runVars, routineVars, Over, FinishRoutineRun, Rescheduled, StartRoutineRun
  <2>4. QED BY <1>0, <2>2, <2>3 DEF OriginInv
<1>16. CASE CancellationUnconfirmed
  <2>1. CancellationUnconfirmed
    BY <1>16
  <2>2. up
    BY <1>0, <2>1 DEF OriginInv, CancellationUnconfirmed, Stops, Holds, Idle
  <2>3. UNCHANGED <<up, origin, asking>> /\ routine'.exists = routine.exists
    BY <1>0, <2>1 DEF CancellationUnconfirmed, callFrame, runFrame, routineFrame, wakeupFrame,
       lockVars, runVars, routineVars, Over, FinishRoutineRun, Rescheduled, StartRoutineRun
  <2>4. QED BY <1>0, <2>2, <2>3 DEF OriginInv
<1>17. CASE \E r \in Runs : PrepareRun(r)
  <2>1. PICK r \in Runs : PrepareRun(r)
    BY <1>17
  <2>2. up
    BY <1>0, <2>1 DEF OriginInv, PrepareRun, Preparing, HasChild
  <2>3. UNCHANGED <<up, origin, asking>> /\ routine'.exists = routine.exists
    BY <1>0, <2>1 DEF PrepareRun, callFrame, runFrame, routineFrame, wakeupFrame, lockVars,
       runVars, routineVars, Over, FinishRoutineRun, Rescheduled, StartRoutineRun
  <2>4. QED BY <1>0, <2>2, <2>3 DEF OriginInv
<1>18. CASE \E r \in Runs : OnChild(r)
  <2>1. PICK r \in Runs : OnChild(r)
    BY <1>18
  <2>2. up
    BY <1>0, <2>1 DEF OriginInv, OnChild, Preparing, HasChild
  <2>3. UNCHANGED <<up, origin, asking>> /\ routine'.exists = routine.exists
    BY <1>0, <2>1 DEF OnChild, callFrame, runFrame, routineFrame, wakeupFrame, lockVars,
       runVars, routineVars, Over, FinishRoutineRun, Rescheduled, StartRoutineRun
  <2>4. QED BY <1>0, <2>2, <2>3 DEF OriginInv
<1>19. CASE RoutineDue
  <2>1. RoutineDue
    BY <1>19
  <2>2. up
    BY <1>0, <2>1 DEF OriginInv, RoutineDue
  <2>3. UNCHANGED <<up, origin, asking>> /\ routine'.exists = routine.exists
    BY <1>0, <2>1 DEF RoutineDue, callFrame, runFrame, routineFrame, wakeupFrame, lockVars,
       runVars, routineVars, Over, FinishRoutineRun, Rescheduled, StartRoutineRun
  <2>4. QED BY <1>0, <2>2, <2>3 DEF OriginInv
<1>20. CASE RunNow
  <2>1. RunNow
    BY <1>20
  <2>2. up
    BY <1>0, <2>1 DEF OriginInv, RunNow
  <2>3. UNCHANGED <<up, origin, asking>> /\ routine'.exists = routine.exists
    BY <1>0, <2>1 DEF RunNow, callFrame, runFrame, routineFrame, wakeupFrame, lockVars, runVars,
       routineVars, Over, FinishRoutineRun, Rescheduled, StartRoutineRun
  <2>4. QED BY <1>0, <2>2, <2>3 DEF OriginInv
<1>21. CASE DeleteRoutine
  BY <1>0, <1>21 DEF DeleteRoutine, OriginInv, routineVars
<1>22. CASE \E b \in BOOLEAN : UpdateRoutine(b)
  <2>1. PICK b \in BOOLEAN : UpdateRoutine(b)
    BY <1>22
  <2>2. up
    BY <1>0, <2>1 DEF OriginInv, UpdateRoutine
  <2>3. UNCHANGED <<up, origin, asking>> /\ routine'.exists = routine.exists
    BY <1>0, <2>1 DEF UpdateRoutine, callFrame, runFrame, routineFrame, wakeupFrame, lockVars,
       runVars, routineVars, Over, FinishRoutineRun, Rescheduled, StartRoutineRun
  <2>4. QED BY <1>0, <2>2, <2>3 DEF OriginInv
<1>23. CASE Stop
  BY <1>0, <1>23 DEF Stop, OriginInv, routineVars
<1>24. CASE Start
  BY <1>0, <1>24 DEF Start, OriginInv, routineVars
<1>25. QED
  BY <1>1, <1>2, <1>3, <1>4, <1>5, <1>6, <1>7, <1>8, <1>9, <1>10, <1>11, <1>12, <1>13, <1>14,
     <1>15, <1>16, <1>17, <1>18, <1>19, <1>20, <1>21, <1>22, <1>23, <1>24 DEF
    Next, Proceeds, RunStep, Comes, vars, runVars, lockVars, routineVars, runFrame,
    callFrame, routineFrame, wakeupFrame, ScheduleWakeup, Tick, CancelWakeup

(* A run executes only once it is started, and a cancellation waits for it. *)
LEMMA ActingKept ==
  ASSUME TypeOK, LineInv, RowsInv, PlaceInv, OriginInv, ActingInv, [Next]_vars
  PROVE  ActingInv'
<1>0. /\ TypeOK /\ line \in Seq(Calls) /\ LineInv /\ RowsInv /\ PlaceInv /\ OriginInv /\ ActingInv
      /\ status \in [Runs -> RunStatus] /\ stage \in [Runs -> Stage] /\ source \in [Runs -> Source]
      /\ 0 \in 0..MaxClock /\ clock \in 0..MaxClock /\ routine.next \in 0..MaxClock + 1 /\ MaxRuns \in Nat
      /\ Source = {"human", "sidekick", "whatsapp", "agent", "routine", "scheduled_wakeup"}
  BY AgentAssumption DEF TypeOK, Source
<1>1. CASE UNCHANGED <<line, at, status, stage, lingering>>
  BY <1>1, <1>0 DEF ActingInv, Acting, Preparing, HasChild, Holder, Live
<1>2. CASE Comes
  <2>1. /\ UNCHANGED <<at, status, lingering>> /\ \E c \in Calls : line' = Append(line, c)
        /\ \A q \in Runs : stage'[q] = stage[q] \/ stage'[q] \in {"finishing", "failing"}
    BY <1>0, <1>2, CallComes
  <2>2. QED BY <1>0, <2>1, ActingStays DEF Acting, Preparing, HasChild
<1>3. CASE AskAdmitted
  <2>1. ~Stops /\ lingering' = lingering
    BY <1>0, <1>3, HolderKnown DEF AskAdmitted, OriginInv, Stops, Holds, CallInv
  <2>2. \A q \in Runs \ lingering : Acting(q) => status[q] = "running"
    BY <1>0, <2>1 DEF ActingInv, PlaceInv
  <2>3. \A q \in Runs \ lingering : Acting(q)' => status'[q] = "running"
    <3>1. PICK r \in Runs : Create(r, "agent", 0, line)
      BY <1>3 DEF AskAdmitted
    <3>2. r \notin Used
      BY <1>0, <3>1 DEF Create, IsNew, Runs
    <3>3. QED BY <1>0, <2>2, <3>1, <3>2 DEF Create, RowsInv, Acting, Preparing, HasChild,
                 SetStage, SetStatus
  <2>4. QED BY <2>1, <2>3 DEF ActingInv
<1>4. CASE SendRefused
  <2>1. ~Stops /\ lingering' = lingering
    BY <1>4 DEF SendRefused, Stops, Holds, callFrame
  <2>2. \A q \in Runs \ lingering : Acting(q) => status[q] = "running"
    BY <1>0, <2>1 DEF ActingInv, PlaceInv
  <2>3. \A q \in Runs \ lingering : Acting(q)' => status'[q] = "running"
    BY <1>0, <1>4, <2>2 DEF SendRefused, runVars, Acting, Preparing, HasChild, SetStage, SetStatus
  <2>4. QED BY <2>1, <2>3 DEF ActingInv
<1>5. CASE SendBegins
  <2>1. ~Stops /\ lingering' = lingering
    BY <1>5 DEF SendBegins, Stops, Holds, callFrame
  <2>2. \A q \in Runs \ lingering : Acting(q) => status[q] = "running"
    BY <1>0, <2>1 DEF ActingInv, PlaceInv
  <2>3. \A q \in Runs \ lingering : Acting(q)' => status'[q] = "running"
    BY <1>0, <1>5, <2>2 DEF SendBegins, runVars, Acting, Preparing, HasChild, SetStage, SetStatus
  <2>4. QED BY <2>1, <2>3 DEF ActingInv
<1>6. CASE SendAdmitted
  <2>1. ~Stops /\ lingering' = lingering
    BY <1>6 DEF SendAdmitted, Stops, Holds, callFrame
  <2>2. \A q \in Runs \ lingering : Acting(q) => status[q] = "running"
    BY <1>0, <2>1 DEF ActingInv, PlaceInv
  <2>3. \A q \in Runs \ lingering : Acting(q)' => status'[q] = "running"
    <3>1. PICK r \in Runs : Create(r, Holder.source, Holder.occurrence, Tail(line))
      BY <1>6 DEF SendAdmitted
    <3>2. r \notin Used
      BY <1>0, <3>1 DEF Create, IsNew, Runs
    <3>3. QED BY <1>0, <2>2, <3>1, <3>2 DEF Create, RowsInv, Acting, Preparing, HasChild,
                 SetStage, SetStatus
  <2>4. QED BY <2>1, <2>3 DEF ActingInv
<1>7. CASE StartRun
  <2>1. ~Stops /\ lingering' = lingering
    BY <1>7 DEF StartRun, Stops, Holds, runFrame
  <2>2. \A q \in Runs \ lingering : Acting(q) => status[q] = "running"
    BY <1>0, <2>1 DEF ActingInv, PlaceInv
  <2>3. \A q \in Runs \ lingering : Acting(q)' => status'[q] = "running"
    <3>1. CASE MayStart(Holder.run)
      BY <1>0, <1>7, <2>2, <3>1 DEF StartRun, MayStart, Over, Acting, Preparing, HasChild,
         SetStage, SetStatus
    <3>2. CASE ~MayStart(Holder.run)
      BY <1>0, <1>7, <2>2, <3>2 DEF StartRun, MayStart, Over, Acting, Preparing, HasChild,
         SetStage, SetStatus
    <3>3. QED BY <3>1, <3>2
  <2>4. QED BY <2>1, <2>3 DEF ActingInv
<1>8. CASE FinishRun
  <2>1. ~Stops /\ lingering' = lingering
    BY <1>8 DEF FinishRun, Stops, Holds, runFrame
  <2>2. \A q \in Runs \ lingering : Acting(q) => status[q] = "running"
    BY <1>0, <2>1 DEF ActingInv, PlaceInv
  <2>3. \A q \in Runs \ lingering : Acting(q)' => status'[q] = "running"
    <3>1. CASE Answers(Holder.run)
      BY <1>0, <1>8, <2>2, <3>1 DEF FinishRun, Answers, Over, Acting, Preparing, HasChild,
         SetStage, SetStatus
    <3>2. CASE ~Answers(Holder.run)
      BY <1>0, <1>8, <2>2, <3>2 DEF FinishRun, Answers, Over, Acting, Preparing, HasChild,
         SetStage, SetStatus
    <3>3. QED BY <3>1, <3>2
  <2>4. QED BY <2>1, <2>3 DEF ActingInv
<1>9. CASE FailRun
  <2>1. ~Stops /\ lingering' = lingering
    BY <1>9 DEF FailRun, Stops, Holds, runFrame
  <2>2. \A q \in Runs \ lingering : Acting(q) => status[q] = "running"
    BY <1>0, <2>1 DEF ActingInv, PlaceInv
  <2>3. \A q \in Runs \ lingering : Acting(q)' => status'[q] = "running"
    <3>1. CASE Live(Holder.run)
      BY <1>0, <1>9, <2>2, <3>1 DEF FailRun, Over, Live, Acting, Preparing, HasChild, SetStage,
         SetStatus
    <3>2. CASE ~Live(Holder.run)
      BY <1>0, <1>9, <2>2, <3>2 DEF FailRun, Over, Live, Acting, Preparing, HasChild, SetStage,
         SetStatus
    <3>3. QED BY <3>1, <3>2
  <2>4. QED BY <2>1, <2>3 DEF ActingInv
<1>10. CASE SteerRefused
  <2>1. at = "entry" /\ UNCHANGED <<status, stage, lingering>>
    BY <1>10 DEF SteerRefused, runVars
  <2>2. QED BY <1>0, <2>1 DEF ActingInv, Acting, Preparing, HasChild
<1>11. CASE CancelBegins
  <2>1. /\ at = "entry" /\ UNCHANGED <<line, stage, lingering>> /\ at' = "preparation"
        /\ Holder.run \in Runs
    BY <1>0, <1>11, HolderKnown DEF CancelBegins, Wait, callFrame, Stops, Holds
  <2>2. \A q \in Runs \ lingering : Acting(q) => status[q] = "running"
    BY <1>0, <2>1 DEF ActingInv
  <2>3. CASE Live(Holder.run)
    <3>1. \A q \in Runs : Live(q) => q = Holder.run
      BY <1>0, <2>1, <2>3, NewestLives
    <3>2. \A q \in Runs : ~Live(q)'
      BY <1>0, <1>11, <2>1, <2>3, <3>1 DEF CancelBegins, SetStatus, Live
    <3>3. \A q \in Runs \ lingering : Acting(q) => q = Holder.run
      BY <2>2, <3>1 DEF Live
    <3>4. Holder' = Holder
      BY <2>1 DEF Holder
    <3>5. QED BY <2>1, <3>2, <3>3, <3>4 DEF ActingInv, Acting, Preparing, HasChild
  <2>4. CASE ~Live(Holder.run)
    <3>1. status' = status
      BY <1>11, <2>4 DEF CancelBegins
    <3>2. QED BY <2>1, <2>2, <3>1 DEF ActingInv, Acting, Preparing, HasChild
  <2>5. QED BY <2>3, <2>4
<1>12. CASE StopChild
  <2>1. /\ Stops /\ at = "preparation" /\ Holder.run \in Runs
        /\ UNCHANGED <<status, lingering>> /\ ~Preparing(Holder.run)
    BY <1>0, <1>12, HolderKnown DEF StopChild, Prepared, callFrame, Stops, Holds
  <2>2. CASE HasChild(Holder.run)
    <3>1. line' = line /\ at' = "exit" /\ \A q \in Runs : Acting(q)' => Acting(q)
      BY <1>0, <1>12, <2>1, <2>2 DEF StopChild, Wait, SetStage, Acting, HasChild, Preparing
    <3>2. QED BY <1>0, <2>1, <3>1 DEF ActingInv, Holder, Live
  <2>3. CASE ~HasChild(Holder.run)
    <3>1. stage' = stage
      BY <1>12, <2>3 DEF StopChild
    <3>2. \A q \in Runs \ lingering : Acting(q) => status[q] = "running"
      BY <1>0, <2>1, <2>3 DEF ActingInv, Acting
    <3>3. QED BY <2>1, <3>1, <3>2 DEF ActingInv, Acting, HasChild, Preparing
  <2>4. QED BY <2>2, <2>3
<1>13. CASE ChildGone
  <2>1. /\ Stops /\ at = "exit" /\ UNCHANGED <<status, stage, lingering>>
        /\ ~HasChild(Holder.run) /\ ~Preparing(Holder.run)
    BY <1>0, <1>13 DEF ChildGone, PlaceInv, runVars
  <2>2. \A q \in Runs \ lingering : Acting(q) => status[q] = "running"
    BY <1>0, <2>1 DEF ActingInv, Acting
  <2>3. QED BY <2>1, <2>2 DEF ActingInv, Acting, HasChild, Preparing
<1>14. CASE CancellationUnconfirmed
  <2>1. /\ Stops /\ at = "exit" /\ UNCHANGED <<status, stage>>
        /\ lingering' = lingering \cup {Holder.run}
    BY <1>14 DEF CancellationUnconfirmed, runVars
  <2>2. \A q \in Runs \ lingering' : Acting(q) => status[q] = "running"
    BY <1>0, <2>1 DEF ActingInv
  <2>3. QED BY <2>1, <2>2 DEF ActingInv, Acting, HasChild, Preparing
<1>15. CASE \E r \in Runs : PrepareRun(r)
  <2>1. PICK r \in Runs : PrepareRun(r)
    BY <1>15
  <2>2. at' = at /\ status' = status /\ lingering' = lingering
    BY <1>0, <2>1 DEF PrepareRun, runFrame, lockVars, Enter, Fail, StartRoutineRun, runVars
  <2>3. line' = line \/ \E c \in Calls : line' = Append(line, c)
    BY <1>0, <2>1, AgentAssumption DEF PrepareRun, runFrame, lockVars, Enter, Send, Fail,
       StartRoutineRun, Call, Calls
  <2>4. \A q \in Runs : Acting(q)' => Acting(q)
    BY <1>0, <2>1 DEF PrepareRun, runFrame, runVars, Over, Fail, SetStage, Acting, Preparing,
       HasChild, Spawned
  <2>5. QED BY <1>0, <2>2, <2>3, <2>4, ActingStays
<1>16. CASE \E r \in Runs : OnChild(r)
  <2>1. PICK r \in Runs : OnChild(r)
    BY <1>16
  <2>2. at' = at /\ status' = status /\ lingering' = lingering
    BY <1>0, <2>1 DEF OnChild, runFrame, lockVars, Enter, Fail, StartRoutineRun, runVars
  <2>3. line' = line \/ \E c \in Calls : line' = Append(line, c)
    BY <1>0, <2>1, AgentAssumption DEF OnChild, runFrame, lockVars, Enter, Send, Fail,
       StartRoutineRun, Call, Calls
  <2>4. \A q \in Runs : Acting(q)' => Acting(q)
    BY <1>0, <2>1 DEF OnChild, runFrame, runVars, Over, Fail, SetStage, Acting, Preparing,
       HasChild, Spawned
  <2>5. QED BY <1>0, <2>2, <2>3, <2>4, ActingStays
<1>17. CASE RoutineDue
  <2>1. RoutineDue
    BY <1>17
  <2>2. at' = at /\ status' = status /\ lingering' = lingering
    BY <1>0, <2>1 DEF RoutineDue, routineFrame, lockVars, Enter, Fail, StartRoutineRun, runVars
  <2>3. line' = line \/ \E c \in Calls : line' = Append(line, c)
    BY <1>0, <2>1, AgentAssumption DEF RoutineDue, routineFrame, lockVars, Enter, Send, Fail,
       StartRoutineRun, Call, Calls
  <2>4. \A q \in Runs : Acting(q)' => Acting(q)
    BY <1>0, <2>1 DEF RoutineDue, routineFrame, runVars, Over, Fail, SetStage, Acting,
       Preparing, HasChild, Spawned
  <2>5. QED BY <1>0, <2>2, <2>3, <2>4, ActingStays
<1>18. CASE RunNow
  <2>1. RunNow
    BY <1>18
  <2>2. at' = at /\ status' = status /\ lingering' = lingering
    BY <1>0, <2>1 DEF RunNow, routineFrame, lockVars, Enter, Fail, StartRoutineRun, runVars
  <2>3. line' = line \/ \E c \in Calls : line' = Append(line, c)
    BY <1>0, <2>1, AgentAssumption DEF RunNow, routineFrame, lockVars, Enter, Send, Fail,
       StartRoutineRun, Call, Calls
  <2>4. \A q \in Runs : Acting(q)' => Acting(q)
    BY <1>0, <2>1 DEF RunNow, routineFrame, runVars, Over, Fail, SetStage, Acting, Preparing,
       HasChild, Spawned
  <2>5. QED BY <1>0, <2>2, <2>3, <2>4, ActingStays
<1>19. CASE Stop
  BY <1>19 DEF Stop, ActingInv, Acting, HasChild, Preparing
<1>20. CASE Start
  BY <1>0, <1>20 DEF Start, OriginInv, ActingInv, Acting, HasChild, Preparing
<1>21. QED
  BY <1>1, <1>2, <1>3, <1>4, <1>5, <1>6, <1>7, <1>8, <1>9, <1>10, <1>11, <1>12, <1>13, <1>14,
     <1>15, <1>16, <1>17, <1>18, <1>19, <1>20 DEF
    Next, Proceeds, RunStep, Comes, vars, runVars, lockVars, routineVars, runFrame,
    callFrame, routineFrame, wakeupFrame, AskPeerAgent, AskRefused, ScheduleWakeup,
    DeleteRoutine, Tick, UpdateRoutine, CancelWakeup

(* Nobody but the holder admits a run or lets a process ask for a wakeup. *)
LEMMA WakeKept ==
  ASSUME TypeOK, LineInv, RowsInv, PlaceInv, OriginInv, ActingInv, WakeInv, [Next]_vars
  PROVE  WakeInv'
<1>0. /\ TypeOK /\ line \in Seq(Calls) /\ LineInv /\ RowsInv /\ PlaceInv /\ OriginInv /\ ActingInv /\ WakeInv
      /\ status \in [Runs -> RunStatus] /\ stage \in [Runs -> Stage] /\ source \in [Runs -> Source]
      /\ 0 \in 0..MaxClock /\ clock \in 0..MaxClock /\ routine.next \in 0..MaxClock + 1 /\ MaxRuns \in Nat
      /\ Source = {"human", "sidekick", "whatsapp", "agent", "routine", "scheduled_wakeup"}
  BY AgentAssumption DEF TypeOK, Source
<1>1. CASE UNCHANGED <<line, at, status, wakeup, lingering>>
  BY <1>1, <1>0 DEF WakeInv, Holder, Live
<1>2. CASE Comes
  <2>1. UNCHANGED <<at, status, lingering>> /\ (wakeup' => wakeup) /\ \E c \in Calls : line' = Append(line, c)
    BY <1>0, <1>2, CallComes
  <2>2. QED BY <1>0, <2>1, WakeStays
<1>3. CASE AskAdmitted
  <2>1. at # "runtime"
    BY <1>0, <1>3 DEF AskAdmitted, OriginInv, PlaceInv
  <2>2. QED BY <1>3, <2>1 DEF AskAdmitted, WakeInv
<1>4. CASE SendRefused
  BY <1>4 DEF SendRefused, Leave, CancelDone, WakeInv
<1>5. CASE SendBegins
  <2>1. UNCHANGED <<line, status, wakeup>> /\ ~Busy /\ (wakeup => Scheduled(Holder.source))
    BY <1>5 DEF SendBegins, Admissible, Wait, callFrame, runVars
  <2>2. \A r \in Runs : ~Live(r)
    BY <1>0, <2>1, NewestLives
  <2>3. QED BY <2>1, <2>2 DEF WakeInv, Live, Holder, Scheduled
<1>6. CASE SendAdmitted
  BY <1>6 DEF SendAdmitted, Leave, CancelDone, WakeInv
<1>7. CASE StartRun
  BY <1>7 DEF StartRun, Leave, CancelDone, WakeInv
<1>8. CASE FinishRun
  BY <1>8 DEF FinishRun, Leave, CancelDone, WakeInv
<1>9. CASE FailRun
  BY <1>9 DEF FailRun, Leave, CancelDone, WakeInv
<1>10. CASE SteerRefused
  BY <1>10 DEF SteerRefused, Leave, CancelDone, WakeInv
<1>11. CASE CancelBegins
  BY <1>11 DEF CancelBegins, Leave, CancelDone, Wait, WakeInv
<1>12. CASE StopChild
  BY <1>12 DEF StopChild, Leave, CancelDone, Wait, WakeInv
<1>13. CASE ChildGone
  BY <1>13 DEF ChildGone, Leave, CancelDone, WakeInv
<1>14. CASE CancellationUnconfirmed
  BY <1>14 DEF CancellationUnconfirmed, Leave, CancelDone, WakeInv
<1>15. CASE \E r \in Runs : ScheduleWakeup(r)
  <2>1. PICK r \in Runs : ScheduleWakeup(r)
    BY <1>15
  <2>2. UNCHANGED <<at, line, status, lingering>> /\ HasChild(r)
    BY <2>1 DEF ScheduleWakeup, wakeupFrame, lockVars, runVars
  <2>3. at = "runtime" => r \in lingering
    BY <1>0, <2>2 DEF ActingInv, Acting, WakeInv, Live
  <2>4. QED BY <1>0, <2>2, <2>3 DEF WakeInv, Live, Holder
<1>16. CASE RoutineDue
  <2>1. RoutineDue
    BY <1>16
  <2>2. at' = at /\ status' = status /\ lingering' = lingering /\ (wakeup' => wakeup)
    BY <1>0, <2>1 DEF RoutineDue, routineFrame, lockVars, Enter, Fail, StartRoutineRun, runVars
  <2>3. line' = line \/ \E c \in Calls : line' = Append(line, c)
    BY <1>0, <2>1, AgentAssumption DEF RoutineDue, routineFrame, lockVars, Enter, Send, Fail,
       StartRoutineRun, Call, Calls
  <2>4. QED BY <1>0, <2>2, <2>3, WakeStays
<1>17. CASE RunNow
  <2>1. RunNow
    BY <1>17
  <2>2. at' = at /\ status' = status /\ lingering' = lingering /\ (wakeup' => wakeup)
    BY <1>0, <2>1 DEF RunNow, routineFrame, lockVars, Enter, Fail, StartRoutineRun, runVars
  <2>3. line' = line \/ \E c \in Calls : line' = Append(line, c)
    BY <1>0, <2>1, AgentAssumption DEF RunNow, routineFrame, lockVars, Enter, Send, Fail,
       StartRoutineRun, Call, Calls
  <2>4. QED BY <1>0, <2>2, <2>3, WakeStays
<1>18. CASE CancelWakeup
  <2>1. CancelWakeup
    BY <1>18
  <2>2. at' = at /\ status' = status /\ lingering' = lingering /\ (wakeup' => wakeup)
    BY <1>0, <2>1 DEF CancelWakeup, wakeupFrame, lockVars, Enter, Fail, StartRoutineRun, runVars
  <2>3. line' = line \/ \E c \in Calls : line' = Append(line, c)
    BY <1>0, <2>1, AgentAssumption DEF CancelWakeup, wakeupFrame, lockVars, Enter, Send, Fail,
       StartRoutineRun, Call, Calls
  <2>4. QED BY <1>0, <2>2, <2>3, WakeStays
<1>19. CASE Stop
  BY <1>19 DEF Stop, Leave, CancelDone, WakeInv
<1>20. CASE Start
  <2>1. at # "runtime" /\ at' = at
    BY <1>0, <1>20 DEF Start, OriginInv, PlaceInv, lockVars
  <2>2. QED BY <2>1 DEF WakeInv
<1>21. QED
  BY <1>1, <1>2, <1>3, <1>4, <1>5, <1>6, <1>7, <1>8, <1>9, <1>10, <1>11, <1>12, <1>13, <1>14,
     <1>15, <1>16, <1>17, <1>18, <1>19, <1>20 DEF
    Next, Proceeds, RunStep, Comes, vars, runVars, lockVars, routineVars, runFrame,
    callFrame, routineFrame, wakeupFrame, AskPeerAgent, AskRefused, PrepareRun, Over,
    OnChild, Spawned, DeleteRoutine, Tick, UpdateRoutine

(* An occurrence is sent once, and set again only to one that has not passed. *)
LEMMA OccurrencesKept ==
  ASSUME TypeOK, LineInv, RowsInv, OriginInv, TimerInv, RowOccInv, CallOccInv, [Next]_vars
  PROVE  RowOccInv' /\ CallOccInv'
<1>0. /\ TypeOK /\ line \in Seq(Calls) /\ LineInv /\ RowsInv /\ OriginInv /\ RowOccInv /\ CallOccInv /\ TimerInv
      /\ status \in [Runs -> RunStatus] /\ source \in [Runs -> Source]
      /\ occurrence \in [Runs -> 0..MaxClock] /\ MaxRuns \in Nat
      /\ 0 \in 0..MaxClock /\ clock \in 0..MaxClock /\ clock \in Nat /\ routine.next \in 0..MaxClock + 1
      /\ routine \in [exists : BOOLEAN, enabled : BOOLEAN, next : 0..MaxClock + 1]
      /\ Source = {"human", "sidekick", "whatsapp", "agent", "routine", "scheduled_wakeup"}
  BY AgentAssumption DEF TypeOK, Source
<1>1. CASE UNCHANGED <<occurrence, source, status, line, clock, routine, timer>>
  BY <1>1, <1>0 DEF RowOccInv, CallOccInv, Live, Used
<1>2. CASE Comes
  <2>1. /\ UNCHANGED <<occurrence, source, status, clock, routine, timer>>
        /\ \E c \in Calls : c.occurrence = 0 /\ line' = Append(line, c)
    BY <1>0, <1>2, CallComes
  <2>2. RowOccInv'
    BY <1>0, <2>1, RowOccStays DEF Live, Used
  <2>3. CallOccInv'
    BY <1>0, <2>1, CallOccStays
  <2>4. QED BY <2>2, <2>3
<1>3. CASE AskAdmitted
  <2>1. PICK r \in Runs : Create(r, "agent", 0, line)
    BY <1>3 DEF AskAdmitted
  <2>2. r \notin Used /\ occurrence[r] = 0
    BY <1>0, <2>1 DEF Create, IsNew, Runs, RowOccInv
  <2>3. \A q \in Runs : /\ occurrence'[q] = occurrence[q]
                        /\ occurrence[q] # 0 => source'[q] = source[q] /\ (q \in Used => q \in Used')
    BY <1>0, <2>1, <2>2 DEF Create, SetStatus, Used
  <2>4. UNCHANGED <<clock, routine, timer>> /\ \A q \in Runs : occurrence[q] # 0 /\ Live(q) => Live(q)'
    BY <1>0, <1>3, <2>1, <2>2 DEF AskAdmitted, Create, SetStatus, Live, routineVars
  <2>5. RowOccInv'
    BY <1>0, <2>3, <2>4, RowOccStays DEF Live
  <2>6. PICK c \in Calls : c = Call("start", r, "agent", 0)
    BY <1>0 DEF Calls, Call
  <2>7. line' = Append(line, c) /\ c.occurrence = 0
    BY <2>1, <2>6 DEF Create, Call
  <2>8. CallOccInv'
    BY <1>0, <2>3, <2>4, <2>7, CallOccStays
  <2>9. QED BY <2>5, <2>8
<1>4. CASE SendRefused
  <2>1. SendRefused
    BY <1>4
  <2>2. /\ clock' \in Nat /\ clock <= clock'
        /\ \A q \in Runs : /\ occurrence'[q] = occurrence[q]
                           /\ occurrence[q] # 0 => source'[q] = source[q] /\ (q \in Used => q \in Used')
    BY <1>0, <2>1 DEF SendRefused, routineVars, lockVars, runVars, callFrame, runFrame,
       routineFrame, wakeupFrame, SetStatus, Used
  <2>3. \/ /\ routine'.next = routine.next /\ routine'.exists = routine.exists /\ (timer' => timer)
           /\ \A q \in Runs : occurrence[q] # 0 /\ routine'.exists /\ Live(q) => Live(q)'
        \/ routine'.next \in {0, clock + 1}
    BY <1>0, <2>1, RoutineFinished DEF SendRefused, routineVars, lockVars, runVars, callFrame,
       runFrame, routineFrame, wakeupFrame, Live
  <2>4. RowOccInv'
    BY <1>0, <2>2, <2>3, RowOccStays DEF Live
  <2>5. line # <<>> /\ line' = Tail(line)
    BY <1>0, <2>1 DEF SendRefused, Leave, Holds, Idle
  <2>6. CallOccInv'
    BY <1>0, <2>2, <2>3, <2>5, CallOccStays
  <2>7. QED BY <2>4, <2>6
<1>5. CASE SendAdmitted
  <2>1. PICK r \in Runs : Create(r, Holder.source, Holder.occurrence, Tail(line))
    BY <1>5 DEF SendAdmitted
  <2>2. r \notin Used /\ occurrence[r] = 0
    BY <1>0, <2>1 DEF Create, IsNew, Runs, RowOccInv
  <2>3. Holder \in Calls /\ Holder = line[1] /\ 1 \in DOMAIN line /\ line # <<>>
    BY <1>0, <1>5, HolderKnown DEF SendAdmitted, Holds
  <2>4. /\ UNCHANGED <<clock, routine, timer>> /\ Live(r)'
        /\ \A q \in Runs : (q \in Used => q \in Used') /\ (Live(q) => Live(q)')
    BY <1>0, <1>5, <2>1 DEF SendAdmitted, callFrame, Create, SetStatus, Used, Live, routineVars
  <2>5. occurrence' = [occurrence EXCEPT ![r] = Holder.occurrence] /\ source' = [source EXCEPT ![r] = Holder.source]
    BY <2>1 DEF Create
  <2>6. RowOccInv'
    <3>1. Holder.occurrence \in 0..MaxClock
      BY <2>3, CallParts
    <3>2. Holder.occurrence # 0 => /\ Holder.occurrence <= clock /\ Holder.source = "routine"
                                   /\ \A q \in Runs : occurrence[q] # Holder.occurrence
      BY <2>3 DEF CallOccInv
    <3>3. r \in Used'
      BY <2>4 DEF Used, Live
    <3>4. SUFFICES ASSUME NEW p \in Runs, occurrence'[p] # 0
                   PROVE  /\ occurrence'[p] <= clock' /\ source'[p] = "routine" /\ p \in Used'
                          /\ routine'.exists /\ occurrence'[p] = routine'.next => Live(p)'
                          /\ \A q \in Runs : occurrence'[q] = occurrence'[p] => q = p
      BY DEF RowOccInv, Live
    <3>5. CASE p = r
      BY <1>0, <2>4, <2>5, <3>2, <3>3, <3>4, <3>5
    <3>6. CASE p # r
      BY <1>0, <2>4, <2>5, <3>2, <3>4, <3>6 DEF RowOccInv
    <3>7. QED BY <3>5, <3>6
  <2>7. CallOccInv'
    <3>1. PICK c \in Calls : c = Call("start", r, Holder.source, 0)
      BY <1>0, <2>3, CallParts DEF Calls, Call
    <3>2. line' = Append(Tail(line), c) /\ c.occurrence = 0
      BY <2>1, <3>1 DEF Create, Call
    <3>3. /\ Tail(line) \in Seq(Calls)
          /\ \A i \in DOMAIN Tail(line) : i + 1 \in DOMAIN line /\ Tail(line)[i] = line[i + 1] /\ i \in Nat /\ i + 1 # 1
      BY <1>0, <2>3, Left
    <3>4. \A i \in DOMAIN line' : line'[i].occurrence # 0 => i \in DOMAIN Tail(line) /\ line'[i] = Tail(line)[i]
      BY <3>2, <3>3, Entered
    <3>5. SUFFICES ASSUME NEW i \in DOMAIN line', line'[i].occurrence # 0
                   PROVE  /\ line'[i].occurrence <= clock' /\ line'[i].op = "send" /\ line'[i].source = "routine"
                          /\ timer' => line'[i].occurrence # routine'.next
                          /\ \A q \in Runs : occurrence'[q] # line'[i].occurrence
                          /\ \A j \in DOMAIN line' : line'[j].occurrence = line'[i].occurrence => j = i
      BY DEF CallOccInv
    <3>6. i \in Nat /\ i + 1 \in DOMAIN line /\ i + 1 # 1 /\ line'[i] = line[i + 1]
      BY <3>3, <3>4, <3>5
    <3>7. /\ line'[i].occurrence <= clock' /\ line'[i].op = "send" /\ line'[i].source = "routine"
          /\ timer' => line'[i].occurrence # routine'.next
      BY <2>4, <3>5, <3>6 DEF CallOccInv
    <3>8. \A q \in Runs : occurrence'[q] # line'[i].occurrence
      BY <1>0, <2>3, <2>5, <3>5, <3>6 DEF CallOccInv
    <3>9. ASSUME NEW j \in DOMAIN line', line'[j].occurrence = line'[i].occurrence
          PROVE  j = i
      <4>1. j \in Nat /\ j + 1 \in DOMAIN line /\ line'[j] = line[j + 1]
        BY <3>3, <3>4, <3>5, <3>9
      <4>2. j + 1 = i + 1
        BY <3>5, <3>6, <3>9, <4>1 DEF CallOccInv
      <4>3. QED BY <3>6, <4>1, <4>2
    <3>10. QED BY <3>7, <3>8, <3>9
  <2>8. QED BY <2>6, <2>7
<1>6. CASE StartRun
  <2>1. StartRun
    BY <1>6
  <2>2. /\ clock' \in Nat /\ clock <= clock'
        /\ \A q \in Runs : /\ occurrence'[q] = occurrence[q]
                           /\ occurrence[q] # 0 => source'[q] = source[q] /\ (q \in Used => q \in Used')
    BY <1>0, <2>1 DEF StartRun, routineVars, lockVars, runVars, callFrame, runFrame,
       routineFrame, wakeupFrame, SetStatus, Used, MayStart
  <2>3. \/ /\ routine'.next = routine.next /\ routine'.exists = routine.exists /\ (timer' => timer)
           /\ \A q \in Runs : occurrence[q] # 0 /\ routine'.exists /\ Live(q) => Live(q)'
        \/ routine'.next \in {0, clock + 1}
    <3>1. Holder.run \in Runs
      BY <1>0, <2>1, HolderKnown DEF StartRun, Holds
    <3>2. \A q \in Runs : q # Holder.run /\ Live(q) => Live(q)'
      BY <1>0, <2>1 DEF StartRun, Live, SetStatus, Over, MayStart
    <3>3. FinishRoutineRun(source[Holder.run]) \/ (UNCHANGED <<routine, timer>> /\ \A q \in Runs : Live(q) => Live(q)')
      BY <1>0, <2>1, <3>1 DEF StartRun, Over, Live, SetStatus, routineVars, MayStart
    <3>4. CASE UNCHANGED <<routine, timer>> /\ \A q \in Runs : Live(q) => Live(q)'
      BY <3>4
    <3>5. CASE FinishRoutineRun(source[Holder.run])
      BY <1>0, <3>1, <3>2, <3>5, RoutineFinished DEF RowOccInv
    <3>6. QED BY <3>3, <3>4, <3>5
  <2>4. RowOccInv'
    BY <1>0, <2>2, <2>3, RowOccStays DEF Live
  <2>5. line # <<>> /\ line' = Tail(line)
    BY <1>0, <2>1 DEF StartRun, Leave, Holds, Idle
  <2>6. CallOccInv'
    BY <1>0, <2>2, <2>3, <2>5, CallOccStays
  <2>7. QED BY <2>4, <2>6
<1>7. CASE FinishRun
  <2>1. FinishRun
    BY <1>7
  <2>2. /\ clock' \in Nat /\ clock <= clock'
        /\ \A q \in Runs : /\ occurrence'[q] = occurrence[q]
                           /\ occurrence[q] # 0 => source'[q] = source[q] /\ (q \in Used => q \in Used')
    BY <1>0, <2>1 DEF FinishRun, routineVars, lockVars, runVars, callFrame, runFrame,
       routineFrame, wakeupFrame, SetStatus, Used, Answers
  <2>3. \/ /\ routine'.next = routine.next /\ routine'.exists = routine.exists /\ (timer' => timer)
           /\ \A q \in Runs : occurrence[q] # 0 /\ routine'.exists /\ Live(q) => Live(q)'
        \/ routine'.next \in {0, clock + 1}
    <3>1. Holder.run \in Runs
      BY <1>0, <2>1, HolderKnown DEF FinishRun, Holds
    <3>2. \A q \in Runs : q # Holder.run /\ Live(q) => Live(q)'
      BY <1>0, <2>1 DEF FinishRun, Live, SetStatus, Over, Answers
    <3>3. FinishRoutineRun(source[Holder.run]) \/ (UNCHANGED <<routine, timer>> /\ \A q \in Runs : Live(q) => Live(q)')
      BY <1>0, <2>1, <3>1 DEF FinishRun, Over, Live, SetStatus, routineVars, Answers
    <3>4. CASE UNCHANGED <<routine, timer>> /\ \A q \in Runs : Live(q) => Live(q)'
      BY <3>4
    <3>5. CASE FinishRoutineRun(source[Holder.run])
      BY <1>0, <3>1, <3>2, <3>5, RoutineFinished DEF RowOccInv
    <3>6. QED BY <3>3, <3>4, <3>5
  <2>4. RowOccInv'
    BY <1>0, <2>2, <2>3, RowOccStays DEF Live
  <2>5. line # <<>> /\ line' = Tail(line)
    BY <1>0, <2>1 DEF FinishRun, Leave, Holds, Idle
  <2>6. CallOccInv'
    BY <1>0, <2>2, <2>3, <2>5, CallOccStays
  <2>7. QED BY <2>4, <2>6
<1>8. CASE FailRun
  <2>1. FailRun
    BY <1>8
  <2>2. /\ clock' \in Nat /\ clock <= clock'
        /\ \A q \in Runs : /\ occurrence'[q] = occurrence[q]
                           /\ occurrence[q] # 0 => source'[q] = source[q] /\ (q \in Used => q \in Used')
    BY <1>0, <2>1 DEF FailRun, routineVars, lockVars, runVars, callFrame, runFrame,
       routineFrame, wakeupFrame, SetStatus, Used, Over
  <2>3. \/ /\ routine'.next = routine.next /\ routine'.exists = routine.exists /\ (timer' => timer)
           /\ \A q \in Runs : occurrence[q] # 0 /\ routine'.exists /\ Live(q) => Live(q)'
        \/ routine'.next \in {0, clock + 1}
    <3>1. Holder.run \in Runs
      BY <1>0, <2>1, HolderKnown DEF FailRun, Holds
    <3>2. \A q \in Runs : q # Holder.run /\ Live(q) => Live(q)'
      BY <1>0, <2>1 DEF FailRun, Live, SetStatus, Over
    <3>3. FinishRoutineRun(source[Holder.run]) \/ (UNCHANGED <<routine, timer>> /\ \A q \in Runs : Live(q) => Live(q)')
      BY <1>0, <2>1, <3>1 DEF FailRun, Over, Live, SetStatus, routineVars, Over
    <3>4. CASE UNCHANGED <<routine, timer>> /\ \A q \in Runs : Live(q) => Live(q)'
      BY <3>4
    <3>5. CASE FinishRoutineRun(source[Holder.run])
      BY <1>0, <3>1, <3>2, <3>5, RoutineFinished DEF RowOccInv
    <3>6. QED BY <3>3, <3>4, <3>5
  <2>4. RowOccInv'
    BY <1>0, <2>2, <2>3, RowOccStays DEF Live
  <2>5. line # <<>> /\ line' = Tail(line)
    BY <1>0, <2>1 DEF FailRun, Leave, Holds, Idle
  <2>6. CallOccInv'
    BY <1>0, <2>2, <2>3, <2>5, CallOccStays
  <2>7. QED BY <2>4, <2>6
<1>9. CASE SteerRefused
  <2>1. SteerRefused
    BY <1>9
  <2>2. /\ clock' \in Nat /\ clock <= clock'
        /\ \A q \in Runs : /\ occurrence'[q] = occurrence[q]
                           /\ occurrence[q] # 0 => source'[q] = source[q] /\ (q \in Used => q \in Used')
    BY <1>0, <2>1 DEF SteerRefused, routineVars, lockVars, runVars, callFrame, runFrame,
       routineFrame, wakeupFrame, SetStatus, Used
  <2>3. \/ /\ routine'.next = routine.next /\ routine'.exists = routine.exists /\ (timer' => timer)
           /\ \A q \in Runs : occurrence[q] # 0 /\ routine'.exists /\ Live(q) => Live(q)'
        \/ routine'.next \in {0, clock + 1}
    BY <1>0, <2>1 DEF SteerRefused, routineVars, lockVars, runVars, callFrame, runFrame,
       routineFrame, wakeupFrame, Live
  <2>4. RowOccInv'
    BY <1>0, <2>2, <2>3, RowOccStays DEF Live
  <2>5. line # <<>> /\ line' = Tail(line)
    BY <1>0, <2>1 DEF SteerRefused, Leave, Stops, Holds, Idle
  <2>6. CallOccInv'
    BY <1>0, <2>2, <2>3, <2>5, CallOccStays
  <2>7. QED BY <2>4, <2>6
<1>10. CASE CancelBegins
  <2>1. CancelBegins
    BY <1>10
  <2>2. /\ clock' \in Nat /\ clock <= clock'
        /\ \A q \in Runs : /\ occurrence'[q] = occurrence[q]
                           /\ occurrence[q] # 0 => source'[q] = source[q] /\ (q \in Used => q \in Used')
    BY <1>0, <2>1 DEF CancelBegins, routineVars, lockVars, runVars, callFrame, runFrame,
       routineFrame, wakeupFrame, SetStatus, Used, RunStatus
  <2>3. \/ /\ routine'.next = routine.next /\ routine'.exists = routine.exists /\ (timer' => timer)
           /\ \A q \in Runs : occurrence[q] # 0 /\ routine'.exists /\ Live(q) => Live(q)'
        \/ routine'.next \in {0, clock + 1}
    <3>1. Holder.op \in {"cancel", "steer"} /\ CallInv(Holder)
      BY <1>0, <2>1, HolderKnown DEF CancelBegins, Stops, Holds
    <3>2. ~routine.exists
      BY <1>0, <3>1 DEF OriginInv, CallInv
    <3>3. UNCHANGED <<routine, timer>>
      BY <2>1 DEF CancelBegins, routineVars
    <3>4. QED BY <3>2, <3>3
  <2>4. RowOccInv'
    BY <1>0, <2>2, <2>3, RowOccStays DEF Live
  <2>5. line' = line
    BY <2>1 DEF CancelBegins, lockVars, routineFrame, wakeupFrame, Wait
  <2>6. CallOccInv'
    BY <1>0, <2>2, <2>3, <2>5, CallOccStays
  <2>7. QED BY <2>4, <2>6
<1>11. CASE StopChild
  <2>1. StopChild
    BY <1>11
  <2>2. /\ clock' \in Nat /\ clock <= clock'
        /\ \A q \in Runs : /\ occurrence'[q] = occurrence[q]
                           /\ occurrence[q] # 0 => source'[q] = source[q] /\ (q \in Used => q \in Used')
    BY <1>0, <2>1 DEF StopChild, routineVars, lockVars, runVars, callFrame, runFrame,
       routineFrame, wakeupFrame, Used
  <2>3. \/ /\ routine'.next = routine.next /\ routine'.exists = routine.exists /\ (timer' => timer)
           /\ \A q \in Runs : occurrence[q] # 0 /\ routine'.exists /\ Live(q) => Live(q)'
        \/ routine'.next \in {0, clock + 1}
    BY <1>0, <2>1 DEF StopChild, routineVars, lockVars, runVars, callFrame, runFrame,
       routineFrame, wakeupFrame, Live
  <2>4. RowOccInv'
    BY <1>0, <2>2, <2>3, RowOccStays DEF Live
  <2>5. \/ line' = line \/ (line # <<>> /\ line' = Tail(line))
        \/ line # <<>> /\ \E c \in Calls : c.occurrence = 0 /\ line' = [line EXCEPT ![1] = c]
    <3>1. line # <<>> /\ Holder.source \in Source
      BY <1>0, <2>1, HolderKnown DEF StopChild, Stops, Holds
    <3>2. PICK c \in Calls : c = Send(Holder.source, 0)
      BY <1>0, <3>1 DEF Calls, Call, Send
    <3>3. c.occurrence = 0
      BY <3>2 DEF Call, Send
    <3>4. QED BY <2>1, <3>1, <3>2, <3>3 DEF StopChild, CancelDone, Leave, Wait
  <2>6. CallOccInv'
    BY <1>0, <2>2, <2>3, <2>5, CallOccStays
  <2>7. QED BY <2>4, <2>6
<1>12. CASE ChildGone
  <2>1. ChildGone
    BY <1>12
  <2>2. /\ clock' \in Nat /\ clock <= clock'
        /\ \A q \in Runs : /\ occurrence'[q] = occurrence[q]
                           /\ occurrence[q] # 0 => source'[q] = source[q] /\ (q \in Used => q \in Used')
    BY <1>0, <2>1 DEF ChildGone, routineVars, lockVars, runVars, callFrame, runFrame,
       routineFrame, wakeupFrame, Used
  <2>3. \/ /\ routine'.next = routine.next /\ routine'.exists = routine.exists /\ (timer' => timer)
           /\ \A q \in Runs : occurrence[q] # 0 /\ routine'.exists /\ Live(q) => Live(q)'
        \/ routine'.next \in {0, clock + 1}
    BY <1>0, <2>1 DEF ChildGone, routineVars, lockVars, runVars, callFrame, runFrame,
       routineFrame, wakeupFrame, Live
  <2>4. RowOccInv'
    BY <1>0, <2>2, <2>3, RowOccStays DEF Live
  <2>5. \/ line' = line \/ (line # <<>> /\ line' = Tail(line))
        \/ line # <<>> /\ \E c \in Calls : c.occurrence = 0 /\ line' = [line EXCEPT ![1] = c]
    <3>1. line # <<>> /\ Holder.source \in Source
      BY <1>0, <2>1, HolderKnown DEF ChildGone, Stops, Holds
    <3>2. PICK c \in Calls : c = Send(Holder.source, 0)
      BY <1>0, <3>1 DEF Calls, Call, Send
    <3>3. c.occurrence = 0
      BY <3>2 DEF Call, Send
    <3>4. QED BY <2>1, <3>1, <3>2, <3>3 DEF ChildGone, CancelDone, Leave, Wait
  <2>6. CallOccInv'
    BY <1>0, <2>2, <2>3, <2>5, CallOccStays
  <2>7. QED BY <2>4, <2>6
<1>13. CASE CancellationUnconfirmed
  <2>1. CancellationUnconfirmed
    BY <1>13
  <2>2. /\ clock' \in Nat /\ clock <= clock'
        /\ \A q \in Runs : /\ occurrence'[q] = occurrence[q]
                           /\ occurrence[q] # 0 => source'[q] = source[q] /\ (q \in Used => q \in Used')
    BY <1>0, <2>1 DEF CancellationUnconfirmed, routineVars, lockVars, runVars, callFrame,
       runFrame, routineFrame, wakeupFrame, SetStatus, Used
  <2>3. \/ /\ routine'.next = routine.next /\ routine'.exists = routine.exists /\ (timer' => timer)
           /\ \A q \in Runs : occurrence[q] # 0 /\ routine'.exists /\ Live(q) => Live(q)'
        \/ routine'.next \in {0, clock + 1}
    BY <1>0, <2>1 DEF CancellationUnconfirmed, routineVars, lockVars, runVars, callFrame,
       runFrame, routineFrame, wakeupFrame, Live
  <2>4. RowOccInv'
    BY <1>0, <2>2, <2>3, RowOccStays DEF Live
  <2>5. line # <<>> /\ line' = Tail(line)
    BY <1>0, <2>1 DEF CancellationUnconfirmed, Leave, Stops, Holds, Idle
  <2>6. CallOccInv'
    BY <1>0, <2>2, <2>3, <2>5, CallOccStays
  <2>7. QED BY <2>4, <2>6
<1>14. CASE \E r \in Runs : PrepareRun(r)
  <2>1. PICK r \in Runs : PrepareRun(r)
    BY <1>14
  <2>2. /\ clock' \in Nat /\ clock <= clock'
        /\ \A q \in Runs : /\ occurrence'[q] = occurrence[q]
                           /\ occurrence[q] # 0 => source'[q] = source[q] /\ (q \in Used => q \in Used')
    BY <1>0, <2>1 DEF PrepareRun, routineVars, lockVars, runVars, callFrame, runFrame,
       routineFrame, wakeupFrame, Used
  <2>3. \/ /\ routine'.next = routine.next /\ routine'.exists = routine.exists /\ (timer' => timer)
           /\ \A q \in Runs : occurrence[q] # 0 /\ routine'.exists /\ Live(q) => Live(q)'
        \/ routine'.next \in {0, clock + 1}
    <3>1. FinishRoutineRun(source[r]) \/ UNCHANGED <<routine, timer>>
      BY <2>1 DEF PrepareRun, Over, routineVars
    <3>2. \A q \in Runs : Live(q) => Live(q)'
      BY <2>1 DEF PrepareRun, Live
    <3>3. QED BY <1>0, <3>1, <3>2, RoutineFinished
  <2>4. RowOccInv'
    BY <1>0, <2>2, <2>3, RowOccStays DEF Live
  <2>5. line' = line
    BY <2>1 DEF PrepareRun, lockVars
  <2>6. CallOccInv'
    BY <1>0, <2>2, <2>3, <2>5, CallOccStays
  <2>7. QED BY <2>4, <2>6
<1>15. CASE RoutineDue
  <2>1. UNCHANGED <<status, source, occurrence, clock>> /\ timer /\ routine.next <= clock
    BY <1>15 DEF RoutineDue, routineFrame, runVars
  <2>2. CASE FinishRoutineRun("routine") /\ line' = line
    <3>1. \/ routine'.next = routine.next /\ routine'.exists = routine.exists /\ (timer' => timer)
          \/ routine'.next \in {0, clock + 1}
      BY <1>0, <2>2, RoutineFinished
    <3>2. \A q \in Runs : Live(q) => Live(q)'
      BY <2>1 DEF Live
    <3>3. RowOccInv'
      BY <1>0, <2>1, <3>1, <3>2, RowOccStays DEF Live, Used
    <3>4. CallOccInv'
      BY <1>0, <2>1, <2>2, <3>1, CallOccStays
    <3>5. QED BY <3>3, <3>4
  <2>3. CASE ~Busy /\ line' = Append(line, Call("send", 0, "routine", routine.next)) /\ ~timer' /\ routine' = routine
    <3>1. RowOccInv'
      BY <2>1, <2>3 DEF RowOccInv, Live, Used
    <3>2. PICK c \in Calls : c = Call("send", 0, "routine", routine.next)
      <4>1. routine.next \in 0..MaxClock
        BY <1>0, <2>1, AgentAssumption
      <4>2. QED BY <1>0, <4>1 DEF Calls, Call
    <3>3. c.op = "send" /\ c.source = "routine" /\ c.occurrence = routine.next
      BY <3>2 DEF Call
    <3>4. routine.exists => \A q \in Runs : routine.next # 0 => occurrence[q] # routine.next
      BY <1>0, <2>3, NewestLives DEF RowOccInv
    <3>5. routine.exists
      BY <1>0, <2>1 DEF TimerInv
    <3>6. line' = Append(line, c)
      BY <2>3, <3>2
    <3>7. ASSUME NEW i \in DOMAIN line', line'[i].occurrence # 0
          PROVE  /\ line'[i].occurrence <= clock' /\ line'[i].op = "send" /\ line'[i].source = "routine"
                 /\ \A r \in Runs : occurrence'[r] # line'[i].occurrence
                 /\ \A j \in DOMAIN line' : line'[j].occurrence = line'[i].occurrence => j = i
      <4>1. CASE i \in DOMAIN line
        <5>1. line'[i] = line[i] /\ line[i].occurrence # routine.next
          BY <1>0, <2>1, <3>6, <3>7, <4>1, Entered DEF CallOccInv
        <5>2. \A j \in DOMAIN line' : line'[j].occurrence = line'[i].occurrence => j = i
          BY <1>0, <3>3, <3>6, <3>7, <4>1, <5>1, Entered DEF CallOccInv
        <5>3. QED BY <1>0, <2>1, <3>7, <4>1, <5>1, <5>2 DEF CallOccInv
      <4>2. CASE i \notin DOMAIN line
        <5>1. line'[i] = c
          BY <1>0, <3>6, <4>2, Entered
        <5>2. \A j \in DOMAIN line' : line'[j].occurrence = line'[i].occurrence => j = i
          BY <1>0, <2>1, <3>3, <3>6, <3>7, <4>2, <5>1, Entered DEF CallOccInv
        <5>3. QED BY <1>0, <2>1, <3>3, <3>4, <3>5, <3>7, <5>1, <5>2
      <4>3. QED BY <4>1, <4>2
    <3>8. CallOccInv'
      BY <2>3, <3>7 DEF CallOccInv
    <3>9. QED BY <3>1, <3>8
  <2>4. QED BY <1>15, <2>2, <2>3 DEF RoutineDue, StartRoutineRun, Enter, Send, lockVars
<1>16. CASE RunNow
  <2>1. RunNow
    BY <1>16
  <2>2. /\ clock' \in Nat /\ clock <= clock'
        /\ \A q \in Runs : /\ occurrence'[q] = occurrence[q]
                           /\ occurrence[q] # 0 => source'[q] = source[q] /\ (q \in Used => q \in Used')
    BY <1>0, <2>1 DEF RunNow, routineVars, lockVars, runVars, callFrame, runFrame, routineFrame,
       wakeupFrame, Used
  <2>3. \/ /\ routine'.next = routine.next /\ routine'.exists = routine.exists /\ (timer' => timer)
           /\ \A q \in Runs : occurrence[q] # 0 /\ routine'.exists /\ Live(q) => Live(q)'
        \/ routine'.next \in {0, clock + 1}
    <3>1. FinishRoutineRun("routine") \/ (timer' = timer /\ routine' = routine)
      BY <2>1 DEF RunNow, StartRoutineRun
    <3>2. \A q \in Runs : Live(q) => Live(q)'
      BY <2>1 DEF RunNow, routineFrame, runVars, Live
    <3>3. QED BY <1>0, <3>1, <3>2, RoutineFinished
  <2>4. RowOccInv'
    BY <1>0, <2>2, <2>3, RowOccStays DEF Live
  <2>5. line' = line \/ \E c \in Calls : c.occurrence = 0 /\ line' = Append(line, c)
    <3>1. PICK c \in Calls : c = Call("send", 0, "routine", 0)
      BY <1>0 DEF Calls, Call
    <3>2. c.occurrence = 0
      BY <3>1 DEF Call
    <3>3. QED BY <2>1, <3>1, <3>2 DEF RunNow, StartRoutineRun, lockVars, Enter, Send
  <2>6. CallOccInv'
    BY <1>0, <2>2, <2>3, <2>5, CallOccStays
  <2>7. QED BY <2>4, <2>6
<1>17. CASE DeleteRoutine
  <2>1. DeleteRoutine
    BY <1>17
  <2>2. /\ clock' \in Nat /\ clock <= clock'
        /\ \A q \in Runs : /\ occurrence'[q] = occurrence[q]
                           /\ occurrence[q] # 0 => source'[q] = source[q] /\ (q \in Used => q \in Used')
    BY <1>0, <2>1 DEF DeleteRoutine, routineVars, lockVars, runVars, callFrame, runFrame,
       routineFrame, wakeupFrame, Used
  <2>3. \/ /\ routine'.next = routine.next /\ routine'.exists = routine.exists /\ (timer' => timer)
           /\ \A q \in Runs : occurrence[q] # 0 /\ routine'.exists /\ Live(q) => Live(q)'
        \/ routine'.next \in {0, clock + 1}
    BY <1>0, <2>1 DEF DeleteRoutine
  <2>4. RowOccInv'
    BY <1>0, <2>2, <2>3, RowOccStays DEF Live
  <2>5. line' = line
    BY <2>1 DEF DeleteRoutine, lockVars, routineFrame, wakeupFrame, Wait
  <2>6. CallOccInv'
    BY <1>0, <2>2, <2>3, <2>5, CallOccStays
  <2>7. QED BY <2>4, <2>6
<1>18. CASE Tick
  <2>1. Tick
    BY <1>18
  <2>2. /\ clock' \in Nat /\ clock <= clock'
        /\ \A q \in Runs : /\ occurrence'[q] = occurrence[q]
                           /\ occurrence[q] # 0 => source'[q] = source[q] /\ (q \in Used => q \in Used')
    BY <1>0, <2>1 DEF Tick, routineVars, lockVars, runVars, callFrame, runFrame, routineFrame,
       wakeupFrame, Used
  <2>3. \/ /\ routine'.next = routine.next /\ routine'.exists = routine.exists /\ (timer' => timer)
           /\ \A q \in Runs : occurrence[q] # 0 /\ routine'.exists /\ Live(q) => Live(q)'
        \/ routine'.next \in {0, clock + 1}
    BY <1>0, <2>1 DEF Tick, routineVars, lockVars, runVars, callFrame, runFrame, routineFrame,
       wakeupFrame, Live
  <2>4. RowOccInv'
    BY <1>0, <2>2, <2>3, RowOccStays DEF Live
  <2>5. line' = line
    BY <2>1 DEF Tick, lockVars, routineFrame, wakeupFrame, Wait
  <2>6. CallOccInv'
    BY <1>0, <2>2, <2>3, <2>5, CallOccStays
  <2>7. QED BY <2>4, <2>6
<1>19. CASE \E b \in BOOLEAN : UpdateRoutine(b)
  <2>1. PICK b \in BOOLEAN : UpdateRoutine(b)
    BY <1>19
  <2>2. /\ clock' \in Nat /\ clock <= clock'
        /\ \A q \in Runs : /\ occurrence'[q] = occurrence[q]
                           /\ occurrence[q] # 0 => source'[q] = source[q] /\ (q \in Used => q \in Used')
    BY <1>0, <2>1 DEF UpdateRoutine, routineVars, lockVars, runVars, callFrame, runFrame,
       routineFrame, wakeupFrame, Used
  <2>3. \/ /\ routine'.next = routine.next /\ routine'.exists = routine.exists /\ (timer' => timer)
           /\ \A q \in Runs : occurrence[q] # 0 /\ routine'.exists /\ Live(q) => Live(q)'
        \/ routine'.next \in {0, clock + 1}
    BY <1>0, <2>1 DEF UpdateRoutine, Rescheduled
  <2>4. RowOccInv'
    BY <1>0, <2>2, <2>3, RowOccStays DEF Live
  <2>5. line' = line
    BY <2>1 DEF UpdateRoutine, lockVars, routineFrame, wakeupFrame, Wait
  <2>6. CallOccInv'
    BY <1>0, <2>2, <2>3, <2>5, CallOccStays
  <2>7. QED BY <2>4, <2>6
<1>20. CASE Stop
  <2>1. Stop
    BY <1>20
  <2>2. /\ clock' \in Nat /\ clock <= clock'
        /\ \A q \in Runs : /\ occurrence'[q] = occurrence[q]
                           /\ occurrence[q] # 0 => source'[q] = source[q] /\ (q \in Used => q \in Used')
    BY <1>0, <2>1 DEF Stop, routineVars, lockVars, runVars, callFrame, runFrame, routineFrame,
       wakeupFrame, Used
  <2>3. \/ /\ routine'.next = routine.next /\ routine'.exists = routine.exists /\ (timer' => timer)
           /\ \A q \in Runs : occurrence[q] # 0 /\ routine'.exists /\ Live(q) => Live(q)'
        \/ routine'.next \in {0, clock + 1}
    BY <1>0, <2>1 DEF Stop, Live
  <2>4. RowOccInv'
    BY <1>0, <2>2, <2>3, RowOccStays DEF Live
  <2>5. line' = <<>>
    BY <2>1 DEF Stop
  <2>6. CallOccInv'
    BY <1>0, <2>2, <2>3, <2>5, CallOccStays
  <2>7. QED BY <2>4, <2>6
<1>21. CASE Start
  <2>1. line' = <<>> /\ UNCHANGED <<occurrence, source, clock, routine>>
    BY <1>0, <1>21 DEF Start, OriginInv, lockVars
  <2>2. CallOccInv'
    BY <2>1 DEF CallOccInv
  <2>3. \A q \in Runs : (q \in Used => q \in Used') /\ (routine.exists /\ Live(q) => Live(q)')
    BY <1>0, <1>21 DEF Start, Reconciled, OriginInv, Used, Live
  <2>4. RowOccInv'
    BY <1>0, <2>1, <2>3, RowOccStays DEF Live
  <2>5. QED BY <2>2, <2>4
<1>22. QED
  BY <1>1, <1>2, <1>3, <1>4, <1>5, <1>6, <1>7, <1>8, <1>9, <1>10, <1>11, <1>12, <1>13, <1>14,
     <1>15, <1>16, <1>17, <1>18, <1>19, <1>20, <1>21 DEF
    Next, Proceeds, RunStep, Comes, vars, runVars, lockVars, routineVars, runFrame,
    callFrame, routineFrame, wakeupFrame, Wait, AskPeerAgent, AskRefused, SendBegins,
    Admissible, OnChild, Spawned, ScheduleWakeup, CancelWakeup

(* Whoever ends a run of the routine, or refuses one, sets its timer. *)
LEMMA RememberedKept ==
  ASSUME TypeOK, LineInv, RowsInv, OriginInv, TimerInv, Remembered, [Next]_vars
  PROVE  Remembered'
<1>0. /\ TypeOK /\ line \in Seq(Calls) /\ LineInv /\ RowsInv /\ OriginInv /\ TimerInv /\ Remembered
      /\ status \in [Runs -> RunStatus] /\ source \in [Runs -> Source] /\ stage \in [Runs -> Stage]
      /\ occurrence \in [Runs -> 0..MaxClock] /\ MaxRuns \in Nat
      /\ 0 \in 0..MaxClock /\ clock \in 0..MaxClock /\ clock \in Nat /\ routine.next \in 0..MaxClock + 1
      /\ routine \in [exists : BOOLEAN, enabled : BOOLEAN, next : 0..MaxClock + 1]
      /\ Source = {"human", "sidekick", "whatsapp", "agent", "routine", "scheduled_wakeup"}
  BY AgentAssumption DEF TypeOK, Source
<1>1. CASE UNCHANGED <<up, source, stage, line, routine, timer>>
  BY <1>1, <1>0 DEF Remembered
<1>2. CASE Comes
  <2>1. /\ UNCHANGED <<up, source, routine, timer>> /\ \E c \in Calls : line' = Append(line, c)
        /\ \A q \in Runs : stage'[q] = stage[q] \/ (Acting(q) /\ stage'[q] \in {"finishing", "failing"})
    BY <1>0, <1>2, CallComes
  <2>2. \A i \in DOMAIN line : line[i].source = "routine" => \E j \in DOMAIN line' : line'[j].source = "routine"
    BY <1>0, <2>1, Entered
  <2>3. QED BY <1>0, <2>1, <2>2, RememberedStays
<1>3. CASE AskAdmitted
  BY <1>0, <1>3 DEF AskAdmitted, OriginInv, routineVars, Remembered
<1>4. CASE SendRefused
  <2>1. Holder = line[1] /\ 1 \in DOMAIN line /\ line # <<>> /\ line' = Tail(line) /\ UNCHANGED up
    BY <1>0, <1>4, HolderKnown DEF SendRefused, Holds, Leave, callFrame, runFrame
  <2>2. CASE timer' = routine'.enabled
    BY <2>2 DEF Remembered
  <2>3. CASE (Holder.source # "routine" \/ ~routine.exists) /\ UNCHANGED <<routine, timer>>
    <3>1. CASE ~routine.exists
      BY <2>3, <3>1 DEF Remembered
    <3>2. CASE Holder.source # "routine"
      <4>1. \A i \in DOMAIN line : line[i].source = "routine" => \E j \in DOMAIN line' : line'[j].source = "routine"
        <5>1. \A i \in DOMAIN line : line[i].source = "routine" => i - 1 \in DOMAIN Tail(line) /\ Tail(line)[i - 1] = line[i]
          BY <1>0, <2>1, <3>2, Left
        <5>2. QED BY <2>1, <5>1
      <4>2. UNCHANGED <<source, stage>>
        BY <1>4 DEF SendRefused, runVars
      <4>3. QED BY <1>0, <2>1, <2>3, <4>1, <4>2, RememberedStays
    <3>3. QED BY <2>3, <3>1, <3>2
  <2>4. FinishRoutineRun(Holder.source)
    BY <1>4 DEF SendRefused
  <2>5. QED BY <1>0, <2>2, <2>3, <2>4, RoutineFinished
<1>5. CASE SendAdmitted
  <2>1. PICK r \in Runs : Create(r, Holder.source, Holder.occurrence, Tail(line))
    BY <1>5 DEF SendAdmitted
  <2>2. stage[r] = "none"
    <3>1. r \notin Used
      BY <1>0, <2>1 DEF Create, IsNew, Runs
    <3>2. QED BY <1>0, <3>1 DEF RowsInv
  <2>3. UNCHANGED <<up, routine, timer>> /\ line # <<>> /\ Holder \in Calls /\ Holder = line[1] /\ 1 \in DOMAIN line
    BY <1>0, <1>5, HolderKnown DEF SendAdmitted, Holds, callFrame, routineVars
  <2>4. /\ stage'[r] = "queued" /\ source'[r] = Holder.source
        /\ \A q \in Runs : source[q] = "routine" /\ stage[q] \notin {"none", "done"}
                           => source'[q] = "routine" /\ stage'[q] \notin {"none", "done"}
    BY <1>0, <2>1, <2>2 DEF Create, SetStage
  <2>5. CASE Holder.source = "routine"
    BY <2>4, <2>5 DEF Remembered
  <2>6. CASE Holder.source # "routine"
    <3>1. PICK c \in Calls : c = Call("start", r, Holder.source, 0)
      BY <1>0, <2>3, CallParts DEF Calls, Call
    <3>2. Tail(line) \in Seq(Calls) /\ line' = Append(Tail(line), c)
      BY <1>0, <2>1, <2>3, <3>1, Left DEF Create
    <3>3. \A i \in DOMAIN line : line[i].source = "routine" => i - 1 \in DOMAIN Tail(line) /\ Tail(line)[i - 1] = line[i]
      BY <1>0, <2>3, <2>6, Left
    <3>4. \A i \in DOMAIN line : line[i].source = "routine" => \E j \in DOMAIN line' : line'[j].source = "routine"
      BY <3>2, <3>3, Entered
    <3>5. QED BY <1>0, <2>3, <2>4, <3>4, RememberedStays
  <2>7. QED BY <2>5, <2>6
<1>6. CASE StartRun
  <2>1. Holder = line[1] /\ 1 \in DOMAIN line /\ line # <<>> /\ line' = Tail(line) /\ UNCHANGED up
    BY <1>0, <1>6, HolderKnown DEF StartRun, Holds, Leave, callFrame, runFrame
  <2>2. CASE Over(Holder.run)
    <3>1. FinishRoutineRun(source[Holder.run]) /\ SetStage(Holder.run, "done") /\ UNCHANGED source
      BY <1>6, <2>2 DEF StartRun, Over, runFrame
    <3>2. CASE timer' = routine'.enabled
      BY <3>2 DEF Remembered
    <3>3. CASE ~routine.exists /\ UNCHANGED <<routine, timer>>
      BY <3>3 DEF Remembered
    <3>4. CASE source[Holder.run] # "routine" /\ UNCHANGED <<routine, timer>>
      <4>1. Holder.source = source[Holder.run]
        BY <1>0, <1>6, <2>1, HolderKnown DEF StartRun, Holds, CallInv
      <4>2. \A i \in DOMAIN line : line[i].source = "routine" => \E j \in DOMAIN line' : line'[j].source = "routine"
        <5>1. \A i \in DOMAIN line : line[i].source = "routine" => i - 1 \in DOMAIN Tail(line) /\ Tail(line)[i - 1] = line[i]
          BY <1>0, <2>1, <3>4, <4>1, Left
        <5>2. QED BY <2>1, <5>1
      <4>3. \A r \in Runs : source[r] = "routine" /\ stage[r] \notin {"none", "done"}
                             => source'[r] = "routine" /\ stage'[r] \notin {"none", "done"}
        BY <1>0, <3>1, <3>4 DEF SetStage
      <4>4. QED BY <1>0, <2>1, <3>4, <4>2, <4>3, RememberedStays
    <3>5. QED BY <1>0, <3>1, <3>2, <3>3, <3>4, RoutineFinished
  <2>3. CASE MayStart(Holder.run)
    <3>1. /\ Holder.run \in Runs /\ Holder.source = source[Holder.run]
          /\ stage' = [stage EXCEPT ![Holder.run] = "preparing"] /\ UNCHANGED <<source, routine, timer>>
      BY <1>0, <1>6, <2>3, HolderKnown DEF StartRun, Holds, CallInv, SetStage, runFrame,
         routineVars
    <3>2. \A r \in Runs : source[r] = "routine" /\ (stage[r] \notin {"none", "done"} \/ r = Holder.run)
                           => source'[r] = "routine" /\ stage'[r] \notin {"none", "done"}
      BY <1>0, <3>1
    <3>3. CASE Holder.source = "routine"
      BY <3>1, <3>2, <3>3 DEF Remembered
    <3>4. CASE Holder.source # "routine"
      <4>1. \A i \in DOMAIN line : line[i].source = "routine" => \E j \in DOMAIN line' : line'[j].source = "routine"
        <5>1. \A i \in DOMAIN line : line[i].source = "routine" => i - 1 \in DOMAIN Tail(line) /\ Tail(line)[i - 1] = line[i]
          BY <1>0, <2>1, <3>4, Left
        <5>2. QED BY <2>1, <5>1
      <4>2. QED BY <1>0, <2>1, <3>1, <3>2, <4>1, RememberedStays
    <3>5. QED BY <3>3, <3>4
  <2>4. QED BY <1>6, <2>2, <2>3 DEF StartRun
<1>7. CASE FinishRun
  <2>1. Holder = line[1] /\ 1 \in DOMAIN line /\ line # <<>> /\ line' = Tail(line) /\ UNCHANGED up
    BY <1>0, <1>7, HolderKnown DEF FinishRun, Holds, Leave, callFrame, runFrame
  <2>2. CASE Over(Holder.run)
    <3>1. FinishRoutineRun(source[Holder.run]) /\ SetStage(Holder.run, "done") /\ UNCHANGED source
      BY <1>7, <2>2 DEF FinishRun, Over, runFrame
    <3>2. CASE timer' = routine'.enabled
      BY <3>2 DEF Remembered
    <3>3. CASE ~routine.exists /\ UNCHANGED <<routine, timer>>
      BY <3>3 DEF Remembered
    <3>4. CASE source[Holder.run] # "routine" /\ UNCHANGED <<routine, timer>>
      <4>1. Holder.source = source[Holder.run]
        BY <1>0, <1>7, <2>1, HolderKnown DEF FinishRun, Holds, CallInv
      <4>2. \A i \in DOMAIN line : line[i].source = "routine" => \E j \in DOMAIN line' : line'[j].source = "routine"
        <5>1. \A i \in DOMAIN line : line[i].source = "routine" => i - 1 \in DOMAIN Tail(line) /\ Tail(line)[i - 1] = line[i]
          BY <1>0, <2>1, <3>4, <4>1, Left
        <5>2. QED BY <2>1, <5>1
      <4>3. \A r \in Runs : source[r] = "routine" /\ stage[r] \notin {"none", "done"}
                             => source'[r] = "routine" /\ stage'[r] \notin {"none", "done"}
        BY <1>0, <3>1, <3>4 DEF SetStage
      <4>4. QED BY <1>0, <2>1, <3>4, <4>2, <4>3, RememberedStays
    <3>5. QED BY <1>0, <3>1, <3>2, <3>3, <3>4, RoutineFinished
  <2>3. QED BY <1>7, <2>2 DEF FinishRun
<1>8. CASE FailRun
  <2>1. Holder = line[1] /\ 1 \in DOMAIN line /\ line # <<>> /\ line' = Tail(line) /\ UNCHANGED up
    BY <1>0, <1>8, HolderKnown DEF FailRun, Holds, Leave, callFrame, runFrame
  <2>2. CASE Over(Holder.run)
    <3>1. FinishRoutineRun(source[Holder.run]) /\ SetStage(Holder.run, "done") /\ UNCHANGED source
      BY <1>8, <2>2 DEF FailRun, Over, runFrame
    <3>2. CASE timer' = routine'.enabled
      BY <3>2 DEF Remembered
    <3>3. CASE ~routine.exists /\ UNCHANGED <<routine, timer>>
      BY <3>3 DEF Remembered
    <3>4. CASE source[Holder.run] # "routine" /\ UNCHANGED <<routine, timer>>
      <4>1. Holder.source = source[Holder.run]
        BY <1>0, <1>8, <2>1, HolderKnown DEF FailRun, Holds, CallInv
      <4>2. \A i \in DOMAIN line : line[i].source = "routine" => \E j \in DOMAIN line' : line'[j].source = "routine"
        <5>1. \A i \in DOMAIN line : line[i].source = "routine" => i - 1 \in DOMAIN Tail(line) /\ Tail(line)[i - 1] = line[i]
          BY <1>0, <2>1, <3>4, <4>1, Left
        <5>2. QED BY <2>1, <5>1
      <4>3. \A r \in Runs : source[r] = "routine" /\ stage[r] \notin {"none", "done"}
                             => source'[r] = "routine" /\ stage'[r] \notin {"none", "done"}
        BY <1>0, <3>1, <3>4 DEF SetStage
      <4>4. QED BY <1>0, <2>1, <3>4, <4>2, <4>3, RememberedStays
    <3>5. QED BY <1>0, <3>1, <3>2, <3>3, <3>4, RoutineFinished
  <2>3. QED BY <1>8, <2>2 DEF FailRun
<1>9. CASE SteerRefused
  <2>1. Holder.op \in {"cancel", "steer"} /\ CallInv(Holder)
    BY <1>0, <1>9, HolderKnown DEF SteerRefused, Stops, Holds
  <2>2. ~routine.exists /\ routine' = routine
    BY <1>0, <1>9, <2>1 DEF SteerRefused, CallInv, OriginInv, routineVars
  <2>3. QED BY <2>2 DEF Remembered
<1>10. CASE CancelBegins
  <2>1. Holder.op \in {"cancel", "steer"} /\ CallInv(Holder)
    BY <1>0, <1>10, HolderKnown DEF CancelBegins, Stops, Holds
  <2>2. ~routine.exists /\ routine' = routine
    BY <1>0, <1>10, <2>1 DEF CancelBegins, CallInv, OriginInv, routineVars
  <2>3. QED BY <2>2 DEF Remembered
<1>11. CASE StopChild
  <2>1. Holder.op \in {"cancel", "steer"} /\ CallInv(Holder)
    BY <1>0, <1>11, HolderKnown DEF StopChild, Stops, Holds
  <2>2. ~routine.exists /\ routine' = routine
    BY <1>0, <1>11, <2>1 DEF StopChild, CallInv, OriginInv, routineVars
  <2>3. QED BY <2>2 DEF Remembered
<1>12. CASE ChildGone
  <2>1. Holder.op \in {"cancel", "steer"} /\ CallInv(Holder)
    BY <1>0, <1>12, HolderKnown DEF ChildGone, Stops, Holds
  <2>2. ~routine.exists /\ routine' = routine
    BY <1>0, <1>12, <2>1 DEF ChildGone, CallInv, OriginInv, routineVars
  <2>3. QED BY <2>2 DEF Remembered
<1>13. CASE CancellationUnconfirmed
  <2>1. Holder.op \in {"cancel", "steer"} /\ CallInv(Holder)
    BY <1>0, <1>13, HolderKnown DEF CancellationUnconfirmed, Stops, Holds
  <2>2. ~routine.exists /\ routine' = routine
    BY <1>0, <1>13, <2>1 DEF CancellationUnconfirmed, CallInv, OriginInv, routineVars
  <2>3. QED BY <2>2 DEF Remembered
<1>14. CASE \E r \in Runs : PrepareRun(r)
  <2>1. PICK r \in Runs : PrepareRun(r)
    BY <1>14
  <2>2. UNCHANGED <<up, source, line>>
    BY <2>1 DEF PrepareRun, runFrame, lockVars
  <2>3. CASE Over(r)
    <3>1. CASE timer' = routine'.enabled
      BY <3>1 DEF Remembered
    <3>2. CASE ~routine.exists /\ UNCHANGED <<routine, timer>>
      BY <3>2 DEF Remembered
    <3>3. CASE source[r] # "routine" /\ UNCHANGED <<routine, timer>>
      BY <1>0, <2>2, <2>3, <3>3, RememberedStays DEF Over, SetStage
    <3>4. FinishRoutineRun(source[r])
      BY <2>3 DEF Over
    <3>5. QED BY <1>0, <3>1, <3>2, <3>3, <3>4, RoutineFinished
  <2>4. CASE SetStage(r, "launching") /\ UNCHANGED <<routine, timer>>
    BY <1>0, <2>2, <2>4, RememberedStays DEF SetStage
  <2>5. QED BY <2>1, <2>3, <2>4 DEF PrepareRun, routineVars
<1>15. CASE \E r \in Runs : OnChild(r)
  BY <1>0, <1>15, RememberedStays DEF OnChild, Spawned, SetStage, runFrame, lockVars, routineVars
<1>16. CASE RoutineDue
  <2>1. UNCHANGED <<up, source, stage>>
    BY <1>16 DEF RoutineDue, routineFrame, runVars
  <2>2. CASE FinishRoutineRun("routine")
    <3>1. timer' = routine'.enabled \/ ~routine'.exists
      BY <1>0, <2>2, RoutineFinished
    <3>2. QED BY <3>1 DEF Remembered
  <2>3. CASE line' = Append(line, Call("send", 0, "routine", routine.next))
    <3>1. routine.next \in 0..MaxClock
      BY <1>0, <1>16, AgentAssumption DEF RoutineDue
    <3>2. PICK c \in Calls : c = Call("send", 0, "routine", routine.next)
      BY <1>0, <3>1 DEF Calls, Call
    <3>3. \E j \in DOMAIN line' : line'[j].source = "routine"
      BY <1>0, <2>3, <3>2, Entered DEF Call
    <3>4. QED BY <3>3 DEF Remembered
  <2>4. QED BY <1>16, <2>2, <2>3 DEF RoutineDue, StartRoutineRun, Enter, Send
<1>17. CASE RunNow
  <2>1. UNCHANGED <<up, source, stage>>
    BY <1>17 DEF RunNow, routineFrame, runVars
  <2>2. CASE FinishRoutineRun("routine")
    <3>1. timer' = routine'.enabled \/ ~routine'.exists
      BY <1>0, <2>2, RoutineFinished
    <3>2. QED BY <3>1 DEF Remembered
  <2>3. CASE line' = Append(line, Call("send", 0, "routine", 0))
    <3>1. 0 \in 0..MaxClock
      BY <1>0, <1>17, AgentAssumption DEF RunNow
    <3>2. PICK c \in Calls : c = Call("send", 0, "routine", 0)
      BY <1>0, <3>1 DEF Calls, Call
    <3>3. \E j \in DOMAIN line' : line'[j].source = "routine"
      BY <1>0, <2>3, <3>2, Entered DEF Call
    <3>4. QED BY <3>3 DEF Remembered
  <2>4. QED BY <1>17, <2>2, <2>3 DEF RunNow, StartRoutineRun, Enter, Send
<1>18. CASE DeleteRoutine
  BY <1>0, <1>18 DEF DeleteRoutine, Remembered
<1>19. CASE \E b \in BOOLEAN : UpdateRoutine(b)
  BY <1>0, <1>19 DEF UpdateRoutine, Rescheduled, Remembered
<1>20. CASE Stop
  BY <1>0, <1>20 DEF Stop, Remembered
<1>21. CASE Start
  BY <1>0, <1>21 DEF Start, Remembered
<1>22. QED
  BY <1>1, <1>2, <1>3, <1>4, <1>5, <1>6, <1>7, <1>8, <1>9, <1>10, <1>11, <1>12, <1>13, <1>14,
     <1>15, <1>16, <1>17, <1>18, <1>19, <1>20, <1>21 DEF
    Next, Proceeds, RunStep, Comes, vars, runVars, lockVars, routineVars, runFrame,
    callFrame, routineFrame, wakeupFrame, Wait, AskPeerAgent, AskRefused, SendBegins,
    Admissible, ScheduleWakeup, Tick, CancelWakeup

(* A timer is set for a routine that exists. *)
LEMMA TimerKept ==
  ASSUME TypeOK, RowsInv, TimerInv, [Next]_vars
  PROVE  TimerInv'
<1>0. /\ TypeOK /\ RowsInv /\ TimerInv
      /\ routine \in [exists : BOOLEAN, enabled : BOOLEAN, next : 0..MaxClock + 1]
  BY DEF TypeOK
<1>1. CASE UNCHANGED <<routine, timer>>
  BY <1>1, <1>0 DEF TimerInv
<1>2. CASE Comes
  BY <1>0, <1>2, CallComes DEF TimerInv
<1>3. CASE SendRefused
  <2>1. UNCHANGED <<routine, timer>> \/ \E src : FinishRoutineRun(src)
    BY <1>3 DEF SendRefused
  <2>2. QED BY <1>0, <2>1, RoutineFinished DEF TimerInv
<1>4. CASE StartRun
  <2>1. UNCHANGED <<routine, timer>> \/ \E src : FinishRoutineRun(src)
    BY <1>4 DEF StartRun, Over, routineVars
  <2>2. QED BY <1>0, <2>1, RoutineFinished DEF TimerInv
<1>5. CASE FinishRun
  <2>1. UNCHANGED <<routine, timer>> \/ \E src : FinishRoutineRun(src)
    BY <1>5 DEF FinishRun, Over
  <2>2. QED BY <1>0, <2>1, RoutineFinished DEF TimerInv
<1>6. CASE FailRun
  <2>1. UNCHANGED <<routine, timer>> \/ \E src : FinishRoutineRun(src)
    BY <1>6 DEF FailRun, Over
  <2>2. QED BY <1>0, <2>1, RoutineFinished DEF TimerInv
<1>7. CASE \E r \in Runs : PrepareRun(r)
  <2>1. PICK r \in Runs : PrepareRun(r)
    BY <1>7
  <2>2. UNCHANGED <<routine, timer>> \/ FinishRoutineRun(source[r])
    BY <2>1 DEF PrepareRun, Over, routineVars
  <2>3. QED BY <1>0, <2>2, RoutineFinished DEF TimerInv
<1>8. CASE RoutineDue
  <2>1. RoutineDue
    BY <1>8
  <2>2. QED BY <1>0, <2>1, RoutineFinished DEF RoutineDue, Over, StartRoutineRun, Rescheduled,
               routineVars, TimerInv
<1>9. CASE RunNow
  <2>1. RunNow
    BY <1>9
  <2>2. QED BY <1>0, <2>1, RoutineFinished DEF RunNow, Over, StartRoutineRun, Rescheduled,
               routineVars, TimerInv
<1>10. CASE DeleteRoutine
  BY <1>10 DEF DeleteRoutine, TimerInv
<1>11. CASE \E b \in BOOLEAN : UpdateRoutine(b)
  <2>1. PICK b \in BOOLEAN : UpdateRoutine(b)
    BY <1>11
  <2>2. QED BY <1>0, <2>1, RoutineFinished DEF UpdateRoutine, Over, StartRoutineRun,
               Rescheduled, routineVars, TimerInv
<1>12. CASE Stop
  BY <1>12 DEF Stop, TimerInv
<1>13. CASE Start
  BY <1>13 DEF Start, TimerInv
<1>14. QED
  BY <1>1, <1>2, <1>3, <1>4, <1>5, <1>6, <1>7, <1>8, <1>9, <1>10, <1>11, <1>12, <1>13 DEF
    Next, Proceeds, RunStep, Comes, vars, runVars, lockVars, routineVars, runFrame,
    callFrame, routineFrame, wakeupFrame, Wait, AskPeerAgent, AskAdmitted, MayCreate,
    Create, IsNew, AskRefused, SendBegins, Admissible, SendAdmitted, SteerRefused,
    CancelBegins, Steerable, StopChild, Prepared, CancelDone, ChildGone,
    CancellationUnconfirmed, OnChild, Spawned, ScheduleWakeup, Tick, CancelWakeup

(* What Quiet says of a step. *)
StaysQuiet ==
  \A r \in Runs :
    /\ status[r] \in Ended => status'[r] = status[r]
    /\ status[r] # "completed" /\ status'[r] = "completed" => \A q \in Used' : q <= r
    /\ status[r] = "none" /\ status'[r] = "queued" /\ ~Scheduled(source'[r])
         => ~wakeup \/ origin = "agent" \/ lingering # {}

(* Runs that have ended stay so, and a message gets in where Quiet allows it. *)
LEMMA QuietStep ==
  ASSUME TypeOK, RowsInv, LineInv, PlaceInv, OriginInv, WakeInv, [Next]_vars
  PROVE  StaysQuiet
<1>0. /\ RowsInv /\ LineInv /\ PlaceInv /\ OriginInv /\ WakeInv /\ line \in Seq(Calls)
      /\ status \in [Runs -> RunStatus] /\ source \in [Runs -> Source]
      /\ RunStatus = {"none", "queued", "running", "completed", "failed", "canceled"}
      /\ Ended = {"completed", "failed", "canceled"}
  BY DEF TypeOK, RunStatus, Ended
<1>1. CASE UNCHANGED <<status>>
  BY <1>1, <1>0 DEF StaysQuiet
<1>2. CASE AskAdmitted
  <2>1. PICK r \in Runs : Create(r, "agent", 0, line)
    BY <1>2 DEF AskAdmitted
  <2>2. status[r] = "none" /\ status' = [status EXCEPT ![r] = "queued"] /\ source' = [source EXCEPT ![r] = "agent"]
    BY <1>0, <2>1 DEF Create, IsNew, Used, Runs, SetStatus
  <2>3. origin = "agent"
    BY <1>0, <1>2 DEF AskAdmitted, OriginInv
  <2>4. QED BY <1>0, <2>2, <2>3 DEF StaysQuiet
<1>3. CASE SendAdmitted
  <2>1. PICK r \in Runs : Create(r, Holder.source, Holder.occurrence, Tail(line))
    BY <1>3 DEF SendAdmitted
  <2>2. status[r] = "none" /\ status' = [status EXCEPT ![r] = "queued"] /\ source' = [source EXCEPT ![r] = Holder.source]
    BY <1>0, <2>1 DEF Create, IsNew, Used, Runs, SetStatus
  <2>3. ~Scheduled(Holder.source) => ~wakeup \/ lingering # {}
    BY <1>0, <1>3 DEF SendAdmitted, WakeInv
  <2>4. Holder.source \in Source
    BY <1>0, <1>3, HolderKnown DEF SendAdmitted, Holds
  <2>5. QED BY <1>0, <2>2, <2>3, <2>4 DEF StaysQuiet, Scheduled
<1>4. CASE StartRun
  <2>1. Holder.run \in Runs
    BY <1>0, <1>4, HolderKnown DEF StartRun, Holds
  <2>2. UNCHANGED status \/ (status[Holder.run] = "queued" /\ status' = [status EXCEPT ![Holder.run] = "running"])
    BY <1>4 DEF StartRun, MayStart, SetStatus
  <2>3. QED BY <1>0, <2>1, <2>2 DEF StaysQuiet
<1>5. CASE FinishRun
  <2>1. Holder.run \in Runs
    BY <1>0, <1>5, HolderKnown DEF FinishRun, Holds
  <2>2. UNCHANGED status \/ (Live(Holder.run) /\ status' = [status EXCEPT ![Holder.run] = "completed"])
    BY <1>5 DEF FinishRun, Answers, SetStatus, Live
  <2>3. UNCHANGED status \/ \A q \in Used' : q <= Holder.run
    BY <1>0, <2>1, <2>2 DEF RowsInv, Used, Live
  <2>4. QED BY <1>0, <2>1, <2>2, <2>3 DEF StaysQuiet, Live
<1>6. CASE FailRun
  <2>1. Holder.run \in Runs
    BY <1>0, <1>6, HolderKnown DEF FailRun, Holds
  <2>2. UNCHANGED status \/ (Live(Holder.run) /\ status' = [status EXCEPT ![Holder.run] = "failed"])
    BY <1>6 DEF FailRun, SetStatus, Live
  <2>3. QED BY <1>0, <2>1, <2>2 DEF StaysQuiet, Live
<1>7. CASE CancelBegins
  <2>1. Holder.run \in Runs
    BY <1>0, <1>7, HolderKnown DEF CancelBegins, Holds, Stops
  <2>2. UNCHANGED status \/ (Live(Holder.run) /\ status' = [status EXCEPT ![Holder.run] = "canceled"])
    BY <1>7 DEF CancelBegins, SetStatus, Live
  <2>3. QED BY <1>0, <2>1, <2>2 DEF StaysQuiet, Live
<1>8. CASE Start
  BY <1>0, <1>8 DEF Start, Reconciled, Live, StaysQuiet
<1>9. QED
  BY <1>1, <1>2, <1>3, <1>4, <1>5, <1>6, <1>7, <1>8 DEF
    Next, Proceeds, RunStep, vars, runVars, lockVars, routineVars, runFrame, callFrame,
    routineFrame, wakeupFrame, Wait, SendMessage, Writes, AskPeerAgent, AskRefused,
    SendRefused, SendBegins, Admissible, SteerRefused, StopChild, Prepared, CancelDone,
    ChildGone, CancellationUnconfirmed, PrepareRun, Over, PreparationFails, Fail, OnChild,
    Spawned, ChildExits, CancelRun, NetworkRevoked, SteerMessage, ScheduleWakeup,
    RoutineDue, StartRoutineRun, RunNow, DeleteRoutine, Tick, UpdateRoutine, CancelWakeup,
    FireWakeup, Stop

-----------------------------------------------------------------------------
(***************************************************************************)
(* The theorems.                                                           *)
(***************************************************************************)

(* A conversation without runs, with its routine if it has one. *)
LEMMA InitInv == Init => IInv
<1> SUFFICES ASSUME Init PROVE IInv
  OBVIOUS
<1>0. PICK s \in Starts :
        /\ up = TRUE /\ origin = s.origin /\ left = s.left
        /\ routine = [exists |-> s.origin = "routine", enabled |-> TRUE, next |-> 1]
        /\ timer = (s.origin = "routine")
  BY DEF Init
<1>1. /\ status = [r \in Runs |-> "none"] /\ source = [r \in Runs |-> "human"]
      /\ stage = [r \in Runs |-> "none"] /\ occurrence = [r \in Runs |-> 0]
      /\ canceledRunIds = {} /\ lingering = {} /\ line = <<>> /\ at = "entry"
      /\ asking = 0 /\ clock = 0 /\ wakeup = FALSE
  BY DEF Init
<1>2. Used = {} /\ \A r \in Runs : ~Live(r) /\ ~Acting(r) /\ ~Preparing(r)
  BY <1>1 DEF Used, Live, Acting, Preparing, HasChild
<1>3. DOMAIN line = {} /\ line \in Seq(Calls)
  BY <1>1
<1>4. TypeOK
  <2>1. origin \in Origin /\ left \in [Budget -> Nat] /\ up \in BOOLEAN
    BY <1>0, AgentAssumption
  <2>2. /\ status \in [Runs -> RunStatus] /\ stage \in [Runs -> Stage]
        /\ source \in [Runs -> Source] /\ occurrence \in [Runs -> 0..MaxClock]
    BY <1>1, AgentAssumption DEF RunStatus, Stage, Source
  <2>3. /\ routine \in [exists : BOOLEAN, enabled : BOOLEAN, next : 0..MaxClock + 1]
        /\ timer \in BOOLEAN /\ clock \in 0..MaxClock
    BY <1>0, <1>1, AgentAssumption
  <2>4. QED BY <1>1, <1>2, <1>3, <2>1, <2>2, <2>3 DEF TypeOK
<1>5. RowsInv /\ ActingInv /\ RowOccInv
  BY <1>1, <1>2 DEF RowsInv, ActingInv, RowOccInv
<1>6. LineInv /\ CallOccInv /\ PlaceInv /\ WakeInv
  BY <1>1, <1>3 DEF LineInv, CallOccInv, PlaceInv, WakeInv
<1>7. OriginInv /\ TimerInv /\ Remembered
  <2>1. routine.exists = (s.origin = "routine") /\ timer = routine.exists
        /\ origin = s.origin /\ up = TRUE
    BY <1>0
  <2>2. asking > 0 => origin = "agent"
    BY <1>1
  <2>3. routine.exists => origin = "routine"
    BY <2>1
  <2>4. TimerInv /\ Remembered
    BY <2>1 DEF TimerInv, Remembered
  <2>5. QED BY <2>1, <2>2, <2>3, <2>4 DEF OriginInv
<1>8. QED BY <1>4, <1>5, <1>6, <1>7 DEF IInv

(* Every step keeps it. *)
LEMMA StepInv == IInv /\ [Next]_vars => IInv'
<1> SUFFICES ASSUME IInv, [Next]_vars PROVE IInv'
  OBVIOUS
<1>1. /\ TypeOK /\ RowsInv /\ LineInv /\ PlaceInv /\ OriginInv /\ ActingInv /\ WakeInv
      /\ RowOccInv /\ CallOccInv /\ TimerInv /\ Remembered
  BY DEF IInv
<1>2. TypeOK'
  BY <1>1, RowsTyped, LineTyped, RestTyped DEF TypeOK
<1>3. RowsInv' /\ LineInv' /\ PlaceInv' /\ OriginInv'
  BY <1>1, RowsKept, LineKept, PlaceKept, OriginKept
<1>4. ActingInv' /\ WakeInv' /\ RowOccInv' /\ CallOccInv'
  BY <1>1, ActingKept, WakeKept, OccurrencesKept
<1>5. TimerInv' /\ Remembered'
  BY <1>1, TimerKept, RememberedKept
<1>6. QED BY <1>2, <1>3, <1>4, <1>5 DEF IInv

(* What the invariant says of a conversation, its lock and its routine holds *)
(* in every state the program reaches.                                      *)
THEOREM AgentInvariance == Spec => []IInv
<1>1. QED BY InitInv, StepInv, PTL DEF Spec

(* The variables keep their types. *)
THEOREM AgentTypes == Spec => []TypeOK
<1>1. IInv => TypeOK
  BY DEF IInv
<1>2. QED BY <1>1, AgentInvariance, PTL

(* One run at a time, one process at a time unless a cancellation said that it *)
(* did not see one end, and no process left to a run that was canceled.      *)
THEOREM RunsAlone == Spec => []OneAtATime
<1>1. IInv => OneAtATime
  <2> SUFFICES ASSUME IInv PROVE OneAtATime
    OBVIOUS
  <2>1. RowsInv /\ ActingInv /\ \A r, q \in Runs : Live(r) /\ Live(q) => r = q
    BY NewestLives DEF IInv
  <2>2. \A r \in Runs : status[r] = "running" => Live(r)
    BY DEF Live
  <2>3. ASSUME NEW r \in Runs \ lingering, NEW q \in Runs \ lingering, Acting(r), Acting(q)
        PROVE  r = q
    BY <2>1, <2>2, <2>3 DEF ActingInv
  <2>4. \A r \in Runs : stage[r] = "launching" \/ HasChild(r) => Acting(r)
    BY DEF Acting, Preparing
  <2>5. ASSUME NEW r \in Runs, status[r] = "canceled", stage[r] = "alive"
        PROVE  Stops /\ Holder.run = r
    <3>1. r \notin lingering /\ Acting(r)
      BY <2>1, <2>5 DEF RowsInv, Acting, HasChild
    <3>2. at \in {"preparation", "exit"} /\ Holder.run = r
      BY <2>1, <2>5, <3>1 DEF ActingInv
    <3>3. QED BY <3>2 DEF IInv, PlaceInv
  <2>6. QED BY <2>1, <2>3, <2>4, <2>5 DEF OneAtATime
<1>2. QED BY <1>1, AgentInvariance, PTL

(* An occurrence starts one run at most, and an enabled routine has its timer *)
(* or a run in hand.                                                        *)
THEOREM TimetableHolds == Spec => []Timetable
<1>1. IInv => Timetable
  <2> SUFFICES ASSUME IInv PROVE Timetable
    OBVIOUS
  <2>1. RowOccInv /\ Remembered
    BY DEF IInv
  <2>2. \A r, q \in Runs : occurrence[r] = occurrence[q] /\ occurrence[r] # 0 => r = q
    BY <2>1 DEF RowOccInv
  <2>3. QED BY <2>1, <2>2 DEF Timetable, Remembered
<1>2. QED BY <1>1, AgentInvariance, PTL

(* What has ended stays ended, an answer is that of the newest run, and no    *)
(* message gets in while a wakeup is scheduled.                             *)
THEOREM QuietHolds == Spec => Quiet
<1>1. IInv /\ [Next]_vars => [StaysQuiet]_vars
  BY QuietStep DEF IInv
<1>2. QED BY <1>1, AgentInvariance, PTL DEF Spec, Quiet, StaysQuiet

=============================================================================
