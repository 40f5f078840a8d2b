----------------------------- MODULE OutboxProofs -----------------------------
(***************************************************************************)
(* What repository collaboration tells its groups: outputs of a group in   *)
(* order, nothing to a reader who may no longer read it, one task for one  *)
(* message.  For every value of the constants.                             *)
(*                                                                         *)
(* Every operation hands the outbox, with some outputs suppressed and one  *)
(* appended at most, to the flush or leaves it there.  So the lemmas speak *)
(* of that table (out), and the flush only suppresses more of it.          *)
(***************************************************************************)
EXTENDS RepositoryCollaborationProofs

(* What may still be shown: the conditions of PendingIsAuthorized.  The      *)
(* condition after a step is ~Refused(o).                                    *)
Fit(o) ==
  /\ Authorized(o)
  /\ Granted(o.group, o.to) # {}
  /\ o.task # 0 => status[o.task] \notin {"cancelled", "cancelling"}

SameColumns(o, p) == o.group = p.group /\ o.task = p.task /\ o.to = p.to

(* Nothing but suppressions turns the rows of out into those of out2. *)
Silenced(out, out2) ==
  /\ out2 \in Seq(OutputRow)
  /\ DOMAIN out2 = DOMAIN out
  /\ \A i \in DOMAIN out :
       /\ SameColumns(out2[i], out[i])
       /\ out2[i].state = out[i].state \/ (out[i].state = "pending" /\ out2[i].state = "suppressed")

(* OrderedDelivery, of a table. *)
Ordered(out) ==
  \A i, j \in DOMAIN out :
    i < j /\ out[i].group = out[j].group /\ out[j].state = "sent" => out[i].state # "pending"

(* What the loop of deliverOutbox() has put behind it is settled, or belongs *)
(* to a group it gave up, or came after it began.                            *)
Swept(out, rest, failed) ==
  \A i \in DOMAIN out : out[i].state = "pending" /\ i \notin rest
                        => out[i].group \in failed \/ \A j \in rest : j < i

(* The loop itself, waiting at flush.cur. *)
Looping(out) ==
  flush.at # "idle" =>
    /\ flush.cur \in DOMAIN out
    /\ \A j \in flush.rest : flush.cur < j
    /\ out[flush.cur].group \notin flush.failed
    /\ Swept(out, flush.rest \cup {flush.cur}, flush.failed)

(* A row that nobody wrote is blank, and every row has a message. *)
Written ==
  \A t \in TaskId : IF Exists(t) THEN task[t].source \in receipts ELSE task[t] = NoTask

(* A conversation stays in one group and on the same folders. *)
Family ==
  \A t \in TaskId : \A a \in task[t].chain :
    task[a].group = task[t].group /\ task[a].repos = task[t].repos

(* Outputs are about rows that exist. *)
Known == \A i \in DOMAIN outbox : outbox[i].task # 0 => Exists(outbox[i].task)

(* A message that waits for the roster had a grant to wait with. *)
IntakeGranted == intake # NoIntake => intake.granted # {}

(* What the flush is at may still be shown, unless it is suppressed. *)
CurrentFit == flush.at # "idle" /\ Current.state = "pending" => Fit(Current)

OInv ==
  /\ IInv
  /\ Ordered(outbox)
  /\ Looping(outbox)
  /\ Written
  /\ Family
  /\ Known
  /\ IntakeGranted
  /\ CurrentFit

-----------------------------------------------------------------------------
(***************************************************************************)
(* Tables.                                                                 *)
(***************************************************************************)

(* An element of a table is a row. *)
LEMMA RowOf ==
  ASSUME NEW out \in Seq(OutputRow), NEW i \in DOMAIN out
  PROVE  /\ i \in Nat
         /\ out[i].group \in Groups /\ out[i].task \in 0..MaxTasks /\ out[i].to \in Participants
         /\ out[i].state \in {"pending", "sent", "suppressed"}
<1>1. out[i] \in OutputRow /\ i \in Nat
  OBVIOUS
<1>2. QED
  BY <1>1 DEF OutputRow

(* updateOutput touches the state of pending rows, and nothing else. *)
LEMMA UpdateRows ==
  ASSUME NEW out \in Seq(OutputRow), NEW I, NEW s \in {"sent", "suppressed"}
  PROVE  LET new == UpdateOutputs(out, I, s)
         IN \A i \in DOMAIN out :
              /\ SameColumns(new[i], out[i])
              /\ new[i].state = IF i \in I /\ out[i].state = "pending" THEN s ELSE out[i].state
<1>1. \A i \in DOMAIN out : out[i] \in OutputRow
  OBVIOUS
<1>2. QED
  BY <1>1 DEF UpdateOutputs, SameColumns, OutputRow

(* Suppressing silences, and what is suppressed does not wait any more. *)
LEMMA SuppressSilences ==
  ASSUME NEW out \in Seq(OutputRow), NEW I
  PROVE  /\ Silenced(out, Suppress(out, I))
         /\ \A i \in DOMAIN out : i \in I => Suppress(out, I)[i].state # "pending"
BY UpdateRows, SuppressTyped DEF Suppress, Silenced

(* Nothing suppressed is nothing changed. *)
LEMMA SilencedSame ==
  ASSUME NEW out \in Seq(OutputRow) PROVE Silenced(out, out)
BY DEF Silenced, SameColumns

(* Silencing twice is silencing. *)
LEMMA SilencedTwice ==
  ASSUME NEW a, NEW b, NEW c, Silenced(a, b), Silenced(b, c) PROVE Silenced(a, c)
BY DEF Silenced, SameColumns

(* The loop of the flush only suppresses. *)
LEMMA ScanSilences ==
  ASSUME NEW out \in Seq(OutputRow), NEW rest, NEW failed, Scan(rest, failed, out)
  PROVE  Silenced(out, outbox')
BY SuppressSilences, SilencedSame DEF Scan

(* So does the flush that begins it. *)
LEMMA FlushSilences ==
  ASSUME NEW out \in Seq(OutputRow), StartFlush(out) PROVE Silenced(out, outbox')
BY ScanSilences, SilencedSame DEF StartFlush

(* The rows before the one that is appended stay where they are. *)
LEMMA AppendRows ==
  ASSUME NEW out \in Seq(OutputRow), NEW o \in OutputRow
  PROVE  LET new == Append(out, o)
         IN /\ new \in Seq(OutputRow)
            /\ DOMAIN new = DOMAIN out \cup {Len(out) + 1}
            /\ \A i \in DOMAIN out : new[i] = out[i] /\ i < Len(out) + 1
            /\ new[Len(out) + 1] = o /\ Len(out) + 1 \notin DOMAIN out
OBVIOUS

-----------------------------------------------------------------------------
(***************************************************************************)
(* The order of delivery.                                                  *)
(***************************************************************************)

(* Silencing puts nothing out of order. *)
LEMMA SilencedOrdered ==
  ASSUME NEW out, NEW out2, Silenced(out, out2), Ordered(out) PROVE Ordered(out2)
BY DEF Silenced, Ordered, SameColumns

(* It leaves nothing behind the loop that waits. *)
LEMMA SilencedSwept ==
  ASSUME NEW out, NEW out2, Silenced(out, out2), NEW rest, NEW failed, Swept(out, rest, failed)
  PROVE  Swept(out2, rest, failed)
BY DEF Silenced, Swept, SameColumns

(* A new output is the last, so it is out of order with nothing. *)
LEMMA AppendOrdered ==
  ASSUME NEW out \in Seq(OutputRow), NEW o \in OutputRow, o.state = "pending",
         Ordered(out), Looping(out)
  PROVE  Ordered(Append(out, o)) /\ (DeliveryTyped /\ DOMAIN outbox \subseteq DOMAIN out => Looping(Append(out, o)))
<1> DEFINE new == Append(out, o)
           n == Len(out) + 1
<1>1. /\ DOMAIN new = DOMAIN out \cup {n}
      /\ \A i \in DOMAIN out : new[i] = out[i] /\ i < n /\ i \in Nat
      /\ new[n] = o /\ n \notin DOMAIN out /\ n \in Nat
  OBVIOUS
<1> HIDE DEF new, n
<1>2. Ordered(new)
  <2>1. SUFFICES ASSUME NEW i \in DOMAIN new, NEW j \in DOMAIN new, i < j,
                        new[i].group = new[j].group, new[j].state = "sent"
                 PROVE  new[i].state # "pending"
    BY DEF Ordered
  <2>2. j \in DOMAIN out
    BY <1>1, <2>1
  <2>3. i \in DOMAIN out
    BY <1>1, <2>1, <2>2
  <2>4. QED
    BY <1>1, <2>1, <2>2, <2>3 DEF Ordered
<1>3. ASSUME DeliveryTyped, DOMAIN outbox \subseteq DOMAIN out PROVE Looping(new)
  <2>1. SUFFICES ASSUME flush.at # "idle" PROVE Looping(new)
    BY DEF Looping
  <2>2. \A j \in flush.rest \cup {flush.cur} : j < n
    BY <1>1, <1>3, <2>1 DEF DeliveryTyped
  <2>3. Swept(new, flush.rest \cup {flush.cur}, flush.failed)
    BY <1>1, <2>1, <2>2 DEF Looping, Swept
  <2>4. QED
    BY <1>1, <2>1, <2>3 DEF Looping
<1>4. QED
  BY <1>2, <1>3 DEF new

(* The loop goes on to the next output it does not refuse. *)
LEMMA ScanLoops ==
  ASSUME NEW out \in Seq(OutputRow), NEW rest \in SUBSET DOMAIN out, NEW failed,
         Ordered(out), Swept(out, rest, failed), Scan(rest, failed, out)
  PROVE  /\ Ordered(outbox') /\ Looping(outbox)'
         /\ flush'.at # "idle" => ~Refused(outbox'[flush'.cur])
<1> DEFINE open == {i \in rest : out[i].group \notin failed}
           taken == {i \in open : ~Refused(out[i])}
<1>1. Silenced(out, outbox')
  BY ScanSilences
<1>2. Ordered(outbox')
  BY <1>1, SilencedOrdered
<1>3. CASE flush' = NoFlush
  BY <1>2, <1>3 DEF Looping, NoFlush
<1>4. CASE flush' # NoFlush
  <2>1. PICK i \in taken :
          /\ \A j \in taken : i <= j
          /\ flush' = [at |-> "roster", cur |-> i, rest |-> {j \in rest : j > i},
                       failed |-> failed, full |-> FALSE, tries |-> 0]
    BY <1>4 DEF Scan
  <2>2. outbox' = Suppress(out, {k \in open \ taken : \A j \in taken : k < j})
    BY <1>4 DEF Scan
  <2>3. /\ i \in rest /\ i \in DOMAIN out /\ i \in Nat
        /\ out[i].group \notin failed /\ ~Refused(out[i])
        /\ rest \subseteq Nat
    BY <2>1
  <2>4. ASSUME NEW k \in rest, k < i, out[k].group \notin failed
        PROVE  outbox'[k].state # "pending"
    <3>1. k \in open /\ k \notin taken
      BY <2>1, <2>3, <2>4
    <3>2. \A j \in taken : k < j
      BY <2>1, <2>3, <2>4
    <3>3. QED
      BY <2>2, <3>1, <3>2, SuppressSilences
  <2> HIDE DEF open, taken
  <2>5. /\ flush'.at # "idle" /\ flush'.cur = i /\ flush'.failed = failed
        /\ flush'.rest = {j \in rest : j > i}
    BY <2>1
  <2>6. \A k \in DOMAIN out : SameColumns(outbox'[k], out[k]) /\ (outbox'[k].state = "pending" => out[k].state = "pending")
    BY <1>1 DEF Silenced
  <2>7. Swept(outbox', flush'.rest \cup {flush'.cur}, flush'.failed)
    <3>1. SUFFICES ASSUME NEW k \in DOMAIN out, outbox'[k].state = "pending",
                          ~(k \in rest /\ k > i), k # i, outbox'[k].group \notin failed,
                          NEW j \in rest
                   PROVE  j < k
      BY <1>1, <2>3, <2>5 DEF Swept, Silenced
    <3>2. k \notin rest
      BY <2>3, <2>4, <2>6, <3>1 DEF SameColumns
    <3>3. QED
      BY <2>6, <3>1, <3>2 DEF Swept, SameColumns
  <2>8. SameColumns(outbox'[i], out[i])
    BY <2>3, <2>6
  <2>9. ~Refused(outbox'[i])
    BY <2>3, <2>8 DEF Refused, SameColumns
  <2>10. Looping(outbox)'
    BY <1>1, <2>3, <2>5, <2>7, <2>8 DEF Looping, Silenced, SameColumns
  <2>11. QED
    BY <1>2, <2>5, <2>9, <2>10
<1>5. QED
  BY <1>3, <1>4

(* A flush in flight goes on over what is silenced under it. *)
LEMMA SilencedLooping ==
  ASSUME NEW out, NEW out2, Silenced(out, out2), Looping(out) PROVE Looping(out2)
<1>1. SUFFICES ASSUME flush.at # "idle" PROVE Looping(out2)
  BY DEF Looping
<1>2. Swept(out2, flush.rest \cup {flush.cur}, flush.failed)
  BY <1>1, SilencedSwept DEF Looping
<1>3. out2[flush.cur].group = out[flush.cur].group /\ DOMAIN out2 = DOMAIN out
  BY <1>1 DEF Looping, Silenced, SameColumns
<1>4. QED
  BY <1>1, <1>2, <1>3 DEF Looping

(* A flush begins over everything that waits. *)
LEMMA FlushLoops ==
  ASSUME NEW out \in Seq(OutputRow), Ordered(out), Looping(out), StartFlush(out)
  PROVE  /\ Ordered(outbox') /\ Looping(outbox)'
         /\ flush' = flush \/ (flush'.at # "idle" => ~Refused(outbox'[flush'.cur]))
<1> DEFINE rest == {i \in DOMAIN out : out[i].state = "pending"}
<1>1. CASE outbox' = out /\ flush' = flush
  BY <1>1 DEF Looping
<1>2. CASE Scan(rest, {}, out)
  <2>1. Swept(out, rest, {}) /\ rest \in SUBSET DOMAIN out
    BY DEF Swept
  <2> HIDE DEF rest
  <2>2. QED
    BY <1>2, <2>1, ScanLoops
<1>3. QED
  BY <1>1, <1>2 DEF StartFlush

-----------------------------------------------------------------------------
(***************************************************************************)
(* What an operation does to the outbox: it suppresses the outputs I, adds *)
(* one of O at most, and leaves the flush where it was or begins one.      *)
(***************************************************************************)

(* The row i of the outbox after the step, against what it was before. *)
RowKept(i, I) ==
  /\ i \in DOMAIN outbox
  /\ SameColumns(outbox'[i], outbox[i])
  /\ outbox'[i].state = "pending" => outbox[i].state = "pending" /\ i \notin I

RowAdded(i, O) == i \notin DOMAIN outbox /\ \E o \in O : SameColumns(outbox'[i], o)

Touches(I, O) == \A i \in DOMAIN outbox' : RowKept(i, I) \/ RowAdded(i, O)

(* The flush waits where it did, or at an output its loop did not refuse. *)
Waits ==
  flush'.at # "idle" =>
    \/ flush.at # "idle" /\ flush'.cur = flush.cur
    \/ ~Refused(outbox'[flush'.cur])

Delivers(I, O) ==
  /\ Touches(I, O)
  /\ Ordered(outbox')
  /\ Looping(outbox)'
  /\ Waits

(* The tables an operation makes of the outbox. *)
LEMMA SilencedTouches ==
  ASSUME DeliveryTyped, NEW I, NEW out, Silenced(Suppress(outbox, I), out), outbox' = out
  PROVE  Touches(I, {})
<1>1. /\ Silenced(outbox, Suppress(outbox, I))
      /\ \A i \in DOMAIN outbox : i \in I => Suppress(outbox, I)[i].state # "pending"
  BY SuppressSilences DEF DeliveryTyped
<1>2. QED
  BY <1>1 DEF Silenced, SameColumns, Touches, RowKept

(* Suppressing outputs under a flush, or giving the flush up. *)
LEMMA HushDelivers ==
  ASSUME OInv, NEW I, outbox' = Suppress(outbox, I), flush' = flush \/ flush' = NoFlush
  PROVE  Delivers(I, {})
<1>1. outbox \in Seq(OutputRow) /\ Ordered(outbox) /\ Looping(outbox) /\ DeliveryTyped
  BY DEF OInv, IInv, DeliveryTyped
<1>2. Silenced(outbox, outbox') /\ Silenced(outbox', outbox')
  BY <1>1, SuppressSilences, SilencedSame, SuppressTyped
<1>3. Ordered(outbox') /\ Looping(outbox')
  BY <1>1, <1>2, SilencedOrdered, SilencedLooping
<1>4. Looping(outbox)'
  BY <1>3 DEF Looping, NoFlush
<1>5. QED
  BY <1>1, <1>2, <1>3, <1>4, SilencedTouches DEF Delivers, Waits, NoFlush

(* Suppressing outputs and flushing the rest. *)
LEMMA FlushDelivers ==
  ASSUME OInv, NEW I, StartFlush(Suppress(outbox, I))
  PROVE  Delivers(I, {})
<1> DEFINE out == Suppress(outbox, I)
<1>1. outbox \in Seq(OutputRow) /\ Ordered(outbox) /\ Looping(outbox) /\ DeliveryTyped
  BY DEF OInv, IInv, DeliveryTyped
<1>2. Silenced(outbox, out) /\ out \in Seq(OutputRow)
  BY <1>1, SuppressSilences, SuppressTyped
<1>3. Ordered(out) /\ Looping(out)
  BY <1>1, <1>2, SilencedOrdered, SilencedLooping
<1>4. Silenced(out, outbox')
  BY <1>2, FlushSilences
<1>5. Touches(I, {})
  BY <1>1, <1>4, SilencedTouches
<1> HIDE DEF out
<1>6. StartFlush(out)
  BY DEF out
<1>7. QED
  BY <1>2, <1>3, <1>5, <1>6, FlushLoops DEF Delivers, Waits

(* Suppressing outputs, writing one, and flushing. *)
LEMMA SayDelivers ==
  ASSUME OInv, NEW I, NEW o \in OutputRow, o.state = "pending",
         StartFlush(Append(Suppress(outbox, I), o))
  PROVE  Delivers(I, {o})
<1> DEFINE mid == Suppress(outbox, I)
           out == Append(mid, o)
<1>1. outbox \in Seq(OutputRow) /\ Ordered(outbox) /\ Looping(outbox) /\ DeliveryTyped
  BY DEF OInv, IInv, DeliveryTyped
<1>2. /\ Silenced(outbox, mid) /\ mid \in Seq(OutputRow) /\ DOMAIN mid = DOMAIN outbox
      /\ \A i \in DOMAIN outbox : i \in I => mid[i].state # "pending"
  BY <1>1, SuppressSilences, SuppressTyped
<1>3. Ordered(mid) /\ Looping(mid)
  BY <1>1, <1>2, SilencedOrdered, SilencedLooping
<1> HIDE DEF mid
<1>4. Ordered(out) /\ Looping(out)
  BY <1>1, <1>2, <1>3, AppendOrdered
<1>5. /\ out \in Seq(OutputRow) /\ out[Len(mid) + 1] = o
      /\ DOMAIN out = DOMAIN mid \cup {Len(mid) + 1} /\ Len(mid) + 1 \notin DOMAIN mid
      /\ \A i \in DOMAIN mid : out[i] = mid[i]
  BY <1>2, AppendRows
<1>6. StartFlush(out)
  BY DEF mid
<1> HIDE DEF out
<1>7. Silenced(out, outbox')
  BY <1>5, <1>6, FlushSilences
<1>8. Touches(I, {o})
  <2>1. SUFFICES ASSUME NEW i \in DOMAIN outbox' PROVE RowKept(i, I) \/ RowAdded(i, {o})
    BY DEF Touches
  <2>2. CASE i \in DOMAIN mid
    BY <1>2, <1>5, <1>7, <2>2 DEF Silenced, SameColumns, RowKept
  <2>3. CASE i \notin DOMAIN mid
    BY <1>2, <1>5, <1>7, <2>1, <2>3 DEF Silenced, RowAdded
  <2>4. QED
    BY <2>2, <2>3
<1>9. QED
  BY <1>4, <1>5, <1>6, <1>8, FlushLoops DEF Delivers, Waits

(* Suppressing nothing. *)
LEMMA SuppressNone ==
  ASSUME NEW out \in Seq(OutputRow) PROVE Suppress(out, {}) = out
<1>1. DOMAIN Suppress(out, {}) = DOMAIN out /\ \A i \in DOMAIN out : Suppress(out, {})[i] = out[i]
  BY DEF Suppress, UpdateOutputs
<1>2. Suppress(out, {}) \in Seq(OutputRow)
  BY SuppressTyped
<1>3. QED
  BY <1>1, <1>2

(* Suppressing twice. *)
LEMMA SuppressTwice ==
  ASSUME NEW out \in Seq(OutputRow), NEW I, NEW J
  PROVE  Suppress(Suppress(out, I), J) = Suppress(out, I \cup J)
<1> DEFINE one == Suppress(out, I)
           two == Suppress(one, J)
           both == Suppress(out, I \cup J)
<1>1. one \in Seq(OutputRow) /\ two \in Seq(OutputRow) /\ both \in Seq(OutputRow)
      /\ DOMAIN one = DOMAIN out /\ DOMAIN two = DOMAIN out /\ DOMAIN both = DOMAIN out
  BY SuppressTyped
<1>2. ASSUME NEW i \in DOMAIN out PROVE two[i] = both[i]
  <2>1. out[i] \in OutputRow
    BY <1>2
  <2>2. one[i] = IF i \in I /\ out[i].state = "pending" THEN [out[i] EXCEPT !.state = "suppressed"] ELSE out[i]
    BY <1>2 DEF Suppress, UpdateOutputs
  <2>3. two[i] = IF i \in J /\ one[i].state = "pending" THEN [one[i] EXCEPT !.state = "suppressed"] ELSE one[i]
    BY <1>1, <1>2 DEF Suppress, UpdateOutputs
  <2>4. both[i] = IF i \in I \cup J /\ out[i].state = "pending" THEN [out[i] EXCEPT !.state = "suppressed"] ELSE out[i]
    BY <1>2 DEF Suppress, UpdateOutputs
  <2>5. [out[i] EXCEPT !.state = "suppressed"].state = "suppressed"
    BY <2>1 DEF OutputRow
  <2> HIDE DEF one, two, both
  <2>6. QED
    BY <2>2, <2>3, <2>4, <2>5
<1> HIDE DEF one, two, both
<1>3. two = both
  BY <1>1, <1>2
<1>4. QED
  BY <1>3 DEF one, two, both

(* The loop goes on after the output it waited at. *)
LEMMA ScanDelivers ==
  ASSUME OInv, flush.at # "idle", NEW failed, flush.failed \subseteq failed,
         NEW out \in Seq(OutputRow), DOMAIN out = DOMAIN outbox,
         \A i \in DOMAIN outbox : /\ SameColumns(out[i], outbox[i])
                                  /\ out[i].state = "pending" => outbox[i].state = "pending",
         Ordered(out),
         out[flush.cur].state # "pending" \/ Current.group \in failed,
         Scan(flush.rest, failed, out)
  PROVE  Delivers({}, {})
<1>1. /\ flush.rest \in SUBSET DOMAIN out /\ flush.cur \in DOMAIN out
      /\ Swept(outbox, flush.rest \cup {flush.cur}, flush.failed)
  BY DEF OInv, IInv, DeliveryTyped, Looping
<1>2. Swept(out, flush.rest, failed)
  <2>1. SUFFICES ASSUME NEW i \in DOMAIN outbox, out[i].state = "pending", i \notin flush.rest,
                        out[i].group \notin failed
                 PROVE  \A j \in flush.rest : j < i
    BY DEF Swept
  <2>2. i # flush.cur /\ outbox[i].state = "pending" /\ outbox[i].group \notin flush.failed
    BY <2>1 DEF Current, SameColumns
  <2>3. QED
    BY <1>1, <2>1, <2>2 DEF Swept
<1>3. Ordered(outbox') /\ Looping(outbox)' /\ Waits
  BY <1>1, <1>2, ScanLoops DEF Waits
<1>4. Silenced(out, outbox')
  BY ScanSilences
<1>5. Touches({}, {})
  BY <1>4 DEF Silenced, SameColumns, Touches, RowKept
<1>6. QED
  BY <1>3, <1>5 DEF Delivers

(* Each answer of WhatsApp moves the loop of deliverOutbox() by one output at *)
(* most.                                                                     *)
LEMMA LoopDelivers == ASSUME OInv, Delivery PROVE Delivers({}, {})
<1>1. /\ outbox \in Seq(OutputRow) /\ Ordered(outbox) /\ Looping(outbox) /\ flush \in FlushState
      /\ flush.at # "idle" => flush.cur \in DOMAIN outbox
  BY DEF OInv, IInv, DeliveryTyped
<1>2. ASSUME outbox' = outbox, flush.at # "idle", flush'.cur = flush.cur,
             flush'.rest = flush.rest, flush'.failed = flush.failed
      PROVE  Delivers({}, {})
  <2>1. Touches({}, {})
    BY <1>2 DEF Touches, RowKept, SameColumns
  <2>2. Looping(outbox)'
    BY <1>1, <1>2 DEF Looping, Swept
  <2>3. QED
    BY <1>1, <1>2, <2>1, <2>2 DEF Delivers, Waits
<1>4. CASE RosterAnswered
  <2>1. PICK people \in SUBSET Participants :
          IF Present(Current, people) /\ Authorized(Current)
          THEN /\ flush' = [flush EXCEPT !.at = "throttle", !.tries = 1,
                                         !.full = EveryoneAuthorized(Current, people)]
               /\ outbox' = outbox
          ELSE Scan(flush.rest, flush.failed, Suppress(outbox, {flush.cur}))
    BY <1>4 DEF RosterAnswered
  <2>2. flush.at # "idle"
    BY <1>4 DEF RosterAnswered
  <2>3. CASE Present(Current, people) /\ Authorized(Current)
    BY <1>1, <1>2, <2>1, <2>2, <2>3 DEF FlushState
  <2>4. CASE ~(Present(Current, people) /\ Authorized(Current))
    <3> DEFINE out == Suppress(outbox, {flush.cur})
    <3>1. /\ out \in Seq(OutputRow) /\ DOMAIN out = DOMAIN outbox /\ Silenced(outbox, out)
          /\ out[flush.cur].state # "pending"
      BY <1>1, <2>2, SuppressTyped, SuppressSilences
    <3>2. Scan(flush.rest, flush.failed, out)
      BY <2>1, <2>4
    <3> HIDE DEF out
    <3>3. Ordered(out)
      BY <1>1, <3>1, SilencedOrdered
    <3>4. QED
      BY <2>2, <3>1, <3>2, <3>3, ScanDelivers DEF Silenced
  <2>5. QED
    BY <2>3, <2>4
<1>5. CASE Throttled \/ RateLimited \/ Sends
  <2>1. flush.at # "idle" /\ outbox' = outbox
    BY <1>5 DEF Throttled, RateLimited, Sends
  <2>2. flush'.cur = flush.cur /\ flush'.rest = flush.rest /\ flush'.failed = flush.failed
    BY <1>1, <1>5 DEF Throttled, RateLimited, Sends, FlushState
  <2>3. QED
    BY <1>2, <2>1, <2>2
<1>6. CASE Sent
  <2> DEFINE out == UpdateOutputs(outbox, {flush.cur}, "sent")
  <2>1. Scan(flush.rest, flush.failed, out) /\ flush.at # "idle"
    BY <1>6 DEF Sent
  <2>2. /\ out \in Seq(OutputRow) /\ DOMAIN out = DOMAIN outbox
        /\ \A i \in DOMAIN outbox :
             /\ SameColumns(out[i], outbox[i])
             /\ out[i].state = IF i = flush.cur /\ outbox[i].state = "pending" THEN "sent" ELSE outbox[i].state
    BY <1>1, UpdateTyped, UpdateRows
  <2> HIDE DEF out
  <2>3. Ordered(out)
    <3>1. SUFFICES ASSUME NEW i \in DOMAIN outbox, NEW j \in DOMAIN outbox, i < j, out[i].group = out[j].group,
                          out[j].state = "sent", out[i].state = "pending"
                   PROVE  FALSE
      BY <2>2 DEF Ordered
    <3>2. /\ outbox[i].state = "pending" /\ outbox[i].group = outbox[j].group
          /\ outbox[j].state = "sent" \/ j = flush.cur
      BY <2>2, <3>1 DEF SameColumns
    <3>3. j = flush.cur
      BY <1>1, <3>1, <3>2 DEF Ordered
    <3>4. /\ \A k \in flush.rest : flush.cur < k
          /\ outbox[flush.cur].group \notin flush.failed
          /\ Swept(outbox, flush.rest \cup {flush.cur}, flush.failed)
          /\ i \in Nat /\ flush.cur \in Nat
          /\ flush.rest \subseteq Nat
      BY <1>1, <2>1 DEF Looping, FlushState
    <3>5. i \notin flush.rest \cup {flush.cur}
      BY <3>1, <3>3, <3>4
    <3>6. QED
      BY <3>1, <3>2, <3>3, <3>4, <3>5 DEF Swept
  <2>4. out[flush.cur].state # "pending"
    BY <1>1, <2>1, <2>2
  <2>5. QED
    BY <2>1, <2>2, <2>3, <2>4, ScanDelivers
<1>7. CASE DeliveryFails
  <2>1. Scan(flush.rest, flush.failed \cup {Current.group}, outbox) /\ flush.at # "idle"
    BY <1>7 DEF DeliveryFails
  <2>2. QED
    BY <1>1, <2>1, ScanDelivers DEF SameColumns
<1>8. QED
  BY <1>4, <1>5, <1>6, <1>7 DEF Delivery

-----------------------------------------------------------------------------
(***************************************************************************)
(* What is written, and what still waits after a step, may be shown.       *)
(***************************************************************************)

Gone == {"cancelled", "cancelling"}

(* An operation that leaves the configuration alone suppresses, with I, the  *)
(* outputs of every task it cancels.                                         *)
Covers(I) ==
  /\ UNCHANGED configVars
  /\ \A t \in TaskId :
       Exists(t) => /\ task'[t] = task[t]
                    /\ status'[t] \in Gone => status[t] \in Gone \/ OutputsOf(outbox, {t}) \subseteq I

Spares(I, O) ==
  /\ \A i \in DOMAIN outbox \ I :
       outbox[i].state = "pending" /\ Fit(outbox[i]) => ~Refused(outbox[i])
  /\ \A o \in O : ~Refused(o) /\ (o.task # 0 => Exists(o.task)')

(* What every step does to the outbox, unless the program dies between two   *)
(* writes of an owner change.                                                *)
Speaks == \E I, O : Delivers(I, O) /\ Spares(I, O)

Torn == Spend("torn") /\ Delivers({}, {}) /\ flush' = NoFlush

(* What such an operation leaves waiting may still be shown. *)
LEMMA CoversSpares ==
  ASSUME OInv, NEW I, Covers(I) PROVE Spares(I, {})
<1>1. SUFFICES ASSUME NEW i \in DOMAIN outbox \ I, Fit(outbox[i]) PROVE ~Refused(outbox[i])
  BY DEF Spares
<1> DEFINE o == outbox[i]
<1>2. /\ o.group \in Groups /\ o.task \in 0..MaxTasks /\ o.to \in Participants
      /\ o.task # 0 => o.task \in TaskId /\ Exists(o.task)
  <2>1. outbox \in Seq(OutputRow)
    BY DEF OInv, IInv, DeliveryTyped
  <2>2. QED
    BY <2>1, RowOf, RepositoryAssumption DEF OInv, Known, TaskId
<1>3. o.task # 0 => i \in OutputsOf(outbox, {o.task})
  BY DEF OutputsOf
<1>4. /\ enabled'[o.group]
      /\ GrantedAfter(o.group, o.to) = Granted(o.group, o.to)
      /\ o.task # 0 => AllowedAfter(o.task) <=> Allowed(o.task)
  BY <1>1, <1>2 DEF Covers, configVars, Fit, Authorized, GrantedAfter, Granted, GrantedIn, Allowed, AllowedAfter, AllowedIn
<1>5. QED
  BY <1>1, <1>2, <1>3, <1>4 DEF Covers, Fit, Authorized, Refused, Gone

(* The operation that only suppresses, ... *)
LEMMA HushSpeaks ==
  ASSUME OInv, NEW I, Covers(I), outbox' = Suppress(outbox, I), flush' = flush \/ flush' = NoFlush
  PROVE  Speaks
BY CoversSpares, HushDelivers DEF Speaks

(* ... that touches no output, ... *)
LEMMA SilentSpeaks ==
  ASSUME OInv, Covers({}), outbox' = outbox, flush' = flush \/ flush' = NoFlush
  PROVE  Speaks
BY HushSpeaks, SuppressNone DEF OInv, IInv, DeliveryTyped

(* ... that flushes what it has not suppressed, ... *)
LEMMA FlushSpeaks ==
  ASSUME OInv, NEW I, Covers(I), StartFlush(Suppress(outbox, I))
  PROVE  Speaks
BY CoversSpares, FlushDelivers DEF Speaks

(* ... and that adds an output of its own. *)
LEMMA SaySpeaks ==
  ASSUME OInv, NEW I, Covers(I),
         NEW g \in Groups, NEW t \in 0..MaxTasks, NEW p \in Participants,
         StartFlush(Append(Suppress(outbox, I), Output(g, t, p))),
         ~Refused(Output(g, t, p)), t # 0 => Exists(t)'
  PROVE  Speaks
<1> DEFINE o == Output(g, t, p)
<1>1. o \in OutputRow /\ o.state = "pending" /\ o.task = t
  BY DEF Output, OutputRow
<1>2. Delivers(I, {o})
  BY <1>1, SayDelivers
<1>3. Spares(I, {o})
  BY <1>1, CoversSpares DEF Spares
<1>4. QED
  BY <1>2, <1>3 DEF Speaks

-----------------------------------------------------------------------------
(***************************************************************************)
(* Start, stop, crash, timer, and the calls that only wait.                *)
(***************************************************************************)

(* pump() cancels what it denies, and nothing else. *)
LEMMA PumpCancels ==
  ASSUME NEW st \in [TaskId -> TaskStatus], NEW ex \in [TaskId -> ExecStep], Pump(st, ex),
         NEW t \in TaskId, status'[t] \in Gone
  PROVE  st[t] \in Gone \/ (phase' = "up" /\ t \in Denied(st, ex) /\ t \in Fallen(st, ex))
<1>1. CASE phase' # "up"
  BY <1>1 DEF Pump
<1>2. CASE phase' = "up"
  <2>1. status'[t] = IF t \in Denied(st, ex) THEN "cancelled"
                     ELSE IF t \in Stuck(st, ex) THEN "needs_attention" ELSE st[t]
    BY <1>2 DEF Pump
  <2>2. t \in Denied(st, ex) => t \in Fallen(st, ex)
    BY <1>2 DEF Fallen, Below, Denied
  <2>3. QED
    BY <1>2, <2>1, <2>2 DEF Gone
<1>3. QED
  BY <1>1, <1>2

(* What pump() cancels it suppresses: for an edit that cancels nothing.      *)
LEMMA PumpCovers ==
  ASSUME UNCHANGED configVars, \A t \in TaskId : Exists(t) => task'[t] = task[t],
         NEW st \in [TaskId -> TaskStatus], NEW ex \in [TaskId -> ExecStep], Pump(st, ex),
         \A t \in TaskId : Exists(t) /\ st[t] \in Gone => status[t] \in Gone,
         NEW I, OutputsOf(outbox, Fallen(st, ex)) \subseteq I
  PROVE  Covers(I)
<1>1. ASSUME NEW t \in TaskId, Exists(t), status'[t] \in Gone
      PROVE  status[t] \in Gone \/ OutputsOf(outbox, {t}) \subseteq I
  BY <1>1, PumpCancels DEF OutputsOf
<1>2. QED
  BY <1>1 DEF Covers

(* start(): what had begun has nothing more to say. *)
LEMMA StartSpeaks == ASSUME OInv, Start PROVE Speaks
<1> DEFINE J == OutputsOf(outbox, {t \in TaskId : Recovered[t] = "needs_attention"})
           K == OutputsOf(outbox, Fallen(Recovered, exec))
<1>1. outbox \in Seq(OutputRow) /\ status \in [TaskId -> TaskStatus] /\ exec \in [TaskId -> ExecStep]
  BY DEF OInv, IInv, DeliveryTyped, Ledger, LedgerTypes
<1>2. StartFlush(Suppress(outbox, J \cup K))
  BY <1>1, SuppressTwice DEF Start, RecoveredOutbox
<1>3. Recovered \in [TaskId -> TaskStatus]
      /\ \A t \in TaskId : Recovered[t] = status[t] \/ Recovered[t] = "needs_attention"
  BY <1>1 DEF Recovered, SetStatus, TaskStatus
<1>4. Pump(Recovered, exec) /\ UNCHANGED configVars /\ task' = task
  BY DEF Start
<1> HIDE DEF J
<1>5. Covers(J \cup K)
  <2>1. \A t \in TaskId : Recovered[t] \in Gone => status[t] \in Gone
    BY <1>3 DEF Gone
  <2>2. QED
    BY <1>1, <1>3, <1>4, <2>1, PumpCovers
<1>6. QED
  BY <1>2, <1>5, FlushSpeaks

(* The timer. *)
LEMMA TickSpeaks == ASSUME OInv, Tick PROVE Speaks
<1>1. status \in [TaskId -> TaskStatus] /\ exec \in [TaskId -> ExecStep]
  BY DEF OInv, IInv, Ledger, LedgerTypes
<1>2. Covers(OutputsOf(outbox, Fallen(status, exec)))
  BY <1>1, PumpCovers DEF Tick
<1>3. QED
  BY <1>2, FlushSpeaks DEF Tick

(* What leaves the outbox and the configuration alone. *)
LEMMA WaitingSpeaks ==
  ASSUME OInv,
         \/ Stop \/ Stopped \/ Crash
         \/ \E g \in Groups : BeginEnable(g) \/ RefuseEnable(g)
         \/ \E t \in TaskId : BeginRetry(t) \/ RefuseRetry(t)
         \/ \E m \in Messages : Deliver(m)
         \/ Ignore
  PROVE  Speaks
<1>1. UNCHANGED <<configVars, task, outbox>> /\ flush' \in {flush, NoFlush}
  BY DEF Stop, Stopped, Crash, Die, BeginEnable, RefuseEnable, BeginRetry, RefuseRetry, Deliver, Ignore,
         storeVars, configVars
<1>2. \A t \in TaskId : status'[t] \in Gone => status[t] \in Gone
  <2>1. CASE Stop
    BY <2>1 DEF Stop, SetStatus, Gone
  <2>2. CASE status' = status
    BY <2>2
  <2>3. QED
    BY <2>1, <2>2 DEF Stopped, Crash, BeginEnable, RefuseEnable, BeginRetry, RefuseRetry, Deliver, Ignore, storeVars
<1>3. QED
  BY <1>1, <1>2, SilentSpeaks DEF Covers

-----------------------------------------------------------------------------
(***************************************************************************)
(* The owner.                                                              *)
(***************************************************************************)

(* An owner change silences whatever its new configuration refuses, ...      *)
LEMMA SettleSpeaks ==
  ASSUME OInv, NEW I, NEW out, out = Suppress(outbox, I), NEW pumps, task' = task, Settle(out, pumps)
  PROVE  Speaks
<1> DEFINE hit == Unauthorized(status)
           st == Cancelled(status, exec, hit)
           J == OutputsOf(out, hit) \cup UnauthorizedOutputs(out)
<1>1. /\ outbox \in Seq(OutputRow) /\ status \in [TaskId -> TaskStatus] /\ exec \in [TaskId -> ExecStep]
      /\ QueueInv
  BY IInvQueue DEF OInv, IInv, DeliveryTyped, Ledger, LedgerTypes
<1>2. DOMAIN out = DOMAIN outbox /\ \A i \in DOMAIN outbox : SameColumns(out[i], outbox[i])
  BY <1>1, SuppressSilences DEF Silenced
<1>3. /\ IF pumps THEN Pump(st, exec) ELSE status' = st /\ exec' = exec
      /\ outbox' = Suppress(out, J) /\ flush' = flush
  BY DEF Settle, CancelUnauthorized
<1>4. outbox' = Suppress(outbox, I \cup J)
  BY <1>1, <1>3, SuppressTwice
<1>5. st \in [TaskId -> TaskStatus] /\ \A t \in TaskId : st[t] \in Gone => status[t] \in Gone \/ t \in hit
  BY <1>1 DEF Cancelled, Gone, TaskStatus
<1> HIDE DEF hit, st
<1>6. Spares(I \cup J, {})
  <2>1. SUFFICES ASSUME NEW i \in DOMAIN outbox, i \notin J, Fit(outbox[i]) PROVE ~Refused(outbox[i])
    BY DEF Spares
  <2> DEFINE o == outbox[i]
  <2>2. o.task # 0 => o.task \in TaskId
    <3>1. o.task \in 0..MaxTasks
      BY <1>1, RowOf
    <3>2. QED
      BY <3>1, RepositoryAssumption DEF TaskId
  <2>3. out[i].group = o.group /\ out[i].task = o.task /\ out[i].to = o.to
    BY <1>2 DEF SameColumns
  <2>4. /\ enabled'[o.group] /\ GrantedAfter(o.group, o.to) # {}
        /\ o.task # 0 => AllowedAfter(o.task)
        /\ o.task \notin hit
    BY <1>2, <2>1, <2>3 DEF UnauthorizedOutputs, OutputsOf
  <2>5. ASSUME o.task # 0, status'[o.task] \in Gone PROVE FALSE
    <3>1. st[o.task] \in Gone
      <4>1. CASE pumps
        BY <1>1, <1>3, <1>5, <2>2, <2>4, <2>5, <4>1, PumpCancels DEF Denied
      <4>2. CASE ~pumps
        BY <1>3, <2>5, <4>2
      <4>3. QED
        BY <4>1, <4>2
    <3>2. QED
      BY <1>5, <2>1, <2>2, <2>4, <2>5, <3>1 DEF Fit, Gone
  <2>6. QED
    BY <2>4, <2>5 DEF Refused, Gone
<1>7. Delivers(I \cup J, {})
  BY <1>3, <1>4, HushDelivers
<1>8. QED
  BY <1>6, <1>7 DEF Speaks

(* ... unless the program dies before it does. *)
LEMMA OwnerChangeSpeaks ==
  ASSUME OInv, NEW I, NEW out, out = Suppress(outbox, I),
         NEW pumps, NEW calls, OwnerChange(out, pumps, calls)
  PROVE  Speaks \/ Torn
<1>1. CASE Settle(out, pumps)
  BY <1>1, SettleSpeaks DEF OwnerChange
<1>2. CASE Spend("torn") /\ Die /\ outbox' = outbox
  <2>1. outbox' = Suppress(outbox, {})
    BY <1>2, SuppressNone DEF OInv, IInv, DeliveryTyped
  <2>2. QED
    BY <1>2, <2>1, HushDelivers DEF Torn, Die
<1>3. QED
  BY <1>1, <1>2 DEF OwnerChange

(* Linking a folder takes no output its reader. *)
LEMMA AddRepositorySpeaks ==
  ASSUME OInv, NEW r \in Repos, AddRepository(r) PROVE Speaks
<1>1. outbox \in Seq(OutputRow) /\ repository \in [Repos -> {"unlinked", "linked", "removed"}]
      /\ grants \in [Participants -> SUBSET Repos] /\ task \in [TaskId -> TaskRow]
  BY DEF OInv, IInv, DeliveryTyped, ConfigTyped, RowsTyped
<1>2. UNCHANGED <<enabled, grants, task, status, outbox, flush>>
  BY DEF AddRepository
<1>3. \A s \in Repos : repository[s] = "linked" => repository'[s] = "linked"
  BY <1>1 DEF AddRepository
<1>4. \A g, p : grants[p] \subseteq Repos => Granted(g, p) \subseteq GrantedAfter(g, p)
  BY <1>2, <1>3 DEF Granted, GrantedAfter, GrantedIn
<1>5. Spares({}, {})
  <2>1. SUFFICES ASSUME NEW i \in DOMAIN outbox, Fit(outbox[i]) PROVE ~Refused(outbox[i])
    BY DEF Spares
  <2> DEFINE o == outbox[i]
  <2>2. /\ o.group \in Groups /\ o.to \in Participants
        /\ o.task # 0 => o.task \in TaskId /\ Exists(o.task)
    BY <1>1, RowOf, RepositoryAssumption DEF OInv, Known, TaskId
  <2>3. GrantedAfter(o.group, o.to) # {} /\ enabled'[o.group]
    BY <1>1, <1>2, <1>4, <2>1, <2>2 DEF Fit, Authorized
  <2>4. ASSUME o.task # 0 PROVE AllowedAfter(o.task)
    <3>1. Allowed(o.task)
      BY <2>1, <2>4 DEF Fit, Authorized
    <3>2. task[o.task].author \in Participants
      BY <2>2, <2>4 DEF OInv, IInv, RowsTyped, Exists
    <3>3. Granted(task[o.task].group, task[o.task].author) \subseteq GrantedAfter(task[o.task].group, task[o.task].author)
      BY <1>1, <1>4, <3>2
    <3>4. QED
      BY <1>2, <3>1, <3>3 DEF Allowed, AllowedAfter, AllowedIn, Granted, GrantedAfter
  <2>5. QED
    BY <1>2, <2>1, <2>3, <2>4 DEF Refused, Fit
<1>6. Delivers({}, {})
  BY <1>1, <1>2, HushDelivers, SuppressNone
<1>7. QED
  BY <1>5, <1>6 DEF Speaks

(* cancelTask and refreshMembership silence what they cancel. *)
LEMMA CancelCovers ==
  ASSUME UNCHANGED <<configVars, task>>, NEW hit, status' = Cancelled(status, exec, hit)
  PROVE  Covers(OutputsOf(outbox, hit))
BY DEF Covers, Cancelled, OutputsOf, Gone

(* So they may. *)
LEMMA CancelTurnSpeaks ==
  ASSUME OInv, NEW t \in TaskId, CancelTask(t) \/ RefreshMembership(t)
  PROVE  Speaks
<1> DEFINE hit == Hit(status, {t})
<1>1. /\ status' = Cancelled(status, exec, hit)
      /\ outbox' = Suppress(outbox, OutputsOf(outbox, hit))
      /\ UNCHANGED <<configVars, task, flush>>
  BY DEF CancelTask, RefreshMembership, CancelTurn, cancelFrame
<1> HIDE DEF hit
<1>2. QED
  BY <1>1, CancelCovers, HushSpeaks

(* A row that is created is no row of an output there is. *)
LEMMA CreateCovers ==
  ASSUME OInv, UNCHANGED configVars, NEW n \in TaskId, NEW row, CreateTask(n, row),
         Pump([status EXCEPT ![n] = "queued"], exec),
         NEW I, OutputsOf(outbox, Fallen([status EXCEPT ![n] = "queued"], exec)) \subseteq I
  PROVE  Covers(I)
<1> DEFINE st == [status EXCEPT ![n] = "queued"]
<1>1. /\ status \in [TaskId -> TaskStatus] /\ exec \in [TaskId -> ExecStep] /\ task \in [TaskId -> TaskRow]
      /\ status[n] = "absent"
  BY DEF OInv, IInv, Ledger, LedgerTypes, RowsTyped, CreateTask, IsNextId, FreeId
<1>2. \A t \in TaskId : Exists(t) => task'[t] = task[t] /\ st[t] = status[t]
  BY <1>1 DEF CreateTask, Exists
<1>3. st \in [TaskId -> TaskStatus]
  BY <1>1 DEF TaskStatus
<1> HIDE DEF st
<1>4. Pump(st, exec) /\ OutputsOf(outbox, Fallen(st, exec)) \subseteq I
  BY DEF st
<1>5. QED
  BY <1>1, <1>2, <1>3, <1>4, PumpCovers

(* A retry says nothing, but its pump() may silence. *)
LEMMA FinishRetrySpeaks ==
  ASSUME OInv, NEW t \in TaskId, FinishRetry(t) PROVE Speaks
<1>1. PICK n \in TaskId :
        LET st == [status EXCEPT ![n] = "queued"]
        IN /\ CreateTask(n, NewTask(task[t].group, task[t].author, task[t].repos, 0, task[t].source))
           /\ Pump(st, exec)
           /\ outbox' = Suppress(outbox, OutputsOf(outbox, Fallen(st, exec)))
  BY DEF FinishRetry
<1>2. UNCHANGED configVars /\ flush' = flush
  BY DEF FinishRetry
<1>3. Covers(OutputsOf(outbox, Fallen([status EXCEPT ![n] = "queued"], exec)))
  BY <1>1, <1>2, CreateCovers
<1>4. QED
  BY <1>1, <1>2, <1>3, HushSpeaks

(* Everything the owner does. *)
LEMMA OwnerSpeaks == ASSUME OInv, Owner PROVE Speaks \/ Torn
<1>1. outbox = Suppress(outbox, {})
  BY SuppressNone DEF OInv, IInv, DeliveryTyped
<1>2. CASE \E g \in Groups : Pause(g) \/ FinishEnable(g)
  <2>1. \E calls : OwnerChange(outbox, TRUE, calls)
    BY <1>2 DEF Pause, FinishEnable
  <2>2. QED
    BY <1>1, <2>1, OwnerChangeSpeaks
<1>3. CASE \E r \in Repos : RemoveRepository(r)
  <2>1. OwnerChange(outbox, FALSE, enabling)
    BY <1>3 DEF RemoveRepository
  <2>2. QED
    BY <1>1, <2>1, OwnerChangeSpeaks
<1>4. CASE \E g \in Groups, p \in Participants : \E R \in SUBSET Linked(g) : SetAccess(g, p, R)
  BY <1>4, OwnerChangeSpeaks DEF SetAccess
<1>5. QED
  BY <1>2, <1>3, <1>4, AddRepositorySpeaks, CancelTurnSpeaks, FinishRetrySpeaks, WaitingSpeaks DEF Owner

-----------------------------------------------------------------------------
(***************************************************************************)
(* The runs.                                                               *)
(***************************************************************************)

(* The finally block cancels nothing: whatever waits was allowed, and is.    *)
LEMMA ReleaseCancels ==
  ASSUME QueueInv, UNCHANGED <<configVars, task, phase>>,
         NEW t \in TaskId, NEW st \in [TaskId -> TaskStatus],
         \A u \in TaskId : st[u] = "queued" => status[u] = "queued",
         Release(t, st),
         NEW u \in TaskId
  PROVE  /\ status'[u] \in Gone => st[u] \in Gone
         /\ u = t /\ st[t] \in {"failed", "completed"} => status'[t] = st[t]
<1> DEFINE st2 == [st EXCEPT ![t] = IF @ = "cancelling" THEN "cancelled" ELSE @]
           ex2 == [exec EXCEPT ![t] = "idle"]
<1>1. exec \in [TaskId -> ExecStep] /\ Pump(st2, ex2)
  BY DEF QueueInv, Ledger, LedgerTypes, Release
<1>2. /\ st2 \in [TaskId -> TaskStatus] /\ ex2 \in [TaskId -> ExecStep]
      /\ st2[u] \in Gone => st[u] \in Gone
      /\ st2[u] = "queued" => st[u] = "queued"
      /\ st[t] \in {"failed", "completed"} => st2[t] = st[t]
  BY <1>1 DEF TaskStatus, ExecStep, Gone
<1> HIDE DEF st2, ex2
<1>3. u \in Denied(st2, ex2) => phase' # "up"
  BY <1>2, StillAllowed DEF Denied, Waiting, Live
<1>4. st[t] \in {"failed", "completed"} => status'[t] = st[t]
  BY <1>1, <1>2, PumpMoves DEF Waiting
<1>5. QED
  BY <1>1, <1>2, <1>3, <1>4, PumpCancels

(* return from the try block. *)
LEMMA ReturnSpeaks ==
  ASSUME OInv, UNCHANGED <<configVars, task, phase>>, NEW t \in TaskId, Return(t)
  PROVE  Speaks
<1>1. QueueInv /\ status \in [TaskId -> TaskStatus]
  BY IInvQueue DEF OInv, IInv, Ledger, LedgerTypes
<1>2. Release(t, status) /\ UNCHANGED <<outbox, flush>>
  BY DEF Return
<1>3. Covers({})
  BY <1>1, <1>2, ReleaseCancels DEF Covers
<1>4. QED
  BY <1>2, <1>3, SilentSpeaks

(* The author has left: what is cancelled is silenced. *)
LEMMA ExpelledSpeaks ==
  ASSUME OInv, UNCHANGED <<configVars, task, phase>>, NEW t \in TaskId, Expelled(t)
  PROVE  Speaks
<1> DEFINE hit == Hit(status, {t})
           st == Cancelled(status, exec, hit)
<1>1. QueueInv /\ status \in [TaskId -> TaskStatus]
  BY IInvQueue DEF OInv, IInv, Ledger, LedgerTypes
<1>2. Release(t, st) /\ outbox' = Suppress(outbox, OutputsOf(outbox, hit)) /\ flush' = flush
  BY DEF Expelled
<1>3. /\ st \in [TaskId -> TaskStatus]
      /\ \A u \in TaskId : /\ st[u] = "queued" => status[u] = "queued"
                           /\ st[u] \in Gone => status[u] \in Gone \/ u \in hit
  BY <1>1 DEF Cancelled, TaskStatus, Gone
<1> HIDE DEF hit, st
<1>4. Covers(OutputsOf(outbox, hit))
  BY <1>1, <1>2, <1>3, ReleaseCancels DEF Covers, OutputsOf
<1>5. QED
  BY <1>2, <1>4, HushSpeaks

(* A task speaks to its author while it is allowed. *)
LEMMA TellSpeaks ==
  ASSUME OInv, UNCHANGED <<configVars, task, phase>>, Covers({}),
         NEW t \in TaskId, Exists(t), Allowed(t), status'[t] \notin Gone \cup {"absent"}, Tell(t)
  PROVE  Speaks
<1> DEFINE g == task[t].group
           p == task[t].author
<1>1. /\ outbox \in Seq(OutputRow) /\ g \in Groups /\ p \in Participants
      /\ t \in 0..MaxTasks /\ t # 0
  BY RepositoryAssumption DEF OInv, IInv, DeliveryTyped, RowsTyped, Exists, TaskId
<1>2. enabled'[g] /\ GrantedAfter(g, p) # {} /\ AllowedAfter(t)
  BY DEF Allowed, AllowedAfter, AllowedIn, GrantedAfter, GrantedIn, configVars
<1>3. ~Refused(Output(g, t, p))
  BY <1>2 DEF Refused, Output, Gone
<1>4. StartFlush(Append(Suppress(outbox, {}), Output(g, t, p)))
  BY <1>1, SuppressNone DEF Tell
<1>5. QED
  BY <1>1, <1>3, <1>4, SaySpeaks DEF Exists

(* A run that ends says so. *)
LEMMA EndSpeaks ==
  ASSUME OInv, UNCHANGED <<configVars, task, phase>>, NEW t \in TaskId,
         NEW s \in {"failed", "completed"}, Release(t, [status EXCEPT ![t] = s]), Tell(t),
         Exists(t), Allowed(t)
  PROVE  Speaks
<1> DEFINE st == [status EXCEPT ![t] = s]
<1>1. QueueInv /\ status \in [TaskId -> TaskStatus]
  BY IInvQueue DEF OInv, IInv, Ledger, LedgerTypes
<1>2. /\ st \in [TaskId -> TaskStatus] /\ st[t] = s
      /\ \A u \in TaskId : /\ st[u] = "queued" => status[u] = "queued"
                           /\ st[u] \in Gone => status[u] \in Gone
  BY <1>1 DEF TaskStatus, Gone
<1> HIDE DEF st
<1>3. Release(t, st)
  BY DEF st
<1>4. Covers({}) /\ status'[t] = s
  BY <1>1, <1>2, <1>3, ReleaseCancels DEF Covers
<1>5. QED
  BY <1>4, TellSpeaks DEF Gone

(* The catch block speaks only for a run that is live, hence allowed. *)
LEMMA FailsSpeaks ==
  ASSUME OInv, UNCHANGED <<configVars, task, phase>>, NEW t \in TaskId, exec[t] # "idle", Fails(t)
  PROVE  Speaks
<1>1. CASE Aborted(t) \/ status[t] = "cancelled"
  BY <1>1, ReturnSpeaks DEF Fails
<1>2. CASE ~Aborted(t) /\ status[t] # "cancelled"
  <2>1. t \in Live(status) /\ phase = "up"
    BY <1>2 DEF Aborted, Live, OInv, IInv, Ledger, LedgerTypes, InStep, ExecStep
  <2>2. Allowed(t) /\ Exists(t)
    BY <2>1 DEF OInv, IInv, AuthorizedWork, Live, Exists
  <2>3. QED
    BY <1>2, <2>2, EndSpeaks DEF Fails
<1>3. QED
  BY <1>1, <1>2

(* Every step of a run. *)
LEMMA ExecutionSpeaks == ASSUME OInv, Execution PROVE Speaks
<1>1. PICK t \in TaskId : \/ MemberAnswered(t) \/ Validated(t) \/ Executed(t) \/ Remembered(t)
                          \/ ExecutionFails(t) \/ RefreshMembership(t)
  BY DEF Execution
<1>2. CASE RefreshMembership(t)
  BY <1>2, CancelTurnSpeaks
<1>3. CASE ~RefreshMembership(t)
  <2>1. /\ UNCHANGED <<configVars, task, phase>> /\ exec[t] # "idle"
        /\ Exists(t) /\ status \in [TaskId -> TaskStatus]
    BY <1>1, <1>3 DEF MemberAnswered, Validated, Executed, Remembered, ExecutionFails, execFrame,
       OInv, IInv, Ledger, LedgerTypes, Backed, Exists
  <2>2. UNCHANGED <<status, outbox, flush>> => Speaks
    BY <2>1, SilentSpeaks DEF Covers
  <2>3. CASE MemberAnswered(t)
    BY <2>1, <2>2, <2>3, ExpelledSpeaks, FailsSpeaks DEF MemberAnswered
  <2>4. CASE Validated(t)
    <3>1. CASE MayRun(t)
      <4>1. status' = [status EXCEPT ![t] = "running"] /\ Tell(t) /\ Allowed(t)
        BY <2>4, <3>1 DEF Validated, MayRun
      <4>2. Covers({}) /\ status'[t] = "running"
        BY <2>1, <4>1 DEF Covers, Gone
      <4>3. QED
        BY <2>1, <4>1, <4>2, TellSpeaks DEF Gone
    <3>2. CASE ~MayRun(t)
      BY <2>1, <2>4, <3>2, ReturnSpeaks DEF Validated
    <3>3. QED
      BY <3>1, <3>2
  <2>5. CASE Executed(t)
    BY <2>1, <2>2, <2>5, ReturnSpeaks DEF Executed
  <2>6. CASE Remembered(t)
    BY <2>1, <2>6, ReturnSpeaks, EndSpeaks, ExpelledSpeaks DEF Remembered, MayRun
  <2>7. CASE ExecutionFails(t)
    BY <2>1, <2>7, FailsSpeaks DEF ExecutionFails
  <2>8. QED
    BY <1>1, <1>3, <2>3, <2>4, <2>5, <2>6, <2>7
<1>4. QED
  BY <1>2, <1>3

-----------------------------------------------------------------------------
(***************************************************************************)
(* The messages.                                                           *)
(***************************************************************************)

(* Whoever is answered may still use something of the group. *)
LEMMA AdmittedMayRead ==
  ASSUME OInv, Admitted, UNCHANGED configVars
  PROVE  LET m == intake.message
         IN /\ m.group \in Groups /\ m.sender \in Participants
            /\ ~Refused(Output(m.group, 0, m.sender))
<1> DEFINE m == intake.message
<1>1. m \in Messages /\ intake.granted # {}
  BY DEF Admitted, OInv, IInv, CallsTyped, IntakeGranted
<1>2. m.group \in Groups /\ m.sender \in Participants
  BY <1>1, ServiceAssumption DEF WellFormed
<1>3. enabled'[m.group] /\ GrantedAfter(m.group, m.sender) # {}
  BY <1>1 DEF Admitted, configVars, Granted, GrantedAfter, GrantedIn
<1>4. QED
  BY <1>2, <1>3 DEF Refused, Output

(* An answer to a command, and an explanation. *)
LEMMA AnswersSpeak == ASSUME OInv, AnswerCommand \/ AnswerHelp PROVE Speaks
<1> DEFINE m == intake.message
<1>1. UNCHANGED configVars /\ Admitted /\ outbox \in Seq(OutputRow) /\ 0 \in 0..MaxTasks
  BY RepositoryAssumption DEF AnswerCommand, AnswerHelp, intakeFrame, OInv, IInv, DeliveryTyped
<1>2. m.group \in Groups /\ m.sender \in Participants /\ ~Refused(Output(m.group, 0, m.sender))
  BY <1>1, AdmittedMayRead
<1>3. PICK hit : /\ task' = task /\ status' = Cancelled(status, exec, hit)
                 /\ StartFlush(Append(Suppress(outbox, OutputsOf(outbox, hit)), Output(m.group, 0, m.sender)))
  <2>1. CASE AnswerCommand
    BY <2>1 DEF AnswerCommand
  <2>2. CASE AnswerHelp
    <3>1. status = Cancelled(status, exec, {})
      BY DEF Cancelled, OInv, IInv, Ledger, LedgerTypes
    <3>2. outbox = Suppress(outbox, OutputsOf(outbox, {}))
      BY <1>1, SuppressNone DEF OutputsOf
    <3>3. QED
      BY <2>2, <3>1, <3>2 DEF AnswerHelp
  <2>3. QED
    BY <2>1, <2>2
<1>4. Covers(OutputsOf(outbox, hit))
  BY <1>1, <1>3, CancelCovers
<1> HIDE DEF m
<1>5. QED
  BY <1>1, <1>2, <1>3, <1>4, SaySpeaks

(* New work asks for folders its author was granted, by the message or by    *)
(* the conversation it continues.                                            *)
LEMMA WorkIsGranted ==
  ASSUME OInv, Admitted, NEW parent \in 0..MaxTasks,
         IsParent(parent, intake.message), ~Refusal(parent, intake.message)
  PROVE  LET m == intake.message
             R == Selection(parent, m)
         IN /\ R # {} /\ R \subseteq Granted(m.group, m.sender)
            /\ parent # 0 => /\ parent \in TaskId /\ Exists(parent)
                             /\ task[parent].group = m.group /\ task[parent].repos = R
<1> DEFINE m == intake.message
           R == Selection(parent, m)
<1>1. R # {}
  BY DEF Refusal
<1>2. intake.granted \subseteq Granted(m.group, m.sender)
  BY DEF Admitted
<1>3. CASE parent = 0
  BY <1>1, <1>2, <1>3 DEF Selection, Selected
<1>4. CASE parent # 0
  <2> DEFINE q == Pointed(m)
  <2>1. q # 0 /\ parent \in TaskId /\ IsLatest(parent, q)
    BY <1>4 DEF IsParent
  <2>2. task[q].group = m.group /\ task[q].repos \subseteq intake.granted
    BY <2>1 DEF Pointed, Admitted
  <2>3. Exists(parent) /\ (q = parent \/ q \in task[parent].chain)
    BY <2>1 DEF IsLatest
  <2> HIDE DEF q
  <2>4. task[parent].group = task[q].group /\ task[parent].repos = task[q].repos
    BY <2>1, <2>3 DEF OInv, Family
  <2>5. R = task[parent].repos
    BY <1>4 DEF Selection
  <2>6. QED
    BY <1>1, <1>2, <2>1, <2>2, <2>3, <2>4, <2>5
<1>5. QED
  BY <1>3, <1>4

(* New work is acknowledged to an author who is allowed to ask for it. *)
LEMMA AcceptWorkSpeaks == ASSUME OInv, AcceptWork PROVE Speaks
<1> DEFINE m == intake.message
<1>1. PICK parent \in 0..MaxTasks, n \in TaskId :
        /\ IsParent(parent, m) /\ ~Refusal(parent, m)
        /\ CreateTask(n, NewTask(m.group, m.sender, Selection(parent, m), parent, Receipt(m)))
        /\ Pump([status EXCEPT ![n] = "queued"], exec)
        /\ StartFlush(Append(outbox, Output(m.group, n, m.sender)))
  BY DEF AcceptWork
<1> DEFINE st == [status EXCEPT ![n] = "queued"]
<1>2. /\ UNCHANGED <<configVars, phase>> /\ Admitted /\ phase = "up"
      /\ QueueInv /\ outbox \in Seq(OutputRow) /\ n \in 0..MaxTasks /\ n # 0
      /\ status \in [TaskId -> TaskStatus] /\ exec \in [TaskId -> ExecStep] /\ task \in [TaskId -> TaskRow]
  BY IInvQueue, RepositoryAssumption
     DEF AcceptWork, Admitted, intakeFrame, OInv, IInv, DeliveryTyped, Ledger, LedgerTypes, RowsTyped, TaskId
<1>3. m.group \in Groups /\ m.sender \in Participants /\ ~Refused(Output(m.group, 0, m.sender))
  BY <1>2, AdmittedMayRead
<1>4. Selection(parent, m) # {} /\ Selection(parent, m) \subseteq Granted(m.group, m.sender) /\ enabled[m.group]
  BY <1>1, <1>2, WorkIsGranted DEF Admitted
<1>5. /\ task'[n].group = m.group /\ task'[n].author = m.sender /\ task'[n].repos = Selection(parent, m)
      /\ \A t \in TaskId : t # n => task'[t] = task[t]
      /\ status[n] = "absent" /\ exec[n] = "idle"
  BY <1>1, <1>2 DEF CreateTask, NewTask, IsNextId, FreeId, OInv, IInv, Ledger, Backed
<1>6. AllowedAfter(n)
  BY <1>2, <1>4, <1>5 DEF AllowedAfter, AllowedIn, Granted, configVars
<1>7. /\ st \in [TaskId -> TaskStatus] /\ st[n] = "queued"
      /\ \A t \in TaskId : t # n => st[t] = status[t]
  BY <1>2 DEF TaskStatus
<1>8. Pump(st, exec)
  BY <1>1
<1> HIDE DEF st
<1>9. Denied(st, exec) = {}
  BY <1>2, <1>5, <1>6, <1>7, StillAllowed DEF Denied, Waiting, Live
<1>10. Covers({})
  BY <1>2, <1>5, <1>7, <1>8, <1>9, PumpCancels DEF Covers, Exists, Gone
<1>11. status'[n] \notin Gone /\ Exists(n)'
  BY <1>2, <1>5, <1>7, <1>8, <1>9, PumpCancels, PumpMoves DEF Gone, Waiting, Exists
<1>12. ~Refused(Output(m.group, n, m.sender))
  BY <1>3, <1>6, <1>11 DEF Refused, Output, Gone
<1>13. StartFlush(Append(Suppress(outbox, {}), Output(m.group, n, m.sender)))
  BY <1>1, <1>2, SuppressNone
<1> HIDE DEF m
<1>14. QED
  BY <1>2, <1>3, <1>10, <1>11, <1>12, <1>13, SaySpeaks

(* The delivery adds nothing. *)
LEMMA DeliverySpeaks == ASSUME OInv, Delivery PROVE Speaks
<1>1. UNCHANGED <<configVars, task, status>>
  BY DEF Delivery, deliveryFrame, RosterAnswered, Throttled, RateLimited, Sends, Sent, DeliveryFails
<1>2. Covers({})
  BY <1>1 DEF Covers
<1>3. QED
  BY <1>2, CoversSpares, LoopDelivers DEF Speaks

(* Every step. *)
LEMMA NextSpeaks == ASSUME OInv, Next PROVE Speaks \/ Torn
<1>1. CASE Lifecycle
  BY <1>1, StartSpeaks, TickSpeaks, WaitingSpeaks DEF Lifecycle
<1>2. CASE Intake
  BY <1>2, AnswersSpeak, AcceptWorkSpeaks, WaitingSpeaks DEF Intake
<1>3. QED
  BY <1>1, <1>2, OwnerSpeaks, ExecutionSpeaks, DeliverySpeaks DEF Next

-----------------------------------------------------------------------------
(***************************************************************************)
(* The rows, and the message that waits.                                   *)
(***************************************************************************)

(* A row is written by an operation that creates it, and by no other.        *)
Creates(n, row) ==
  /\ n \in TaskId /\ CreateTask(n, row)
  /\ row.group \in Groups
  /\ row.source \in receipts'
  /\ \A a \in row.chain : /\ a \in TaskId /\ Exists(a)
                          /\ task[a].group = row.group /\ task[a].repos = row.repos
  /\ status'[n] # "absent"
  /\ retrying' = retrying => row.source \notin receipts

(* Ancestors exist. *)
LEMMA ChainExists ==
  ASSUME OInv, NEW t \in TaskId, Exists(t), NEW a \in task[t].chain
  PROVE  a \in TaskId /\ Exists(a)
<1>1. /\ task[t].parent \in TaskId /\ Exists(task[t].parent)
      /\ a \in TaskId /\ a <= task[t].parent
  BY DEF OInv, IInv, Ledger, Rows, Exists
<1>2. a = task[t].parent \/ a < task[t].parent
  BY <1>1 DEF TaskId
<1>3. QED
  BY <1>1, <1>2 DEF OInv, IInv, Ledger, Rows, Exists

(* pump() leaves the row that was created there. *)
LEMMA PumpCreates ==
  ASSUME OInv, NEW n \in TaskId, NEW row, CreateTask(n, row), Pump([status EXCEPT ![n] = "queued"], exec)
  PROVE  status'[n] # "absent"
<1> DEFINE st == [status EXCEPT ![n] = "queued"]
<1>1. /\ st \in [TaskId -> TaskStatus] /\ exec \in [TaskId -> ExecStep] /\ st[n] = "queued"
  BY DEF OInv, IInv, Ledger, LedgerTypes, TaskStatus
<1> HIDE DEF st
<1>2. Pump(st, exec)
  BY DEF st
<1>3. QED
  BY <1>1, <1>2, PumpMoves

(* A retry writes a row for the message of the task it retries. *)
LEMMA FinishRetryCreates ==
  ASSUME OInv, NEW t \in TaskId, FinishRetry(t)
  PROVE  receipts' = receipts /\ \E n, row : Creates(n, row)
<1> DEFINE row == NewTask(task[t].group, task[t].author, task[t].repos, 0, task[t].source)
<1>1. PICK n \in TaskId : CreateTask(n, row) /\ Pump([status EXCEPT ![n] = "queued"], exec)
  BY DEF FinishRetry
<1>2. receipts' = receipts /\ t \in retrying /\ retrying' # retrying
  BY DEF FinishRetry
<1>3. Exists(t)
  BY <1>2 DEF OInv, IInv, RowsTyped, Exists
<1>4. row.group \in Groups /\ row.source \in receipts /\ row.chain = {}
  BY <1>3 DEF NewTask, OInv, Written, IInv, RowsTyped, Exists
<1> HIDE DEF row
<1>5. status'[n] # "absent"
  BY <1>1, PumpCreates
<1>6. QED
  BY <1>1, <1>2, <1>4, <1>5 DEF Creates

(* A message writes a row of its conversation, and is claimed by it. *)
LEMMA AcceptWorkCreates ==
  ASSUME OInv, AcceptWork
  PROVE  receipts \subseteq receipts' /\ \E n, row : Creates(n, row)
<1> DEFINE m == intake.message
<1>1. PICK parent \in 0..MaxTasks, n \in TaskId :
        /\ IsParent(parent, m) /\ ~Refusal(parent, m)
        /\ CreateTask(n, NewTask(m.group, m.sender, Selection(parent, m), parent, Receipt(m)))
        /\ Pump([status EXCEPT ![n] = "queued"], exec)
  BY DEF AcceptWork
<1> DEFINE row == NewTask(m.group, m.sender, Selection(parent, m), parent, Receipt(m))
<1>2. /\ UNCHANGED configVars /\ Admitted
      /\ receipts' = receipts \cup {Receipt(m)} /\ Receipt(m) \notin receipts
  BY DEF AcceptWork, intakeFrame, Unclaimed
<1>3. m.group \in Groups
  BY <1>2, AdmittedMayRead
<1>4. parent # 0 => /\ parent \in TaskId /\ Exists(parent)
                    /\ task[parent].group = m.group /\ task[parent].repos = Selection(parent, m)
  BY <1>1, <1>2, WorkIsGranted
<1>5. /\ row.group = m.group /\ row.repos = Selection(parent, m) /\ row.source = Receipt(m)
      /\ row.chain = IF parent = 0 THEN {} ELSE task[parent].chain \cup {parent}
  BY DEF NewTask
<1>6. CreateTask(n, row)
  BY <1>1
<1> HIDE DEF row, m
<1>7. ASSUME NEW a \in row.chain
      PROVE  /\ a \in TaskId /\ Exists(a)
             /\ task[a].group = row.group /\ task[a].repos = row.repos
  <2>1. parent # 0 /\ (a = parent \/ a \in task[parent].chain)
    BY <1>5, <1>7
  <2>2. QED
    BY <1>4, <1>5, <2>1, ChainExists DEF OInv, Family
<1>8. status'[n] # "absent"
  BY <1>1, <1>6, PumpCreates
<1>9. QED
  BY <1>2, <1>3, <1>5, <1>6, <1>7, <1>8 DEF Creates

(* A step creates a row or leaves the rows alone. *)
LEMMA NextCreates ==
  ASSUME OInv, Next
  PROVE  receipts \subseteq receipts' /\ (task' = task \/ \E n, row : Creates(n, row))
<1>1. CASE task' = task /\ receipts \subseteq receipts'
  BY <1>1
<1>2. CASE Lifecycle
  BY <1>1, <1>2 DEF Lifecycle, Start, Stop, Stopped, Crash, Tick, Die, storeVars
<1>3. CASE Owner
  <2>1. CASE \E t \in TaskId : FinishRetry(t)
    BY <2>1, FinishRetryCreates
  <2>2. CASE \/ \E g \in Groups : Pause(g) \/ FinishEnable(g)
             \/ \E r \in Repos : RemoveRepository(r)
             \/ \E g \in Groups, p \in Participants : \E R \in SUBSET Linked(g) : SetAccess(g, p, R)
    BY <1>1, <2>2 DEF Pause, FinishEnable, RemoveRepository, SetAccess, OwnerChange
  <2>3. CASE \/ \E g \in Groups : BeginEnable(g) \/ RefuseEnable(g)
             \/ \E r \in Repos : AddRepository(r)
             \/ \E t \in TaskId : CancelTask(t) \/ BeginRetry(t) \/ RefuseRetry(t)
    BY <1>1, <2>3 DEF BeginEnable, RefuseEnable, AddRepository, CancelTask, cancelFrame, BeginRetry, RefuseRetry, storeVars
  <2>4. QED
    BY <1>3, <2>1, <2>2, <2>3 DEF Owner
<1>4. CASE Execution
  BY <1>1, <1>4 DEF Execution, MemberAnswered, Validated, Executed, Remembered, ExecutionFails,
                    RefreshMembership, execFrame, cancelFrame
<1>5. CASE Intake
  <2>1. CASE AcceptWork
    BY <2>1, AcceptWorkCreates
  <2>2. CASE (\E m \in Messages : Deliver(m)) \/ AnswerCommand \/ AnswerHelp \/ Ignore
    BY <1>1, <2>2 DEF Deliver, AnswerCommand, AnswerHelp, Ignore, intakeFrame, storeVars
  <2>3. QED
    BY <1>5, <2>1, <2>2 DEF Intake
<1>6. CASE Delivery
  BY <1>1, <1>6 DEF Delivery, deliveryFrame, RosterAnswered, Throttled, RateLimited, Sends, Sent, DeliveryFails
<1>7. QED
  BY <1>2, <1>3, <1>4, <1>5, <1>6 DEF Next

(* What a row was it stays, and only the row that was created begins to exist. *)
LEMMA NextWrites ==
  ASSUME OInv, Next, Kept
  PROVE  /\ Written' /\ Family'
         /\ \A n \in TaskId : ~Exists(n) /\ Exists(n)' /\ retrying' = retrying
              => task'[n].source \notin receipts
<1>1. ASSUME NEW t \in TaskId, task'[t] = task[t]
      PROVE  /\ Exists(t)' => Exists(t)
             /\ IF Exists(t)' THEN task'[t].source \in receipts' ELSE task'[t] = NoTask
  <2>1. IF Exists(t) THEN task[t].source \in receipts ELSE task[t] = NoTask
    BY DEF OInv, Written
  <2>2. receipts \subseteq receipts'
    BY NextCreates
  <2>3. Exists(t) => Exists(t)'
    BY DEF Kept, Onward, Exists
  <2>4. Exists(t)' => Exists(t)
    <3>1. SUFFICES ASSUME Exists(t)', ~Exists(t) PROVE FALSE
      OBVIOUS
    <3>2. task'[t].group \in Groups
      BY <3>1 DEF Kept, Onward, Exists
    <3>3. QED
      BY <1>1, <2>1, <3>1, <3>2, RepositoryAssumption DEF NoTask
  <2>5. QED
    BY <1>1, <2>1, <2>2, <2>3, <2>4
<1>2. CASE task' = task
  <2>1. \A t \in TaskId : task'[t] = task[t]
    BY <1>2
  <2>2. Written'
    BY <1>1, <2>1 DEF Written
  <2>3. Family'
    BY <1>2 DEF OInv, Family
  <2>4. QED
    BY <1>1, <2>1, <2>2, <2>3
<1>3. ASSUME NEW n, NEW row, Creates(n, row)
      PROVE  /\ Written' /\ Family'
             /\ \A t \in TaskId : ~Exists(t) /\ Exists(t)' /\ retrying' = retrying
                  => task'[t].source \notin receipts
  <2>1. /\ n \in TaskId /\ task'[n] = row /\ status[n] = "absent"
        /\ \A t \in TaskId : t # n => task'[t] = task[t]
    BY <1>3 DEF Creates, CreateTask, IsNextId, FreeId, OInv, IInv, RowsTyped
  <2>2. Written'
    <3>1. IF Exists(n)' THEN task'[n].source \in receipts' ELSE task'[n] = NoTask
      BY <1>3, <2>1 DEF Creates, Exists
    <3>2. QED
      BY <1>1, <2>1, <3>1 DEF Written
  <2>3. ASSUME NEW t \in TaskId, NEW a \in task'[t].chain
        PROVE  task'[a].group = task'[t].group /\ task'[a].repos = task'[t].repos
    <3>1. CASE t = n
      BY <1>3, <2>1, <2>3, <3>1 DEF Creates, Exists
    <3>2. CASE t # n
      <4>1. Exists(t)
        BY <2>1, <2>3, <3>2 DEF OInv, Written, NoTask
      <4>2. a \in TaskId /\ Exists(a) /\ a # n
        BY <2>1, <2>3, <3>2, <4>1, ChainExists DEF Exists
      <4>3. QED
        BY <2>1, <2>3, <3>2, <4>2 DEF OInv, Family
    <3>3. QED
      BY <3>1, <3>2
  <2>4. QED
    BY <1>1, <1>3, <2>1, <2>2, <2>3 DEF Family, Creates
<1>4. QED
  BY <1>2, <1>3, NextCreates

(* A message waits for the roster with the grants it was delivered with.     *)
LEMMA NextIntake ==
  ASSUME OInv, Next PROVE IntakeGranted'
<1>1. CASE \E m \in Messages : Deliver(m)
  BY <1>1 DEF Deliver, IntakeGranted
<1>2. CASE intake' = intake \/ intake' = NoIntake
  BY <1>2 DEF OInv, IntakeGranted
<1>3. CASE Lifecycle
  BY <1>2, <1>3 DEF Lifecycle, Start, Stop, Stopped, Crash, Tick, Die
<1>4. CASE Owner
  BY <1>2, <1>4 DEF Owner, Pause, BeginEnable, FinishEnable, RefuseEnable, AddRepository, RemoveRepository, SetAccess,
     OwnerChange, Settle, Die, CancelTask, cancelFrame, BeginRetry, FinishRetry, RefuseRetry
<1>5. CASE Execution
  BY <1>2, <1>5 DEF Execution, MemberAnswered, Validated, Executed, Remembered, ExecutionFails,
     RefreshMembership, execFrame, cancelFrame
<1>6. CASE Intake
  BY <1>1, <1>2, <1>6 DEF Intake, AnswerCommand, AnswerHelp, AcceptWork, Ignore
<1>7. CASE Delivery
  BY <1>2, <1>7 DEF Delivery, deliveryFrame, RosterAnswered, Throttled, RateLimited, Sends, Sent, DeliveryFails
<1>8. QED
  BY <1>3, <1>4, <1>5, <1>6, <1>7 DEF Next

-----------------------------------------------------------------------------
(***************************************************************************)
(* The invariant.                                                          *)
(***************************************************************************)

(* What the loop does not refuse is fit, after the step. *)
LEMMA NotRefused ==
  ASSUME NEW i, ~Refused(outbox'[i]) PROVE Fit(outbox[i])'
BY DEF Refused, Fit, Authorized, Allowed, AllowedAfter, Granted, GrantedAfter

(* An output that waits was fit before the step and is fit after it, or is new. *)
LEMMA StaysFit ==
  ASSUME Speaks, NEW i \in DOMAIN outbox', outbox'[i].state = "pending",
         i \in DOMAIN outbox /\ outbox[i].state = "pending" => Fit(outbox[i])
  PROVE  Fit(outbox[i])'
<1>1. PICK I, O : Delivers(I, O) /\ Spares(I, O)
  BY DEF Speaks
<1>2. CASE RowKept(i, I)
  <2>1. SameColumns(outbox'[i], outbox[i]) /\ ~Refused(outbox[i])
    BY <1>1, <1>2 DEF RowKept, Spares
  <2>2. ~Refused(outbox'[i])
    BY <2>1 DEF Refused, SameColumns
  <2>3. QED
    BY <2>2, NotRefused
<1>3. CASE RowAdded(i, O)
  <2>1. PICK o \in O : SameColumns(outbox'[i], o)
    BY <1>3 DEF RowAdded
  <2>2. ~Refused(o)
    BY <1>1 DEF Spares
  <2>3. ~Refused(outbox'[i])
    BY <2>1, <2>2 DEF Refused, SameColumns
  <2>4. QED
    BY <2>3, NotRefused
<1>4. QED
  BY <1>1, <1>2, <1>3 DEF Delivers, Touches

(* The outbox half of the invariant. *)
LEMMA NextFits ==
  ASSUME OInv, IInv', Kept, Speaks \/ Torn
  PROVE  Ordered(outbox') /\ Looping(outbox)' /\ Known' /\ CurrentFit'
<1>1. ASSUME NEW I, NEW O, Delivers(I, O), \A o \in O : o.task # 0 => Exists(o.task)'
      PROVE  Ordered(outbox') /\ Looping(outbox)' /\ Known'
  <2>1. SUFFICES ASSUME NEW i \in DOMAIN outbox', outbox'[i].task # 0 PROVE Exists(outbox[i].task)'
    BY <1>1 DEF Delivers, Known
  <2>2. outbox'[i].task \in TaskId
    <3>1. outbox' \in Seq(OutputRow)
      BY DEF IInv, DeliveryTyped, OutputRow
    <3>2. QED
      BY <2>1, <3>1, RowOf, RepositoryAssumption DEF TaskId
  <2>3. CASE RowKept(i, I)
    BY <2>1, <2>2, <2>3 DEF RowKept, SameColumns, OInv, Known, Kept, Onward, Exists
  <2>4. CASE RowAdded(i, O)
    BY <1>1, <2>1, <2>4 DEF RowAdded, SameColumns, Exists
  <2>5. QED
    BY <1>1, <2>3, <2>4 DEF Delivers, Touches
<1>2. CASE Torn
  BY <1>1, <1>2 DEF Torn, CurrentFit, NoFlush
<1>3. CASE Speaks
  <2>1. PICK I, O : Delivers(I, O) /\ Spares(I, O)
    BY <1>3 DEF Speaks
  <2>2. Ordered(outbox') /\ Looping(outbox)' /\ Known'
    BY <1>1, <2>1 DEF Spares
  <2>3. SUFFICES ASSUME flush'.at # "idle", outbox'[flush'.cur].state = "pending"
                 PROVE  Fit(outbox[flush.cur])'
    BY <2>2 DEF CurrentFit, Current
  <2>4. flush'.cur \in DOMAIN outbox'
    BY <2>3 DEF IInv, DeliveryTyped
  <2>5. CASE flush.at # "idle" /\ flush'.cur = flush.cur
    <3>1. outbox[flush.cur].state = "pending" => Fit(outbox[flush.cur])
      BY <2>5 DEF OInv, CurrentFit, Current
    <3>2. QED
      BY <1>3, <2>3, <2>4, <2>5, <3>1, StaysFit
  <2>6. CASE ~Refused(outbox'[flush'.cur])
    BY <2>6 DEF Refused, Fit, Authorized, Allowed, AllowedAfter, Granted, GrantedAfter
  <2>7. QED
    BY <2>1, <2>3, <2>5, <2>6 DEF Delivers, Waits
<1>4. QED
  BY <1>2, <1>3

(* Every step keeps OInv. *)
LEMMA OutboxStepKeeps == ASSUME OInv, [Next]_vars PROVE OInv'
<1>1. IInv' /\ Kept
  BY StepKeeps DEF OInv
<1>2. CASE Next
  <2>1. Written' /\ Family'
    BY <1>1, <1>2, NextWrites
  <2>2. Ordered(outbox') /\ Looping(outbox)' /\ Known' /\ CurrentFit'
    BY <1>1, <1>2, NextSpeaks, NextFits
  <2>3. QED
    BY <1>1, <1>2, <2>1, <2>2, NextIntake DEF OInv
<1>3. CASE UNCHANGED vars
  <2>1. UNCHANGED <<configVars, task, status, outbox, receipts, intake, flush>>
    BY <1>3 DEF vars, storeVars, serviceVars, configVars
  <2>2. Ordered(outbox') /\ Looping(outbox)' /\ Written' /\ Family' /\ Known' /\ IntakeGranted'
    BY <2>1 DEF OInv, Looping, Swept, Written, Family, Known, IntakeGranted, Exists
  <2>3. CurrentFit'
    BY <2>1 DEF OInv, CurrentFit, Current, Fit, Authorized, Allowed, AllowedIn, Granted, GrantedIn, configVars
  <2>4. QED
    BY <1>1, <2>2, <2>3 DEF OInv
<1>4. QED
  BY <1>2, <1>3

(* The program begins with OInv: no output, no message, no row. *)
LEMMA InitOInv == Init => OInv
<1>1. SUFFICES ASSUME Init PROVE OInv
  OBVIOUS
<1>2. /\ outbox = <<>> /\ flush.at = "idle" /\ intake = NoIntake
      /\ \A t \in TaskId : ~Exists(t) /\ task[t] = NoTask
  BY <1>1 DEF Init, NoFlush, Exists
<1>3. DOMAIN outbox = {}
  BY <1>2
<1>4. Ordered(outbox) /\ Looping(outbox) /\ Known /\ IntakeGranted /\ CurrentFit
  BY <1>2, <1>3 DEF Ordered, Looping, Known, IntakeGranted, CurrentFit
<1>5. Written
  BY <1>2 DEF Written
<1>6. Family
  <2>1. \A t \in TaskId : task[t].chain = {}
    BY <1>2 DEF NoTask
  <2>2. QED
    BY <2>1 DEF Family
<1>7. QED
  BY <1>1, <1>4, <1>5, <1>6, InitIInv DEF OInv

(* OInv holds in every state.                                                *)
THEOREM OutboxInvariance == Spec => []OInv
BY InitOInv, OutboxStepKeeps, PTL DEF Spec

-----------------------------------------------------------------------------
(***************************************************************************)
(* The theorems.                                                           *)
(***************************************************************************)

(* Outputs of a group leave in the order they were written, whatever fails,  *)
(* is suppressed or is written while a flush is under way.                   *)
THEOREM DeliveriesInOrder == Spec => []OrderedDelivery
<1>1. OInv => OrderedDelivery
  BY DEF OInv, Ordered, OrderedDelivery
<1>2. QED
  BY <1>1, OutboxInvariance, PTL

(* Nothing goes to the socket for a reader who lost every grant or about a   *)
(* task that was cancelled, even after a crash in the middle of an owner     *)
(* change.                                                                   *)
THEOREM SocketIsAuthorized == Spec => WireIsAuthorized
<1> DEFINE A == flush.at # "wire" /\ flush'.at = "wire"
                => /\ Granted(Current.group, Current.to) # {}
                   /\ Current.task # 0 => status[Current.task] \notin {"cancelled", "cancelling"}
<1>1. ASSUME OInv, [Next]_vars, flush.at # "wire", flush'.at = "wire" PROVE Sends
  <2>1. flush' # flush /\ flush' # NoFlush
    BY <1>1 DEF NoFlush
  <2>2. ASSUME NEW rest, NEW failed, NEW out, Scan(rest, failed, out) PROVE FALSE
    BY <1>1, <2>2 DEF Scan, NoFlush
  <2>3. ASSUME NEW out, StartFlush(out) PROVE FALSE
    BY <2>1, <2>2, <2>3 DEF StartFlush
  <2>4. flush \in FlushState
    BY <1>1 DEF OInv, IInv, DeliveryTyped
  <2>5. CASE Delivery
    BY <1>1, <2>2, <2>4, <2>5 DEF Delivery, RosterAnswered, Throttled, RateLimited, Sent, DeliveryFails, FlushState
  <2>6. CASE Lifecycle
    BY <2>1, <2>3, <2>6 DEF Lifecycle, Start, Stop, Stopped, Crash, Tick, Die
  <2>7. CASE Owner
    BY <2>1, <2>7 DEF Owner, Pause, BeginEnable, FinishEnable, RefuseEnable, AddRepository, RemoveRepository, SetAccess,
       OwnerChange, Settle, Die, CancelTask, cancelFrame, BeginRetry, FinishRetry, RefuseRetry
  <2>8. CASE Execution
    BY <2>1, <2>3, <2>8 DEF Execution, MemberAnswered, Validated, Executed, Remembered, ExecutionFails,
       RefreshMembership, cancelFrame, Return, Expelled, Fails, Tell
  <2>9. CASE Intake
    BY <2>1, <2>3, <2>9 DEF Intake, Deliver, AnswerCommand, AnswerHelp, AcceptWork, Ignore
  <2>10. QED
    BY <1>1, <2>1, <2>5, <2>6, <2>7, <2>8, <2>9 DEF Next, vars, serviceVars
<1>2. OInv /\ [Next]_vars => [A]_vars
  <2>1. ASSUME OInv, Sends PROVE /\ Granted(Current.group, Current.to) # {}
                                 /\ Current.task # 0 => status[Current.task] \notin {"cancelled", "cancelling"}
    BY <2>1 DEF Sends, CanSend, OInv, CurrentFit, Fit
  <2>2. QED
    BY <1>1, <2>1
<1>3. QED
  BY <1>2, OutboxInvariance, PTL DEF Spec, WireIsAuthorized

(* A message makes one task at most; another takes the owner's retry.        *)
THEOREM MessagesWorkOnce == Spec => MessageWorksOnce
<1> DEFINE A == \A n \in TaskId : ~Exists(n) /\ Exists(n)' /\ retrying' = retrying
                  => \A t \in TaskId : Exists(t) => task[t].source # task'[n].source
<1>1. ASSUME OInv, Next PROVE A
  <2>1. Kept
    BY <1>1, StepKeeps DEF OInv
  <2>2. QED
    BY <1>1, <2>1, NextWrites DEF OInv, Written
<1>2. OInv /\ [Next]_vars => [A]_vars
  BY <1>1
<1>3. QED
  BY <1>2, OutboxInvariance, PTL DEF Spec, MessageWorksOnce

(* Every output that waits is fit to be shown. *)
AllFit == \A i \in DOMAIN outbox : outbox[i].state = "pending" => Fit(outbox[i])

(* Whatever the owner revokes, cancels or pauses, what still waits may be    *)
(* shown, as long as the program does not die between two writes of an owner *)
(* change.  (When it does, start() silences what it refuses only as far as   *)
(* the first output it hands over, and the rest as the delivery goes on.)    *)
THEOREM WaitingIsAuthorized ==
  ASSUME Limit["torn"] = 0
  PROVE  Spec => []PendingIsAuthorized
<1>1. Init => AllFit
  <2>1. SUFFICES ASSUME Init PROVE AllFit
    OBVIOUS
  <2>2. DOMAIN outbox = {}
    BY <2>1 DEF Init
  <2>3. QED
    BY <2>2 DEF AllFit
<1>2. OInv /\ AllFit /\ [Next]_vars => AllFit'
  <2>1. ASSUME OInv, AllFit, Next PROVE AllFit'
    <3>1. Speaks
      <4>1. ~Torn
        BY <2>1 DEF Torn, Spend, OInv, IInv, CallsTyped, Budget
      <4>2. QED
        BY <2>1, <4>1, NextSpeaks
    <3>2. SUFFICES ASSUME NEW i \in DOMAIN outbox', outbox'[i].state = "pending" PROVE Fit(outbox[i])'
      BY DEF AllFit
    <3>3. i \in DOMAIN outbox /\ outbox[i].state = "pending" => Fit(outbox[i])
      BY <2>1 DEF AllFit
    <3>4. QED
      BY <3>1, <3>2, <3>3, StaysFit
  <2>2. ASSUME AllFit, UNCHANGED vars PROVE AllFit'
    BY <2>2 DEF AllFit, vars, storeVars, Fit, Authorized, Allowed, AllowedIn, Granted, GrantedIn
  <2>3. QED
    BY <2>1, <2>2
<1>3. AllFit => PendingIsAuthorized
  BY DEF AllFit, Fit, PendingIsAuthorized
<1>4. QED
  BY <1>1, <1>2, <1>3, OutboxInvariance, PTL DEF Spec

=============================================================================
