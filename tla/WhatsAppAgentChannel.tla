------------------------ MODULE WhatsAppAgentChannel ------------------------
(***************************************************************************)
(* src/main/personal-agents/whatsapp-channel and                           *)
(* whatsapp-channel-service.ts: one personal agent answers in the chats of *)
(* one WhatsApp account.  A message becomes a request, requests of a chat  *)
(* run one after the other, and one outbox per account sends the replies.  *)
(*                                                                         *)
(* As everywhere in the main process, the code between two awaits is one   *)
(* step.  The coordinator chains the operations of a chat (enqueue): they  *)
(* are the jobs of "work", and the head of a chain is the one that has     *)
(* begun, or is waiting at an await.  Pausing, saving, removing and the    *)
(* outbox do not go through the chain.                                     *)
(***************************************************************************)
EXTENDS Integers, FiniteSets, Sequences, SequencesExt

CONSTANTS
  Chats,          \* chats of the account
  Identities,     \* chat |-> chats that are the same conversation (phone and linked identity)
  Owner,          \* the linked account
  People,         \* everybody else
  Aliased,        \* people the access lists know by another identity
  Messages,       \* messages that invoke the agent: see WellFormed
  MaxRequests,    \* bound: rows of whatsapp_agent_requests
  Lookups,        \* how identity lookups may end: TRUE, they answer; FALSE, they fail
  Confirms,       \* how cancelling a run may end: TRUE, its process exits in time
  NoMessage,      \* no message
  InitialAccess,  \* chat |-> people it accepts, for the chats bound from the beginning
  Limit           \* bounds: how often each kind of event happens

Requests == 1..MaxRequests

Budget == {"edits",       \* saving or removing a chat, renaming the agent
           "switches",    \* ON and OFF of the owner in the settings
           "recoveries",  \* cancel, retry and dismiss of the owner
           "messages",    \* notifications of a message (a message may come twice)
           "faults",      \* the store of runs cannot be read after an admission
           "torn",        \* the process dies between two writes of one operation
           "outages"}     \* the process stops or dies

WellFormed(m) ==
  /\ m.chat \in Chats /\ m.author \in People \cup {Owner}
  /\ m.kind \in {"task", "correct", "on", "off"}
  /\ m.target \in 0..MaxRequests

ASSUME ChannelAssumption ==
  /\ Chats # {}
  /\ Identities \in [Chats -> SUBSET Chats]
  /\ \A k \in Chats : k \in Identities[k] /\ \A c \in Identities[k] : k \in Identities[c]
  /\ Owner \notin People /\ Aliased \subseteq People
  /\ MaxRequests \in Nat
  /\ NoMessage \notin Messages
  /\ \A m \in Messages : WellFormed(m)
  /\ Lookups \in (SUBSET BOOLEAN) \ {{}}
  /\ Confirms \in (SUBSET BOOLEAN) \ {{}}
  /\ DOMAIN InitialAccess \subseteq Chats
  /\ \A k \in DOMAIN InitialAccess : InitialAccess[k] \subseteq People
  /\ Limit \in [Budget -> Nat]

VARIABLES
  binding,    \* chat |-> row of whatsapp_agent_bindings
  request,    \* request |-> row of whatsapp_agent_requests, in rowid order
  turn,       \* request |-> status of its turn: "none", "active" or "closed"
  handled,    \* <<chat, message>> marked handled in whatsapp_agent_seen_messages
  run,        \* request |-> the run in the store of the agents
  phase,      \* "down" or "up"
  work,       \* chat |-> jobs chained by enqueue()
  cancels,    \* requests whose run cancelRun() has been called for
  enabling,   \* chats the owner is switching on, waiting for an identity lookup
  saving,     \* requests whose cancellation putBinding() waits for
  sending,    \* the reply flushAccount() is sending
  due,        \* a flush is asked for, or its timer is set
  used,       \* budget |-> events of that kind so far
  crossed,    \* history: request |-> times its reply was handed to the socket
  obsolete    \* history: requests begun under a configuration that was replaced since

durable == <<binding, request, turn, handled, run>>
volatile == <<phase, work, cancels, enabling, saving, sending, due>>
vars == <<durable, volatile, used, crossed, obsolete>>

Ended == {"completed", "failed", "canceled", "interrupted", "dismissed"}
Status == {"absent", "queued", "active"} \cup Ended

(* "withdrawn" stands for failed with the reason channel_reconfigured. *)
DeliveryState == {"none", "pending", "sent", "failed", "unknown", "withdrawn"}

(* conversation: the conversation of the agent the chat writes to.  A chat    *)
(* that is removed and added again gets another one.                         *)
Row(bound, enabled, access, version, revision, conversation) ==
  [bound |-> bound, enabled |-> enabled, access |-> access, version |-> version,
   revision |-> revision, active |-> 0, conversation |-> conversation]

Unbound(k) == Row(FALSE, FALSE, {}, 0, 0, binding[k].conversation)

NoRequest == [chat |-> CHOOSE k \in Chats : TRUE, author |-> Owner, message |-> NoMessage,
              status |-> "absent", delivery |-> "none", revision |-> 0]

NoRun == [state |-> "none", conversation |-> 0]
NoSend == [r |-> 0, version |-> 0, wire |-> FALSE]

Job(at, r, m) == [at |-> at, r |-> r, m |-> m]
PumpJob == Job("pump", 0, NoMessage)

Spend(kind) ==
  /\ used[kind] < Limit[kind]
  /\ used' = [used EXCEPT ![kind] = @ + 1]

Init ==
  /\ binding = [k \in Chats |-> IF k \in DOMAIN InitialAccess
                                THEN Row(TRUE, TRUE, InitialAccess[k], 1, 1, 1)
                                ELSE Row(FALSE, FALSE, {}, 0, 0, 0)]
  /\ request = [r \in Requests |-> NoRequest]
  /\ turn = [r \in Requests |-> "none"]
  /\ handled = {}
  /\ run = [r \in Requests |-> NoRun]
  /\ phase = "down"
  /\ work = [k \in Chats |-> <<>>]
  /\ cancels = {} /\ enabling = {} /\ saving = {}
  /\ sending = NoSend
  /\ due = FALSE
  /\ used = [b \in Budget |-> 0]
  /\ crossed = [r \in Requests |-> 0]
  /\ obsolete = {}

-----------------------------------------------------------------------------
(***************************************************************************)
(* Reads and writes.                                                       *)
(***************************************************************************)

Of(k) == {r \in Requests : request[r].status # "absent" /\ request[r].chat = k}

(* resolveIdentityIds: what a lookup that answers, or fails, makes of a chat. *)
Same(k, known) == IF known THEN Identities[k] ELSE {k}

(* mutant of Clash: the other identities of the chat are not looked at *)
ClashByName(k, known) == FALSE

(* An equivalent chat is already on. *)
Clash(k, known) == \E c \in Same(k, known) \ {k} : binding[c].enabled

(* participantCanInvoke *)
CanInvoke(k, p, known) == p = Owner \/ (p \in binding[k].access /\ (known \/ p \notin Aliased))

SetStatus(R, s) == [r \in Requests |-> IF r \in R THEN [request[r] EXCEPT !.status = s] ELSE request[r]]

(* mutant of Settle: the chat stays busy *)
SettleRowOnly(r, row) == request' = [request EXCEPT ![r] = row] /\ binding' = binding

(* settleRequest: the request ends and its chat is free again, unless the    *)
(* chat has moved on.                                                        *)
Settle(r, row) ==
  LET k == request[r].chat
  IN /\ request' = [request EXCEPT ![r] = row]
     /\ binding' = [binding EXCEPT ![k].active =
                      IF @ = r /\ binding[k].revision = request[r].revision THEN 0 ELSE @]

Close(R) == turn' = [r \in Requests |-> IF r \in R /\ turn[r] # "none" THEN "closed" ELSE turn[r]]

(* cancelRun() on a run the store does not know does nothing. *)
Cancelable(R) == {r \in R : run[r].state # "none"}

Enqueue(k, job) == work' = [work EXCEPT ![k] = Append(@, job)]
Proceed(k, job) == work' = [work EXCEPT ![k] = <<job>> \o Tail(@)]
Finish(k) == work' = [work EXCEPT ![k] = Tail(@)]

Head1(k, at) == work[k] # <<>> /\ Head(work[k]).at = at

(* pump(), after, up to its first await: the first queued request of a chat  *)
(* that is on and has nothing active.                                        *)
Pump(k) ==
  LET queued == {r \in Requests : request'[r].status = "queued" /\ request'[r].chat = k}
  IN IF binding'[k].enabled /\ binding'[k].active = 0 /\ queued # {}
     THEN Proceed(k, Job("identity", CHOOSE r \in queued : \A q \in queued : r <= q, NoMessage))
     ELSE Finish(k)

-----------------------------------------------------------------------------
(***************************************************************************)
(* handleInbound().                                                        *)
(***************************************************************************)

(* Bound: every job that may make a request finds a free row. *)
Room ==
  Cardinality({r \in Requests : request[r].status = "absent"})
    > Cardinality({place \in Chats \X (1..Limit["messages"]) :
                     LET jobs == work[place[1]]
                     IN place[2] \in DOMAIN jobs /\ jobs[place[2]].m # NoMessage})

(* A live message is chained behind the chat it belongs to: the one of its   *)
(* identities that is on, else its own.                                      *)
Receive(m) ==
  LET bound == {k \in Identities[m.chat] : binding[k].bound}
      on == {k \in bound : binding[k].enabled}
  IN /\ phase = "up" /\ Room
     /\ Spend("messages")
     /\ Cardinality(on) <= 1
     /\ \E k \in bound :
          /\ IF on # {} THEN k \in on ELSE m.chat \in bound => k = m.chat
          /\ Enqueue(k, Job("inbound", 0, m))
     /\ UNCHANGED <<durable, phase, cancels, enabling, saving, sending, due, crossed, obsolete>>

(* mutant of Fresh: every notification is new *)
AlwaysFresh(k, m) == binding[k].bound

(* findEquivalentMessage and claimMessage: no copy of the message has been   *)
(* handled.  A claim that was not handled before a crash is claimed again.   *)
Fresh(k, m) == binding[k].bound /\ \A c \in Identities[m.chat] : <<c, m>> \notin handled

InboundMessage(k) == Head(work[k]).m

jobFrame == <<run, phase, enabling, saving, sending, used, crossed, obsolete>>

(* The request a correction is about: the named one, or the author's latest. *)
Corrected(k, m) ==
  IF m.target # 0 THEN Of(k) \cap {m.target}
  ELSE LET own == {r \in Of(k) : request[r].author = m.author /\ request[r].status \in {"queued", "active"}}
       IN {r \in own : \A q \in own : q <= r}

MayCorrect(r, m) == m.author = Owner \/ request[r].author = m.author

(* What the message asks for can be done: the request it corrects, if any,   *)
(* is active.  A queued one only gets another text.                          *)
Admitted(k, m, known) ==
  /\ binding[k].enabled /\ CanInvoke(k, m.author, known)
  /\ m.kind = "correct" => \E r \in Corrected(k, m) : MayCorrect(r, m) /\ request[r].status = "active"

(* A copy of a handled message, or a chat that was removed, leaves no trace; *)
(* a refusal, or another text for a queued request, marks the message.       *)
Refuse(k) ==
  LET m == InboundMessage(k)
  IN /\ Head1(k, "inbound")
     /\ \/ ~Fresh(k, m) /\ handled' = handled
        \/ /\ Fresh(k, m)
           /\ IF m.kind \in {"on", "off"} THEN m.author # Owner
              ELSE \E known \in Lookups : ~Admitted(k, m, known)
           /\ handled' = handled \cup {<<k, m>>}
     /\ Finish(k)
     /\ UNCHANGED <<binding, request, turn, cancels, due, jobFrame>>

(* queueRequest: the request and the mark of its message are one transaction. *)
QueueRequest(k, m, rows) ==
  /\ \E n \in Requests :
       /\ request[n].status = "absent" /\ \A r \in Requests : request[r].status = "absent" => n <= r
       /\ request' = [rows EXCEPT ![n] = [NoRequest EXCEPT !.chat = k, !.author = m.author, !.message = m,
                                                           !.status = "queued", !.revision = binding[k].revision]]
  /\ handled' = handled \cup {<<k, m>>}

AcceptTask(k) ==
  LET m == InboundMessage(k)
  IN /\ Head1(k, "inbound") /\ Fresh(k, m) /\ m.kind = "task"
     /\ \E known \in Lookups : Admitted(k, m, known)
     /\ QueueRequest(k, m, request)
     /\ UNCHANGED <<binding, turn, cancels, due, jobFrame>>
     /\ Pump(k)

(* cancelUnlocked() for an active request: it is retired first, and its run  *)
(* is cancelled behind the lock of its conversation.                         *)
RetireActive(r) ==
  /\ Settle(r, [request[r] EXCEPT !.status = "canceled"])
  /\ Close({r})
  /\ cancels' = cancels \cup Cancelable({r})

AcceptCorrection(k) ==
  LET m == InboundMessage(k)
  IN /\ Head1(k, "inbound") /\ Fresh(k, m) /\ m.kind = "correct"
     /\ \E known \in Lookups : Admitted(k, m, known)
     /\ \E r \in Corrected(k, m) :
          /\ RetireActive(r)
          /\ Proceed(k, Job("correcting", r, m))
     /\ UNCHANGED <<handled, due, jobFrame>>

(* The run has been cancelled: the corrected request is queued, without      *)
(* another look at the chat.                                                 *)
QueueCorrection(k) ==
  /\ Head1(k, "correcting") /\ Head(work[k]).r \notin cancels
  /\ QueueRequest(k, InboundMessage(k), request)
  /\ UNCHANGED <<binding, turn, cancels, due, jobFrame>>
  /\ Pump(k)

-----------------------------------------------------------------------------
(***************************************************************************)
(* ON and OFF, by message or in the settings: changeEnabled().             *)
(***************************************************************************)

(* store.setEnabled *)
Switch(k, on) ==
  LET row == binding[k]
  IN IF row.enabled = on THEN binding
     ELSE [binding EXCEPT ![k] =
             [row EXCEPT !.enabled = on, !.version = row.version + 1, !.revision = row.revision + 1, !.active = 0]]

(* OFF writes the pause, then retires what was active; nobody waits for the  *)
(* cancellation.                                                             *)
Off(k) ==
  LET active == {binding[k].active} \ {0}
  IN /\ binding' = Switch(k, FALSE)
     /\ request' = SetStatus(active, "canceled")
     /\ Close(active)
     /\ cancels' = cancels \cup Cancelable(active)

MessageOff(k) ==
  LET m == InboundMessage(k)
  IN /\ Head1(k, "inbound") /\ Fresh(k, m) /\ m.kind = "off" /\ m.author = Owner
     /\ Off(k)
     /\ handled' = handled \cup {<<k, m>>}
     /\ Finish(k)
     /\ UNCHANGED <<due, jobFrame>>

BeginMessageOn(k) ==
  LET m == InboundMessage(k)
  IN /\ Head1(k, "inbound") /\ Fresh(k, m) /\ m.kind = "on" /\ m.author = Owner
     /\ Proceed(k, Job("enabling", 0, m))
     /\ UNCHANGED <<durable, cancels, due, jobFrame>>

(* ON by message does not pump and does not flush. *)
FinishMessageOn(k) ==
  /\ Head1(k, "enabling")
  /\ \E known \in Lookups :
       IF Clash(k, known)
       THEN binding' = binding /\ handled' = handled \cup {<<k, InboundMessage(k)>>}
       ELSE /\ binding' = Switch(k, binding[k].bound)
            /\ handled' = IF binding[k].bound THEN handled \cup {<<k, InboundMessage(k)>>} ELSE handled
  /\ Finish(k)
  /\ UNCHANGED <<request, turn, cancels, due, jobFrame>>

callFrame == <<handled, run, phase, sending, crossed>>

TurnOff(k) ==
  /\ phase = "up" /\ binding[k].enabled
  /\ Spend("switches")
  /\ Off(k)
  /\ UNCHANGED <<work, enabling, saving, due, obsolete, callFrame>>

(* The process dies after the pause was written. *)
TornOff(k) ==
  /\ phase = "up" /\ binding[k].active # 0
  /\ binding' = Switch(k, FALSE)
  /\ UNCHANGED <<request, turn, handled>>

BeginOn(k) ==
  /\ phase = "up" /\ binding[k].bound /\ k \notin enabling
  /\ Spend("switches")
  /\ enabling' = enabling \cup {k}
  /\ UNCHANGED <<binding, request, turn, work, cancels, saving, due, obsolete, callFrame>>

(* The settings pump the chat and flush the account; here the flush may come *)
(* before the pump, which reads nothing it writes.                           *)
FinishOn(k) ==
  /\ k \in enabling
  /\ enabling' = enabling \ {k}
  /\ \/ /\ binding[k].bound
        /\ \E known \in Lookups : ~Clash(k, known)
        /\ binding' = Switch(k, TRUE)
        /\ Enqueue(k, PumpJob)
        /\ due' = TRUE
     \/ UNCHANGED <<binding, work, due>>
  /\ UNCHANGED <<request, turn, cancels, saving, used, obsolete, callFrame>>

-----------------------------------------------------------------------------
(***************************************************************************)
(* pump(), from its first await on.                                        *)
(***************************************************************************)

StartPump(k) ==
  /\ Head1(k, "pump")
  /\ UNCHANGED <<durable, cancels, due, jobFrame>>
  /\ Pump(k)

Held(k) == Head(work[k]).r

(* The author has been looked up.  The chat is read again, the request is    *)
(* not: it is refused, or becomes the active one with a turn of its own.     *)
Dispatch(k) ==
  LET r == Held(k)
  IN /\ Head1(k, "identity")
     /\ UNCHANGED <<handled, run, phase, cancels, enabling, saving, sending, due, used, crossed>>
     /\ IF ~binding[k].enabled \/ binding[k].active # 0
        THEN UNCHANGED <<binding, request, turn, obsolete>> /\ Finish(k)
        ELSE \E known \in Lookups :
               IF CanInvoke(k, request[r].author, known)
               THEN /\ binding' = [binding EXCEPT ![k].active = r, ![k].revision = @ + 1]
                    /\ request' = [request EXCEPT ![r].status = "active", ![r].revision = binding[k].revision + 1]
                    /\ turn' = [turn EXCEPT ![r] = "active"]
                    /\ obsolete' = obsolete \ {r}
                    /\ Proceed(k, Job("context", r, NoMessage))
               ELSE /\ request' = SetStatus({r}, "canceled")
                    /\ UNCHANGED <<binding, turn, obsolete>>
                    /\ Pump(k)

Reserved(k, r) == binding[k].enabled /\ binding[k].active = r

ContextRead(k) ==
  /\ Head1(k, "context")
  /\ UNCHANGED <<durable, cancels, due, jobFrame>>
  /\ IF Reserved(k, Held(k)) THEN Proceed(k, Job("admission", Held(k), NoMessage)) ELSE Finish(k)

(* mutant of Current: the authority of the request is not read again *)
AlwaysCurrent(k, r) == binding[k].bound

(* isChannelCurrent *)
Current(k, r) ==
  /\ Reserved(k, r)
  /\ turn[r] = "active"
  /\ binding[k].revision = request[r].revision

(* startRun() has the lock of the conversation: every cancellation called    *)
(* before is over.                                                           *)
HasLock(k) == \A c \in cancels : request[c].chat = k => run[c].conversation # binding[k].conversation

Busy(k) ==
  \E c \in Requests : /\ run[c].state = "live" /\ request[c].chat = k
                      /\ run[c].conversation = binding[k].conversation

Admissible(k, r) == HasLock(k) /\ Current(k, r) /\ ~Busy(k)

admissionFrame == <<handled, phase, cancels, enabling, saving, sending, due, crossed, obsolete>>

Launch(k, r) == run' = [run EXCEPT ![r] = [state |-> "live", conversation |-> binding[k].conversation]]

AdmitRun(k) ==
  /\ Head1(k, "admission") /\ Admissible(k, Held(k))
  /\ Launch(k, Held(k))
  /\ Finish(k)
  /\ UNCHANGED <<binding, request, turn, used, admissionFrame>>

(* The request ends without a run, and the next one has its turn, unless it  *)
(* was retired during the wait.                                              *)
GiveUp(k, s) ==
  LET r == Held(k)
  IN IF binding[k].active = r
     THEN Settle(r, [request[r] EXCEPT !.status = s]) /\ Close({r}) /\ Pump(k)
     ELSE UNCHANGED <<binding, request, turn>> /\ Finish(k)

(* The conversation is busy, the channel is not current, the runtime is gone. *)
RejectRun(k) ==
  /\ Head1(k, "admission") /\ HasLock(k)
  /\ UNCHANGED <<run, used, admissionFrame>>
  /\ GiveUp(k, "failed")

(* The store cannot tell whether the run was admitted.  It may have been.    *)
LoseAdmission(k) ==
  /\ Head1(k, "admission") /\ HasLock(k)
  /\ Spend("faults")
  /\ \/ Admissible(k, Held(k)) /\ Launch(k, Held(k))
     \/ run' = run
  /\ UNCHANGED admissionFrame
  /\ GiveUp(k, "interrupted")

-----------------------------------------------------------------------------
(***************************************************************************)
(* The end of a run: events of the conversation manager.                   *)
(***************************************************************************)

(* The three ends of a run and the jobs their events chain. *)
EndJob == [end \in {"completed", "failed", "canceled"} |-> IF end = "completed" THEN "deliver" ELSE end]

RunEnds(r) ==
  /\ phase = "up" /\ run[r].state = "live"
  /\ \E end \in DOMAIN EndJob :
       /\ run' = [run EXCEPT ![r].state = end]
       /\ Enqueue(request[r].chat, Job(EndJob[end], r, NoMessage))
  /\ UNCHANGED <<binding, request, turn, handled, phase, cancels, enabling, saving, sending, due,
                 used, crossed, obsolete>>

(* cancelRun() has the lock: the run stops, and its event is chained before  *)
(* putBinding() goes on.  When the process does not exit in time,            *)
(* putBinding() fails there.                                                 *)
CancelRun(r) ==
  LET k == request[r].chat
      event == IF run[r].state = "live" THEN <<Job("canceled", r, NoMessage)>> ELSE <<>>
  IN /\ r \in cancels
     /\ cancels' = cancels \ {r}
     /\ saving' = saving \ {r}
     /\ run' = [run EXCEPT ![r].state = IF @ = "live" THEN "canceled" ELSE @]
     /\ \E confirmed \in Confirms :
          work' = [work EXCEPT ![k] = @ \o event \o (IF r \in saving /\ confirmed THEN <<PumpJob>> ELSE <<>>)]
     /\ UNCHANGED <<binding, request, turn, handled, phase, enabling, sending, due, used, crossed, obsolete>>

(* mutant of Deliver: the revision and the active turn are not compared *)
DeliverLate(k) ==
  LET r == Held(k)
  IN /\ Head1(k, "deliver")
     /\ UNCHANGED <<handled, cancels, jobFrame>>
     /\ IF request[r].delivery = "none" /\ binding[k].enabled
        THEN /\ Settle(r, [request[r] EXCEPT !.status = "completed", !.delivery = "pending"])
             /\ due' = TRUE
             /\ turn' = turn
             /\ Pump(k)
        ELSE UNCHANGED <<binding, request, turn, due>> /\ Finish(k)

(* deliverCandidate() *)
Deliver(k) ==
  LET r == Held(k)
  IN /\ Head1(k, "deliver")
     /\ UNCHANGED <<handled, cancels, jobFrame>>
     /\ IF /\ request[r].delivery = "none"
           /\ Reserved(k, r) /\ binding[k].revision = request[r].revision
        THEN /\ Settle(r, [request[r] EXCEPT !.status = "completed", !.delivery = "pending"])
             /\ due' = TRUE
             /\ turn' = turn
             /\ Pump(k)
        ELSE UNCHANGED <<binding, request, turn, due>> /\ Finish(k)

(* mutant of SettleWithoutReply: the next request is not started *)
SettleAndRest(k) ==
  LET r == Held(k)
  IN \E s \in {"failed", "canceled"} :
       /\ Head1(k, s)
       /\ UNCHANGED <<handled, cancels, due, jobFrame>>
       /\ IF binding[k].active = r
          THEN Settle(r, [request[r] EXCEPT !.status = s]) /\ Close({r})
          ELSE UNCHANGED <<binding, request, turn>>
       /\ Finish(k)

(* settleWithoutReply() *)
SettleWithoutReply(k) ==
  LET r == Held(k)
  IN \E s \in {"failed", "canceled"} :
       /\ Head1(k, s)
       /\ UNCHANGED <<handled, cancels, due, jobFrame>>
       /\ IF binding[k].active = r
          THEN Settle(r, [request[r] EXCEPT !.status = s]) /\ Close({r}) /\ Pump(k)
          ELSE UNCHANGED <<binding, request, turn>> /\ Finish(k)

-----------------------------------------------------------------------------
(***************************************************************************)
(* cancelRequest(), retryDelivery(), dismissRequest() of the owner.        *)
(***************************************************************************)

AskCancel(r) ==
  /\ phase = "up" /\ request[r].status # "absent"
  /\ Spend("recoveries")
  /\ Enqueue(request[r].chat, Job("retire", r, NoMessage))
  /\ UNCHANGED <<binding, request, turn, cancels, enabling, saving, due, obsolete, callFrame>>

Retire(k) ==
  LET r == Held(k)
  IN /\ Head1(k, "retire")
     /\ UNCHANGED <<handled, due, jobFrame>>
     /\ \/ /\ binding[k].bound /\ request[r].status = "active"
           /\ RetireActive(r)
           /\ Proceed(k, Job("retiring", r, NoMessage))
        \/ /\ binding[k].bound /\ request[r].status = "queued"
           /\ request' = SetStatus({r}, "canceled")
           /\ UNCHANGED <<binding, turn, cancels>>
           /\ Pump(k)
        \/ /\ ~binding[k].bound \/ request[r].status \notin {"queued", "active"}
           /\ UNCHANGED <<binding, request, turn, cancels>>
           /\ Finish(k)

Retired(k) ==
  /\ Head1(k, "retiring") /\ Held(k) \notin cancels
  /\ UNCHANGED <<durable, cancels, due, jobFrame>>
  /\ Pump(k)

(* The owner sends a reply again that surely was not sent. *)
RetryDelivery(r) ==
  /\ phase = "up" /\ request[r].delivery = "failed"
  /\ Spend("recoveries")
  /\ request' = [request EXCEPT ![r].delivery = "pending"]
  /\ due' = TRUE
  /\ obsolete' = obsolete \ {r}
  /\ UNCHANGED <<binding, turn, work, cancels, enabling, saving, callFrame>>

Dismiss(r) ==
  /\ phase = "up"
  /\ request[r].status = "interrupted" \/ request[r].delivery = "unknown"
  /\ Spend("recoveries")
  /\ request' = [request EXCEPT ![r].status = "dismissed"]
  /\ UNCHANGED <<binding, turn, work, cancels, enabling, saving, due, obsolete, callFrame>>

-----------------------------------------------------------------------------
(***************************************************************************)
(* putBinding(), deleteBinding(), updateAlias() of the owner.              *)
(***************************************************************************)

Withdraw(row) == [row EXCEPT !.delivery = IF @ = "pending" THEN "withdrawn" ELSE @]

(* mutant of Affected: the run of the replaced turn goes on *)
NobodyAffected(k) == {}

(* The turn whose run a save has to cancel, read before the write. *)
Affected(k) == {binding[k].active} \ {0}

(* Saving a chat, new or old.  What it waits for before it reads the chat    *)
(* leaves no trace; from there to the write nothing waits (for a chat that   *)
(* is new, as long as nobody else adds it meanwhile).                        *)
Put(k, on, access) ==
  LET begun == {r \in Of(k) : request[r].status # "queued"}
      old == binding[k]
      withdrawn == [r \in Requests |-> IF r \in Of(k) THEN Withdraw(request[r]) ELSE request[r]]
  IN /\ phase = "up"
     /\ on => \E known \in Lookups : ~Clash(k, known)
     /\ Spend("edits")
     /\ binding' = [binding EXCEPT ![k] = IF old.bound
                      THEN Row(TRUE, on, access, old.version + 1, old.revision + 1, old.conversation)
                      ELSE Row(TRUE, on, access, 1, 1, old.conversation + 1)]
     /\ request' = [r \in Requests |-> IF r \in Of(k) /\ request[r].status = "active"
                                       THEN [withdrawn[r] EXCEPT !.status = "canceled"] ELSE withdrawn[r]]
     /\ Close(Affected(k))
     /\ cancels' = cancels \cup Cancelable(Affected(k))
     /\ saving' = saving \cup Cancelable(Affected(k))
     /\ IF Cancelable(Affected(k)) = {} THEN Enqueue(k, PumpJob) ELSE work' = work
     /\ obsolete' = obsolete \cup begun
     /\ UNCHANGED <<enabling, due, callFrame>>

(* The rows deleteBinding() has retired when it got as far as request n. *)
Deleted(k, n) ==
  [r \in Requests |->
     IF r \notin Of(k) \/ r > n THEN request[r]
     ELSE IF request[r].status \in {"queued", "active"}
     THEN [Withdraw(request[r]) EXCEPT !.status = "canceled"] ELSE Withdraw(request[r])]

DeletedTurns(k, n) == Close({r \in Of(k) : r <= n /\ request[r].status \in {"queued", "active"}})

Delete(k) ==
  LET active == {binding[k].active} \ {0}
  IN /\ phase = "up" /\ binding[k].bound
     /\ Spend("edits")
     /\ binding' = [binding EXCEPT ![k] = Unbound(k)]
     /\ request' = Deleted(k, MaxRequests)
     /\ DeletedTurns(k, MaxRequests)
     /\ cancels' = cancels \cup Cancelable(active)
     /\ obsolete' = obsolete \cup {r \in Of(k) : request[r].status # "queued"}
     /\ UNCHANGED <<work, enabling, saving, due, callFrame>>

TornDelete(k) ==
  /\ phase = "up" /\ binding[k].bound
  /\ \E n \in Requests : request' = Deleted(k, n) /\ DeletedTurns(k, n)
  /\ UNCHANGED <<binding, handled>>

(* The agent is renamed in every chat; what runs goes on. *)
UpdateAlias ==
  /\ phase = "up"
  /\ Spend("edits")
  /\ binding' = [k \in Chats |-> IF binding[k].bound THEN [binding[k] EXCEPT !.version = @ + 1] ELSE binding[k]]
  /\ UNCHANGED <<request, turn, work, cancels, enabling, saving, due, obsolete, callFrame>>

-----------------------------------------------------------------------------
(***************************************************************************)
(* The outbox of the account: flushAccount() and the connection.           *)
(***************************************************************************)

sendFrame == <<binding, turn, handled, run, phase, work, cancels, enabling, saving, used, obsolete>>

Sendable == {r \in Requests : request[r].delivery = "pending" /\ binding[request[r].chat].enabled}

(* mutant of Mark: the wrong column *)
MarkStatus(r, state) == request' = [request EXCEPT ![r].status = state]

Mark(r, state) == request' = [request EXCEPT ![r].delivery = state]

(* The first pending reply of a chat that is on is marked unknown, so that a *)
(* crash cannot send it twice, and handed to the connection.                 *)
Flush ==
  /\ due /\ sending = NoSend
  /\ due' = FALSE
  /\ \/ Sendable = {} /\ UNCHANGED <<request, sending>>
     \/ \E r \in Sendable :
          /\ \A q \in Sendable : r <= q
          /\ Mark(r, "unknown")
          /\ sending' = [r |-> r, version |-> binding[request[r].chat].version, wire |-> FALSE]
  /\ UNCHANGED <<crossed, sendFrame>>

(* authorizeSend *)
Authorized ==
  LET row == request[sending.r]
  IN /\ binding[row.chat].enabled /\ binding[row.chat].version = sending.version
     /\ row.status = "completed" /\ row.delivery = "unknown"

Preparing == sending # NoSend /\ ~sending.wire

(* The connection asks once more and writes to the socket. *)
Cross ==
  /\ Preparing /\ Authorized
  /\ sending' = [sending EXCEPT !.wire = TRUE]
  /\ crossed' = [crossed EXCEPT ![sending.r] = @ + 1]
  /\ UNCHANGED <<request, due, sendFrame>>

(* The answer is written whatever has become of the reply, and the timer of  *)
(* the account is set.                                                       *)
Answer(state) ==
  /\ Mark(sending.r, state)
  /\ sending' = NoSend
  /\ due' = TRUE
  /\ UNCHANGED <<crossed, sendFrame>>

(* mutant of SendUncertain: an error that says nothing is tried again *)
UncertainRetried == sending # NoSend /\ Answer("pending")

(* Not sent for sure, and not to be tried again: authorizeSend refused, the  *)
(* chat is unknown.                                                          *)
SendRefused == Preparing /\ Answer("failed")

(* mutant of SendLater: the timer is not set *)
SendNever ==
  /\ Preparing /\ Mark(sending.r, "pending")
  /\ sending' = NoSend
  /\ UNCHANGED <<due, crossed, sendFrame>>

(* Offline or rate limited: the reply is pending again. *)
SendLater == Preparing /\ Answer("pending")

(* An error that says nothing. *)
SendUncertain == sending # NoSend /\ Answer("unknown")

SendConfirmed == sending.wire /\ Answer("sent")

-----------------------------------------------------------------------------
(***************************************************************************)
(* The process: initialize(), and its end.                                 *)
(***************************************************************************)

(* close() and a crash lose the same things: it returns at once, and what is *)
(* in flight finds the coordinator closed.                                   *)
Die ==
  /\ phase = "up"
  /\ phase' = "down"
  /\ run' = [r \in Requests |-> IF run[r].state = "live" THEN [run[r] EXCEPT !.state = "lost"] ELSE run[r]]
  /\ work' = [k \in Chats |-> <<>>]
  /\ cancels' = {} /\ enabling' = {} /\ saving' = {}
  /\ sending' = NoSend
  /\ due' = FALSE
  /\ UNCHANGED <<crossed, obsolete>>

Stop ==
  /\ Spend("outages")
  /\ Die
  /\ UNCHANGED <<binding, request, turn, handled>>

Torn ==
  /\ Spend("torn")
  /\ Die
  /\ \E k \in Chats : TornOff(k) \/ TornDelete(k)

ActiveTurns == {r \in Requests : \E k \in Chats : binding[k].active = r}

(* The answer of a run that ended before the process did is still there. *)
Recovered == {r \in ActiveTurns : run[r].state = "completed"}

(* mutant of Start: what was active is queued again *)
StartOver ==
  LET interrupted == ActiveTurns \ Recovered
  IN /\ phase = "down"
     /\ phase' = "up"
     /\ run' = run
     /\ request' = SetStatus(interrupted, "queued")
     /\ Close(interrupted)
     /\ binding' = [k \in Chats |-> [binding[k] EXCEPT !.active = IF @ \in interrupted THEN 0 ELSE @]]
     /\ work' = [k \in Chats |-> IF binding[k].bound THEN <<PumpJob>> ELSE <<>>]
     /\ due' = TRUE
     /\ UNCHANGED <<handled, cancels, enabling, saving, sending, used, crossed, obsolete>>

(* Runs whose process is gone fail, what was active is delivered when its    *)
(* run had completed and interrupted otherwise, and every chat is pumped.    *)
(* The chats are pumped one after the other; here in any order.              *)
Start ==
  LET interrupted == ActiveTurns \ Recovered
  IN /\ phase = "down"
     /\ phase' = "up"
     /\ run' = [r \in Requests |->
                  IF /\ run[r].state = "lost" /\ binding[request[r].chat].bound
                     /\ run[r].conversation = binding[request[r].chat].conversation
                  THEN [run[r] EXCEPT !.state = "failed"] ELSE run[r]]
     /\ request' = SetStatus(interrupted, "interrupted")
     /\ Close(interrupted)
     /\ binding' = [k \in Chats |-> [binding[k] EXCEPT !.active = IF @ \in interrupted THEN 0 ELSE @]]
     /\ work' = [k \in Chats |->
                   IF ~binding[k].bound THEN <<>>
                   ELSE IF binding[k].active \in Recovered
                   THEN <<Job("deliver", binding[k].active, NoMessage), PumpJob>> ELSE <<PumpJob>>]
     /\ due' = TRUE
     /\ UNCHANGED <<handled, cancels, enabling, saving, sending, used, crossed, obsolete>>

-----------------------------------------------------------------------------
Inbound ==
  \/ \E m \in Messages : Receive(m)
  \/ \E k \in Chats : \/ Refuse(k) \/ AcceptTask(k) \/ AcceptCorrection(k) \/ QueueCorrection(k)
                      \/ MessageOff(k) \/ BeginMessageOn(k) \/ FinishMessageOn(k)

Dispatching ==
  \E k \in Chats : \/ StartPump(k) \/ Dispatch(k) \/ ContextRead(k)
                   \/ AdmitRun(k) \/ RejectRun(k) \/ LoseAdmission(k)

Settling ==
  \/ \E r \in Requests : RunEnds(r) \/ CancelRun(r)
  \/ \E k \in Chats : Deliver(k) \/ SettleWithoutReply(k)

OwnerActs ==
  \/ \E k \in Chats : TurnOff(k) \/ BeginOn(k) \/ FinishOn(k) \/ Delete(k) \/ Retire(k) \/ Retired(k)
  \/ \E k \in Chats, on \in BOOLEAN, access \in SUBSET People : Put(k, on, access)
  \/ \E r \in Requests : AskCancel(r) \/ RetryDelivery(r) \/ Dismiss(r)
  \/ UpdateAlias

Sending == Flush \/ Cross \/ SendRefused \/ SendLater \/ SendUncertain \/ SendConfirmed

Lifecycle == Start \/ Stop \/ Torn

Next == Inbound \/ Dispatching \/ Settling \/ OwnerActs \/ Sending \/ Lifecycle

Spec == Init /\ [][Next]_vars

(***************************************************************************)
(* Fairness.  Every promise the code waits for settles: lookups and calls  *)
(* have timeouts, a run ends (its process exits or is stopped), the owner  *)
(* starts the program again.  Sending may fail any number of times, but a  *)
(* reply that is tried again and again is written or refused in the end.   *)
(***************************************************************************)

JobAdvances(k) ==
  \/ Refuse(k) \/ AcceptTask(k) \/ AcceptCorrection(k) \/ QueueCorrection(k)
  \/ MessageOff(k) \/ BeginMessageOn(k) \/ FinishMessageOn(k)
  \/ StartPump(k) \/ Dispatch(k) \/ ContextRead(k) \/ AdmitRun(k) \/ RejectRun(k)
  \/ Deliver(k) \/ SettleWithoutReply(k) \/ Retire(k) \/ Retired(k)

SendEnds == SendRefused \/ SendLater \/ SendUncertain \/ SendConfirmed

Fairness ==
  /\ WF_vars(Start) /\ WF_vars(Flush) /\ WF_vars(SendEnds) /\ SF_vars(Cross \/ SendRefused)
  /\ \A k \in Chats : WF_vars(JobAdvances(k)) /\ WF_vars(FinishOn(k))
  /\ \A r \in Requests : WF_vars(RunEnds(r)) /\ WF_vars(CancelRun(r))

FairSpec == Spec /\ Fairness

-----------------------------------------------------------------------------
(***************************************************************************)
(* What the parts promise together.                                        *)
(***************************************************************************)

BindingRow ==
  [bound : BOOLEAN, enabled : BOOLEAN, access : SUBSET People, version : Nat, revision : Nat,
   active : 0..MaxRequests, conversation : Nat]

RequestRow ==
  [chat : Chats, author : People \cup {Owner}, message : Messages \cup {NoMessage},
   status : Status, delivery : DeliveryState, revision : Nat]

RunRow == [state : {"none", "live", "completed", "failed", "canceled", "lost"}, conversation : Nat]

Step == {"pump", "identity", "context", "admission", "inbound", "correcting", "enabling",
         "deliver", "failed", "canceled", "retire", "retiring"}

JobRow == [at : Step, r : 0..MaxRequests, m : Messages \cup {NoMessage}]

(* Every table, and every variable of the coordinator, holds a value of its *)
(* type.                                                                    *)
TypeOK ==
  /\ binding \in [Chats -> BindingRow]
  /\ request \in [Requests -> RequestRow]
  /\ turn \in [Requests -> {"none", "active", "closed"}]
  /\ handled \subseteq Chats \X Messages
  /\ run \in [Requests -> RunRow]
  /\ phase \in {"down", "up"}
  /\ work \in [Chats -> Seq(JobRow)]
  /\ cancels \subseteq Requests /\ enabling \subseteq Chats /\ saving \subseteq cancels
  /\ sending \in [r : 0..MaxRequests, version : Nat, wire : BOOLEAN]
  /\ due \in BOOLEAN
  /\ used \in [Budget -> Nat]
  /\ crossed \in [Requests -> Nat]
  /\ obsolete \subseteq Requests

(* The chat, the request and the turn, which settleRequest, markTurnStatus, *)
(* setEnabled and putBinding write one after the other, agree on what is    *)
(* active: the chat names a request exactly while that request is active    *)
(* under the revision of the chat, with an open turn.                       *)
Agreement ==
  \A r \in Requests, k \in Chats :
    binding[k].active = r <=>
      /\ request[r].status = "active" /\ request[r].chat = k
      /\ binding[k].bound /\ binding[k].enabled
      /\ binding[k].revision = request[r].revision
      /\ turn[r] = "active"

(* Whatever retires a request while its run is prepared, started or working *)
(* (pause, save, removal, correction, cancellation), the run does not go on *)
(* unattended: a run that lives belongs to the active request of its chat,  *)
(* or is being cancelled.  Only the run of an admission the store could not *)
(* confirm goes on alone.                                                   *)
NoStrayRun ==
  \A r \in Requests : run[r].state = "live" =>
    \/ binding[request[r].chat].active = r
    \/ r \in cancels
    \/ request[r].status \in {"interrupted", "dismissed"}

(* pump() reads the chat, looks up the author, reads the context and starts *)
(* the run, with a wait between any two of these.  Still, when a run starts *)
(* its chat is on, the author is one the chat accepts now, and the request  *)
(* has not been retired.                                                    *)
StartsAuthorized ==
  [][\A r \in Requests : run[r].state = "none" /\ run'[r].state = "live" =>
       LET row == binding'[request[r].chat]
       IN /\ row.enabled
          /\ request[r].author = Owner \/ request[r].author \in row.access
          /\ request[r].status = "active"
          /\ \A q \in Requests \ {r} :
               run[q].state = "live" /\ request[q].chat = request[r].chat
                 => q \in cancels \/ run[q].conversation # row.conversation]_vars

(* The answer of a turn that began under a configuration that has been      *)
(* replaced since never enters the outbox, however late its run ends.       *)
NoLateReply ==
  [][\A r \in Requests :
       request[r].delivery = "none" /\ request'[r].delivery = "pending" => r \notin obsolete]_vars

(* Through crashes, outages of the connection, late answers and retries of  *)
(* the owner, a reply is handed to the socket at most once.                 *)
SentOnce == \A r \in Requests : crossed[r] <= 1

(* A request that was active is never queued again, and one that ended      *)
(* (canceled, completed, interrupted) stays ended: nothing is replayed,     *)
(* neither by a restart nor by an operation that was waiting meanwhile.     *)
NothingReplayed ==
  [][\A r \in Requests :
       /\ request[r].status = "active" => request'[r].status # "queued"
       /\ request[r].status \in Ended => request'[r].status \in Ended]_vars

(* Two chats that are the same conversation are never both on, whichever of *)
(* ON, the settings and a save turns them on, in whichever order.           *)
EquivalentExclusive ==
  \A k, c \in Chats : k # c /\ c \in Identities[k] => ~(binding[k].enabled /\ binding[c].enabled)

(* A message that comes twice, through either identity of its chat, before  *)
(* or after a restart, makes at most one request.                           *)
OneRequestPerMessage ==
  \A r, q \in Requests : r # q /\ request[r].message # NoMessage => request[r].message # request[q].message

(* As long as its chat is on, a request is not forgotten: it ends.          *)
Answered ==
  \A r \in Requests :
    request[r].status \in {"queued", "active"}
      ~> request[r].status \in Ended \/ ~binding[request[r].chat].enabled

(* As long as its chat is on, a reply does not stay in the outbox: it is    *)
(* sent, or known to have failed, or uncertain.                             *)
Posted ==
  \A r \in Requests :
    request[r].delivery = "pending"
      ~> \/ request[r].delivery \in {"sent", "failed", "unknown", "withdrawn"} /\ sending.r # r
         \/ ~binding[request[r].chat].enabled

=============================================================================
