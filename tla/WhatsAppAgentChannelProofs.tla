---------------------- MODULE WhatsAppAgentChannelProofs ----------------------
(***************************************************************************)
(* Theorems about WhatsAppAgentChannel: what the runs Chat, Crash and       *)
(* Names check, for every value of the constants.                          *)
(*                                                                         *)
(* A step is summarised once (Moves): what becomes of every request, its    *)
(* reply and its run, of the row of every chat, and of the jobs of every    *)
(* chain.  The parts of the invariant follow from the summary.              *)
(***************************************************************************)
EXTENDS WhatsAppAgentChannel, FiniteSetTheorems, TLAPS

(* What is kept of a run once it began: a row, and its end. *)
OverRun == {"completed", "failed", "canceled", "lost"}

(* What may wait behind the head of a chain; the other steps are taken by    *)
(* the head itself.                                                          *)
Chained == {"pump", "inbound", "deliver", "failed", "canceled", "retire"}

(* Before a run is started. *)
Preparation == {"identity", "context", "admission"}

(* A request that waits has no run, one with a reply has ended, and the      *)
(* message a request was made of is marked, under an identity of its chat.   *)
RowInv(r) ==
  LET row == request[r]
  IN /\ row.status \in {"absent", "queued"} => run[r].state = "none"
     /\ row.delivery # "none" => row.status \in {"completed", "dismissed"}
     /\ row.message # NoMessage => row.chat \in Identities[row.message.chat] /\ <<row.chat, row.message>> \in handled

(* The request a chat names is one of its own, under its revision, by an      *)
(* author it accepts; it has no reply and is not of a replaced configuration. *)
(* A removal the process died in has cancelled it; what start() leaves of     *)
(* such requests have a run that is over.                                     *)
ActiveInv(k) ==
  LET b == binding[k]
      row == request[b.active]
  IN /\ b.enabled => b.bound
     /\ b.active # 0 =>
          /\ b.enabled
          /\ row.chat = k
          /\ row.status \in {"active", "canceled"}
          /\ row.status = "canceled" /\ phase = "up" => run[b.active].state \in OverRun
          /\ row.revision = b.revision
          /\ row.delivery = "none"
          /\ row.author = Owner \/ row.author \in b.access
          /\ b.active \notin obsolete

(* A job of a chain, in the chain of chat k. *)
JobInv(k, job) ==
  /\ job.at \in {"inbound", "correcting", "enabling"} => job.m \in Messages /\ k \in Identities[job.m.chat]
  /\ job.at \notin {"inbound", "enabling", "pump"} =>
       job.r \in Requests /\ request[job.r].chat = k /\ request[job.r].status # "absent"
  /\ job.at \in Preparation => run[job.r].state = "none"
  /\ job.at = "identity" => request[job.r].status \in {"queued", "canceled"} /\ request[job.r].delivery = "none"
  /\ job.at \in {"deliver", "failed", "canceled"} => run[job.r].state \in OverRun

ChainInv(k) ==
  \A i \in DOMAIN work[k] : JobInv(k, work[k][i]) /\ (i # 1 => work[k][i].at \in Chained)

(* The reply in flight is marked unknown, and is handed over once at most;   *)
(* what was handed over is never pending again.                              *)
SendInv ==
  /\ sending # NoSend =>
       /\ sending.r \in Requests
       /\ request[sending.r].delivery = "unknown"
       /\ crossed[sending.r] = IF sending.wire THEN 1 ELSE 0
  /\ \A r \in Requests : crossed[r] = 0 \/ (crossed[r] = 1 /\ request[r].delivery \in {"unknown", "sent"})

(* Nothing of the coordinator is left when the process is down. *)
DownInv ==
  phase = "down" =>
    /\ \A k \in Chats : work[k] = <<>>
    /\ cancels = {} /\ enabling = {} /\ saving = {} /\ sending = NoSend /\ due = FALSE
    /\ \A r \in Requests : run[r].state # "live"

IInv ==
  /\ TypeOK
  /\ \A r \in Requests : RowInv(r)
  /\ \A k \in Chats : ActiveInv(k)
  /\ \A k \in Chats : ChainInv(k)
  /\ SendInv
  /\ DownInv
  /\ NoStrayRun

-----------------------------------------------------------------------------
(***************************************************************************)
(* What a step may do.                                                     *)
(***************************************************************************)

IsActive(r) == binding[request[r].chat].active = r

(* No chain has request r at one of these steps, after. *)
NoneAt(steps, r) ==
  \A k \in Chats : \A i \in DOMAIN work'[k] : work'[k][i].r = r => work'[k][i].at \notin steps

(* A request is made of the message at the head of a chain. *)
Queues(r) ==
  /\ request[r].status = "absent" /\ request'[r].status = "queued"
  /\ request'[r].delivery = "none"
  /\ \E k \in Chats :
       /\ (Head1(k, "inbound") /\ Fresh(k, InboundMessage(k))) \/ Head1(k, "correcting")
       /\ request'[r].chat = k /\ request'[r].message = InboundMessage(k)
       /\ handled' = handled \cup {<<k, InboundMessage(k)>>}
  /\ \A q \in Requests \ {r} : request'[q] = request[q]

(* It becomes the active one. *)
Begins(r) ==
  /\ request[r].status \in {"queued", "canceled"} /\ request'[r].status = "active"
  /\ request[r].delivery = "none" /\ ~IsActive(r)
  /\ binding'[request[r].chat].active = r
  /\ \E k \in Chats : Head1(k, "identity") /\ Held(k) = r
  /\ turn'[r] = "active" /\ r \notin obsolete'
  /\ NoneAt({"identity"}, r)

(* It ends: what waits is cancelled, what is active may end in any way. *)
Ends(r) ==
  \/ /\ request[r].status = "queued" /\ request'[r].status = "canceled"
     /\ NoneAt({"identity"}, r) \/ ~binding'[request[r].chat].bound
  \/ /\ request[r].status = "active" \/ IsActive(r)
     /\ request'[r].status \in {"completed", "failed", "canceled", "interrupted"}
     /\ Torn \/ binding'[request[r].chat].active # r
  \/ /\ request[r].status = "interrupted" \/ request[r].delivery = "unknown"
     /\ request'[r].status = "dismissed"

StatusStep(r) ==
  /\ request[r].status # "absent" =>
       /\ request'[r].chat = request[r].chat
       /\ request'[r].author = request[r].author
       /\ request'[r].message = request[r].message
       /\ request'[r].status # "absent"
  /\ \/ /\ request'[r].status = request[r].status
        /\ request[r].status = "absent" => request'[r] = request[r]
     \/ Queues(r) \/ Begins(r) \/ Ends(r)

(* The reply of a request. *)
DeliveryStep(r) ==
  \/ request'[r].delivery = request[r].delivery
  \/ /\ request[r].delivery = "none" /\ request'[r].delivery = "pending"
     /\ request'[r].status = "completed" /\ IsActive(r)
  \/ request[r].delivery = "pending" /\ request'[r].delivery \in {"withdrawn", "unknown"}
  \/ request[r].delivery = "failed" /\ request'[r].delivery = "pending"
  \/ /\ request[r].delivery = "unknown" /\ sending.r = r /\ sending' = NoSend
     /\ request'[r].delivery \in {"unknown", "sent"} \/ ~sending.wire

(* The run of a request. *)
RunStep(r) ==
  \/ run'[r] = run[r]
  \/ /\ run[r].state = "none" /\ run'[r].state = "live"
     /\ phase = "up" /\ IsActive(r)
     /\ binding'[request[r].chat].active = r \/ request'[r].status = "interrupted"
     /\ NoneAt(Preparation, r)
  \/ run[r].state = "live" /\ run'[r].state \in OverRun
  \/ run[r].state = "lost" /\ run'[r].state = "failed"

(* The request a chat names is let go: its run is over or cancelled. *)
LetsGo(a) ==
  /\ run'[a].state # "live" \/ a \in cancels' \/ request'[a].status = "interrupted"
  /\ Torn \/ request'[a].status # "active"

(* It is kept: nothing happens to it, or the process dies in a removal. *)
Stays(a) ==
  /\ a \notin obsolete'
  /\ phase' = "up" => phase = "up" \/ run[a].state \in OverRun
  /\ \/ request'[a] = request[a] /\ turn'[a] = turn[a]
     \/ /\ Torn /\ phase' = "down"
        /\ request'[a] = [request[a] EXCEPT !.status = "canceled"]

BindingStep(k) ==
  \/ /\ binding'[k] = [binding[k] EXCEPT !.version = binding'[k].version]
     /\ binding[k].active # 0 => Stays(binding[k].active)
  \/ /\ binding'[k].active = 0
     /\ binding'[k].enabled => binding'[k].bound
     /\ binding[k].active # 0 => LetsGo(binding[k].active)
  \/ /\ binding[k].enabled /\ binding[k].active = 0
     /\ \E r \in Requests :
          /\ binding'[k] = [binding[k] EXCEPT !.active = r, !.revision = @ + 1]
          /\ request[r].chat = k /\ Begins(r)
          /\ request'[r].revision = binding[k].revision + 1
          /\ request[r].author = Owner \/ request[r].author \in binding[k].access

(* Where a new job comes from: what is looked up is queued in a chat that is *)
(* on, and what is corrected is of a message nobody has handled.             *)
NewJob(k, job) ==
  /\ job.at = "identity" => request'[job.r].status = "queued" /\ binding'[k].enabled
  /\ job.at = "correcting" =>
       /\ Head1(k, "inbound") /\ job.m = InboundMessage(k)
       /\ Fresh(k, job.m) /\ job.m.kind = "correct" /\ handled' = handled

(* Jobs stay in their order, and new ones are sound after the step. *)
ChainStep(k) ==
  \A i \in DOMAIN work'[k] :
    \/ \E j \in DOMAIN work[k] : work'[k][i] = work[k][j] /\ (j = 1 => i = 1)
    \/ JobInv(k, work[k][i])' /\ NewJob(k, work'[k][i]) /\ (i # 1 => work'[k][i].at \in Chained)

(* A run is cancelled until it is over. *)
CancelStep == \A r \in cancels : r \in cancels' \/ run'[r].state # "live"

Moves ==
  /\ handled \subseteq handled'
  /\ \A r \in Requests : StatusStep(r) /\ DeliveryStep(r) /\ RunStep(r)
  /\ \A k \in Chats : BindingStep(k) /\ ChainStep(k)
  /\ CancelStep

(* The reply in flight, apart from that. *)
SendStep ==
  /\ \/ UNCHANGED <<sending, crossed>>
     \/ sending' = NoSend /\ crossed' = crossed
     \/ /\ sending = NoSend /\ crossed' = crossed
        /\ \E r \in Requests : /\ request[r].delivery = "pending" /\ request'[r].delivery = "unknown"
                               /\ sending'.r = r /\ sending'.wire = FALSE
     \/ /\ Preparing /\ request' = request
        /\ sending' = [sending EXCEPT !.wire = TRUE]
        /\ crossed' = [crossed EXCEPT ![sending.r] = @ + 1]
  /\ phase' = "up" \/ Die

-----------------------------------------------------------------------------
(***************************************************************************)
(* Jobs and chains.                                                        *)
(***************************************************************************)

(* The first of a set of requests: what pump() takes. *)
LEMMA First ==
  ASSUME NEW S \in SUBSET Requests, S # {}
  PROVE  \E n \in S : \A m \in S : n <= m
<1> DEFINE Below(n) == {m \in S : m <= n}
           T == {Below(n) : n \in S}
<1>1. MaxRequests \in Nat /\ S \subseteq Nat /\ IsFiniteSet(Requests)
  BY ChannelAssumption, FS_Interval DEF Requests
<1>2. PICK x \in T : \A y \in T : y \subseteq x => y = x
  <2>1. T \subseteq SUBSET Requests /\ T # {}
    OBVIOUS
  <2>2. IsWellFoundedOn(StrictSubsetOrdering(Requests), SUBSET Requests)
    BY <1>1, FS_StrictSubsetOrderingWellFounded, FS_FiniteSubsetsOfFinite
  <2>3. \E x \in T : \A y \in T : <<y, x>> \notin StrictSubsetOrdering(Requests)
    <3> HIDE DEF T
    <3> QED
      BY <2>1, <2>2, WFMin
  <2> HIDE DEF T
  <2> QED
    BY <2>1, <2>3 DEF StrictSubsetOrdering
<1>3. PICK n \in S : x = Below(n)
  OBVIOUS
<1>4. ASSUME NEW m \in S, ~(n <= m) PROVE FALSE
  <2>1. m \in Nat /\ n \in Nat
    BY <1>1, <1>4
  <2>2. Below(m) \subseteq Below(n)
    <3> SUFFICES ASSUME NEW k \in S, k <= m PROVE k <= n
      OBVIOUS
    <3>1. k \in Nat
      BY <1>1
    <3> QED
      BY <1>4, <2>1, <3>1
  <2>3. Below(m) \in T /\ n \notin Below(m) /\ n \in Below(n)
    BY <1>4, <2>1
  <2> QED
    BY <1>2, <1>3, <2>2, <2>3
<1> QED
  BY <1>4

(* Requests are numbers. *)
LEMMA RequestsAreNumbers ==
  /\ MaxRequests \in Nat
  /\ \A r \in Requests : r \in Nat /\ r # 0 /\ r \in 0..MaxRequests
  /\ \A r \in 0..MaxRequests : r # 0 => r \in Requests
BY ChannelAssumption DEF Requests

(* A job is what it was made of. *)
LEMMA JobFields ==
  ASSUME NEW at \in Step, NEW r \in 0..MaxRequests, NEW m \in Messages \cup {NoMessage}
  PROVE  /\ Job(at, r, m) \in JobRow
         /\ Job(at, r, m).at = at /\ Job(at, r, m).r = r /\ Job(at, r, m).m = m
BY DEF Job, JobRow

(* The head of a chain, and what is known of it. *)
LEMMA HeadJob ==
  ASSUME TypeOK, NEW k \in Chats, work[k] # <<>>
  PROVE  /\ work[k] \in Seq(JobRow)
         /\ 1 \in DOMAIN work[k] /\ Head(work[k]) = work[k][1]
         /\ Head(work[k]) \in JobRow
         /\ \A i \in DOMAIN work[k] : work[k][i] \in JobRow
         /\ ChainInv(k) => JobInv(k, Head(work[k]))
<1>1. work[k] \in Seq(JobRow)
  BY DEF TypeOK
<1>2. Head(work[k]) = work[k][1] /\ 1 \in DOMAIN work[k]
  BY <1>1
<1> QED
  BY <1>1, <1>2 DEF ChainInv

(* What is behind the head of a chain. *)
LEMMA TailJobs ==
  ASSUME NEW S, NEW s \in Seq(S), s # <<>>
  PROVE  /\ Tail(s) \in Seq(S)
         /\ \A i \in DOMAIN Tail(s) : i + 1 \in DOMAIN s /\ i + 1 # 1 /\ Tail(s)[i] = s[i + 1]
OBVIOUS

(* The head of a chain is replaced. *)
LEMMA ReplacedJobs ==
  ASSUME NEW S, NEW s \in Seq(S), s # <<>>, NEW e \in S
  PROVE  /\ <<e>> \o Tail(s) \in Seq(S)
         /\ (<<e>> \o Tail(s))[1] = e
         /\ DOMAIN (<<e>> \o Tail(s)) = DOMAIN s
         /\ \A i \in DOMAIN s : i # 1 => (<<e>> \o Tail(s))[i] = s[i]
<1>1. Tail(s) \in Seq(S) /\ Len(Tail(s)) = Len(s) - 1
  OBVIOUS
<1>2. <<e>> \in Seq(S) /\ Len(<<e>>) = 1
  OBVIOUS
<1> DEFINE t == <<e>> \o Tail(s)
<1>3. t \in Seq(S) /\ Len(t) = Len(s)
  BY <1>1, <1>2
<1>4. t[1] = e
  BY <1>1, <1>2
<1>5. ASSUME NEW i \in DOMAIN s, i # 1 PROVE t[i] = s[i]
  <2>1. i \in Nat /\ i > 1 /\ i <= Len(s)
    BY <1>5
  <2>2. t[i] = Tail(s)[i - 1]
    BY <1>1, <1>2, <2>1
  <2>3. i - 1 \in 1..Len(Tail(s))
    BY <1>1, <2>1
  <2>4. Tail(s)[i - 1] = s[i]
    BY <2>1, <2>3
  <2> QED
    BY <2>2, <2>4
<1> QED
  BY <1>3, <1>4, <1>5

(* A chain grows at its end. *)
LEMMA AppendedJobs ==
  ASSUME NEW S, NEW s \in Seq(S), NEW e \in S
  PROVE  /\ Append(s, e) \in Seq(S)
         /\ \A i \in DOMAIN Append(s, e) :
              \/ i \in DOMAIN s /\ Append(s, e)[i] = s[i]
              \/ i = Len(s) + 1 /\ Append(s, e)[i] = e
OBVIOUS

(* What comes from elsewhere. *)
LEMMA OtherJobs ==
  ASSUME NEW k, NEW job, job.at \notin {"identity", "correcting"}
  PROVE  NewJob(k, job)
BY DEF NewJob

(* enqueue() *)
LEMMA EnqueueSteps ==
  ASSUME TypeOK, NEW k \in Chats, NEW job \in JobRow, job.at \in Chained, Enqueue(k, job)
  PROVE  /\ work' \in [Chats -> Seq(JobRow)]
         /\ \A c \in Chats : (\A i \in DOMAIN work'[c] : work'[c][i] = job => JobInv(c, work[c][i])') => ChainStep(c)
         /\ \A c \in Chats \ {k} : work'[c] = work[c]
<1>1. work \in [Chats -> Seq(JobRow)]
  BY DEF TypeOK
<1>2. /\ work'[k] = Append(work[k], job)
      /\ \A c \in Chats \ {k} : work'[c] = work[c]
      /\ work' = [work EXCEPT ![k] = Append(work[k], job)]
  BY <1>1 DEF Enqueue
<1>3. work[k] \in Seq(JobRow)
  BY <1>1
<1>4. work' \in [Chats -> Seq(JobRow)]
  BY <1>1, <1>2, <1>3, AppendedJobs
<1>5. ASSUME NEW c \in Chats, \A i \in DOMAIN work'[c] : work'[c][i] = job => JobInv(c, work[c][i])'
      PROVE  ChainStep(c)
  <2>1. CASE c # k
    BY <1>2, <2>1 DEF ChainStep
  <2>2. CASE c = k
    <3>1. NewJob(k, job)
      BY OtherJobs DEF Chained
    <3>2. ASSUME NEW i \in DOMAIN work'[k]
          PROVE  (\E j \in DOMAIN work[k] : work'[k][i] = work[k][j] /\ (j = 1 => i = 1)) \/ work'[k][i] = job
      BY <1>2, <1>3, AppendedJobs
    <3> QED
      BY <1>5, <2>2, <3>1, <3>2 DEF ChainStep
  <2> QED
    BY <2>1, <2>2
<1> QED
  BY <1>2, <1>4, <1>5

(* The head of a chain is done. *)
LEMMA FinishSteps ==
  ASSUME TypeOK, NEW k \in Chats, work[k] # <<>>, Finish(k)
  PROVE  /\ work' \in [Chats -> Seq(JobRow)]
         /\ \A c \in Chats : ChainStep(c)
         /\ \A c \in Chats \ {k} : work'[c] = work[c]
         /\ \A i \in DOMAIN work'[k] : i + 1 \in DOMAIN work[k] /\ i + 1 # 1 /\ work'[k][i] = work[k][i + 1]
<1>1. work \in [Chats -> Seq(JobRow)] /\ work[k] \in Seq(JobRow)
  BY DEF TypeOK
<1>2. /\ work'[k] = Tail(work[k])
      /\ \A c \in Chats \ {k} : work'[c] = work[c]
      /\ work' = [work EXCEPT ![k] = Tail(work[k])]
  BY <1>1 DEF Finish
<1>3. work' \in [Chats -> Seq(JobRow)]
  BY <1>1, <1>2, TailJobs
<1>4. \A i \in DOMAIN work'[k] : i + 1 \in DOMAIN work[k] /\ i + 1 # 1 /\ work'[k][i] = work[k][i + 1]
  BY <1>1, <1>2, TailJobs
<1>5. ASSUME NEW c \in Chats PROVE ChainStep(c)
  <2>1. CASE c # k
    BY <1>2, <2>1 DEF ChainStep
  <2>2. CASE c = k
    BY <1>4, <2>2 DEF ChainStep
  <2> QED
    BY <2>1, <2>2
<1> QED
  BY <1>2, <1>3, <1>4, <1>5

(* The head of a chain goes on. *)
LEMMA ProceedSteps ==
  ASSUME TypeOK, NEW k \in Chats, work[k] # <<>>, NEW job \in JobRow, Proceed(k, job)
  PROVE  /\ work' \in [Chats -> Seq(JobRow)]
         /\ \A c \in Chats \ {k} : work'[c] = work[c]
         /\ 1 \in DOMAIN work'[k] /\ work'[k][1] = job
         /\ DOMAIN work'[k] = DOMAIN work[k]
         /\ \A i \in DOMAIN work[k] : i # 1 => work'[k][i] = work[k][i]
         /\ JobInv(k, work[k][1])' /\ NewJob(k, job) => \A c \in Chats : ChainStep(c)
         /\ JobInv(k, work[k][1])' /\ job.at \notin {"identity", "correcting"} => \A c \in Chats : ChainStep(c)
<1>1. work \in [Chats -> Seq(JobRow)] /\ work[k] \in Seq(JobRow)
  BY DEF TypeOK
<1>2. /\ work'[k] = <<job>> \o Tail(work[k])
      /\ \A c \in Chats \ {k} : work'[c] = work[c]
      /\ work' = [work EXCEPT ![k] = <<job>> \o Tail(work[k])]
  BY <1>1 DEF Proceed
<1>3. work' \in [Chats -> Seq(JobRow)]
  BY <1>1, <1>2, ReplacedJobs
<1>4. /\ work'[k][1] = job
      /\ DOMAIN work'[k] = DOMAIN work[k]
      /\ \A i \in DOMAIN work[k] : i # 1 => work'[k][i] = work[k][i]
  BY <1>1, <1>2, ReplacedJobs
<1>5. 1 \in DOMAIN work'[k]
  BY <1>1, <1>4
<1>6. ASSUME JobInv(k, work[k][1])', NewJob(k, job), NEW c \in Chats PROVE ChainStep(c)
  <2>1. CASE c # k
    BY <1>2, <2>1 DEF ChainStep
  <2>2. CASE c = k
    BY <1>4, <1>6, <2>2 DEF ChainStep
  <2> QED
    BY <2>1, <2>2
<1> QED
  BY <1>2, <1>3, <1>4, <1>5, <1>6, OtherJobs

(* pump(): the head of the chain goes on with a queued request, or is done. *)
LEMMA PumpSteps ==
  ASSUME NEW k \in Chats, Pump(k)
  PROVE  \/ Finish(k)
         \/ \E r \in Requests : /\ request'[r].status = "queued" /\ request'[r].chat = k
                                /\ binding'[k].enabled
                                /\ Proceed(k, Job("identity", r, NoMessage))
<1> DEFINE queued == {r \in Requests : request'[r].status = "queued" /\ request'[r].chat = k}
<1>1. CASE ~(binding'[k].enabled /\ binding'[k].active = 0 /\ queued # {})
  BY <1>1 DEF Pump
<1>2. CASE binding'[k].enabled /\ binding'[k].active = 0 /\ queued # {}
  <2> DEFINE n == CHOOSE r \in queued : \A q \in queued : r <= q
  <2>1. Proceed(k, Job("identity", n, NoMessage))
    BY <1>2 DEF Pump
  <2>2. queued \in SUBSET Requests /\ queued # {}
    BY <1>2
  <2>3. n \in queued
    <3> HIDE DEF queued
    <3> QED
      BY <2>2, First
  <2> QED
    BY <1>2, <2>1, <2>3
<1> QED
  BY <1>1, <1>2

-----------------------------------------------------------------------------
(***************************************************************************)
(* The invariant after a step, from what the step may do.                  *)
(***************************************************************************)

(* Types of the tables, before and after. *)
LEMMA TableTypes ==
  /\ TypeOK =>
       /\ binding \in [Chats -> BindingRow] /\ request \in [Requests -> RequestRow]
       /\ run \in [Requests -> RunRow] /\ work \in [Chats -> Seq(JobRow)]
       /\ handled \subseteq Chats \X Messages /\ phase \in {"down", "up"}
       /\ turn \in [Requests -> {"none", "active", "closed"}]
       /\ cancels \subseteq Requests /\ saving \subseteq cancels /\ enabling \subseteq Chats
       /\ crossed \in [Requests -> Nat] /\ used \in [Budget -> Nat] /\ due \in BOOLEAN
       /\ obsolete \subseteq Requests
       /\ sending \in [r : 0..MaxRequests, version : Nat, wire : BOOLEAN]
  /\ TypeOK' =>
       /\ binding' \in [Chats -> BindingRow] /\ request' \in [Requests -> RequestRow]
       /\ run' \in [Requests -> RunRow] /\ work' \in [Chats -> Seq(JobRow)]
       /\ handled' \subseteq Chats \X Messages /\ phase' \in {"down", "up"}
       /\ turn' \in [Requests -> {"none", "active", "closed"}]
       /\ cancels' \subseteq Requests /\ saving' \subseteq cancels' /\ enabling' \subseteq Chats
       /\ crossed' \in [Requests -> Nat] /\ used' \in [Budget -> Nat] /\ due' \in BOOLEAN
       /\ obsolete' \subseteq Requests
       /\ sending' \in [r : 0..MaxRequests, version : Nat, wire : BOOLEAN]
BY DEF TypeOK

(* A field of a row has the type of its column. *)
LEMMA Columns ==
  /\ \A row \in RequestRow :
       /\ row.chat \in Chats /\ row.author \in People \cup {Owner} /\ row.message \in Messages \cup {NoMessage}
       /\ row.status \in Status /\ row.delivery \in DeliveryState /\ row.revision \in Nat
  /\ \A b \in BindingRow :
       /\ b.bound \in BOOLEAN /\ b.enabled \in BOOLEAN /\ b.access \in SUBSET People
       /\ b.version \in Nat /\ b.revision \in Nat /\ b.active \in 0..MaxRequests /\ b.conversation \in Nat
  /\ \A e \in RunRow : e.state \in {"none", "live"} \cup OverRun /\ e.conversation \in Nat
BY DEF RequestRow, BindingRow, RunRow, OverRun

(* What waits behind a chain is not being prepared. *)
LEMMA ChainedIsNotPreparation == Chained \cap Preparation = {} /\ "identity" \in Preparation
BY DEF Chained, Preparation

(* What is known of a request survives a step. *)
LEMMA RowKept ==
  ASSUME IInv, TypeOK', Moves, NEW r \in Requests
  PROVE  RowInv(r)'
<1> DEFINE row == request[r]
<1>1. /\ row \in RequestRow /\ row' \in RequestRow /\ row.chat \in Chats
      /\ run[r] \in RunRow /\ run'[r] \in RunRow
  BY TableTypes, Columns DEF IInv
<1>2. StatusStep(r) /\ DeliveryStep(r) /\ RunStep(r) /\ RowInv(r) /\ ActiveInv(row.chat) /\ handled \subseteq handled'
  BY <1>1 DEF IInv, Moves
<1>3. row.status \in {"absent", "queued"} => ~IsActive(r)
  <2>1. r # 0
    BY RequestsAreNumbers
  <2> QED
    BY <1>2, <2>1 DEF ActiveInv, IsActive
<1>4. IsActive(r) => row.delivery = "none"
  <2>1. r # 0
    BY RequestsAreNumbers
  <2> QED
    BY <1>2, <2>1 DEF ActiveInv, IsActive
<1>5. row'.status \in {"absent", "queued"} => run'[r].state = "none"
  <2>1. ASSUME row'.status \in {"absent", "queued"} PROVE row.status \in {"absent", "queued"}
    BY <1>2, <2>1 DEF StatusStep, Queues, Begins, Ends
  <2>2. row.status \in {"absent", "queued"} => run[r].state = "none"
    BY <1>2 DEF RowInv
  <2> QED
    BY <1>2, <1>3, <2>1, <2>2 DEF RunStep
<1>6. row'.delivery # "none" => row'.status \in {"completed", "dismissed"}
  <2>1. row.delivery # "none" => row.status \in {"completed", "dismissed"}
    BY <1>2 DEF RowInv
  <2>2. ASSUME row'.delivery # "none", row.delivery = "none" PROVE row'.status = "completed"
    BY <1>2, <2>2 DEF DeliveryStep
  <2>3. ASSUME row.status \in {"completed", "dismissed"}, row.delivery # "none"
        PROVE  row'.status \in {"completed", "dismissed"}
    <3>1. ~IsActive(r)
      BY <1>4, <2>3
    <3> QED
      BY <1>2, <2>3, <3>1 DEF StatusStep, Queues, Begins, Ends
  <2> QED
    BY <2>1, <2>2, <2>3
<1>7. ASSUME row'.message # NoMessage
      PROVE  row'.chat \in Identities[row'.message.chat] /\ <<row'.chat, row'.message>> \in handled'
  <2>1. CASE row.status # "absent"
    BY <1>2, <1>7, <2>1 DEF StatusStep, RowInv
  <2>2. CASE request'[r] = request[r]
    BY <1>2, <1>7, <2>2 DEF RowInv
  <2>3. CASE Queues(r)
    <3>1. PICK k \in Chats :
            /\ (Head1(k, "inbound") /\ Fresh(k, InboundMessage(k))) \/ Head1(k, "correcting")
            /\ request'[r].chat = k /\ request'[r].message = InboundMessage(k)
            /\ handled' = handled \cup {<<k, InboundMessage(k)>>}
      BY <2>3 DEF Queues
    <3>2. JobInv(k, Head(work[k])) /\ Head(work[k]).at \in {"inbound", "correcting"}
      BY <3>1, HeadJob DEF IInv, Head1
    <3> QED
      BY <3>1, <3>2 DEF JobInv, InboundMessage
  <2>4. row.status = "absent" => ~Begins(r) /\ ~Ends(r)
    BY <1>2, <1>3 DEF RowInv, Begins, Ends
  <2> QED
    BY <1>2, <2>1, <2>2, <2>3, <2>4 DEF StatusStep
<1> QED
  BY <1>5, <1>6, <1>7 DEF RowInv

(* What is known of the request a chat names survives a step. *)
LEMMA ActiveKept ==
  ASSUME IInv, TypeOK', Moves, NEW k \in Chats
  PROVE  ActiveInv(k)'
<1> DEFINE b == binding[k]
           a == b.active
<1>1. /\ b \in BindingRow /\ b' \in BindingRow
      /\ BindingStep(k) /\ ActiveInv(k)
  BY TableTypes DEF IInv, Moves
<1>2. a \in 0..MaxRequests
  BY <1>1, Columns
<1>3. CASE b' = [b EXCEPT !.version = b'.version] /\ (a # 0 => Stays(a))
  <2>1. /\ b'.bound = b.bound /\ b'.enabled = b.enabled /\ b'.active = a
        /\ b'.revision = b.revision /\ b'.access = b.access
    BY <1>1, <1>3 DEF BindingRow
  <2>2. CASE a = 0
    BY <1>1, <2>1, <2>2 DEF ActiveInv
  <2>3. CASE a # 0
    <3>1. a \in Requests
      BY <1>2, <2>3, RequestsAreNumbers
    <3>2. /\ request[a] \in RequestRow /\ request'[a] \in RequestRow
          /\ RunStep(a)
      BY <3>1, TableTypes DEF IInv, Moves
    <3>3. Stays(a)
      BY <1>3, <2>3
    <3>4. /\ request'[a].chat = request[a].chat /\ request'[a].revision = request[a].revision
          /\ request'[a].delivery = request[a].delivery /\ request'[a].author = request[a].author
          /\ request'[a].status = request[a].status \/ (request'[a].status = "canceled" /\ phase' = "down")
      BY <3>2, <3>3 DEF Stays, RequestRow
    <3>5. ASSUME request'[a].status = "canceled", phase' = "up" PROVE run'[a].state \in OverRun
      <4>1. run[a].state \in OverRun
        BY <1>1, <2>3, <3>3, <3>4, <3>5 DEF Stays, ActiveInv
      <4> QED
        BY <3>2, <4>1 DEF RunStep, OverRun
    <3>6. a \notin obsolete'
      BY <3>3 DEF Stays
    <3> QED
      BY <1>1, <2>1, <2>3, <3>4, <3>5, <3>6 DEF ActiveInv
  <2> QED
    BY <2>2, <2>3
<1>4. CASE b'.active = 0 /\ (b'.enabled => b'.bound)
  BY <1>4 DEF ActiveInv
<1>5. CASE /\ b.enabled /\ a = 0
           /\ \E r \in Requests :
                /\ binding'[k] = [binding[k] EXCEPT !.active = r, !.revision = @ + 1]
                /\ request[r].chat = k /\ Begins(r)
                /\ request'[r].revision = binding[k].revision + 1
                /\ request[r].author = Owner \/ request[r].author \in binding[k].access
  <2>1. PICK r \in Requests :
                /\ b' = [b EXCEPT !.active = r, !.revision = @ + 1]
                /\ request[r].chat = k /\ Begins(r)
                /\ request'[r].revision = b.revision + 1
                /\ request[r].author = Owner \/ request[r].author \in b.access
    BY <1>5
  <2>2. /\ b'.bound = b.bound /\ b'.enabled = b.enabled /\ b'.active = r
        /\ b'.revision = b.revision + 1 /\ b'.access = b.access
    BY <1>1, <2>1 DEF BindingRow
  <2>3. StatusStep(r) /\ DeliveryStep(r)
    BY DEF Moves
  <2>4. request[r].status # "absent" /\ request'[r].status = "active" /\ request[r].delivery = "none" /\ r \notin obsolete'
    BY <2>1 DEF Begins
  <2>5. request'[r].chat = k /\ request'[r].author = request[r].author /\ request'[r].delivery = "none"
    BY <2>1, <2>3, <2>4 DEF StatusStep, DeliveryStep
  <2> QED
    BY <1>1, <1>5, <2>1, <2>2, <2>4, <2>5 DEF ActiveInv
<1> QED
  BY <1>1, <1>3, <1>4, <1>5 DEF BindingStep

(* A job that stays is still sound. *)
LEMMA JobKept ==
  ASSUME IInv, TypeOK', Moves, NEW k \in Chats, NEW i \in DOMAIN work'[k], NEW j \in DOMAIN work[k],
         work'[k][i] = work[k][j]
  PROVE  JobInv(k, work[k][i])'
<1>1. PICK job : job = work[k][j]
  OBVIOUS
<1>2. JobInv(k, job)
  BY <1>1 DEF IInv, ChainInv
<1>3. JobInv(k, job)'
  <2>1. CASE job.at \in {"inbound", "enabling", "pump"}
    BY <1>2, <2>1 DEF JobInv, Preparation
  <2>2. CASE job.at \notin {"inbound", "enabling", "pump"}
    <3>1. PICK r : r = job.r
      OBVIOUS
    <3>2. r \in Requests /\ request[r].chat = k /\ request[r].status # "absent"
      BY <1>2, <2>2, <3>1 DEF JobInv
    <3>3. StatusStep(r) /\ DeliveryStep(r) /\ RunStep(r) /\ RowInv(r) /\ ActiveInv(k)
      BY <3>2 DEF IInv, Moves
    <3>4. request'[r].chat = k /\ request'[r].status # "absent"
      BY <3>2, <3>3 DEF StatusStep
    <3>5. ASSUME job.at \in Preparation PROVE run'[r].state = "none"
      <4>1. run[r].state = "none"
        BY <1>2, <3>1, <3>5 DEF JobInv
      <4>2. ~NoneAt(Preparation, r)
        BY <1>1, <3>1, <3>5 DEF NoneAt
      <4> QED
        BY <3>3, <4>1, <4>2 DEF RunStep
    <3>6. ASSUME job.at = "identity"
          PROVE  request'[r].status \in {"queued", "canceled"} /\ request'[r].delivery = "none"
      <4>1. request[r].status \in {"queued", "canceled"} /\ request[r].delivery = "none" /\ run[r].state = "none"
        BY <1>2, <3>1, <3>6 DEF JobInv, Preparation
      <4>2. ~NoneAt({"identity"}, r)
        BY <1>1, <3>1, <3>6 DEF NoneAt
      <4>3. ~IsActive(r)
        <5>1. phase = "up"
          <6>1. work[k] # <<>> /\ phase \in {"down", "up"}
            BY TableTypes DEF IInv
          <6> QED
            BY <6>1 DEF IInv, DownInv
        <5>2. r # 0
          BY <3>2, RequestsAreNumbers
        <5>3. ASSUME binding[k].active = r PROVE request[r].status = "canceled" /\ run[r].state \in OverRun
          <6>1. request[r].status \in {"active", "canceled"}
            BY <3>3, <5>2, <5>3 DEF ActiveInv
          <6> QED
            BY <3>3, <4>1, <5>1, <5>2, <5>3, <6>1 DEF ActiveInv
        <5> QED
          BY <3>2, <4>1, <5>3 DEF IsActive, OverRun
      <4> QED
        BY <3>3, <4>1, <4>2, <4>3 DEF StatusStep, DeliveryStep, Queues, Begins, Ends
    <3>7. ASSUME job.at \in {"deliver", "failed", "canceled"} PROVE run'[r].state \in OverRun
      <4>1. run[r].state \in OverRun
        BY <1>2, <3>1, <3>7 DEF JobInv
      <4> QED
        BY <3>3, <4>1 DEF RunStep, OverRun
    <3>8. job.at \in {"inbound", "correcting", "enabling"} => job.m \in Messages /\ k \in Identities[job.m.chat]
      BY <1>2 DEF JobInv
    <3> QED
      BY <3>1, <3>2, <3>4, <3>5, <3>6, <3>7, <3>8 DEF JobInv
  <2> QED
    BY <2>1, <2>2
<1> QED
  BY <1>1, <1>3 DEF JobInv

(* What is known of the jobs of a chain survives a step. *)
LEMMA ChainKept ==
  ASSUME IInv, TypeOK', Moves, NEW k \in Chats
  PROVE  ChainInv(k)'
<1>1. SUFFICES ASSUME NEW i \in DOMAIN work'[k]
               PROVE  JobInv(k, work[k][i])' /\ (i # 1 => work'[k][i].at \in Chained)
  BY DEF ChainInv
<1>2. CASE \E j \in DOMAIN work[k] : work'[k][i] = work[k][j] /\ (j = 1 => i = 1)
  <2>1. PICK j \in DOMAIN work[k] : work'[k][i] = work[k][j] /\ (j = 1 => i = 1)
    BY <1>2
  <2>2. j # 1 => work[k][j].at \in Chained
    BY DEF IInv, ChainInv
  <2> QED
    BY <2>1, <2>2, JobKept
<1>3. CASE JobInv(k, work[k][i])' /\ NewJob(k, work'[k][i]) /\ (i # 1 => work'[k][i].at \in Chained)
  BY <1>3
<1> QED
  BY <1>2, <1>3 DEF Moves, ChainStep

(* A live run stays attended: who lets go of it has called its cancellation. *)
LEMMA AttendedKept ==
  ASSUME IInv, TypeOK', Moves
  PROVE  NoStrayRun'
<1> SUFFICES ASSUME NEW r \in Requests, run'[r].state = "live"
             PROVE  \/ binding'[request'[r].chat].active = r
                    \/ r \in cancels'
                    \/ request'[r].status \in {"interrupted", "dismissed"}
  BY DEF NoStrayRun
<1> DEFINE k == request[r].chat
<1>1. /\ k \in Chats /\ r # 0 /\ run[r] \in RunRow
      /\ binding[k] \in BindingRow
  BY TableTypes, Columns, RequestsAreNumbers DEF IInv
<1>2. StatusStep(r) /\ RunStep(r) /\ RowInv(r) /\ ActiveInv(k) /\ BindingStep(k)
  BY <1>1 DEF IInv, Moves
<1>3. CASE run[r].state = "live"
  <2>1. request[r].status # "absent"
    BY <1>2, <1>3 DEF RowInv
  <2>2. request'[r].chat = k
    BY <1>2, <2>1 DEF StatusStep
  <2>3. CASE binding[k].active = r
    <3>1. CASE binding'[k] = [binding[k] EXCEPT !.version = binding'[k].version]
      <4>1. binding'[k].active = r
        BY <1>1, <2>3, <3>1 DEF BindingRow
      <4> QED
        BY <2>2, <4>1
    <3>2. CASE LetsGo(r)
      BY <3>2 DEF LetsGo
    <3> QED
      BY <1>1, <1>2, <2>3, <3>1, <3>2 DEF BindingStep
  <2>4. CASE r \in cancels
    BY <2>4 DEF Moves, CancelStep
  <2>5. CASE request[r].status \in {"interrupted", "dismissed"}
    <3>1. ~IsActive(r)
      BY <1>1, <1>2, <2>5 DEF ActiveInv, IsActive
    <3> QED
      BY <1>2, <2>5, <3>1 DEF StatusStep, Queues, Begins, Ends
  <2> QED
    BY <1>3, <2>3, <2>4, <2>5 DEF IInv, NoStrayRun
<1>4. CASE run[r].state # "live"
  <2>1. /\ IsActive(r)
        /\ binding'[k].active = r \/ request'[r].status = "interrupted"
    BY <1>2, <1>4 DEF RunStep, OverRun
  <2>2. request[r].status # "absent"
    BY <1>1, <1>2, <2>1 DEF ActiveInv, IsActive
  <2>3. request'[r].chat = k
    BY <1>2, <2>2 DEF StatusStep
  <2> QED
    BY <2>1, <2>3
<1> QED
  BY <1>3, <1>4

-----------------------------------------------------------------------------
(***************************************************************************)
(* Parts of a step.                                                        *)
(***************************************************************************)

(* What a part of a step may rely on: rows have their types. *)
LEMMA Rows ==
  ASSUME IInv
  PROVE  /\ \A r \in Requests : request[r] \in RequestRow /\ request[r].chat \in Chats /\ run[r] \in RunRow
         /\ \A k \in Chats : binding[k] \in BindingRow /\ ActiveInv(k) /\ ChainInv(k)
         /\ \A r \in Requests : RowInv(r)
         /\ TypeOK
BY TableTypes, Columns DEF IInv

(* No request moves. *)
LEMMA RowsStay ==
  ASSUME request' = request, NEW r \in Requests
  PROVE  StatusStep(r) /\ DeliveryStep(r)
BY DEF StatusStep, DeliveryStep

(* No run moves. *)
LEMMA RunsStay ==
  ASSUME run' = run, NEW r \in Requests
  PROVE  RunStep(r)
BY DEF RunStep

(* What is active was not replaced. *)
LEMMA ActiveIsCurrent ==
  ASSUME IInv, NEW k \in Chats, binding[k].active # 0
  PROVE  /\ binding[k].active \in Requests
         /\ binding[k].active \notin obsolete
         /\ request[binding[k].active].chat = k
         /\ request[binding[k].active].status # "absent"
         /\ binding[k].enabled
<1>1. binding[k] \in BindingRow /\ ActiveInv(k)
  BY Rows
<1> QED
  BY <1>1, Columns, RequestsAreNumbers DEF ActiveInv

(* Nothing but a name changes in a chat, nor does what is active in it. *)
LEMMA BindingStays ==
  ASSUME IInv, NEW k \in Chats,
         binding'[k] = [binding[k] EXCEPT !.version = binding'[k].version],
         binding[k].active # 0 =>
           /\ request'[binding[k].active] = request[binding[k].active]
           /\ turn'[binding[k].active] = turn[binding[k].active]
           /\ binding[k].active \notin obsolete',
         phase' = phase
  PROVE  BindingStep(k)
<1>1. binding[k].active # 0 => Stays(binding[k].active)
  BY DEF Stays
<1> QED
  BY <1>1 DEF BindingStep

(* A step that leaves the tables alone leaves every chat as it is. *)
LEMMA BindingsStay ==
  ASSUME IInv, NEW k \in Chats, UNCHANGED <<binding, request, turn, phase, obsolete>>
  PROVE  BindingStep(k)
<1>1. binding[k] = [binding[k] EXCEPT !.version = binding[k].version]
  BY Rows DEF BindingRow
<1> QED
  BY <1>1, BindingStays, ActiveIsCurrent

(* The chains stay. *)
LEMMA ChainsStay ==
  ASSUME NEW k \in Chats, work'[k] = work[k]
  PROVE  ChainStep(k)
BY DEF ChainStep

(* pump(), at the end of a step. *)
LEMMA PumpChain ==
  ASSUME IInv, NEW k \in Chats, work[k] # <<>>, Pump(k),
         \A r \in Requests : request'[r].status = "queued" => run'[r].state = "none" /\ request'[r].delivery = "none"
  PROVE  /\ work' \in [Chats -> Seq(JobRow)]
         /\ \A c \in Chats : ChainStep(c)
<1>1. CASE Finish(k)
  BY <1>1, FinishSteps, Rows
<1>2. ASSUME NEW r \in Requests, request'[r].status = "queued", request'[r].chat = k, binding'[k].enabled,
             Proceed(k, Job("identity", r, NoMessage))
      PROVE  work' \in [Chats -> Seq(JobRow)] /\ \A c \in Chats : ChainStep(c)
  <2>1. PICK job : job = Job("identity", r, NoMessage)
    OBVIOUS
  <2>2. job \in JobRow /\ job.at = "identity" /\ job.r = r
    BY <2>1, JobFields, RequestsAreNumbers DEF Step
  <2>3. work' \in [Chats -> Seq(JobRow)] /\ work'[k][1] = job
        /\ (JobInv(k, work[k][1])' /\ NewJob(k, job) => \A c \in Chats : ChainStep(c))
    BY <1>2, <2>1, <2>2, ProceedSteps, Rows
  <2>4. JobInv(k, work[k][1])'
    BY <1>2, <2>2, <2>3 DEF JobInv, Preparation
  <2>5. NewJob(k, job)
    BY <1>2, <2>2 DEF NewJob
  <2> QED
    BY <2>3, <2>4, <2>5
<1> QED
  BY <1>1, <1>2, PumpSteps

(* Once the head of its chain is past a step, nothing has request r there. *)
LEMMA HeadLeaves ==
  ASSUME IInv, NEW k \in Chats, work[k] # <<>>,
         NEW r \in Requests, request[r].chat = k,
         NEW steps \in SUBSET Preparation,
         \/ Finish(k)
         \/ \E at \in Step, q \in Requests : Proceed(k, Job(at, q, NoMessage)) /\ (q # r \/ at \notin steps)
  PROVE  NoneAt(steps, r)
<1>1. SUFFICES ASSUME NEW c \in Chats, NEW i \in DOMAIN work'[c], work'[c][i].r = r, work'[c][i].at \in steps
               PROVE  FALSE
  BY DEF NoneAt
<1>2. ASSUME c # k PROVE FALSE
  <2>1. work'[c] = work[c]
    <3>1. CASE Finish(k)
      BY <1>2, <3>1, FinishSteps, Rows
    <3>2. ASSUME NEW at \in Step, NEW q \in Requests, Proceed(k, Job(at, q, NoMessage)) PROVE work'[c] = work[c]
      <4>1. PICK job : job = Job(at, q, NoMessage)
        OBVIOUS
      <4>2. job \in JobRow
        BY <4>1, JobFields, RequestsAreNumbers
      <4> QED
        BY <1>2, <3>2, <4>1, <4>2, ProceedSteps, Rows
    <3> QED
      BY <3>1, <3>2
  <2>2. JobInv(c, work[c][i])
    BY <1>1, <2>1, Rows DEF ChainInv
  <2>3. work[c][i].r = r /\ work[c][i].at \in Preparation
    BY <1>1, <2>1
  <2> QED
    BY <1>2, <2>2, <2>3 DEF JobInv, Preparation
<1>3. ASSUME c = k PROVE FALSE
  <2>1. CASE Finish(k)
    <3>1. i + 1 \in DOMAIN work[k] /\ i + 1 # 1 /\ work'[k][i] = work[k][i + 1]
      BY <1>1, <1>3, <2>1, FinishSteps, Rows
    <3>2. work[k][i + 1].at \in Chained
      BY <3>1, Rows DEF ChainInv
    <3> QED
      BY <1>1, <1>3, <3>1, <3>2, ChainedIsNotPreparation
  <2>2. ASSUME NEW at \in Step, NEW q \in Requests, Proceed(k, Job(at, q, NoMessage)), q # r \/ at \notin steps
        PROVE  FALSE
    <3>1. PICK job : job = Job(at, q, NoMessage)
      OBVIOUS
    <3>2. job \in JobRow /\ job.at = at /\ job.r = q
      BY <3>1, JobFields, RequestsAreNumbers
    <3>3. /\ work'[k][1] = job
          /\ DOMAIN work'[k] = DOMAIN work[k]
          /\ \A j \in DOMAIN work[k] : j # 1 => work'[k][j] = work[k][j]
      BY <2>2, <3>1, <3>2, ProceedSteps, Rows
    <3>4. CASE i = 1
      BY <1>1, <1>3, <2>2, <3>2, <3>3, <3>4
    <3>5. CASE i # 1
      <4>1. work[k][i].at \in Chained /\ work'[k][i] = work[k][i]
        BY <1>1, <1>3, <3>3, <3>5, Rows DEF ChainInv
      <4> QED
        BY <1>1, <1>3, <4>1, ChainedIsNotPreparation
    <3> QED
      BY <3>4, <3>5
  <2> QED
    BY <2>1, <2>2
<1> QED
  BY <1>2, <1>3

(* pump() does not take a request that is not queued. *)
LEMMA PumpLeaves ==
  ASSUME IInv, NEW k \in Chats, work[k] # <<>>, Pump(k),
         NEW r \in Requests, request[r].chat = k, request'[r].status # "queued",
         NEW steps \in SUBSET Preparation
  PROVE  NoneAt(steps, r)
<1>1. CASE Finish(k)
  BY <1>1, HeadLeaves
<1>2. ASSUME NEW q \in Requests, request'[q].status = "queued", Proceed(k, Job("identity", q, NoMessage))
      PROVE  NoneAt(steps, r)
  <2>1. q # r /\ "identity" \in Step
    BY <1>2 DEF Step
  <2> QED
    BY <1>2, <2>1, HeadLeaves
<1> QED
  BY <1>1, <1>2, PumpSteps

(* settleRequest, of a request that is active. *)
LEMMA SettleSteps ==
  ASSUME IInv, NEW r \in Requests, NEW row \in RequestRow, Settle(r, row),
         phase' = phase, obsolete' = obsolete,
         \A q \in Requests \ {r} : turn'[q] = turn[q],
         row.chat = request[r].chat, row.author = request[r].author, row.message = request[r].message,
         row.status \in {"completed", "failed", "canceled", "interrupted"},
         request[r].status = "active" \/ IsActive(r),
         \/ row.delivery = request[r].delivery
         \/ request[r].delivery = "none" /\ row.delivery = "pending" /\ row.status = "completed" /\ IsActive(r),
         IsActive(r) => run'[r].state # "live" \/ r \in cancels' \/ row.status = "interrupted"
  PROVE  /\ request' \in [Requests -> RequestRow] /\ binding' \in [Chats -> BindingRow]
         /\ request'[r] = row
         /\ \A q \in Requests \ {r} : request'[q] = request[q]
         /\ \A q \in Requests : StatusStep(q) /\ DeliveryStep(q)
         /\ \A k \in Chats : BindingStep(k)
         /\ binding'[request[r].chat].active # r
<1> DEFINE k == request[r].chat
<1>1. /\ request \in [Requests -> RequestRow] /\ binding \in [Chats -> BindingRow]
      /\ k \in Chats /\ ActiveInv(k) /\ r # 0
  BY TableTypes, Rows, RequestsAreNumbers DEF IInv
<1>2. request[r].status # "absent"
  <2>1. IsActive(r) => request[r].status # "absent"
    BY <1>1, ActiveIsCurrent DEF IsActive
  <2> QED
    BY <2>1
<1>3. /\ request' \in [Requests -> RequestRow]
      /\ request'[r] = row
      /\ \A q \in Requests \ {r} : request'[q] = request[q]
  BY <1>1 DEF Settle
<1>4. CASE IsActive(r)
  <2>1. binding[k].active = r /\ binding[k].revision = request[r].revision
    BY <1>1, <1>4 DEF IsActive, ActiveInv
  <2>2. binding' = [binding EXCEPT ![k].active = 0]
    BY <2>1 DEF Settle
  <2>3. /\ binding' \in [Chats -> BindingRow]
        /\ binding'[k].active = 0 /\ binding'[k].enabled = binding[k].enabled /\ binding'[k].bound = binding[k].bound
        /\ \A c \in Chats \ {k} : binding'[c] = binding[c]
    BY <1>1, <2>2, RequestsAreNumbers DEF BindingRow
  <2>4. StatusStep(r) /\ DeliveryStep(r)
    BY <1>1, <1>2, <1>3, <1>4, <2>3 DEF StatusStep, Ends, DeliveryStep
  <2>5. LetsGo(r)
    BY <1>3, <1>4 DEF LetsGo
  <2>6. BindingStep(k)
    BY <1>1, <2>1, <2>3, <2>5 DEF BindingStep, ActiveInv
  <2>7. ASSUME NEW c \in Chats, c # k PROVE BindingStep(c)
    <3>1. binding'[c] = [binding[c] EXCEPT !.version = binding'[c].version]
      BY <1>1, <2>3, <2>7 DEF BindingRow
    <3>2. binding[c].active # 0 =>
            /\ binding[c].active \in Requests /\ binding[c].active # r
            /\ binding[c].active \notin obsolete
      BY <2>7, ActiveIsCurrent
    <3> QED
      BY <1>3, <3>1, <3>2, BindingStays
  <2>8. \A q \in Requests \ {r} : StatusStep(q) /\ DeliveryStep(q)
    BY <1>3 DEF StatusStep, DeliveryStep
  <2> QED
    BY <1>1, <1>3, <2>3, <2>4, <2>6, <2>7, <2>8
<1>5. CASE ~IsActive(r)
  <2>1. binding' = binding
    <3>1. binding[k].active # r
      BY <1>5 DEF IsActive
    <3>2. binding' = [binding EXCEPT ![k].active = binding[k].active]
      BY <3>1 DEF Settle
    <3> QED
      BY <1>1, <3>2 DEF BindingRow
  <2>2. StatusStep(r) /\ DeliveryStep(r)
    BY <1>2, <1>3, <1>5, <2>1 DEF StatusStep, Ends, DeliveryStep, IsActive
  <2>3. ASSUME NEW c \in Chats PROVE BindingStep(c)
    <3>1. binding'[c] = [binding[c] EXCEPT !.version = binding'[c].version]
      BY <1>1, <2>1 DEF BindingRow
    <3>2. binding[c].active # 0 =>
            /\ binding[c].active \in Requests /\ binding[c].active # r
            /\ binding[c].active \notin obsolete
      BY <1>5, ActiveIsCurrent DEF IsActive
    <3> QED
      BY <1>3, <3>1, <3>2, BindingStays
  <2>4. \A q \in Requests \ {r} : StatusStep(q) /\ DeliveryStep(q)
    BY <1>3 DEF StatusStep, DeliveryStep
  <2> QED
    BY <1>1, <1>3, <1>5, <2>1, <2>2, <2>3, <2>4 DEF IsActive
<1> QED
  BY <1>4, <1>5

(* A request is closed, and no other. *)
LEMMA CloseSteps ==
  ASSUME IInv, NEW R \in SUBSET Requests, Close(R)
  PROVE  /\ turn' \in [Requests -> {"none", "active", "closed"}]
         /\ \A q \in Requests \ R : turn'[q] = turn[q]
BY TableTypes DEF IInv, Close

-----------------------------------------------------------------------------
(***************************************************************************)
(* The steps: messages.                                                    *)
(***************************************************************************)

(* A job at work. *)
LEMMA AtHead ==
  ASSUME IInv, NEW k \in Chats, NEW at, Head1(k, at)
  PROVE  /\ work[k] # <<>> /\ Head(work[k]) \in JobRow
         /\ Head(work[k]).at = at
         /\ JobInv(k, Head(work[k]))
         /\ phase = "up"
<1>1. work[k] # <<>> /\ Head(work[k]).at = at
  BY DEF Head1
<1>2. Head(work[k]) \in JobRow /\ JobInv(k, Head(work[k]))
  BY <1>1, HeadJob, Rows
<1>3. phase = "up"
  BY <1>1, TableTypes DEF IInv, DownInv
<1> QED
  BY <1>1, <1>2, <1>3

(* What a job holds. *)
LEMMA HeldJob ==
  ASSUME IInv, NEW k \in Chats, NEW at, Head1(k, at), at \notin {"inbound", "enabling", "pump"}
  PROVE  /\ Held(k) \in Requests /\ request[Held(k)].chat = k /\ request[Held(k)].status # "absent"
         /\ at \in Preparation => run[Held(k)].state = "none"
         /\ at = "identity" => request[Held(k)].status \in {"queued", "canceled"} /\ request[Held(k)].delivery = "none"
         /\ at \in {"deliver", "failed", "canceled"} => run[Held(k)].state \in OverRun
<1>1. JobInv(k, Head(work[k])) /\ Head(work[k]).at = at
  BY AtHead
<1> QED
  BY <1>1 DEF JobInv, Held

(* The message at the head of a chain came through an identity of its chat. *)
LEMMA InboundJob ==
  ASSUME IInv, NEW k \in Chats, NEW at \in {"inbound", "correcting", "enabling"}, Head1(k, at)
  PROVE  InboundMessage(k) \in Messages /\ k \in Identities[InboundMessage(k).chat]
<1>1. JobInv(k, Head(work[k])) /\ Head(work[k]).at = at
  BY AtHead
<1> QED
  BY <1>1 DEF JobInv, InboundMessage

(* An event is counted. *)
LEMMA SpendTypes ==
  ASSUME TypeOK, NEW kind, Spend(kind)
  PROVE  used' \in [Budget -> Nat]
<1>1. used \in [Budget -> Nat] /\ used' = [used EXCEPT ![kind] = used[kind] + 1]
  BY TableTypes DEF Spend
<1>2. CASE kind \in Budget
  BY <1>1, <1>2
<1>3. CASE kind \notin Budget
  BY <1>1, <1>3
<1> QED
  BY <1>2, <1>3

(* A step that touches neither a request nor a chat. *)
LEMMA Idle ==
  ASSUME IInv, UNCHANGED <<binding, request, turn, run, phase, obsolete>>,
         handled \subseteq handled', cancels \subseteq cancels',
         \A c \in Chats : ChainStep(c)
  PROVE  Moves
BY RowsStay, RunsStay, BindingsStay DEF Moves, CancelStep

(* handleInbound(): a message joins the chains of its identities. *)
LEMMA ReceiveMoves ==
  ASSUME IInv, NEW m \in Messages, Receive(m)
  PROVE  TypeOK' /\ Moves
<1>1. PICK k \in Identities[m.chat] : binding[k].bound /\ Enqueue(k, Job("inbound", 0, m))
  BY DEF Receive
<1>2. k \in Chats
  BY <1>1, ChannelAssumption DEF WellFormed
<1>3. PICK job : job = Job("inbound", 0, m)
  OBVIOUS
<1>4. job \in JobRow /\ job.at = "inbound" /\ job.m = m
  BY <1>3, JobFields, RequestsAreNumbers DEF Step
<1>5. /\ work' \in [Chats -> Seq(JobRow)]
      /\ \A c \in Chats : (\A i \in DOMAIN work'[c] : work'[c][i] = job => JobInv(c, work[c][i])') => ChainStep(c)
      /\ \A c \in Chats \ {k} : work'[c] = work[c]
  BY <1>1, <1>2, <1>3, <1>4, EnqueueSteps, Rows DEF Chained
<1>6. ASSUME NEW c \in Chats PROVE ChainStep(c)
  <2>1. CASE c = k
    <3>1. ASSUME NEW i \in DOMAIN work'[k], work'[k][i] = job PROVE JobInv(k, work[k][i])'
      BY <1>1, <1>4, <3>1 DEF JobInv, Preparation
    <3> QED
      BY <1>5, <2>1, <3>1
  <2>2. CASE c # k
    BY <1>5, <2>2, ChainsStay
  <2> QED
    BY <2>1, <2>2
<1>7. Moves
  BY <1>6, Idle DEF Receive, durable
<1>8. used' \in [Budget -> Nat]
  BY SpendTypes, Rows DEF Receive
<1> QED
  BY <1>5, <1>7, <1>8, TableTypes, Rows DEF Receive, durable, TypeOK

(* A message that is refused is marked, at most. *)
LEMMA RefuseMoves ==
  ASSUME IInv, NEW k \in Chats, Refuse(k)
  PROVE  TypeOK' /\ Moves
<1>1. Head1(k, "inbound") /\ Finish(k)
  BY DEF Refuse
<1>2. work[k] # <<>> /\ InboundMessage(k) \in Messages
  BY <1>1, AtHead, InboundJob
<1>3. work' \in [Chats -> Seq(JobRow)] /\ \A c \in Chats : ChainStep(c)
  BY <1>1, <1>2, FinishSteps, Rows
<1>4. handled' = handled \/ handled' = handled \cup {<<k, InboundMessage(k)>>}
  BY DEF Refuse
<1>5. Moves
  BY <1>3, <1>4, Idle DEF Refuse, jobFrame
<1>6. handled' \subseteq Chats \X Messages
  BY <1>2, <1>4, TableTypes, Rows
<1> QED
  BY <1>3, <1>5, <1>6, TableTypes, Rows DEF Refuse, jobFrame, TypeOK

(* queueRequest *)
LEMMA QueueSteps ==
  ASSUME IInv, NEW k \in Chats,
         (Head1(k, "inbound") /\ Fresh(k, InboundMessage(k))) \/ Head1(k, "correcting"),
         InboundMessage(k).author \in People \cup {Owner},
         QueueRequest(k, InboundMessage(k), request), UNCHANGED <<binding, turn, phase, obsolete>>
  PROVE  /\ request' \in [Requests -> RequestRow]
         /\ handled' \subseteq Chats \X Messages /\ handled \subseteq handled'
         /\ \A q \in Requests : StatusStep(q) /\ DeliveryStep(q)
         /\ \A c \in Chats : BindingStep(c)
         /\ (run' = run => \A q \in Requests : request'[q].status = "queued"
                                => run'[q].state = "none" /\ request'[q].delivery = "none")
<1> DEFINE m == InboundMessage(k)
<1>1. m \in Messages
  BY InboundJob
<1>2. PICK n \in Requests :
        /\ request[n].status = "absent"
        /\ request' = [request EXCEPT ![n] = [NoRequest EXCEPT !.chat = k, !.author = m.author, !.message = m,
                                                            !.status = "queued", !.revision = binding[k].revision]]
  BY DEF QueueRequest
<1>3. PICK row : row = [NoRequest EXCEPT !.chat = k, !.author = m.author, !.message = m,
                                         !.status = "queued", !.revision = binding[k].revision]
  OBVIOUS
<1>4. /\ row = [chat |-> k, author |-> m.author, message |-> m,
                status |-> "queued", delivery |-> "none", revision |-> binding[k].revision]
  BY <1>3 DEF NoRequest
<1>5. row \in RequestRow /\ row.status = "queued" /\ row.delivery = "none" /\ row.chat = k /\ row.message = m
  BY <1>1, <1>4, Rows, Columns DEF RequestRow, Status, DeliveryState
<1>6. /\ request' \in [Requests -> RequestRow]
      /\ request'[n] = row /\ \A q \in Requests \ {n} : request'[q] = request[q]
  BY <1>2, <1>3, <1>5, TableTypes, Rows
<1>7. handled' = handled \cup {<<k, m>>}
  BY DEF QueueRequest
<1>8. handled' \subseteq Chats \X Messages /\ handled \subseteq handled'
  BY <1>1, <1>7, TableTypes, Rows
<1>9. request[n].delivery = "none"
  BY <1>2, Rows DEF RowInv
<1>10. StatusStep(n) /\ DeliveryStep(n)
  BY <1>2, <1>5, <1>6, <1>7, <1>9 DEF StatusStep, Queues, DeliveryStep
<1>11. \A q \in Requests \ {n} : StatusStep(q) /\ DeliveryStep(q)
  BY <1>6 DEF StatusStep, DeliveryStep
<1>12. ASSUME NEW c \in Chats PROVE BindingStep(c)
  <2>1. binding'[c] = [binding[c] EXCEPT !.version = binding'[c].version]
    BY Rows DEF BindingRow
  <2>2. binding[c].active # 0 =>
          /\ binding[c].active \in Requests /\ binding[c].active # n
          /\ binding[c].active \notin obsolete
    BY <1>2, ActiveIsCurrent
  <2> QED
    BY <1>6, <2>1, <2>2, BindingStays
<1>13. ASSUME run' = run, NEW q \in Requests, request'[q].status = "queued"
       PROVE  run'[q].state = "none" /\ request'[q].delivery = "none"
  BY <1>2, <1>5, <1>6, <1>13, Rows DEF RowInv
<1> QED
  BY <1>6, <1>8, <1>10, <1>11, <1>12, <1>13

(* A task becomes a request and the chain goes on to pump(). *)
LEMMA AcceptTaskMoves ==
  ASSUME IInv, NEW k \in Chats, AcceptTask(k)
  PROVE  TypeOK' /\ Moves
<1>1. Head1(k, "inbound") /\ Fresh(k, InboundMessage(k))
  BY DEF AcceptTask
<1>2. work[k] # <<>> /\ InboundMessage(k) \in Messages
  BY <1>1, AtHead, InboundJob
<1>3. InboundMessage(k).author \in People \cup {Owner}
  BY <1>2, ChannelAssumption DEF WellFormed
<1>4. /\ QueueRequest(k, InboundMessage(k), request) /\ Pump(k)
      /\ UNCHANGED <<binding, turn, phase, obsolete>> /\ run' = run /\ cancels' = cancels
  BY DEF AcceptTask, jobFrame
<1>5. /\ request' \in [Requests -> RequestRow]
      /\ handled' \subseteq Chats \X Messages /\ handled \subseteq handled'
      /\ \A q \in Requests : StatusStep(q) /\ DeliveryStep(q)
      /\ \A c \in Chats : BindingStep(c)
      /\ \A q \in Requests : request'[q].status = "queued" => run'[q].state = "none" /\ request'[q].delivery = "none"
  BY <1>1, <1>3, <1>4, QueueSteps
<1>6. work' \in [Chats -> Seq(JobRow)] /\ \A c \in Chats : ChainStep(c)
  BY <1>2, <1>4, <1>5, PumpChain
<1>7. Moves
  BY <1>4, <1>5, <1>6, RunsStay DEF Moves, CancelStep
<1> QED
  BY <1>5, <1>6, <1>7, TableTypes, Rows DEF AcceptTask, jobFrame, TypeOK

(* The corrected run has been cancelled: the correction becomes a request. *)
LEMMA QueueCorrectionMoves ==
  ASSUME IInv, NEW k \in Chats, QueueCorrection(k)
  PROVE  TypeOK' /\ Moves
<1>1. Head1(k, "correcting")
  BY DEF QueueCorrection
<1>2. work[k] # <<>> /\ InboundMessage(k) \in Messages
  BY <1>1, AtHead, InboundJob
<1>3. InboundMessage(k).author \in People \cup {Owner}
  BY <1>2, ChannelAssumption DEF WellFormed
<1>4. /\ QueueRequest(k, InboundMessage(k), request) /\ Pump(k)
      /\ UNCHANGED <<binding, turn, phase, obsolete>> /\ run' = run /\ cancels' = cancels
  BY DEF QueueCorrection, jobFrame
<1>5. /\ request' \in [Requests -> RequestRow]
      /\ handled' \subseteq Chats \X Messages /\ handled \subseteq handled'
      /\ \A q \in Requests : StatusStep(q) /\ DeliveryStep(q)
      /\ \A c \in Chats : BindingStep(c)
      /\ \A q \in Requests : request'[q].status = "queued" => run'[q].state = "none" /\ request'[q].delivery = "none"
  BY <1>1, <1>3, <1>4, QueueSteps
<1>6. work' \in [Chats -> Seq(JobRow)] /\ \A c \in Chats : ChainStep(c)
  BY <1>2, <1>4, <1>5, PumpChain
<1>7. Moves
  BY <1>4, <1>5, <1>6, RunsStay DEF Moves, CancelStep
<1> QED
  BY <1>5, <1>6, <1>7, TableTypes, Rows DEF QueueCorrection, jobFrame, TypeOK

(* cancelUnlocked(), of an active request. *)
LEMMA RetireSteps ==
  ASSUME IInv, NEW r \in Requests, request[r].status = "active", RetireActive(r),
         phase' = phase, obsolete' = obsolete, run' = run
  PROVE  /\ request' \in [Requests -> RequestRow] /\ binding' \in [Chats -> BindingRow]
         /\ turn' \in [Requests -> {"none", "active", "closed"}]
         /\ cancels' \subseteq Requests /\ cancels \subseteq cancels'
         /\ request'[r].chat = request[r].chat /\ request'[r].status = "canceled"
         /\ \A q \in Requests : StatusStep(q) /\ DeliveryStep(q)
         /\ \A k \in Chats : BindingStep(k)
<1>1. PICK row : row = [request[r] EXCEPT !.status = "canceled"]
  OBVIOUS
<1>2. /\ row \in RequestRow /\ row.chat = request[r].chat /\ row.author = request[r].author
      /\ row.message = request[r].message /\ row.status = "canceled" /\ row.delivery = request[r].delivery
  BY <1>1, Rows DEF RequestRow, Status, Ended
<1>3. Settle(r, row) /\ Close({r}) /\ cancels' = cancels \cup Cancelable({r})
  BY <1>1 DEF RetireActive
<1>4. turn' \in [Requests -> {"none", "active", "closed"}] /\ \A q \in Requests \ {r} : turn'[q] = turn[q]
  BY <1>3, CloseSteps
<1>5. run'[r].state # "live" \/ r \in cancels'
  BY <1>3 DEF Cancelable
<1>6. /\ request' \in [Requests -> RequestRow] /\ binding' \in [Chats -> BindingRow]
      /\ request'[r] = row
      /\ \A q \in Requests : StatusStep(q) /\ DeliveryStep(q)
      /\ \A k \in Chats : BindingStep(k)
  BY <1>2, <1>3, <1>4, <1>5, SettleSteps
<1>7. cancels' \subseteq Requests /\ cancels \subseteq cancels'
  BY <1>3, TableTypes, Rows DEF Cancelable
<1> QED
  BY <1>2, <1>4, <1>6, <1>7

(* A correction first cancels the run it corrects. *)
LEMMA AcceptCorrectionMoves ==
  ASSUME IInv, NEW k \in Chats, AcceptCorrection(k)
  PROVE  TypeOK' /\ Moves
<1> DEFINE m == InboundMessage(k)
<1>1. Head1(k, "inbound") /\ m.kind = "correct" /\ \E known \in Lookups : Admitted(k, m, known)
  BY DEF AcceptCorrection
<1>2. PICK r \in Corrected(k, m) : RetireActive(r) /\ Proceed(k, Job("correcting", r, m))
  BY DEF AcceptCorrection
<1>3. work[k] # <<>> /\ m \in Messages /\ k \in Identities[m.chat]
  BY <1>1, AtHead, InboundJob
<1>4. r \in Requests /\ request[r].status = "active" /\ request[r].chat = k
  <2>1. \E q \in Corrected(k, m) : request[q].status = "active"
    BY <1>1 DEF Admitted
  <2>2. ASSUME NEW q \in Corrected(k, m) PROVE q \in Requests /\ request[q].chat = k /\ q = r
    <3>1. q \in Of(k) /\ r \in Of(k)
      BY <1>2 DEF Corrected
    <3>2. q = r
      <4>1. CASE m.target # 0
        BY <1>2, <2>2, <4>1 DEF Corrected
      <4>2. CASE m.target = 0
        <5>1. q <= r /\ r <= q
          BY <1>2, <2>2, <4>2 DEF Corrected
        <5>2. q \in Nat /\ r \in Nat
          BY <3>1, RequestsAreNumbers DEF Of
        <5> QED
          BY <5>1, <5>2
      <4> QED
        BY <4>1, <4>2
    <3> QED
      BY <3>1, <3>2 DEF Of
  <2> QED
    BY <1>2, <2>1, <2>2
<1>5. /\ phase' = phase /\ obsolete' = obsolete /\ run' = run /\ handled' = handled
  BY DEF AcceptCorrection, jobFrame
<1>6. /\ request' \in [Requests -> RequestRow] /\ binding' \in [Chats -> BindingRow]
      /\ turn' \in [Requests -> {"none", "active", "closed"}]
      /\ cancels' \subseteq Requests /\ cancels \subseteq cancels'
      /\ request'[r].chat = k /\ request'[r].status = "canceled"
      /\ \A q \in Requests : StatusStep(q) /\ DeliveryStep(q)
      /\ \A c \in Chats : BindingStep(c)
  BY <1>2, <1>4, <1>5, RetireSteps
<1>7. PICK job : job = Job("correcting", r, m)
  OBVIOUS
<1>8. job \in JobRow /\ job.at = "correcting" /\ job.r = r /\ job.m = m
  BY <1>3, <1>4, <1>7, JobFields, RequestsAreNumbers DEF Step
<1>9. /\ work' \in [Chats -> Seq(JobRow)] /\ work'[k][1] = job
      /\ JobInv(k, work[k][1])' /\ NewJob(k, job) => \A c \in Chats : ChainStep(c)
  BY <1>2, <1>3, <1>7, <1>8, ProceedSteps, Rows
<1>10. JobInv(k, work[k][1])' /\ NewJob(k, job)
  <2>1. JobInv(k, work[k][1])'
    BY <1>3, <1>4, <1>6, <1>8, <1>9 DEF JobInv, Preparation
  <2>2. Fresh(k, m)
    BY DEF AcceptCorrection
  <2>3. NewJob(k, job)
    BY <1>1, <1>5, <1>8, <2>2 DEF NewJob
  <2> QED
    BY <2>1, <2>3
<1>11. Moves
  BY <1>5, <1>6, <1>9, <1>10, RunsStay DEF Moves, CancelStep
<1>12. saving' \subseteq cancels'
  BY <1>6, TableTypes, Rows DEF AcceptCorrection, jobFrame
<1> QED
  BY <1>6, <1>9, <1>11, <1>12, TableTypes, Rows DEF AcceptCorrection, jobFrame, TypeOK

-----------------------------------------------------------------------------
(***************************************************************************)
(* The steps: ON and OFF.                                                  *)
(***************************************************************************)

(* store.setEnabled, of the row of a chat. *)
LEMMA SwitchRow ==
  ASSUME IInv, NEW k \in Chats, NEW on \in BOOLEAN, on => binding[k].bound
  PROVE  /\ Switch(k, on) \in [Chats -> BindingRow]
         /\ \A c \in Chats \ {k} : Switch(k, on)[c] = binding[c]
         /\ Switch(k, on)[k].enabled = on
         /\ Switch(k, on)[k].bound = binding[k].bound
         /\ \/ Switch(k, on)[k] = binding[k]
            \/ Switch(k, on)[k].active = 0
         /\ ~on \/ ~binding[k].enabled => Switch(k, on)[k].active = 0
<1>1. binding \in [Chats -> BindingRow] /\ binding[k] \in BindingRow
  BY TableTypes, Rows
<1>2. binding[k].enabled = FALSE => binding[k].active = 0
  BY ActiveIsCurrent
<1>3. CASE binding[k].enabled = on
  <2>1. Switch(k, on) = binding
    BY <1>3 DEF Switch
  <2> QED
    BY <1>1, <1>2, <1>3, <2>1
<1>4. CASE binding[k].enabled # on
  <2>1. PICK row : row = [binding[k] EXCEPT !.enabled = on, !.version = binding[k].version + 1,
                                            !.revision = binding[k].revision + 1, !.active = 0]
    OBVIOUS
  <2>2. row \in BindingRow /\ row.enabled = on /\ row.active = 0 /\ row.bound = binding[k].bound
    <3>1. PICK b \in BindingRow : b = binding[k]
      BY <1>1
    <3>2. b.version + 1 \in Nat /\ b.revision + 1 \in Nat /\ 0 \in 0..MaxRequests
      BY <3>1, Columns, RequestsAreNumbers
    <3>3. row = [b EXCEPT !.enabled = on, !.version = b.version + 1, !.revision = b.revision + 1, !.active = 0]
      BY <2>1, <3>1
    <3>4. row \in BindingRow
      BY <3>1, <3>2, <3>3 DEF BindingRow
    <3>5. row.enabled = on /\ row.active = 0 /\ row.bound = b.bound
      BY <3>1, <3>3 DEF BindingRow
    <3> QED
      BY <3>1, <3>4, <3>5
  <2>3. Switch(k, on) = [binding EXCEPT ![k] = row]
    BY <1>4, <2>1, Zenon DEF Switch
  <2> QED
    BY <1>1, <2>2, <2>3
<1> QED
  BY <1>3, <1>4

(* A chat is switched on: nothing is active in it. *)
LEMMA OnSteps ==
  ASSUME IInv, NEW k \in Chats, NEW on \in BOOLEAN, on => binding[k].bound,
         on \/ ~binding[k].enabled,
         binding' = Switch(k, on), UNCHANGED <<request, turn, phase, obsolete>>
  PROVE  /\ binding' \in [Chats -> BindingRow]
         /\ \A c \in Chats : BindingStep(c)
<1>1. /\ binding' \in [Chats -> BindingRow]
      /\ \A c \in Chats \ {k} : binding'[c] = binding[c]
      /\ binding'[k].enabled = on /\ binding'[k].bound = binding[k].bound
      /\ \/ binding'[k] = binding[k]
         \/ binding'[k].active = 0
      /\ ~on \/ ~binding[k].enabled => binding'[k].active = 0
  BY SwitchRow
<1>2. ASSUME NEW c \in Chats, binding'[c] = binding[c] PROVE BindingStep(c)
  <2>1. binding'[c] = [binding[c] EXCEPT !.version = binding'[c].version]
    BY <1>2, Rows DEF BindingRow
  <2> QED
    BY <2>1, BindingStays, ActiveIsCurrent
<1>3. ASSUME binding'[k] # binding[k] PROVE BindingStep(k)
  <2>1. ~binding[k].enabled \/ ~on
    <3>1. binding[k].enabled = on => binding' = binding
      BY DEF Switch
    <3> QED
      BY <1>3, <3>1
  <2>2. binding'[k].active = 0
    BY <1>1, <2>1
  <2>3. binding[k].active = 0
    BY <2>1, ActiveIsCurrent
  <2> QED
    BY <1>1, <2>2, <2>3 DEF BindingStep
<1> QED
  BY <1>1, <1>2, <1>3

(* OFF *)
LEMMA OffSteps ==
  ASSUME IInv, NEW k \in Chats, Off(k), phase' = phase, obsolete' = obsolete, run' = run
  PROVE  /\ request' \in [Requests -> RequestRow] /\ binding' \in [Chats -> BindingRow]
         /\ turn' \in [Requests -> {"none", "active", "closed"}]
         /\ cancels' \subseteq Requests /\ cancels \subseteq cancels'
         /\ \A q \in Requests : StatusStep(q) /\ DeliveryStep(q)
         /\ \A c \in Chats : BindingStep(c)
<1>1. PICK R : R = {binding[k].active} \ {0}
  OBVIOUS
<1>2. /\ R \subseteq Requests
      /\ \A r \in R : r = binding[k].active /\ request[r].chat = k /\ IsActive(r) /\ request[r].status # "absent"
  BY <1>1, ActiveIsCurrent DEF IsActive
<1>3. /\ binding' = Switch(k, FALSE) /\ request' = SetStatus(R, "canceled") /\ Close(R)
      /\ cancels' = cancels \cup Cancelable(R)
  BY <1>1 DEF Off
<1>4. /\ binding' \in [Chats -> BindingRow]
      /\ \A c \in Chats \ {k} : binding'[c] = binding[c]
      /\ ~binding'[k].enabled /\ binding'[k].active = 0
  BY <1>3, SwitchRow
<1>5. /\ request' \in [Requests -> RequestRow]
      /\ \A q \in Requests \ R : request'[q] = request[q]
      /\ \A q \in R : /\ request'[q].status = "canceled" /\ request'[q].chat = request[q].chat
                      /\ request'[q].author = request[q].author /\ request'[q].message = request[q].message
                      /\ request'[q].delivery = request[q].delivery
  <2>1. /\ request' = [q \in Requests |-> IF q \in R THEN [request[q] EXCEPT !.status = "canceled"] ELSE request[q]]
        /\ request \in [Requests -> RequestRow]
    BY <1>3, TableTypes, Rows DEF SetStatus
  <2>2. ASSUME NEW q \in Requests
        PROVE  LET row == [request[q] EXCEPT !.status = "canceled"]
               IN /\ row \in RequestRow
                  /\ row.status = "canceled" /\ row.chat = request[q].chat
                  /\ row.author = request[q].author /\ row.message = request[q].message
                  /\ row.delivery = request[q].delivery
    BY <2>1 DEF RequestRow, Status, Ended
  <2>3. \A q \in Requests : request'[q] \in RequestRow
    BY <2>1, <2>2
  <2>4. \A q \in R : request'[q] = [request[q] EXCEPT !.status = "canceled"]
    BY <1>2, <2>1
  <2>5. \A q \in Requests \ R : request'[q] = request[q]
    BY <2>1
  <2>6. request' \in [Requests -> RequestRow]
    BY <2>1, <2>3
  <2> QED
    BY <1>2, <2>2, <2>4, <2>5, <2>6
<1>6. turn' \in [Requests -> {"none", "active", "closed"}] /\ \A q \in Requests \ R : turn'[q] = turn[q]
  BY <1>2, <1>3, CloseSteps
<1>7. cancels' \subseteq Requests /\ cancels \subseteq cancels'
  BY <1>2, <1>3, TableTypes, Rows DEF Cancelable
<1>8. ASSUME NEW q \in Requests PROVE StatusStep(q) /\ DeliveryStep(q)
  <2>1. CASE q \notin R
    BY <1>5, <2>1 DEF StatusStep, DeliveryStep
  <2>2. CASE q \in R
    <3>1. binding'[request[q].chat].active # q
      BY <1>2, <1>4, <2>2, RequestsAreNumbers
    <3> QED
      BY <1>2, <1>5, <2>2, <3>1 DEF StatusStep, Ends, DeliveryStep
  <2> QED
    BY <2>1, <2>2
<1>9. ASSUME NEW c \in Chats PROVE BindingStep(c)
  <2>1. CASE c = k
    <3>1. binding[k].active # 0 => LetsGo(binding[k].active)
      <4>1. SUFFICES ASSUME binding[k].active # 0 PROVE LetsGo(binding[k].active)
        OBVIOUS
      <4>2. PICK a : a = binding[k].active
        OBVIOUS
      <4>3. a \in R /\ (run[a].state # "none" => a \in cancels')
        BY <1>1, <1>3, <4>1, <4>2 DEF Cancelable
      <4> QED
        BY <1>5, <4>2, <4>3 DEF LetsGo
    <3> QED
      BY <1>4, <2>1, <3>1 DEF BindingStep
  <2>2. CASE c # k
    <3>1. binding'[c] = [binding[c] EXCEPT !.version = binding'[c].version]
      BY <1>4, <2>2, Rows DEF BindingRow
    <3>2. binding[c].active # 0 => binding[c].active \in Requests \ R /\ binding[c].active \notin obsolete'
      BY <1>2, <2>2, ActiveIsCurrent
    <3> QED
      BY <1>5, <1>6, <3>1, <3>2, BindingStays
  <2> QED
    BY <2>1, <2>2
<1> QED
  BY <1>4, <1>5, <1>6, <1>7, <1>8, <1>9

(* OFF as a message. *)
LEMMA MessageOffMoves ==
  ASSUME IInv, NEW k \in Chats, MessageOff(k)
  PROVE  TypeOK' /\ Moves
<1>1. /\ Head1(k, "inbound") /\ Off(k) /\ Finish(k) /\ handled' = handled \cup {<<k, InboundMessage(k)>>}
      /\ phase' = phase /\ obsolete' = obsolete /\ run' = run
  BY DEF MessageOff, jobFrame
<1>2. work[k] # <<>> /\ InboundMessage(k) \in Messages
  BY <1>1, AtHead, InboundJob
<1>3. work' \in [Chats -> Seq(JobRow)] /\ \A c \in Chats : ChainStep(c)
  BY <1>1, <1>2, FinishSteps, Rows
<1>4. handled' \subseteq Chats \X Messages /\ handled \subseteq handled'
  BY <1>1, <1>2, TableTypes, Rows
<1>5. /\ request' \in [Requests -> RequestRow] /\ binding' \in [Chats -> BindingRow]
      /\ turn' \in [Requests -> {"none", "active", "closed"}]
      /\ cancels' \subseteq Requests /\ cancels \subseteq cancels'
      /\ \A q \in Requests : StatusStep(q) /\ DeliveryStep(q)
      /\ \A c \in Chats : BindingStep(c)
  BY <1>1, OffSteps
<1>6. Moves
  BY <1>1, <1>3, <1>4, <1>5, RunsStay DEF Moves, CancelStep
<1>7. saving' \subseteq cancels'
  BY <1>5, TableTypes, Rows DEF MessageOff, jobFrame
<1> QED
  BY <1>3, <1>4, <1>5, <1>6, <1>7, TableTypes, Rows DEF MessageOff, jobFrame, TypeOK

(* OFF in the settings, beside the chain. *)
LEMMA TurnOffMoves ==
  ASSUME IInv, NEW k \in Chats, TurnOff(k)
  PROVE  TypeOK' /\ Moves
<1>1. /\ Off(k) /\ phase' = phase /\ obsolete' = obsolete /\ run' = run /\ handled' = handled /\ work' = work
  BY DEF TurnOff, callFrame
<1>2. /\ request' \in [Requests -> RequestRow] /\ binding' \in [Chats -> BindingRow]
      /\ turn' \in [Requests -> {"none", "active", "closed"}]
      /\ cancels' \subseteq Requests /\ cancels \subseteq cancels'
      /\ \A q \in Requests : StatusStep(q) /\ DeliveryStep(q)
      /\ \A c \in Chats : BindingStep(c)
  BY <1>1, OffSteps
<1>3. Moves
  BY <1>1, <1>2, RunsStay, ChainsStay DEF Moves, CancelStep
<1>4. used' \in [Budget -> Nat]
  BY SpendTypes, Rows DEF TurnOff
<1>5. saving' \subseteq cancels'
  BY <1>2, TableTypes, Rows DEF TurnOff
<1> QED
  BY <1>2, <1>3, <1>4, <1>5, TableTypes, Rows DEF TurnOff, callFrame, TypeOK

(* ON as a message starts its identity lookup. *)
LEMMA BeginMessageOnMoves ==
  ASSUME IInv, NEW k \in Chats, BeginMessageOn(k)
  PROVE  TypeOK' /\ Moves
<1>1. PICK m : m = InboundMessage(k)
  OBVIOUS
<1>2. Head1(k, "inbound") /\ Proceed(k, Job("enabling", 0, m))
  BY <1>1 DEF BeginMessageOn
<1>3. work[k] # <<>> /\ m \in Messages /\ k \in Identities[m.chat]
  BY <1>1, <1>2, AtHead, InboundJob
<1>4. PICK job : job = Job("enabling", 0, m)
  OBVIOUS
<1>5. job \in JobRow /\ job.at = "enabling" /\ job.m = m
  BY <1>3, <1>4, JobFields, RequestsAreNumbers DEF Step
<1>6. /\ work' \in [Chats -> Seq(JobRow)] /\ work'[k][1] = job
      /\ JobInv(k, work[k][1])' => \A c \in Chats : ChainStep(c)
  BY <1>2, <1>3, <1>4, <1>5, ProceedSteps, Rows
<1>7. JobInv(k, work[k][1])'
  BY <1>3, <1>5, <1>6 DEF JobInv, Preparation
<1>8. Moves
  BY <1>6, <1>7, Idle DEF BeginMessageOn, jobFrame, durable
<1> QED
  BY <1>6, <1>8, TableTypes, Rows DEF BeginMessageOn, jobFrame, durable, TypeOK

(* ON as a message, after the lookup. *)
LEMMA FinishMessageOnMoves ==
  ASSUME IInv, NEW k \in Chats, FinishMessageOn(k)
  PROVE  TypeOK' /\ Moves
<1>1. /\ Head1(k, "enabling") /\ Finish(k)
      /\ UNCHANGED <<request, turn, cancels, phase, obsolete>> /\ run' = run
  BY DEF FinishMessageOn, jobFrame
<1>2. work[k] # <<>> /\ InboundMessage(k) \in Messages
  BY <1>1, AtHead, InboundJob
<1>3. work' \in [Chats -> Seq(JobRow)] /\ \A c \in Chats : ChainStep(c)
  BY <1>1, <1>2, FinishSteps, Rows
<1>4. handled' = handled \/ handled' = handled \cup {<<k, InboundMessage(k)>>}
  BY DEF FinishMessageOn
<1>5. handled' \subseteq Chats \X Messages /\ handled \subseteq handled'
  BY <1>2, <1>4, TableTypes, Rows
<1>6. binding' \in [Chats -> BindingRow] /\ \A c \in Chats : BindingStep(c)
  <2>1. CASE binding' = binding
    BY <1>1, <2>1, BindingsStay, TableTypes, Rows
  <2>2. CASE binding' = Switch(k, binding[k].bound)
    <3>1. PICK on : on = binding[k].bound
      OBVIOUS
    <3>2. on \in BOOLEAN /\ (binding[k].enabled => binding[k].bound)
      BY <3>1, Rows, Columns DEF ActiveInv
    <3> QED
      BY <1>1, <2>2, <3>1, <3>2, OnSteps
  <2> QED
    BY <2>1, <2>2 DEF FinishMessageOn
<1>7. Moves
  BY <1>1, <1>3, <1>5, <1>6, RowsStay, RunsStay DEF Moves, CancelStep
<1> QED
  BY <1>3, <1>5, <1>6, <1>7, TableTypes, Rows DEF FinishMessageOn, jobFrame, TypeOK

(* ON in the settings starts its identity lookup. *)
LEMMA BeginOnMoves ==
  ASSUME IInv, NEW k \in Chats, BeginOn(k)
  PROVE  TypeOK' /\ Moves
<1>1. Moves
  BY Idle, ChainsStay DEF BeginOn, callFrame
<1>2. used' \in [Budget -> Nat]
  BY SpendTypes, Rows DEF BeginOn
<1> QED
  BY <1>1, <1>2, TableTypes, Rows DEF BeginOn, callFrame, TypeOK

(* A pump is chained. *)
LEMMA PumpIsChained ==
  /\ PumpJob \in JobRow /\ PumpJob.at = "pump" /\ PumpJob.at \in Chained
  /\ \A k : JobInv(k, PumpJob) /\ JobInv(k, PumpJob)'
<1>1. PumpJob \in JobRow /\ PumpJob.at = "pump"
  BY RequestsAreNumbers DEF PumpJob, Job, JobRow, Step
<1> QED
  BY <1>1 DEF Chained, JobInv, Preparation

(* A pump() joins the end of a chain. *)
LEMMA EnqueuePump ==
  ASSUME IInv, NEW k \in Chats, Enqueue(k, PumpJob)
  PROVE  work' \in [Chats -> Seq(JobRow)] /\ \A c \in Chats : ChainStep(c)
<1>1. PICK job : job = PumpJob
  OBVIOUS
<1>2. job \in JobRow /\ job.at = "pump" /\ job.at \in Chained
  BY <1>1, PumpIsChained
<1>3. /\ work' \in [Chats -> Seq(JobRow)]
      /\ \A c \in Chats : (\A i \in DOMAIN work'[c] : work'[c][i] = job => JobInv(c, work[c][i])') => ChainStep(c)
  BY <1>1, <1>2, EnqueueSteps, Rows
<1>4. ASSUME NEW c \in Chats, NEW i \in DOMAIN work'[c], work'[c][i] = job PROVE JobInv(c, work[c][i])'
  BY <1>2, <1>4 DEF JobInv, Preparation
<1> QED
  BY <1>3, <1>4

(* ON in the settings, after the lookup. *)
LEMMA FinishOnMoves ==
  ASSUME IInv, NEW k \in Chats, FinishOn(k)
  PROVE  TypeOK' /\ Moves
<1>1. UNCHANGED <<request, turn, phase, obsolete, cancels, handled>> /\ run' = run
  BY TableTypes DEF FinishOn, callFrame
<1>2. \/ binding[k].bound /\ binding' = Switch(k, TRUE) /\ Enqueue(k, PumpJob) /\ due' = TRUE
      \/ UNCHANGED <<binding, work, due>>
  BY DEF FinishOn
<1>3. binding' \in [Chats -> BindingRow] /\ \A c \in Chats : BindingStep(c)
  BY <1>1, <1>2, BindingsStay, OnSteps, TableTypes, Rows
<1>4. work' \in [Chats -> Seq(JobRow)] /\ \A c \in Chats : ChainStep(c)
  BY <1>2, EnqueuePump, ChainsStay, TableTypes, Rows
<1>5. Moves
  BY <1>1, <1>3, <1>4, RowsStay, RunsStay DEF Moves, CancelStep
<1>6. due' \in BOOLEAN
  BY <1>2, TableTypes, Rows
<1> QED
  BY <1>3, <1>4, <1>5, <1>6, TableTypes, Rows DEF FinishOn, callFrame, TypeOK

-----------------------------------------------------------------------------
(***************************************************************************)
(* The steps: from the queue to a run.                                     *)
(***************************************************************************)

(* What is queued was not used, when no request moves. *)
LEMMA QueuedIsUnused ==
  ASSUME IInv, UNCHANGED <<request, run>>, NEW r \in Requests, request'[r].status = "queued"
  PROVE  run'[r].state = "none" /\ request'[r].delivery = "none"
BY Rows DEF RowInv

(* A job that is a pump() and nothing else. *)
LEMMA StartPumpMoves ==
  ASSUME IInv, NEW k \in Chats, StartPump(k)
  PROVE  TypeOK' /\ Moves
<1>1. /\ Head1(k, "pump") /\ Pump(k)
      /\ UNCHANGED <<binding, request, turn, run, phase, obsolete>> /\ handled' = handled /\ cancels' = cancels
  BY DEF StartPump, durable, jobFrame
<1>2. work' \in [Chats -> Seq(JobRow)] /\ \A c \in Chats : ChainStep(c)
  BY <1>1, AtHead, PumpChain, QueuedIsUnused
<1>3. Moves
  BY <1>1, <1>2, Idle
<1> QED
  BY <1>2, <1>3, TableTypes, Rows DEF StartPump, durable, jobFrame, TypeOK

(* The run of what was cancelled is over: pump() is next. *)
LEMMA RetiredMoves ==
  ASSUME IInv, NEW k \in Chats, Retired(k)
  PROVE  TypeOK' /\ Moves
<1>1. /\ Head1(k, "retiring") /\ Pump(k)
      /\ UNCHANGED <<binding, request, turn, run, phase, obsolete>> /\ handled' = handled /\ cancels' = cancels
  BY DEF Retired, durable, jobFrame
<1>2. work' \in [Chats -> Seq(JobRow)] /\ \A c \in Chats : ChainStep(c)
  BY <1>1, AtHead, PumpChain, QueuedIsUnused
<1>3. Moves
  BY <1>1, <1>2, Idle
<1> QED
  BY <1>2, <1>3, TableTypes, Rows DEF Retired, durable, jobFrame, TypeOK

(* A chat that is on has nothing active in it: the request is not. *)
LEMMA WaitingIsNotActive ==
  ASSUME IInv, NEW r \in Requests, request[r].status \in {"queued", "canceled"}, run[r].state = "none", phase = "up"
  PROVE  ~IsActive(r)
<1>1. request[r].chat \in Chats /\ r # 0
  BY Rows, RequestsAreNumbers
<1>2. ActiveInv(request[r].chat)
  BY <1>1, Rows
<1> QED
  BY <1>1, <1>2 DEF ActiveInv, IsActive, OverRun

(* The author is known: the request becomes active, or is refused. *)
LEMMA DispatchMoves ==
  ASSUME IInv, NEW k \in Chats, Dispatch(k)
  PROVE  TypeOK' /\ Moves
<1>1. PICK r : r = Held(k)
  OBVIOUS
<1>2. /\ Head1(k, "identity")
      /\ UNCHANGED <<handled, run, phase, cancels, enabling, saving, sending, due, used, crossed>>
  BY DEF Dispatch
<1>3. /\ r \in Requests /\ request[r].chat = k /\ run[r].state = "none"
      /\ request[r].status \in {"queued", "canceled"} /\ request[r].delivery = "none"
      /\ work[k] # <<>> /\ phase = "up"
  BY <1>1, <1>2, HeldJob, AtHead DEF Preparation
<1>4. ~IsActive(r)
  BY <1>3, WaitingIsNotActive
<1>5. /\ request \in [Requests -> RequestRow] /\ binding \in [Chats -> BindingRow]
      /\ turn \in [Requests -> {"none", "active", "closed"}] /\ obsolete \subseteq Requests
      /\ r # 0 /\ r \in 0..MaxRequests
  BY <1>3, TableTypes, Rows, RequestsAreNumbers
<1>6. CASE UNCHANGED <<binding, request, turn, obsolete>> /\ Finish(k)
  <2>1. work' \in [Chats -> Seq(JobRow)] /\ \A c \in Chats : ChainStep(c)
    BY <1>3, <1>6, FinishSteps, Rows
  <2>2. Moves
    BY <1>2, <1>6, <2>1, Idle
  <2> QED
    BY <1>2, <1>6, <2>1, <2>2, TableTypes, Rows DEF TypeOK
<1>7. ASSUME NEW known \in Lookups, CanInvoke(k, request[r].author, known), binding[k].enabled, binding[k].active = 0,
             binding' = [binding EXCEPT ![k].active = r, ![k].revision = @ + 1],
             request' = [request EXCEPT ![r].status = "active", ![r].revision = binding[k].revision + 1],
             turn' = [turn EXCEPT ![r] = "active"],
             obsolete' = obsolete \ {r},
             Proceed(k, Job("context", r, NoMessage))
      PROVE  TypeOK' /\ Moves
  <2>1. PICK b \in BindingRow : b = [binding[k] EXCEPT !.active = r, !.revision = @ + 1]
    <3>1. binding[k] \in BindingRow /\ binding[k].revision + 1 \in Nat
      BY Columns, Rows
    <3>2. [binding[k] EXCEPT !.active = r, !.revision = @ + 1] \in BindingRow
      BY <1>5, <3>1 DEF BindingRow
    <3> QED
      BY <3>2
  <2>2. /\ binding' \in [Chats -> BindingRow] /\ binding'[k] = b
        /\ \A c \in Chats \ {k} : binding'[c] = binding[c]
    BY <1>5, <1>7, <2>1
  <2>3. b.active = r
    BY <1>5, <2>1, Rows DEF BindingRow
  <2>4. PICK row : row = [request[r] EXCEPT !.status = "active", !.revision = binding[k].revision + 1]
    OBVIOUS
  <2>5. /\ row \in RequestRow /\ row.chat = k /\ row.author = request[r].author /\ row.message = request[r].message
        /\ row.delivery = "none" /\ row.status = "active" /\ row.revision = binding[k].revision + 1
    <3>1. binding[k].revision + 1 \in Nat
      BY Rows, Columns
    <3> QED
      BY <1>3, <2>4, <3>1, Rows DEF RequestRow, Status
  <2>6. /\ request' \in [Requests -> RequestRow] /\ request'[r] = row
        /\ \A q \in Requests \ {r} : request'[q] = request[q]
    BY <1>3, <1>5, <1>7, <2>4, <2>5
  <2>7. /\ turn' \in [Requests -> {"none", "active", "closed"}] /\ turn'[r] = "active"
        /\ \A q \in Requests \ {r} : turn'[q] = turn[q]
        /\ obsolete' \subseteq Requests /\ r \notin obsolete'
    BY <1>3, <1>5, <1>7
  <2>8. NoneAt({"identity"}, r)
    <3>1. "context" \in Step /\ "context" \notin {"identity"} /\ {"identity"} \in SUBSET Preparation
      BY DEF Step, Preparation
    <3> QED
      BY <1>3, <1>7, <3>1, HeadLeaves
  <2>9. Begins(r)
    BY <1>1, <1>2, <1>3, <1>4, <2>2, <2>3, <2>5, <2>6, <2>7, <2>8 DEF Begins
  <2>10. \A q \in Requests : StatusStep(q) /\ DeliveryStep(q)
    BY <1>3, <2>5, <2>6, <2>9 DEF StatusStep, DeliveryStep
  <2>11. BindingStep(k)
    <3>1. request[r].author = Owner \/ request[r].author \in binding[k].access
      BY <1>7 DEF CanInvoke
    <3> QED
      BY <1>3, <1>7, <2>1, <2>2, <2>5, <2>6, <2>9, <3>1 DEF BindingStep
  <2>12. ASSUME NEW c \in Chats, c # k PROVE BindingStep(c)
    <3>1. binding'[c] = [binding[c] EXCEPT !.version = binding'[c].version]
      BY <2>2, <2>12, Rows DEF BindingRow
    <3>2. binding[c].active # 0 =>
            /\ binding[c].active \in Requests /\ binding[c].active # r
            /\ binding[c].active \notin obsolete'
      BY <1>3, <1>7, <2>12, ActiveIsCurrent
    <3> QED
      BY <1>2, <2>6, <2>7, <3>1, <3>2, BindingStays
  <2>13. PICK job : job = Job("context", r, NoMessage)
    OBVIOUS
  <2>14. job \in JobRow /\ job.at = "context" /\ job.r = r
    BY <1>5, <2>13, JobFields DEF Step
  <2>15. /\ work' \in [Chats -> Seq(JobRow)] /\ work'[k][1] = job
         /\ JobInv(k, work[k][1])' => \A c \in Chats : ChainStep(c)
    BY <1>3, <1>7, <2>13, <2>14, ProceedSteps, Rows
  <2>16. JobInv(k, work[k][1])'
    BY <1>2, <1>3, <2>5, <2>6, <2>14, <2>15 DEF JobInv
  <2>17. Moves
    BY <1>2, <2>10, <2>11, <2>12, <2>15, <2>16, RunsStay DEF Moves, CancelStep
  <2> QED
    BY <1>2, <2>2, <2>6, <2>7, <2>15, <2>17, TableTypes, Rows DEF TypeOK
<1>8. ASSUME request' = SetStatus({r}, "canceled"), UNCHANGED <<binding, turn, obsolete>>, Pump(k)
      PROVE  TypeOK' /\ Moves
  <2>1. /\ request' \in [Requests -> RequestRow]
        /\ request'[r].status = "canceled" /\ request'[r].chat = k /\ request'[r].delivery = request[r].delivery
        /\ request'[r].author = request[r].author /\ request'[r].message = request[r].message
        /\ \A q \in Requests \ {r} : request'[q] = request[q]
    BY <1>3, <1>5, <1>8 DEF SetStatus, RequestRow, Status, Ended
  <2>2. \A q \in Requests : request'[q].status = "queued" => run'[q].state = "none" /\ request'[q].delivery = "none"
    BY <1>2, <2>1, Rows DEF RowInv
  <2>3. work' \in [Chats -> Seq(JobRow)] /\ \A c \in Chats : ChainStep(c)
    BY <1>3, <1>8, <2>2, PumpChain
  <2>4. NoneAt({"identity"}, r)
    <3>1. {"identity"} \in SUBSET Preparation
      BY DEF Preparation
    <3> QED
      BY <1>3, <1>8, <2>1, <3>1, PumpLeaves
  <2>5. \A q \in Requests : StatusStep(q) /\ DeliveryStep(q)
    BY <1>3, <2>1, <2>4 DEF StatusStep, Ends, DeliveryStep
  <2>6. ASSUME NEW c \in Chats PROVE BindingStep(c)
    <3>1. binding'[c] = [binding[c] EXCEPT !.version = binding'[c].version]
      BY <1>8, Rows DEF BindingRow
    <3>2. binding[c].active # 0 =>
            /\ binding[c].active \in Requests /\ binding[c].active # r
            /\ binding[c].active \notin obsolete'
      BY <1>4, <1>8, ActiveIsCurrent DEF IsActive
    <3> QED
      BY <1>2, <1>8, <2>1, <3>1, <3>2, BindingStays
  <2>7. Moves
    BY <1>2, <2>3, <2>5, <2>6, RunsStay DEF Moves, CancelStep
  <2> QED
    BY <1>2, <1>8, <2>1, <2>3, <2>7, TableTypes, Rows DEF TypeOK
<1>9. CASE ~binding[k].enabled \/ binding[k].active # 0
  BY <1>6, <1>9 DEF Dispatch
<1>10. CASE binding[k].enabled /\ binding[k].active = 0
  <2>1. PICK known \in Lookups :
          IF CanInvoke(k, request[r].author, known)
          THEN /\ binding' = [binding EXCEPT ![k].active = r, ![k].revision = @ + 1]
               /\ request' = [request EXCEPT ![r].status = "active", ![r].revision = binding[k].revision + 1]
               /\ turn' = [turn EXCEPT ![r] = "active"]
               /\ obsolete' = obsolete \ {r}
               /\ Proceed(k, Job("context", r, NoMessage))
          ELSE /\ request' = SetStatus({r}, "canceled")
               /\ UNCHANGED <<binding, turn, obsolete>>
               /\ Pump(k)
    BY <1>1, <1>10 DEF Dispatch
  <2> QED
    BY <1>7, <1>8, <1>10, <2>1
<1> QED
  BY <1>9, <1>10

(* The context is read: the admission comes next if the request is still active. *)
LEMMA ContextReadMoves ==
  ASSUME IInv, NEW k \in Chats, ContextRead(k)
  PROVE  TypeOK' /\ Moves
<1>1. PICK r : r = Held(k)
  OBVIOUS
<1>2. /\ Head1(k, "context")
      /\ UNCHANGED <<binding, request, turn, run, phase, obsolete>> /\ handled' = handled /\ cancels' = cancels
      /\ Proceed(k, Job("admission", r, NoMessage)) \/ Finish(k)
  BY <1>1 DEF ContextRead, durable, jobFrame
<1>3. /\ r \in Requests /\ request[r].chat = k /\ run[r].state = "none" /\ request[r].status # "absent"
      /\ work[k] # <<>>
  BY <1>1, <1>2, HeldJob, AtHead DEF Preparation
<1>4. CASE Finish(k)
  <2>1. work' \in [Chats -> Seq(JobRow)] /\ \A c \in Chats : ChainStep(c)
    BY <1>3, <1>4, FinishSteps, Rows
  <2> QED
    BY <1>2, <2>1, Idle, TableTypes, Rows DEF ContextRead, durable, jobFrame, TypeOK
<1>5. CASE Proceed(k, Job("admission", r, NoMessage))
  <2>1. PICK job : job = Job("admission", r, NoMessage)
    OBVIOUS
  <2>2. job \in JobRow /\ job.at = "admission" /\ job.r = r
    BY <1>3, <2>1, JobFields, RequestsAreNumbers DEF Step
  <2>3. /\ work' \in [Chats -> Seq(JobRow)] /\ work'[k][1] = job
        /\ JobInv(k, work[k][1])' => \A c \in Chats : ChainStep(c)
    BY <1>3, <1>5, <2>1, <2>2, ProceedSteps, Rows
  <2>4. JobInv(k, work[k][1])'
    BY <1>2, <1>3, <2>2, <2>3 DEF JobInv
  <2> QED
    BY <1>2, <2>3, <2>4, Idle, TableTypes, Rows DEF ContextRead, durable, jobFrame, TypeOK
<1> QED
  BY <1>2, <1>4, <1>5

(* The lock of a conversation was taken for the active request of a chat:    *)
(* its run starts.                                                           *)
LEMMA LaunchSteps ==
  ASSUME IInv, NEW k \in Chats, NEW r \in Requests, Head1(k, "admission"), Held(k) = r,
         Admissible(k, r), Launch(k, r)
  PROVE  /\ run' \in [Requests -> RunRow]
         /\ run[r].state = "none" /\ run'[r].state = "live"
         /\ \A q \in Requests \ {r} : run'[q] = run[q]
         /\ phase = "up" /\ IsActive(r)
<1>1. /\ request[r].chat = k /\ run[r].state = "none" /\ phase = "up"
  BY HeldJob, AtHead DEF Preparation
<1>2. binding[k].active = r
  BY DEF Admissible, Current, Reserved
<1>3. binding[k].conversation \in Nat
  BY Rows, Columns
<1>4. [state |-> "live", conversation |-> binding[k].conversation] \in RunRow
  BY <1>3 DEF RunRow
<1>5. /\ run' \in [Requests -> RunRow]
      /\ run'[r] = [state |-> "live", conversation |-> binding[k].conversation]
      /\ \A q \in Requests \ {r} : run'[q] = run[q]
  BY <1>4, TableTypes, Rows DEF Launch
<1> QED
  BY <1>1, <1>2, <1>5 DEF IsActive

(* The run of a request is admitted. *)
LEMMA AdmitRunMoves ==
  ASSUME IInv, NEW k \in Chats, AdmitRun(k)
  PROVE  TypeOK' /\ Moves
<1>1. PICK r : r = Held(k)
  OBVIOUS
<1>2. /\ Head1(k, "admission") /\ Admissible(k, r) /\ Launch(k, r) /\ Finish(k)
      /\ UNCHANGED <<binding, request, turn, phase, obsolete>> /\ handled' = handled /\ cancels' = cancels
  BY <1>1 DEF AdmitRun, admissionFrame
<1>3. r \in Requests /\ request[r].chat = k /\ work[k] # <<>>
  BY <1>1, <1>2, HeldJob, AtHead
<1>4. work' \in [Chats -> Seq(JobRow)] /\ \A c \in Chats : ChainStep(c)
  BY <1>2, <1>3, FinishSteps, Rows
<1>5. /\ run' \in [Requests -> RunRow]
      /\ run[r].state = "none" /\ run'[r].state = "live"
      /\ \A q \in Requests \ {r} : run'[q] = run[q]
      /\ phase = "up" /\ IsActive(r)
  BY <1>1, <1>2, <1>3, LaunchSteps
<1>6. NoneAt(Preparation, r)
  BY <1>2, <1>3, HeadLeaves
<1>7. \A q \in Requests : RunStep(q)
  BY <1>2, <1>5, <1>6 DEF RunStep, IsActive
<1>8. Moves
  BY <1>2, <1>4, <1>7, RowsStay, BindingsStay DEF Moves, CancelStep
<1> QED
  BY <1>4, <1>5, <1>8, TableTypes, Rows DEF AdmitRun, admissionFrame, TypeOK

(* A request is given up: it ends, and its chat goes on to the next one. *)
LEMMA GiveUpSteps ==
  ASSUME IInv, NEW k \in Chats, NEW r \in Requests, NEW s \in {"failed", "interrupted"},
         Head1(k, "admission"), Held(k) = r, GiveUp(k, s), phase' = phase, obsolete' = obsolete,
         run'[r].state = "live" => s = "interrupted",
         \A q \in Requests \ {r} : run'[q] = run[q]
  PROVE  /\ request' \in [Requests -> RequestRow] /\ binding' \in [Chats -> BindingRow]
         /\ turn' \in [Requests -> {"none", "active", "closed"}]
         /\ work' \in [Chats -> Seq(JobRow)]
         /\ \A q \in Requests : StatusStep(q) /\ DeliveryStep(q)
         /\ \A c \in Chats : BindingStep(c) /\ ChainStep(c)
         /\ IsActive(r) => request'[r].status = s /\ NoneAt(Preparation, r)
<1>1. request[r].chat = k /\ request[r].status # "absent" /\ work[k] # <<>> /\ r # 0
  BY HeldJob, AtHead, RequestsAreNumbers
<1>2. CASE binding[k].active = r
  <2>1. IsActive(r)
    BY <1>1, <1>2 DEF IsActive
  <2>2. PICK row : row = [request[r] EXCEPT !.status = s]
    OBVIOUS
  <2>3. /\ row \in RequestRow /\ row.chat = request[r].chat /\ row.author = request[r].author
        /\ row.message = request[r].message /\ row.status = s /\ row.delivery = request[r].delivery
    BY <2>2, Rows DEF RequestRow, Status, Ended
  <2>4. Settle(r, row) /\ Close({r}) /\ Pump(k)
    BY <1>2, <2>2 DEF GiveUp
  <2>5. turn' \in [Requests -> {"none", "active", "closed"}] /\ \A q \in Requests \ {r} : turn'[q] = turn[q]
    BY <2>4, CloseSteps
  <2>6. /\ request' \in [Requests -> RequestRow] /\ binding' \in [Chats -> BindingRow]
        /\ request'[r] = row
        /\ \A q \in Requests \ {r} : request'[q] = request[q]
        /\ \A q \in Requests : StatusStep(q) /\ DeliveryStep(q)
        /\ \A c \in Chats : BindingStep(c)
    BY <2>1, <2>3, <2>4, <2>5, SettleSteps
  <2>7. \A q \in Requests : request'[q].status = "queued" => run'[q].state = "none" /\ request'[q].delivery = "none"
    BY <2>3, <2>6, Rows DEF RowInv
  <2>8. work' \in [Chats -> Seq(JobRow)] /\ \A c \in Chats : ChainStep(c)
    BY <1>1, <2>4, <2>7, PumpChain
  <2>9. NoneAt(Preparation, r)
    BY <1>1, <2>3, <2>4, <2>6, PumpLeaves
  <2> QED
    BY <2>3, <2>5, <2>6, <2>8, <2>9
<1>3. CASE binding[k].active # r
  <2>1. UNCHANGED <<binding, request, turn>> /\ Finish(k)
    BY <1>3 DEF GiveUp
  <2>2. work' \in [Chats -> Seq(JobRow)] /\ \A c \in Chats : ChainStep(c)
    BY <1>1, <2>1, FinishSteps, Rows
  <2> QED
    BY <1>1, <1>3, <2>1, <2>2, RowsStay, BindingsStay, TableTypes, Rows DEF IsActive
<1> QED
  BY <1>2, <1>3

(* The conversation refuses the run. *)
LEMMA RejectRunMoves ==
  ASSUME IInv, NEW k \in Chats, RejectRun(k)
  PROVE  TypeOK' /\ Moves
<1>1. PICK r : r = Held(k)
  OBVIOUS
<1>2. /\ Head1(k, "admission") /\ GiveUp(k, "failed") /\ run' = run
      /\ phase' = phase /\ obsolete' = obsolete /\ handled' = handled /\ cancels' = cancels
  BY DEF RejectRun, admissionFrame
<1>3. r \in Requests /\ run[r].state = "none"
  BY <1>1, <1>2, HeldJob DEF Preparation
<1>4. /\ request' \in [Requests -> RequestRow] /\ binding' \in [Chats -> BindingRow]
      /\ turn' \in [Requests -> {"none", "active", "closed"}]
      /\ work' \in [Chats -> Seq(JobRow)]
      /\ \A q \in Requests : StatusStep(q) /\ DeliveryStep(q)
      /\ \A c \in Chats : BindingStep(c) /\ ChainStep(c)
  BY <1>1, <1>2, <1>3, GiveUpSteps
<1>5. Moves
  BY <1>2, <1>4, RunsStay DEF Moves, CancelStep
<1> QED
  BY <1>4, <1>5, TableTypes, Rows DEF RejectRun, admissionFrame, TypeOK

(* Nobody knows whether the run was created: the request is given up. *)
LEMMA LoseAdmissionMoves ==
  ASSUME IInv, NEW k \in Chats, LoseAdmission(k)
  PROVE  TypeOK' /\ Moves
<1>1. PICK r : r = Held(k)
  OBVIOUS
<1>2. /\ Head1(k, "admission") /\ GiveUp(k, "interrupted")
      /\ phase' = phase /\ obsolete' = obsolete /\ handled' = handled /\ cancels' = cancels
      /\ (Admissible(k, r) /\ Launch(k, r)) \/ run' = run
  BY <1>1 DEF LoseAdmission, admissionFrame
<1>3. r \in Requests /\ run[r].state = "none"
  BY <1>1, <1>2, HeldJob DEF Preparation
<1>4. /\ run' \in [Requests -> RunRow]
      /\ \A q \in Requests \ {r} : run'[q] = run[q]
      /\ run' = run \/ (run[r].state = "none" /\ run'[r].state = "live" /\ phase = "up" /\ IsActive(r))
  BY <1>1, <1>2, <1>3, LaunchSteps, TableTypes, Rows
<1>5. /\ request' \in [Requests -> RequestRow] /\ binding' \in [Chats -> BindingRow]
      /\ turn' \in [Requests -> {"none", "active", "closed"}]
      /\ work' \in [Chats -> Seq(JobRow)]
      /\ \A q \in Requests : StatusStep(q) /\ DeliveryStep(q)
      /\ \A c \in Chats : BindingStep(c) /\ ChainStep(c)
      /\ IsActive(r) => request'[r].status = "interrupted" /\ NoneAt(Preparation, r)
  BY <1>1, <1>2, <1>3, <1>4, GiveUpSteps
<1>6. \A q \in Requests : RunStep(q)
  BY <1>4, <1>5 DEF RunStep
<1>7. Moves
  BY <1>2, <1>5, <1>6 DEF Moves, CancelStep
<1>8. used' \in [Budget -> Nat]
  BY SpendTypes, Rows DEF LoseAdmission
<1> QED
  BY <1>4, <1>5, <1>7, <1>8, TableTypes, Rows DEF LoseAdmission, admissionFrame, TypeOK

-----------------------------------------------------------------------------
(***************************************************************************)
(* The steps: the end of a run, and the owner's recoveries.                *)
(***************************************************************************)

(* A run ends, and its chain hears of it. *)
LEMMA RunEndsMoves ==
  ASSUME IInv, NEW r \in Requests, RunEnds(r)
  PROVE  TypeOK' /\ Moves
<1>1. PICK end \in DOMAIN EndJob : run' = [run EXCEPT ![r].state = end]
                                   /\ Enqueue(request[r].chat, Job(EndJob[end], r, NoMessage))
  BY DEF RunEnds
<1>2. DOMAIN EndJob = {"completed", "failed", "canceled"} /\ \A e \in DOMAIN EndJob : EndJob[e] \in {"deliver", "failed", "canceled"}
  BY DEF EndJob
<1>3. PICK k \in Chats : k = request[r].chat
  BY Rows
<1>4. PICK job : job = Job(EndJob[end], r, NoMessage)
  OBVIOUS
<1>5. job \in JobRow /\ job.at \in {"deliver", "failed", "canceled"} /\ job.r = r
  <2>1. EndJob[end] \in {"deliver", "failed", "canceled"}
    BY <1>2
  <2>2. EndJob[end] \in Step
    BY <2>1 DEF Step
  <2> QED
    BY <1>4, <2>1, <2>2, JobFields, RequestsAreNumbers
<1>6. run[r].state = "live" /\ request[r].status # "absent"
  BY Rows DEF RunEnds, RowInv
<1>7. /\ run' \in [Requests -> RunRow] /\ run'[r].state = end /\ end \in OverRun
      /\ \A q \in Requests \ {r} : run'[q] = run[q]
  <2>1. end \in {"completed", "failed", "canceled"}
    BY <1>2
  <2>2. [run[r] EXCEPT !.state = end] \in RunRow
    BY <2>1, Rows DEF RunRow
  <2> QED
    BY <1>1, <2>1, <2>2, TableTypes, Rows DEF RunRow, OverRun
<1>8. /\ UNCHANGED <<binding, request, turn, phase, obsolete>> /\ handled' = handled /\ cancels' = cancels
  BY DEF RunEnds
<1>9. /\ work' \in [Chats -> Seq(JobRow)]
      /\ \A c \in Chats : (\A i \in DOMAIN work'[c] : work'[c][i] = job => JobInv(c, work[c][i])') => ChainStep(c)
      /\ \A c \in Chats \ {k} : work'[c] = work[c]
  BY <1>1, <1>3, <1>4, <1>5, EnqueueSteps, Rows DEF Chained
<1>10. ASSUME NEW c \in Chats PROVE ChainStep(c)
  <2>1. CASE c = k
    <3>1. ASSUME NEW i \in DOMAIN work'[k], work'[k][i] = job PROVE JobInv(k, work[k][i])'
      BY <1>3, <1>5, <1>6, <1>7, <1>8, <3>1 DEF JobInv, Preparation
    <3> QED
      BY <1>9, <2>1, <3>1
  <2>2. CASE c # k
    BY <1>9, <2>2, ChainsStay
  <2> QED
    BY <2>1, <2>2
<1>11. \A q \in Requests : RunStep(q)
  BY <1>6, <1>7 DEF RunStep
<1>12. Moves
  BY <1>8, <1>10, <1>11, RowsStay, BindingsStay DEF Moves, CancelStep
<1> QED
  BY <1>7, <1>9, <1>12, TableTypes, Rows DEF RunEnds, TypeOK

(* A chain of one job, and two chains in a row. *)
LEMMA SingleJob ==
  /\ \A S : \A e \in S : <<e>> \in Seq(S) /\ <<>> \in Seq(S)
  /\ \A e : \A i \in DOMAIN <<e>> : <<e>>[i] = e
  /\ DOMAIN <<>> = {}
OBVIOUS

(* The jobs of a chain put behind another. *)
LEMMA JoinedJobs ==
  ASSUME NEW S, NEW s \in Seq(S), NEW t \in Seq(S)
  PROVE  /\ s \o t \in Seq(S)
         /\ \A i \in DOMAIN (s \o t) :
              \/ i \in DOMAIN s /\ (s \o t)[i] = s[i]
              \/ \E j \in DOMAIN t : (s \o t)[i] = t[j]
<1>1. s \o t \in Seq(S) /\ Len(s \o t) = Len(s) + Len(t)
  OBVIOUS
<1>2. ASSUME NEW i \in DOMAIN (s \o t), i \notin DOMAIN s PROVE \E j \in DOMAIN t : (s \o t)[i] = t[j]
  <2>1. i \in Nat /\ i > Len(s) /\ i <= Len(s) + Len(t)
    BY <1>1, <1>2
  <2>2. i - Len(s) \in 1..Len(t) /\ (s \o t)[i] = t[i - Len(s)]
    BY <2>1
  <2> QED
    BY <2>2
<1>3. ASSUME NEW i \in DOMAIN s PROVE (s \o t)[i] = s[i]
  OBVIOUS
<1> QED
  BY <1>1, <1>2, <1>3

(* The event of a cancelled run is chained, and then the pump of a save. *)
LEMMA CancelRunMoves ==
  ASSUME IInv, NEW r \in Requests, CancelRun(r)
  PROVE  TypeOK' /\ Moves
<1>1. PICK k \in Chats : k = request[r].chat
  BY Rows
<1>2. PICK event : event = IF run[r].state = "live" THEN <<Job("canceled", r, NoMessage)>> ELSE <<>>
  OBVIOUS
<1>3. PICK pump : /\ pump \in {<<>>, <<PumpJob>>}
                  /\ work' = [work EXCEPT ![k] = @ \o event \o pump]
  BY <1>1, <1>2 DEF CancelRun
<1>4. /\ UNCHANGED <<binding, request, turn, phase, obsolete>> /\ handled' = handled
      /\ cancels' = cancels \ {r} /\ saving' = saving \ {r}
      /\ run' = [run EXCEPT ![r].state = IF run[r].state = "live" THEN "canceled" ELSE run[r].state]
  BY DEF CancelRun
<1>5. /\ run' \in [Requests -> RunRow]
      /\ \A q \in Requests \ {r} : run'[q] = run[q]
      /\ run[r].state = "live" => run'[r].state = "canceled"
      /\ run[r].state # "live" => run'[r] = run[r]
  <2>1. PICK e \in RunRow : e = run[r]
    BY Rows
  <2>2. PICK s : s = IF e.state = "live" THEN "canceled" ELSE e.state
    OBVIOUS
  <2>3. s \in {"none", "live", "completed", "failed", "canceled", "lost"}
    BY <2>1, <2>2 DEF RunRow
  <2>4. [e EXCEPT !.state = s] \in RunRow /\ [e EXCEPT !.state = s].state = s
        /\ (e.state # "live" => [e EXCEPT !.state = s] = e)
    BY <2>1, <2>2, <2>3 DEF RunRow
  <2>5. /\ run' \in [Requests -> RunRow] /\ run'[r] = [e EXCEPT !.state = s]
        /\ \A q \in Requests \ {r} : run'[q] = run[q]
    BY <1>4, <2>1, <2>2, <2>4, TableTypes, Rows
  <2> QED
    BY <2>1, <2>2, <2>4, <2>5
<1>6. \A q \in Requests : RunStep(q)
  BY <1>5 DEF RunStep, OverRun
<1>7. PICK added \in Seq(JobRow) : added = event \o pump
  <2>1. PumpJob \in JobRow
    BY PumpIsChained
  <2>2. Job("canceled", r, NoMessage) \in JobRow
    BY JobFields, RequestsAreNumbers DEF Step
  <2>3. event \in Seq(JobRow) /\ pump \in Seq(JobRow)
    BY <1>2, <1>3, <2>1, <2>2, SingleJob
  <2>4. event \o pump \in Seq(JobRow)
    BY <2>3, JoinedJobs
  <2> QED
    BY <2>4
<1>8. \A i \in DOMAIN added : \/ added[i] = PumpJob
                              \/ run[r].state = "live" /\ added[i] = Job("canceled", r, NoMessage)
  <2>1. event \in Seq(JobRow) /\ pump \in Seq(JobRow)
    <3>1. PumpJob \in JobRow /\ Job("canceled", r, NoMessage) \in JobRow
      BY PumpIsChained, JobFields, RequestsAreNumbers DEF Step
    <3> QED
      BY <1>2, <1>3, <3>1, SingleJob
  <2>2. \A i \in DOMAIN event : run[r].state = "live" /\ event[i] = Job("canceled", r, NoMessage)
    BY <1>2, SingleJob
  <2>3. \A i \in DOMAIN pump : pump[i] = PumpJob
    BY <1>3, SingleJob
  <2>4. \A i \in DOMAIN added : (\E j \in DOMAIN event : added[i] = event[j]) \/ \E j \in DOMAIN pump : added[i] = pump[j]
    BY <1>7, <2>1, JoinedJobs
  <2> QED
    BY <2>2, <2>3, <2>4
<1>9. work[k] \in Seq(JobRow) /\ work \in [Chats -> Seq(JobRow)]
  BY TableTypes, Rows
<1>10. /\ work' \in [Chats -> Seq(JobRow)] /\ work'[k] = work[k] \o added
       /\ \A c \in Chats \ {k} : work'[c] = work[c]
  <2>1. (work[k] \o event) \o pump = work[k] \o added
    <3>1. event \in Seq(JobRow) /\ pump \in Seq(JobRow)
      <4>1. PumpJob \in JobRow /\ Job("canceled", r, NoMessage) \in JobRow
        BY PumpIsChained, JobFields, RequestsAreNumbers DEF Step
      <4> QED
        BY <1>2, <1>3, <4>1, SingleJob
    <3> QED
      BY <1>7, <1>9, <3>1
  <2>2. work[k] \o added \in Seq(JobRow)
    BY <1>9
  <2> QED
    BY <1>3, <1>9, <2>1, <2>2
<1>11. ASSUME NEW c \in Chats PROVE ChainStep(c)
  <2>1. CASE c # k
    BY <1>10, <2>1, ChainsStay
  <2>2. CASE c = k
    <3>1. SUFFICES ASSUME NEW i \in DOMAIN work'[k], i \notin DOMAIN work[k]
                   PROVE  JobInv(k, work[k][i])' /\ work'[k][i].at \in Chained
      <4>1. \A i \in DOMAIN work[k] : work'[k][i] = work[k][i]
        BY <1>9, <1>10
      <4> QED
        BY <2>2, <4>1, OtherJobs DEF ChainStep, Chained
    <3>2. PICK j \in DOMAIN added : work'[k][i] = added[j]
      <4>1. i \in Nat /\ i > Len(work[k]) /\ i <= Len(work[k]) + Len(added)
        BY <1>9, <1>10, <3>1
      <4>2. i - Len(work[k]) \in 1..Len(added) /\ work'[k][i] = added[i - Len(work[k])]
        BY <1>9, <1>10, <4>1
      <4> QED
        BY <4>2
    <3>3. CASE added[j] = PumpJob
      <4>1. work'[k][i].at = "pump"
        BY <3>2, <3>3, PumpIsChained
      <4> QED
        BY <4>1 DEF JobInv, Preparation, Chained
    <3>4. CASE run[r].state = "live" /\ added[j] = Job("canceled", r, NoMessage)
      <4>1. work'[k][i].at = "canceled" /\ work'[k][i].r = r
        BY <3>2, <3>4, JobFields, RequestsAreNumbers DEF Step
      <4>2. request[r].status # "absent"
        BY <3>4, Rows DEF RowInv
      <4> QED
        BY <1>1, <1>4, <1>5, <3>4, <4>1, <4>2 DEF JobInv, Preparation, Chained, OverRun
    <3> QED
      BY <1>8, <3>2, <3>3, <3>4
  <2> QED
    BY <2>1, <2>2
<1>12. CancelStep
  BY <1>4, <1>5 DEF CancelStep
<1>13. Moves
  BY <1>4, <1>6, <1>11, <1>12, RowsStay, BindingsStay DEF Moves
<1>14. saving' \subseteq cancels' /\ cancels' \subseteq Requests
  BY <1>4, TableTypes, Rows
<1> QED
  BY <1>5, <1>10, <1>13, <1>14, TableTypes, Rows DEF CancelRun, TypeOK

(* deliverCandidate(): the reply of an active request becomes pending. *)
LEMMA DeliverMoves ==
  ASSUME IInv, NEW k \in Chats, Deliver(k)
  PROVE  TypeOK' /\ Moves
<1>1. PICK r : r = Held(k)
  OBVIOUS
<1>2. /\ Head1(k, "deliver")
      /\ handled' = handled /\ cancels' = cancels
      /\ run' = run /\ phase' = phase /\ obsolete' = obsolete
  BY DEF Deliver, jobFrame
<1>3. /\ r \in Requests /\ request[r].chat = k /\ request[r].status # "absent" /\ run[r].state \in OverRun
      /\ work[k] # <<>> /\ r # 0
  BY <1>1, <1>2, HeldJob, AtHead, RequestsAreNumbers
<1>4. CASE request[r].delivery = "none" /\ Reserved(k, r) /\ binding[k].revision = request[r].revision
  <2>1. PICK row : row = [request[r] EXCEPT !.status = "completed", !.delivery = "pending"]
    OBVIOUS
  <2>2. /\ row \in RequestRow /\ row.chat = request[r].chat /\ row.author = request[r].author
        /\ row.message = request[r].message /\ row.status = "completed" /\ row.delivery = "pending"
    BY <1>3, <2>1, Rows DEF RequestRow, Status, Ended, DeliveryState
  <2>3. Settle(r, row) /\ Pump(k) /\ turn' = turn /\ due' = TRUE
    BY <1>1, <1>4, <2>1 DEF Deliver
  <2>4. IsActive(r) /\ run'[r].state # "live"
    BY <1>2, <1>3, <1>4 DEF Reserved, IsActive, OverRun
  <2>5. /\ request' \in [Requests -> RequestRow] /\ binding' \in [Chats -> BindingRow]
        /\ request'[r] = row
        /\ \A q \in Requests \ {r} : request'[q] = request[q]
        /\ \A q \in Requests : StatusStep(q) /\ DeliveryStep(q)
        /\ \A c \in Chats : BindingStep(c)
    BY <1>2, <1>3, <1>4, <2>2, <2>3, <2>4, SettleSteps
  <2>6. \A q \in Requests : request'[q].status = "queued" => run'[q].state = "none" /\ request'[q].delivery = "none"
    BY <1>2, <2>2, <2>5, Rows DEF RowInv
  <2>7. work' \in [Chats -> Seq(JobRow)] /\ \A c \in Chats : ChainStep(c)
    BY <1>3, <2>3, <2>6, PumpChain
  <2>8. Moves
    BY <1>2, <2>5, <2>7, RunsStay DEF Moves, CancelStep
  <2> QED
    BY <2>3, <2>5, <2>7, <2>8, TableTypes, Rows DEF Deliver, jobFrame, TypeOK
<1>5. CASE ~(request[r].delivery = "none" /\ Reserved(k, r) /\ binding[k].revision = request[r].revision)
  <2>1. UNCHANGED <<binding, request, turn, due>> /\ Finish(k)
    BY <1>1, <1>5 DEF Deliver
  <2>2. work' \in [Chats -> Seq(JobRow)] /\ \A c \in Chats : ChainStep(c)
    BY <1>3, <2>1, FinishSteps, Rows
  <2>3. Moves
    BY <1>2, <2>1, <2>2, Idle
  <2> QED
    BY <2>1, <2>2, <2>3, TableTypes, Rows DEF Deliver, jobFrame, TypeOK
<1> QED
  BY <1>4, <1>5

(* settleWithoutReply(): a run that failed or was canceled ends its request. *)
LEMMA SettleWithoutReplyMoves ==
  ASSUME IInv, NEW k \in Chats, SettleWithoutReply(k)
  PROVE  TypeOK' /\ Moves
<1>1. PICK r : r = Held(k)
  OBVIOUS
<1>2. PICK s \in {"failed", "canceled"} :
        /\ Head1(k, s)
        /\ IF binding[k].active = r
           THEN Settle(r, [request[r] EXCEPT !.status = s]) /\ Close({r}) /\ Pump(k)
           ELSE UNCHANGED <<binding, request, turn>> /\ Finish(k)
  BY <1>1 DEF SettleWithoutReply
<1>3. /\ handled' = handled /\ cancels' = cancels /\ due' = due
      /\ run' = run /\ phase' = phase /\ obsolete' = obsolete
  BY DEF SettleWithoutReply, jobFrame
<1>4. /\ r \in Requests /\ request[r].chat = k /\ request[r].status # "absent" /\ run[r].state \in OverRun
      /\ work[k] # <<>> /\ r # 0
  BY <1>1, <1>2, HeldJob, AtHead, RequestsAreNumbers
<1>5. CASE binding[k].active = r
  <2>1. PICK row : row = [request[r] EXCEPT !.status = s]
    OBVIOUS
  <2>2. /\ row \in RequestRow /\ row.chat = request[r].chat /\ row.author = request[r].author
        /\ row.message = request[r].message /\ row.status = s /\ row.delivery = request[r].delivery
    BY <1>4, <2>1, Rows DEF RequestRow, Status, Ended
  <2>3. Settle(r, row) /\ Close({r}) /\ Pump(k)
    BY <1>2, <1>5, <2>1
  <2>4. turn' \in [Requests -> {"none", "active", "closed"}] /\ \A q \in Requests \ {r} : turn'[q] = turn[q]
    BY <1>4, <2>3, CloseSteps
  <2>5. IsActive(r) /\ run'[r].state # "live"
    BY <1>3, <1>4, <1>5 DEF IsActive, OverRun
  <2>6. /\ request' \in [Requests -> RequestRow] /\ binding' \in [Chats -> BindingRow]
        /\ request'[r] = row
        /\ \A q \in Requests \ {r} : request'[q] = request[q]
        /\ \A q \in Requests : StatusStep(q) /\ DeliveryStep(q)
        /\ \A c \in Chats : BindingStep(c)
    BY <1>3, <1>4, <2>2, <2>3, <2>4, <2>5, SettleSteps
  <2>7. \A q \in Requests : request'[q].status = "queued" => run'[q].state = "none" /\ request'[q].delivery = "none"
    BY <1>2, <1>3, <2>2, <2>6, Rows DEF RowInv
  <2>8. work' \in [Chats -> Seq(JobRow)] /\ \A c \in Chats : ChainStep(c)
    BY <1>4, <2>3, <2>7, PumpChain
  <2>9. Moves
    BY <1>3, <2>6, <2>8, RunsStay DEF Moves, CancelStep
  <2> QED
    BY <1>3, <2>4, <2>6, <2>8, <2>9, TableTypes, Rows DEF SettleWithoutReply, jobFrame, TypeOK
<1>6. CASE binding[k].active # r
  <2>1. UNCHANGED <<binding, request, turn>> /\ Finish(k)
    BY <1>2, <1>6
  <2>2. work' \in [Chats -> Seq(JobRow)] /\ \A c \in Chats : ChainStep(c)
    BY <1>4, <2>1, FinishSteps, Rows
  <2>3. Moves
    BY <1>3, <2>1, <2>2, Idle
  <2> QED
    BY <1>3, <2>1, <2>2, <2>3, TableTypes, Rows DEF SettleWithoutReply, jobFrame, TypeOK
<1> QED
  BY <1>5, <1>6

(* cancelRequest(): the call of the owner joins the chain of the request. *)
LEMMA AskCancelMoves ==
  ASSUME IInv, NEW r \in Requests, AskCancel(r)
  PROVE  TypeOK' /\ Moves
<1>1. PICK k \in Chats : k = request[r].chat
  BY Rows
<1>2. PICK job : job = Job("retire", r, NoMessage)
  OBVIOUS
<1>3. job \in JobRow /\ job.at = "retire" /\ job.r = r
  BY <1>2, JobFields, RequestsAreNumbers DEF Step
<1>4. /\ UNCHANGED <<binding, request, turn, run, phase, obsolete>> /\ handled' = handled /\ cancels' = cancels
      /\ Enqueue(k, job) /\ request[r].status # "absent"
  BY <1>1, <1>2 DEF AskCancel, callFrame
<1>5. /\ work' \in [Chats -> Seq(JobRow)]
      /\ \A c \in Chats : (\A i \in DOMAIN work'[c] : work'[c][i] = job => JobInv(c, work[c][i])') => ChainStep(c)
      /\ \A c \in Chats \ {k} : work'[c] = work[c]
  BY <1>3, <1>4, EnqueueSteps, Rows DEF Chained
<1>6. ASSUME NEW c \in Chats PROVE ChainStep(c)
  <2>1. CASE c = k
    <3>1. ASSUME NEW i \in DOMAIN work'[k], work'[k][i] = job PROVE JobInv(k, work[k][i])'
      BY <1>1, <1>3, <1>4, <3>1 DEF JobInv, Preparation
    <3> QED
      BY <1>5, <2>1, <3>1
  <2>2. CASE c # k
    BY <1>5, <2>2, ChainsStay
  <2> QED
    BY <2>1, <2>2
<1>7. Moves
  BY <1>4, <1>6, Idle
<1>8. used' \in [Budget -> Nat]
  BY SpendTypes, Rows DEF AskCancel
<1> QED
  BY <1>5, <1>7, <1>8, TableTypes, Rows DEF AskCancel, callFrame, TypeOK

(* Its turn has come: a request that waits or is active is cancelled. *)
LEMMA RetireMoves ==
  ASSUME IInv, NEW k \in Chats, Retire(k)
  PROVE  TypeOK' /\ Moves
<1>1. PICK r : r = Held(k)
  OBVIOUS
<1>2. /\ Head1(k, "retire")
      /\ handled' = handled /\ due' = due
      /\ run' = run /\ phase' = phase /\ obsolete' = obsolete
  BY DEF Retire, jobFrame
<1>3. /\ r \in Requests /\ request[r].chat = k /\ request[r].status # "absent" /\ work[k] # <<>>
  BY <1>1, <1>2, HeldJob, AtHead
<1>4. CASE request[r].status = "active" /\ RetireActive(r) /\ Proceed(k, Job("retiring", r, NoMessage))
  <2>1. /\ request' \in [Requests -> RequestRow] /\ binding' \in [Chats -> BindingRow]
        /\ turn' \in [Requests -> {"none", "active", "closed"}]
        /\ cancels' \subseteq Requests /\ cancels \subseteq cancels'
        /\ request'[r].chat = k /\ request'[r].status = "canceled"
        /\ \A q \in Requests : StatusStep(q) /\ DeliveryStep(q)
        /\ \A c \in Chats : BindingStep(c)
    BY <1>2, <1>3, <1>4, RetireSteps
  <2>2. PICK job : job = Job("retiring", r, NoMessage)
    OBVIOUS
  <2>3. job \in JobRow /\ job.at = "retiring" /\ job.r = r
    BY <1>3, <2>2, JobFields, RequestsAreNumbers DEF Step
  <2>4. /\ work' \in [Chats -> Seq(JobRow)] /\ work'[k][1] = job
        /\ JobInv(k, work[k][1])' => \A c \in Chats : ChainStep(c)
    BY <1>3, <1>4, <2>2, <2>3, ProceedSteps, Rows
  <2>5. JobInv(k, work[k][1])'
    BY <1>3, <2>1, <2>3, <2>4 DEF JobInv, Preparation
  <2>6. Moves
    BY <1>2, <2>1, <2>4, <2>5, RunsStay DEF Moves, CancelStep
  <2>7. saving' \subseteq cancels'
    BY <2>1, TableTypes, Rows DEF Retire, jobFrame
  <2> QED
    BY <1>2, <2>1, <2>4, <2>6, <2>7, TableTypes, Rows DEF Retire, jobFrame, TypeOK
<1>5. CASE /\ request[r].status = "queued" /\ request' = SetStatus({r}, "canceled")
           /\ UNCHANGED <<binding, turn, cancels>> /\ Pump(k)
  <2>1. /\ request' \in [Requests -> RequestRow]
        /\ request'[r].status = "canceled" /\ request'[r].chat = k /\ request'[r].delivery = request[r].delivery
        /\ request'[r].author = request[r].author /\ request'[r].message = request[r].message
        /\ \A q \in Requests \ {r} : request'[q] = request[q]
    BY <1>3, <1>5, TableTypes, Rows DEF SetStatus, RequestRow, Status, Ended
  <2>2. \A q \in Requests : request'[q].status = "queued" => run'[q].state = "none" /\ request'[q].delivery = "none"
    BY <1>2, <2>1, Rows DEF RowInv
  <2>3. work' \in [Chats -> Seq(JobRow)] /\ \A c \in Chats : ChainStep(c)
    BY <1>3, <1>5, <2>2, PumpChain
  <2>4. NoneAt({"identity"}, r)
    <3>1. {"identity"} \in SUBSET Preparation
      BY DEF Preparation
    <3> QED
      BY <1>3, <1>5, <2>1, <3>1, PumpLeaves
  <2>5. \A q \in Requests : StatusStep(q) /\ DeliveryStep(q)
    BY <1>3, <1>5, <2>1, <2>4 DEF StatusStep, Ends, DeliveryStep
  <2>6. ASSUME NEW c \in Chats PROVE BindingStep(c)
    <3>1. binding'[c] = [binding[c] EXCEPT !.version = binding'[c].version]
      BY <1>5, Rows DEF BindingRow
    <3>2. binding[c].active # 0 =>
            /\ binding[c].active \in Requests /\ binding[c].active # r
            /\ binding[c].active \notin obsolete'
      BY <1>2, <1>5, ActiveIsCurrent, Rows DEF ActiveInv
    <3> QED
      BY <1>2, <1>5, <2>1, <3>1, <3>2, BindingStays
  <2>7. Moves
    BY <1>2, <1>5, <2>3, <2>5, <2>6, RunsStay DEF Moves, CancelStep
  <2> QED
    BY <1>2, <1>5, <2>1, <2>3, <2>7, TableTypes, Rows DEF Retire, jobFrame, TypeOK
<1>6. CASE UNCHANGED <<binding, request, turn, cancels>> /\ Finish(k)
  <2>1. work' \in [Chats -> Seq(JobRow)] /\ \A c \in Chats : ChainStep(c)
    BY <1>3, <1>6, FinishSteps, Rows
  <2>2. Moves
    BY <1>2, <1>6, <2>1, Idle
  <2> QED
    BY <1>2, <1>6, <2>1, <2>2, TableTypes, Rows DEF Retire, jobFrame, TypeOK
<1> QED
  BY <1>1, <1>4, <1>5, <1>6 DEF Retire

(* One column of a request is written, and no chat is. *)
LEMMA RequestWritten ==
  ASSUME IInv, NEW r \in Requests, UNCHANGED <<binding, turn, run, phase>>, handled' = handled, cancels' = cancels, work' = work,
         \A q \in Requests \ {r} : request'[q] = request[q],
         StatusStep(r), DeliveryStep(r), obsolete' \subseteq obsolete \cup {r},
         \/ request[r].status \notin {"active", "canceled"}
         \/ request[r].delivery # "none"
  PROVE  Moves
<1>1. ASSUME NEW c \in Chats PROVE BindingStep(c)
  <2>1. binding'[c] = [binding[c] EXCEPT !.version = binding'[c].version]
    BY Rows DEF BindingRow
  <2>2. binding[c].active # 0 =>
          /\ binding[c].active \in Requests /\ binding[c].active # r
          /\ binding[c].active \notin obsolete'
    BY ActiveIsCurrent, Rows DEF ActiveInv
  <2> QED
    BY <2>1, <2>2, BindingStays
<1>2. \A q \in Requests : StatusStep(q) /\ DeliveryStep(q)
  BY DEF StatusStep, DeliveryStep
<1> QED
  BY <1>1, <1>2, RunsStay, ChainsStay DEF Moves, CancelStep

(* The delivery column. *)
LEMMA DeliveryWritten ==
  ASSUME IInv, NEW r \in Requests, NEW state \in DeliveryState, request' = [request EXCEPT ![r].delivery = state]
  PROVE  /\ request' \in [Requests -> RequestRow]
         /\ request'[r].status = request[r].status /\ request'[r].chat = request[r].chat
         /\ request'[r].author = request[r].author /\ request'[r].message = request[r].message
         /\ request'[r].delivery = state
         /\ \A q \in Requests \ {r} : request'[q] = request[q]
<1>1. PICK row : row = [request[r] EXCEPT !.delivery = state]
  OBVIOUS
<1>2. /\ row \in RequestRow /\ row.chat = request[r].chat /\ row.author = request[r].author
      /\ row.message = request[r].message /\ row.status = request[r].status /\ row.delivery = state
  BY <1>1, Rows DEF RequestRow
<1>3. request' = [request EXCEPT ![r] = row]
  BY <1>1
<1> QED
  BY <1>2, <1>3, TableTypes, Rows

(* retryDelivery(): a failed reply is pending again. *)
LEMMA RetryDeliveryMoves ==
  ASSUME IInv, NEW r \in Requests, RetryDelivery(r)
  PROVE  TypeOK' /\ Moves
<1>1. "pending" \in DeliveryState /\ request' = [request EXCEPT ![r].delivery = "pending"]
  BY DEF RetryDelivery, DeliveryState
<1>2. /\ request' \in [Requests -> RequestRow]
      /\ request'[r].status = request[r].status /\ request'[r].chat = request[r].chat
      /\ request'[r].author = request[r].author /\ request'[r].message = request[r].message
      /\ request'[r].delivery = "pending"
      /\ \A q \in Requests \ {r} : request'[q] = request[q]
  BY <1>1, DeliveryWritten
<1>3. request[r].delivery = "failed" /\ request[r].status # "absent"
  BY Rows DEF RetryDelivery, RowInv
<1>4. StatusStep(r) /\ DeliveryStep(r)
  BY <1>2, <1>3 DEF StatusStep, DeliveryStep
<1>5. obsolete' = obsolete \ {r}
  BY DEF RetryDelivery
<1>6. Moves
  BY <1>2, <1>3, <1>4, <1>5, RequestWritten DEF RetryDelivery, callFrame
<1>7. used' \in [Budget -> Nat] /\ obsolete' \subseteq Requests /\ due' \in BOOLEAN
  BY <1>5, SpendTypes, TableTypes, Rows DEF RetryDelivery
<1> QED
  BY <1>2, <1>6, <1>7, TableTypes, Rows DEF RetryDelivery, callFrame, TypeOK

(* dismissRequest(): what ended badly is put away. *)
LEMMA DismissMoves ==
  ASSUME IInv, NEW r \in Requests, Dismiss(r)
  PROVE  TypeOK' /\ Moves
<1>1. PICK row : row = [request[r] EXCEPT !.status = "dismissed"]
  OBVIOUS
<1>2. /\ row \in RequestRow /\ row.chat = request[r].chat /\ row.author = request[r].author
      /\ row.message = request[r].message /\ row.status = "dismissed" /\ row.delivery = request[r].delivery
  BY <1>1, Rows DEF RequestRow, Status, Ended
<1>3. request' = [request EXCEPT ![r] = row]
  BY <1>1 DEF Dismiss
<1>4. /\ request' \in [Requests -> RequestRow] /\ request'[r] = row
      /\ \A q \in Requests \ {r} : request'[q] = request[q]
  BY <1>2, <1>3, TableTypes, Rows
<1>5. request[r].status = "interrupted" \/ request[r].delivery = "unknown"
  BY DEF Dismiss
<1>6. request[r].status # "absent"
  BY <1>5, Rows DEF RowInv
<1>7. StatusStep(r) /\ DeliveryStep(r)
  BY <1>2, <1>4, <1>5, <1>6 DEF StatusStep, Ends, DeliveryStep
<1>8. obsolete' = obsolete
  BY DEF Dismiss
<1>9. Moves
  BY <1>4, <1>5, <1>7, <1>8, RequestWritten DEF Dismiss, callFrame
<1>10. used' \in [Budget -> Nat]
  BY SpendTypes, Rows DEF Dismiss
<1> QED
  BY <1>4, <1>8, <1>9, <1>10, TableTypes, Rows DEF Dismiss, callFrame, TypeOK

-----------------------------------------------------------------------------
(***************************************************************************)
(* The steps: saving, removing and renaming.                               *)
(***************************************************************************)

(* A pending reply is withdrawn, and nothing else of the row is written. *)
LEMMA WithdrawnRow ==
  ASSUME NEW row \in RequestRow
  PROVE  /\ Withdraw(row) \in RequestRow
         /\ Withdraw(row).chat = row.chat /\ Withdraw(row).author = row.author
         /\ Withdraw(row).message = row.message /\ Withdraw(row).status = row.status
         /\ Withdraw(row).delivery = IF row.delivery = "pending" THEN "withdrawn" ELSE row.delivery
         /\ row.delivery # "pending" => Withdraw(row) = row
BY DEF Withdraw, RequestRow, DeliveryState

(* A row is cancelled. *)
LEMMA CanceledRow ==
  ASSUME NEW row \in RequestRow
  PROVE  LET gone == [row EXCEPT !.status = "canceled"]
         IN /\ gone \in RequestRow
            /\ gone.chat = row.chat /\ gone.author = row.author /\ gone.message = row.message
            /\ gone.status = "canceled" /\ gone.delivery = row.delivery
BY DEF RequestRow, Status, Ended

(* The configuration of chat k is replaced, and nothing is active in it. *)
LEMMA ReplacedSteps ==
  ASSUME IInv, NEW k \in Chats, NEW b \in BindingRow, binding' = [binding EXCEPT ![k] = b],
         b.active = 0, b.enabled => b.bound,
         \A q \in Requests \ Of(k) : request'[q] = request[q] /\ turn'[q] = turn[q],
         \A q \in Of(k) :
           /\ request'[q].chat = request[q].chat /\ request'[q].author = request[q].author
           /\ request'[q].message = request[q].message
           /\ \/ request'[q].delivery = request[q].delivery
              \/ request[q].delivery = "pending" /\ request'[q].delivery = "withdrawn"
           /\ \/ request'[q].status = request[q].status /\ request[q].status # "active"
              \/ request[q].status = "active" /\ request'[q].status = "canceled"
              \/ request[q].status = "queued" /\ request'[q].status = "canceled" /\ ~b.bound,
         cancels \subseteq cancels', Cancelable({binding[k].active} \ {0}) \subseteq cancels',
         run' = run, phase' = phase, handled' = handled, obsolete' \subseteq obsolete \cup Of(k),
         \A c \in Chats : ChainStep(c)
  PROVE  Moves
<1>1. binding'[k] = b /\ \A c \in Chats \ {k} : binding'[c] = binding[c]
  BY TableTypes, Rows
<1>2. \A q \in Of(k) : q \in Requests /\ request[q].chat = k /\ request[q].status # "absent" /\ q # 0
  BY RequestsAreNumbers DEF Of
<1>3. ASSUME NEW q \in Requests PROVE StatusStep(q) /\ DeliveryStep(q)
  <2>1. CASE q \notin Of(k)
    BY <2>1 DEF StatusStep, DeliveryStep
  <2>2. CASE q \in Of(k)
    <3>1. DeliveryStep(q)
      BY <2>2 DEF DeliveryStep
    <3>2. request'[q].status # "absent"
      BY <1>2, <2>2
    <3>3. binding'[request[q].chat].active # q /\ (~b.bound => ~binding'[request[q].chat].bound)
      BY <1>1, <1>2, <2>2
    <3>4. request'[q].status = request[q].status \/ Ends(q)
      BY <2>2, <3>3 DEF Ends
    <3> QED
      BY <1>2, <2>2, <3>1, <3>2, <3>4 DEF StatusStep
  <2> QED
    BY <2>1, <2>2
<1>4. ASSUME NEW c \in Chats PROVE BindingStep(c)
  <2>1. CASE c = k
    <3>1. SUFFICES ASSUME binding[k].active # 0 PROVE LetsGo(binding[k].active)
      BY <1>1, <2>1 DEF BindingStep
    <3>2. PICK a : a = binding[k].active
      OBVIOUS
    <3>3. a \in Requests /\ a \in Of(k)
      BY <3>1, <3>2, ActiveIsCurrent DEF Of
    <3>4. run[a].state # "live" \/ a \in cancels'
      BY <3>1, <3>2, <3>3 DEF Cancelable
    <3>5. request'[a].status # "active"
      BY <3>3
    <3> QED
      BY <3>2, <3>4, <3>5 DEF LetsGo
  <2>2. CASE c # k
    <3>1. binding'[c] = [binding[c] EXCEPT !.version = binding'[c].version]
      BY <1>1, <2>2, Rows DEF BindingRow
    <3>2. binding[c].active # 0 =>
            /\ binding[c].active \in Requests \ Of(k)
            /\ binding[c].active \notin obsolete'
      BY <1>2, <2>2, ActiveIsCurrent
    <3> QED
      BY <3>1, <3>2, BindingStays
  <2> QED
    BY <2>1, <2>2
<1> QED
  BY <1>3, <1>4, RunsStay DEF Moves, CancelStep

(* putBinding(): a chat is saved, and what was begun under its old form is let go. *)
LEMMA PutMoves ==
  ASSUME IInv, NEW k \in Chats, NEW on \in BOOLEAN, NEW access \in SUBSET People, Put(k, on, access)
  PROVE  TypeOK' /\ Moves
<1> DEFINE old == binding[k]
           b == IF old.bound THEN Row(TRUE, on, access, old.version + 1, old.revision + 1, old.conversation)
                             ELSE Row(TRUE, on, access, 1, 1, old.conversation + 1)
<1>1. b \in BindingRow /\ b.active = 0 /\ b.bound
  <2>1. old.version \in Nat /\ old.revision \in Nat /\ old.conversation \in Nat
    BY Rows, Columns
  <2> QED
    BY <2>1, RequestsAreNumbers DEF Row, BindingRow
<1>2. binding' = [binding EXCEPT ![k] = b]
  BY DEF Put
<1>3. binding' \in [Chats -> BindingRow]
  BY <1>1, <1>2, TableTypes, Rows
<1>4. ASSUME NEW q \in Requests
      PROVE  /\ request'[q] \in RequestRow
             /\ q \notin Of(k) => request'[q] = request[q]
             /\ request'[q].chat = request[q].chat /\ request'[q].author = request[q].author
             /\ request'[q].message = request[q].message
             /\ \/ request'[q].delivery = request[q].delivery
                \/ request[q].delivery = "pending" /\ request'[q].delivery = "withdrawn"
             /\ q \in Of(k) =>
                  \/ request'[q].status = request[q].status /\ request[q].status # "active"
                  \/ request[q].status = "active" /\ request'[q].status = "canceled"
  <2>1. request[q] \in RequestRow
    BY Rows
  <2>2. request'[q] = IF q \in Of(k)
                      THEN IF request[q].status = "active"
                           THEN [Withdraw(request[q]) EXCEPT !.status = "canceled"] ELSE Withdraw(request[q])
                      ELSE request[q]
    BY DEF Put
  <2>3. CASE q \notin Of(k)
    BY <2>1, <2>2, <2>3
  <2>4. PICK row : row = Withdraw(request[q])
    OBVIOUS
  <2>5. /\ row \in RequestRow
        /\ row.chat = request[q].chat /\ row.author = request[q].author
        /\ row.message = request[q].message /\ row.status = request[q].status
        /\ row.delivery = IF request[q].delivery = "pending" THEN "withdrawn" ELSE request[q].delivery
    BY <2>1, <2>4, WithdrawnRow
  <2>6. CASE q \in Of(k) /\ request[q].status # "active"
    BY <2>2, <2>4, <2>5, <2>6
  <2>7. CASE q \in Of(k) /\ request[q].status = "active"
    <3>1. request'[q] = [row EXCEPT !.status = "canceled"]
      BY <2>2, <2>4, <2>7
    <3> QED
      BY <2>5, <2>7, <3>1, CanceledRow
  <2> QED
    BY <2>3, <2>6, <2>7
<1>5. request' \in [Requests -> RequestRow]
  <2>1. request' = [q \in Requests |-> request'[q]]
    BY DEF Put
  <2> QED
    BY <1>4, <2>1
<1>6. Affected(k) \subseteq Of(k) /\ Affected(k) \subseteq Requests /\ Affected(k) = {binding[k].active} \ {0}
  BY ActiveIsCurrent DEF Affected, Of
<1>7. Close(Affected(k)) /\ cancels' = cancels \cup Cancelable(Affected(k)) /\ saving' = saving \cup Cancelable(Affected(k))
  BY DEF Put
<1>8. turn' \in [Requests -> {"none", "active", "closed"}] /\ \A q \in Requests \ Of(k) : turn'[q] = turn[q]
  BY <1>6, <1>7, CloseSteps
<1>9. cancels' \subseteq Requests /\ saving' \subseteq cancels'
  BY <1>6, <1>7, TableTypes, Rows DEF Cancelable
<1>10. work' \in [Chats -> Seq(JobRow)] /\ \A c \in Chats : ChainStep(c)
  BY EnqueuePump, ChainsStay, TableTypes, Rows DEF Put
<1>11. run' = run /\ phase' = phase /\ handled' = handled
  BY DEF Put, callFrame
<1>12. obsolete' \subseteq obsolete \cup Of(k) /\ obsolete' \subseteq Requests
  BY TableTypes, Rows DEF Put, Of
<1>13. Of(k) \subseteq Requests
  BY DEF Of
<1> HIDE DEF b
<1>14. Moves
  BY <1>1, <1>2, <1>4, <1>6, <1>7, <1>8, <1>10, <1>11, <1>12, <1>13, ReplacedSteps
<1>15. used' \in [Budget -> Nat]
  BY SpendTypes, Rows DEF Put
<1> QED
  BY <1>3, <1>5, <1>8, <1>9, <1>10, <1>11, <1>12, <1>14, <1>15, TableTypes, Rows DEF Put, callFrame, TypeOK

(* deleteBinding(), of the rows up to n. *)
LEMMA DeletedRow ==
  ASSUME IInv, NEW k \in Chats, NEW n \in Nat, request' = Deleted(k, n), NEW q \in Requests
  PROVE  /\ request'[q] \in RequestRow
         /\ q \notin Of(k) => request'[q] = request[q]
         /\ request'[q].chat = request[q].chat /\ request'[q].author = request[q].author
         /\ request'[q].message = request[q].message
         /\ \/ request'[q].delivery = request[q].delivery
            \/ request[q].delivery = "pending" /\ request'[q].delivery = "withdrawn"
         /\ \/ q \notin Of(k) /\ request'[q].status = request[q].status
            \/ ~(q <= n) /\ request'[q].status = request[q].status
            \/ request'[q].status = request[q].status /\ request[q].status \notin {"queued", "active"}
            \/ request[q].status \in {"queued", "active"} /\ request'[q].status = "canceled"
         /\ request[q].delivery # "pending" =>
              \/ request'[q] = request[q]
              \/ q <= n /\ request[q].status \in {"queued", "active"}
                 /\ request'[q] = [request[q] EXCEPT !.status = "canceled"]
<1>1. request[q] \in RequestRow
  BY Rows
<1>2. request'[q] = IF q \notin Of(k) \/ ~(q <= n) THEN request[q]
                    ELSE IF request[q].status \in {"queued", "active"}
                    THEN [Withdraw(request[q]) EXCEPT !.status = "canceled"] ELSE Withdraw(request[q])
  <2>1. q > n <=> ~(q <= n)
    BY RequestsAreNumbers
  <2> QED
    BY <2>1 DEF Deleted
<1>3. CASE q \notin Of(k) \/ ~(q <= n)
  BY <1>1, <1>2, <1>3
<1>4. PICK row : row = Withdraw(request[q])
  OBVIOUS
<1>5. /\ row \in RequestRow
      /\ row.chat = request[q].chat /\ row.author = request[q].author
      /\ row.message = request[q].message /\ row.status = request[q].status
      /\ row.delivery = IF request[q].delivery = "pending" THEN "withdrawn" ELSE request[q].delivery
      /\ request[q].delivery # "pending" => row = request[q]
  BY <1>1, <1>4, WithdrawnRow
<1>6. CASE q \in Of(k) /\ q <= n /\ request[q].status \notin {"queued", "active"}
  BY <1>2, <1>4, <1>5, <1>6
<1>7. CASE q \in Of(k) /\ q <= n /\ request[q].status \in {"queued", "active"}
  <2>1. request'[q] = [row EXCEPT !.status = "canceled"]
    BY <1>2, <1>4, <1>7
  <2> QED
    BY <1>5, <1>7, <2>1, CanceledRow
<1> QED
  BY <1>3, <1>6, <1>7

(* The requests of a removed chat keep their type. *)
LEMMA DeletedTypes ==
  ASSUME IInv, NEW k \in Chats, NEW n \in Nat, request' = Deleted(k, n)
  PROVE  request' \in [Requests -> RequestRow]
<1>1. request' = [q \in Requests |-> request'[q]]
  BY DEF Deleted
<1> QED
  BY <1>1, DeletedRow

(* deleteBinding(): a chat is removed, and what waits or goes on in it is cancelled. *)
LEMMA DeleteMoves ==
  ASSUME IInv, NEW k \in Chats, Delete(k)
  PROVE  TypeOK' /\ Moves
<1>1. PICK b : b = Unbound(k)
  OBVIOUS
<1>2. b \in BindingRow /\ b.active = 0 /\ ~b.bound /\ ~b.enabled
  BY <1>1, Rows, Columns, RequestsAreNumbers DEF Unbound, Row, BindingRow
<1>3. binding' = [binding EXCEPT ![k] = b]
  BY <1>1 DEF Delete
<1>4. binding' \in [Chats -> BindingRow]
  BY <1>2, <1>3, TableTypes, Rows
<1>5. MaxRequests \in Nat /\ request' = Deleted(k, MaxRequests) /\ \A q \in Requests : q <= MaxRequests
  BY ChannelAssumption DEF Delete, Requests
<1>6. request' \in [Requests -> RequestRow]
  BY <1>5, DeletedTypes
<1>7. \A q \in Of(k) : q \in Requests
  BY DEF Of
<1>8. /\ \A q \in Requests \ Of(k) : request'[q] = request[q]
      /\ \A q \in Of(k) :
           /\ request'[q].chat = request[q].chat /\ request'[q].author = request[q].author
           /\ request'[q].message = request[q].message
           /\ \/ request'[q].delivery = request[q].delivery
              \/ request[q].delivery = "pending" /\ request'[q].delivery = "withdrawn"
           /\ \/ request'[q].status = request[q].status /\ request[q].status # "active"
              \/ request[q].status = "active" /\ request'[q].status = "canceled"
              \/ request[q].status = "queued" /\ request'[q].status = "canceled" /\ ~b.bound
  BY <1>2, <1>5, <1>7, DeletedRow
<1>9. turn' \in [Requests -> {"none", "active", "closed"}] /\ \A q \in Requests \ Of(k) : turn'[q] = turn[q]
  <2>1. PICK R \in SUBSET Of(k) : Close(R)
    BY DEF Delete, DeletedTurns
  <2> QED
    BY <1>7, <2>1, CloseSteps
<1>10. cancels' = cancels \cup Cancelable({binding[k].active} \ {0})
  BY DEF Delete
<1>11. cancels' \subseteq Requests /\ saving' \subseteq cancels'
  BY <1>10, ActiveIsCurrent, TableTypes, Rows DEF Delete, Cancelable
<1>12. /\ run' = run /\ phase' = phase /\ handled' = handled /\ work' = work
       /\ obsolete' \subseteq obsolete \cup Of(k) /\ obsolete' \subseteq Requests
  BY <1>7, TableTypes, Rows DEF Delete, callFrame
<1>13. \A c \in Chats : ChainStep(c)
  BY <1>12, ChainsStay
<1>14. Moves
  BY <1>2, <1>3, <1>8, <1>9, <1>10, <1>12, <1>13, ReplacedSteps
<1>15. used' \in [Budget -> Nat]
  BY SpendTypes, Rows DEF Delete
<1> QED
  BY <1>4, <1>6, <1>9, <1>11, <1>12, <1>14, <1>15, TableTypes, Rows DEF Delete, callFrame, TypeOK

(* updateAlias(): the versions move, nothing else. *)
LEMMA UpdateAliasMoves ==
  ASSUME IInv, UpdateAlias
  PROVE  TypeOK' /\ Moves
<1>1. /\ UNCHANGED <<request, turn, phase, obsolete, run, cancels, handled, work>>
      /\ binding' = [k \in Chats |-> IF binding[k].bound THEN [binding[k] EXCEPT !.version = @ + 1] ELSE binding[k]]
  BY DEF UpdateAlias, callFrame
<1>2. ASSUME NEW k \in Chats
      PROVE  binding'[k] \in BindingRow /\ BindingStep(k)
  <2>1. binding[k] \in BindingRow /\ binding[k].version \in Nat
    BY Rows, Columns
  <2>2. binding'[k] = [binding[k] EXCEPT !.version = binding[k].version + 1] \/ binding'[k] = binding[k]
    BY <1>1
  <2>3. binding'[k] \in BindingRow /\ binding'[k] = [binding[k] EXCEPT !.version = binding'[k].version]
    BY <2>1, <2>2 DEF BindingRow
  <2> QED
    BY <1>1, <2>3, ActiveIsCurrent, BindingStays
<1>3. binding' \in [Chats -> BindingRow]
  BY <1>1, <1>2
<1>4. Moves
  BY <1>1, <1>2, RowsStay, RunsStay, ChainsStay DEF Moves, CancelStep
<1>5. used' \in [Budget -> Nat]
  BY SpendTypes, Rows DEF UpdateAlias
<1> QED
  BY <1>1, <1>3, <1>4, <1>5, TableTypes, Rows DEF UpdateAlias, callFrame, TypeOK

-----------------------------------------------------------------------------
(***************************************************************************)
(* The steps: the outbox.                                                  *)
(***************************************************************************)

(* flushAccount(): a pending reply is marked unknown and handed over. *)
LEMMA FlushMoves ==
  ASSUME IInv, Flush
  PROVE  TypeOK' /\ Moves
<1>1. /\ UNCHANGED <<binding, turn, run, phase, obsolete, crossed>>
      /\ handled' = handled /\ cancels' = cancels /\ work' = work /\ due' = FALSE
  BY DEF Flush, sendFrame
<1>2. CASE UNCHANGED <<request, sending>>
  <2>1. Moves
    BY <1>1, <1>2, Idle, ChainsStay
  <2> QED
    BY <1>1, <1>2, <2>1, TableTypes, Rows DEF Flush, sendFrame, TypeOK
<1>3. ASSUME NEW r \in Sendable, Mark(r, "unknown"),
             sending' = [r |-> r, version |-> binding[request[r].chat].version, wire |-> FALSE]
      PROVE  TypeOK' /\ Moves
  <2>1. r \in Requests /\ request[r].delivery = "pending" /\ "unknown" \in DeliveryState
    BY DEF Sendable, DeliveryState
  <2>2. /\ request' \in [Requests -> RequestRow]
        /\ request'[r].status = request[r].status /\ request'[r].chat = request[r].chat
        /\ request'[r].author = request[r].author /\ request'[r].message = request[r].message
        /\ request'[r].delivery = "unknown"
        /\ \A q \in Requests \ {r} : request'[q] = request[q]
    BY <1>3, <2>1, DeliveryWritten DEF Mark
  <2>3. request[r].status # "absent"
    BY <2>1, Rows DEF RowInv
  <2>4. StatusStep(r) /\ DeliveryStep(r)
    BY <2>1, <2>2, <2>3 DEF StatusStep, DeliveryStep
  <2>5. Moves
    BY <1>1, <2>1, <2>2, <2>4, RequestWritten
  <2>6. sending' \in [r : 0..MaxRequests, version : Nat, wire : BOOLEAN]
    <3>1. binding[request[r].chat].version \in Nat /\ r \in 0..MaxRequests
      BY <2>1, Rows, Columns, RequestsAreNumbers
    <3> QED
      BY <1>3, <3>1
  <2> QED
    BY <1>1, <2>2, <2>5, <2>6, TableTypes, Rows DEF Flush, sendFrame, TypeOK
<1> QED
  BY <1>2, <1>3 DEF Flush

(* The connection asks the store again and writes to the socket. *)
LEMMA CrossMoves ==
  ASSUME IInv, Cross
  PROVE  TypeOK' /\ Moves
<1>1. /\ UNCHANGED <<binding, request, turn, run, phase, obsolete>>
      /\ handled' = handled /\ cancels' = cancels /\ work' = work
      /\ sending # NoSend
      /\ sending' = [sending EXCEPT !.wire = TRUE]
      /\ crossed' = [crossed EXCEPT ![sending.r] = @ + 1]
  BY DEF Cross, sendFrame, Preparing
<1>2. Moves
  BY <1>1, Idle, ChainsStay
<1>3. sending.r \in Requests
  BY <1>1 DEF IInv, SendInv
<1>4. crossed' \in [Requests -> Nat]
  <2>1. crossed \in [Requests -> Nat] /\ crossed[sending.r] + 1 \in Nat
    BY <1>3, TableTypes, Rows
  <2> QED
    BY <1>1, <2>1
<1>5. sending' \in [r : 0..MaxRequests, version : Nat, wire : BOOLEAN]
  BY <1>1, TableTypes, Rows
<1> QED
  BY <1>2, <1>4, <1>5, TableTypes, Rows DEF Cross, sendFrame, TypeOK

(* The end of a call of the connection. *)
LEMMA AnswerMoves ==
  ASSUME IInv, NEW state \in DeliveryState, sending # NoSend, Answer(state),
         state \in {"unknown", "sent"} \/ ~sending.wire
  PROVE  TypeOK' /\ Moves
<1>1. /\ UNCHANGED <<binding, turn, run, phase, obsolete, crossed>>
      /\ handled' = handled /\ cancels' = cancels /\ work' = work
      /\ due' = TRUE /\ sending' = NoSend
  BY DEF Answer, sendFrame
<1>2. PICK r : r = sending.r
  OBVIOUS
<1>3. r \in Requests /\ request[r].delivery = "unknown"
  BY <1>2 DEF IInv, SendInv
<1>4. /\ request' \in [Requests -> RequestRow]
      /\ request'[r].status = request[r].status /\ request'[r].chat = request[r].chat
      /\ request'[r].author = request[r].author /\ request'[r].message = request[r].message
      /\ request'[r].delivery = state
      /\ \A q \in Requests \ {r} : request'[q] = request[q]
  BY <1>2, <1>3, DeliveryWritten DEF Answer, Mark
<1>5. request[r].status # "absent"
  BY <1>3, Rows DEF RowInv
<1>6. StatusStep(r) /\ DeliveryStep(r)
  BY <1>1, <1>2, <1>3, <1>4, <1>5 DEF StatusStep, DeliveryStep
<1>7. Moves
  BY <1>1, <1>3, <1>4, <1>6, RequestWritten
<1>8. sending' \in [r : 0..MaxRequests, version : Nat, wire : BOOLEAN]
  BY <1>1, RequestsAreNumbers DEF NoSend
<1>9. TypeOK'
  BY <1>1, <1>4, <1>8, TableTypes, Rows DEF Answer, sendFrame, TypeOK
<1> QED
  BY <1>7, <1>9

(* What the connection answers. *)
LEMMA Answers ==
  ASSUME SendRefused \/ SendLater \/ SendUncertain \/ SendConfirmed
  PROVE  /\ sending # NoSend
         /\ \E state \in DeliveryState :
              Answer(state) /\ (state \in {"unknown", "sent"} \/ ~sending.wire)
<1>1. NoSend.wire = FALSE
  BY DEF NoSend
<1> QED
  BY <1>1 DEF SendRefused, SendLater, SendUncertain, SendConfirmed, Preparing, DeliveryState

-----------------------------------------------------------------------------
(***************************************************************************)
(* The steps: the process.                                                 *)
(***************************************************************************)

(* What is lost with the process. *)
LEMMA DieSteps ==
  ASSUME IInv, Die
  PROVE  /\ run' \in [Requests -> RunRow]
         /\ \A r \in Requests : RunStep(r) /\ run'[r].state # "live"
         /\ work' \in [Chats -> Seq(JobRow)]
         /\ \A k \in Chats : work'[k] = <<>> /\ ChainStep(k)
         /\ CancelStep
         /\ \A r \in Requests : NoneAt({"identity"}, r)
<1>1. /\ run' = [r \in Requests |-> IF run[r].state = "live" THEN [run[r] EXCEPT !.state = "lost"] ELSE run[r]]
      /\ work' = [k \in Chats |-> <<>>]
  BY DEF Die
<1>2. ASSUME NEW r \in Requests
      PROVE  run'[r] \in RunRow /\ RunStep(r) /\ run'[r].state # "live"
  <2>1. run[r] \in RunRow
    BY Rows
  <2>2. CASE run[r].state = "live"
    <3>1. run'[r] = [run[r] EXCEPT !.state = "lost"]
      BY <1>1, <2>2
    <3>2. run'[r] \in RunRow /\ run'[r].state = "lost"
      BY <2>1, <3>1 DEF RunRow
    <3> QED
      BY <2>2, <3>2 DEF RunStep, OverRun
  <2>3. CASE run[r].state # "live"
    BY <1>1, <2>1, <2>3 DEF RunStep
  <2> QED
    BY <2>2, <2>3
<1>3. run' \in [Requests -> RunRow]
  BY <1>1, <1>2
<1>4. \A k \in Chats : work'[k] = <<>> /\ DOMAIN work'[k] = {}
  BY <1>1
<1>5. work' \in [Chats -> Seq(JobRow)]
  BY <1>1
<1>6. CancelStep
  BY <1>2, TableTypes, Rows DEF CancelStep
<1> QED
  BY <1>2, <1>3, <1>4, <1>5, <1>6 DEF ChainStep, NoneAt

(* The process ends: what is in memory is gone, a reply in flight stays unknown. *)
LEMMA StopMoves ==
  ASSUME IInv, Stop
  PROVE  TypeOK' /\ Moves
<1>1. Die /\ UNCHANGED <<binding, request, turn, handled>>
  BY DEF Stop
<1>2. phase' = "down" /\ obsolete' = obsolete
  BY <1>1 DEF Die
<1>3. ASSUME NEW k \in Chats PROVE BindingStep(k)
  <2>1. binding'[k] = [binding[k] EXCEPT !.version = binding'[k].version]
    BY <1>1, Rows DEF BindingRow
  <2>2. binding[k].active # 0 => Stays(binding[k].active)
    BY <1>1, <1>2, ActiveIsCurrent DEF Stays
  <2> QED
    BY <2>1, <2>2 DEF BindingStep
<1>4. Moves
  BY <1>1, <1>3, DieSteps, RowsStay DEF Moves
<1>5. used' \in [Budget -> Nat]
  BY SpendTypes, Rows DEF Stop
<1>6. sending' \in [r : 0..MaxRequests, version : Nat, wire : BOOLEAN]
  BY <1>1, RequestsAreNumbers DEF NoSend, Die
<1> QED
  BY <1>1, <1>4, <1>5, <1>6, DieSteps, TableTypes, Rows DEF Die, TypeOK

(* The process dies between the writes of a pause. *)
LEMMA TornOffMoves ==
  ASSUME IInv, Torn, NEW k \in Chats, TornOff(k)
  PROVE  binding' \in [Chats -> BindingRow] /\ request' \in [Requests -> RequestRow]
         /\ turn' \in [Requests -> {"none", "active", "closed"}] /\ Moves
<1>1. Die
  BY DEF Torn
<1>2. phase' = "down" /\ obsolete' = obsolete
  BY <1>1 DEF Die
<1>3. binding' = Switch(k, FALSE) /\ UNCHANGED <<request, turn, handled>>
  BY DEF TornOff
<1>4. /\ binding' \in [Chats -> BindingRow]
      /\ \A c \in Chats \ {k} : binding'[c] = binding[c]
      /\ ~binding'[k].enabled /\ binding'[k].active = 0
  BY <1>3, SwitchRow
<1>5. ASSUME NEW c \in Chats PROVE BindingStep(c)
  <2>1. CASE c = k
    <3>1. binding[k].active # 0 => LetsGo(binding[k].active)
      BY <1>1, DieSteps, ActiveIsCurrent DEF LetsGo
    <3> QED
      BY <1>4, <2>1, <3>1 DEF BindingStep
  <2>2. CASE c # k
    <3>1. binding'[c] = [binding[c] EXCEPT !.version = binding'[c].version]
      BY <1>4, <2>2, Rows DEF BindingRow
    <3>2. binding[c].active # 0 => Stays(binding[c].active)
      BY <1>2, <1>3, ActiveIsCurrent DEF Stays
    <3> QED
      BY <3>1, <3>2 DEF BindingStep
  <2> QED
    BY <2>1, <2>2
<1>6. Moves
  BY <1>1, <1>3, <1>5, DieSteps, RowsStay DEF Moves
<1> QED
  BY <1>3, <1>4, <1>6, TableTypes, Rows

(* Or between the writes of a removal. *)
LEMMA TornDeleteMoves ==
  ASSUME IInv, Torn, NEW k \in Chats, TornDelete(k)
  PROVE  binding' \in [Chats -> BindingRow] /\ request' \in [Requests -> RequestRow]
         /\ turn' \in [Requests -> {"none", "active", "closed"}] /\ Moves
<1>1. Die
  BY DEF Torn
<1>2. phase' = "down" /\ obsolete' = obsolete
  BY <1>1 DEF Die
<1>3. PICK n \in Requests : request' = Deleted(k, n) /\ DeletedTurns(k, n)
  BY DEF TornDelete
<1>4. n \in Nat /\ binding' = binding /\ handled' = handled
  BY RequestsAreNumbers DEF TornDelete
<1>5. request' \in [Requests -> RequestRow]
  BY <1>3, <1>4, DeletedTypes
<1>6. PICK R : R = {r \in Of(k) : r <= n /\ request[r].status \in {"queued", "active"}}
  OBVIOUS
<1>7. R \in SUBSET Requests /\ Close(R)
  BY <1>3, <1>6 DEF DeletedTurns, Of
<1>8. turn' \in [Requests -> {"none", "active", "closed"}] /\ \A q \in Requests \ R : turn'[q] = turn[q]
  BY <1>7, CloseSteps
<1>9. ASSUME NEW q \in Requests PROVE StatusStep(q) /\ DeliveryStep(q)
  <2>1. /\ q \notin Of(k) => request'[q] = request[q]
        /\ request'[q].chat = request[q].chat /\ request'[q].author = request[q].author
        /\ request'[q].message = request[q].message
        /\ \/ request'[q].delivery = request[q].delivery
           \/ request[q].delivery = "pending" /\ request'[q].delivery = "withdrawn"
        /\ \/ request'[q].status = request[q].status
           \/ request[q].status \in {"queued", "active"} /\ request'[q].status = "canceled"
    BY <1>3, <1>4, DeletedRow
  <2>2. CASE q \notin Of(k)
    BY <2>1, <2>2 DEF StatusStep, DeliveryStep
  <2>3. CASE q \in Of(k)
    <3>1. request[q].status # "absent"
      BY <2>3 DEF Of
    <3>2. NoneAt({"identity"}, q)
      BY <1>1, DieSteps
    <3> QED
      BY <2>1, <3>1, <3>2 DEF StatusStep, Ends, DeliveryStep
  <2> QED
    BY <2>2, <2>3
<1>10. ASSUME NEW c \in Chats PROVE BindingStep(c)
  <2>1. binding'[c] = [binding[c] EXCEPT !.version = binding'[c].version]
    BY <1>4, Rows DEF BindingRow
  <2>2. SUFFICES ASSUME binding[c].active # 0 PROVE Stays(binding[c].active)
    BY <2>1 DEF BindingStep
  <2>3. PICK a : a = binding[c].active
    OBVIOUS
  <2>4. a \in Requests /\ a \notin obsolete /\ request[a].delivery = "none"
    BY <2>2, <2>3, ActiveIsCurrent, Rows DEF ActiveInv
  <2>5. \/ request'[a] = request[a]
        \/ request'[a] = [request[a] EXCEPT !.status = "canceled"]
    BY <1>3, <1>4, <2>4, DeletedRow
  <2>6. CASE request'[a] = [request[a] EXCEPT !.status = "canceled"]
    BY <1>2, <2>3, <2>4, <2>6 DEF Stays
  <2>7. CASE request'[a] = request[a] /\ a \notin R
    BY <1>2, <1>8, <2>3, <2>4, <2>7 DEF Stays
  <2>8. CASE request'[a] = request[a] /\ a \in R
    <3>1. a \in Of(k) /\ a <= n /\ request[a].status \in {"queued", "active"}
      BY <1>6, <2>8
    <3>2. request'[a].status = "canceled"
      BY <1>3, <1>4, <2>4, <3>1, DeletedRow
    <3> QED
      BY <2>8, <3>1, <3>2
  <2> QED
    BY <2>5, <2>6, <2>7, <2>8
<1>11. Moves
  BY <1>1, <1>4, <1>9, <1>10, DieSteps DEF Moves
<1> QED
  BY <1>4, <1>5, <1>8, <1>11, TableTypes, Rows

(* The process dies between the two writes of OFF or of a removal. *)
LEMMA TornMoves ==
  ASSUME IInv, Torn
  PROVE  TypeOK' /\ Moves
<1>1. Die /\ handled' = handled
  BY DEF Torn, TornOff, TornDelete
<1>2. binding' \in [Chats -> BindingRow] /\ request' \in [Requests -> RequestRow]
      /\ turn' \in [Requests -> {"none", "active", "closed"}] /\ Moves
  BY TornOffMoves, TornDeleteMoves DEF Torn
<1>3. used' \in [Budget -> Nat]
  BY SpendTypes, Rows DEF Torn
<1>4. sending' \in [r : 0..MaxRequests, version : Nat, wire : BOOLEAN]
  BY <1>1, RequestsAreNumbers DEF NoSend, Die
<1> QED
  BY <1>1, <1>2, <1>3, <1>4, DieSteps, TableTypes, Rows DEF Die, TypeOK

(* initialize(): what is active is let go, or is delivered. *)
LEMMA StartSteps ==
  ASSUME IInv, Start, NEW k \in Chats
  PROVE  /\ binding'[k] \in BindingRow /\ BindingStep(k)
         /\ work'[k] \in Seq(JobRow) /\ ChainStep(k)
<1> DEFINE interrupted == ActiveTurns \ Recovered
           a == binding[k].active
<1>1. /\ phase = "down" /\ phase' = "up" /\ obsolete' = obsolete
      /\ run' = [r \in Requests |->
                  IF /\ run[r].state = "lost" /\ binding[request[r].chat].bound
                     /\ run[r].conversation = binding[request[r].chat].conversation
                  THEN [run[r] EXCEPT !.state = "failed"] ELSE run[r]]
      /\ request' = SetStatus(interrupted, "interrupted")
      /\ Close(interrupted)
      /\ binding'[k] = [binding[k] EXCEPT !.active = IF @ \in interrupted THEN 0 ELSE @]
      /\ work'[k] = IF ~binding[k].bound THEN <<>>
                    ELSE IF binding[k].active \in Recovered
                    THEN <<Job("deliver", binding[k].active, NoMessage), PumpJob>> ELSE <<PumpJob>>
  BY DEF Start
<1>2. binding[k] \in BindingRow /\ ActiveInv(k) /\ a \in 0..MaxRequests
  BY Rows, Columns
<1>3. interrupted \subseteq Requests /\ Recovered \subseteq Requests
  BY DEF ActiveTurns, Recovered
<1>4. \A r \in Requests \ interrupted : request'[r] = request[r] /\ turn'[r] = turn[r]
  BY <1>1, <1>3, CloseSteps DEF SetStatus
<1>5. \A r \in Requests : run'[r].state = run[r].state \/ (run[r].state = "lost" /\ run'[r].state = "failed")
  BY <1>1, Rows DEF RunRow
<1>6. a # 0 => a \in ActiveTurns /\ a \in Requests
  BY ActiveIsCurrent DEF ActiveTurns
<1>7. CASE a \in interrupted
  <2>1. binding'[k] = [binding[k] EXCEPT !.active = 0]
    BY <1>1, <1>2, <1>7
  <2>2. /\ binding'[k] \in BindingRow /\ binding'[k].active = 0
        /\ binding'[k].enabled = binding[k].enabled /\ binding'[k].bound = binding[k].bound
    BY <1>2, <2>1, RequestsAreNumbers DEF BindingRow
  <2>3. PICK q \in Requests : q = a
    BY <1>3, <1>7
  <2>4. request'[q] = [request[q] EXCEPT !.status = "interrupted"]
    BY <1>1, <1>7, <2>3 DEF SetStatus
  <2>5. run'[q].state # "live" /\ request'[q].status = "interrupted"
    BY <1>1, <1>5, <2>4, Rows DEF IInv, DownInv, RequestRow
  <2>6. LetsGo(a)
    BY <2>3, <2>5 DEF LetsGo
  <2>7. BindingStep(k)
    BY <1>2, <2>2, <2>6 DEF BindingStep, ActiveInv
  <2>8. a \notin Recovered
    BY <1>7
  <2> QED
    BY <1>1, <2>2, <2>7, <2>8, PumpIsChained, OtherJobs DEF ChainStep
<1>8. CASE a \notin interrupted
  <2>1. binding'[k] = binding[k]
    BY <1>1, <1>2, <1>8 DEF BindingRow
  <2>2. a # 0 => a \in Recovered /\ run'[a].state = "completed"
    BY <1>5, <1>6, <1>8 DEF Recovered
  <2>3. a # 0 => Stays(a)
    BY <1>1, <1>4, <1>5, <1>6, <1>8, <2>2, ActiveIsCurrent DEF Stays, OverRun
  <2>4. BindingStep(k)
    BY <1>2, <2>1, <2>3 DEF BindingStep, BindingRow
  <2>5. CASE work'[k] = <<>> \/ work'[k] = <<PumpJob>>
    <3>1. work'[k] \in Seq(JobRow) /\ \A i \in DOMAIN work'[k] : i = 1 /\ work'[k][i] = PumpJob
      <4>1. PICK job : job = PumpJob
        OBVIOUS
      <4>2. job \in JobRow /\ (work'[k] = <<>> \/ work'[k] = <<job>>)
        BY <2>5, <4>1, PumpIsChained
      <4>3. <<>> \in Seq(JobRow) /\ DOMAIN <<>> = {}
        OBVIOUS
      <4>4. <<job>> \in Seq(JobRow) /\ DOMAIN <<job>> = {1} /\ <<job>>[1] = job
        BY <4>2
      <4> QED
        BY <4>1, <4>2, <4>3, <4>4
    <3>2. ChainStep(k)
      BY <3>1, PumpIsChained, OtherJobs DEF ChainStep
    <3> QED
      BY <1>2, <2>1, <2>4, <3>1, <3>2
  <2>6. CASE a \in Recovered /\ work'[k] = <<Job("deliver", a, NoMessage), PumpJob>>
    <3>1. a \in Requests /\ a # 0
      BY <1>3, <2>6, RequestsAreNumbers
    <3>2. PICK q \in Requests : q = a
      BY <3>1
    <3>3. PICK job : job = Job("deliver", q, NoMessage)
      OBVIOUS
    <3>4. job \in JobRow /\ job.at = "deliver" /\ job.r = q
      BY <3>3, JobFields, RequestsAreNumbers DEF Step
    <3>5. request'[q].chat = k /\ request'[q].status # "absent" /\ run'[q].state \in OverRun
      BY <1>4, <1>8, <2>2, <3>1, <3>2, ActiveIsCurrent DEF OverRun
    <3>6. work'[k] = <<job, PumpJob>>
      BY <2>6, <3>2, <3>3
    <3>7. DOMAIN work'[k] = {1, 2} /\ work'[k][1] = job /\ work'[k][2] = PumpJob
      BY <3>6
    <3>8. JobInv(k, work[k][1])'
      BY <3>4, <3>5, <3>7 DEF JobInv, Preparation
    <3>9. JobInv(k, work[k][2])'
      BY <3>7, PumpIsChained DEF JobInv, Preparation
    <3>10. work'[k] \in Seq(JobRow)
      BY <3>4, <3>6, PumpIsChained
    <3>11. NewJob(k, work'[k][1]) /\ NewJob(k, work'[k][2])
      BY <3>4, <3>7, PumpIsChained, OtherJobs
    <3>12. ChainStep(k)
      BY <3>7, <3>8, <3>9, <3>11, PumpIsChained DEF ChainStep
    <3> QED
      BY <1>2, <2>1, <2>4, <3>10, <3>12
  <2> QED
    BY <1>1, <2>5, <2>6
<1> QED
  BY <1>7, <1>8

(* initialize(): what a dead process left active is interrupted. *)
LEMMA StartMoves ==
  ASSUME IInv, Start
  PROVE  TypeOK' /\ Moves
<1> DEFINE interrupted == ActiveTurns \ Recovered
<1>1. /\ phase = "down" /\ phase' = "up" /\ obsolete' = obsolete /\ due' = TRUE
      /\ run' = [r \in Requests |->
                  IF /\ run[r].state = "lost" /\ binding[request[r].chat].bound
                     /\ run[r].conversation = binding[request[r].chat].conversation
                  THEN [run[r] EXCEPT !.state = "failed"] ELSE run[r]]
      /\ request' = SetStatus(interrupted, "interrupted")
      /\ Close(interrupted)
      /\ binding' = [k \in Chats |-> [binding[k] EXCEPT !.active = IF @ \in interrupted THEN 0 ELSE @]]
      /\ work' = [k \in Chats |-> work'[k]]
      /\ handled' = handled /\ cancels' = cancels
  BY DEF Start
<1>2. interrupted \subseteq Requests
  BY DEF ActiveTurns
<1>3. binding' \in [Chats -> BindingRow] /\ \A k \in Chats : BindingStep(k)
  BY <1>1, StartSteps
<1>4. work' \in [Chats -> Seq(JobRow)] /\ \A k \in Chats : ChainStep(k)
  BY <1>1, StartSteps
<1>5. ASSUME NEW r \in Requests
      PROVE  run'[r] \in RunRow /\ RunStep(r)
  <2>1. run[r] \in RunRow
    BY Rows
  <2>2. CASE run'[r] = run[r]
    BY <2>1, <2>2 DEF RunStep
  <2>3. CASE run[r].state = "lost" /\ run'[r] = [run[r] EXCEPT !.state = "failed"]
    <3>1. run'[r] \in RunRow /\ run'[r].state = "failed"
      BY <2>1, <2>3 DEF RunRow
    <3> QED
      BY <2>3, <3>1 DEF RunStep
  <2> QED
    BY <1>1, <2>2, <2>3
<1>6. ASSUME NEW r \in Requests
      PROVE  request'[r] \in RequestRow /\ StatusStep(r) /\ DeliveryStep(r)
  <2>1. request[r] \in RequestRow
    BY Rows
  <2>2. CASE r \notin interrupted
    <3>1. request'[r] = request[r]
      BY <1>1, <2>2 DEF SetStatus
    <3> QED
      BY <2>1, <3>1 DEF StatusStep, DeliveryStep
  <2>3. CASE r \in interrupted
    <3>1. PICK k \in Chats : binding[k].active = r
      BY <2>3 DEF ActiveTurns
    <3>2. request[r].chat = k /\ request[r].status # "absent"
      BY <3>1, ActiveIsCurrent, RequestsAreNumbers
    <3>3. IsActive(r)
      BY <3>1, <3>2 DEF IsActive
    <3>4. binding'[k].active = 0
      BY <1>1, <2>3, <3>1, Rows DEF BindingRow
    <3>5. request'[r] = [request[r] EXCEPT !.status = "interrupted"]
      BY <1>1, <2>3 DEF SetStatus
    <3>6. /\ request'[r] \in RequestRow /\ request'[r].chat = request[r].chat
          /\ request'[r].author = request[r].author /\ request'[r].message = request[r].message
          /\ request'[r].status = "interrupted" /\ request'[r].delivery = request[r].delivery
      BY <2>1, <3>5 DEF RequestRow, Status, Ended
    <3>7. binding'[request[r].chat].active # r
      BY <3>2, <3>4, RequestsAreNumbers
    <3> QED
      BY <3>2, <3>3, <3>6, <3>7 DEF StatusStep, Ends, DeliveryStep
  <2> QED
    BY <2>2, <2>3
<1>7. request' \in [Requests -> RequestRow]
  BY <1>1, <1>6 DEF SetStatus
<1>8. run' \in [Requests -> RunRow]
  BY <1>1, <1>5
<1>9. turn' \in [Requests -> {"none", "active", "closed"}]
  BY <1>1, <1>2, CloseSteps
<1>10. Moves
  BY <1>1, <1>3, <1>4, <1>5, <1>6 DEF Moves, CancelStep
<1> QED
  BY <1>1, <1>3, <1>4, <1>7, <1>8, <1>9, <1>10, TableTypes, Rows DEF Start, TypeOK

-----------------------------------------------------------------------------
(***************************************************************************)
(* Every step.                                                             *)
(***************************************************************************)

(* Every action of the channel is a step the summary allows. *)
LEMMA NextMoves ==
  ASSUME IInv, Next
  PROVE  TypeOK' /\ Moves
<1>1. CASE Inbound
  BY <1>1, ReceiveMoves, RefuseMoves, AcceptTaskMoves, AcceptCorrectionMoves, QueueCorrectionMoves,
     MessageOffMoves, BeginMessageOnMoves, FinishMessageOnMoves DEF Inbound
<1>2. CASE Dispatching
  BY <1>2, StartPumpMoves, DispatchMoves, ContextReadMoves, AdmitRunMoves, RejectRunMoves, LoseAdmissionMoves
     DEF Dispatching
<1>3. CASE Settling
  BY <1>3, RunEndsMoves, CancelRunMoves, DeliverMoves, SettleWithoutReplyMoves DEF Settling
<1>4. CASE OwnerActs
  BY <1>4, TurnOffMoves, BeginOnMoves, FinishOnMoves, DeleteMoves, RetireMoves, RetiredMoves, PutMoves,
     AskCancelMoves, RetryDeliveryMoves, DismissMoves, UpdateAliasMoves DEF OwnerActs
<1>5. CASE Sending
  BY <1>5, FlushMoves, CrossMoves, Answers, AnswerMoves DEF Sending
<1>6. CASE Lifecycle
  BY <1>6, StartMoves, StopMoves, TornMoves DEF Lifecycle
<1> QED
  BY <1>1, <1>2, <1>3, <1>4, <1>5, <1>6 DEF Next

(* The outbox is left alone, and the process goes on. *)
LEMMA NextSends ==
  ASSUME IInv, Next
  PROVE  SendStep
<1>1. CASE Inbound
  <2>1. phase = "up"
    BY <1>1, AtHead DEF Inbound, Receive, Refuse, AcceptTask, AcceptCorrection, QueueCorrection,
       MessageOff, BeginMessageOn, FinishMessageOn
  <2> QED
    BY <1>1, <2>1 DEF Inbound, Receive, Refuse, AcceptTask, AcceptCorrection, QueueCorrection,
       MessageOff, BeginMessageOn, FinishMessageOn, jobFrame, SendStep
<1>2. CASE Dispatching
  <2>1. phase = "up"
    BY <1>2, AtHead DEF Dispatching, StartPump, Dispatch, ContextRead, AdmitRun, RejectRun, LoseAdmission
  <2> QED
    BY <1>2, <2>1 DEF Dispatching, StartPump, Dispatch, ContextRead, AdmitRun, RejectRun, LoseAdmission,
       jobFrame, admissionFrame, SendStep
<1>3. CASE Settling
  <2>1. phase = "up"
    BY <1>3, AtHead, TableTypes DEF IInv, DownInv, Settling, RunEnds, CancelRun, Deliver, SettleWithoutReply
  <2> QED
    BY <1>3, <2>1 DEF Settling, RunEnds, CancelRun, Deliver, SettleWithoutReply, jobFrame, SendStep
<1>4. CASE OwnerActs
  <2>1. phase = "up"
    BY <1>4, AtHead, TableTypes DEF IInv, DownInv, OwnerActs, TurnOff, BeginOn, FinishOn, Delete, Retire, Retired, Put,
       AskCancel, RetryDelivery, Dismiss, UpdateAlias
  <2> QED
    BY <1>4, <2>1 DEF OwnerActs, TurnOff, BeginOn, FinishOn, Delete, Retire, Retired, Put,
       AskCancel, RetryDelivery, Dismiss, UpdateAlias, jobFrame, callFrame, SendStep
<1>5. CASE Sending
  <2>1. phase = "up" /\ phase' = phase
    BY <1>5, Answers, TableTypes DEF IInv, DownInv, Sending, Flush, Cross, Preparing, Answer, sendFrame
  <2>2. CASE Flush
    <3>1. sending = NoSend /\ crossed' = crossed
      BY <2>2 DEF Flush
    <3>2. ASSUME NEW r \in Sendable, Mark(r, "unknown"),
                 sending' = [r |-> r, version |-> binding[request[r].chat].version, wire |-> FALSE]
          PROVE  SendStep
      <4>1. r \in Requests /\ request[r].delivery = "pending" /\ "unknown" \in DeliveryState
        BY DEF Sendable, DeliveryState
      <4>2. request'[r].delivery = "unknown"
        BY <3>2, <4>1, DeliveryWritten DEF Mark
      <4>3. sending'.r = r /\ sending'.wire = FALSE
        BY <3>2
      <4> QED
        BY <2>1, <3>1, <4>1, <4>2, <4>3 DEF SendStep
    <3> QED
      BY <2>1, <2>2, <3>1, <3>2 DEF Flush, SendStep
  <2>3. CASE Cross
    BY <2>1, <2>3 DEF Cross, SendStep
  <2>4. CASE SendRefused \/ SendLater \/ SendUncertain \/ SendConfirmed
    BY <2>1, <2>4, Answers DEF Answer, SendStep
  <2> QED
    BY <1>5, <2>2, <2>3, <2>4 DEF Sending
<1>6. CASE Lifecycle
  BY <1>6 DEF Lifecycle, Start, Stop, Torn, Die, SendStep
<1> QED
  BY <1>1, <1>2, <1>3, <1>4, <1>5, <1>6 DEF Next

(* What a reply in flight has come to. *)
LEMMA SendKept ==
  ASSUME IInv, TypeOK', Moves, SendStep
  PROVE  SendInv'
<1>1. /\ crossed \in [Requests -> Nat] /\ crossed' \in [Requests -> Nat]
      /\ sending \in [r : 0..MaxRequests, version : Nat, wire : BOOLEAN]
  BY TableTypes DEF IInv
<1>2. \A r \in Requests : DeliveryStep(r) /\ r # 0
  BY RequestsAreNumbers DEF Moves
<1>3. SendInv
  BY DEF IInv
<1>4. NoSend.r = 0 /\ NoSend.wire = FALSE
  BY DEF NoSend
<1>5. ASSUME crossed' = crossed, NEW r \in Requests
      PROVE  crossed'[r] = 0 \/ (crossed'[r] = 1 /\ request'[r].delivery \in {"unknown", "sent"})
  <2>1. crossed[r] = 0 \/ (crossed[r] = 1 /\ request[r].delivery \in {"unknown", "sent"})
    BY <1>3 DEF SendInv
  <2>2. ASSUME sending.r = r, ~sending.wire PROVE crossed[r] = 0
    BY <1>2, <1>3, <1>4, <2>2 DEF SendInv
  <2> QED
    BY <1>2, <1>5, <2>1, <2>2 DEF DeliveryStep
<1>6. CASE UNCHANGED <<sending, crossed>>
  <2>1. ASSUME sending # NoSend PROVE request'[sending.r].delivery = "unknown"
    <3>1. sending.r \in Requests /\ request[sending.r].delivery = "unknown"
      BY <1>3, <2>1 DEF SendInv
    <3> QED
      BY <1>2, <1>6, <2>1, <3>1 DEF DeliveryStep
  <2> QED
    BY <1>3, <1>5, <1>6, <2>1 DEF SendInv
<1>7. CASE sending' = NoSend /\ crossed' = crossed
  BY <1>5, <1>7 DEF SendInv
<1>8. CASE /\ sending = NoSend /\ crossed' = crossed
           /\ \E r \in Requests : /\ request[r].delivery = "pending" /\ request'[r].delivery = "unknown"
                                  /\ sending'.r = r /\ sending'.wire = FALSE
  BY <1>3, <1>5, <1>8 DEF SendInv
<1>9. CASE /\ Preparing /\ request' = request
           /\ sending' = [sending EXCEPT !.wire = TRUE]
           /\ crossed' = [crossed EXCEPT ![sending.r] = @ + 1]
  <2>1. sending.r \in Requests /\ request[sending.r].delivery = "unknown" /\ crossed[sending.r] = 0
    BY <1>3, <1>9 DEF SendInv, Preparing
  <2>2. sending'.r = sending.r /\ sending'.wire = TRUE
    BY <1>1, <1>9
  <2>3. crossed'[sending.r] = 1 /\ \A r \in Requests \ {sending.r} : crossed'[r] = crossed[r]
    BY <1>1, <1>9, <2>1
  <2> QED
    BY <1>3, <1>9, <2>1, <2>2, <2>3 DEF SendInv
<1> QED
  BY <1>6, <1>7, <1>8, <1>9 DEF SendStep

(* What is left when the process goes down. *)
LEMMA DownKept ==
  ASSUME IInv, SendStep
  PROVE  DownInv'
<1>1. CASE phase' = "up"
  BY <1>1 DEF DownInv
<1>2. CASE Die
  BY <1>2, DieSteps DEF Die, DownInv
<1> QED
  BY <1>1, <1>2 DEF SendStep

(* The invariant holds at first. *)
LEMMA InitInv == Init => IInv
<1> SUFFICES ASSUME Init PROVE IInv
  OBVIOUS
<1>1. NoRequest \in RequestRow /\ NoRequest.status = "absent" /\ NoRequest.delivery = "none" /\ NoRequest.message = NoMessage
  BY ChannelAssumption DEF NoRequest, RequestRow, Status, DeliveryState
<1>2. NoRun \in RunRow /\ NoRun.state = "none"
  BY DEF NoRun, RunRow
<1>3. ASSUME NEW k \in Chats
      PROVE  /\ binding[k] \in BindingRow /\ binding[k].active = 0
             /\ binding[k].enabled => binding[k].bound
  <2>1. CASE k \in DOMAIN InitialAccess
    BY <2>1, ChannelAssumption, RequestsAreNumbers DEF Init, Row, BindingRow
  <2>2. CASE k \notin DOMAIN InitialAccess
    BY <2>2, RequestsAreNumbers DEF Init, Row, BindingRow
  <2> QED
    BY <2>1, <2>2
<1>4. TypeOK
  <2>1. binding \in [Chats -> BindingRow]
    BY <1>3 DEF Init
  <2>2. request \in [Requests -> RequestRow] /\ run \in [Requests -> RunRow]
    BY <1>1, <1>2 DEF Init
  <2>3. sending \in [r : 0..MaxRequests, version : Nat, wire : BOOLEAN]
    BY RequestsAreNumbers DEF Init, NoSend
  <2>4. work \in [Chats -> Seq(JobRow)]
    BY DEF Init
  <2> QED
    BY <2>1, <2>2, <2>3, <2>4 DEF Init, TypeOK
<1>5. \A r \in Requests : RowInv(r)
  BY <1>1, <1>2 DEF Init, RowInv
<1>6. \A k \in Chats : ActiveInv(k) /\ ChainInv(k)
  <2>1. \A k \in Chats : work[k] = <<>> /\ DOMAIN work[k] = {}
    BY DEF Init
  <2> QED
    BY <1>3, <2>1 DEF ActiveInv, ChainInv
<1>7. SendInv /\ DownInv /\ NoStrayRun
  BY <1>2 DEF Init, SendInv, DownInv, NoStrayRun
<1> QED
  BY <1>4, <1>5, <1>6, <1>7 DEF IInv

(* The invariant is inductive. *)
LEMMA NextInv == IInv /\ [Next]_vars => IInv'
<1>1. ASSUME IInv, Next PROVE IInv'
  <2>1. TypeOK' /\ Moves /\ SendStep
    BY <1>1, NextMoves, NextSends
  <2>2. (\A r \in Requests : RowInv(r))'
    BY <1>1, <2>1, RowKept
  <2>3. (\A k \in Chats : ActiveInv(k))'
    BY <1>1, <2>1, ActiveKept
  <2>4. (\A k \in Chats : ChainInv(k))'
    BY <1>1, <2>1, ChainKept
  <2>5. SendInv' /\ DownInv' /\ NoStrayRun'
    BY <1>1, <2>1, SendKept, DownKept, AttendedKept
  <2> QED
    BY <2>1, <2>2, <2>3, <2>4, <2>5 DEF IInv
<1>2. ASSUME IInv, UNCHANGED vars PROVE IInv'
  BY <1>2 DEF vars, durable, volatile, IInv, TypeOK, RowInv, ActiveInv, ChainInv, JobInv, SendInv, DownInv, NoStrayRun
<1> QED
  BY <1>1, <1>2

(* The invariant holds in every behaviour: messages, owners, the outbox and *)
(* the process in any order.                                                *)
THEOREM ChannelInvariance == Spec => []IInv
<1> QED
  BY InitInv, NextInv, PTL DEF Spec

(* Every table holds values of its type. *)
THEOREM ChannelTypes == Spec => []TypeOK
<1>1. IInv => TypeOK
  BY DEF IInv
<1> QED
  BY <1>1, ChannelInvariance, PTL

(* A reply is handed to the socket at most once: flushAccount() marks it    *)
(* unknown before the connection sees it, and only a reply that surely was  *)
(* not sent is pending again.                                               *)
THEOREM RepliesCrossOnce == Spec => []SentOnce
<1>1. IInv => SentOnce
  <2>1. IInv => \A r \in Requests : crossed[r] = 0 \/ crossed[r] = 1
    BY DEF IInv, SendInv
  <2> QED
    BY <2>1 DEF SentOnce
<1> QED
  BY <1>1, ChannelInvariance, PTL

(* A run that lives is attended: cancelUnlocked(), setEnabled(),            *)
(* putBinding() and deleteBinding() let go of a request only once they have *)
(* called cancelRun() for it.                                               *)
THEOREM RunsAreAttended == Spec => []NoStrayRun
<1>1. IInv => NoStrayRun
  BY DEF IInv
<1> QED
  BY <1>1, ChannelInvariance, PTL

(* deliverCandidate() compares what is active, and a request that is active *)
(* is of the configuration of its chat: whoever replaces the one lets go of *)
(* the other.                                                               *)
THEOREM LateRepliesAreDropped == Spec => NoLateReply
<1>1. ASSUME IInv, [Next]_vars, NEW r \in Requests, request[r].delivery = "none", request'[r].delivery = "pending"
      PROVE  r \notin obsolete
  <2>1. CASE UNCHANGED vars
    BY <1>1, <2>1 DEF vars, durable
  <2>2. CASE Next
    <3>1. DeliveryStep(r)
      BY <1>1, <2>2, NextMoves DEF Moves
    <3>2. IsActive(r)
      BY <1>1, <3>1 DEF DeliveryStep
    <3>3. request[r].chat \in Chats /\ r # 0
      BY <1>1, Rows, RequestsAreNumbers
    <3> QED
      BY <1>1, <3>2, <3>3, ActiveIsCurrent DEF IsActive
  <2> QED
    BY <1>1, <2>1, <2>2
<1>2. IInv /\ [Next]_vars =>
        [\A r \in Requests : request[r].delivery = "none" /\ request'[r].delivery = "pending" => r \notin obsolete]_vars
  BY <1>1
<1> QED
  BY <1>2, ChannelInvariance, PTL DEF Spec, NoLateReply

(* Only startRun() starts a run. *)
LEMMA Launches ==
  ASSUME IInv, Next, NEW r \in Requests, run[r].state = "none", run'[r].state = "live"
  PROVE  \E k \in Chats : /\ Head1(k, "admission") /\ Admissible(k, Held(k)) /\ Held(k) = r
                          /\ AdmitRun(k) \/ LoseAdmission(k)
<1>1. run' # run
  OBVIOUS
<1>2. ASSUME NEW k \in Chats, AdmitRun(k) \/ LoseAdmission(k)
      PROVE  Head1(k, "admission") /\ Admissible(k, Held(k)) /\ Held(k) = r
  <2>1. Head1(k, "admission") /\ Admissible(k, Held(k)) /\ Launch(k, Held(k))
    BY <1>1, <1>2 DEF AdmitRun, LoseAdmission
  <2>2. Held(k) = r
    BY <2>1, TableTypes DEF IInv, Launch
  <2> QED
    BY <2>1, <2>2
<1>3. CASE Inbound
  BY <1>1, <1>3 DEF Inbound, Receive, Refuse, AcceptTask, AcceptCorrection, QueueCorrection,
     MessageOff, BeginMessageOn, FinishMessageOn, jobFrame, durable
<1>4. CASE Dispatching
  BY <1>1, <1>2, <1>4 DEF Dispatching, StartPump, Dispatch, ContextRead, RejectRun, jobFrame, durable
<1>5. CASE Settling
  <2>1. ASSUME NEW q \in Requests, RunEnds(q) PROVE FALSE
    <3>1. run[q].state = "live" /\ \E end : run' = [run EXCEPT ![q].state = end]
      BY <2>1 DEF RunEnds
    <3> QED
      BY <3>1, TableTypes DEF IInv
  <2>2. ASSUME NEW q \in Requests, CancelRun(q) PROVE FALSE
    <3>1. run' = [run EXCEPT ![q].state = IF @ = "live" THEN "canceled" ELSE @]
      BY <2>2 DEF CancelRun
    <3>2. run \in [Requests -> RunRow]
      BY TableTypes DEF IInv
    <3>3. run'[q].state = IF run[q].state = "live" THEN "canceled" ELSE run[q].state
      BY <3>1, <3>2 DEF RunRow
    <3>4. \A p \in Requests \ {q} : run'[p] = run[p]
      BY <3>1, <3>2
    <3> QED
      BY <3>3, <3>4
  <2> QED
    BY <1>1, <1>5, <2>1, <2>2 DEF Settling, Deliver, SettleWithoutReply, jobFrame
<1>6. CASE OwnerActs
  BY <1>1, <1>6 DEF OwnerActs, TurnOff, BeginOn, FinishOn, Delete, Retire, Retired, Put,
     AskCancel, RetryDelivery, Dismiss, UpdateAlias, jobFrame, callFrame, durable
<1>7. CASE Sending
  BY <1>1, <1>7 DEF Sending, Flush, Cross, SendRefused, SendLater, SendUncertain, SendConfirmed, Answer, sendFrame
<1>8. CASE Lifecycle
  <2>1. CASE Die
    BY <2>1, DieSteps
  <2>2. CASE Start
    <3>1. run[r] \in RunRow
      BY Rows
    <3>2. run'[r].state \in {run[r].state, "failed"}
      BY <2>2, <3>1 DEF Start, RunRow
    <3> QED
      BY <3>2
  <2> QED
    BY <1>8, <2>1, <2>2 DEF Lifecycle, Stop, Torn
<1> QED
  BY <1>2, <1>3, <1>4, <1>5, <1>6, <1>7, <1>8 DEF Next, Dispatching

(* A run starts for the active request of a chat that is on and accepts its *)
(* author, and no other run of the conversation goes on: startRun() asks    *)
(* isChannelCurrent() behind the lock of the conversation, and whatever     *)
(* retired the request in the meantime let go of it.                        *)
THEOREM AuthorizedStarts == Spec => StartsAuthorized
<1>1. ASSUME IInv, Next, NEW r \in Requests, run[r].state = "none", run'[r].state = "live"
      PROVE  LET row == binding'[request[r].chat]
             IN /\ row.enabled
                /\ request[r].author = Owner \/ request[r].author \in row.access
                /\ request[r].status = "active"
                /\ \A q \in Requests \ {r} :
                     run[q].state = "live" /\ request[q].chat = request[r].chat
                       => q \in cancels \/ run[q].conversation # row.conversation
  <2>1. PICK k \in Chats : /\ Head1(k, "admission") /\ Admissible(k, Held(k)) /\ Held(k) = r
                           /\ AdmitRun(k) \/ LoseAdmission(k)
    BY <1>1, Launches
  <2>2. request[r].chat = k /\ phase = "up" /\ r # 0
    BY <1>1, <2>1, HeldJob, AtHead, RequestsAreNumbers
  <2>3. binding[k] \in BindingRow /\ ActiveInv(k)
    BY <1>1, Rows
  <2>4. binding[k].enabled /\ binding[k].active = r /\ ~Busy(k)
    BY <2>1 DEF Admissible, Current, Reserved
  <2>5. /\ request[r].author = Owner \/ request[r].author \in binding[k].access
        /\ request[r].status = "active"
    BY <1>1, <2>2, <2>3, <2>4 DEF ActiveInv, OverRun
  <2>6. /\ binding'[k].enabled = binding[k].enabled /\ binding'[k].access = binding[k].access
        /\ binding'[k].conversation = binding[k].conversation
    <3>1. CASE AdmitRun(k)
      BY <3>1 DEF AdmitRun
    <3>2. CASE LoseAdmission(k)
      <4>1. PICK a : binding' = [binding EXCEPT ![k].active = a]
        BY <2>1, <2>2, <2>4, <3>2 DEF LoseAdmission, GiveUp, Settle
      <4>2. binding'[k] = [binding[k] EXCEPT !.active = a]
        BY <1>1, <4>1, TableTypes, Rows
      <4> QED
        BY <2>3, <4>2 DEF BindingRow
    <3> QED
      BY <2>1, <3>1, <3>2
  <2> QED
    BY <2>2, <2>4, <2>5, <2>6 DEF Busy
<1>2. IInv /\ [Next]_vars =>
        [\A r \in Requests : run[r].state = "none" /\ run'[r].state = "live" =>
           LET row == binding'[request[r].chat]
           IN /\ row.enabled
              /\ request[r].author = Owner \/ request[r].author \in row.access
              /\ request[r].status = "active"
              /\ \A q \in Requests \ {r} :
                   run[q].state = "live" /\ request[q].chat = request[r].chat
                     => q \in cancels \/ run[q].conversation # row.conversation]_vars
  BY <1>1
<1> QED
  BY <1>2, ChannelInvariance, PTL DEF Spec, StartsAuthorized

-----------------------------------------------------------------------------
(***************************************************************************)
(* What holds as long as nothing in particular happens.                    *)
(***************************************************************************)

(* The three tables agree on what is active. *)
Agreed ==
  /\ \A r \in Requests : request[r].status = "active" => IsActive(r)
  /\ \A k \in Chats : LET a == binding[k].active IN a # 0 => request[a].status = "active" /\ turn[a] = "active"

(* The agreement survives every step the process survives. *)
LEMMA AgreedKept ==
  ASSUME IInv, Agreed, TypeOK', Moves, ~Torn
  PROVE  Agreed'
<1>1. ASSUME NEW r \in Requests, request'[r].status = "active"
      PROVE  binding'[request'[r].chat].active = r
  <2> DEFINE k == request[r].chat
  <2>1. /\ k \in Chats /\ r # 0 /\ binding[k] \in BindingRow
        /\ StatusStep(r) /\ BindingStep(k)
    BY Rows, RequestsAreNumbers DEF Moves
  <2>2. CASE Begins(r)
    <3>1. request[r].status # "absent"
      BY <2>2 DEF Begins
    <3> QED
      BY <2>1, <2>2, <3>1 DEF Begins, StatusStep
  <2>3. CASE request'[r].status = request[r].status
    <3>1. request'[r].chat = k /\ binding[k].active = r
      BY <1>1, <2>1, <2>3 DEF StatusStep, Agreed, IsActive
    <3>2. ~LetsGo(r)
      BY <1>1 DEF LetsGo
    <3>3. binding'[k] = [binding[k] EXCEPT !.version = binding'[k].version]
      BY <2>1, <3>1, <3>2 DEF BindingStep
    <3>4. binding'[k].active = r
      BY <2>1, <3>1, <3>3 DEF BindingRow
    <3> QED
      BY <3>1, <3>4
  <2> QED
    BY <1>1, <2>1, <2>2, <2>3 DEF StatusStep, Queues, Ends
<1>2. ASSUME NEW k \in Chats, binding'[k].active # 0
      PROVE  request'[binding'[k].active].status = "active" /\ turn'[binding'[k].active] = "active"
  <2>1. binding[k] \in BindingRow /\ BindingStep(k)
    BY Rows DEF Moves
  <2>2. CASE /\ binding'[k] = [binding[k] EXCEPT !.version = binding'[k].version]
             /\ binding[k].active # 0 => Stays(binding[k].active)
    <3>1. binding'[k].active = binding[k].active
      BY <2>1, <2>2 DEF BindingRow
    <3>2. PICK a : a = binding[k].active
      OBVIOUS
    <3>3. request'[a] = request[a] /\ turn'[a] = turn[a]
      BY <1>2, <2>2, <3>1, <3>2 DEF Stays
    <3> QED
      BY <1>2, <3>1, <3>2, <3>3 DEF Agreed
  <2>3. ASSUME NEW r \in Requests, binding'[k] = [binding[k] EXCEPT !.active = r, !.revision = @ + 1], Begins(r)
        PROVE  request'[binding'[k].active].status = "active" /\ turn'[binding'[k].active] = "active"
    <3>1. binding'[k].active = r
      BY <2>1, <2>3 DEF BindingRow
    <3> QED
      BY <2>3, <3>1 DEF Begins
  <2> QED
    BY <1>2, <2>1, <2>2, <2>3 DEF BindingStep
<1>3. (\A r \in Requests : request[r].status = "active" => IsActive(r))'
  BY <1>1 DEF IsActive
<1> QED
  BY <1>2, <1>3 DEF Agreed

(* Unless the process dies between two writes of one operation, the chat,   *)
(* the request and its turn agree on what is active: setEnabled(),          *)
(* putBinding(), settleRequest() and markTurnStatus() write one after the   *)
(* other, with no wait in between.                                          *)
THEOREM TablesAgree == Spec /\ [][~Torn]_vars => []Agreement
<1>1. Init => Agreed
  <2>1. Init => \A r \in Requests : request[r].status = "absent"
    BY DEF Init, NoRequest
  <2>2. Init => \A k \in Chats : binding[k].active = 0
    BY DEF Init, Row
  <2> QED
    BY <2>1, <2>2 DEF Agreed
<1>2. IInv /\ Agreed /\ [Next]_vars /\ [~Torn]_vars => Agreed'
  <2>1. ASSUME IInv, Agreed, Next, ~Torn PROVE Agreed'
    BY <2>1, NextMoves, AgreedKept
  <2>2. ASSUME Agreed, UNCHANGED vars PROVE Agreed'
    BY <2>2 DEF vars, durable, Agreed, IsActive
  <2> QED
    BY <2>1, <2>2
<1>3. IInv /\ Agreed => Agreement
  <2>1. SUFFICES ASSUME IInv, Agreed, NEW r \in Requests, NEW k \in Chats
                 PROVE  binding[k].active = r <=>
                          /\ request[r].status = "active" /\ request[r].chat = k
                          /\ binding[k].bound /\ binding[k].enabled
                          /\ binding[k].revision = request[r].revision
                          /\ turn[r] = "active"
    BY DEF Agreement
  <2>2. r # 0 /\ ActiveInv(k)
    BY <2>1, Rows, RequestsAreNumbers
  <2>3. CASE binding[k].active = r
    BY <2>1, <2>2, <2>3 DEF ActiveInv, Agreed
  <2>4. CASE binding[k].active # r
    BY <2>1, <2>4 DEF Agreed, IsActive
  <2> QED
    BY <2>3, <2>4
<1> QED
  BY <1>1, <1>2, <1>3, ChannelInvariance, PTL DEF Spec

(* Who is looked up is still queued, in a chat that has not been removed. *)
LookedUp ==
  \A k \in Chats : \A i \in DOMAIN work[k] :
    work[k][i].at = "identity" => binding[k].bound /\ request[work[k][i].r].status = "queued"

(* Who is looked up stays queued while no chat is removed. *)
LEMMA LookedUpKept ==
  ASSUME IInv, LookedUp, TypeOK', Moves, \A k \in Chats : binding[k].bound => binding'[k].bound
  PROVE  LookedUp'
<1>1. SUFFICES ASSUME NEW k \in Chats, NEW i \in DOMAIN work'[k], work'[k][i].at = "identity"
               PROVE  binding'[k].bound /\ request'[work'[k][i].r].status = "queued"
  BY DEF LookedUp
<1>2. CASE \E j \in DOMAIN work[k] : work'[k][i] = work[k][j]
  <2>1. PICK j \in DOMAIN work[k] : work'[k][i] = work[k][j]
    BY <1>2
  <2>2. PICK r : r = work[k][j].r
    OBVIOUS
  <2>3. r \in Requests /\ request[r].chat = k /\ binding[k].bound /\ request[r].status = "queued"
    BY <1>1, <2>1, <2>2, Rows DEF ChainInv, JobInv, LookedUp
  <2>4. ~NoneAt({"identity"}, r) /\ binding'[k].bound
    BY <1>1, <2>1, <2>2, <2>3 DEF NoneAt
  <2>5. StatusStep(r) /\ ~IsActive(r) /\ request[r].delivery = "none"
    <3>1. StatusStep(r) /\ RowInv(r) /\ ActiveInv(k) /\ r # 0
      BY <2>3, Rows, RequestsAreNumbers DEF Moves
    <3>2. ~IsActive(r)
      BY <2>3, <3>1 DEF IsActive, ActiveInv
    <3> QED
      BY <2>3, <3>1, <3>2 DEF RowInv
  <2>6. request'[r].status = "queued"
    BY <2>3, <2>4, <2>5 DEF StatusStep, Queues, Begins, Ends
  <2> QED
    BY <2>1, <2>2, <2>4, <2>6
<1>3. CASE NewJob(k, work'[k][i])
  <2>1. binding'[k].enabled /\ request'[work'[k][i].r].status = "queued"
    BY <1>1, <1>3 DEF NewJob
  <2> QED
    BY <2>1, ActiveKept DEF ActiveInv
<1> QED
  BY <1>2, <1>3 DEF Moves, ChainStep

(* As long as no chat is removed, nothing is replayed: what pump() takes    *)
(* from the queue and hands to an identity lookup is still queued when it   *)
(* becomes active, so that what ended stays ended.  A removal               *)
(* (deleteBinding) cancels queued requests beside the chain.                *)
THEOREM NoReplay ==
  Spec /\ [][\A k \in Chats : binding[k].bound => binding'[k].bound]_vars => NothingReplayed
<1> DEFINE Kept == \A k \in Chats : binding[k].bound => binding'[k].bound
<1>1. Init => LookedUp
  <2>1. Init => \A k \in Chats : work[k] = <<>> /\ DOMAIN work[k] = {}
    BY DEF Init
  <2> QED
    BY <2>1 DEF LookedUp
<1>2. IInv /\ LookedUp /\ [Next]_vars /\ [Kept]_vars => LookedUp'
  <2>1. ASSUME IInv, LookedUp, Next, Kept PROVE LookedUp'
    BY <2>1, NextMoves, LookedUpKept
  <2>2. ASSUME LookedUp, UNCHANGED vars PROVE LookedUp'
    BY <2>2 DEF vars, durable, volatile, LookedUp
  <2> QED
    BY <2>1, <2>2
<1>3. IInv /\ LookedUp /\ [Next]_vars => 
        [\A r \in Requests :
           /\ request[r].status = "active" => request'[r].status # "queued"
           /\ request[r].status \in Ended => request'[r].status \in Ended]_vars
  <2>1. ASSUME IInv, LookedUp, Next, NEW r \in Requests
        PROVE  /\ request[r].status = "active" => request'[r].status # "queued"
               /\ request[r].status \in Ended => request'[r].status \in Ended
    <3>1. StatusStep(r) /\ request[r] \in RequestRow /\ request'[r] \in RequestRow
      BY <2>1, NextMoves, Rows, TableTypes DEF Moves
    <3>2. ASSUME Begins(r) PROVE request[r].status = "queued"
      <4>1. PICK k \in Chats : Head1(k, "identity") /\ Held(k) = r
        BY <3>2 DEF Begins
      <4>2. 1 \in DOMAIN work[k] /\ Head(work[k]) = work[k][1]
        BY <2>1, <4>1, HeadJob, Rows DEF Head1
      <4> QED
        BY <2>1, <4>1, <4>2 DEF LookedUp, Head1, Held
    <3>3. request'[r].status # "queued" \/ request[r].status \in {"queued", "absent"}
      BY <3>1 DEF StatusStep, Queues, Begins, Ends
    <3>4. request[r].status \in Ended => request'[r].status \in Ended
      BY <3>1, <3>2 DEF StatusStep, Queues, Ends, Ended
    <3> QED
      BY <3>3, <3>4
  <2> QED
    BY <2>1
<1> QED
  BY <1>1, <1>2, <1>3, ChannelInvariance, PTL DEF Spec, NothingReplayed

(* The one way to switch a chat on. *)
LEMMA SettleSwitchesNothing ==
  ASSUME IInv, NEW r \in Requests, NEW row, Settle(r, row), NEW k \in Chats
  PROVE  binding'[k].enabled = binding[k].enabled
<1>1. PICK c \in Chats : \E a : binding' = [binding EXCEPT ![c].active = a]
  BY Rows DEF Settle
<1>2. PICK a : binding' = [binding EXCEPT ![c].active = a]
  BY <1>1
<1>3. binding'[k] = binding[k] \/ binding'[k] = [binding[k] EXCEPT !.active = a]
  BY <1>2, TableTypes, Rows
<1> QED
  BY <1>3, Rows DEF BindingRow

(* A chat is on after a step when it was, or no chat of the conversation is. *)
SwitchStep ==
  \/ \A k \in Chats : binding'[k].enabled => binding[k].enabled
  \/ \E k \in Chats, known \in Lookups : /\ ~Clash(k, known)
                                         /\ \A c \in Chats \ {k} : binding'[c] = binding[c]

(* Every action switches one chat on at most, having looked at the others. *)
LEMMA NextSwitches ==
  ASSUME IInv, Next
  PROVE  SwitchStep
<1>1. binding' = binding => SwitchStep
  BY DEF SwitchStep
<1>2. ASSUME NEW k \in Chats, Off(k) PROVE SwitchStep
  <2>1. binding' = Switch(k, FALSE)
    BY <1>2 DEF Off
  <2> QED
    BY <2>1, SwitchRow DEF SwitchStep
<1>3. ASSUME NEW r \in Requests, NEW row, Settle(r, row) PROVE SwitchStep
  BY <1>3, SettleSwitchesNothing DEF SwitchStep
<1>4. ASSUME NEW k \in Chats, NEW s, GiveUp(k, s), Head1(k, "admission") PROVE SwitchStep
  <2>1. Held(k) \in Requests
    BY <1>4, HeldJob
  <2> QED
    BY <1>1, <1>3, <1>4, <2>1 DEF GiveUp
<1>5. CASE Inbound
  <2>1. ASSUME NEW k \in Chats, AcceptCorrection(k) PROVE SwitchStep
    <3>1. PICK r \in Corrected(k, InboundMessage(k)) : RetireActive(r)
      BY <2>1 DEF AcceptCorrection
    <3>2. r \in Requests
      BY <3>1 DEF Corrected, Of
    <3> QED
      BY <1>3, <3>1, <3>2 DEF RetireActive
  <2>2. ASSUME NEW k \in Chats, FinishMessageOn(k) PROVE SwitchStep
    <3>1. PICK known \in Lookups : binding' = binding \/ (~Clash(k, known) /\ binding' = Switch(k, binding[k].bound))
      BY <2>2 DEF FinishMessageOn
    <3>2. PICK on : on = binding[k].bound
      OBVIOUS
    <3>3. on \in BOOLEAN
      BY <3>2, Rows, Columns
    <3>4. binding' = Switch(k, on) => \A c \in Chats \ {k} : binding'[c] = binding[c]
      BY <3>2, <3>3, SwitchRow
    <3> QED
      BY <1>1, <3>1, <3>2, <3>4 DEF SwitchStep
  <2> QED
    BY <1>1, <1>2, <1>5, <2>1, <2>2 DEF Inbound, Receive, Refuse, AcceptTask, QueueCorrection, MessageOff, BeginMessageOn,
       durable
<1>6. CASE Dispatching
  <2>1. ASSUME NEW k \in Chats, Dispatch(k) PROVE SwitchStep
    <3>1. CASE binding' = binding
      BY <1>1, <3>1
    <3>2. CASE binding' = [binding EXCEPT ![k].active = Held(k), ![k].revision = @ + 1]
      <4>1. binding'[k].enabled = binding[k].enabled /\ \A c \in Chats \ {k} : binding'[c] = binding[c]
        BY <3>2, TableTypes, Rows DEF BindingRow
      <4> QED
        BY <4>1 DEF SwitchStep
    <3> QED
      BY <2>1, <3>1, <3>2 DEF Dispatch
  <2> QED
    BY <1>1, <1>4, <1>6, <2>1 DEF Dispatching, StartPump, ContextRead, AdmitRun, RejectRun, LoseAdmission, durable
<1>7. CASE Settling
  <2>1. ASSUME NEW k \in Chats, Deliver(k) \/ SettleWithoutReply(k) PROVE SwitchStep
    <3>1. Held(k) \in Requests
      BY <2>1, HeldJob DEF Deliver, SettleWithoutReply
    <3> QED
      BY <1>1, <1>3, <2>1, <3>1 DEF Deliver, SettleWithoutReply
  <2> QED
    BY <1>1, <1>7, <2>1 DEF Settling, RunEnds, CancelRun
<1>8. CASE OwnerActs
  <2>1. ASSUME NEW k \in Chats, Retire(k) PROVE SwitchStep
    <3>1. Held(k) \in Requests
      BY <2>1, HeldJob DEF Retire
    <3> QED
      BY <1>1, <1>3, <2>1, <3>1 DEF Retire, RetireActive
  <2>2. ASSUME NEW k \in Chats, FinishOn(k) PROVE SwitchStep
    <3>1. CASE binding' = binding
      BY <1>1, <3>1
    <3>2. CASE binding[k].bound /\ binding' = Switch(k, TRUE) /\ \E known \in Lookups : ~Clash(k, known)
      BY <3>2, SwitchRow DEF SwitchStep
    <3> QED
      BY <2>2, <3>1, <3>2 DEF FinishOn
  <2>3. ASSUME NEW k \in Chats, NEW on \in BOOLEAN, NEW access, Put(k, on, access) PROVE SwitchStep
    <3>1. PICK b : binding' = [binding EXCEPT ![k] = b] /\ b.enabled = on
      <4>1. PICK old : old = binding[k]
        OBVIOUS
      <4>2. PICK b : b = IF old.bound
                         THEN Row(TRUE, on, access, old.version + 1, old.revision + 1, old.conversation)
                         ELSE Row(TRUE, on, access, 1, 1, old.conversation + 1)
        OBVIOUS
      <4>3. binding' = [binding EXCEPT ![k] = b]
        BY <2>3, <4>1, <4>2 DEF Put
      <4>4. b.enabled = on
        BY <4>2 DEF Row
      <4> QED
        BY <4>3, <4>4
    <3>2. binding'[k].enabled = on /\ \A c \in Chats \ {k} : binding'[c] = binding[c]
      BY <3>1, TableTypes, Rows
    <3>3. on => \E known \in Lookups : ~Clash(k, known)
      BY <2>3 DEF Put
    <3> QED
      BY <3>2, <3>3 DEF SwitchStep
  <2>4. ASSUME NEW k \in Chats, Delete(k) PROVE SwitchStep
    <3>1. binding'[k].enabled = FALSE /\ \A c \in Chats \ {k} : binding'[c] = binding[c]
      BY <2>4, TableTypes, Rows DEF Delete, Unbound, Row
    <3> QED
      BY <3>1 DEF SwitchStep
  <2>5. ASSUME UpdateAlias PROVE SwitchStep
    <3>1. \A k \in Chats : binding'[k] = binding[k] \/ binding'[k] = [binding[k] EXCEPT !.version = @ + 1]
      BY <2>5 DEF UpdateAlias
    <3>2. \A k \in Chats : binding'[k].enabled = binding[k].enabled
      BY <3>1, Rows DEF BindingRow
    <3> QED
      BY <3>2 DEF SwitchStep
  <2> QED
    BY <1>1, <1>2, <1>8, <2>1, <2>2, <2>3, <2>4, <2>5 DEF OwnerActs, TurnOff, BeginOn, Retired, AskCancel, RetryDelivery,
       Dismiss, durable
<1>9. CASE Sending
  BY <1>1, <1>9 DEF Sending, Flush, Cross, SendRefused, SendLater, SendUncertain, SendConfirmed, Answer, sendFrame
<1>10. CASE Lifecycle
  <2>1. CASE Start
    <3>1. \A k \in Chats : \E a : binding'[k] = [binding[k] EXCEPT !.active = a]
      BY <2>1 DEF Start
    <3>2. \A k \in Chats : binding'[k].enabled = binding[k].enabled
      BY <3>1, Rows DEF BindingRow
    <3> QED
      BY <3>2 DEF SwitchStep
  <2>2. CASE Torn
    <3>1. ASSUME NEW k \in Chats, TornOff(k) PROVE SwitchStep
      BY <3>1, SwitchRow DEF TornOff, SwitchStep
    <3> QED
      BY <1>1, <2>2, <3>1 DEF Torn, TornDelete
  <2> QED
    BY <1>1, <1>10, <2>1, <2>2 DEF Lifecycle, Stop
<1> QED
  BY <1>5, <1>6, <1>7, <1>8, <1>9, <1>10 DEF Next

(* Two chats of one conversation are never both on, as long as identity     *)
(* lookups answer: whoever switches a chat on, changeEnabled() or           *)
(* putBinding(), looks at the other ones after its last wait.               *)
THEOREM OneChatOfAConversation ==
  ASSUME Lookups = {TRUE},
         \A k \in DOMAIN InitialAccess : \A c \in Identities[k] \cap DOMAIN InitialAccess : c = k
  PROVE  Spec => []EquivalentExclusive
<1>1. Init => EquivalentExclusive
  <2>1. Init => \A k \in Chats : binding[k].enabled => k \in DOMAIN InitialAccess
    BY DEF Init, Row
  <2> QED
    BY <2>1 DEF EquivalentExclusive
<1>2. IInv /\ EquivalentExclusive /\ [Next]_vars => EquivalentExclusive'
  <2>1. ASSUME IInv, EquivalentExclusive, Next PROVE EquivalentExclusive'
    <3>1. SwitchStep
      BY <2>1, NextSwitches
    <3>2. CASE \A k \in Chats : binding'[k].enabled => binding[k].enabled
      BY <2>1, <3>2 DEF EquivalentExclusive
    <3>3. ASSUME NEW k \in Chats, ~Clash(k, TRUE), \A c \in Chats \ {k} : binding'[c] = binding[c]
          PROVE  EquivalentExclusive'
      <4>1. \A c \in Identities[k] \ {k} : ~binding[c].enabled
        BY <3>3 DEF Clash, Same
      <4>2. \A c \in Chats : k \in Identities[c] => c \in Identities[k]
        BY ChannelAssumption
      <4> QED
        BY <2>1, <3>3, <4>1, <4>2 DEF EquivalentExclusive
    <3> QED
      BY <3>1, <3>2, <3>3 DEF SwitchStep
  <2>2. ASSUME EquivalentExclusive, UNCHANGED vars PROVE EquivalentExclusive'
    BY <2>2 DEF vars, durable, EquivalentExclusive
  <2> QED
    BY <2>1, <2>2
<1> QED
  BY <1>1, <1>2, ChannelInvariance, PTL DEF Spec

(* A message is marked by the head of a chain, which then is done. *)
LEMMA NextHandles ==
  ASSUME IInv, Next
  PROVE  \/ handled' = handled
         \/ \E k \in Chats : /\ work[k] # <<>> /\ (Finish(k) \/ Pump(k))
                             /\ handled' = handled \cup {<<k, InboundMessage(k)>>}
<1>1. CASE Inbound
  <2>1. ASSUME NEW k \in Chats, Refuse(k) \/ AcceptTask(k) \/ QueueCorrection(k) \/ MessageOff(k) \/ FinishMessageOn(k)
        PROVE  \/ handled' = handled
               \/ /\ work[k] # <<>> /\ (Finish(k) \/ Pump(k))
                  /\ handled' = handled \cup {<<k, InboundMessage(k)>>}
    <3>1. work[k] # <<>>
      BY <2>1 DEF Refuse, AcceptTask, QueueCorrection, MessageOff, FinishMessageOn, Head1
    <3> QED
      BY <2>1, <3>1 DEF Refuse, AcceptTask, QueueCorrection, MessageOff, FinishMessageOn, QueueRequest
  <2> QED
    BY <1>1, <2>1 DEF Inbound, Receive, AcceptCorrection, BeginMessageOn, durable
<1>2. CASE Dispatching
  BY <1>2 DEF Dispatching, StartPump, Dispatch, ContextRead, AdmitRun, RejectRun, LoseAdmission, admissionFrame, durable
<1>3. CASE Settling
  BY <1>3 DEF Settling, RunEnds, CancelRun, Deliver, SettleWithoutReply
<1>4. CASE OwnerActs
  BY <1>4 DEF OwnerActs, TurnOff, BeginOn, FinishOn, Delete, Retire, Retired, Put, AskCancel, RetryDelivery, Dismiss,
     UpdateAlias, callFrame, durable
<1>5. CASE Sending
  BY <1>5 DEF Sending, Flush, Cross, SendRefused, SendLater, SendUncertain, SendConfirmed, Answer, sendFrame
<1>6. CASE Lifecycle
  BY <1>6 DEF Lifecycle, Start, Stop, Torn, TornOff, TornDelete
<1> QED
  BY <1>1, <1>2, <1>3, <1>4, <1>5, <1>6 DEF Next

(* The message of a correction that waits has not been handled in its chat. *)
Unhandled ==
  \A k \in Chats : Head1(k, "correcting") =>
    InboundMessage(k).kind = "correct" /\ <<k, InboundMessage(k)>> \notin handled

(* A correction that waits stays unhandled in its chat. *)
LEMMA UnhandledKept ==
  ASSUME IInv, Unhandled, Next
  PROVE  Unhandled'
<1>1. TypeOK' /\ Moves
  BY NextMoves
<1>2. SUFFICES ASSUME NEW k \in Chats, Head1(k, "correcting")'
               PROVE  InboundMessage(k)'.kind = "correct" /\ <<k, InboundMessage(k)'>> \notin handled'
  BY DEF Unhandled
<1>3. /\ work'[k] # <<>> /\ work'[k] \in Seq(JobRow) /\ 1 \in DOMAIN work'[k] /\ Head(work'[k]) = work'[k][1]
      /\ work'[k][1].at = "correcting" /\ InboundMessage(k)' = work'[k][1].m
  <2>1. work'[k] # <<>> /\ work'[k] \in Seq(JobRow)
    BY <1>1, <1>2, TableTypes DEF Head1
  <2>2. 1 \in DOMAIN work'[k] /\ Head(work'[k]) = work'[k][1]
    BY <2>1
  <2> QED
    BY <1>2, <2>1, <2>2 DEF Head1, InboundMessage
<1>4. "correcting" \notin Chained
  BY DEF Chained
<1>5. CASE \E j \in DOMAIN work[k] : work'[k][1] = work[k][j]
  <2>1. PICK j \in DOMAIN work[k] : work'[k][1] = work[k][j]
    BY <1>5
  <2>2. j = 1
    BY <1>3, <1>4, <2>1, Rows DEF ChainInv
  <2>3. /\ work[k] # <<>> /\ Head(work[k]) = work'[k][1]
    <3>1. work[k] \in Seq(JobRow)
      BY TableTypes, Rows
    <3> QED
      BY <2>1, <2>2, <3>1
  <2>4. Head1(k, "correcting") /\ InboundMessage(k) = work'[k][1].m
    BY <1>3, <2>3 DEF Head1, InboundMessage
  <2>5. ~Finish(k) /\ ~Pump(k)
    <3>1. ASSUME Finish(k) PROVE FALSE
      <4>1. work'[k][1] = work[k][1 + 1] /\ 1 + 1 \in DOMAIN work[k] /\ 1 + 1 # 1
        BY <1>3, <2>3, <3>1, FinishSteps, Rows
      <4>2. work'[k][1].at \in Chained
        BY <4>1, Rows DEF ChainInv
      <4> QED
        BY <1>3, <1>4, <4>2
    <3>2. ASSUME NEW r \in Requests, Proceed(k, Job("identity", r, NoMessage)) PROVE FALSE
      <4>1. PICK job : job = Job("identity", r, NoMessage)
        OBVIOUS
      <4>2. job \in JobRow /\ job.at = "identity"
        BY <4>1, JobFields, RequestsAreNumbers DEF Step
      <4>3. work'[k][1] = job
        BY <2>3, <3>2, <4>1, <4>2, ProceedSteps, Rows
      <4> QED
        BY <1>3, <4>2, <4>3
    <3> QED
      BY <3>1, <3>2, PumpSteps
  <2>6. <<k, InboundMessage(k)>> \notin handled'
    BY <2>4, <2>5, NextHandles DEF Unhandled
  <2> QED
    BY <1>3, <2>4, <2>6 DEF Unhandled
<1>6. CASE NewJob(k, work'[k][1])
  <2>1. PICK m : m = work'[k][1].m
    OBVIOUS
  <2>2. Head1(k, "inbound") /\ m = InboundMessage(k) /\ Fresh(k, m) /\ m.kind = "correct" /\ handled' = handled
    BY <1>3, <1>6, <2>1 DEF NewJob
  <2>3. k \in Identities[m.chat]
    BY <2>2, InboundJob
  <2> QED
    BY <1>3, <2>1, <2>2, <2>3 DEF Fresh
<1> QED
  BY <1>1, <1>3, <1>5, <1>6 DEF Moves, ChainStep

(* A message makes at most one request, whichever identity of its chat it   *)
(* comes through: queueRequest marks the message together with the request. *)
(* A correction is queued after a wait, without another look at the mark,   *)
(* and the wait holds the chain of one chat only: under two identities it   *)
(* may make two requests, in a chat with one identity it makes one.         *)
THEOREM NoSecondRequest ==
  ASSUME \A m \in Messages : m.kind = "correct" => Identities[m.chat] = {m.chat}
  PROVE  Spec => []OneRequestPerMessage
<1>1. Init => Unhandled /\ OneRequestPerMessage
  <2>1. Init => \A k \in Chats : work[k] = <<>>
    BY DEF Init
  <2>2. Init => \A r \in Requests : request[r].message = NoMessage
    BY DEF Init, NoRequest
  <2> QED
    BY <2>1, <2>2 DEF Unhandled, Head1, OneRequestPerMessage
<1>2. IInv /\ Unhandled /\ OneRequestPerMessage /\ [Next]_vars => Unhandled' /\ OneRequestPerMessage'
  <2>1. ASSUME IInv, Unhandled, OneRequestPerMessage, Next PROVE OneRequestPerMessage'
    <3>1. \A r \in Requests : StatusStep(r)
      BY <2>1, NextMoves DEF Moves
    <3>2. ASSUME NEW r \in Requests, Queues(r), NEW q \in Requests \ {r}, request[q].message # NoMessage
          PROVE  request'[r].message # request[q].message
      <4>1. PICK k \in Chats :
              /\ (Head1(k, "inbound") /\ Fresh(k, InboundMessage(k))) \/ Head1(k, "correcting")
              /\ request'[r].message = InboundMessage(k)
        BY <3>2 DEF Queues
      <4>2. PICK m : m = InboundMessage(k)
        OBVIOUS
      <4>3. m \in Messages /\ k \in Identities[m.chat]
        BY <2>1, <4>1, <4>2, InboundJob
      <4>4. SUFFICES ASSUME request[q].message = m PROVE FALSE
        BY <4>1, <4>2
      <4>5. request[q].chat \in Identities[m.chat] /\ <<request[q].chat, m>> \in handled
        BY <2>1, <3>2, <4>4, Rows DEF RowInv
      <4>6. CASE Head1(k, "inbound") /\ Fresh(k, m)
        BY <4>5, <4>6 DEF Fresh
      <4>7. CASE Head1(k, "correcting")
        <5>1. m.kind = "correct" /\ <<k, m>> \notin handled
          BY <2>1, <4>2, <4>7 DEF Unhandled
        <5>2. request[q].chat = k
          BY <4>3, <4>5, <5>1
        <5> QED
          BY <4>5, <5>1, <5>2
      <4> QED
        BY <4>1, <4>2, <4>6, <4>7
    <3>3. \A r \in Requests : request'[r].message = request[r].message \/ Queues(r)
      <4>1. ASSUME NEW r \in Requests, request[r].status = "absent" PROVE request[r].delivery = "none" /\ ~IsActive(r)
        BY <2>1, <4>1, Rows, ActiveIsCurrent, RequestsAreNumbers DEF RowInv, IsActive
      <4> QED
        BY <3>1, <4>1 DEF StatusStep, Begins, Ends
    <3>4. CASE \A r \in Requests : ~Queues(r)
      BY <2>1, <3>3, <3>4 DEF OneRequestPerMessage
    <3>5. ASSUME NEW r \in Requests, Queues(r) PROVE OneRequestPerMessage'
      <4>1. \A q \in Requests \ {r} : request'[q] = request[q]
        BY <3>5 DEF Queues
      <4> QED
        BY <2>1, <3>2, <3>5, <4>1 DEF OneRequestPerMessage
    <3> QED
      BY <3>4, <3>5
  <2>2. ASSUME Unhandled, OneRequestPerMessage, UNCHANGED vars PROVE Unhandled' /\ OneRequestPerMessage'
    BY <2>2 DEF vars, durable, volatile, Unhandled, Head1, InboundMessage, OneRequestPerMessage
  <2> QED
    BY <2>1, <2>2, UnhandledKept
<1> QED
  BY <1>1, <1>2, ChannelInvariance, PTL DEF Spec

=============================================================================
