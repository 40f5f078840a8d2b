----------------------- MODULE MCWhatsAppAgentChannel -----------------------
(* Small instances of WhatsAppAgentChannel for TLC.                         *)
EXTENDS WhatsAppAgentChannel

CONSTANTS phone, linked, owner, ana

(* One chat, or a chat under its phone and its linked identity. *)
OneChat == phone :> {phone}
TwoNames == (phone :> {phone, linked}) @@ (linked :> {phone, linked})

OnlyOwner == phone :> {}
AcceptsAna == phone :> {ana}

Message(id, k, p, kind) == [id |-> id, chat |-> k, author |-> p, kind |-> kind, target |-> 0]
Task(id, p) == Message(id, phone, p, "task")
Correct(id, p, r) == [Message(id, phone, p, "correct") EXCEPT !.target = r]

Limits(edits, switches, recoveries, messages, faults, torn, outages) ==
  ("edits" :> edits) @@ ("switches" :> switches) @@ ("recoveries" :> recoveries) @@
  ("messages" :> messages) @@ ("faults" :> faults) @@ ("torn" :> torn) @@ ("outages" :> outages)

(* chat: two people and corrections in one chat, the owner edits and switches it *)
ChatMessages == {Task("m1", owner), Task("m2", ana), Correct("m3", ana, 0), Correct("m4", ana, 1)}
ChatLimit == Limits(1, 1, 1, 2, 1, 0, 0)

(* crash: the process stops, also between two writes *)
CrashMessages == {Task("m1", owner), Task("m2", ana)}
CrashLimit == Limits(0, 1, 1, 2, 0, 1, 1)

(* names: messages and switches under both identities *)
NamesMessages ==
  {Task("m1", owner), Message("m2", linked, owner, "on"), Message("m3", phone, owner, "off")}
NamesLimit == Limits(1, 2, 0, 3, 0, 0, 1)

(* replies: two requests of the owner, the connection and the process go down and up *)
RepliesMessages == {Task("m1", owner), Task("m2", owner)}
RepliesLimit == Limits(1, 0, 1, 2, 0, 0, 1)

=============================================================================
