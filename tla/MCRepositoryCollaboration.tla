---------------------- MODULE MCRepositoryCollaboration ----------------------
(* Small instances of RepositoryCollaboration for TLC.                      *)
EXTENDS RepositoryCollaboration

CONSTANTS home, work, ana, bea, cy, app, docs, web

(* docs lies inside app and is linked to another group. *)
FolderOf == (app :> <<"src", "app">>) @@ (docs :> <<"src", "app", "docs">>) @@ (web :> <<"src", "web">>)
TwoGroups == (app :> work) @@ (web :> work) @@ (docs :> home)
OneGroup == (app :> work) @@ (web :> work)
OneFolder == app :> work
TwoFolders == (app :> work) @@ (docs :> home)

Ask(id, g, p, R) ==
  [id |-> id, group |-> g, sender |-> p, kind |-> "work", names |-> R,
   target |-> 0, reply |-> FALSE, epoch |-> 1]
Continue(id, g, p, t) == [Ask(id, g, p, {}) EXCEPT !.target = t]
ReplyTo(id, g, p, t) == [Continue(id, g, p, t) EXCEPT !.reply = TRUE]
Cancel(id, g, p, t) == [Continue(id, g, p, t) EXCEPT !.kind = "cancel"]
Status(id, g, p, t) == [Continue(id, g, p, t) EXCEPT !.kind = "status"]

Limits(changes, cancels, retries, deliveries, outages, torn) ==
  ("changes" :> changes) @@ ("cancels" :> cancels) @@ ("retries" :> retries) @@
  ("deliveries" :> deliveries) @@ ("outages" :> outages) @@ ("torn" :> torn)

(* queue: two groups, overlapping folders, a conversation of two authors *)
QueueMessages == {Ask("m1", work, ana, {app, web}), Ask("m2", home, bea, {}), Continue("m3", work, bea, 1), Continue("m4", work, ana, 1)}
QueueGrants == (ana :> {app, web}) @@ (bea :> {app, web, docs})
QueueLimit == Limits(0, 1, 0, 3, 1, 0)

(* access: the owner changes what two people may ask for *)
AccessMessages == {Ask("m1", work, ana, {app, web}), Continue("m2", work, bea, 1)}
AccessGrants == (ana :> {app, web}) @@ (bea :> {app, web})
AccessLimit == Limits(2, 1, 1, 2, 1, 0)

(* Both may use the only folder. *)
BothGrants == (ana :> {app}) @@ (bea :> {app})

(* delivery: bea may not see what ana asks for; cy is the linked account; the program may *)
(* die between two writes of an owner change                                           *)
DeliveryMessages == {Ask("m1", work, ana, {app}), Status("m2", work, ana, 1)}
DeliveryGrants == (ana :> {app}) @@ (bea :> {}) @@ (cy :> {})
DeliveryLimit == Limits(1, 1, 0, 2, 1, 1)

(* drain: a request and the turn that continues it, over one folder *)
DrainMessages == {Ask("m1", work, ana, {}), Continue("m2", work, bea, 1)}
DrainLimit == Limits(0, 0, 0, 2, 1, 0)

=============================================================================
