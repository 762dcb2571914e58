--------------------------- MODULE MCTaskProjection ---------------------------
(***************************************************************************)
(* Instances of TaskProjection for TLC: which events are delivered.        *)
(***************************************************************************)
EXTENDS TaskProjection, TLC

E(type, t, ts, fields) == [type |-> type, task |-> t, ts |-> ts, fields |-> fields]

\* A task's creation, a renaming and a completion, and an event of no known type.
OneTask == "m1" :> E("task-created", 1, 1, {})
        @@ "m2" :> E("task-updated", 1, 2, {"title"})
        @@ "m3" :> E("task-completed", 1, 3, {})
        @@ "m4" :> E("unknown", 1, 4, {})

\* Queue messages, and an HTTP post.
Attempts == [m \in Msg |-> IF m = "m4" THEN 1 ELSE 2]
=============================================================================
