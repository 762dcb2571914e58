------------------------- MODULE MCSettingsProjection -------------------------
(***************************************************************************)
(* Instances of SettingsProjection for TLC: which events are delivered.    *)
(***************************************************************************)
EXTENDS SettingsProjection, TLC

E(type, ts, sets) == [type |-> type, ts |-> ts, sets |-> sets]

\* A first login and two changes of settings.
FirstDay == "m1" :> E("user-created", 1, {})
         @@ "m2" :> E("user-settings-created", 1, {})
         @@ "m3" :> E("user-settings-updated", 2, {"showDoneTasks"})
         @@ "m4" :> E("user-settings-updated", 3, {"tasksPerCategory"})
=============================================================================
