------------------------ MODULE MCCommandProcessing ------------------------
(***************************************************************************)
(* Instances of CommandProcessing for TLC: which messages carry which      *)
(* command, and which calls may fail.                                      *)
(***************************************************************************)
EXTENDS CommandProcessing, TLC

CommandOf(type, ent, ts) ==
    [type |-> type, ent |-> ent, ts |-> ts, done |-> "keep", moves |-> FALSE]

\* A logout sent more than once by its client: all messages carry its key.
SameKeyOf == [m \in Msg |-> "k1"]
LogoutCmd == "k1" :> CommandOf("logout-user", "u1", 1)

\* A task's life, one message per command; the update and the reopening share a timestamp.
TaskLifeKeyOf == "m1" :> "k1" @@ "m2" :> "k2" @@ "m3" :> "k3" @@ "m4" :> "k4"
TaskLifeCmd == "k1" :> CommandOf("create-task", "t1", 1)
            @@ "k2" :> CommandOf("complete-task", "t1", 2)
            @@ "k3" :> [CommandOf("update-task", "t1", 3) EXCEPT !.moves = TRUE]
            @@ "k4" :> CommandOf("reopen-task", "t1", 3)

\* A first login sent twice, and a message no command can be made of.
LoginTwiceKeyOf == "m1" :> "k1" @@ "m2" :> "k1" @@ "m3" :> "k2"
LoginTwiceCmd == "k1" :> CommandOf("login-user", "u1", 1)
              @@ "k2" :> CommandOf("malformed", "u1", 2)

Calls == {"add", "get", "reclaim"} \cup Section
CallsButRelease == Calls \ {"fail"}
=============================================================================
