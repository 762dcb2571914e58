--------------------------- MODULE MCCommandSender ---------------------------
(***************************************************************************)
(* Four requests, one of them with an empty batch.                         *)
(***************************************************************************)
EXTENDS CommandSender, TLC

Batches == "r1" :> {"a", "b"} @@ "r2" :> {"a"} @@ "r3" :> {"b"} @@ "r4" :> {}
=============================================================================
