----------------------------- MODULE MCTaskPages -----------------------------
(***************************************************************************)
(* An instance of TaskPages for TLC: a task is created between two others  *)
(* and the first one is changed.                                           *)
(***************************************************************************)
EXTENDS TaskPages

EventTask == [e \in Event |-> IF e = "create" THEN 2 ELSE 1]
=============================================================================
