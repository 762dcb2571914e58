---------------------------- MODULE MCStreamService ----------------------------
(***************************************************************************)
(* Instances of StreamService for TLC: who is connected and what is        *)
(* published.                                                              *)
(***************************************************************************)
EXTENDS StreamService, TLC

M(u, kind) == [user |-> u, kind |-> kind]

\* Ann watches from two windows.
TwoWindows == "c1" :> "ann" @@ "c2" :> "ann"

\* Events of two users share the channels; one is of a kind that is not streamed.
MixedFeeds == "tasks" :> <<M("ann", "task"), M("bob", "ignored"), M("ann", "task")>>
           @@ "settings" :> <<M("bob", "user-settings")>>
=============================================================================
