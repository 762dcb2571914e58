--------------------------- MODULE MCTimestampRange ---------------------------
(***************************************************************************)
(* Four requests, one without commands and one whose only command brings   *)
(* its own key; the clock runs across the stamps 35 and 36, where a key    *)
(* gains a digit.                                                          *)
(***************************************************************************)
EXTENDS TimestampRange, TLC

BatchSizes == "r1" :> 2 @@ "r2" :> 1 @@ "r3" :> 3 @@ "r4" :> 0
OwnKeys == {<<"r2", 0>>}
=============================================================================
