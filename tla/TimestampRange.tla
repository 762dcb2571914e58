---------------------------- MODULE TimestampRange ----------------------------
(***************************************************************************)
(* How prism-api stamps the commands of a batch: nextTimestampRange        *)
(* reserves a contiguous range with a compare-and-swap loop over the       *)
(* process-wide lastTimestamp, finalizeCommands gives command i of the     *)
(* batch the i-th stamp of the range and, when the client sent no          *)
(* idempotency key, a key made of that stamp.                              *)
(*                                                                         *)
(* Requests run concurrently; the wall clock may stand still or jump back. *)
(***************************************************************************)
EXTENDS Integers, Sequences

CONSTANTS
    Req,     \* concurrent requests of one API process
    Size,    \* how many commands each request carries
    Keyed,   \* the commands <<r, i>> that come with a key of the client's own
    Clock    \* readings of time.Now().UnixNano()

ASSUME RangeAssumption ==
    /\ Size \in [Req -> Nat]
    /\ Clock \subseteq Nat

VARIABLES
    lastTimestamp,
    at,      \* "clock", "load", "cas" in nextTimestampRange; "done": it returned
    now,     \* the reading of the clock
    last,    \* the loaded lastTimestamp
    start    \* what nextTimestampRange returned

stampVars == <<lastTimestamp, at, now, last, start>>

StampInit ==
    /\ lastTimestamp = 0
    /\ at = [r \in Req |-> "clock"]
    /\ now = [r \in Req |-> 0]
    /\ last = [r \in Req |-> 0]
    /\ start = [r \in Req |-> 0]

Goto(r, c) == at' = [at EXCEPT ![r] = c]

\* A batch without commands gets no range; otherwise the clock is read.
ReadClock(r) ==
    /\ at[r] = "clock"
    /\ IF Size[r] = 0
       THEN Goto(r, "done") /\ UNCHANGED now
       ELSE \E t \in Clock : Goto(r, "load") /\ now' = [now EXCEPT ![r] = t]
    /\ UNCHANGED <<lastTimestamp, last, start>>

LoadLast(r) ==
    /\ at[r] = "load"
    /\ last' = [last EXCEPT ![r] = lastTimestamp]
    /\ Goto(r, "cas")
    /\ UNCHANGED <<lastTimestamp, now, start>>

\* Mutant: the last stamp taken is used again.
First_NoBump(r) == IF now[r] <= last[r] THEN last[r] ELSE now[r]

\* The first stamp of the range: the clock's, or the successor of the last one taken.
First(r) == IF now[r] <= last[r] THEN last[r] + 1 ELSE now[r]

\* Mutants: a plain store; a failed swap that is repeated as it is.
CompareAndSwap_Store(r) ==
    /\ at[r] = "cas"
    /\ lastTimestamp' = First(r) + Size[r] - 1
    /\ start' = [start EXCEPT ![r] = First(r)]
    /\ Goto(r, "done")
    /\ UNCHANGED <<now, last>>

CompareAndSwap_NoReload(r) ==
    /\ at[r] = "cas"
    /\ lastTimestamp = last[r]
    /\ lastTimestamp' = First(r) + Size[r] - 1
    /\ start' = [start EXCEPT ![r] = First(r)]
    /\ Goto(r, "done")
    /\ UNCHANGED <<now, last>>

CompareAndSwap(r) ==
    /\ at[r] = "cas"
    /\ IF lastTimestamp = last[r]
       THEN /\ lastTimestamp' = First(r) + Size[r] - 1
            /\ start' = [start EXCEPT ![r] = First(r)]
            /\ Goto(r, "done")
       ELSE /\ Goto(r, "clock")
            /\ UNCHANGED <<lastTimestamp, start>>
    /\ UNCHANGED <<now, last>>

Step(r) == ReadClock(r) \/ LoadLast(r) \/ CompareAndSwap(r)

StampNext == \E r \in Req : Step(r)

StampSpec == StampInit /\ [][StampNext]_stampVars

\* Every request's goroutine is scheduled.
FairStampSpec == StampSpec /\ \A r \in Req : WF_stampVars(Step(r))

-----------------------------------------------------------------------------
(***************************************************************************)
(* What finalizeCommands and applyCommandMetadata make of the range.       *)
(***************************************************************************)
Finished(r) == at[r] = "done" /\ Size[r] > 0

Timestamp(r, i) == start[r] + i

\* strconv.FormatInt(ts, 36): the digits of the stamp, most significant first.
FormatInt[n \in Nat] == IF n < 36 THEN <<n>> ELSE Append(FormatInt[n \div 36], n % 36)

\* Mutant: the key is made of the batch's first stamp.
IdempotencyKey_PerBatch(r, i) ==
    IF <<r, i>> \in Keyed THEN <<"client", r, i>> ELSE FormatInt[start[r]]

IdempotencyKey(r, i) ==
    IF <<r, i>> \in Keyed THEN <<"client", r, i>> ELSE FormatInt[Timestamp(r, i)]

-----------------------------------------------------------------------------
\* Every variable is within its type.
StampTypes ==
    /\ lastTimestamp \in Nat
    /\ at \in [Req -> {"clock", "load", "cas", "done"}]
    /\ now \in [Req -> Nat]
    /\ last \in [Req -> Nat]
    /\ start \in [Req -> Nat]

\* No two commands of the process share a timestamp, whichever requests they came with,
\* however their compare-and-swap loops interleave and wherever the clock jumps.
StampsUnique ==
    \A r, s \in Req : Finished(r) /\ Finished(s) =>
        \A i \in 0..(Size[r] - 1), j \in 0..(Size[s] - 1) :
            Timestamp(r, i) = Timestamp(s, j) => r = s /\ i = j

\* Two commands the clients sent without keys never get the same idempotency key.
GeneratedKeysUnique ==
    \A r, s \in Req : Finished(r) /\ Finished(s) =>
        \A i \in 0..(Size[r] - 1), j \in 0..(Size[s] - 1) :
            /\ <<r, i>> \notin Keyed /\ <<s, j>> \notin Keyed
            /\ IdempotencyKey(r, i) = IdempotencyKey(s, j)
            => r = s /\ i = j

\* The comment on nextTimestampRange, "monotonically increasing": a request that is
\* given its range later, in real time, is given later stamps than all before it.
LaterRequestsGetLaterStamps ==
    [][\A r, s \in Req : Finished(s) /\ ~Finished(r) /\ Finished(r)' =>
          start[s] + Size[s] - 1 < start'[r]]_stampVars

\* No request spins for ever: a failed compare-and-swap means another one succeeded.
EveryRequestStamped == \A r \in Req : <>(at[r] = "done")

-----------------------------------------------------------------------------
\* lastTimestamp is the end of the latest range; what a request has loaded is not ahead.
BehindLast ==
    /\ \A r \in Req : Finished(r) => start[r] + Size[r] - 1 <= lastTimestamp
    /\ \A r \in Req : at[r] \in {"load", "cas"} => Size[r] > 0

\* The inductive invariant: ranges end at or before lastTimestamp and do not overlap.
RangeInv == StampTypes /\ BehindLast /\ StampsUnique

=============================================================================
