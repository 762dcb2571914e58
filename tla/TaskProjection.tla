---------------------------- MODULE TaskProjection ----------------------------
(***************************************************************************)
(* The task side of read-model-updater: domain events reach it from the    *)
(* Domain Events Queue (many at a time, redelivered on failure) or as one  *)
(* HTTP post each. TaskService.Apply merges an event into the task's row   *)
(* of the read model under its ETag, the cache updater refreshes the Redis *)
(* entry, and the event is published for stream-service. What a refresh    *)
(* stores and what readers make of it is in TaskPages. All tasks belong to *)
(* one user.                                                               *)
(*                                                                         *)
(* One step is one call of storage or Redis. The value of a field is the   *)
(* event that set it.                                                      *)
(***************************************************************************)
EXTENDS Integers, FiniteSets

CONSTANTS
    Msg,          \* deliveries: queue messages and HTTP posts
    Task,         \* task identifiers: row keys
    Field,        \* fields of a task
    Ev,           \* the event in each message
    MaxAttempts,  \* host.json maxDequeueCount for a message; 1 for an HTTP post
    MaxFaults,    \* bound on the number of different faults in a behaviour
    ThrowAt,      \* the calls that may fail without effect
    LostReplyAt,  \* the writes that may be applied although the call fails
    Crashes       \* may the host die in the middle of an event?

Event == [task: Task, ts: Nat, fields: SUBSET Field,
          type: {"task-created", "task-updated", "task-completed", "task-reopened", "unknown"}]

Working == {"get", "insert", "update", "refresh", "publish", "return", "throw"}
Settled == {"acked", "poison"}
Control == {"queued", "crashed"} \cup Working \cup Settled
Incident == {"error", "lost reply", "crash"} \X Control \X Msg

ASSUME ProjectionAssumption ==
    /\ Ev \in [Msg -> Event]
    /\ MaxAttempts \in [Msg -> Nat \ {0}]
    /\ MaxFaults \in Nat
    /\ ThrowAt \subseteq Working
    /\ LostReplyAt \subseteq {"insert", "update"}
    /\ Crashes \in BOOLEAN

VARIABLES
    row,        \* the read model: task -> row
    announced,  \* messages whose event was published to stream-service
    pc,         \* control point of each message's handler
    dq,         \* delivery count
    seen,       \* the row as the handler read it last
    faults      \* the faults so far: what went wrong, in which call, of which message

vars == <<row, announced, pc, dq, seen, faults>>

(***************************************************************************)
(* A row: the timestamp of the event applied last, the event each field    *)
(* comes from, and the ETag, which every write changes.                    *)
(***************************************************************************)
NoVal == [f \in Field |-> {}]
NoRow == [ts |-> 0, val |-> NoVal, etag |-> 0]
Val == [Field -> SUBSET Msg]
Row == [ts: Nat, val: Val, etag: Nat]

\* The fields an event sets: all for a creation, Done for a completion or reopening.
Sets(m) == CASE Ev[m].type = "task-created" -> Field
             [] Ev[m].type = "task-updated" -> Ev[m].fields
             [] Ev[m].type \in {"task-completed", "task-reopened"} -> Field \cap {"done"}
             [] OTHER -> {}

\* InsertTask writes a whole row, UpdateTask merges the fields that are present.
Merge(m, r) == [ts   |-> Ev[m].ts,
                val  |-> [f \in Field |-> IF f \in Sets(m) THEN {m} ELSE r.val[f]],
                etag |-> r.etag + 1]

Init ==
    /\ row = [t \in Task |-> NoRow]
    /\ announced = {}
    /\ pc = [m \in Msg |-> "queued"]
    /\ dq = [m \in Msg |-> 0]
    /\ seen = [m \in Msg |-> NoRow]
    /\ faults = {}

Goto(m, c) == pc' = [pc EXCEPT ![m] = c]

-----------------------------------------------------------------------------
\* The host hands the event to the handler; an event of no known type fails at once.
Deliver(m) ==
    /\ pc[m] = "queued"
    /\ dq' = [dq EXCEPT ![m] = @ + 1]
    /\ Goto(m, IF Ev[m].type = "unknown" THEN "throw" ELSE "get")
    /\ UNCHANGED <<row, announced, seen, faults>>

\* Mutant: stale events are not refused.
GetTask_NoStaleCheck(m) ==
    LET r == row[Ev[m].task] IN
    /\ pc[m] = "get"
    /\ seen' = [seen EXCEPT ![m] = r]
    /\ Goto(m, CASE Ev[m].type = "task-created" /\ r = NoRow -> "insert"
                 [] Ev[m].type # "task-created" /\ r # NoRow /\ Sets(m) # {} -> "update"
                 [] OTHER -> "throw")
    /\ UNCHANGED <<row, announced, dq, faults>>

\* GetTask, and what Apply makes of the answer: a creation wants no row, the others want
\* a row that is older than the event.
GetTask(m) ==
    LET r == row[Ev[m].task] IN
    /\ pc[m] = "get"
    /\ seen' = [seen EXCEPT ![m] = r]
    /\ \/ /\ Ev[m].type = "task-created"
          /\ Goto(m, IF r = NoRow THEN "insert" ELSE "throw")
       \/ /\ Ev[m].type # "task-created"
          /\ Goto(m, IF r # NoRow /\ Sets(m) # {} /\ Ev[m].ts > r.ts
                     THEN "update" ELSE "throw")
    /\ UNCHANGED <<row, announced, dq, faults>>

\* AddEntity fails when the row exists by now.
InsertTask(m) ==
    LET t == Ev[m].task IN
    /\ pc[m] = "insert"
    /\ IF row[t] = NoRow
       THEN /\ row' = [row EXCEPT ![t] = Merge(m, NoRow)]
            /\ Goto(m, "refresh")
       ELSE Goto(m, "throw") /\ UNCHANGED row
    /\ UNCHANGED <<announced, dq, seen, faults>>

\* Mutants: a merge under any ETag; a replacement by the row as it was read; a conflict
\* after which the row is not read again.
UpdateTask_NoETag(m) ==
    /\ pc[m] = "update"
    /\ row' = [row EXCEPT ![Ev[m].task] = Merge(m, row[Ev[m].task])]
    /\ Goto(m, "refresh")
    /\ UNCHANGED <<announced, dq, seen, faults>>

UpdateTask_WritesSeen(m) ==
    /\ pc[m] = "update"
    /\ row' = [row EXCEPT ![Ev[m].task] = Merge(m, seen[m])]
    /\ Goto(m, "refresh")
    /\ UNCHANGED <<announced, dq, seen, faults>>

UpdateTask_NoReread(m) ==
    LET t == Ev[m].task IN
    /\ pc[m] = "update"
    /\ row[t].etag = seen[m].etag
    /\ row' = [row EXCEPT ![t] = Merge(m, row[t])]
    /\ Goto(m, "refresh")
    /\ UNCHANGED <<announced, dq, seen, faults>>

\* A merge under the ETag read before; on a conflict the row is read again.
UpdateTask(m) ==
    LET t == Ev[m].task IN
    /\ pc[m] = "update"
    /\ IF row[t].etag = seen[m].etag
       THEN /\ row' = [row EXCEPT ![t] = Merge(m, row[t])]
            /\ Goto(m, "refresh")
       ELSE Goto(m, "get") /\ UNCHANGED row
    /\ UNCHANGED <<announced, dq, seen, faults>>

-----------------------------------------------------------------------------
\* RefreshTasks leaves the read model alone.
RefreshTasks(m) ==
    /\ pc[m] = "refresh"
    /\ Goto(m, "publish")
    /\ UNCHANGED <<row, announced, dq, seen, faults>>

Publish(m) ==
    /\ pc[m] = "publish"
    /\ announced' = announced \cup {m}
    /\ Goto(m, "return")
    /\ UNCHANGED <<row, dq, seen, faults>>

Forget(m) == seen' = [seen EXCEPT ![m] = NoRow]

\* 200: the message is deleted.
Ack(m) ==
    /\ pc[m] = "return"
    /\ Goto(m, "acked")
    /\ Forget(m)
    /\ UNCHANGED <<row, announced, dq, faults>>

Retry(m) == IF dq[m] < MaxAttempts[m] THEN "queued" ELSE "poison"

\* 400: the message comes back after five seconds, or is poisoned.
Abandon(m) ==
    /\ pc[m] = "throw"
    /\ Goto(m, Retry(m))
    /\ Forget(m)
    /\ UNCHANGED <<row, announced, dq, faults>>

Reappear(m) ==
    /\ pc[m] = "crashed"
    /\ Goto(m, Retry(m))
    /\ UNCHANGED <<row, announced, dq, seen, faults>>

-----------------------------------------------------------------------------
Fault(kind, m) ==
    /\ Cardinality(faults) < MaxFaults
    /\ faults' = faults \cup {<<kind, pc[m], m>>}

\* Mutant: an error of the cache fails the event.
Throw_CacheFails(m) ==
    /\ pc[m] \in ThrowAt
    /\ Fault("error", m)
    /\ Goto(m, IF pc[m] = "publish" THEN "return" ELSE "throw")
    /\ UNCHANGED <<row, announced, dq, seen>>

\* A call fails: an error of Apply fails the event, one of the cache or of the channel
\* is logged.
Throw(m) ==
    /\ pc[m] \in ThrowAt
    /\ Fault("error", m)
    /\ Goto(m, CASE pc[m] = "refresh" -> "publish"
                 [] pc[m] = "publish" -> "return"
                 [] OTHER             -> "throw")
    /\ UNCHANGED <<row, announced, dq, seen>>

\* A write is applied and its answer lost: the client library's retry meets its own
\* write (an insert conflicts, an update is read again), or it gives up.
WriteReplyLost(m) ==
    LET t == Ev[m].task IN
    /\ pc[m] \in LostReplyAt
    /\ Fault("lost reply", m)
    /\ \/ pc[m] = "insert" /\ row[t] = NoRow /\ Goto(m, "throw")
       \/ pc[m] = "update" /\ row[t].etag = seen[m].etag /\ (Goto(m, "get") \/ Goto(m, "throw"))
    /\ row' = [row EXCEPT ![t] = Merge(m, row[t])]
    /\ UNCHANGED <<announced, dq, seen>>

Crash(m) ==
    /\ Crashes
    /\ pc[m] \in Working
    /\ Fault("crash", m)
    /\ Goto(m, "crashed")
    /\ Forget(m)
    /\ UNCHANGED <<row, announced, dq>>

Handle(m) ==
    \/ Deliver(m) \/ GetTask(m) \/ InsertTask(m) \/ UpdateTask(m)
    \/ RefreshTasks(m) \/ Publish(m)
    \/ Ack(m) \/ Abandon(m) \/ Reappear(m)

Next == \E m \in Msg : Handle(m) \/ Throw(m) \/ WriteReplyLost(m) \/ Crash(m)

Spec == Init /\ [][Next]_vars

\* The host runs every handler on and brings messages back.
FairSpec == Spec /\ \A m \in Msg : WF_vars(Handle(m))

-----------------------------------------------------------------------------
\* Every variable is within its type.
TypeOK ==
    /\ row \in [Task -> Row]
    /\ announced \subseteq Msg
    /\ pc \in [Msg -> Control]
    /\ dq \in [Msg -> Nat]
    /\ seen \in [Msg -> Row]
    /\ faults \subseteq Incident

\* A row only moves forward in event time: an event never lands on a row that has seen a
\* later one, also when two handlers read the row before either writes it.
RowsMoveForward ==
    [][\A t \in Task : row'[t] # row[t] => row[t] = NoRow \/ row'[t].ts > row[t].ts]_vars

\* A field that a row took from an event is only ever replaced by a later event's value:
\* no merge brings back what an earlier reader of the row saw.
FieldsMoveForward ==
    [][\A t \in Task, f \in Field : row'[t].val[f] # row[t].val[f] =>
          /\ row'[t].val[f] # {}
          /\ \A old \in row[t].val[f], new \in row'[t].val[f] :
                Ev[old].ts < Ev[new].ts]_vars

\* Every event is worked off, deleted or poisoned: the read-and-retry loop of Apply ends
\* however many handlers work on the same row.
EveryMessageSettles == \A m \in Msg : <>(pc[m] \in Settled)

\* What may cost the announcement of an event that a row has taken: a crash before it is
\* published, an error of the channel, or a lost answer to the write itself (the retry
\* and every redelivery then find the row as new as the event, and fail it).
LostForStream(m) ==
    \/ <<"error", "publish", m>> \in faults
    \/ \E c \in {"insert", "update"} : <<"lost reply", c, m>> \in faults
    \/ \E c \in {"refresh", "publish"} : <<"crash", c, m>> \in faults

\* What a row shows is announced to stream-service, or its handler is still on the way to
\* announcing it: other handlers' faults, refused redeliveries, conflicts and errors of
\* the cache cost no announcement; only the faults of the event's own handling listed
\* above do.
ShownIsAnnounced ==
    \A t \in Task, f \in Field : \A m \in row[t].val[f] :
        m \in announced \/ pc[m] \in {"refresh", "publish"} \/ LostForStream(m)

Quiet == \A m \in Msg : pc[m] \in Settled

\* docs/commands.md: updates of one field are "isolated": once all events are worked off,
\* every field of a task shows the latest of the events that set it.
NoChangeLost ==
    Quiet => \A m \in Msg : Sets(m) # {} /\ row[Ev[m].task] # NoRow =>
        \A f \in Sets(m) : \E n \in row[Ev[m].task].val[f] : Ev[n].ts >= Ev[m].ts

-----------------------------------------------------------------------------
(***************************************************************************)
(* The inductive invariant behind RowsMoveForward.                         *)
(***************************************************************************)

\* What a handler is about to write is newer than the row it read, and as long as the
\* ETag is the one it read, the row is the one it read.
ReadBeforeWrite ==
    /\ \A t \in Task : row[t] = NoRow <=> row[t].etag = 0
    /\ \A m \in Msg : pc[m] = "update" =>
          /\ seen[m].etag > 0 /\ seen[m].etag <= row[Ev[m].task].etag
          /\ seen[m].ts < Ev[m].ts
          /\ seen[m].etag = row[Ev[m].task].etag => seen[m] = row[Ev[m].task]
    /\ \A m \in Msg : pc[m] = "insert" => Ev[m].type = "task-created"

\* The fields of a row come from events that are not later than the row.
FieldsBehindRow ==
    \A t \in Task, f \in Field : \A m \in row[t].val[f] : Ev[m].ts <= row[t].ts

\* Types, what handlers have read, and where the fields of a row come from.
ProjectionInv == TypeOK /\ ReadBeforeWrite /\ FieldsBehindRow

=============================================================================
