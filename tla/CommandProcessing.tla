-------------------------- MODULE CommandProcessing --------------------------
(***************************************************************************)
(* The command side of prism-plan: domain-service takes command messages   *)
(* off the Command Queue, reserves the command's idempotency key in the    *)
(* event table, stores the events the command produces, dispatches them to *)
(* the Domain Events Queue (or, failing that, over HTTP to the             *)
(* read-model-updater) and marks the key completed.                        *)
(*                                                                         *)
(* One step is one awaited call of a handler, so every interleaving of two *)
(* handlers, of a handler and the idempotency cleaner, and every call that *)
(* throws, that is applied but whose answer is lost, or that never returns *)
(* because the host died, is a behaviour of the model.                     *)
(*                                                                         *)
(* A message is worked on by at most one live handler (the queue keeps it  *)
(* invisible meanwhile), so the handler's locals are indexed by the        *)
(* message, and an invocation is the pair <<message, dequeue count>>. Two  *)
(* messages may carry the same command: a client that repeats a request    *)
(* repeats its idempotency key.                                            *)
(***************************************************************************)
EXTENDS Integers, Sequences

CONSTANTS
    Msg,          \* messages of the Command Queue
    Key,          \* idempotency keys
    KeyOf,        \* the idempotency key each message carries
    Cmd,          \* the command each key stands for
    Entity,       \* task and user identifiers
    Stamp,        \* timestamps of commands
    MaxDequeue,   \* host.json maxDequeueCount: then the message is poisoned
    MaxFaults,    \* bound on the number of faults in a behaviour
    ThrowAt,      \* the calls (by control point) that may throw, not applied
    LostReplyAt,  \* the calls that may be applied and still throw
    Crashes,      \* may the host die in the middle of a handler?
    SlowWorkers,  \* may a live handler outlast the 30 s processing lease?
    MaxEvents     \* bound on the rows a liveness property looks at

CommandTypes == {"create-task", "update-task", "complete-task", "reopen-task",
                 "login-user", "logout-user", "update-user-settings", "malformed"}

(***************************************************************************)
(* What a payload does to TaskState.Done: nothing, set it, clear it.       *)
(***************************************************************************)
DoneEffect == {"keep", "true", "false"}

EventTypes == {"task-created", "task-updated", "task-completed", "task-reopened",
               "user-created", "user-logged-in", "user-logged-out",
               "user-settings-created", "user-settings-updated"}

Command == [type: CommandTypes, ent: Entity, ts: Stamp,
            done: DoneEffect,   \* the "done" field of an update's payload
            moves: BOOLEAN]     \* an update whose category is set, and not "done"

Event == [key: Key, ent: Entity, type: EventTypes, ts: Stamp, done: DoneEffect]

(***************************************************************************)
(* Control points of a handler. "queued": visible in the queue; "add",     *)
(* "get", "reclaim": inside TryStartProcessing; "find": ReplayStoredEvents *)
(* looks the key up; "read": the aggregate is loaded; "store", "dispatch", *)
(* "fallback", "mark": one event is added, sent and flagged; "succeed",    *)
(* "fail": the idempotency row is settled; "return", "throw": the handler  *)
(* is over and the host has not yet told the queue; "crashed": the host    *)
(* died and the message is still invisible.                                *)
(***************************************************************************)
Section == {"find", "read", "store", "dispatch", "fallback", "mark", "succeed", "fail"}
Working == {"add", "get", "reclaim", "return", "throw"} \cup Section
Control == {"queued", "crashed", "acked", "poison"} \cup Working

ASSUME DomainAssumption ==
    /\ KeyOf \in [Msg -> Key]
    /\ Cmd \in [Key -> Command]
    /\ Stamp \subseteq Nat
    /\ MaxDequeue \in Nat \ {0}
    /\ MaxFaults \in Nat
    /\ ThrowAt \subseteq {"add", "get", "reclaim"} \cup Section
    /\ LostReplyAt \subseteq {"add", "reclaim", "store", "dispatch", "fallback", "mark",
                         "succeed", "fail"}
    /\ Crashes \in BOOLEAN
    /\ SlowWorkers \in BOOLEAN
    /\ MaxEvents \in Nat

VARIABLES
    idem,        \* the __idempotency__ partition: key -> row
    log,         \* event rows, in insertion order (InsertedAt)
    dispatched,  \* rows whose Dispatched flag is set
    sent,        \* <<row, path>>: events handed to the queue or posted over HTTP
    pc,          \* control point of each message's handler
    dq,          \* dequeue count of each message
    started,     \* handlers whose TryStartProcessing answered Started
    linked,      \* handlers that hold the current ETag of a row to reclaim
    pend,        \* rows the handler still has to dispatch and flag
    fresh,       \* events the handler still has to add
    sweep,       \* keys the cleaner has queried as Completed and not yet deleted
    faults       \* faults so far

locals == <<started, pend, fresh>>
vars == <<idem, linked, log, dispatched, sent, pc, dq, locals, sweep, faults>>

(***************************************************************************)
(* An idempotency row: its status, the invocation that wrote it, and       *)
(* whether 30 s have passed since. Every write gives the row a new ETag:   *)
(* a handler that read it before no longer holds the current one.          *)
(***************************************************************************)
NoRow == [status |-> "None", by |-> <<>>, stale |-> FALSE]
Row == [status: {"None", "Processing", "Completed"},
        by: (Msg \X Nat) \cup {<<>>}, stale: BOOLEAN]

Invocation(m) == <<m, dq[m]>>

CreateIdempotencyEntity(m, status) ==
    [status |-> status, by |-> Invocation(m), stale |-> FALSE]

WriteRow(k, row) ==
    /\ idem' = [idem EXCEPT ![k] = row]
    /\ linked' = {m \in linked : KeyOf[m] # k}

Init ==
    /\ idem = [k \in Key |-> NoRow]
    /\ log = <<>>
    /\ dispatched = {}
    /\ sent = {}
    /\ pc = [m \in Msg |-> "queued"]
    /\ dq = [m \in Msg |-> 0]
    /\ started = {}
    /\ linked = {}
    /\ pend = [m \in Msg |-> {}]
    /\ fresh = [m \in Msg |-> <<>>]
    /\ sweep = {}
    /\ faults = 0

-----------------------------------------------------------------------------
(***************************************************************************)
(* What the repositories answer.                                           *)
(***************************************************************************)
FindByIdempotencyKey(k) == {i \in DOMAIN log : log[i].key = k}

TaskTypes == {"task-created", "task-updated", "task-completed", "task-reopened"}

\* Get(taskId): the rows of the task's partition.
Get(t) == {i \in DOMAIN log : log[i].ent = t /\ log[i].type \in TaskTypes}

\* TaskStateBuilder.From finds a Title when a creation is among the events: the payloads
\* considered here carry a title that is not null, or none at all.
HasTitle(t) == \E i \in Get(t) : log[i].type = "task-created"

\* The values From may compute for Done: the last event, in timestamp order, that
\* touches Done decides; rows of equal timestamp come in the order of their random ids.
DoneValues(t) ==
    LET touching == {i \in Get(t) : log[i].done # "keep"}
        last == {i \in touching : \A j \in touching : log[j].ts <= log[i].ts}
    IN  IF last = {} THEN {FALSE} ELSE {log[i].done = "true" : i \in last}

\* IUserEventRepository.Exists(userId): does the user's partition hold any row?
Exists(u) == \E i \in DOMAIN log : log[i].ent = u /\ log[i].type \notin TaskTypes

(***************************************************************************)
(* The events a handler builds once its key is reserved and no event of    *)
(* the key is stored: the empty sequence when the command is a no-op. A    *)
(* created task's identifier is a new GUID in the code; here it is the     *)
(* entity of the command, so that later commands can name the task.        *)
(***************************************************************************)
NewEvent(k, type, done) ==
    [key |-> k, ent |-> Cmd[k].ent, type |-> type, ts |-> Cmd[k].ts, done |-> done]

CreateTask(k) == <<NewEvent(k, "task-created", "keep")>>

\* Mutant: the check that the task exists is missing.
UpdateTask_NoGuard(k, done) ==
    <<NewEvent(k, "task-updated", IF done /\ Cmd[k].moves THEN "false" ELSE Cmd[k].done)>>

UpdateTask(k, done) ==
    IF ~HasTitle(Cmd[k].ent) THEN <<>>
    ELSE <<NewEvent(k, "task-updated",
                    IF done /\ Cmd[k].moves THEN "false" ELSE Cmd[k].done)>>

CompleteTask(k, done) ==
    IF ~HasTitle(Cmd[k].ent) \/ done THEN <<>>
    ELSE <<NewEvent(k, "task-completed", "true")>>

ReopenTask(k, done) ==
    IF ~HasTitle(Cmd[k].ent) \/ ~done THEN <<>>
    ELSE <<NewEvent(k, "task-reopened", "false")>>

LoginUser(k) ==
    IF Exists(Cmd[k].ent)
    THEN <<NewEvent(k, "user-logged-in", "keep")>>
    ELSE <<NewEvent(k, "user-created", "keep"),
           NewEvent(k, "user-settings-created", "keep")>>

LogoutUser(k) == <<NewEvent(k, "user-logged-out", "keep")>>

UpdateUserSettings(k) == <<NewEvent(k, "user-settings-updated", "keep")>>

Produces(k, done) ==
    CASE Cmd[k].type = "create-task"   -> CreateTask(k)
      [] Cmd[k].type = "update-task"   -> UpdateTask(k, done)
      [] Cmd[k].type = "complete-task" -> CompleteTask(k, done)
      [] Cmd[k].type = "reopen-task"   -> ReopenTask(k, done)
      [] Cmd[k].type = "login-user"    -> LoginUser(k)
      [] Cmd[k].type = "logout-user"   -> LogoutUser(k)
      [] OTHER                         -> UpdateUserSettings(k)

-----------------------------------------------------------------------------
Goto(m, c) == pc' = [pc EXCEPT ![m] = c]

\* The host takes the message; a message no command can be made of throws at once.
Deliver(m) ==
    /\ pc[m] = "queued"
    /\ dq' = [dq EXCEPT ![m] = @ + 1]
    /\ Goto(m, IF Cmd[KeyOf[m]].type = "malformed" THEN "throw" ELSE "add")
    /\ UNCHANGED <<idem, linked, log, dispatched, sent, locals, sweep, faults>>

(***************************************************************************)
(* TryStartProcessing.                                                     *)
(***************************************************************************)
\* Mutant: the reservation is an upsert and never conflicts.
AddReservation_Upsert(m) ==
    /\ pc[m] = "add"
    /\ WriteRow(KeyOf[m], CreateIdempotencyEntity(m, "Processing"))
    /\ started' = started \cup {m}
    /\ Goto(m, "find")
    /\ UNCHANGED <<log, dispatched, sent, dq, pend, fresh, sweep, faults>>

AddReservation(m) ==
    LET k == KeyOf[m] IN
    /\ pc[m] = "add"
    /\ IF idem[k].status = "None"
       THEN /\ WriteRow(k, CreateIdempotencyEntity(m, "Processing"))
            /\ started' = started \cup {m}
            /\ Goto(m, "find")
       ELSE /\ Goto(m, "get")
            /\ UNCHANGED <<idem, linked, started>>
    /\ UNCHANGED <<log, dispatched, sent, dq, pend, fresh, sweep, faults>>

\* Mutant: a stale reservation is taken for a deleted one, and the insert is tried again.
GetIdempotencyRecord_Loops(m) ==
    LET row == idem[KeyOf[m]] IN
    /\ pc[m] = "get"
    /\ Goto(m, CASE row.status = "None" \/ row.stale -> "add"
                 [] row.status = "Completed"          -> "find"
                 [] OTHER                             -> "return")
    /\ UNCHANGED <<idem, linked, log, dispatched, sent, dq, started, pend, fresh, sweep, faults>>

GetIdempotencyRecord(m) ==
    LET row == idem[KeyOf[m]] IN
    /\ pc[m] = "get"
    /\ \/ /\ row.status = "None"              \* deleted meanwhile: insert again
          /\ Goto(m, "add")
          /\ UNCHANGED linked
       \/ /\ row.status = "Completed"         \* AlreadyProcessed
          /\ Goto(m, "find")
          /\ UNCHANGED linked
       \/ /\ row.status = "Processing" /\ row.stale
          /\ linked' = linked \cup {m}
          /\ Goto(m, "reclaim")
       \/ /\ row.status = "Processing" /\ ~row.stale
          /\ Goto(m, "return")                \* InProgress
          /\ UNCHANGED linked
    /\ UNCHANGED <<idem, log, dispatched, sent, dq, started, pend, fresh, sweep, faults>>

\* Mutant: the row is replaced whatever its ETag.
TryReclaimProcessing_NoETag(m) ==
    /\ pc[m] = "reclaim"
    /\ WriteRow(KeyOf[m], CreateIdempotencyEntity(m, "Processing"))
    /\ started' = started \cup {m}
    /\ Goto(m, "find")
    /\ UNCHANGED <<log, dispatched, sent, dq, pend, fresh, sweep, faults>>

TryReclaimProcessing(m) ==
    LET k == KeyOf[m] IN
    /\ pc[m] = "reclaim"
    /\ IF m \in linked
       THEN /\ WriteRow(k, CreateIdempotencyEntity(m, "Processing"))
            /\ started' = started \cup {m}
            /\ Goto(m, "find")
       ELSE /\ Goto(m, "return")
            /\ UNCHANGED <<idem, linked, started>>
    /\ UNCHANGED <<log, dispatched, sent, dq, pend, fresh, sweep, faults>>

(***************************************************************************)
(* ReplayStoredEvents up to its loop: a snapshot of the key's events and   *)
(* of their Dispatched flags.                                              *)
(***************************************************************************)
\* Mutant: a handler that was told Started does not look for stored events.
FindStored_NoReplay(m) ==
    LET todo == FindByIdempotencyKey(KeyOf[m]) \ dispatched IN
    /\ pc[m] = "find"
    /\ Goto(m, CASE m \in started -> "read" [] todo # {} -> "dispatch" [] OTHER -> "return")
    /\ pend' = [pend EXCEPT ![m] = IF m \in started THEN {} ELSE todo]
    /\ UNCHANGED <<idem, linked, log, dispatched, sent, dq, started, fresh, sweep, faults>>

FindStored(m) ==
    LET stored == FindByIdempotencyKey(KeyOf[m])
        todo   == stored \ dispatched
    IN  /\ pc[m] = "find"
        /\ Goto(m, CASE todo # {}                       -> "dispatch"
                     [] todo = {} /\ m \notin started    -> "return"
                     [] stored = {} /\ m \in started     -> "read"
                     [] OTHER                           -> "succeed")
        /\ pend' = [pend EXCEPT ![m] = todo]
        /\ UNCHANGED <<idem, linked, log, dispatched, sent, dq, started, fresh, sweep, faults>>

\* The aggregate is loaded and the events are built.
LoadAndBuild(m) ==
    LET k == KeyOf[m] IN
    /\ pc[m] = "read"
    /\ \E done \in DoneValues(Cmd[k].ent) :
          /\ fresh' = [fresh EXCEPT ![m] = Produces(k, done)]
          /\ Goto(m, IF Produces(k, done) = <<>> THEN "succeed" ELSE "store")
    /\ UNCHANGED <<idem, linked, log, dispatched, sent, dq, started, pend, sweep, faults>>

\* Add(ev): a row with Dispatched = false.
AddEvent(m) ==
    /\ log' = Append(log, Head(fresh[m]))
    /\ fresh' = [fresh EXCEPT ![m] = Tail(@)]

Add(m) ==
    /\ pc[m] = "store"
    /\ AddEvent(m)
    /\ pend' = [pend EXCEPT ![m] = {Len(log) + 1}]
    /\ Goto(m, "dispatch")
    /\ UNCHANGED <<idem, linked, dispatched, sent, dq, started, sweep, faults>>

\* The event a handler is busy with: the oldest it still has to dispatch.
Current(m, i) == i \in pend[m] /\ \A j \in pend[m] : i <= j

Dispatch(m) ==
    /\ pc[m] = "dispatch"
    /\ \E i \in pend[m] : Current(m, i) /\ sent' = sent \cup {<<i, "queue">>}
    /\ Goto(m, "mark")
    /\ UNCHANGED <<idem, linked, log, dispatched, dq, locals, sweep, faults>>

SendAsync(m) ==
    /\ pc[m] = "fallback"
    /\ \E i \in pend[m] : Current(m, i) /\ sent' = sent \cup {<<i, "http">>}
    /\ Goto(m, "mark")
    /\ UNCHANGED <<idem, linked, log, dispatched, dq, locals, sweep, faults>>

MarkAsDispatched(m) ==
    /\ pc[m] = "mark"
    /\ \E i \in pend[m] :
          /\ Current(m, i)
          /\ dispatched' = dispatched \cup {i}
          /\ pend' = [pend EXCEPT ![m] = @ \ {i}]
          /\ Goto(m, CASE pend[m] # {i}                         -> "dispatch"
                       [] pend[m] = {i} /\ fresh[m] # <<>>      -> "store"
                       [] pend[m] = {i} /\ fresh[m] = <<>>
                              /\ m \in started                 -> "succeed"
                       [] OTHER                                 -> "return")
    /\ UNCHANGED <<idem, linked, log, sent, dq, started, fresh, sweep, faults>>

\* An unconditional upsert.
MarkProcessingSucceeded(m) ==
    /\ pc[m] = "succeed"
    /\ WriteRow(KeyOf[m], CreateIdempotencyEntity(m, "Completed"))
    /\ Goto(m, "return")
    /\ UNCHANGED <<log, dispatched, sent, dq, locals, sweep, faults>>

\* Mutant: a failed handler leaves its reservation behind.
MarkProcessingFailed_Kept(m) ==
    /\ pc[m] = "fail"
    /\ Goto(m, "throw")
    /\ UNCHANGED <<idem, linked, log, dispatched, sent, dq, locals, sweep, faults>>

\* An unconditional delete (ETag.All); a 404 is ignored.
MarkProcessingFailed(m) ==
    /\ pc[m] = "fail"
    /\ WriteRow(KeyOf[m], NoRow)
    /\ Goto(m, "throw")
    /\ UNCHANGED <<log, dispatched, sent, dq, locals, sweep, faults>>

ResetLocals(m) ==
    /\ started' = started \ {m}
    /\ pend' = [pend EXCEPT ![m] = {}]
    /\ fresh' = [fresh EXCEPT ![m] = <<>>]

\* The function returned: the host deletes the message.
Ack(m) ==
    /\ pc[m] = "return"
    /\ Goto(m, "acked")
    /\ ResetLocals(m)
    /\ UNCHANGED <<idem, linked, log, dispatched, sent, dq, sweep, faults>>

\* The function threw: the message is visible again after one second, or poisoned.
Abandon(m) ==
    /\ pc[m] = "throw"
    /\ Goto(m, IF dq[m] < MaxDequeue THEN "queued" ELSE "poison")
    /\ ResetLocals(m)
    /\ UNCHANGED <<idem, linked, log, dispatched, sent, dq, sweep, faults>>

-----------------------------------------------------------------------------
(***************************************************************************)
(* Faults.                                                                 *)
(***************************************************************************)
Fault == faults < MaxFaults /\ faults' = faults + 1

\* Mutant: the handlers' catch does not throw again.
Catch_Swallowed(m) == IF m \in started /\ pc[m] # "fail" THEN "return" ELSE "throw"

\* Where an exception leads: the handlers' catch guards everything after Started.
Catch(m) == IF m \in started /\ pc[m] # "fail" THEN "fail" ELSE "throw"

\* A call throws and has had no effect (at "dispatch": the token was cancelled).
Throw(m) ==
    /\ pc[m] \in ThrowAt
    /\ Fault
    /\ Goto(m, Catch(m))
    /\ UNCHANGED <<idem, linked, log, dispatched, sent, dq, locals, sweep>>

\* The queue refuses the event, or takes it and the answer is lost: HTTP is next.
QueueUnavailable(m) ==
    /\ pc[m] = "dispatch"
    /\ "dispatch" \in ThrowAt
    /\ Fault
    /\ \/ UNCHANGED sent
       \/ /\ "dispatch" \in LostReplyAt
          /\ \E i \in pend[m] : Current(m, i) /\ sent' = sent \cup {<<i, "queue">>}
    /\ Goto(m, "fallback")
    /\ UNCHANGED <<idem, linked, log, dispatched, dq, locals, sweep>>

(***************************************************************************)
(* A reservation is written and the answer lost. The client library sends  *)
(* the request again and meets its own row: the insert conflicts, the      *)
(* conditional replace fails. Or the library gives up and throws.          *)
(***************************************************************************)
ReservationReplyLost(m) ==
    LET k == KeyOf[m] IN
    /\ pc[m] \in LostReplyAt
    /\ Fault
    /\ \/ /\ pc[m] = "add" /\ idem[k].status = "None"
          /\ \/ Goto(m, "get") \/ Goto(m, "throw")
       \/ /\ pc[m] = "reclaim" /\ m \in linked
          /\ \/ Goto(m, "return") \/ Goto(m, "throw")
    /\ WriteRow(k, CreateIdempotencyEntity(m, "Processing"))
    /\ UNCHANGED <<log, dispatched, sent, dq, locals, sweep>>

\* A write of the guarded part of a handler is applied and still throws.
WriteReplyLost(m) ==
    LET k == KeyOf[m] IN
    /\ pc[m] \in LostReplyAt
    /\ Fault
    /\ \/ /\ pc[m] = "store" /\ AddEvent(m)
          /\ UNCHANGED <<idem, linked, dispatched, sent, pend>>
       \/ /\ pc[m] = "fallback"
          /\ \E i \in pend[m] : Current(m, i) /\ sent' = sent \cup {<<i, "http">>}
          /\ UNCHANGED <<idem, linked, log, dispatched, pend, fresh>>
       \/ /\ pc[m] = "mark"
          /\ \E i \in pend[m] : Current(m, i) /\ dispatched' = dispatched \cup {i}
          /\ UNCHANGED <<idem, linked, log, sent, pend, fresh>>
       \/ /\ pc[m] = "succeed"
          /\ WriteRow(k, CreateIdempotencyEntity(m, "Completed"))
          /\ UNCHANGED <<log, dispatched, sent, pend, fresh>>
    /\ Goto(m, Catch(m))
    /\ UNCHANGED <<dq, started, sweep>>

\* The release is applied and the answer lost: the client library sends the delete again,
\* and it removes whatever reservation of the key is there by then (ETag.All). It takes a
\* fault to get here and the handler stays where it is, so this one needs no bound.
ReleaseReplyLost(m) ==
    /\ pc[m] = "fail" /\ "fail" \in LostReplyAt
    /\ WriteRow(KeyOf[m], NoRow)
    /\ UNCHANGED <<log, dispatched, sent, pc, dq, locals, sweep, faults>>

\* The host dies: locals are gone, the message stays invisible for a while.
Crash(m) ==
    /\ Crashes
    /\ pc[m] \in Working
    /\ Fault
    /\ Goto(m, "crashed")
    /\ ResetLocals(m)
    /\ UNCHANGED <<idem, linked, log, dispatched, sent, dq, sweep>>

\* The host's ten-minute invisibility outlasts the 30 s lease of the dead handler's row.
Reappear(m) ==
    LET row == idem[KeyOf[m]] IN
    /\ pc[m] = "crashed"
    /\ ~(row.status = "Processing" /\ row.by = Invocation(m) /\ ~row.stale)
    /\ Goto(m, IF dq[m] < MaxDequeue THEN "queued" ELSE "poison")
    /\ UNCHANGED <<idem, linked, log, dispatched, sent, dq, locals, sweep, faults>>

\* 30 s pass since a row was written. Unless workers are slow, its writer is done by then.
OwnerAtWork(row) == \E m \in Msg : row.by = Invocation(m) /\ pc[m] \in Working

Expire(k) ==
    /\ idem[k].status = "Processing" /\ ~idem[k].stale
    /\ SlowWorkers \/ ~OwnerAtWork(idem[k])
    /\ idem' = [idem EXCEPT ![k].stale = TRUE]
    /\ UNCHANGED <<linked, log, dispatched, sent, pc, dq, locals, sweep, faults>>

-----------------------------------------------------------------------------
(***************************************************************************)
(* idempotency-cleaner: query the completed rows, then delete each by key, *)
(* without an ETag; a delete that fails is logged and skipped.             *)
(***************************************************************************)
CleanerQuery ==
    /\ sweep = {}
    /\ sweep' = {k \in Key : idem[k].status = "Completed"}
    /\ UNCHANGED <<idem, linked, log, dispatched, sent, pc, dq, locals, faults>>

CleanerDelete(k) ==
    /\ k \in sweep
    /\ \/ WriteRow(k, NoRow)
       \/ UNCHANGED <<idem, linked>>
    /\ sweep' = sweep \ {k}
    /\ UNCHANGED <<log, dispatched, sent, pc, dq, locals, faults>>

-----------------------------------------------------------------------------
Handle(m) ==
    \/ Deliver(m) \/ AddReservation(m) \/ GetIdempotencyRecord(m)
    \/ TryReclaimProcessing(m) \/ FindStored(m) \/ LoadAndBuild(m) \/ Add(m)
    \/ Dispatch(m) \/ SendAsync(m) \/ MarkAsDispatched(m)
    \/ MarkProcessingSucceeded(m) \/ MarkProcessingFailed(m)
    \/ Ack(m) \/ Abandon(m) \/ Reappear(m)

Break(m) ==
    \/ Throw(m) \/ QueueUnavailable(m) \/ ReservationReplyLost(m)
    \/ WriteReplyLost(m) \/ ReleaseReplyLost(m) \/ Crash(m)

Next ==
    \/ \E m \in Msg : Handle(m) \/ Break(m)
    \/ \E k \in Key : Expire(k) \/ CleanerDelete(k)
    \/ CleanerQuery

Spec == Init /\ [][Next]_vars

\* Handlers run on, abandoned and invisible messages come back, and time passes.
Fairness == /\ \A m \in Msg : WF_vars(Handle(m))
            /\ \A k \in Key : WF_vars(Expire(k))

FairSpec == Spec /\ Fairness

-----------------------------------------------------------------------------
(***************************************************************************)
(* Properties.                                                             *)
(***************************************************************************)

\* Every variable, the idempotency rows and the handlers' locals included, stays
\* within its type; pending rows exist in the event table.
TypeOK ==
    /\ idem \in [Key -> Row]
    /\ log \in Seq(Event)
    /\ dispatched \subseteq DOMAIN log
    /\ sent \subseteq (DOMAIN log) \X {"queue", "http"}
    /\ pc \in [Msg -> Control]
    /\ dq \in [Msg -> Nat]
    /\ started \subseteq Msg
    /\ linked \subseteq Msg
    /\ pend \in [Msg -> SUBSET DOMAIN log]
    /\ fresh \in [Msg -> Seq(Event)]
    /\ sweep \subseteq Key
    /\ faults \in Nat

\* A command's events are stored once: whatever is retried, redelivered, reclaimed or
\* cleaned up, no key has two events of one type (docs/es_design.md: "retries never
\* emit duplicate events").
NoDuplicateEvents ==
    \A i, j \in DOMAIN log :
        log[i].key = log[j].key /\ log[i].type = log[j].type => i = j

Reached(i) == \E via \in {"queue", "http"} : <<i, via>> \in sent

\* A key is only recorded as Completed when every event stored for it has been handed
\* to the read side: a later delivery may then skip the command (AlreadyProcessed).
CompletedMeansReached ==
    \A k \in Key : idem[k].status = "Completed" =>
        \A i \in FindByIdempotencyKey(k) : Reached(i)

\* The Dispatched flag is never ahead of the dispatch itself: a row whose flag is set,
\* and which no replay will send again, did reach the queue or the updater.
FlagMeansReached == \A i \in dispatched : Reached(i)

\* No update, completion or reopening is stored for a task that was never created,
\* although the aggregate is read in one call and the event added in a later one.
NoOrphanEvents ==
    \A i \in DOMAIN log : log[i].type \in TaskTypes => HasTitle(log[i].ent)

\* A completed first login has given the user both a profile and the initial settings
\* (docs/events.md: user-settings-created, "Initial settings created for user").
FirstLoginCreatesSettings ==
    \A k \in Key : idem[k].status = "Completed" =>
        LET types == {log[i].type : i \in FindByIdempotencyKey(k)}
        IN  "user-created" \in types => "user-settings-created" \in types

\* Every event that is stored eventually reaches the read side.
StoredEventsReachReadSide ==
    \A i \in 1..MaxEvents : (i \in DOMAIN log) ~> (i \in DOMAIN log /\ Reached(i))

\* A command that is never a no-op has its event stored in the end, however often
\* its handler fails or dies, as long as its message is not poisoned.
CommandsTakeEffect ==
    \A k \in Key :
        Cmd[k].type \in {"create-task", "login-user", "logout-user", "update-user-settings"}
            => <>(FindByIdempotencyKey(k) # {})

\* Nobody waits for ever: every message ends up deleted or poisoned, whatever fails,
\* although a key can be taken, released and cleaned up again while a handler that lost
\* the race for it goes round the insert-and-look-up loop of TryStartProcessing.
EveryMessageSettles == \A m \in Msg : <>(pc[m] \in {"acked", "poison"})

\* At most one profile is created for a user (docs/commands.md: login-user is "creating
\* the user if they do not exist").
UserCreatedOnce ==
    \A i, j \in DOMAIN log :
        /\ log[i].type = "user-created" /\ log[j].type = "user-created"
        /\ log[i].ent = log[j].ent
        => i = j

\* The handlers, whatever fails around them, do what CommandEffects promises: each
\* step stores one new event, publishes a stored one, settles or forgets a key.
Effects == INSTANCE CommandEffects
             WITH Path <- {"queue", "http"},
                  settled <- {k \in Key : idem[k].status = "Completed"}

ImplementsCommandEffects == Effects!Spec

-----------------------------------------------------------------------------
(***************************************************************************)
(* The inductive invariant behind NoDuplicateEvents,                       *)
(* CompletedMeansReached and the refinement. It holds when live handlers   *)
(* keep within their lease, no Completed row is deleted by the handler     *)
(* that wrote it, and no release is sent twice.                            *)
(***************************************************************************)
Timely == ~SlowWorkers /\ "succeed" \notin LostReplyAt /\ "fail" \notin LostReplyAt

\* A handler that was told Started owns a fresh Processing row until it settles it.
Owns(m) == idem[KeyOf[m]] = [status |-> "Processing", by |-> Invocation(m), stale |-> FALSE]
OwnsRow == \A m \in Msg : m \in started /\ pc[m] \in Section => Owns(m)

\* Only a stale Processing row is ever about to be reclaimed.
LinkedStale == \A m \in linked :
                  idem[KeyOf[m]].status = "Processing" /\ idem[KeyOf[m]].stale

\* Whatever the cleaner is about to delete is still Completed.
SweepCompleted == \A k \in sweep : idem[k].status = "Completed"

\* Where the guarded part of a handler can be.
ControlOK == \A m \in Msg :
    /\ pc[m] \in {"read", "store", "succeed", "fail"} => m \in started
    /\ pc[m] \in {"queued", "crashed", "add", "get", "reclaim"} => m \notin started
    /\ pc[m] \in {"add", "get", "reclaim", "queued", "crashed", "find", "read"} => fresh[m] = <<>>
    /\ pc[m] = "store" => fresh[m] # <<>>
    /\ fresh[m] # <<>> => m \in started

\* What a handler is going to add is new for its key, one event of each type.
FreshIsNew == \A m \in Msg :
    /\ \A a \in DOMAIN fresh[m] : fresh[m][a].key = KeyOf[m]
    /\ \A a, b \in DOMAIN fresh[m] : fresh[m][a].type = fresh[m][b].type => a = b
    /\ pc[m] \in Section =>
          \A i \in FindByIdempotencyKey(KeyOf[m]), a \in DOMAIN fresh[m] :
              log[i].type # fresh[m][a].type

\* What is stored for a key and not yet flagged is what its owner still has to send.
NothingForgotten == \A m \in Msg : m \in started =>
    LET undispatched == FindByIdempotencyKey(KeyOf[m]) \ dispatched IN
    /\ pc[m] = "read" => FindByIdempotencyKey(KeyOf[m]) = {}
    /\ pc[m] \in {"store", "succeed"} => undispatched = {}
    /\ pc[m] \in {"dispatch", "fallback", "mark"} => undispatched \subseteq pend[m]

\* An event about to be flagged has been sent.
MarkAfterSend == \A m \in Msg : pc[m] = "mark" =>
    \A i \in pend[m] : Current(m, i) => Reached(i)

\* All of it together: who owns a key's row, what a handler has yet to add and to send,
\* and what of it is already in the table.
HandlerInv ==
    /\ OwnsRow /\ LinkedStale /\ SweepCompleted /\ ControlOK
    /\ FreshIsNew /\ NothingForgotten /\ MarkAfterSend
    /\ NoDuplicateEvents /\ CompletedMeansReached /\ FlagMeansReached

=============================================================================
