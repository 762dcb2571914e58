-------------------------- MODULE SettingsProjection --------------------------
(***************************************************************************)
(* The user side of read-model-updater, for one user: UserService.Apply    *)
(* stores the profile and the settings, the cache updater copies the       *)
(* settings to Redis and the event is published for stream-service. Unlike *)
(* tasks, settings are written without an ETag: what was read before may   *)
(* be old by then. prism-api reads the settings from Redis or the table.   *)
(*                                                                         *)
(* One step is one call of storage or Redis. The value of a setting is the *)
(* event that set it.                                                      *)
(***************************************************************************)
EXTENDS Integers, FiniteSets

CONSTANTS
    Msg,          \* deliveries: queue messages and HTTP posts
    Setting,      \* tasksPerCategory, showDoneTasks
    Ev,           \* the event in each message
    MaxAttempts,  \* host.json maxDequeueCount
    MaxAtWork,    \* how many events are worked on at a time (host.json batchSize)
    MaxFaults,    \* bound on the number of faults in a behaviour
    ThrowAt,      \* the calls that may fail without effect
    Crashes       \* may the host die in the middle of an event?

Event == [ts: Nat \ {0}, sets: SUBSET Setting,
          type: {"user-created", "user-logged-in", "user-logged-out",
                 "user-settings-created", "user-settings-updated", "unknown"}]

Working == {"user", "get", "upsert", "merge", "load", "set", "publish", "return", "throw"}
Settled == {"acked", "poison"}

ASSUME SettingsAssumption ==
    /\ Ev \in [Msg -> Event]
    /\ MaxAttempts \in Nat \ {0}
    /\ MaxAtWork \in Nat \ {0}
    /\ MaxFaults \in Nat
    /\ ThrowAt \subseteq Working
    /\ Crashes \in BOOLEAN

VARIABLES
    profile,    \* the events whose user row is stored: the last one, or none
    row,        \* the settings row
    cache,      \* the settings entry in Redis
    announced,  \* messages whose event was published to stream-service
    pc,         \* control point of each message's handler
    dq,         \* delivery count
    seen,       \* the row as the handler read it before its write
    loaded,     \* the row the cache updater of a handler has read
    faults      \* faults so far

vars == <<profile, row, cache, announced, pc, dq, seen, loaded, faults>>

\* A row: the event time it claims, and the event each setting comes from ({}: default).
NoRow == [ts |-> 0, val |-> [f \in Setting |-> {}]]
Row == [ts: Nat, val: [Setting -> SUBSET Msg]]

\* The settings an event carries: a creation carries all of them.
Sets(m) == IF Ev[m].type = "user-settings-created" THEN Setting ELSE Ev[m].sets

\* UpsertUserSettings writes a whole row, UpdateUserSettings the settings that are present.
Whole(m) == [ts |-> Ev[m].ts, val |-> [f \in Setting |-> IF f \in Sets(m) THEN {m} ELSE {}]]

\* Mutant: an update writes the settings that are absent too.
Merged_Whole(m, r) == [ts |-> Ev[m].ts, val |-> [f \in Setting |-> {m}]]
Merged(m, r) == [ts |-> Ev[m].ts, val |-> [f \in Setting |-> IF f \in Sets(m) THEN {m} ELSE r.val[f]]]

Init ==
    /\ profile = {}
    /\ row = NoRow
    /\ cache = NoRow
    /\ announced = {}
    /\ pc = [m \in Msg |-> "queued"]
    /\ dq = [m \in Msg |-> 0]
    /\ seen = [m \in Msg |-> NoRow]
    /\ loaded = [m \in Msg |-> NoRow]
    /\ faults = 0

Goto(m, c) == pc' = [pc EXCEPT ![m] = c]

AtWork == {m \in Msg : pc[m] \in Working}

-----------------------------------------------------------------------------
\* The host hands the event to the handler; logging in and out leaves no trace in the
\* read model, and an event of no known type fails at once.
Deliver(m) ==
    /\ pc[m] = "queued"
    /\ Cardinality(AtWork) < MaxAtWork
    /\ dq' = [dq EXCEPT ![m] = @ + 1]
    /\ Goto(m, CASE Ev[m].type = "user-created" -> "user"
                 [] Ev[m].type \in {"user-logged-in", "user-logged-out"} -> "publish"
                 [] Ev[m].type \in {"user-settings-created", "user-settings-updated"} -> "get"
                 [] OTHER -> "throw")
    /\ UNCHANGED <<profile, row, cache, announced, seen, loaded, faults>>

UpsertUser(m) ==
    /\ pc[m] = "user"
    /\ profile' = {m}
    /\ Goto(m, "publish")
    /\ UNCHANGED <<row, cache, announced, dq, seen, loaded, faults>>

\* Mutant: stale updates are not refused.
GetUserSettings_NoStaleCheck(m) ==
    /\ pc[m] = "get"
    /\ seen' = [seen EXCEPT ![m] = row]
    /\ Goto(m, CASE row = NoRow -> "upsert"
                 [] row # NoRow /\ Ev[m].type = "user-settings-updated" -> "merge"
                 [] OTHER -> "throw")
    /\ UNCHANGED <<profile, row, cache, announced, dq, loaded, faults>>

\* GetUserSettings, and what Apply makes of the answer: a creation wants no row; an update
\* makes one where there is none, and else wants an older one and something to set.
GetUserSettings(m) ==
    /\ pc[m] = "get"
    /\ seen' = [seen EXCEPT ![m] = row]
    /\ \/ /\ row = NoRow
          /\ Goto(m, "upsert")
       \/ /\ row # NoRow /\ Ev[m].type = "user-settings-created"
          /\ Goto(m, "throw")
       \/ /\ row # NoRow /\ Ev[m].type = "user-settings-updated"
          /\ Goto(m, IF Ev[m].ts > row.ts /\ Sets(m) # {} THEN "merge" ELSE "throw")
    /\ UNCHANGED <<profile, row, cache, announced, dq, loaded, faults>>

\* An unconditional upsert.
UpsertUserSettings(m) ==
    /\ pc[m] = "upsert"
    /\ row' = Whole(m)
    /\ Goto(m, "load")
    /\ UNCHANGED <<profile, cache, announced, dq, seen, loaded, faults>>

\* A merge under ETagAny.
UpdateUserSettings(m) ==
    /\ pc[m] = "merge"
    /\ row' = Merged(m, row)
    /\ Goto(m, "load")
    /\ UNCHANGED <<profile, cache, announced, dq, seen, loaded, faults>>

\* RefreshSettings reads the row (rows are never deleted, so there is one) ...
LoadSettings(m) ==
    /\ pc[m] = "load"
    /\ loaded' = [loaded EXCEPT ![m] = row]
    /\ Goto(m, "set")
    /\ UNCHANGED <<profile, row, cache, announced, dq, seen, faults>>

\* ... and stores it, never as older than the event.
SetCache(m) ==
    /\ pc[m] = "set"
    /\ cache' = [loaded[m] EXCEPT !.ts = IF @ < Ev[m].ts THEN Ev[m].ts ELSE @]
    /\ Goto(m, "publish")
    /\ UNCHANGED <<profile, row, announced, dq, seen, loaded, faults>>

\* Mutant: the entry never expires.
Expire_Never == FALSE /\ UNCHANGED vars

\* Redis drops the entry when its time to live has passed.
Expire ==
    /\ cache # NoRow
    /\ cache' = NoRow
    /\ UNCHANGED <<profile, row, announced, pc, dq, seen, loaded, faults>>

\* prism-api answers GET /settings from the entry, or else from the table.
FetchSettings == IF cache # NoRow THEN cache.val ELSE row.val

Publish(m) ==
    /\ pc[m] = "publish"
    /\ announced' = announced \cup {m}
    /\ Goto(m, "return")
    /\ UNCHANGED <<profile, row, cache, dq, seen, loaded, faults>>

Forget(m) ==
    /\ seen' = [seen EXCEPT ![m] = NoRow]
    /\ loaded' = [loaded EXCEPT ![m] = NoRow]

\* 200: the message is deleted.
Ack(m) ==
    /\ pc[m] = "return"
    /\ Goto(m, "acked")
    /\ Forget(m)
    /\ UNCHANGED <<profile, row, cache, announced, dq, faults>>

Retry(m) == IF dq[m] < MaxAttempts THEN "queued" ELSE "poison"

\* 400: the message comes back after five seconds, or is poisoned.
Abandon(m) ==
    /\ pc[m] = "throw"
    /\ Goto(m, Retry(m))
    /\ Forget(m)
    /\ UNCHANGED <<profile, row, cache, announced, dq, faults>>

Reappear(m) ==
    /\ pc[m] = "crashed"
    /\ Goto(m, Retry(m))
    /\ UNCHANGED <<profile, row, cache, announced, dq, seen, loaded, faults>>

-----------------------------------------------------------------------------
Fault == faults < MaxFaults /\ faults' = faults + 1

\* A call fails: an error of Apply fails the event, one of the cache or of the channel
\* is logged.
Throw(m) ==
    /\ pc[m] \in ThrowAt
    /\ Fault
    /\ Goto(m, CASE pc[m] \in {"load", "set"} -> "publish"
                 [] pc[m] = "publish"         -> "return"
                 [] OTHER                     -> "throw")
    /\ UNCHANGED <<profile, row, cache, announced, dq, seen, loaded>>

Crash(m) ==
    /\ Crashes
    /\ pc[m] \in Working
    /\ Fault
    /\ Goto(m, "crashed")
    /\ Forget(m)
    /\ UNCHANGED <<profile, row, cache, announced, dq>>

Handle(m) ==
    \/ Deliver(m) \/ UpsertUser(m) \/ GetUserSettings(m) \/ UpsertUserSettings(m)
    \/ UpdateUserSettings(m) \/ LoadSettings(m) \/ SetCache(m) \/ Publish(m)
    \/ Ack(m) \/ Abandon(m) \/ Reappear(m)

Next == (\E m \in Msg : Handle(m) \/ Throw(m) \/ Crash(m)) \/ Expire

Spec == Init /\ [][Next]_vars

\* The host runs every handler on, brings messages back and gives each its turn; Redis
\* drops entries in the end.
FairSpec ==
    /\ Spec
    /\ \A m \in Msg : SF_vars(Deliver(m)) /\ WF_vars(Handle(m))
    /\ WF_vars(Expire)

-----------------------------------------------------------------------------
\* Every variable is within its type, and a setting shows an event that sets it.
TypeOK ==
    /\ profile \subseteq Msg
    /\ row \in Row /\ \A f \in Setting : \A m \in row.val[f] : f \in Sets(m)
    /\ cache \in Row
    /\ announced \subseteq Msg
    /\ pc \in [Msg -> {"queued", "crashed"} \cup Working \cup Settled]
    /\ dq \in [Msg -> Nat]
    /\ seen \in [Msg -> Row]
    /\ loaded \in [Msg -> Row]
    /\ faults \in Nat

\* m writes the settings, and the row is no longer the one it read.
WritesOvertaken(m) == pc[m] \in {"upsert", "merge"} /\ pc'[m] # pc[m] /\ seen[m] # row

\* Settings only move forward in event time ("expected error for stale settings update",
\* read-model-updater/domain/orchestrator_test.go); the one step that may take them back
\* is the write of a handler that was overtaken between its read and its write, for
\* which the code has no ETag.
SettingsMoveForward ==
    [][row' # row => row'.ts > row.ts \/ \E m \in Msg : WritesOvertaken(m)]_vars

\* The inductive invariant: types, and what Apply has read before it writes. It makes a
\* row only having seen none, and merges only an event that is newer than what it saw.
SettingsInv ==
    /\ TypeOK
    /\ \A m \in Msg : pc[m] = "upsert" => seen[m] = NoRow
    /\ \A m \in Msg : pc[m] = "merge" => seen[m] # NoRow /\ seen[m].ts < Ev[m].ts

\* Once events stop, GET /settings shows the settings row in the end and for good: two
\* refreshes that cross may leave an older copy of the row in Redis, but not for ever.
SettingsCatchUp == <>[](FetchSettings = row.val)

=============================================================================
