------------------------ MODULE TaskProjection_proofs ------------------------
(***************************************************************************)
(* For any events, deliveries and failures: the rows of the task read      *)
(* model, and each of their fields, only move forward in event time, and   *)
(* what they show is announced unless a fault of its own handling cost it. *)
(***************************************************************************)
EXTENDS TaskProjection, TLAPS

\* An event's task, timestamp and fields, and what a merge makes of a row.
LEMMA MergeType ==
    ASSUME NEW m \in Msg, NEW r \in Row
    PROVE  /\ Ev[m].task \in Task /\ Ev[m].ts \in Nat
           /\ Sets(m) \subseteq Field
           /\ Merge(m, r) \in Row
           /\ Merge(m, r).ts = Ev[m].ts
           /\ Merge(m, r).etag = r.etag + 1
           /\ \A f \in Field : Merge(m, r).val[f] = IF f \in Sets(m) THEN {m} ELSE r.val[f]
<1>1. Ev[m] \in Event
  BY ProjectionAssumption
<1>2. Sets(m) \subseteq Field
  BY <1>1 DEF Sets, Event
<1>3. QED
  BY <1>1, <1>2 DEF Merge, Row, Val, Event

\* The initial constants are of their types.
LEMMA NoTypes ==
    NoVal \in Val /\ NoRow \in Row
<1>1. NoVal \in Val
  BY DEF NoVal, Val
<1>2. QED
  BY <1>1 DEF NoRow, Row

\* A step of a handler that writes the read model merges the handler's event into a row
\* that does not exist, or into the very row the handler read; all others leave it alone.
LEMMA WriteShape ==
    ASSUME TypeOK, NEW m \in Msg, Handle(m) \/ Throw(m) \/ WriteReplyLost(m) \/ Crash(m)
    PROVE  \/ row' = row
           \/ LET t == Ev[m].task IN
              /\ row' = [row EXCEPT ![t] = Merge(m, row[t])]
              /\ \/ pc[m] = "insert" /\ row[t] = NoRow
                 \/ pc[m] = "update" /\ row[t].etag = seen[m].etag
              /\ pc'[m] # "insert"
              /\ pc'[m] # "update"
BY DEF TypeOK, Handle, Deliver, GetTask, InsertTask, UpdateTask, RefreshTasks, Publish,
       Ack, Abandon, Reappear, Retry, Throw, WriteReplyLost, Crash, Goto

\* The record of faults stays within its type.
LEMMA FaultType ==
    ASSUME TypeOK, NEW m \in Msg, NEW kind \in {"error", "lost reply", "crash"}, Fault(kind, m)
    PROVE  faults' \subseteq Incident
<1>1. pc[m] \in Control
  BY DEF TypeOK
<1>2. <<kind, pc[m], m>> \in Incident
  BY <1>1 DEF Incident
<1>3. QED
  BY <1>2 DEF TypeOK, Fault

\* Every step keeps the variables within their types.
LEMMA TypeStep == ASSUME TypeOK, [Next]_vars PROVE TypeOK'
<1>1. CASE UNCHANGED vars
  BY <1>1 DEF vars, TypeOK
<1>2. ASSUME NEW m \in Msg, Deliver(m) \/ GetTask(m) PROVE TypeOK'
  <2>1. CASE Deliver(m)
    BY <2>1 DEF TypeOK, Deliver, Goto, Control, Working
  <2>2. CASE GetTask(m)
    <3>1. row[Ev[m].task] \in Row
      BY MergeType, NoTypes DEF TypeOK
    <3>2. pc' \in [Msg -> Control]
      BY <2>2 DEF TypeOK, GetTask, Goto, Control, Working
    <3>3. QED
      BY <2>2, <3>1, <3>2 DEF TypeOK, GetTask
  <2>3. QED
    BY <1>2, <2>1, <2>2
<1>3. ASSUME NEW m \in Msg, InsertTask(m) \/ UpdateTask(m) \/ WriteReplyLost(m) PROVE TypeOK'
  <2>1. Ev[m].task \in Task /\ Ev[m].ts \in Nat /\ row[Ev[m].task] \in Row /\ Merge(m, row[Ev[m].task]) \in Row
    BY MergeType, NoTypes DEF TypeOK
  <2>3. CASE InsertTask(m)
    <3>1. pc' \in [Msg -> Control]
      BY <2>3 DEF TypeOK, InsertTask, Goto, Control, Working
    <3>2. row' \in [Task -> Row]
      BY <2>1, <2>3 DEF TypeOK, InsertTask
    <3>3. QED
      BY <2>3, <3>1, <3>2 DEF TypeOK, InsertTask
  <2>4. CASE UpdateTask(m)
    BY <2>1, <2>4 DEF TypeOK, UpdateTask, Goto, Control, Working
  <2>5. CASE WriteReplyLost(m)
    <3>1. pc' \in [Msg -> Control]
      BY <2>5 DEF TypeOK, WriteReplyLost, Goto, Control, Working
    <3>2. faults' \subseteq Incident
      BY <2>5, FaultType DEF WriteReplyLost
    <3>3. QED
      BY <2>1, <2>5, <3>1, <3>2 DEF TypeOK, WriteReplyLost
  <2>6. QED
    BY <1>3, <2>3, <2>4, <2>5
<1>4. ASSUME NEW m \in Msg, RefreshTasks(m) \/ Publish(m) PROVE TypeOK'
  BY <1>4, NoTypes DEF TypeOK, RefreshTasks, Publish, Goto, Control, Working
<1>5. ASSUME NEW m \in Msg, Ack(m) \/ Abandon(m) \/ Reappear(m) PROVE TypeOK'
  <2>1. pc' \in [Msg -> Control]
    BY <1>5 DEF TypeOK, Ack, Abandon, Reappear, Retry, Goto, Control, Settled
  <2>2. seen' \in [Msg -> Row]
    BY <1>5, NoTypes DEF TypeOK, Ack, Abandon, Reappear, Forget
  <2>3. QED
    BY <1>5, <2>1, <2>2 DEF TypeOK, Ack, Abandon, Reappear
<1>6. ASSUME NEW m \in Msg, Throw(m) \/ Crash(m) PROVE TypeOK'
  <2>1. pc' \in [Msg -> Control]
    BY <1>6 DEF TypeOK, Throw, Crash, Goto, Control, Working
  <2>2. seen' \in [Msg -> Row]
    BY <1>6, NoTypes DEF TypeOK, Throw, Crash, Forget
  <2>3. faults' \subseteq Incident
    BY <1>6, FaultType DEF Throw, Crash
  <2>4. QED
    BY <1>6, <2>1, <2>2, <2>3 DEF TypeOK, Throw, Crash
<1>7. QED
  BY <1>1, <1>2, <1>3, <1>4, <1>5, <1>6 DEF Next, Handle

\* The first state satisfies the inductive invariant.
LEMMA ProjectionInit == Init => ProjectionInv
<1> SUFFICES ASSUME Init PROVE ProjectionInv
  OBVIOUS
<1>1. TypeOK
  BY NoTypes DEF Init, TypeOK, Control
<1>2. ReadBeforeWrite
  BY DEF Init, ReadBeforeWrite, NoRow
<1>3. FieldsBehindRow
  BY DEF Init, FieldsBehindRow, NoRow, NoVal
<1>4. QED
  BY <1>1, <1>2, <1>3 DEF ProjectionInv

\* When a handler writes, its event is later than the row; the row's fields follow.
LEMMA WriteIsLater ==
    ASSUME ProjectionInv, NEW m \in Msg, NEW t \in Task, t = Ev[m].task,
           \/ pc[m] = "insert" /\ row[t] = NoRow
           \/ pc[m] = "update" /\ row[t].etag = seen[m].etag
    PROVE  /\ row[t] = NoRow \/ row[t].ts < Ev[m].ts
           /\ row[t] = NoRow => Sets(m) = Field
           /\ \A f \in Field : \A old \in row[t].val[f] : Ev[old].ts < Ev[m].ts
<1>1. Ev[m].ts \in Nat /\ row[t] \in Row
  BY MergeType, NoTypes DEF ProjectionInv, TypeOK
<1>2. CASE pc[m] = "insert" /\ row[t] = NoRow
  BY <1>2 DEF ProjectionInv, ReadBeforeWrite, Sets, NoRow, NoVal
<1>3. CASE pc[m] = "update" /\ row[t].etag = seen[m].etag
  <2>1. row[t] # NoRow /\ row[t].ts < Ev[m].ts
    BY <1>3 DEF ProjectionInv, ReadBeforeWrite, NoRow
  <2>2. ASSUME NEW f \in Field, NEW old \in row[t].val[f]
        PROVE  Ev[old].ts < Ev[m].ts
    <3>1. old \in Msg
      BY <1>1 DEF Row, Val
    <3>2. Ev[old].ts \in Nat /\ Ev[old].ts <= row[t].ts
      BY <3>1, MergeType, NoTypes DEF ProjectionInv, FieldsBehindRow
    <3>3. QED
      BY <1>1, <2>1, <3>2 DEF Row
  <2>3. QED
    BY <2>1, <2>2
<1>4. QED
  BY <1>2, <1>3

\* ProjectionInv is inductive.
LEMMA ProjectionInductive == ProjectionInv /\ [Next]_vars => ProjectionInv'
<1> SUFFICES ASSUME ProjectionInv, [Next]_vars PROVE ProjectionInv'
  OBVIOUS
<1>1. TypeOK'
  BY TypeStep DEF ProjectionInv
<1>2. CASE UNCHANGED vars
  BY <1>1, <1>2 DEF vars, ProjectionInv, ReadBeforeWrite, FieldsBehindRow
<1>3. ASSUME NEW m \in Msg, Handle(m) \/ Throw(m) \/ WriteReplyLost(m) \/ Crash(m)
      PROVE  ProjectionInv'
  <2> DEFINE t == Ev[m].task
  <2>1. t \in Task /\ row[t] \in Row /\ Ev[m].ts \in Nat
    BY MergeType, NoTypes DEF ProjectionInv, TypeOK
  <2>2. \A k \in Msg : k # m => pc'[k] = pc[k] /\ seen'[k] = seen[k]
    BY <1>3 DEF ProjectionInv, TypeOK, Handle, Deliver, GetTask, InsertTask, UpdateTask,
         RefreshTasks, Publish, Ack, Abandon, Reappear, Throw, WriteReplyLost,
         Crash, Forget, Goto
  <2>3. CASE row' = row
    <3>1. pc'[m] = "insert" => Ev[m].type = "task-created"
      BY <1>3 DEF ProjectionInv, TypeOK, ReadBeforeWrite, Handle, Deliver, GetTask, InsertTask,
         UpdateTask, RefreshTasks, Publish, Ack, Abandon, Reappear, Retry, Throw,
         WriteReplyLost, Crash, Goto
    <3>2. pc'[m] = "update" => seen'[m] = row[t] /\ row[t] # NoRow /\ row[t].ts < Ev[m].ts
      BY <1>3, <2>1 DEF ProjectionInv, TypeOK, Row, Handle, Deliver, GetTask, InsertTask,
         UpdateTask, RefreshTasks, Publish, Ack, Abandon, Reappear, Retry, Throw,
         WriteReplyLost, Crash, Goto
    <3>3. row[t] # NoRow => row[t].etag > 0
      BY <2>1 DEF ProjectionInv, ReadBeforeWrite, Row
    <3>4. ReadBeforeWrite'
      BY <2>1, <2>2, <2>3, <3>1, <3>2, <3>3 DEF ProjectionInv, ReadBeforeWrite, Row
    <3>5. QED
      BY <1>1, <2>3, <3>4 DEF ProjectionInv, FieldsBehindRow
  <2>4. CASE row' # row
    <3>1. /\ row' = [row EXCEPT ![t] = Merge(m, row[t])]
          /\ \/ pc[m] = "insert" /\ row[t] = NoRow
             \/ pc[m] = "update" /\ row[t].etag = seen[m].etag
          /\ pc'[m] # "insert" /\ pc'[m] # "update"
      BY <1>3, <2>4, WriteShape DEF ProjectionInv
    <3>2. /\ row[t] = NoRow \/ row[t].ts < Ev[m].ts
          /\ \A f \in Field : \A old \in row[t].val[f] : Ev[old].ts < Ev[m].ts
      BY <2>1, <3>1, WriteIsLater
    <3>3. /\ row'[t].etag = row[t].etag + 1 /\ row[t].etag \in Nat /\ row'[t].ts = Ev[m].ts
          /\ \A f \in Field : row'[t].val[f] \in {{m}, row[t].val[f]}
          /\ \A u \in Task : u # t => row'[u] = row[u]
      <4>1. row'[t] = Merge(m, row[t]) /\ \A u \in Task : u # t => row'[u] = row[u]
        BY <2>1, <3>1 DEF ProjectionInv, TypeOK
      <4>2. /\ Merge(m, row[t]).ts = Ev[m].ts
            /\ Merge(m, row[t]).etag = row[t].etag + 1
            /\ \A f \in Field : Merge(m, row[t]).val[f] = IF f \in Sets(m) THEN {m} ELSE row[t].val[f]
        BY <2>1, MergeType
      <4>3. row[t].etag \in Nat /\ row[t].ts \in Nat
        BY <2>1 DEF Row
      <4>4. \A f \in Field : row'[t].val[f] \in {{m}, row[t].val[f]}
        BY <4>1, <4>2, Zenon
      <4>5. QED
        BY <4>1, <4>2, <4>3, <4>4
    <3>4. ReadBeforeWrite'
      <4>1. \A u \in Task : row'[u] = NoRow <=> row'[u].etag = 0
        BY <2>1, <3>3 DEF ProjectionInv, ReadBeforeWrite, NoRow
      <4>2. ASSUME NEW k \in Msg, pc'[k] = "update"
            PROVE  /\ seen'[k].etag > 0 /\ seen'[k].etag <= row'[Ev[k].task].etag
                   /\ seen'[k].ts < Ev[k].ts
                   /\ seen'[k].etag = row'[Ev[k].task].etag => seen'[k] = row'[Ev[k].task]
        <5>1. k # m /\ pc[k] = "update" /\ seen'[k] = seen[k]
          BY <2>2, <3>1, <4>2
        <5>2. seen[k].etag \in Nat /\ Ev[k].task \in Task
          BY MergeType, NoTypes DEF ProjectionInv, TypeOK, Row
        <5>3. QED
          BY <5>1, <5>2, <3>3 DEF ProjectionInv, ReadBeforeWrite
      <4>3. \A k \in Msg : pc'[k] = "insert" => Ev[k].type = "task-created"
        BY <2>2, <3>1 DEF ProjectionInv, ReadBeforeWrite
      <4>4. QED
        BY <4>1, <4>2, <4>3 DEF ReadBeforeWrite
    <3>5. FieldsBehindRow'
      <4>1. SUFFICES ASSUME NEW u \in Task, NEW f \in Field, NEW k \in row'[u].val[f]
                     PROVE  Ev[k].ts <= row'[u].ts
        BY DEF FieldsBehindRow
      <4>2. CASE u # t
        BY <4>1, <4>2, <3>3 DEF ProjectionInv, FieldsBehindRow
      <4>3. CASE u = t
        <5>1. k \in Msg
          BY <4>1, <1>1 DEF TypeOK, Row, Val
        <5>2. Ev[k].ts \in Nat
          BY <5>1, MergeType, NoTypes
        <5>3. QED
          BY <2>1, <3>2, <3>3, <4>1, <4>3, <5>2
      <4>4. QED
        BY <4>2, <4>3
    <3>6. QED
      BY <1>1, <3>4, <3>5 DEF ProjectionInv
  <2>5. QED
    BY <2>3, <2>4
<1>4. QED
  BY <1>2, <1>3 DEF Next

\* A row of the task read model never goes back in event time, and a field is only
\* replaced by a later event's value, whatever handlers interleave, fail or repeat.
THEOREM RowsOnlyMoveForward == Spec => RowsMoveForward /\ FieldsMoveForward
<1> DEFINE RowStep == \A t \in Task : row'[t] # row[t] => row[t] = NoRow \/ row'[t].ts > row[t].ts
           FieldStep == \A t \in Task, f \in Field : row'[t].val[f] # row[t].val[f] =>
                          /\ row'[t].val[f] # {}
                          /\ \A old \in row[t].val[f], new \in row'[t].val[f] :
                                Ev[old].ts < Ev[new].ts
<1>1. ProjectionInv /\ [Next]_vars => [RowStep]_vars /\ [FieldStep]_vars
  <2> SUFFICES ASSUME ProjectionInv, Next PROVE RowStep /\ FieldStep
    OBVIOUS
  <2>1. PICK m \in Msg : Handle(m) \/ Throw(m) \/ WriteReplyLost(m) \/ Crash(m)
    BY DEF Next
  <2>2. CASE row' = row
    BY <2>2
  <2>3. CASE row' # row
    <3> DEFINE t == Ev[m].task
    <3>1. t \in Task /\ row[t] \in Row /\ Ev[m].ts \in Nat
      BY MergeType, NoTypes DEF ProjectionInv, TypeOK
    <3>2. /\ row' = [row EXCEPT ![t] = Merge(m, row[t])]
          /\ \/ pc[m] = "insert" /\ row[t] = NoRow
             \/ pc[m] = "update" /\ row[t].etag = seen[m].etag
      BY <2>1, <2>3, WriteShape DEF ProjectionInv
    <3>3. /\ row[t] = NoRow \/ row[t].ts < Ev[m].ts
          /\ \A f \in Field : \A old \in row[t].val[f] : Ev[old].ts < Ev[m].ts
      BY <3>1, <3>2, WriteIsLater
    <3>4. /\ row'[t].ts = Ev[m].ts /\ row[t].ts \in Nat
          /\ \A f \in Field : row'[t].val[f] \in {{m}, row[t].val[f]}
          /\ \A u \in Task : u # t => row'[u] = row[u]
      <4>1. row'[t] = Merge(m, row[t]) /\ \A u \in Task : u # t => row'[u] = row[u]
        BY <3>1, <3>2 DEF ProjectionInv, TypeOK
      <4>2. /\ Merge(m, row[t]).ts = Ev[m].ts
            /\ Merge(m, row[t]).etag = row[t].etag + 1
            /\ \A f \in Field : Merge(m, row[t]).val[f] = IF f \in Sets(m) THEN {m} ELSE row[t].val[f]
        BY <3>1, MergeType
      <4>3. row[t].etag \in Nat /\ row[t].ts \in Nat
        BY <3>1 DEF Row
      <4>4. \A f \in Field : row'[t].val[f] \in {{m}, row[t].val[f]}
        BY <4>1, <4>2, Zenon
      <4>5. QED
        BY <4>1, <4>2, <4>3, <4>4
    <3>5. QED
      BY <3>1, <3>3, <3>4
  <2>4. QED
    BY <2>2, <2>3
<1>2. Init /\ [][Next]_vars => [][RowStep]_vars /\ [][FieldStep]_vars
  BY <1>1, ProjectionInit, ProjectionInductive, PTL
<1>3. QED
  BY <1>2 DEF Spec, RowsMoveForward, FieldsMoveForward

\* The same of the fields alone.
THEOREM FieldsOnlyMoveForward == Spec => FieldsMoveForward
BY RowsOnlyMoveForward

\* While a handler works on a row, the ETag it read stands for the very row it read, and no
\* field of a row comes from an event later than the row: in every state.
THEOREM ProjectionIsConsistent == Spec => []ProjectionInv
BY ProjectionInit, ProjectionInductive, PTL DEF Spec

\* What a handler's step does to the announcements: a write leads to the refresh, the
\* refresh to the publication, and the publication to an announcement, or a fault of this
\* very message is on record.
LEMMA AnnounceStep ==
    ASSUME TypeOK, NEW m \in Msg, Handle(m) \/ Throw(m) \/ WriteReplyLost(m) \/ Crash(m)
    PROVE  /\ announced \subseteq announced' /\ faults \subseteq faults'
           /\ \A k \in Msg : k # m => pc'[k] = pc[k]
           /\ row' # row => pc'[m] = "refresh" \/ LostForStream(m)'
           /\ pc[m] \in {"refresh", "publish"} =>
                 m \in announced' \/ pc'[m] \in {"refresh", "publish"} \/ LostForStream(m)'
<1>1. CASE Handle(m)
  BY <1>1 DEF TypeOK, Handle, Deliver, GetTask, InsertTask, UpdateTask, RefreshTasks, Publish,
              Ack, Abandon, Reappear, Goto
<1>2. CASE Throw(m)
  BY <1>2 DEF TypeOK, Throw, Fault, Goto, LostForStream
<1>3. CASE WriteReplyLost(m)
  BY <1>3 DEF TypeOK, WriteReplyLost, Fault, Goto, LostForStream
<1>4. CASE Crash(m)
  BY <1>4 DEF TypeOK, Crash, Fault, Goto, LostForStream
<1>5. QED
  BY <1>1, <1>2, <1>3, <1>4

\* What a row shows is announced, or will be next, unless a crash, the channel or a lost
\* answer cost this very event its announcement: for any events, deliveries and faults.
THEOREM ShownEventsAreAnnounced == Spec => []ShownIsAnnounced
<1>1. Init => ShownIsAnnounced
  BY DEF Init, ShownIsAnnounced, NoRow, NoVal
<1>2. ASSUME ProjectionInv, ShownIsAnnounced, [Next]_vars PROVE ShownIsAnnounced'
  <2>1. CASE UNCHANGED vars
    BY <1>2, <2>1 DEF vars, ShownIsAnnounced, LostForStream
  <2>2. ASSUME NEW m \in Msg, Handle(m) \/ Throw(m) \/ WriteReplyLost(m) \/ Crash(m)
        PROVE  ShownIsAnnounced'
    <3>1. TypeOK /\ TypeOK'
      BY <1>2, TypeStep DEF ProjectionInv
    <3>2. SUFFICES ASSUME NEW t \in Task, NEW f \in Field, NEW k \in row'[t].val[f]
                   PROVE  k \in announced' \/ pc'[k] \in {"refresh", "publish"} \/ LostForStream(k)'
      BY DEF ShownIsAnnounced
    <3>3. k \in Msg
      BY <3>1 DEF TypeOK, Row, Val
    <3>4. /\ announced \subseteq announced' /\ faults \subseteq faults'
          /\ \A j \in Msg : j # m => pc'[j] = pc[j]
          /\ row' # row => pc'[m] = "refresh" \/ LostForStream(m)'
          /\ pc[m] \in {"refresh", "publish"} =>
                m \in announced' \/ pc'[m] \in {"refresh", "publish"} \/ LostForStream(m)'
      BY <2>2, <3>1, AnnounceStep
    <3>5. LostForStream(k) => LostForStream(k)'
      BY <3>4 DEF LostForStream
    <3>6. k \in row[t].val[f] \/ (k = m /\ row' # row)
      <4>1. CASE row' = row
        BY <4>1, <3>2
      <4>2. CASE row' # row
        <5>1. row' = [row EXCEPT ![Ev[m].task] = Merge(m, row[Ev[m].task])]
          BY <2>2, <3>1, <4>2, WriteShape
        <5>2. Ev[m].task \in Task
          BY MergeType, NoTypes
        <5>3. row'[t] = row[t] \/ row'[t] = Merge(m, row[t])
          BY <3>1, <5>1, <5>2 DEF TypeOK
        <5>4. Merge(m, row[t]).val[f] = IF f \in Sets(m) THEN {m} ELSE row[t].val[f]
          <6>1. row[t] \in Row
            BY <3>1 DEF TypeOK
          <6>2. QED
            BY <6>1, MergeType
        <5>5. QED
          BY <3>2, <4>2, <5>3, <5>4
      <4>3. QED
        BY <4>1, <4>2
    <3>7. CASE k = m /\ row' # row
      BY <3>4, <3>7
    <3>8. CASE k \in row[t].val[f]
      BY <1>2, <3>3, <3>4, <3>5, <3>8 DEF ShownIsAnnounced
    <3>9. QED
      BY <3>6, <3>7, <3>8
  <2>3. QED
    BY <1>2, <2>1, <2>2 DEF Next
<1>3. QED
  BY <1>1, <1>2, ProjectionInit, ProjectionInductive, PTL DEF Spec

=============================================================================
