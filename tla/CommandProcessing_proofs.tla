---------------------- MODULE CommandProcessing_proofs ----------------------
(***************************************************************************)
(* Proofs about CommandProcessing, for any set of messages, keys and       *)
(* commands, any bound on the faults and any choice of the failing calls.  *)
(***************************************************************************)
EXTENDS CommandProcessing, TLAPS

\* A handler about to add an event has one: Head(fresh[m]) is an event.
StoreHasEvent == \A m \in Msg : pc[m] = "store" => fresh[m] # <<>>

TypeInv == TypeOK /\ StoreHasEvent

\* The empty sequence is a sequence of events.
LEMMA EmptySeq == <<>> \in Seq(Event)
  OBVIOUS

\* Every event a handler builds is an event, and there is a sequence of them.
LEMMA ProducesType ==
  ASSUME NEW k \in Key, NEW done \in BOOLEAN
  PROVE  Produces(k, done) \in Seq(Event)
<1>1. \A t \in EventTypes, d \in DoneEffect : NewEvent(k, t, d) \in Event
  BY DomainAssumption DEF NewEvent, Event, Command
<1>2. /\ NewEvent(k, "task-created", "keep") \in Event
      /\ NewEvent(k, "task-completed", "true") \in Event
      /\ NewEvent(k, "task-reopened", "false") \in Event
      /\ NewEvent(k, "user-created", "keep") \in Event
      /\ NewEvent(k, "user-logged-in", "keep") \in Event
      /\ NewEvent(k, "user-logged-out", "keep") \in Event
      /\ NewEvent(k, "user-settings-created", "keep") \in Event
      /\ NewEvent(k, "user-settings-updated", "keep") \in Event
  BY <1>1 DEF EventTypes, DoneEffect
<1>3. Cmd[k].done \in DoneEffect
  BY DomainAssumption DEF Command
<1>4. NewEvent(k, "task-updated", IF done /\ Cmd[k].moves THEN "false" ELSE Cmd[k].done) \in Event
  BY <1>1, <1>3 DEF EventTypes, DoneEffect
<1> HIDE DEF NewEvent
<1>5. /\ CreateTask(k) \in Seq(Event)
      /\ CompleteTask(k, done) \in Seq(Event)
      /\ ReopenTask(k, done) \in Seq(Event)
      /\ LogoutUser(k) \in Seq(Event)
      /\ UpdateUserSettings(k) \in Seq(Event)
  BY <1>2 DEF CreateTask, CompleteTask, ReopenTask, LogoutUser, UpdateUserSettings
<1>6. UpdateTask(k, done) \in Seq(Event)
  BY <1>4 DEF UpdateTask
<1>7. LoginUser(k) \in Seq(Event)
  BY <1>2 DEF LoginUser
<1> QED
  BY <1>5, <1>6, <1>7 DEF Produces

\* Rows: no row, a row a handler writes, and a row gone stale.
LEMMA RowTypes ==
  ASSUME TypeOK
  PROVE  /\ NoRow \in Row
         /\ \A m \in Msg : \A st \in {"Processing", "Completed"} : CreateIdempotencyEntity(m, st) \in Row
         /\ \A k \in Key : [idem[k] EXCEPT !.stale = TRUE] \in Row
<1>1. NoRow \in Row
  BY DEF NoRow, Row
<1>2. ASSUME NEW m \in Msg, NEW st \in {"Processing", "Completed"}
      PROVE  CreateIdempotencyEntity(m, st) \in Row
  <2>1. Invocation(m) \in Msg \X Nat
    BY DEF Invocation, TypeOK
  <2> QED
    BY <2>1 DEF CreateIdempotencyEntity, Row
<1>3. ASSUME NEW k \in Key PROVE [idem[k] EXCEPT !.stale = TRUE] \in Row
  <2>1. idem[k] \in Row
    BY DEF TypeOK
  <2> QED
    BY <2>1 DEF Row
<1> QED
  BY <1>1, <1>2, <1>3

\* Every value From may compute for Done is a Boolean.
LEMMA DoneValuesType == \A t : DoneValues(t) \subseteq BOOLEAN
  BY DEF DoneValues

\* Every step of a handler, of a fault and of the cleaner keeps the types.
LEMMA TypeStep == TypeInv /\ [Next]_vars => TypeInv'
<1> SUFFICES ASSUME TypeInv, [Next]_vars PROVE TypeInv'
  OBVIOUS
<1> USE DomainAssumption DEF TypeInv, TypeOK, StoreHasEvent, Control, Working, Section, locals
<1>key. \A m \in Msg : KeyOf[m] \in Key
  OBVIOUS
<1>row. /\ NoRow \in Row
        /\ \A m \in Msg : \A st \in {"Processing", "Completed"} : CreateIdempotencyEntity(m, st) \in Row
        /\ \A k \in Key : [idem[k] EXCEPT !.stale = TRUE] \in Row
  BY RowTypes
<1>1. ASSUME NEW m \in Msg, Deliver(m) PROVE TypeInv'
  BY <1>1, <1>key, <1>row, EmptySeq DEF Deliver, Goto
<1>2. ASSUME NEW m \in Msg, AddReservation(m) PROVE TypeInv'
  BY <1>2, <1>key, <1>row, EmptySeq DEF AddReservation, Goto, WriteRow
<1>3. ASSUME NEW m \in Msg, GetIdempotencyRecord(m) PROVE TypeInv'
  BY <1>3, <1>key, <1>row, EmptySeq DEF GetIdempotencyRecord, Goto
<1>4. ASSUME NEW m \in Msg, TryReclaimProcessing(m) PROVE TypeInv'
  BY <1>4, <1>key, <1>row, EmptySeq DEF TryReclaimProcessing, Goto, WriteRow
<1>5. ASSUME NEW m \in Msg, FindStored(m) PROVE TypeInv'
  BY <1>5, <1>key, <1>row, EmptySeq DEF FindStored, Goto, FindByIdempotencyKey
<1>6. ASSUME NEW m \in Msg, LoadAndBuild(m) PROVE TypeInv'
  <2>1. PICK done \in DoneValues(Cmd[KeyOf[m]].ent) :
            /\ fresh' = [fresh EXCEPT ![m] = Produces(KeyOf[m], done)]
            /\ pc' = [pc EXCEPT ![m] = IF Produces(KeyOf[m], done) = <<>> THEN "succeed" ELSE "store"]
    BY <1>6 DEF LoadAndBuild, Goto
  <2>2. Produces(KeyOf[m], done) \in Seq(Event)
    BY ProducesType, DoneValuesType, <1>key
  <2> QED
    BY <1>6, <2>1, <2>2 DEF LoadAndBuild
<1>7. ASSUME NEW m \in Msg, Add(m) PROVE TypeInv'
  <2>1. Head(fresh[m]) \in Event /\ Tail(fresh[m]) \in Seq(Event)
    BY <1>7 DEF Add
  <2>2. log' \in Seq(Event) /\ Len(log') = Len(log) + 1 /\ DOMAIN log' = 1..(Len(log) + 1) /\ DOMAIN log = 1..Len(log)
    BY <1>7, <2>1 DEF Add, AddEvent
  <2> QED
    BY <1>7, <2>1, <2>2 DEF Add, AddEvent, Goto
<1>8. ASSUME NEW m \in Msg, Dispatch(m) PROVE TypeInv'
  BY <1>8, <1>key, <1>row, EmptySeq DEF Dispatch, Goto, Current
<1>9. ASSUME NEW m \in Msg, SendAsync(m) PROVE TypeInv'
  BY <1>9, <1>key, <1>row, EmptySeq DEF SendAsync, Goto, Current
<1>10. ASSUME NEW m \in Msg, MarkAsDispatched(m) PROVE TypeInv'
  BY <1>10, <1>key, <1>row, EmptySeq DEF MarkAsDispatched, Goto, Current
<1>11. ASSUME NEW m \in Msg, MarkProcessingSucceeded(m) PROVE TypeInv'
  BY <1>11, <1>key, <1>row, EmptySeq DEF MarkProcessingSucceeded, Goto, WriteRow
<1>12. ASSUME NEW m \in Msg, MarkProcessingFailed(m) PROVE TypeInv'
  BY <1>12, <1>key, <1>row, EmptySeq DEF MarkProcessingFailed, Goto, WriteRow
<1>13. ASSUME NEW m \in Msg, Ack(m) PROVE TypeInv'
  BY <1>13, <1>key, <1>row, EmptySeq DEF Ack, Goto, ResetLocals
<1>14. ASSUME NEW m \in Msg, Abandon(m) PROVE TypeInv'
  BY <1>14, <1>key, <1>row, EmptySeq DEF Abandon, Goto, ResetLocals
<1>15. ASSUME NEW m \in Msg, Reappear(m) PROVE TypeInv'
  BY <1>15, <1>key, <1>row, EmptySeq DEF Reappear, Goto
<1>16. ASSUME NEW m \in Msg, Throw(m) PROVE TypeInv'
  BY <1>16, <1>key, <1>row, EmptySeq DEF Throw, Goto, Fault, Catch
<1>17. ASSUME NEW m \in Msg, QueueUnavailable(m) PROVE TypeInv'
  BY <1>17, <1>key, <1>row, EmptySeq DEF QueueUnavailable, Goto, Fault, Current
<1>18. ASSUME NEW m \in Msg, ReservationReplyLost(m) PROVE TypeInv'
  <2>1. /\ pc[m] \in {"add", "reclaim"}
        /\ \E c \in {"get", "return", "throw"} : pc' = [pc EXCEPT ![m] = c]
    BY <1>18 DEF ReservationReplyLost, Goto
  <2>2. /\ idem' = [idem EXCEPT ![KeyOf[m]] = CreateIdempotencyEntity(m, "Processing")]
        /\ linked' = {x \in linked : KeyOf[x] # KeyOf[m]}
        /\ faults' = faults + 1
        /\ UNCHANGED <<log, dispatched, sent, dq, started, pend, fresh, sweep>>
    BY <1>18 DEF ReservationReplyLost, WriteRow, Fault
  <2> QED
    BY <2>1, <2>2, <1>key, <1>row
<1>19. ASSUME NEW m \in Msg, WriteReplyLost(m) PROVE TypeInv'
  <2>1. /\ pc' = [pc EXCEPT ![m] = Catch(m)] /\ Catch(m) \in {"fail", "throw"}
        /\ faults' = faults + 1
        /\ UNCHANGED <<dq, started, sweep>>
    BY <1>19 DEF WriteReplyLost, Goto, Fault, Catch
  <2>2. CASE /\ pc[m] = "store" /\ AddEvent(m)
             /\ UNCHANGED <<idem, linked, dispatched, sent, pend>>
    <3>1. Head(fresh[m]) \in Event /\ Tail(fresh[m]) \in Seq(Event)
      BY <2>2
    <3>2. log' \in Seq(Event) /\ DOMAIN log' = 1..(Len(log) + 1) /\ DOMAIN log = 1..Len(log)
      BY <2>2, <3>1 DEF AddEvent
    <3> QED
      BY <2>1, <2>2, <3>1, <3>2 DEF AddEvent
  <2>3. CASE /\ \E i \in pend[m] : Current(m, i) /\ sent' = sent \cup {<<i, "http">>}
             /\ UNCHANGED <<idem, linked, log, dispatched, pend, fresh>>
    BY <2>1, <2>3
  <2>4. CASE /\ \E i \in pend[m] : Current(m, i) /\ dispatched' = dispatched \cup {i}
             /\ UNCHANGED <<idem, linked, log, sent, pend, fresh>>
    BY <2>1, <2>4
  <2>5. CASE /\ WriteRow(KeyOf[m], CreateIdempotencyEntity(m, "Completed"))
             /\ UNCHANGED <<log, dispatched, sent, pend, fresh>>
    BY <2>1, <2>5, <1>key, <1>row DEF WriteRow
  <2> QED
    BY <1>19, <2>2, <2>3, <2>4, <2>5 DEF WriteReplyLost
<1>20. ASSUME NEW m \in Msg, Crash(m) PROVE TypeInv'
  BY <1>20, <1>key, <1>row, EmptySeq DEF Crash, Goto, Fault, ResetLocals
<1>21. ASSUME NEW k \in Key, Expire(k) PROVE TypeInv'
  BY <1>21, <1>row DEF Expire
<1>22. ASSUME NEW k \in Key, CleanerDelete(k) PROVE TypeInv'
  BY <1>22, <1>row DEF CleanerDelete, WriteRow
<1>23. CASE CleanerQuery
  BY <1>23 DEF CleanerQuery
<1>24. CASE UNCHANGED vars
  BY <1>24 DEF vars
<1>25. ASSUME NEW m \in Msg, ReleaseReplyLost(m) PROVE TypeInv'
  BY <1>25, <1>key, <1>row, EmptySeq DEF ReleaseReplyLost, WriteRow
<1> QED
  BY <1>1, <1>2, <1>3, <1>4, <1>5, <1>6, <1>7, <1>8, <1>9, <1>10, <1>11, <1>12, <1>13, <1>14, <1>15, <1>16, <1>17, <1>18, <1>19, <1>20, <1>21, <1>22, <1>23, <1>24, <1>25 DEF Next, Handle, Break

\* TypeOK holds of every behaviour: rows, flags, queues and handlers' locals keep their
\* types, and a handler never dispatches or flags an event that is not in the table.
THEOREM TypeCorrect == Spec => []TypeOK
<1>1. Init => TypeInv
  BY DomainAssumption, EmptySeq DEF Init, TypeInv, TypeOK, StoreHasEvent, NoRow, Row, Control
<1>2. TypeInv => TypeOK
  BY DEF TypeInv
<1> QED
  BY <1>1, <1>2, TypeStep, PTL DEF Spec

\* Where handlers can be: control points and locals go together.
LEMMA ControlStep == TypeInv /\ ControlOK /\ [Next]_vars => ControlOK'
<1> SUFFICES ASSUME TypeInv, ControlOK, [Next]_vars PROVE ControlOK'
  OBVIOUS
<1> USE DEF TypeInv, TypeOK, StoreHasEvent, ControlOK
<1>1. ASSUME NEW m \in Msg, Deliver(m) PROVE ControlOK'
  BY <1>1 DEF Deliver, Goto, locals, Section, Working
<1>2. ASSUME NEW m \in Msg, AddReservation(m) PROVE ControlOK'
  BY <1>2 DEF AddReservation, Goto, locals, Section, Working
<1>3. ASSUME NEW m \in Msg, GetIdempotencyRecord(m) PROVE ControlOK'
  BY <1>3 DEF GetIdempotencyRecord, Goto, locals, Section, Working
<1>4. ASSUME NEW m \in Msg, TryReclaimProcessing(m) PROVE ControlOK'
  BY <1>4 DEF TryReclaimProcessing, Goto, locals, Section, Working
<1>5. ASSUME NEW m \in Msg, FindStored(m) PROVE ControlOK'
  BY <1>5 DEF FindStored, Goto, locals, Section, Working
<1>6. ASSUME NEW m \in Msg, LoadAndBuild(m) PROVE ControlOK'
  BY <1>6 DEF LoadAndBuild, Goto, locals, Section, Working
<1>7. ASSUME NEW m \in Msg, Add(m) PROVE ControlOK'
  BY <1>7 DEF Add, Goto, AddEvent, locals, Section, Working
<1>8. ASSUME NEW m \in Msg, Dispatch(m) PROVE ControlOK'
  BY <1>8 DEF Dispatch, Goto, locals, Section, Working
<1>9. ASSUME NEW m \in Msg, SendAsync(m) PROVE ControlOK'
  BY <1>9 DEF SendAsync, Goto, locals, Section, Working
<1>10. ASSUME NEW m \in Msg, MarkAsDispatched(m) PROVE ControlOK'
  BY <1>10 DEF MarkAsDispatched, Goto, locals, Section, Working
<1>11. ASSUME NEW m \in Msg, MarkProcessingSucceeded(m) PROVE ControlOK'
  BY <1>11 DEF MarkProcessingSucceeded, Goto, locals, Section, Working
<1>12. ASSUME NEW m \in Msg, MarkProcessingFailed(m) PROVE ControlOK'
  BY <1>12 DEF MarkProcessingFailed, Goto, locals, Section, Working
<1>13. ASSUME NEW m \in Msg, Ack(m) PROVE ControlOK'
  BY <1>13 DEF Ack, Goto, ResetLocals, locals, Section, Working
<1>14. ASSUME NEW m \in Msg, Abandon(m) PROVE ControlOK'
  BY <1>14 DEF Abandon, Goto, ResetLocals, locals, Section, Working
<1>15. ASSUME NEW m \in Msg, Reappear(m) PROVE ControlOK'
  BY <1>15 DEF Reappear, Goto, locals, Section, Working
<1>16. ASSUME NEW m \in Msg, Throw(m) PROVE ControlOK'
  BY <1>16 DEF Throw, Goto, Catch, locals, Section, Working
<1>17. ASSUME NEW m \in Msg, QueueUnavailable(m) PROVE ControlOK'
  BY <1>17 DEF QueueUnavailable, Goto, locals, Section, Working
<1>18. ASSUME NEW m \in Msg, ReservationReplyLost(m) PROVE ControlOK'
  BY <1>18 DEF ReservationReplyLost, Goto, locals, Section, Working
<1>19. ASSUME NEW m \in Msg, WriteReplyLost(m) PROVE ControlOK'
  BY <1>19 DEF WriteReplyLost, Goto, AddEvent, Catch, locals, Section, Working
<1>20. ASSUME NEW m \in Msg, Crash(m) PROVE ControlOK'
  BY <1>20 DEF Crash, Goto, ResetLocals, locals, Section, Working
<1>21. ASSUME NEW k \in Key, Expire(k) \/ CleanerDelete(k) PROVE ControlOK'
  BY <1>21 DEF Expire, CleanerDelete, locals
<1>22. CASE CleanerQuery \/ UNCHANGED vars
  BY <1>22 DEF CleanerQuery, vars, locals
<1>23. ASSUME NEW m \in Msg, ReleaseReplyLost(m) PROVE ControlOK'
  BY <1>23 DEF ReleaseReplyLost, locals
<1> QED
  BY <1>1, <1>2, <1>3, <1>4, <1>5, <1>6, <1>7, <1>8, <1>9, <1>10, <1>11, <1>12, <1>13, <1>14, <1>15, <1>16, <1>17, <1>18, <1>19, <1>20, <1>21, <1>22, <1>23 DEF Next, Handle, Break

OwnInv == OwnsRow /\ LinkedStale /\ SweepCompleted

\* Two handlers of one key are never both past Started.
LEMMA OneOwner ==
  ASSUME OwnsRow, NEW m \in Msg, NEW n \in Msg, KeyOf[m] = KeyOf[n],
         m \in started, n \in started, pc[m] \in Section, pc[n] \in Section
  PROVE  m = n
<1>1. Owns(m) /\ Owns(n)
  BY DEF OwnsRow
<1>2. <<m, dq[m]>> = <<n, dq[n]>>
  BY <1>1 DEF Owns, Invocation
<1> QED
  BY <1>2

\* Who owns a row is preserved by every step of a timely system.
LEMMA OwnStep == Timely /\ TypeInv /\ ControlOK /\ OwnInv /\ [Next]_vars => OwnInv'
<1> SUFFICES ASSUME Timely, TypeInv, ControlOK, OwnInv, [Next]_vars PROVE OwnInv'
  OBVIOUS
<1> USE DomainAssumption DEF TypeInv, TypeOK, OwnInv, OwnsRow, LinkedStale, SweepCompleted, Owns, Invocation
<1>key. \A m \in Msg : KeyOf[m] \in Key
  OBVIOUS
<1>1. ASSUME NEW m \in Msg, Deliver(m) PROVE OwnInv'
  BY <1>1, <1>key DEF Deliver, Goto, locals, Section, Working, ControlOK, Timely
<1>2. ASSUME NEW m \in Msg, AddReservation(m) PROVE OwnInv'
  <2>1. CASE idem[KeyOf[m]].status = "None"
    <3>1. /\ idem' = [idem EXCEPT ![KeyOf[m]] = CreateIdempotencyEntity(m, "Processing")]
          /\ linked' = {x \in linked : KeyOf[x] # KeyOf[m]}
          /\ started' = started \cup {m} /\ pc' = [pc EXCEPT ![m] = "find"]
          /\ dq' = dq /\ sweep' = sweep
      BY <1>2, <2>1 DEF AddReservation, WriteRow, Goto
    <3>2. ASSUME NEW n \in Msg, n \in started', pc'[n] \in Section PROVE Owns(n)'
      <4>1. CASE n = m
        BY <4>1, <1>key, <3>1 DEF CreateIdempotencyEntity
      <4>2. CASE n # m
        <5>1. n \in started /\ pc[n] \in Section
          BY <3>1, <3>2, <4>2
        <5>2. idem[KeyOf[n]] = [status |-> "Processing", by |-> <<n, dq[n]>>, stale |-> FALSE]
          BY <5>1
        <5>3. KeyOf[n] # KeyOf[m]
          BY <5>2, <2>1
        <5> QED
          BY <5>2, <5>3, <1>key, <3>1
      <4> QED
        BY <4>1, <4>2
    <3>3. LinkedStale' /\ SweepCompleted'
      BY <1>key, <2>1, <3>1
    <3> QED
      BY <3>2, <3>3 DEF OwnsRow
  <2>2. CASE idem[KeyOf[m]].status # "None"
    BY <1>2, <2>2 DEF AddReservation, Goto, Section
  <2> QED
    BY <2>1, <2>2
<1>3. ASSUME NEW m \in Msg, GetIdempotencyRecord(m) PROVE OwnInv'
  <2>1. /\ pc[m] = "get" /\ m \notin started
        /\ UNCHANGED <<idem, started, dq, sweep>>
        /\ \E c \in Control : pc' = [pc EXCEPT ![m] = c]
        /\ \/ linked' = linked
           \/ /\ linked' = linked \cup {m}
              /\ idem[KeyOf[m]].status = "Processing" /\ idem[KeyOf[m]].stale
    BY <1>3 DEF GetIdempotencyRecord, Goto, Control, Working, Section, ControlOK
  <2> QED
    BY <1>key, <2>1
<1>4. ASSUME NEW m \in Msg, TryReclaimProcessing(m) PROVE OwnInv'
  <2>1. CASE m \in linked
    <3>1. /\ idem' = [idem EXCEPT ![KeyOf[m]] = CreateIdempotencyEntity(m, "Processing")]
          /\ linked' = {x \in linked : KeyOf[x] # KeyOf[m]}
          /\ started' = started \cup {m} /\ pc' = [pc EXCEPT ![m] = "find"]
          /\ dq' = dq /\ sweep' = sweep
      BY <1>4, <2>1 DEF TryReclaimProcessing, WriteRow, Goto
    <3>2. ASSUME NEW n \in Msg, n \in started', pc'[n] \in Section PROVE Owns(n)'
      <4>1. CASE n = m
        BY <4>1, <1>key, <3>1 DEF CreateIdempotencyEntity
      <4>2. CASE n # m
        <5>1. n \in started /\ pc[n] \in Section
          BY <3>1, <3>2, <4>2
        <5>2. idem[KeyOf[n]] = [status |-> "Processing", by |-> <<n, dq[n]>>, stale |-> FALSE]
          BY <5>1
        <5>3. KeyOf[n] # KeyOf[m]
          BY <5>2, <2>1
        <5> QED
          BY <5>2, <5>3, <1>key, <3>1
      <4> QED
        BY <4>1, <4>2
    <3>3. LinkedStale' /\ SweepCompleted'
      BY <1>key, <2>1, <3>1
    <3> QED
      BY <3>2, <3>3 DEF OwnsRow
  <2>2. CASE m \notin linked
    BY <1>4, <2>2 DEF TryReclaimProcessing, Goto, Section
  <2> QED
    BY <2>1, <2>2
<1>5. ASSUME NEW m \in Msg, FindStored(m) PROVE OwnInv'
  BY <1>5, <1>key DEF FindStored, Goto, locals, Section, Working, ControlOK, Timely
<1>6. ASSUME NEW m \in Msg, LoadAndBuild(m) PROVE OwnInv'
  BY <1>6, <1>key DEF LoadAndBuild, Goto, locals, Section, Working, ControlOK, Timely
<1>7. ASSUME NEW m \in Msg, Add(m) PROVE OwnInv'
  BY <1>7, <1>key DEF Add, Goto, AddEvent, locals, Section, Working, ControlOK, Timely
<1>8. ASSUME NEW m \in Msg, Dispatch(m) PROVE OwnInv'
  BY <1>8, <1>key DEF Dispatch, Goto, locals, Section, Working, ControlOK, Timely
<1>9. ASSUME NEW m \in Msg, SendAsync(m) PROVE OwnInv'
  BY <1>9, <1>key DEF SendAsync, Goto, locals, Section, Working, ControlOK, Timely
<1>10. ASSUME NEW m \in Msg, MarkAsDispatched(m) PROVE OwnInv'
  BY <1>10, <1>key DEF MarkAsDispatched, Goto, locals, Section, Working, ControlOK, Timely
<1>11. ASSUME NEW m \in Msg, MarkProcessingSucceeded(m) PROVE OwnInv'
  <2>1. /\ pc[m] = "succeed" /\ m \in started /\ pc' = [pc EXCEPT ![m] = "return"]
        /\ idem' = [idem EXCEPT ![KeyOf[m]] = CreateIdempotencyEntity(m, "Completed")]
        /\ linked' = {x \in linked : KeyOf[x] # KeyOf[m]}
        /\ started' = started /\ dq' = dq /\ sweep' = sweep
    BY <1>11 DEF MarkProcessingSucceeded, WriteRow, Goto, locals, ControlOK
  <2>2. \A n \in Msg : n \in started /\ pc[n] \in Section /\ KeyOf[n] = KeyOf[m] => n = m
    BY <2>1, OneOwner DEF Section
  <2>3. OwnsRow'
    BY <1>key, <2>1, <2>2 DEF Section
  <2>4. LinkedStale' /\ SweepCompleted'
    BY <1>key, <2>1 DEF CreateIdempotencyEntity
  <2> QED
    BY <2>3, <2>4
<1>12. ASSUME NEW m \in Msg, MarkProcessingFailed(m) PROVE OwnInv'
  <2>1. /\ pc[m] = "fail" /\ m \in started /\ pc' = [pc EXCEPT ![m] = "throw"]
        /\ idem' = [idem EXCEPT ![KeyOf[m]] = NoRow]
        /\ linked' = {x \in linked : KeyOf[x] # KeyOf[m]}
        /\ started' = started /\ dq' = dq /\ sweep' = sweep
    BY <1>12 DEF MarkProcessingFailed, WriteRow, Goto, locals, ControlOK
  <2>2. \A n \in Msg : n \in started /\ pc[n] \in Section /\ KeyOf[n] = KeyOf[m] => n = m
    BY <2>1, OneOwner DEF Section
  <2>3. OwnsRow'
    BY <1>key, <2>1, <2>2 DEF Section
  <2>4. idem[KeyOf[m]].status = "Processing"
    <3>1. idem[KeyOf[m]] = [status |-> "Processing", by |-> <<m, dq[m]>>, stale |-> FALSE]
      BY <2>1 DEF Section
    <3> QED
      BY <3>1
  <2>5. LinkedStale' /\ SweepCompleted'
    BY <1>key, <2>1, <2>4
  <2> QED
    BY <2>3, <2>5
<1>13. ASSUME NEW m \in Msg, Ack(m) PROVE OwnInv'
  BY <1>13, <1>key DEF Ack, Goto, ResetLocals, locals, Section, Working, ControlOK, Timely
<1>14. ASSUME NEW m \in Msg, Abandon(m) PROVE OwnInv'
  BY <1>14, <1>key DEF Abandon, Goto, ResetLocals, locals, Section, Working, ControlOK, Timely
<1>15. ASSUME NEW m \in Msg, Reappear(m) PROVE OwnInv'
  BY <1>15, <1>key DEF Reappear, Goto, locals, Section, Working, ControlOK, Timely
<1>16. ASSUME NEW m \in Msg, Throw(m) PROVE OwnInv'
  BY <1>16, <1>key DEF Throw, Goto, Catch, locals, Section, Working, ControlOK, Timely
<1>17. ASSUME NEW m \in Msg, QueueUnavailable(m) PROVE OwnInv'
  BY <1>17, <1>key DEF QueueUnavailable, Goto, locals, Section, Working, ControlOK, Timely
<1>18. ASSUME NEW m \in Msg, ReservationReplyLost(m) PROVE OwnInv'
  BY <1>18, <1>key DEF ReservationReplyLost, Goto, WriteRow, CreateIdempotencyEntity, locals, Section, Working, ControlOK, Timely
<1>19. ASSUME NEW m \in Msg, WriteReplyLost(m) PROVE OwnInv'
  BY <1>19, <1>key DEF WriteReplyLost, Goto, WriteRow, CreateIdempotencyEntity, AddEvent, Catch, locals, Section, Working, ControlOK, Timely
<1>20. ASSUME NEW m \in Msg, Crash(m) PROVE OwnInv'
  BY <1>20, <1>key DEF Crash, Goto, ResetLocals, locals, Section, Working, ControlOK, Timely
<1>21. ASSUME NEW k \in Key, Expire(k) PROVE OwnInv'
  BY <1>21, <1>key DEF Expire, locals, OwnerAtWork, Working, Timely
<1>22. ASSUME NEW k \in Key, CleanerDelete(k) PROVE OwnInv'
  BY <1>22, <1>key DEF CleanerDelete, locals, WriteRow, NoRow
<1>23. CASE CleanerQuery
  BY <1>23 DEF CleanerQuery, locals
<1>24. CASE UNCHANGED vars
  BY <1>24 DEF vars, locals
<1>25. ASSUME NEW m \in Msg PROVE ~ReleaseReplyLost(m)
  BY DEF ReleaseReplyLost, Timely
<1> QED
  BY <1>1, <1>2, <1>3, <1>4, <1>5, <1>6, <1>7, <1>8, <1>9, <1>10, <1>11, <1>12, <1>13, <1>14, <1>15, <1>16, <1>17, <1>18, <1>19, <1>20, <1>21, <1>22, <1>23, <1>24, <1>25 DEF Next, Handle, Break

\* The events a command produces carry its key, and no two are of one type.
LEMMA ProducesNew ==
  ASSUME NEW k \in Key, NEW done \in BOOLEAN
  PROVE  /\ \A a \in DOMAIN Produces(k, done) : Produces(k, done)[a].key = k
         /\ \A a, b \in DOMAIN Produces(k, done) :
               Produces(k, done)[a].type = Produces(k, done)[b].type => a = b
<1> DEFINE Good(s) == /\ \A a \in DOMAIN s : s[a].key = k
                      /\ \A a, b \in DOMAIN s : s[a].type = s[b].type => a = b
<1>1. \A t, d : NewEvent(k, t, d).key = k /\ NewEvent(k, t, d).type = t
  BY DEF NewEvent
<1>2. ASSUME NEW t, NEW d PROVE Good(<<NewEvent(k, t, d)>>)
  BY <1>1
<1>3. Good(<<>>)
  OBVIOUS
<1>4. Good(<<NewEvent(k, "user-created", "keep"), NewEvent(k, "user-settings-created", "keep")>>)
  BY <1>1
<1> HIDE DEF Good
<1>5. /\ Good(CreateTask(k)) /\ Good(UpdateTask(k, done)) /\ Good(CompleteTask(k, done))
      /\ Good(ReopenTask(k, done)) /\ Good(LogoutUser(k)) /\ Good(UpdateUserSettings(k))
  BY <1>2, <1>3 DEF CreateTask, UpdateTask, CompleteTask, ReopenTask, LogoutUser, UpdateUserSettings
<1>6. Good(LoginUser(k))
  BY <1>2, <1>4 DEF LoginUser
<1>7. Good(Produces(k, done))
  BY <1>5, <1>6 DEF Produces
<1> QED
  BY <1>7 DEF Good

\* How a step changes the event table and the events handlers have in hand: not at all
\* (a); it forgets what one handler had in hand (b); it builds the events of a command
\* (c); or it adds the next event of a handler to the table (d).
Keeps == /\ UNCHANGED <<log, fresh>>
         /\ \A n \in Msg : /\ pc'[n] \in Section => pc[n] \in Section \/ fresh[n] = <<>>
                           /\ pc'[n] = "read" =>
                                 pc[n] = "read" \/ FindByIdempotencyKey(KeyOf[n]) = {}
Drops(m) == /\ log' = log /\ fresh' = [fresh EXCEPT ![m] = <<>>]
            /\ pc'[m] \notin Section
            /\ \A n \in Msg \ {m} : pc'[n] = pc[n]
Builds(m) == /\ pc[m] = "read" /\ log' = log /\ pc' \in [Msg -> Control]
             /\ \A n \in Msg \ {m} : pc'[n] = pc[n]
             /\ pc'[m] # "read"
             /\ \E done \in BOOLEAN : fresh' = [fresh EXCEPT ![m] = Produces(KeyOf[m], done)]
Stores(m) == /\ pc[m] = "store" /\ AddEvent(m)
             /\ \E c \in {"dispatch", "fail"} : pc' = [pc EXCEPT ![m] = c]
             /\ UNCHANGED <<idem, dispatched, sent, started>>

\* What a step may do to the log and to the handlers' new events: nothing, build them, add
\* the first of them, or drop them.
LEMMA StepShapes ==
  ASSUME TypeInv, ControlOK, [Next]_vars
  PROVE  Keeps \/ \E m \in Msg : Drops(m) \/ Builds(m) \/ Stores(m)
<1> USE DEF TypeInv, TypeOK, locals
<1>1. ASSUME NEW m \in Msg,
             \/ Deliver(m) \/ AddReservation(m) \/ GetIdempotencyRecord(m)
             \/ TryReclaimProcessing(m) \/ Reappear(m)
      PROVE  Keeps
  BY <1>1 DEF Keeps, Deliver, AddReservation, GetIdempotencyRecord, TryReclaimProcessing,
              Reappear, Goto, ControlOK, Section
<1>2. ASSUME NEW m \in Msg, FindStored(m) PROVE Keeps
  BY <1>2 DEF Keeps, FindStored, Goto, Section
<1>3. ASSUME NEW m \in Msg, Dispatch(m) \/ SendAsync(m) \/ MarkAsDispatched(m) PROVE Keeps
  BY <1>3 DEF Keeps, Dispatch, SendAsync, MarkAsDispatched, Goto, Section
<1>4. ASSUME NEW m \in Msg, MarkProcessingSucceeded(m) \/ MarkProcessingFailed(m) PROVE Keeps
  BY <1>4 DEF Keeps, MarkProcessingSucceeded, MarkProcessingFailed, Goto, Section
<1>5. ASSUME NEW m \in Msg, Throw(m) \/ QueueUnavailable(m) \/ ReservationReplyLost(m) PROVE Keeps
  <2>1. CASE Throw(m)
    BY <2>1, DomainAssumption DEF Keeps, Throw, Catch, Goto, Section, ControlOK
  <2>2. CASE QueueUnavailable(m)
    BY <2>2 DEF Keeps, QueueUnavailable, Goto, Section
  <2>3. CASE ReservationReplyLost(m)
    BY <2>3 DEF Keeps, ReservationReplyLost, Goto, Section
  <2> QED
    BY <1>5, <2>1, <2>2, <2>3
<1>6. ASSUME NEW m \in Msg, Ack(m) \/ Abandon(m) \/ Crash(m) PROVE Drops(m)
  BY <1>6 DEF Drops, Ack, Abandon, Crash, ResetLocals, Goto, Section
<1>7. ASSUME NEW m \in Msg, LoadAndBuild(m) PROVE Builds(m)
  <2>1. PICK done \in DoneValues(Cmd[KeyOf[m]].ent) :
            /\ fresh' = [fresh EXCEPT ![m] = Produces(KeyOf[m], done)]
            /\ pc' = [pc EXCEPT ![m] = IF Produces(KeyOf[m], done) = <<>> THEN "succeed" ELSE "store"]
    BY <1>7 DEF LoadAndBuild, Goto
  <2>2. done \in BOOLEAN
    BY DoneValuesType
  <2> QED
    BY <1>7, <2>1, <2>2 DEF Builds, LoadAndBuild, Control, Working, Section
<1>8. ASSUME NEW m \in Msg, Add(m) PROVE Stores(m)
  BY <1>8 DEF Stores, Add, Goto
<1>9. ASSUME NEW m \in Msg, WriteReplyLost(m) PROVE Keeps \/ Stores(m)
  <2>1. CASE /\ pc[m] = "store" /\ AddEvent(m)
             /\ UNCHANGED <<idem, linked, dispatched, sent, pend>>
    BY <1>9, <2>1 DEF WriteReplyLost, Stores, Goto, Catch, ControlOK
  <2>2. CASE pc[m] \in {"fallback", "mark", "succeed"} /\ UNCHANGED <<log, fresh>>
    BY <1>9, <2>2 DEF WriteReplyLost, Keeps, Goto, Catch, Section
  <2> QED
    BY <1>9, <2>1, <2>2 DEF WriteReplyLost
<1>10. ASSUME NEW k \in Key, Expire(k) \/ CleanerDelete(k) PROVE Keeps
  BY <1>10 DEF Keeps, Expire, CleanerDelete
<1>11. CASE CleanerQuery \/ UNCHANGED vars
  BY <1>11 DEF Keeps, CleanerQuery, vars
<1>12. ASSUME NEW m \in Msg, ReleaseReplyLost(m) PROVE Keeps
  BY <1>12 DEF Keeps, ReleaseReplyLost, Section
<1> QED
  BY <1>1, <1>2, <1>3, <1>4, <1>5, <1>6, <1>7, <1>8, <1>9, <1>10, <1>11, <1>12 DEF Next, Handle, Break

\* A handler that read no event of its key and is about to load the aggregate is right.
ReadMeansNone == \A m \in Msg : pc[m] = "read" => FindByIdempotencyKey(KeyOf[m]) = {}

NewInv == FreshIsNew /\ ReadMeansNone /\ NoDuplicateEvents

\* No step stores a second event of a type for one key.
LEMMA NewStep == TypeInv /\ ControlOK /\ OwnsRow /\ NewInv /\ [Next]_vars => NewInv'
<1> SUFFICES ASSUME TypeInv, ControlOK, OwnsRow, NewInv, [Next]_vars PROVE NewInv'
  OBVIOUS
<1>key. \A m \in Msg : KeyOf[m] \in Key
  BY DomainAssumption
<1>type. /\ pc \in [Msg -> Control] /\ fresh \in [Msg -> Seq(Event)] /\ log \in Seq(Event)
  BY DEF TypeInv, TypeOK
<1>1. CASE Keeps
  <2>1. FreshIsNew'
    BY <1>1 DEF Keeps, NewInv, FreshIsNew, FindByIdempotencyKey
  <2>2. ReadMeansNone'
    BY <1>1 DEF Keeps, NewInv, ReadMeansNone, FindByIdempotencyKey
  <2>3. NoDuplicateEvents'
    BY <1>1 DEF Keeps, NewInv, NoDuplicateEvents
  <2> QED
    BY <2>1, <2>2, <2>3 DEF NewInv
<1>2. ASSUME NEW m \in Msg, Drops(m) PROVE NewInv'
  <2>1. FreshIsNew'
    BY <1>2, <1>type DEF Drops, NewInv, FreshIsNew, FindByIdempotencyKey
  <2>2. ReadMeansNone'
    BY <1>2 DEF Drops, NewInv, ReadMeansNone, FindByIdempotencyKey, Section
  <2>3. NoDuplicateEvents'
    BY <1>2 DEF Drops, NewInv, NoDuplicateEvents
  <2> QED
    BY <2>1, <2>2, <2>3 DEF NewInv
<1>3. ASSUME NEW m \in Msg, Builds(m) PROVE NewInv'
  <2>1. PICK done \in BOOLEAN : fresh' = [fresh EXCEPT ![m] = Produces(KeyOf[m], done)]
    BY <1>3 DEF Builds
  <2>2. FindByIdempotencyKey(KeyOf[m]) = {} /\ log' = log
    BY <1>3 DEF Builds, NewInv, ReadMeansNone
  <2>3. FreshIsNew'
    <3> SUFFICES ASSUME NEW n \in Msg
                 PROVE  /\ \A a \in DOMAIN fresh'[n] : fresh'[n][a].key = KeyOf[n]
                        /\ \A a, b \in DOMAIN fresh'[n] : fresh'[n][a].type = fresh'[n][b].type => a = b
                        /\ pc'[n] \in Section =>
                             \A i \in FindByIdempotencyKey(KeyOf[n]), a \in DOMAIN fresh'[n] :
                                 log[i].type # fresh'[n][a].type
      BY <2>2 DEF FreshIsNew, FindByIdempotencyKey
    <3>1. CASE n = m
      <4>1. fresh'[n] = Produces(KeyOf[m], done)
        BY <2>1, <3>1, <1>type
      <4> QED
        BY <4>1, <3>1, <2>2, ProducesNew, <1>key
    <3>2. CASE n # m
      <4>1. fresh'[n] = fresh[n] /\ pc'[n] = pc[n]
        BY <1>3, <2>1, <3>2, <1>type DEF Builds
      <4> QED
        BY <4>1 DEF NewInv, FreshIsNew
    <3> QED
      BY <3>1, <3>2
  <2>4. ReadMeansNone'
    BY <1>3 DEF Builds, NewInv, ReadMeansNone, FindByIdempotencyKey
  <2>5. NoDuplicateEvents'
    BY <2>2 DEF NewInv, NoDuplicateEvents
  <2> QED
    BY <2>3, <2>4, <2>5 DEF NewInv
<1>4. ASSUME NEW m \in Msg, Stores(m) PROVE NewInv'
  <2> DEFINE e == Head(fresh[m])
  <2>1. /\ pc[m] = "store" /\ m \in started /\ fresh[m] # <<>>
        /\ log' = Append(log, e) /\ fresh' = [fresh EXCEPT ![m] = Tail(fresh[m])]
        /\ \E c \in {"dispatch", "fail"} : pc' = [pc EXCEPT ![m] = c]
    BY <1>4, <1>type DEF Stores, AddEvent, ControlOK
  <2>2. /\ e \in Event /\ e = fresh[m][1] /\ 1 \in DOMAIN fresh[m]
        /\ DOMAIN Tail(fresh[m]) = 1..(Len(fresh[m]) - 1)
        /\ DOMAIN fresh[m] = 1..Len(fresh[m])
        /\ \A a \in DOMAIN Tail(fresh[m]) : Tail(fresh[m])[a] = fresh[m][a + 1]
    BY <2>1, <1>type
  <2>3. /\ DOMAIN log = 1..Len(log) /\ DOMAIN log' = 1..(Len(log) + 1)
        /\ log'[Len(log) + 1] = e
        /\ \A i \in DOMAIN log : log'[i] = log[i]
        /\ Len(log) \in Nat
    BY <2>1, <2>2, <1>type
  <2>4. e.key = KeyOf[m] /\ \A i \in DOMAIN log : log[i].key = e.key => log[i].type # e.type
    BY <2>1, <2>2 DEF NewInv, FreshIsNew, Section, FindByIdempotencyKey
  <2>5. NoDuplicateEvents'
    BY <2>3, <2>4 DEF NewInv, NoDuplicateEvents
  <2>6. \A n \in Msg : n \in started /\ pc[n] \in Section /\ KeyOf[n] = KeyOf[m] => n = m
    BY <2>1, OneOwner DEF Section
  <2>7. ASSUME NEW n \in Msg, n # m, pc[n] \in Section, n \in started
        PROVE  FindByIdempotencyKey(KeyOf[n])' = FindByIdempotencyKey(KeyOf[n])
    <3>1. e.key # KeyOf[n]
      BY <2>4, <2>6, <2>7
    <3> QED
      BY <3>1, <2>3 DEF FindByIdempotencyKey
  <2>8. ReadMeansNone'
    <3> SUFFICES ASSUME NEW n \in Msg, pc'[n] = "read" PROVE FindByIdempotencyKey(KeyOf[n])' = {}
      BY DEF ReadMeansNone
    <3>1. n # m /\ pc[n] = "read" /\ n \in started
      BY <2>1, <1>type DEF ControlOK
    <3> QED
      BY <3>1, <2>7 DEF NewInv, ReadMeansNone, Section
  <2>9. FreshIsNew'
    <3> SUFFICES ASSUME NEW n \in Msg
                 PROVE  /\ \A a \in DOMAIN fresh'[n] : fresh'[n][a].key = KeyOf[n]
                        /\ \A a, b \in DOMAIN fresh'[n] : fresh'[n][a].type = fresh'[n][b].type => a = b
                        /\ pc'[n] \in Section =>
                             \A i \in FindByIdempotencyKey(KeyOf[n])', a \in DOMAIN fresh'[n] :
                                 log'[i].type # fresh'[n][a].type
      BY DEF FreshIsNew
    <3>1. CASE n = m
      <4>1. fresh'[n] = Tail(fresh[m])
        BY <2>1, <3>1, <1>type
      <4>2. \A a \in DOMAIN fresh'[n] : a \in Nat /\ a + 1 \in DOMAIN fresh[m] /\ a + 1 # 1
                                        /\ fresh'[n][a] = fresh[m][a + 1]
        BY <4>1, <2>2, <1>type
      <4>3. \A a, b \in DOMAIN fresh[m] : fresh[m][a].type = fresh[m][b].type => a = b
        BY DEF NewInv, FreshIsNew
      <4>4. \A a \in DOMAIN fresh'[n] : fresh'[n][a].key = KeyOf[n]
        BY <4>2, <3>1 DEF NewInv, FreshIsNew
      <4>5. \A a, b \in DOMAIN fresh'[n] : fresh'[n][a].type = fresh'[n][b].type => a = b
        BY <4>2, <4>3
      <4>6. ASSUME NEW i \in FindByIdempotencyKey(KeyOf[n])', NEW a \in DOMAIN fresh'[n]
            PROVE  log'[i].type # fresh'[n][a].type
        <5>1. CASE i = Len(log) + 1
          <6>1. log'[i] = fresh[m][1]
            BY <5>1, <2>2, <2>3
          <6>2. /\ fresh'[n][a] = fresh[m][a + 1] /\ a + 1 \in DOMAIN fresh[m]
                /\ a + 1 # 1 /\ 1 \in DOMAIN fresh[m]
            BY <4>2, <2>2
          <6> QED
            BY <6>1, <6>2, <4>3
        <5>2. CASE i # Len(log) + 1
          <6>1. i \in FindByIdempotencyKey(KeyOf[m]) /\ log'[i] = log[i]
            BY <5>2, <4>6, <3>1, <2>3 DEF FindByIdempotencyKey
          <6> QED
            BY <6>1, <4>2, <2>1 DEF NewInv, FreshIsNew, Section
        <5> QED
          BY <5>1, <5>2
      <4> QED
        BY <4>4, <4>5, <4>6
    <3>2. CASE n # m
      <4>1. fresh'[n] = fresh[n] /\ pc'[n] = pc[n]
        BY <2>1, <3>2, <1>type
      <4>2. CASE fresh[n] = <<>>
        BY <4>1, <4>2
      <4>3. CASE fresh[n] # <<>> /\ pc[n] \in Section
        <5>1. n \in started
          BY <4>3 DEF ControlOK
        <5>2. FindByIdempotencyKey(KeyOf[n])' = FindByIdempotencyKey(KeyOf[n])
          BY <5>1, <4>3, <3>2, <2>7
        <5>3. \A i \in FindByIdempotencyKey(KeyOf[n]) : log'[i] = log[i]
          BY <2>3 DEF FindByIdempotencyKey
        <5> QED
          BY <5>2, <5>3, <4>1 DEF NewInv, FreshIsNew
      <4>4. CASE pc[n] \notin Section
        BY <4>1, <4>4 DEF NewInv, FreshIsNew
      <4> QED
        BY <4>2, <4>3, <4>4
    <3> QED
      BY <3>1, <3>2
  <2> QED
    BY <2>5, <2>8, <2>9 DEF NewInv
<1> QED
  BY <1>1, <1>2, <1>3, <1>4, StepShapes

\* The control invariant, ownership and newness together are inductive.
OnceInv == TypeInv /\ ControlOK /\ OwnInv /\ NewInv

\* The strengthened invariant holds at the start.
LEMMA OnceInit == Init => OnceInv
  BY DomainAssumption, EmptySeq
  DEF Init, OnceInv, TypeInv, TypeOK, StoreHasEvent, NoRow, Row, Control, Working, Section,
      ControlOK, OwnInv, OwnsRow, LinkedStale, SweepCompleted, NewInv, FreshIsNew,
      ReadMeansNone, NoDuplicateEvents, FindByIdempotencyKey

\* However often a command is retried, redelivered, reclaimed or cleaned up, its events
\* are stored once, as long as live handlers keep within their lease.
THEOREM EventsStoredOnce == Timely => (Spec => []NoDuplicateEvents)
<1> SUFFICES ASSUME Timely PROVE Spec => []NoDuplicateEvents
  OBVIOUS
<1>1. OnceInv /\ [Next]_vars => OnceInv'
  BY TypeStep, ControlStep, OwnStep, NewStep DEF OnceInv, OwnInv
<1>2. OnceInv => NoDuplicateEvents
  BY DEF OnceInv, NewInv
<1> QED
  BY <1>1, <1>2, OnceInit, PTL DEF Spec

-----------------------------------------------------------------------------
SentInv == MarkAfterSend /\ FlagMeansReached

\* The oldest row a handler has to dispatch is one row.
LEMMA OneCurrent ==
  ASSUME TypeOK, NEW m \in Msg, NEW i, NEW j, Current(m, i), Current(m, j)
  PROVE  i = j
<1>1. i \in Int /\ j \in Int
  BY DEF TypeOK, Current
<1> QED
  BY <1>1 DEF Current

\* The calls that send an event and go on to flag it: what they send is the row they flag.
LEMMA SendStep ==
  ASSUME TypeOK, SentInv, NEW m \in Msg, NEW i \in pend[m], NEW via \in {"queue", "http"},
         Current(m, i), sent' = sent \cup {<<i, via>>},
         \E c \in Control : pc' = [pc EXCEPT ![m] = c],
         UNCHANGED <<dispatched, pend>>
  PROVE  SentInv'
<1>1. \A n \in Msg : n # m => pc'[n] = pc[n]
  BY DEF TypeOK
<1>2. \A x : Reached(x) => Reached(x)'
  BY DEF Reached
<1>3. Reached(i)'
  BY DEF Reached
<1>4. \A n \in Msg : \A x : Current(n, x)' <=> Current(n, x)
  BY DEF Current
<1>5. FlagMeansReached'
  BY <1>2 DEF SentInv, FlagMeansReached
<1>6. MarkAfterSend'
  <2> SUFFICES ASSUME NEW n \in Msg, pc'[n] = "mark", NEW x \in pend'[n], Current(n, x)'
               PROVE  Reached(x)'
    BY DEF MarkAfterSend
  <2>1. CASE n = m
    BY <2>1, <1>3, <1>4, OneCurrent
  <2>2. CASE n # m
    BY <2>2, <1>1, <1>2, <1>4 DEF SentInv, MarkAfterSend
  <2> QED
    BY <2>1, <2>2
<1> QED
  BY <1>5, <1>6 DEF SentInv

\* A step that sends and flags nothing and brings no handler to the flagging of a row.
Silent == /\ UNCHANGED <<sent, dispatched>>
          /\ \A n \in Msg : pc'[n] = "mark" => pc[n] = "mark" /\ pend'[n] = pend[n]

\* Such a step keeps the order of sending and flagging.
LEMMA SilentStep == SentInv /\ Silent => SentInv'
<1> SUFFICES ASSUME SentInv, Silent PROVE SentInv'
  OBVIOUS
<1>1. \A x : Reached(x)' <=> Reached(x)
  BY DEF Silent, Reached
<1>2. \A n \in Msg : \A x : pc'[n] = "mark" => (Current(n, x)' <=> Current(n, x))
  BY DEF Silent, Current
<1>3. FlagMeansReached'
  BY <1>1 DEF SentInv, FlagMeansReached, Silent
<1>4. MarkAfterSend'
  BY <1>1, <1>2 DEF SentInv, MarkAfterSend, Silent
<1> QED
  BY <1>3, <1>4 DEF SentInv

\* No step flags an event that was not handed to the queue or to the updater.
LEMMA SentStep == TypeInv /\ SentInv /\ [Next]_vars => SentInv'
<1> SUFFICES ASSUME TypeInv, SentInv, [Next]_vars PROVE SentInv'
  OBVIOUS
<1>type. TypeOK /\ pc \in [Msg -> Control] /\ pend \in [Msg -> SUBSET DOMAIN log]
  BY DEF TypeInv, TypeOK
<1>1. ASSUME NEW m \in Msg,
             \/ Deliver(m) \/ AddReservation(m) \/ GetIdempotencyRecord(m)
             \/ TryReclaimProcessing(m) \/ Reappear(m)
      PROVE  Silent
  BY <1>1, <1>type DEF Silent, Deliver, AddReservation, GetIdempotencyRecord,
              TryReclaimProcessing, Reappear, Goto, locals
<1>2. ASSUME NEW m \in Msg, FindStored(m) PROVE Silent
  BY <1>2, <1>type DEF Silent, FindStored, Goto
<1>3. ASSUME NEW m \in Msg, LoadAndBuild(m) PROVE Silent
  BY <1>3, <1>type DEF Silent, LoadAndBuild, Goto
<1>4. ASSUME NEW m \in Msg, Add(m) PROVE Silent
  BY <1>4, <1>type DEF Silent, Add, Goto
<1>5. ASSUME NEW m \in Msg, MarkProcessingSucceeded(m) \/ MarkProcessingFailed(m) PROVE Silent
  BY <1>5, <1>type DEF Silent, MarkProcessingSucceeded, MarkProcessingFailed, Goto, locals
<1>6. ASSUME NEW m \in Msg, Ack(m) \/ Abandon(m) \/ Crash(m) PROVE Silent
  BY <1>6, <1>type DEF Silent, Ack, Abandon, Crash, ResetLocals, Goto
<1>7. ASSUME NEW m \in Msg, Throw(m) \/ ReservationReplyLost(m) PROVE Silent
  BY <1>7, <1>type DEF Silent, Throw, ReservationReplyLost, Catch, Goto, locals
<1>8. ASSUME NEW k \in Key, Expire(k) \/ CleanerDelete(k) PROVE Silent
  BY <1>8 DEF Silent, Expire, CleanerDelete, locals
<1>9. CASE CleanerQuery \/ UNCHANGED vars
  <2>1. Silent
    BY <1>9 DEF Silent, CleanerQuery, vars, locals
  <2> QED
    BY <2>1, SilentStep
<1>10. ASSUME NEW m \in Msg, Dispatch(m) PROVE SentInv'
  <2>1. PICK i \in pend[m] : Current(m, i) /\ sent' = sent \cup {<<i, "queue">>}
    BY <1>10 DEF Dispatch
  <2>2. (\E c \in Control : pc' = [pc EXCEPT ![m] = c]) /\ UNCHANGED <<dispatched, pend>>
    BY <1>10 DEF Dispatch, Goto, Control, Working, Section, locals
  <2> QED
    BY <2>1, <2>2, <1>type, SendStep
<1>11. ASSUME NEW m \in Msg, SendAsync(m) PROVE SentInv'
  <2>1. PICK i \in pend[m] : Current(m, i) /\ sent' = sent \cup {<<i, "http">>}
    BY <1>11 DEF SendAsync
  <2>2. (\E c \in Control : pc' = [pc EXCEPT ![m] = c]) /\ UNCHANGED <<dispatched, pend>>
    BY <1>11 DEF SendAsync, Goto, Control, Working, Section, locals
  <2> QED
    BY <2>1, <2>2, <1>type, SendStep
<1>12. ASSUME NEW m \in Msg, QueueUnavailable(m) PROVE SentInv'
  <2>1. (\E c \in Control : pc' = [pc EXCEPT ![m] = c]) /\ UNCHANGED <<dispatched, pend>>
    BY <1>12 DEF QueueUnavailable, Goto, Control, Working, Section, locals
  <2>2. CASE sent' = sent
    <3>1. Silent
      BY <1>12, <2>2, <1>type DEF Silent, QueueUnavailable, Goto, locals
    <3> QED
      BY <3>1, SilentStep
  <2>3. CASE \E i \in pend[m] : Current(m, i) /\ sent' = sent \cup {<<i, "queue">>}
    BY <2>1, <2>3, <1>type, SendStep
  <2> QED
    BY <1>12, <2>2, <2>3 DEF QueueUnavailable
<1>13. ASSUME NEW m \in Msg, pc[m] = "mark", NEW i \in pend[m], Current(m, i),
              dispatched' = dispatched \cup {i}, sent' = sent,
              \A n \in Msg : pc'[n] = "mark" => n # m /\ pc[n] = "mark" /\ pend'[n] = pend[n]
       PROVE  SentInv'
  <2>1. Reached(i) /\ \A x : Reached(x)' <=> Reached(x)
    BY <1>13 DEF SentInv, MarkAfterSend, Reached
  <2>2. FlagMeansReached'
    BY <2>1, <1>13 DEF SentInv, FlagMeansReached
  <2>3. \A n \in Msg : \A x : pc'[n] = "mark" => (Current(n, x)' <=> Current(n, x))
    BY <1>13 DEF Current
  <2>4. MarkAfterSend'
    BY <2>1, <2>3, <1>13 DEF SentInv, MarkAfterSend
  <2> QED
    BY <2>2, <2>4 DEF SentInv
<1>14. ASSUME NEW m \in Msg, MarkAsDispatched(m) PROVE SentInv'
  <2>1. PICK i \in pend[m] : /\ Current(m, i) /\ dispatched' = dispatched \cup {i}
                             /\ pend' = [pend EXCEPT ![m] = @ \ {i}]
    BY <1>14 DEF MarkAsDispatched
  <2>2. pc[m] = "mark" /\ sent' = sent
        /\ \E c \in {"dispatch", "store", "succeed", "return"} : pc' = [pc EXCEPT ![m] = c]
    BY <1>14 DEF MarkAsDispatched, Goto
  <2>3. \A n \in Msg : pc'[n] = "mark" => n # m /\ pc[n] = "mark" /\ pend'[n] = pend[n]
    BY <2>1, <2>2, <1>type
  <2> QED
    BY <2>1, <2>2, <2>3, <1>13
<1>15. ASSUME NEW m \in Msg, WriteReplyLost(m) PROVE SentInv'
  <2>1. /\ \E c \in {"fail", "throw"} : pc' = [pc EXCEPT ![m] = c]
        /\ pc[m] \in {"store", "fallback", "mark", "succeed"} /\ pend' = pend
    BY <1>15 DEF WriteReplyLost, Goto, Catch, WriteRow
  <2>2. CASE UNCHANGED <<sent, dispatched>>
    <3>1. Silent
      BY <2>1, <2>2, <1>type DEF Silent
    <3> QED
      BY <3>1, SilentStep
  <2>3. CASE dispatched' = dispatched /\ \E i \in pend[m] : Current(m, i) /\ sent' = sent \cup {<<i, "http">>}
    BY <2>1, <2>3, <1>type, SendStep DEF Control, Working, Section
  <2>4. CASE pc[m] = "mark" /\ sent' = sent
             /\ \E i \in pend[m] : Current(m, i) /\ dispatched' = dispatched \cup {i}
    <3>1. \A n \in Msg : pc'[n] = "mark" => n # m /\ pc[n] = "mark" /\ pend'[n] = pend[n]
      BY <2>1, <1>type
    <3> QED
      BY <2>4, <3>1, <1>13
  <2> QED
    BY <1>15, <2>2, <2>3, <2>4 DEF WriteReplyLost
<1>16. ASSUME NEW m \in Msg, ReleaseReplyLost(m) PROVE Silent
  BY <1>16, <1>type DEF Silent, ReleaseReplyLost, locals
<1> QED
  BY <1>1, <1>2, <1>3, <1>4, <1>5, <1>6, <1>7, <1>8, <1>9, <1>10, <1>11, <1>12, <1>14, <1>15, <1>16,
     SilentStep DEF Next, Handle, Break

-----------------------------------------------------------------------------
\* The rows of a handler's key that are stored and not flagged.
Unflagged(n) == FindByIdempotencyKey(KeyOf[n]) \ dispatched

\* NothingForgotten, for one handler.
Remembers(n) ==
    n \in started =>
        /\ pc[n] = "read" => FindByIdempotencyKey(KeyOf[n]) = {}
        /\ pc[n] \in {"store", "succeed"} => Unflagged(n) = {}
        /\ pc[n] \in {"dispatch", "fallback", "mark"} => Unflagged(n) \subseteq pend[n]

\* A step that adds no event and moves one handler leaves what the others have to send.
LEMMA OthersRemember ==
  ASSUME NothingForgotten, NEW m, log' = log, dispatched \subseteq dispatched',
         \A n \in Msg \ {m} : /\ pc'[n] = pc[n] /\ pend'[n] = pend[n]
                              /\ n \in started' <=> n \in started,
         m \in Msg => Remembers(m)'
  PROVE  NothingForgotten'
<1>1. \A n \in Msg : FindByIdempotencyKey(KeyOf[n])' = FindByIdempotencyKey(KeyOf[n])
  BY DEF FindByIdempotencyKey
<1>2. ASSUME NEW n \in Msg, n # m PROVE Remembers(n)'
  <2>1. Remembers(n)
    BY DEF NothingForgotten, Remembers, Unflagged
  <2> QED
    BY <2>1, <1>1, <1>2 DEF Remembers, Unflagged
<1>3. \A n \in Msg : Remembers(n)'
  BY <1>2
<1> QED
  BY <1>3 DEF NothingForgotten, Remembers, Unflagged

\* Whatever a handler stored and did not flag, it still has to send, whichever step is
\* taken: two handlers never work on one key at once.
LEMMA RememberStep ==
  TypeInv /\ ControlOK /\ OwnsRow /\ FreshIsNew /\ NothingForgotten /\ [Next]_vars
     => NothingForgotten'
<1> SUFFICES ASSUME TypeInv, ControlOK, OwnsRow, FreshIsNew, NothingForgotten, [Next]_vars
             PROVE  NothingForgotten'
  OBVIOUS
<1>type. /\ TypeOK /\ pc \in [Msg -> Control] /\ pend \in [Msg -> SUBSET DOMAIN log]
         /\ log \in Seq(Event) /\ fresh \in [Msg -> Seq(Event)]
  BY DEF TypeInv, TypeOK
<1>mem. \A n \in Msg : Remembers(n)
  BY DEF NothingForgotten, Remembers, Unflagged
<1>1. ASSUME NEW m \in Msg,
             \/ Deliver(m) \/ AddReservation(m) \/ GetIdempotencyRecord(m)
             \/ TryReclaimProcessing(m) \/ Reappear(m)
      PROVE  NothingForgotten'
  <2>1. Remembers(m)'
    BY <1>1, <1>type DEF Remembers, Deliver, AddReservation, GetIdempotencyRecord,
              TryReclaimProcessing, Reappear, Goto, locals, ControlOK
  <2>2. /\ log' = log /\ dispatched' = dispatched
        /\ \A n \in Msg \ {m} : /\ pc'[n] = pc[n] /\ pend'[n] = pend[n]
                                /\ n \in started' <=> n \in started
    BY <1>1, <1>type DEF Deliver, AddReservation, GetIdempotencyRecord,
              TryReclaimProcessing, Reappear, Goto, locals
  <2> QED
    BY <2>1, <2>2, OthersRemember
<1>2. ASSUME NEW m \in Msg, FindStored(m) PROVE NothingForgotten'
  <2>1. /\ log' = log /\ dispatched' = dispatched /\ started' = started
        /\ \A n \in Msg \ {m} : pc'[n] = pc[n] /\ pend'[n] = pend[n]
        /\ pend'[m] = Unflagged(m)
        /\ FindByIdempotencyKey(KeyOf[m])' = FindByIdempotencyKey(KeyOf[m])
    BY <1>2, <1>type DEF FindStored, Goto, Unflagged, FindByIdempotencyKey
  <2>2. /\ Unflagged(m)' = Unflagged(m)
        /\ pc'[m] \in {"dispatch", "return", "read", "succeed"}
        /\ pc'[m] = "read" => FindByIdempotencyKey(KeyOf[m]) = {}
        /\ pc'[m] = "succeed" => Unflagged(m) = {}
    BY <1>2, <2>1, <1>type DEF FindStored, Goto, Unflagged
  <2>3. Remembers(m)'
    BY <2>1, <2>2 DEF Remembers
  <2> QED
    BY <2>1, <2>3, OthersRemember
<1>3. ASSUME NEW m \in Msg, LoadAndBuild(m) PROVE NothingForgotten'
  <2>1. /\ log' = log /\ dispatched' = dispatched /\ started' = started /\ pend' = pend
        /\ pc[m] = "read" /\ pc'[m] \in {"store", "succeed"}
        /\ \A n \in Msg \ {m} : pc'[n] = pc[n]
    BY <1>3, <1>type DEF LoadAndBuild, Goto
  <2>2. Remembers(m)'
    BY <2>1, <1>mem DEF Remembers, Unflagged, FindByIdempotencyKey
  <2> QED
    BY <2>1, <2>2, OthersRemember
<1>4. ASSUME NEW m \in Msg, Stores(m),
             \A n \in Msg \ {m} : pend'[n] = pend[n],
             pc'[m] = "fail" \/ pend'[m] = {Len(log) + 1}
      PROVE  NothingForgotten'
  <2> DEFINE e == Head(fresh[m])
  <2>1. /\ pc[m] = "store" /\ m \in started /\ fresh[m] # <<>> /\ log' = Append(log, e)
        /\ dispatched' = dispatched /\ started' = started
        /\ pc'[m] \in {"dispatch", "fail"} /\ \A n \in Msg \ {m} : pc'[n] = pc[n]
    BY <1>4, <1>type DEF Stores, AddEvent, ControlOK
  <2>2. e \in Event
    BY <2>1, <1>type
  <2>3. /\ DOMAIN log' = DOMAIN log \cup {Len(log) + 1}
        /\ log'[Len(log) + 1] = e
        /\ \A i \in DOMAIN log : log'[i] = log[i]
    BY <2>1, <2>2, <1>type
  <2>4. Remembers(m)'
    <3>1. Unflagged(m) = {}
      BY <2>1, <1>mem DEF Remembers
    <3>2. Unflagged(m)' \subseteq {Len(log) + 1}
      BY <3>1, <2>1, <2>3 DEF Unflagged, FindByIdempotencyKey
    <3> QED
      BY <3>2, <2>1, <1>4 DEF Remembers
  <2>5. ASSUME NEW n \in Msg, n # m PROVE Remembers(n)'
    <3>1. CASE n \in started /\ pc[n] \in Section
      <4>1. KeyOf[n] # KeyOf[m]
        BY <3>1, <2>1, <2>5, OneOwner DEF Section
      <4>2. e.key = KeyOf[m]
        <5>1. 1 \in DOMAIN fresh[m] /\ e = fresh[m][1]
          BY <2>1, <1>type
        <5> QED
          BY <5>1 DEF FreshIsNew
      <4>3. FindByIdempotencyKey(KeyOf[n])' = FindByIdempotencyKey(KeyOf[n])
        BY <4>1, <4>2, <2>3 DEF FindByIdempotencyKey
      <4> QED
        BY <4>3, <1>mem, <2>1, <2>5, <1>4 DEF Remembers, Unflagged
    <3>2. CASE ~(n \in started /\ pc[n] \in Section)
      BY <3>2, <2>1, <2>5 DEF Remembers, Section
    <3> QED
      BY <3>1, <3>2
  <2> QED
    BY <2>4, <2>5 DEF NothingForgotten, Remembers, Unflagged
<1>5. ASSUME NEW m \in Msg, Add(m) PROVE NothingForgotten'
  BY <1>5, <1>4, <1>type DEF Add, Stores, Goto
<1>6. ASSUME NEW m \in Msg, Dispatch(m) \/ SendAsync(m) PROVE NothingForgotten'
  <2>1. /\ log' = log /\ dispatched' = dispatched /\ started' = started /\ pend' = pend
        /\ pc[m] \in {"dispatch", "fallback"} /\ pc'[m] = "mark"
        /\ \A n \in Msg \ {m} : pc'[n] = pc[n]
    BY <1>6, <1>type DEF Dispatch, SendAsync, Goto, locals
  <2>2. Remembers(m)'
    BY <2>1, <1>mem DEF Remembers, Unflagged, FindByIdempotencyKey
  <2> QED
    BY <2>1, <2>2, OthersRemember
<1>7. ASSUME NEW m \in Msg, MarkAsDispatched(m) PROVE NothingForgotten'
  <2>1. PICK i \in pend[m] : /\ dispatched' = dispatched \cup {i}
                             /\ pend' = [pend EXCEPT ![m] = @ \ {i}]
                             /\ pc'[m] \in {"store", "succeed"} => pend[m] = {i}
    BY <1>7, <1>type DEF MarkAsDispatched, Goto
  <2>2. /\ log' = log /\ started' = started /\ pc[m] = "mark"
        /\ pc'[m] \in {"dispatch", "store", "succeed", "return"}
        /\ \A n \in Msg \ {m} : pc'[n] = pc[n]
    BY <1>7, <1>type DEF MarkAsDispatched, Goto
  <2>3. Remembers(m)'
    <3>1. Unflagged(m)' = Unflagged(m) \ {i} /\ pend'[m] = pend[m] \ {i}
      BY <2>1, <2>2, <1>type DEF Unflagged, FindByIdempotencyKey
    <3>2. m \in started => Unflagged(m) \subseteq pend[m]
      BY <2>2, <1>mem DEF Remembers
    <3> QED
      BY <3>1, <3>2, <2>1, <2>2 DEF Remembers
  <2>4. \A n \in Msg \ {m} : pend'[n] = pend[n]
    BY <2>1, <1>type
  <2> QED
    BY <2>1, <2>2, <2>3, <2>4, OthersRemember
<1>8. ASSUME NEW m \in Msg, pc'[m] \in {"return", "throw", "fail", "acked", "queued", "poison", "crashed"},
             UNCHANGED log, dispatched \subseteq dispatched',
             \A n \in Msg \ {m} : /\ pc'[n] = pc[n] /\ pend'[n] = pend[n]
                                  /\ n \in started' <=> n \in started
      PROVE  NothingForgotten'
  <2>1. Remembers(m)'
    BY <1>8 DEF Remembers
  <2> QED
    BY <1>8, <2>1, OthersRemember
<1>9. ASSUME NEW m \in Msg, MarkProcessingSucceeded(m) \/ MarkProcessingFailed(m) PROVE NothingForgotten'
  BY <1>9, <1>8, <1>type DEF MarkProcessingSucceeded, MarkProcessingFailed, Goto, locals
<1>10. ASSUME NEW m \in Msg, Ack(m) \/ Abandon(m) \/ Crash(m) PROVE NothingForgotten'
  BY <1>10, <1>8, <1>type DEF Ack, Abandon, Crash, ResetLocals, Goto
<1>11. ASSUME NEW m \in Msg, Throw(m) PROVE NothingForgotten'
  BY <1>11, <1>8, <1>type DEF Throw, Catch, Goto, locals
<1>12. ASSUME NEW m \in Msg, ReservationReplyLost(m) PROVE NothingForgotten'
  <2>1. /\ log' = log /\ dispatched' = dispatched /\ started' = started /\ pend' = pend
        /\ pc'[m] \in {"get", "throw", "return"}
        /\ \A n \in Msg \ {m} : pc'[n] = pc[n]
    BY <1>12, <1>type DEF ReservationReplyLost, Goto, locals
  <2>2. Remembers(m)'
    BY <2>1 DEF Remembers
  <2> QED
    BY <2>1, <2>2, OthersRemember
<1>13. ASSUME NEW m \in Msg, QueueUnavailable(m) PROVE NothingForgotten'
  <2>1. /\ log' = log /\ dispatched' = dispatched /\ started' = started /\ pend' = pend
        /\ pc[m] = "dispatch" /\ pc'[m] = "fallback"
        /\ \A n \in Msg \ {m} : pc'[n] = pc[n]
    BY <1>13, <1>type DEF QueueUnavailable, Goto, locals
  <2>2. Remembers(m)'
    BY <2>1, <1>mem DEF Remembers, Unflagged, FindByIdempotencyKey
  <2> QED
    BY <2>1, <2>2, OthersRemember
<1>14. ASSUME NEW m \in Msg, WriteReplyLost(m) PROVE NothingForgotten'
  <2>1. /\ pc'[m] \in {"fail", "throw"} /\ started' = started /\ pend' = pend
        /\ \A n \in Msg \ {m} : pc'[n] = pc[n]
    BY <1>14, <1>type DEF WriteReplyLost, Goto, Catch
  <2>2. CASE pc[m] = "store" /\ AddEvent(m) /\ UNCHANGED <<idem, linked, dispatched, sent, pend>>
    <3>1. Stores(m) /\ pc'[m] = "fail"
      BY <1>14, <2>2, <1>type DEF WriteReplyLost, Stores, Goto, Catch, ControlOK
    <3> QED
      BY <3>1, <2>1, <1>4
  <2>3. CASE log' = log /\ dispatched \subseteq dispatched'
    BY <2>1, <2>3, <1>8
  <2> QED
    BY <1>14, <2>2, <2>3 DEF WriteReplyLost
<1>15. ASSUME NEW k \in Key, Expire(k) \/ CleanerDelete(k) PROVE NothingForgotten'
  BY <1>15 DEF Expire, CleanerDelete, locals, NothingForgotten, FindByIdempotencyKey
<1>16. CASE CleanerQuery \/ UNCHANGED vars
  BY <1>16 DEF CleanerQuery, vars, locals, NothingForgotten, FindByIdempotencyKey
<1>17. ASSUME NEW m \in Msg, ReleaseReplyLost(m) PROVE NothingForgotten'
  BY <1>17 DEF ReleaseReplyLost, locals, NothingForgotten, FindByIdempotencyKey
<1> QED
  BY <1>1, <1>2, <1>3, <1>5, <1>6, <1>7, <1>9, <1>10, <1>11, <1>12, <1>13, <1>14, <1>15, <1>16, <1>17
  DEF Next, Handle, Break

-----------------------------------------------------------------------------
\* How a step changes which keys are Completed, and what has been sent: (a) no key becomes
\* Completed, or (b) a handler with nothing left to send settles its key.
LEMMA SettleShapes ==
  ASSUME TypeInv, ControlOK, NothingForgotten, [Next]_vars
  PROVE  /\ sent \subseteq sent'
         /\ \/ \A k \in Key : idem'[k].status = "Completed" => idem[k].status = "Completed"
            \/ \E m \in Msg : /\ m \in started /\ Unflagged(m) = {}
                              /\ UNCHANGED <<log, sent>>
                              /\ idem' = [idem EXCEPT ![KeyOf[m]] = CreateIdempotencyEntity(m, "Completed")]
<1> DEFINE None == \A k \in Key : idem'[k].status = "Completed" => idem[k].status = "Completed"
           Settles(m) == /\ m \in started /\ Unflagged(m) = {}
                         /\ UNCHANGED <<log, sent>>
                         /\ idem' = [idem EXCEPT ![KeyOf[m]] = CreateIdempotencyEntity(m, "Completed")]
<1>key. idem \in [Key -> Row] /\ \A m \in Msg : KeyOf[m] \in Key
  BY DomainAssumption DEF TypeInv, TypeOK
<1>row. /\ NoRow.status = "None"
        /\ \A m : CreateIdempotencyEntity(m, "Processing").status = "Processing"
  BY DEF NoRow, CreateIdempotencyEntity
<1>1. ASSUME NEW m \in Msg, AddReservation(m) \/ TryReclaimProcessing(m) \/ ReservationReplyLost(m)
      PROVE  None /\ sent' = sent
  BY <1>1, <1>key, <1>row DEF AddReservation, TryReclaimProcessing, ReservationReplyLost, WriteRow
<1>2. ASSUME NEW m \in Msg, MarkProcessingFailed(m) \/ ReleaseReplyLost(m)
      PROVE  None /\ sent' = sent
  BY <1>2, <1>key, <1>row DEF MarkProcessingFailed, ReleaseReplyLost, WriteRow
<1>3. ASSUME NEW m \in Msg, Deliver(m) \/ GetIdempotencyRecord(m) \/ FindStored(m) \/ LoadAndBuild(m)
                            \/ Add(m) \/ Ack(m) \/ Abandon(m) \/ Reappear(m) \/ Throw(m) \/ Crash(m)
      PROVE  None /\ sent' = sent
  BY <1>3 DEF Deliver, GetIdempotencyRecord, FindStored, LoadAndBuild, Add, Ack, Abandon,
              Reappear, Throw, Crash
<1>4. ASSUME NEW m \in Msg, Dispatch(m) \/ SendAsync(m) \/ MarkAsDispatched(m) \/ QueueUnavailable(m)
      PROVE  None /\ sent \subseteq sent'
  BY <1>4 DEF Dispatch, SendAsync, MarkAsDispatched, QueueUnavailable
<1>5. ASSUME NEW m \in Msg, pc[m] = "succeed", UNCHANGED <<log, sent>>,
             WriteRow(KeyOf[m], CreateIdempotencyEntity(m, "Completed"))
      PROVE  Settles(m)
  BY <1>5 DEF WriteRow, ControlOK, NothingForgotten, Unflagged
<1>6. ASSUME NEW m \in Msg, MarkProcessingSucceeded(m) PROVE Settles(m)
  BY <1>5, <1>6 DEF MarkProcessingSucceeded
<1>7. ASSUME NEW m \in Msg, WriteReplyLost(m) PROVE (None \/ Settles(m)) /\ sent \subseteq sent'
  <2>1. CASE idem' = idem /\ sent \subseteq sent'
    BY <2>1
  <2>2. CASE /\ pc[m] = "succeed" /\ WriteRow(KeyOf[m], CreateIdempotencyEntity(m, "Completed"))
             /\ UNCHANGED <<log, sent>>
    BY <2>2, <1>5
  <2> QED
    BY <1>7, <2>1, <2>2 DEF WriteReplyLost
<1>8. ASSUME NEW k \in Key, Expire(k) \/ CleanerDelete(k) PROVE None /\ sent' = sent
  BY <1>8, <1>key, <1>row DEF Expire, CleanerDelete, WriteRow, Row
<1>9. CASE CleanerQuery \/ UNCHANGED vars
  BY <1>9 DEF CleanerQuery, vars
<1> QED
  BY <1>1, <1>2, <1>3, <1>4, <1>6, <1>7, <1>8, <1>9 DEF Next, Handle, Break

\* A key that is Completed has all its events sent, and stays so: only the owner of a
\* Processing row adds events.
LEMMA ReachedStep ==
  OnceInv /\ NothingForgotten /\ FlagMeansReached /\ CompletedMeansReached /\ [Next]_vars
     => CompletedMeansReached'
<1> SUFFICES ASSUME OnceInv, NothingForgotten, FlagMeansReached, CompletedMeansReached, [Next]_vars,
                    NEW k \in Key, idem'[k].status = "Completed",
                    NEW i \in FindByIdempotencyKey(k)'
             PROVE  Reached(i)'
  BY DEF CompletedMeansReached
<1>inv. TypeInv /\ ControlOK /\ OwnsRow /\ NewInv /\ FreshIsNew
  BY DEF OnceInv, OwnInv, NewInv
<1>key. /\ idem \in [Key -> Row] /\ log \in Seq(Event) /\ fresh \in [Msg -> Seq(Event)]
        /\ \A m \in Msg : KeyOf[m] \in Key
  BY <1>inv, DomainAssumption DEF TypeInv, TypeOK
<1>1. sent \subseteq sent'
  BY <1>inv, SettleShapes
<1>2. \A x : Reached(x) => Reached(x)'
  BY <1>1 DEF Reached
<1>3. ASSUME NEW m \in Msg, Unflagged(m) = {}, UNCHANGED <<log, sent>>,
             idem' = [idem EXCEPT ![KeyOf[m]] = CreateIdempotencyEntity(m, "Completed")]
      PROVE  Reached(i)'
  <2>1. i \in FindByIdempotencyKey(k)
    BY <1>3 DEF FindByIdempotencyKey
  <2>2. CASE k = KeyOf[m]
    BY <1>2, <1>3, <2>1, <2>2 DEF Unflagged, FlagMeansReached
  <2>3. CASE k # KeyOf[m]
    BY <1>2, <1>3, <1>key, <2>1, <2>3 DEF CompletedMeansReached
  <2> QED
    BY <2>2, <2>3
<1>4. CASE idem[k].status = "Completed"
  <2>1. CASE log' = log
    BY <1>2, <1>4, <2>1 DEF CompletedMeansReached, FindByIdempotencyKey
  <2>2. ASSUME NEW m \in Msg, Stores(m) PROVE Reached(i)'
    <3>1. /\ m \in started /\ pc[m] \in Section /\ fresh[m] # <<>>
          /\ log' = Append(log, Head(fresh[m]))
      BY <2>2, <1>inv DEF Stores, AddEvent, ControlOK, Section
    <3>2. idem[KeyOf[m]].status = "Processing"
      <4>1. Owns(m)
        BY <3>1, <1>inv DEF OwnsRow
      <4> QED
        BY <4>1 DEF Owns
    <3>3. Head(fresh[m]) \in Event /\ Head(fresh[m]).key # k
      <4>1. 1 \in DOMAIN fresh[m] /\ Head(fresh[m]) = fresh[m][1] /\ Head(fresh[m]) \in Event
        BY <3>1, <1>key
      <4>2. Head(fresh[m]).key = KeyOf[m]
        BY <4>1, <1>inv DEF FreshIsNew
      <4> QED
        BY <4>1, <4>2, <3>2, <1>4
    <3>4. i \in FindByIdempotencyKey(k)
      BY <3>1, <3>3, <1>key DEF FindByIdempotencyKey
    <3> QED
      BY <3>4, <1>2, <1>4 DEF CompletedMeansReached
  <2> QED
    BY <2>1, <2>2, <1>inv, StepShapes DEF Keeps, Drops, Builds
<1>5. CASE idem[k].status # "Completed"
  BY <1>3, <1>5, <1>inv, SettleShapes
<1> QED
  BY <1>4, <1>5

\* Everything that is known of a handler together with the types: this is inductive.
FullInv == TypeInv /\ ReadMeansNone /\ HandlerInv

\* The full invariant holds at the start.
LEMMA FullInit == Init => FullInv
<1> SUFFICES ASSUME Init PROVE FullInv
  OBVIOUS
<1>1. OnceInv
  BY OnceInit
<1>2. NothingForgotten /\ MarkAfterSend /\ FlagMeansReached
  BY DEF Init, NothingForgotten, MarkAfterSend, FlagMeansReached
<1>3. CompletedMeansReached
  BY DEF Init, CompletedMeansReached, NoRow
<1> QED
  BY <1>1, <1>2, <1>3 DEF FullInv, HandlerInv, OnceInv, OwnInv, NewInv

\* Every step of a timely system preserves the full invariant.
LEMMA FullStep == Timely /\ FullInv /\ [Next]_vars => FullInv'
<1> SUFFICES ASSUME Timely, FullInv, [Next]_vars PROVE FullInv'
  OBVIOUS
<1>1. OnceInv /\ NothingForgotten /\ SentInv /\ CompletedMeansReached
  BY DEF FullInv, HandlerInv, OnceInv, OwnInv, NewInv, SentInv
<1>2. OnceInv'
  BY <1>1, TypeStep, ControlStep, OwnStep, NewStep DEF OnceInv, OwnInv
<1>3. NothingForgotten'
  BY <1>1, RememberStep DEF OnceInv, OwnInv, NewInv
<1>4. SentInv'
  BY <1>1, SentStep DEF OnceInv
<1>5. CompletedMeansReached'
  BY <1>1, ReachedStep DEF SentInv
<1> QED
  BY <1>2, <1>3, <1>4, <1>5 DEF FullInv, HandlerInv, OnceInv, OwnInv, NewInv, SentInv

\* Whatever fails, is redelivered, reclaimed or cleaned up, as long as live handlers keep
\* within their lease: one handler owns a key at a time, a flagged event was sent, and a
\* Completed key has nothing stored that the read side was not given.
THEOREM HandlersSafe == Timely => (Spec => []HandlerInv)
<1> SUFFICES ASSUME Timely PROVE Spec => []HandlerInv
  OBVIOUS
<1>1. FullInv /\ [Next]_vars => FullInv'
  BY FullStep
<1>2. FullInv => HandlerInv
  BY DEF FullInv
<1> QED
  BY <1>1, <1>2, FullInit, PTL DEF Spec

-----------------------------------------------------------------------------
\* The keys recorded as Completed: what CommandEffects calls settled.
Settled == {k \in Key : idem[k].status = "Completed"}

\* A row written with any other status forgets the key, whatever it was before.
LEMMA WriteForgets ==
  ASSUME TypeInv, NEW k \in Key, NEW row \in Row, row.status # "Completed",
         idem' = [idem EXCEPT ![k] = row], UNCHANGED <<log, sent>>
  PROVE  Effects!Forget(k)
<1>1. idem \in [Key -> Row]
  BY DEF TypeInv, TypeOK
<1>2. Settled' = Settled \ {k}
  BY <1>1 DEF Settled
<1> QED
  BY <1>2 DEF Effects!Forget, Settled

\* Sending a stored event publishes it.
LEMMA SendPublishes ==
  ASSUME TypeInv, NEW m \in Msg, NEW i \in pend[m], NEW via \in {"queue", "http"},
         sent' = sent \cup {<<i, via>>}, UNCHANGED <<log, idem>>
  PROVE  Effects!Next
<1>1. i \in DOMAIN log
  BY DEF TypeInv, TypeOK
<1>2. Effects!Publish(i, via)
  BY <1>1 DEF Effects!Publish
<1> QED
  BY <1>1, <1>2 DEF Effects!Next

\* The owner of a key stores the next of its events: the key is not settled, and no event
\* of that type is stored for it.
LEMMA StoreEmits ==
  ASSUME FullInv, NEW m \in Msg, Stores(m) PROVE Effects!Next
<1> DEFINE e == Head(fresh[m])
<1>inv. TypeInv /\ ControlOK /\ OwnsRow /\ FreshIsNew
  BY DEF FullInv, HandlerInv
<1>type. fresh \in [Msg -> Seq(Event)] /\ KeyOf[m] \in Key
  BY <1>inv, DomainAssumption DEF TypeInv, TypeOK
<1>1. /\ pc[m] = "store" /\ m \in started /\ fresh[m] # <<>>
      /\ log' = Append(log, e) /\ UNCHANGED <<idem, sent>>
  BY <1>inv DEF Stores, AddEvent, ControlOK
<1>2. e \in Event /\ 1 \in DOMAIN fresh[m] /\ e = fresh[m][1]
  BY <1>1, <1>type
<1>3. e.key = KeyOf[m] /\ \A i \in FindByIdempotencyKey(KeyOf[m]) : log[i].type # e.type
  BY <1>1, <1>2, <1>inv DEF FreshIsNew, Section
<1>4. KeyOf[m] \notin Settled
  <2>1. Owns(m)
    BY <1>1, <1>inv DEF OwnsRow, Section
  <2> QED
    BY <2>1 DEF Owns, Settled
<1>5. Effects!Emit(e)
  BY <1>1, <1>3, <1>4 DEF Effects!Emit, Effects!Stored, FindByIdempotencyKey, Settled
<1> QED
  BY <1>2, <1>5 DEF Effects!Next

\* A handler that marks its key Completed has nothing left to send: everything stored for
\* the key is published.
LEMMA SucceedSettles ==
  ASSUME FullInv, NEW m \in Msg, pc[m] = "succeed", UNCHANGED <<log, sent>>,
         idem' = [idem EXCEPT ![KeyOf[m]] = CreateIdempotencyEntity(m, "Completed")]
  PROVE  Effects!Next
<1>inv. TypeInv /\ ControlOK /\ NothingForgotten /\ FlagMeansReached
  BY DEF FullInv, HandlerInv
<1>type. idem \in [Key -> Row] /\ KeyOf[m] \in Key
  BY <1>inv, DomainAssumption DEF TypeInv, TypeOK
<1>1. \A i \in FindByIdempotencyKey(KeyOf[m]) : Reached(i)
  BY <1>inv DEF ControlOK, NothingForgotten, FlagMeansReached
<1>2. Settled' = Settled \cup {KeyOf[m]}
  BY <1>type DEF Settled, CreateIdempotencyEntity
<1>3. Effects!Settle(KeyOf[m])
  BY <1>1, <1>2 DEF Effects!Settle, Effects!Stored, Effects!Published, FindByIdempotencyKey,
                    Reached, Settled
<1> QED
  BY <1>3, <1>type DEF Effects!Next

\* Every step of the handlers, of the faults and of the cleaner is a step of
\* CommandEffects, or changes nothing CommandEffects speaks of.
LEMMA EffectStep == FullInv /\ [Next]_vars => [Effects!Next]_(Effects!vars)
<1> SUFFICES ASSUME FullInv, [Next]_vars PROVE Effects!Next \/ UNCHANGED Effects!vars
  OBVIOUS
<1>inv. TypeInv /\ ControlOK
  BY DEF FullInv, HandlerInv
<1>type. TypeOK /\ idem \in [Key -> Row] /\ \A m \in Msg : KeyOf[m] \in Key
  BY <1>inv, DomainAssumption DEF TypeInv, TypeOK
<1>row. /\ NoRow \in Row /\ NoRow.status # "Completed"
        /\ \A m \in Msg : /\ CreateIdempotencyEntity(m, "Processing") \in Row
                          /\ CreateIdempotencyEntity(m, "Processing").status # "Completed"
  BY <1>type, RowTypes DEF NoRow, CreateIdempotencyEntity
<1>stutter. ASSUME UNCHANGED <<log, sent, idem>> PROVE UNCHANGED Effects!vars
  BY <1>stutter DEF Effects!vars
<1>1. ASSUME NEW m \in Msg, Deliver(m) \/ GetIdempotencyRecord(m) \/ FindStored(m) \/ LoadAndBuild(m)
                            \/ Ack(m) \/ Abandon(m) \/ Reappear(m) \/ Throw(m) \/ Crash(m)
                            \/ MarkAsDispatched(m)
      PROVE  UNCHANGED <<log, sent, idem>>
  BY <1>1 DEF Deliver, GetIdempotencyRecord, FindStored, LoadAndBuild, Ack, Abandon,
              Reappear, Throw, Crash, MarkAsDispatched
<1>2. ASSUME NEW k \in Key, NEW row \in Row, row.status # "Completed",
             WriteRow(k, row), UNCHANGED <<log, sent>>
      PROVE  Effects!Next
  <2>1. Effects!Forget(k)
    BY <1>2, <1>inv, WriteForgets DEF WriteRow
  <2> QED
    BY <2>1 DEF Effects!Next
<1>3. ASSUME NEW m \in Msg, AddReservation(m) \/ TryReclaimProcessing(m)
      PROVE  Effects!Next \/ UNCHANGED <<log, sent, idem>>
  BY <1>2, <1>3, <1>type, <1>row DEF AddReservation, TryReclaimProcessing
<1>4. ASSUME NEW m \in Msg, ReservationReplyLost(m) \/ MarkProcessingFailed(m) \/ ReleaseReplyLost(m)
      PROVE  Effects!Next
  BY <1>2, <1>4, <1>type, <1>row DEF ReservationReplyLost, MarkProcessingFailed, ReleaseReplyLost
<1>5. ASSUME NEW m \in Msg, Add(m) PROVE Effects!Next
  <2>1. Stores(m)
    BY <1>5 DEF Add, Stores, Goto
  <2> QED
    BY <2>1, StoreEmits
<1>6. ASSUME NEW m \in Msg, Dispatch(m) \/ SendAsync(m) PROVE Effects!Next
  BY <1>6, <1>inv, SendPublishes DEF Dispatch, SendAsync
<1>7. ASSUME NEW m \in Msg, QueueUnavailable(m) PROVE Effects!Next \/ UNCHANGED <<log, sent, idem>>
  BY <1>7, <1>inv, SendPublishes DEF QueueUnavailable
<1>8. ASSUME NEW m \in Msg, MarkProcessingSucceeded(m) PROVE Effects!Next
  BY <1>8, SucceedSettles DEF MarkProcessingSucceeded, WriteRow
<1>9. ASSUME NEW m \in Msg, WriteReplyLost(m) PROVE Effects!Next \/ UNCHANGED <<log, sent, idem>>
  <2>1. CASE pc[m] = "store" /\ AddEvent(m) /\ UNCHANGED <<idem, linked, dispatched, sent, pend>>
    <3>1. Stores(m)
      BY <1>9, <2>1, <1>inv DEF WriteReplyLost, Stores, Goto, Catch, ControlOK
    <3> QED
      BY <3>1, StoreEmits
  <2>2. CASE /\ \E i \in pend[m] : Current(m, i) /\ sent' = sent \cup {<<i, "http">>}
             /\ UNCHANGED <<idem, log>>
    BY <2>2, <1>inv, SendPublishes
  <2>3. CASE UNCHANGED <<idem, log, sent>>
    BY <2>3
  <2>4. CASE /\ pc[m] = "succeed" /\ WriteRow(KeyOf[m], CreateIdempotencyEntity(m, "Completed"))
             /\ UNCHANGED <<log, sent>>
    BY <2>4, SucceedSettles DEF WriteRow
  <2> QED
    BY <1>9, <2>1, <2>2, <2>3, <2>4 DEF WriteReplyLost
<1>10. ASSUME NEW k \in Key, Expire(k) PROVE Effects!Next
  <2>1. /\ idem' = [idem EXCEPT ![k] = [idem[k] EXCEPT !.stale = TRUE]] /\ UNCHANGED <<log, sent>>
        /\ idem[k] \in Row /\ idem[k].status = "Processing"
    BY <1>10, <1>type DEF Expire
  <2>2. /\ [idem[k] EXCEPT !.stale = TRUE] \in Row
        /\ [idem[k] EXCEPT !.stale = TRUE].status # "Completed"
    BY <2>1 DEF Row
  <2>3. Effects!Forget(k)
    BY <2>1, <2>2, <1>inv, WriteForgets
  <2> QED
    BY <2>3 DEF Effects!Next
<1>11. ASSUME NEW k \in Key, CleanerDelete(k) PROVE Effects!Next \/ UNCHANGED <<log, sent, idem>>
  BY <1>2, <1>11, <1>row DEF CleanerDelete
<1>12. CASE CleanerQuery \/ UNCHANGED vars
  BY <1>12, <1>stutter DEF CleanerQuery, vars
<1> QED
  BY <1>stutter, <1>1, <1>3, <1>4, <1>5, <1>6, <1>7, <1>8, <1>9, <1>10, <1>11, <1>12
  DEF Next, Handle, Break

\* The handlers implement CommandEffects: with handlers that keep within their lease,
\* every step stores an event of an unsettled key that has none of its type, publishes a
\* stored event, settles a key whose events are all published, forgets a key, or is
\* invisible, whatever call fails, loses its answer or dies.
THEOREM HandlersImplementEffects == Timely => (Spec => ImplementsCommandEffects)
<1> SUFFICES ASSUME Timely PROVE Spec => ImplementsCommandEffects
  OBVIOUS
<1>1. Init => Effects!Init
  BY DEF Init, Effects!Init, NoRow
<1>2. FullInv /\ [Next]_vars => FullInv'
  BY FullStep
<1> QED
  BY <1>1, <1>2, FullInit, EffectStep, PTL DEF Spec, ImplementsCommandEffects, Effects!Spec

-----------------------------------------------------------------------------
\* The updates, completions and reopenings a handler has in hand are of created tasks.
FreshHasTask ==
    \A m \in Msg : \A a \in DOMAIN fresh[m] :
        fresh[m][a].type \in TaskTypes => fresh[m][a].type = "task-created" \/ HasTitle(fresh[m][a].ent)

\* An event that changes a task is only built when the aggregate has a title.
LEMMA ProducesOfTask ==
  ASSUME NEW k \in Key, NEW done \in BOOLEAN
  PROVE  \A a \in DOMAIN Produces(k, done) :
             Produces(k, done)[a].type \in TaskTypes
                => \/ Produces(k, done)[a].type = "task-created"
                   \/ HasTitle(Produces(k, done)[a].ent)
<1> DEFINE Good(s) == \A a \in DOMAIN s : s[a].type \in TaskTypes
                                            => s[a].type = "task-created" \/ HasTitle(s[a].ent)
<1>1. \A t, d : NewEvent(k, t, d).ent = Cmd[k].ent /\ NewEvent(k, t, d).type = t
  BY DEF NewEvent
<1>2. ASSUME NEW t, NEW d, t \in TaskTypes => t = "task-created" \/ HasTitle(Cmd[k].ent)
      PROVE  Good(<<NewEvent(k, t, d)>>)
  BY <1>1, <1>2
<1>3. Good(<<>>)
  OBVIOUS
<1>4. Good(<<NewEvent(k, "user-created", "keep"), NewEvent(k, "user-settings-created", "keep")>>)
  BY <1>1 DEF TaskTypes
<1> HIDE DEF Good
<1>5. Good(CreateTask(k)) /\ Good(LogoutUser(k)) /\ Good(UpdateUserSettings(k))
  BY <1>2 DEF CreateTask, LogoutUser, UpdateUserSettings, TaskTypes
<1>6. Good(UpdateTask(k, done)) /\ Good(CompleteTask(k, done)) /\ Good(ReopenTask(k, done))
  BY <1>2, <1>3 DEF UpdateTask, CompleteTask, ReopenTask
<1>7. Good(LoginUser(k))
  BY <1>2, <1>4 DEF LoginUser, TaskTypes
<1>8. Good(Produces(k, done))
  BY <1>5, <1>6, <1>7 DEF Produces
<1> QED
  BY <1>8 DEF Good

OrphanInv == NoOrphanEvents /\ FreshHasTask

\* Creations are never taken back, so what was read of a task when an event was built still
\* holds when the event is added.
LEMMA OrphanStep == TypeInv /\ ControlOK /\ OrphanInv /\ [Next]_vars => OrphanInv'
<1> SUFFICES ASSUME TypeInv, ControlOK, OrphanInv, [Next]_vars PROVE OrphanInv'
  OBVIOUS
<1>type. /\ fresh \in [Msg -> Seq(Event)] /\ log \in Seq(Event)
         /\ \A m \in Msg : KeyOf[m] \in Key
  BY DomainAssumption DEF TypeInv, TypeOK
<1>1. ASSUME log' = log PROVE NoOrphanEvents' /\ \A t : HasTitle(t)' <=> HasTitle(t)
  BY <1>1 DEF OrphanInv, NoOrphanEvents, HasTitle, Get
<1>2. CASE Keeps
  BY <1>1, <1>2 DEF Keeps, OrphanInv, FreshHasTask
<1>3. ASSUME NEW m \in Msg, Drops(m) PROVE OrphanInv'
  BY <1>1, <1>3, <1>type DEF Drops, OrphanInv, FreshHasTask
<1>4. ASSUME NEW m \in Msg, Builds(m) PROVE OrphanInv'
  <2>1. PICK done \in BOOLEAN : fresh' = [fresh EXCEPT ![m] = Produces(KeyOf[m], done)]
    BY <1>4 DEF Builds
  <2>2. log' = log /\ \A t : HasTitle(t)' <=> HasTitle(t)
    BY <1>1, <1>4 DEF Builds
  <2>3. ASSUME NEW n \in Msg, NEW a \in DOMAIN fresh'[n], fresh'[n][a].type \in TaskTypes
        PROVE  fresh'[n][a].type = "task-created" \/ HasTitle(fresh'[n][a].ent)
    <3>1. CASE n = m
      BY <2>1, <2>3, <3>1, <1>type, ProducesOfTask
    <3>2. CASE n # m
      BY <2>1, <2>3, <3>2, <1>type DEF OrphanInv, FreshHasTask
    <3> QED
      BY <3>1, <3>2
  <2>4. FreshHasTask'
    BY <2>2, <2>3 DEF FreshHasTask
  <2> QED
    BY <1>1, <2>2, <2>4 DEF OrphanInv
<1>5. ASSUME NEW m \in Msg, Stores(m) PROVE OrphanInv'
  <2> DEFINE e == Head(fresh[m])
  <2>1. /\ fresh[m] # <<>> /\ log' = Append(log, e)
        /\ fresh' = [fresh EXCEPT ![m] = Tail(fresh[m])]
    BY <1>5, <1>type DEF Stores, AddEvent, ControlOK
  <2>2. /\ e \in Event /\ e = fresh[m][1] /\ 1 \in DOMAIN fresh[m]
        /\ DOMAIN Tail(fresh[m]) = 1..(Len(fresh[m]) - 1)
        /\ DOMAIN fresh[m] = 1..Len(fresh[m])
        /\ \A a \in DOMAIN Tail(fresh[m]) : Tail(fresh[m])[a] = fresh[m][a + 1]
    BY <2>1, <1>type
  <2>3. /\ DOMAIN log' = DOMAIN log \cup {Len(log) + 1}
        /\ log'[Len(log) + 1] = e
        /\ \A i \in DOMAIN log : log'[i] = log[i]
    BY <2>1, <2>2, <1>type
  <2>4. ASSUME NEW t, HasTitle(t) PROVE HasTitle(t)'
    BY <2>3, <2>4 DEF HasTitle, Get
  <2>5. ASSUME NEW t, t = e.ent, e.type \in TaskTypes PROVE HasTitle(t)'
    <3>1. CASE e.type = "task-created"
      BY <3>1, <2>3, <2>5 DEF HasTitle, Get, TaskTypes
    <3>2. CASE e.type # "task-created"
      BY <3>2, <2>2, <2>4, <2>5 DEF OrphanInv, FreshHasTask
    <3> QED
      BY <3>1, <3>2
  <2>6. NoOrphanEvents'
    <3> SUFFICES ASSUME NEW i \in DOMAIN log', log'[i].type \in TaskTypes,
                        NEW t, t = log'[i].ent
                 PROVE  HasTitle(t)'
      BY DEF NoOrphanEvents
    <3>1. CASE i \in DOMAIN log
      BY <3>1, <2>3, <2>4 DEF OrphanInv, NoOrphanEvents
    <3>2. CASE i = Len(log) + 1
      BY <3>2, <2>3, <2>5
    <3> QED
      BY <3>1, <3>2, <2>3
  <2>7. ASSUME NEW n \in Msg, NEW a \in DOMAIN fresh'[n], fresh'[n][a].type \in TaskTypes
        PROVE  fresh'[n][a].type = "task-created" \/ HasTitle(fresh'[n][a].ent)
    <3>1. \E b \in DOMAIN fresh[n] : fresh'[n][a] = fresh[n][b]
      <4>1. CASE n = m
        <5>1. fresh'[n] = Tail(fresh[m])
          BY <4>1, <2>1, <1>type
        <5>2. a + 1 \in DOMAIN fresh[m] /\ fresh'[n][a] = fresh[m][a + 1]
          BY <5>1, <2>2, <2>7, <1>type
        <5> QED
          BY <5>2, <4>1
      <4>2. CASE n # m
        BY <4>2, <2>1, <2>7, <1>type
      <4> QED
        BY <4>1, <4>2
    <3> QED
      BY <3>1, <2>7 DEF OrphanInv, FreshHasTask
  <2>8. FreshHasTask'
    BY <2>4, <2>7 DEF FreshHasTask
  <2> QED
    BY <2>6, <2>8 DEF OrphanInv
<1> QED
  BY <1>2, <1>3, <1>4, <1>5, StepShapes

\* No event of a task that was never created is stored, although the aggregate is read in
\* one call and the event added in a later one, with handlers of any speed and any fault.
THEOREM NoOrphans == Spec => []NoOrphanEvents
<1> DEFINE Inv == TypeInv /\ ControlOK /\ OrphanInv
<1>1. Init => Inv
  <2> SUFFICES ASSUME Init PROVE Inv
    OBVIOUS
  <2>1. TypeInv /\ ControlOK
    BY OnceInit DEF OnceInv
  <2>2. OrphanInv
    BY DEF Init, OrphanInv, NoOrphanEvents, FreshHasTask
  <2> QED
    BY <2>1, <2>2
<1>2. Inv /\ [Next]_vars => Inv'
  BY TypeStep, ControlStep, OrphanStep
<1>3. Inv => NoOrphanEvents
  BY DEF OrphanInv
<1> HIDE DEF Inv
<1> QED
  BY <1>1, <1>2, <1>3, PTL DEF Spec

=============================================================================
