---------------------- MODULE SettingsProjection_proofs ----------------------
(***************************************************************************)
(* For any user events, deliveries and failures: the settings row, which   *)
(* is written without an ETag, goes back in event time only by the write   *)
(* of a handler that was overtaken between its read and its write.         *)
(***************************************************************************)
EXTENDS SettingsProjection, TLAPS

\* What is known of an event, of the row that a creation writes and of the row that an
\* update makes of another one: it claims the time of the event, and shows events only
\* in the settings they carry.
LEMMA SettingsRows ==
    ASSUME NEW m \in Msg
    PROVE  /\ Ev[m].ts \in Nat /\ Ev[m].ts > 0
           /\ Whole(m) \in Row
           /\ Whole(m).ts = Ev[m].ts
           /\ \A f \in Setting : \A k \in Whole(m).val[f] : f \in Sets(k)
           /\ \A r \in Row :
                 /\ Merged(m, r) \in Row
                 /\ Merged(m, r).ts = Ev[m].ts
                 /\ (\A f \in Setting : \A k \in r.val[f] : f \in Sets(k)) =>
                       \A f \in Setting : \A k \in Merged(m, r).val[f] : f \in Sets(k)
<1>1. Ev[m].ts \in Nat /\ Ev[m].ts > 0
  BY SettingsAssumption DEF Event
<1>2. /\ Whole(m) \in Row
      /\ Whole(m).ts = Ev[m].ts
      /\ \A f \in Setting : \A k \in Whole(m).val[f] : f \in Sets(k)
  BY <1>1 DEF Whole, Row
<1>3. ASSUME NEW r \in Row
      PROVE  /\ Merged(m, r) \in Row
             /\ Merged(m, r).ts = Ev[m].ts
             /\ (\A f \in Setting : \A k \in r.val[f] : f \in Sets(k)) =>
                   \A f \in Setting : \A k \in Merged(m, r).val[f] : f \in Sets(k)
  BY <1>1 DEF Merged, Row
<1>4. QED
  BY <1>1, <1>2, <1>3

\* The missing row is a row without a time.
LEMMA NoSettings == NoRow \in Row /\ NoRow.ts = 0
BY DEF NoRow, Row

\* The writes: the row stays well-formed, and nobody else's position changes.
LEMMA SettingsWrite ==
    ASSUME SettingsInv, NEW m \in Msg,
           UpsertUserSettings(m) \/ UpdateUserSettings(m)
    PROVE  SettingsInv'
<1>1. /\ row' = Whole(m) \/ row' = Merged(m, row)
      /\ pc' = [pc EXCEPT ![m] = "load"]
      /\ UNCHANGED <<profile, cache, announced, dq, seen, loaded, faults>>
  BY DEF UpsertUserSettings, UpdateUserSettings, Goto
<1>2. /\ row \in Row
      /\ \A f \in Setting : \A k \in row.val[f] : f \in Sets(k)
  BY DEF SettingsInv, TypeOK
<1>3. /\ row' \in Row
      /\ \A f \in Setting : \A k \in row'.val[f] : f \in Sets(k)
  BY <1>1, <1>2, SettingsRows
<1>4. TypeOK'
  BY <1>1, <1>3 DEF SettingsInv, TypeOK, Working
<1>5. QED
  BY <1>1, <1>4 DEF SettingsInv, TypeOK

\* The read before a write: what the handler goes on to do fits what it saw.
LEMMA SettingsRead ==
    ASSUME SettingsInv, NEW m \in Msg,
           GetUserSettings(m)
    PROVE  SettingsInv'
<1>1. PICK c : /\ pc' = [pc EXCEPT ![m] = c]
               /\ \/ c = "upsert" /\ row = NoRow
                  \/ c = "merge" /\ row # NoRow /\ Ev[m].ts > row.ts
                  \/ c = "throw"
  BY DEF GetUserSettings, Goto
<1>2. /\ seen' = [seen EXCEPT ![m] = row]
      /\ UNCHANGED <<profile, row, cache, announced, dq, loaded, faults>>
  BY DEF GetUserSettings
<1>3. row \in Row /\ row.ts \in Nat /\ Ev[m].ts \in Nat
  BY SettingsRows DEF SettingsInv, TypeOK, Row
<1>4. TypeOK'
  BY <1>1, <1>2, <1>3 DEF SettingsInv, TypeOK, Working
<1>5. /\ seen'[m] = row /\ pc'[m] = c
      /\ \A k \in Msg : k # m => seen'[k] = seen[k] /\ pc'[k] = pc[k]
  BY <1>1, <1>2 DEF SettingsInv, TypeOK
<1>6. ASSUME NEW k \in Msg
      PROVE  /\ pc'[k] = "upsert" => seen'[k] = NoRow
             /\ pc'[k] = "merge" => seen'[k] # NoRow /\ seen'[k].ts < Ev[k].ts
  <2>1. CASE k = m
    BY <1>1, <1>3, <1>5, <2>1
  <2>2. CASE k # m
    BY <1>5, <2>2 DEF SettingsInv
  <2>3. QED
    BY <2>1, <2>2
<1>7. QED
  BY <1>4, <1>6 DEF SettingsInv, NoRow

\* Every other step of a handler or of Redis leaves the settings row alone; the handler is
\* not on its way to a write, and what it saw is kept or forgotten.
LEMMA SettingsOther ==
    ASSUME SettingsInv, NEW m \in Msg,
           \/ Deliver(m) \/ UpsertUser(m) \/ LoadSettings(m)
           \/ SetCache(m) \/ Publish(m) \/ Ack(m) \/ Abandon(m)
           \/ Reappear(m) \/ Throw(m) \/ Crash(m)
    PROVE  SettingsInv' /\ row' = row
<1>1. /\ row' = row
      /\ seen' = seen \/ seen' = [seen EXCEPT ![m] = NoRow]
  BY DEF Deliver, UpsertUser, LoadSettings, SetCache,
         Publish, Ack, Abandon, Reappear, Throw,
         Crash, Forget
<1>2. PICK c \in {"queued", "crashed"} \cup Working \cup Settled :
         pc' = [pc EXCEPT ![m] = c] /\ c # "upsert" /\ c # "merge"
  <2>1. CASE Deliver(m)
    <3>1. PICK c \in {"user", "publish", "get", "throw"} : pc' = [pc EXCEPT ![m] = c]
      BY <2>1 DEF Deliver, Goto
    <3>2. QED
      BY <3>1 DEF Working
  <2>2. CASE Throw(m)
    <3>1. PICK c : /\ pc' = [pc EXCEPT ![m] = c]
                   /\ c = CASE pc[m] \in {"load", "set"} -> "publish"
                            [] pc[m] = "publish"         -> "return"
                            [] OTHER                     -> "throw"
      BY <2>2 DEF Throw, Goto
    <3>2. c \in {"publish", "return", "throw"}
      BY <3>1
    <3>3. QED
      BY <3>1, <3>2 DEF Working
  <2>3. CASE \/ UpsertUser(m) \/ LoadSettings(m) \/ SetCache(m)
             \/ Publish(m) \/ Ack(m) \/ Crash(m)
    BY <2>3 DEF UpsertUser, LoadSettings, SetCache, Publish,
                Ack, Crash, Goto, Working, Settled
  <2>4. CASE Abandon(m) \/ Reappear(m)
    BY <2>4 DEF Abandon, Reappear, Retry, Goto, Settled
  <2>5. QED
    BY <2>1, <2>2, <2>3, <2>4
<1>3. /\ profile' \subseteq Msg /\ announced' \subseteq Msg
      /\ dq' \in [Msg -> Nat] /\ faults' \in Nat
  BY DEF SettingsInv, TypeOK, Deliver, UpsertUser,
         LoadSettings, SetCache, Publish, Ack,
         Abandon, Reappear, Throw, Crash, Fault
<1>4. cache' \in Row
  <2>1. CASE cache' = cache
    BY <2>1 DEF SettingsInv, TypeOK
  <2>2. CASE SetCache(m)
    <3>1. loaded[m] \in Row /\ Ev[m].ts \in Nat
      BY SettingsRows DEF SettingsInv, TypeOK
    <3>2. QED
      BY <2>2, <3>1 DEF SetCache, Row
  <2>3. QED
    BY <2>1, <2>2 DEF Deliver, UpsertUser, LoadSettings,
         Publish, Ack, Abandon, Reappear, Throw,
         Crash
<1>5. loaded' \in [Msg -> Row]
  <2>1. \/ loaded' = loaded
        \/ loaded' = [loaded EXCEPT ![m] = row]
        \/ loaded' = [loaded EXCEPT ![m] = NoRow]
    BY DEF Deliver, UpsertUser, LoadSettings, SetCache,
           Publish, Ack, Abandon, Reappear, Throw,
           Crash, Forget
  <2>2. QED
    BY <2>1, NoSettings DEF SettingsInv, TypeOK
<1>6. TypeOK'
  <2>1. seen' \in [Msg -> Row]
    BY <1>1, NoSettings DEF SettingsInv, TypeOK
  <2>2. pc' \in [Msg -> {"queued", "crashed"} \cup Working \cup Settled]
    BY <1>2 DEF SettingsInv, TypeOK
  <2>3. row' \in Row /\ \A f \in Setting : \A k \in row'.val[f] : f \in Sets(k)
    BY <1>1 DEF SettingsInv, TypeOK
  <2>4. QED
    BY <1>3, <1>4, <1>5, <2>1, <2>2, <2>3 DEF TypeOK
<1>7. /\ pc'[m] = c
      /\ \A k \in Msg : k # m => seen'[k] = seen[k] /\ pc'[k] = pc[k]
  BY <1>1, <1>2 DEF SettingsInv, TypeOK
<1>8. ASSUME NEW k \in Msg
      PROVE  /\ pc'[k] = "upsert" => seen'[k] = NoRow
             /\ pc'[k] = "merge" => seen'[k] # NoRow /\ seen'[k].ts < Ev[k].ts
  <2>1. CASE k = m
    BY <1>2, <1>7, <2>1
  <2>2. CASE k # m
    BY <1>7, <2>2 DEF SettingsInv
  <2>3. QED
    BY <2>1, <2>2
<1>9. QED
  BY <1>1, <1>6, <1>8 DEF SettingsInv, NoRow

\* SettingsInv is inductive, and a step that changes the row is one of the two writes.
LEMMA SettingsInductive ==
    SettingsInv /\ [Next]_vars =>
        /\ SettingsInv'
        /\ row' = row \/ \E m \in Msg : UpsertUserSettings(m) \/ UpdateUserSettings(m)
<1>1. SUFFICES ASSUME SettingsInv, [Next]_vars
               PROVE  /\ SettingsInv'
                      /\ row' = row \/ \E m \in Msg : UpsertUserSettings(m) \/ UpdateUserSettings(m)
  OBVIOUS
<1>2. CASE UNCHANGED vars
  BY <1>1, <1>2 DEF vars, SettingsInv, TypeOK
<1>3. CASE Expire
  BY <1>1, <1>3, NoSettings DEF Expire, SettingsInv, TypeOK
<1>4. ASSUME NEW m \in Msg, Handle(m) \/ Throw(m) \/ Crash(m)
      PROVE  /\ SettingsInv'
             /\ row' = row \/ UpsertUserSettings(m) \/ UpdateUserSettings(m)
  <2>1. CASE UpsertUserSettings(m) \/ UpdateUserSettings(m)
    BY <1>1, <2>1, SettingsWrite
  <2>2. CASE GetUserSettings(m)
    BY <1>1, <2>2, SettingsRead DEF GetUserSettings
  <2>3. CASE \/ Deliver(m) \/ UpsertUser(m) \/ LoadSettings(m) \/ SetCache(m) \/ Publish(m)
             \/ Ack(m) \/ Abandon(m) \/ Reappear(m) \/ Throw(m) \/ Crash(m)
    BY <1>1, <2>3, SettingsOther
  <2>4. QED
    BY <1>4, <2>1, <2>2, <2>3 DEF Handle
<1>5. QED
  BY <1>1, <1>2, <1>3, <1>4 DEF Next

\* The first state satisfies SettingsInv.
LEMMA SettingsInit == Init => SettingsInv
<1>1. NoRow \in Row /\ \A f \in Setting : NoRow.val[f] = {}
  BY NoSettings DEF NoRow
<1>2. QED
  BY <1>1 DEF Init, SettingsInv, TypeOK

\* For any events, faults and interleavings: a setting shows only events that carry it, a
\* row is made only where none was seen, and merged only with an event newer than the row
\* that was seen.
THEOREM SettingsAreConsistent == Spec => []SettingsInv
<1>1. SettingsInv /\ [Next]_vars => SettingsInv'
  BY SettingsInductive
<1>2. QED
  BY <1>1, SettingsInit, PTL DEF Spec

\* UserService.Apply takes the settings row back in event time only by the write of a
\* handler that was overtaken between its read and its write.
THEOREM SettingsOnlyMoveForward == Spec => SettingsMoveForward
<1> DEFINE Forward == row' # row =>
              row'.ts > row.ts \/ \E m \in Msg : WritesOvertaken(m)
<1>1. SettingsInv /\ [Next]_vars => [Forward]_vars
  <2>1. SUFFICES ASSUME SettingsInv, [Next]_vars, row' # row
                 PROVE  row'.ts > row.ts \/ \E m \in Msg : WritesOvertaken(m)
    OBVIOUS
  <2>2. PICK m \in Msg : UpsertUserSettings(m) \/ UpdateUserSettings(m)
    BY <2>1, SettingsInductive
  <2>3. /\ row' = Whole(m) \/ row' = Merged(m, row)
        /\ pc[m] \in {"upsert", "merge"} /\ pc'[m] = "load"
    BY <2>1, <2>2 DEF UpsertUserSettings, UpdateUserSettings, Goto,
                      SettingsInv, TypeOK
  <2>4. row'.ts = Ev[m].ts /\ Ev[m].ts \in Nat /\ Ev[m].ts > 0
    <3>1. row \in Row
      BY <2>1 DEF SettingsInv, TypeOK
    <3>2. QED
      BY <2>3, <3>1, SettingsRows
  <2>5. CASE seen[m] = row
    <3>1. row.ts < Ev[m].ts
      <4>1. CASE pc[m] = "upsert"
        BY <2>1, <2>4, <2>5, <4>1, NoSettings DEF SettingsInv
      <4>2. CASE pc[m] = "merge"
        BY <2>1, <2>5, <4>2 DEF SettingsInv
      <4>3. QED
        BY <2>3, <4>1, <4>2
    <3>2. row.ts \in Nat
      BY <2>1 DEF SettingsInv, TypeOK, Row
    <3>3. QED
      BY <2>4, <3>1, <3>2
  <2>6. CASE seen[m] # row
    BY <2>3, <2>6 DEF WritesOvertaken
  <2>7. QED
    BY <2>5, <2>6
<1>2. SettingsInv /\ [Next]_vars => SettingsInv'
  BY SettingsInductive
<1>3. Init /\ [][Next]_vars => [][Forward]_vars
  BY <1>1, <1>2, SettingsInit, PTL
<1>4. QED
  BY <1>3 DEF Spec, SettingsMoveForward

=============================================================================
