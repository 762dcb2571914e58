------------------------ MODULE CommandIntake_proofs ------------------------
(***************************************************************************)
(* The way of a command from the browser to the Command Queue, for any     *)
(* number of commands, posts, requests and goroutines and any clock: the   *)
(* outbox loses nothing (CommandOutbox), the API gives commands timestamps *)
(* and idempotency keys of their own (TimestampRange), and EnqueueCommands *)
(* keeps the promise of EnqueueContract.                                   *)
(***************************************************************************)
EXTENDS CommandOutbox, TimestampRange, EnqueueCommands, FiniteSetTheorems, SequenceTheorems, TLAPS

-----------------------------------------------------------------------------
(***************************************************************************)
(* CommandOutbox.                                                          *)
(***************************************************************************)
\* Nothing is asked for at the start.
LEMMA InitOutboxInv == OutboxInit => OutboxInv
<1> SUFFICES ASSUME OutboxInit PROVE OutboxInv
  OBVIOUS
<1>1. NoPost \in Post
  BY DEF NoPost, Post
<1>2. OutboxTypes
  BY <1>1 DEF OutboxInit, OutboxTypes
<1>3. PostOfEffect /\ AcceptedIsTaken /\ NothingLost
  BY DEF OutboxInit, PostOfEffect, AcceptedIsTaken, NothingLost, NoPost
<1> QED BY <1>2, <1>3 DEF OutboxInv

\* The keys of a post's body: one natural number for each command.
LEMMA KeysType ==
    ASSUME NEW body \in Seq(Command), lastKey \in Nat
    PROVE  Keys(body) \in Seq(Nat)
<1>1. DOMAIN body = 1..Len(body) /\ Len(body) \in Nat
  OBVIOUS
<1>2. \A k \in 1..Len(body) : body[k] \in Command
  OBVIOUS
<1>3. Keys(body) = [k \in 1..Len(body) |-> IF body[k].key = 0 THEN lastKey + k ELSE body[k].key]
  BY <1>1 DEF Keys
<1>4. \A k \in 1..Len(body) : (IF body[k].key = 0 THEN lastKey + k ELSE body[k].key) \in Nat
  BY <1>1, <1>2 DEF Command
<1> QED BY <1>1, <1>3, <1>4

\* A user's action: what is asked for joins the queue, and the new effect's only post
\* carries that queue.
LEMMA ActStep ==
    ASSUME OutboxInv, NEW i \in Intent, Act(i)
    PROVE  OutboxInv'
<1> DEFINE queue == Append(commands, [intent |-> i, key |-> 0])
<1> USE DEF OutboxInv, OutboxTypes
<1>1. PICK p \in Slot : flushCommands(p, effect + 1, queue)
  BY DEF Act
<1>2. queue \in Seq(Command) /\ commands' = queue /\ effect' = effect + 1 /\ intake' = intake
  BY DEF Act, Command
<1>3. post' = [post EXCEPT ![p] = [phase |-> "sent", effect |-> effect + 1, body |-> queue, keys |-> <<>>]]
  BY <1>1 DEF flushCommands
<1> HIDE DEF queue
<1>4. OutboxTypes'
  BY <1>2, <1>3 DEF Act, Post
<1>5. PostOfEffect'
  BY <1>2, <1>3 DEF OutboxInv, PostOfEffect, Post
<1>6. AcceptedIsTaken'
  BY <1>2, <1>3 DEF OutboxInv, AcceptedIsTaken, Taken
<1>7. NothingLost'
  <2>1. made' = made \cup {i}
    BY DEF Act
  <2>2. Queued \subseteq Queued'
    <3>1. \A k \in DOMAIN commands : k \in DOMAIN queue /\ queue[k] = commands[k]
      BY DEF queue
    <3> QED BY <1>2, <3>1 DEF Queued
  <2>3. i \in Queued'
    <3>1. Len(commands) + 1 \in DOMAIN queue /\ queue[Len(commands) + 1].intent = i
      BY DEF queue
    <3> QED BY <1>2, <3>1 DEF Queued
  <2> QED BY <1>2, <2>1, <2>2, <2>3 DEF OutboxInv, NothingLost, Taken
<1> QED BY <1>4, <1>5, <1>6, <1>7 DEF OutboxInv

\* The interval posts the queue as it is.
LEMMA IntervalStep ==
    ASSUME OutboxInv, Interval
    PROVE  OutboxInv'
<1> USE DEF OutboxInv, OutboxTypes
<1>1. PICK p \in Slot : flushCommands(p, effect, commands)
  BY DEF Interval
<1>2. post' = [post EXCEPT ![p] = [phase |-> "sent", effect |-> effect, body |-> commands, keys |-> <<>>]]
  BY <1>1 DEF flushCommands
<1>3. OutboxTypes'
  BY <1>2 DEF Interval, Post
<1>4. UNCHANGED <<commands, effect, made, intake>>
  BY DEF Interval
<1>5. PostOfEffect'
  BY <1>2, <1>4 DEF OutboxInv, PostOfEffect
<1>6. AcceptedIsTaken'
  BY <1>2, <1>4 DEF OutboxInv, AcceptedIsTaken, Taken
<1>7. NothingLost'
  BY <1>4 DEF OutboxInv, NothingLost, Taken, Queued
<1> QED BY <1>3, <1>5, <1>6, <1>7 DEF OutboxInv

\* The API's step: what is taken stays taken, and the body of an accepted post is.
LEMMA ServerStep ==
    ASSUME OutboxInv, NEW p \in Slot, Accept(p) \/ Fail(p)
    PROVE  OutboxInv'
<1> DEFINE body == post[p].body
           keys == Keys(body)
<1> USE DEF OutboxInv, OutboxTypes
<1>0. post[p] \in Post
  OBVIOUS
<1>1. body \in Seq(Command) /\ Len(body) \in Nat /\ keys \in Seq(Nat)
  BY <1>0, KeysType DEF Post
<1>4. intake' \subseteq Intent \X Nat
  <2>1. \A k \in DOMAIN body : body[k].intent \in Intent /\ keys[k] \in Nat
    <3>1. DOMAIN keys = DOMAIN body
      BY DEF Keys
    <3>2. \A k \in DOMAIN body : body[k] \in Command
      BY <1>1
    <3> HIDE DEF keys, body
    <3>3. \A k \in DOMAIN keys : keys[k] \in Nat
      BY <1>1
    <3> QED BY <3>1, <3>2, <3>3 DEF Command
  <2>2. intake' \subseteq intake \cup {<<body[k].intent, keys[k]>> : k \in DOMAIN body}
    BY DEF Accept, Fail
  <2> HIDE DEF keys, body
  <2> QED BY <2>1, <2>2
<1>2. CASE Accept(p)
  <2>1. OutboxTypes'
    <3>1. post' = [post EXCEPT ![p] = [post[p] EXCEPT !.phase = "accepted", !.keys = keys]]
      BY <1>2 DEF Accept
    <3>2. lastKey' = lastKey + Len(body) /\ UNCHANGED <<commands, effect, made, failures>>
      BY <1>2 DEF Accept
    <3> HIDE DEF keys, body
    <3>3. post'[p] \in Post
      BY <1>0, <1>1, <3>1 DEF Post
    <3> QED BY <1>1, <1>4, <3>1, <3>2, <3>3
  <2>2. intake \subseteq intake' /\ UNCHANGED <<commands, effect, made>>
    BY <1>2 DEF Accept
  <2>3. \A k \in DOMAIN body : <<body[k].intent, keys[k]>> \in intake'
    BY <1>2 DEF Accept
  <2>4. Taken \subseteq Taken' /\ \A k \in DOMAIN body : body[k].intent \in Taken'
    <3>1. \A a \in intake' : a[1] \in Taken'
      BY DEF Taken
    <3>2. Taken \subseteq Taken'
      BY <2>2, <3>1 DEF Taken
    <3> HIDE DEF keys, body
    <3> QED BY <2>3, <3>1, <3>2
  <2>5. PostOfEffect'
    BY <1>2, <2>2 DEF Accept, OutboxInv, PostOfEffect
  <2>6. AcceptedIsTaken'
    BY <1>2, <2>4 DEF Accept, OutboxInv, AcceptedIsTaken
  <2>7. NothingLost'
    BY <2>2, <2>4 DEF OutboxInv, NothingLost, Queued
  <2> QED BY <2>1, <2>5, <2>6, <2>7 DEF OutboxInv
<1>3. CASE Fail(p)
  <2>1. OutboxTypes'
    <3>1. post' = [post EXCEPT ![p] = [post[p] EXCEPT !.phase = "failed"]]
      BY <1>3 DEF Fail
    <3>2. lastKey' = lastKey + Len(body) /\ failures' = failures + 1 /\ UNCHANGED <<commands, effect, made>>
      BY <1>3 DEF Fail
    <3> HIDE DEF keys, body
    <3>3. post'[p] \in Post
      BY <1>0, <1>1, <3>1 DEF Post
    <3> QED BY <1>1, <1>4, <3>1, <3>2, <3>3
  <2>2. intake \subseteq intake' /\ UNCHANGED <<commands, effect, made>>
    BY <1>3 DEF Fail
  <2>3. Taken \subseteq Taken'
    BY <2>2 DEF Taken
  <2>4. PostOfEffect'
    BY <1>3, <2>2 DEF Fail, OutboxInv, PostOfEffect
  <2>5. AcceptedIsTaken'
    BY <1>3, <2>3 DEF Fail, OutboxInv, AcceptedIsTaken
  <2>6. NothingLost'
    BY <2>2, <2>3 DEF OutboxInv, NothingLost, Queued
  <2> QED BY <2>1, <2>4, <2>5, <2>6 DEF OutboxInv
<1> QED BY <1>2, <1>3

\* An answer: the queue is only cleared by the answer to a post that carried all of it.
LEMMA ReplyStep ==
    ASSUME OutboxInv, NEW p \in Slot, Reply(p)
    PROVE  OutboxInv'
<1> USE DEF OutboxInv, OutboxTypes
<1>1. post' = [post EXCEPT ![p] = NoPost] /\ UNCHANGED <<made, intake, lastKey, failures>>
  BY DEF Reply, Answered, Caught
<1>2. NoPost \in Post
  BY DEF NoPost, Post
<1>3. CASE UNCHANGED <<commands, effect>>
  <2>1. OutboxTypes'
    BY <1>1, <1>2, <1>3
  <2>2. PostOfEffect'
    BY <1>1, <1>3 DEF OutboxInv, PostOfEffect, NoPost
  <2>3. AcceptedIsTaken'
    BY <1>1 DEF OutboxInv, AcceptedIsTaken, Taken, NoPost
  <2>4. NothingLost'
    BY <1>1, <1>3 DEF OutboxInv, NothingLost, Taken, Queued
  <2> QED BY <2>1, <2>2, <2>3, <2>4 DEF OutboxInv
<1>4. CASE /\ post[p].phase = "accepted" /\ post[p].effect = effect
           /\ commands' = <<>> /\ effect' = effect + 1
  <2>1. OutboxTypes'
    BY <1>1, <1>2, <1>4
  <2>2. PostOfEffect'
    BY <1>1, <1>4 DEF OutboxInv, PostOfEffect, NoPost, Post
  <2>3. AcceptedIsTaken'
    BY <1>1 DEF OutboxInv, AcceptedIsTaken, Taken, NoPost
  <2>4. Queued \subseteq Taken
    BY <1>4 DEF OutboxInv, PostOfEffect, AcceptedIsTaken, Queued
  <2>5. NothingLost'
    BY <1>1, <2>4 DEF OutboxInv, NothingLost, Taken
  <2> QED BY <2>1, <2>2, <2>3, <2>5 DEF OutboxInv
<1> QED BY <1>3, <1>4 DEF Reply, Answered, Caught, ClearCommands

\* The step of the induction.
LEMMA OutboxStep == OutboxInv /\ [OutboxNext]_outboxVars => OutboxInv'
<1> SUFFICES ASSUME OutboxInv, [OutboxNext]_outboxVars PROVE OutboxInv'
  OBVIOUS
<1>1. CASE UNCHANGED outboxVars
  BY <1>1 DEF outboxVars, OutboxInv, OutboxTypes, PostOfEffect, AcceptedIsTaken, NothingLost,
              Taken, Queued
<1>2. CASE OutboxNext
  BY <1>2, ActStep, IntervalStep, ServerStep, ReplyStep DEF OutboxNext
<1> QED
  BY <1>1, <1>2

\* The posts and the queue agree: a post of the effect in force carries the queue as it is,
\* and what an accepted post carried was taken by the API, in every state.
THEOREM PostsMatchQueue == OutboxSpec => []OutboxInv
BY InitOutboxInv, OutboxStep, PTL DEF OutboxSpec

\* Whatever a user has asked for is queued in the client or was taken by the API: for
\* any number of commands, posts under way and failures.
THEOREM OutboxLosesNothing == OutboxSpec => []NothingLost
<1>1. OutboxInv => NothingLost
  BY DEF OutboxInv
<1> QED
  BY <1>1, PostsMatchQueue, PTL

-----------------------------------------------------------------------------
(***************************************************************************)
(* TimestampRange: the stamps.                                             *)
(***************************************************************************)
\* A range the compare-and-swap hands out starts after everything handed out before.
LEMMA FirstIsNew ==
    ASSUME RangeInv, NEW r \in Req, at[r] = "cas"
    PROVE  /\ First(r) \in Nat
           /\ First(r) > last[r]
           /\ First(r) + Size[r] - 1 \in Nat
           /\ Size[r] \in Nat /\ Size[r] > 0
BY RangeAssumption DEF RangeInv, StampTypes, BehindLast, First

\* RangeInv is preserved by the compare-and-swap of a request.
LEMMA SwapStep ==
    ASSUME RangeInv, NEW r \in Req, CompareAndSwap(r)
    PROVE  RangeInv'
<1>1. CASE lastTimestamp = last[r]
  <2>1. /\ lastTimestamp' = First(r) + Size[r] - 1
        /\ start' = [start EXCEPT ![r] = First(r)]
        /\ at' = [at EXCEPT ![r] = "done"]
        /\ UNCHANGED <<now, last>>
        /\ at[r] = "cas"
    BY <1>1 DEF CompareAndSwap, Goto
  <2>2. /\ First(r) \in Nat
        /\ First(r) > last[r]
        /\ First(r) + Size[r] - 1 \in Nat
        /\ Size[r] \in Nat /\ Size[r] > 0
    BY <2>1, FirstIsNew
  <2>3. StampTypes'
    BY <2>1, <2>2 DEF RangeInv, StampTypes
  <2>4. \A s \in Req : /\ start[s] \in Nat /\ Size[s] \in Nat
                       /\ s # r => /\ start'[s] = start[s]
                                   /\ Finished(s)' <=> Finished(s)
                       /\ start'[r] = First(r)
                       /\ Finished(s) => start[s] + Size[s] - 1 <= last[r]
    BY <2>1, <1>1, RangeAssumption DEF RangeInv, StampTypes, BehindLast, Finished
  <2>5. BehindLast'
    <3>1. ASSUME NEW s \in Req, Finished(s)'
          PROVE  start'[s] + Size[s] - 1 <= lastTimestamp'
      BY <3>1, <2>1, <2>2, <2>4, <1>1 DEF RangeInv, StampTypes
    <3>2. \A s \in Req : at'[s] \in {"load", "cas"} => Size[s] > 0
      BY <2>1 DEF RangeInv, StampTypes, BehindLast
    <3>3. QED
      BY <3>1, <3>2 DEF BehindLast
  <2>6. StampsUnique'
    <3>1. SUFFICES ASSUME NEW s \in Req, NEW q \in Req, Finished(s)', Finished(q)',
                          NEW i \in 0..(Size[s] - 1), NEW j \in 0..(Size[q] - 1),
                          start'[s] + i = start'[q] + j
                   PROVE  s = q /\ i = j
      BY DEF StampsUnique, Timestamp
    <3>2. CASE s # r /\ q # r
      BY <3>1, <3>2, <2>4 DEF RangeInv, StampsUnique, Timestamp
    <3>3. CASE s = r /\ q # r
      BY <3>1, <3>3, <2>2, <2>4 DEF RangeInv, StampTypes
    <3>4. CASE s # r /\ q = r
      BY <3>1, <3>4, <2>2, <2>4 DEF RangeInv, StampTypes
    <3>5. CASE s = r /\ q = r
      BY <3>1, <3>5, <2>2, <2>4
    <3>6. QED
      BY <3>2, <3>3, <3>4, <3>5
  <2>7. QED
    BY <2>3, <2>5, <2>6 DEF RangeInv
<1>2. CASE lastTimestamp # last[r]
  <2>1. /\ at' = [at EXCEPT ![r] = "clock"]
        /\ UNCHANGED <<lastTimestamp, start, now, last>>
        /\ at[r] = "cas"
    BY <1>2 DEF CompareAndSwap, Goto
  <2>2. StampTypes'
    BY <2>1 DEF RangeInv, StampTypes
  <2>3. \A s \in Req : Finished(s)' <=> Finished(s)
    BY <2>1 DEF RangeInv, StampTypes, Finished
  <2>4. BehindLast' /\ StampsUnique'
    BY <2>1, <2>3 DEF RangeInv, StampTypes, BehindLast, StampsUnique, Timestamp
  <2>5. QED
    BY <2>2, <2>4 DEF RangeInv
<1>3. QED
  BY <1>1, <1>2

\* RangeInv is preserved by reading the clock and by loading lastTimestamp.
LEMMA ReadStep ==
    ASSUME RangeInv, NEW r \in Req, ReadClock(r) \/ LoadLast(r)
    PROVE  RangeInv'
<1>1. UNCHANGED <<lastTimestamp, start>>
  BY DEF ReadClock, LoadLast
<1>2. StampTypes'
  BY RangeAssumption DEF RangeInv, StampTypes, ReadClock, LoadLast, Goto
<1>3. /\ \A s \in Req : Finished(s)' <=> Finished(s)
      /\ \A s \in Req : at'[s] \in {"load", "cas"} => Size[s] > 0
  BY RangeAssumption DEF RangeInv, StampTypes, BehindLast, Finished, ReadClock, LoadLast, Goto
<1>4. QED
  BY <1>1, <1>2, <1>3 DEF RangeInv, BehindLast, StampsUnique, Timestamp

\* RangeInv is inductive.
LEMMA RangeInductive ==
    RangeInv /\ [StampNext]_stampVars => RangeInv'
<1>1. SUFFICES ASSUME RangeInv, [StampNext]_stampVars PROVE RangeInv'
  OBVIOUS
<1>2. CASE StampNext
  <2>1. PICK r \in Req : Step(r)
    BY <1>2 DEF StampNext
  <2>2. QED
    BY <1>1, <2>1, SwapStep, ReadStep DEF Step
<1>3. CASE UNCHANGED stampVars
  BY <1>1, <1>3 DEF stampVars, RangeInv, StampTypes, BehindLast, StampsUnique, Finished, Timestamp
<1>4. QED
  BY <1>1, <1>2, <1>3

\* The first state satisfies RangeInv.
LEMMA RangeInit == StampInit => RangeInv
BY RangeAssumption DEF StampInit, RangeInv, StampTypes, BehindLast, StampsUnique, Finished

\* nextTimestampRange never gives two commands of a process the same timestamp.
THEOREM StampsAreUnique == StampSpec => []StampsUnique
<1>1. RangeInv => StampsUnique
  BY DEF RangeInv
<1>2. QED
  BY <1>1, RangeInit, RangeInductive, PTL DEF StampSpec

\* A request that completes its compare-and-swap later gets later timestamps.
THEOREM StampsIncrease == StampSpec => LaterRequestsGetLaterStamps
<1> DEFINE Later == \A r, s \in Req : Finished(s) /\ ~Finished(r) /\ Finished(r)' =>
                       start[s] + Size[s] - 1 < start'[r]
<1>1. RangeInv /\ [StampNext]_stampVars => [Later]_stampVars
  <2>1. SUFFICES ASSUME RangeInv, StampNext, NEW r \in Req, NEW s \in Req,
                        Finished(s), ~Finished(r), Finished(r)'
                 PROVE  start[s] + Size[s] - 1 < start'[r]
    OBVIOUS
  <2>2. PICK q \in Req : Step(q)
    BY <2>1 DEF StampNext
  <2>3. CompareAndSwap(q) /\ q = r /\ lastTimestamp = last[r]
    BY <2>1, <2>2 DEF Step, ReadClock, LoadLast, CompareAndSwap, Goto, Finished, RangeInv, StampTypes
  <2>4. start'[r] = First(r) /\ at[r] = "cas"
    BY <2>1, <2>3 DEF CompareAndSwap, RangeInv, StampTypes
  <2>5. First(r) \in Nat /\ First(r) > last[r] /\ Size[s] \in Nat /\ start[s] \in Nat
    BY <2>1, <2>4, FirstIsNew, RangeAssumption DEF RangeInv, StampTypes
  <2>6. start[s] + Size[s] - 1 <= lastTimestamp
    BY <2>1 DEF RangeInv, BehindLast
  <2>7. QED
    BY <2>1, <2>3, <2>4, <2>5, <2>6 DEF RangeInv, StampTypes
<1>2. StampInit /\ [][StampNext]_stampVars => [][Later]_stampVars
  BY <1>1, RangeInit, RangeInductive, PTL
<1>3. QED
  BY <1>2 DEF StampSpec, LaterRequestsGetLaterStamps

-----------------------------------------------------------------------------
(***************************************************************************)
(* TimestampRange: the keys. FormatInt is a recursive function; what it    *)
(* computes is shown with the least number for which a claim fails.        *)
(***************************************************************************)
\* A set of natural numbers that has members has a least one.
LEMMA LeastNatural ==
    ASSUME NEW T, T \subseteq Nat, T # {}
    PROVE  \E t \in T : \A u \in T : t <= u
<1> DEFINE Below == {0..t : t \in T}
           R == StrictSubsetOrdering(Nat)
<1>1. Below \subseteq FiniteSubsetsOf(Nat) /\ Below # {}
  <2>1. \A t \in T : 0..t \in FiniteSubsetsOf(Nat)
    BY FS_Interval DEF FiniteSubsetsOf
  <2>2. PICK t \in T : TRUE
    OBVIOUS
  <2>3. QED
    BY <2>1, <2>2
<1>2. IsWellFoundedOn(R, FiniteSubsetsOf(Nat))
  BY FS_StrictSubsetOrderingWellFounded
<1>3. PICK x \in Below : \A y \in Below : ~(<<y, x>> \in R)
  <2> HIDE DEF Below, R
  <2> QED BY <1>1, <1>2, WFMin
<1>4. PICK t \in T : x = 0..t
  OBVIOUS
<1>5. ASSUME NEW u \in T, u < t PROVE FALSE
  <2>1. 0..u \subseteq 0..t /\ t \in 0..t /\ t \notin 0..u /\ 0..u \in Below
    BY <1>5
  <2>2. <<0..u, 0..t>> \in R
    BY <2>1 DEF StrictSubsetOrdering
  <2>3. QED
    BY <2>1, <2>2, <1>3, <1>4
<1>6. QED
  BY <1>5

\* Dividing by the base gives a smaller number and, with the remainder, the number back.
LEMMA Digits ==
    ASSUME NEW v \in Nat, v >= 36
    PROVE  /\ v \div 36 \in Nat /\ v \div 36 < v
           /\ v % 36 \in 0..35 /\ v = 36 * (v \div 36) + (v % 36)
OBVIOUS

\* The value FormatInt's equation gives v when g gives the values below v.
Digit(g, v) == IF v < 36 THEN <<v>> ELSE Append(g[v \div 36], v % 36)

\* g satisfies the equation up to v.
UpTo(g, v) == \A k \in 0..v : g[k] = Digit(g, k)

\* Up to any v there is a function that satisfies the equation.
LEMMA FormatExists == \A v \in Nat : \E g : UpTo(g, v)
<1> DEFINE T == {v \in Nat : ~\E g : UpTo(g, v)}
<1>1. SUFFICES ASSUME T # {} PROVE FALSE
  OBVIOUS
<1>2. PICK v \in T : \A u \in T : v <= u
  <2>1. T \subseteq Nat
    OBVIOUS
  <2>2. QED
    BY <1>1, <2>1, LeastNatural, Zenon
<1>3. v \in Nat /\ ~\E g : UpTo(g, v)
  OBVIOUS
<1>4. PICK g : v > 0 => UpTo(g, v - 1)
  <2>1. CASE v = 0
    BY <2>1
  <2>2. CASE v > 0
    <3>1. v - 1 \in Nat /\ v - 1 \notin T
      BY <2>2, <1>2, <1>3
    <3>2. QED
      BY <3>1
  <2>3. QED
    BY <1>3, <2>1, <2>2
<1> DEFINE h == [k \in 0..v |-> IF k < v THEN g[k] ELSE Digit(g, v)]
<1>5. ASSUME NEW k \in 0..v PROVE h[k] = Digit(h, k)
  <2>1. k >= 36 => k \div 36 \in 0..v /\ k \div 36 < k /\ k \div 36 < v
    BY <1>3, Digits
  <2>2. k >= 36 => h[k \div 36] = g[k \div 36]
    BY <2>1
  <2>3. Digit(h, k) = Digit(g, k)
    BY <2>2, <1>3 DEF Digit
  <2>4. CASE k < v
    <3>1. g[k] = Digit(g, k)
      BY <2>4, <1>3, <1>4 DEF UpTo
    <3>2. QED
      BY <2>4, <2>3, <3>1
  <2>5. CASE k = v
    BY <2>5, <2>3, <1>3
  <2>6. QED
    BY <2>4, <2>5, <1>3
<1>6. UpTo(h, v)
  BY <1>5, Zenon DEF UpTo
<1>7. QED
  BY <1>3, <1>6

\* Two functions that satisfy it agree as far as both do.
LEMMA FormatUnique ==
    ASSUME NEW g, NEW h, NEW v \in Nat, NEW m \in Nat, UpTo(g, v), UpTo(h, m)
    PROVE  \A k \in Nat : k <= v /\ k <= m => g[k] = h[k]
<1> DEFINE T == {k \in Nat : k <= v /\ k <= m /\ g[k] # h[k]}
<1>1. SUFFICES ASSUME T # {} PROVE FALSE
  OBVIOUS
<1>2. PICK k \in T : \A u \in T : k <= u
  <2>1. T \subseteq Nat
    OBVIOUS
  <2>2. QED
    BY <1>1, <2>1, LeastNatural, Zenon
<1>3. k \in Nat /\ k \in 0..v /\ k \in 0..m /\ g[k] # h[k]
  OBVIOUS
<1>4. g[k] = Digit(g, k) /\ h[k] = Digit(h, k)
  BY <1>3 DEF UpTo
<1>5. CASE k < 36
  BY <1>3, <1>4, <1>5 DEF Digit
<1>6. CASE k >= 36
  <2>1. k \div 36 \in Nat /\ k \div 36 < k /\ k \div 36 <= v /\ k \div 36 <= m
    BY <1>3, <1>6, Digits
  <2>2. k \div 36 \notin T
    BY <2>1, <1>2, <1>3
  <2>3. g[k \div 36] = h[k \div 36]
    BY <2>1, <2>2
  <2>4. QED
    BY <1>3, <1>4, <1>6, <2>3 DEF Digit
<1>7. QED
  BY <1>3, <1>5, <1>6

\* FormatInt satisfies the equation that defines it.
LEMMA FormatEquation == \A v \in Nat : FormatInt[v] = Digit(FormatInt, v)
<1> DEFINE Approx(v) == CHOOSE g : UpTo(g, v)
           F == [v \in Nat |-> Approx(v)[v]]
<1>1. \A v \in Nat : UpTo(Approx(v), v)
  BY FormatExists, Zenon
<1>2. ASSUME NEW v \in Nat PROVE F[v] = Digit(F, v)
  <2>1. F[v] = Digit(Approx(v), v)
    <3>1. v \in 0..v
      OBVIOUS
    <3>2. Approx(v)[v] = Digit(Approx(v), v)
      BY <1>1, <3>1, Zenon DEF UpTo
    <3>3. QED
      BY <3>2
  <2>2. CASE v < 36
    BY <2>1, <2>2 DEF Digit
  <2>3. CASE v >= 36
    <3> DEFINE q == v \div 36
    <3>1. q \in Nat /\ q <= v
      BY <2>3, Digits
    <3>2. UpTo(Approx(v), v) /\ UpTo(Approx(q), q)
      BY <1>1, <3>1
    <3>3. Approx(v)[q] = Approx(q)[q]
      <4> HIDE DEF Approx
      <4> QED BY <3>1, <3>2, FormatUnique
    <3>4. Approx(v)[q] = F[q]
      BY <3>1, <3>3
    <3>5. QED
      BY <2>1, <2>3, <3>4 DEF Digit
  <2>4. QED
    BY <2>2, <2>3
<1>3. F = [v \in Nat |-> Digit(F, v)]
  <2>1. F = [v \in Nat |-> F[v]]
    OBVIOUS
  <2>2. QED
    BY <1>2, <2>1
<1>4. \E g : g = [v \in Nat |-> IF v < 36 THEN <<v>> ELSE Append(g[v \div 36], v % 36)]
  <2> HIDE DEF F
  <2> QED BY <1>3 DEF Digit
<1>5. FormatInt = [v \in Nat |-> IF v < 36 THEN <<v>> ELSE Append(FormatInt[v \div 36], v % 36)]
  BY <1>4, Zenon DEF FormatInt
<1>6. QED
  BY <1>5 DEF Digit

\* The two cases of the equation.
LEMMA FormatCases ==
    ASSUME NEW v \in Nat
    PROVE  /\ v < 36 => FormatInt[v] = <<v>>
           /\ v >= 36 => FormatInt[v] = Append(FormatInt[v \div 36], v % 36)
<1>1. FormatInt[v] = Digit(FormatInt, v)
  BY FormatEquation
<1>2. v >= 36 <=> ~(v < 36)
  OBVIOUS
<1>3. QED
  BY <1>1, <1>2, Zenon DEF Digit

\* A formatted number is a sequence of digits, and not an empty one.
LEMMA FormatType == \A v \in Nat : FormatInt[v] \in Seq(Nat) /\ FormatInt[v] # <<>>
<1> DEFINE Good(v) == FormatInt[v] \in Seq(Nat) /\ FormatInt[v] # <<>>
           T == {v \in Nat : ~Good(v)}
<1>1. SUFFICES ASSUME T # {} PROVE FALSE
  OBVIOUS
<1>2. PICK v \in T : \A u \in T : v <= u
  <2>1. T \subseteq Nat
    OBVIOUS
  <2>2. QED
    BY <1>1, <2>1, LeastNatural, Zenon
<1>3. v \in Nat /\ ~Good(v)
  OBVIOUS
<1>4. CASE v < 36
  <2>1. FormatInt[v] = <<v>>
    BY <1>3, <1>4, FormatCases
  <2>2. <<v>> \in Seq(Nat) /\ <<v>> # <<>>
    BY <1>3
  <2>3. QED
    BY <1>3, <2>1, <2>2
<1>5. CASE v >= 36
  <2>1. v \div 36 \in Nat /\ v \div 36 < v /\ v % 36 \in Nat
    BY <1>3, <1>5, Digits
  <2>2. Good(v \div 36)
    BY <2>1, <1>2, <1>3
  <2>3. FormatInt[v] = Append(FormatInt[v \div 36], v % 36)
    BY <1>3, <1>5, FormatCases
  <2>4. PICK q \in Seq(Nat), d \in Nat : q = FormatInt[v \div 36] /\ d = v % 36
    BY <2>1, <2>2
  <2>5. Append(q, d) \in Seq(Nat) /\ Append(q, d) # <<>>
    <3>1. Append(q, d) \in Seq(Nat) /\ Len(Append(q, d)) = Len(q) + 1
      BY AppendProperties
    <3>2. Len(q) \in Nat
      BY LenProperties
    <3>3. QED
      BY <3>1, <3>2, EmptySeq
  <2>6. FormatInt[v] = Append(q, d)
    BY <2>3, <2>4
  <2>7. QED
    BY <1>3, <2>5, <2>6
<1>6. QED
  BY <1>3, <1>4, <1>5

\* A number below 36 has one digit, any other more.
LEMMA FormatLength ==
    ASSUME NEW v \in Nat
    PROVE  Len(FormatInt[v]) = 1 <=> v < 36
<1>1. CASE v < 36
  <2>1. Len(<<v>>) = 1
    OBVIOUS
  <2>2. QED
    BY <1>1, <2>1, FormatCases
<1>2. CASE v >= 36
  <2>1. v \div 36 \in Nat /\ v % 36 \in Nat
    BY <1>2, Digits
  <2>2. FormatInt[v \div 36] \in Seq(Nat) /\ Len(FormatInt[v \div 36]) \in Nat \ {0}
    BY <2>1, FormatType, EmptySeq
  <2>3. Len(FormatInt[v]) = Len(FormatInt[v \div 36]) + 1
    BY <1>2, <2>1, <2>2, FormatCases, AppendProperties
  <2>4. QED
    BY <1>2, <2>2, <2>3
<1>3. QED
  BY <1>1, <1>2

\* strconv.FormatInt loses nothing: different numbers have different digits.
LEMMA FormatInjective == \A v \in Nat : \A m \in Nat : FormatInt[v] = FormatInt[m] => v = m
<1> DEFINE Alone(v) == \A m \in Nat : FormatInt[v] = FormatInt[m] => v = m
           T == {v \in Nat : ~Alone(v)}
<1>1. SUFFICES ASSUME T # {} PROVE FALSE
  OBVIOUS
<1>2. PICK v \in T : \A u \in T : v <= u
  <2>1. T \subseteq Nat
    OBVIOUS
  <2>2. QED
    BY <1>1, <2>1, LeastNatural, Zenon
<1>3. PICK m \in Nat : FormatInt[v] = FormatInt[m] /\ v # m
  OBVIOUS
<1>4. v \in Nat /\ (v < 36 <=> m < 36)
  BY <1>3, FormatLength
<1>5. CASE v < 36
  <2>1. <<v>> = <<m>>
    BY <1>3, <1>4, <1>5, FormatCases
  <2>2. QED
    BY <1>3, <2>1
<1>6. CASE v >= 36
  <2>1. /\ v \div 36 \in Nat /\ v \div 36 < v /\ v % 36 \in Nat
        /\ m \div 36 \in Nat /\ m % 36 \in Nat
        /\ v = 36 * (v \div 36) + (v % 36) /\ m = 36 * (m \div 36) + (m % 36)
    BY <1>4, <1>6, Digits
  <2>2. FormatInt[v \div 36] \in Seq(Nat) /\ FormatInt[m \div 36] \in Seq(Nat)
    BY <2>1, FormatType
  <2>3. Append(FormatInt[v \div 36], v % 36) = Append(FormatInt[m \div 36], m % 36)
    <3>1. m >= 36
      BY <1>4, <1>6
    <3>2. QED
      BY <1>3, <1>4, <1>6, <3>1, FormatCases, Zenon
  <2>4. FormatInt[v \div 36] = FormatInt[m \div 36] /\ v % 36 = m % 36
    <3>1. PICK s \in Seq(Nat), x \in Nat : s = FormatInt[v \div 36] /\ x = v % 36
      BY <2>1, <2>2
    <3>2. PICK t \in Seq(Nat), y \in Nat : t = FormatInt[m \div 36] /\ y = m % 36
      BY <2>1, <2>2
    <3>3. Append(s, x) = Append(t, y)
      BY <2>3, <3>1, <3>2, Zenon
    <3>4. s = t /\ x = y
      BY <3>3, AppendInjective
    <3>5. QED
      BY <3>1, <3>2, <3>4
  <2>5. Alone(v \div 36)
    BY <1>2, <1>4, <2>1
  <2>6. v \div 36 = m \div 36
    BY <2>1, <2>4, <2>5
  <2>7. QED
    BY <1>3, <2>1, <2>4, <2>6
<1>7. QED
  BY <1>4, <1>5, <1>6

\* Two commands without a key of the client's own get different idempotency keys.
THEOREM GeneratedKeysAreUnique ==
    StampSpec => []GeneratedKeysUnique
<1>1. StampTypes /\ StampsUnique => GeneratedKeysUnique
  <2>1. SUFFICES ASSUME StampTypes, StampsUnique, NEW r \in Req, NEW s \in Req,
                        Finished(r), Finished(s),
                        NEW i \in 0..(Size[r] - 1), NEW j \in 0..(Size[s] - 1),
                        <<r, i>> \notin Keyed, <<s, j>> \notin Keyed,
                        IdempotencyKey(r, i) = IdempotencyKey(s, j)
                 PROVE  r = s /\ i = j
    BY DEF GeneratedKeysUnique
  <2>2. Timestamp(r, i) \in Nat /\ Timestamp(s, j) \in Nat
    BY <2>1, RangeAssumption DEF StampTypes, Timestamp
  <2>3. Timestamp(r, i) = Timestamp(s, j)
    BY <2>1, <2>2, FormatInjective DEF IdempotencyKey
  <2>4. QED
    BY <2>1, <2>3 DEF StampsUnique
<1>2. RangeInv => StampTypes /\ StampsUnique
  BY DEF RangeInv
<1>3. QED
  BY <1>1, <1>2, RangeInit, RangeInductive, PTL DEF StampSpec

-----------------------------------------------------------------------------
(***************************************************************************)
(* EnqueueCommands.                                                        *)
(***************************************************************************)
\* The counters are natural numbers in the order n >= fed >= taken.
LEMMA Counters ==
    ASSUME TypeOK
    PROVE  /\ MaxBatch \in Nat /\ n \in Nat /\ fed \in Nat /\ taken \in Nat
           /\ n <= MaxBatch /\ fed <= n /\ taken <= fed
BY EnqueueAssumption DEF TypeOK

\* The first states satisfy the inductive invariant.
LEMMA EnqueueInit == Init => EnqueueInv
<1> SUFFICES ASSUME Init PROVE EnqueueInv
  OBVIOUS
<1>1. n \in Nat /\ MaxBatch \in Nat
  BY EnqueueAssumption DEF Init
<1>2. TypeOK
  <2>1. 0 \in 0..n /\ fed \in 0..n /\ taken \in 0..fed /\ published \subseteq Payload
    BY <1>1 DEF Init, Payload
  <2>2. /\ state \in [Worker -> {"off", "select", "send", "gone"}]
        /\ item \in [Worker -> 0..n]
    BY <2>1 DEF Init
  <2>3. QED
    BY <2>1, <2>2 DEF Init, TypeOK
<1>3. Accounted
  BY DEF Init, Accounted, Worker, Done
<1>4. Staged
  BY DEF Init, Staged, Worker, Done
<1>5. NilMeansAllPublished
  BY DEF Init, NilMeansAllPublished
<1>6. QED
  BY <1>2, <1>3, <1>4, <1>5 DEF EnqueueInv

\* The calling goroutine preserves the types.
LEMMA CallerType == ASSUME TypeOK, Caller PROVE TypeOK'
<1>1. CASE Start
  BY <1>1 DEF TypeOK, Start, Answer, input, channel, context, Payload
<1>2. CASE SerialSend
  <2>1. fed' \in 0..n /\ taken \in 0..fed' /\ fed + 1 \in Payload
    BY <1>2, Counters DEF SerialSend, Payload
  <2>2. QED
    BY <1>2, <2>1 DEF TypeOK, SerialSend, input, context, Payload
<1>3. CASE Feed
  <2>1. fed' \in 0..n /\ taken \in 0..fed'
    BY <1>3, Counters DEF Feed
  <2>2. QED
    BY <1>3, <2>1 DEF TypeOK, Feed, input, context, Payload
<1>4. CASE SerialReturn \/ CloseJobs
  BY <1>4 DEF TypeOK, SerialReturn, CloseJobs, Answer, input, channel, context, Payload
<1>5. CASE Return
  BY <1>5 DEF TypeOK, Return, Answer, input, channel, context, Payload
<1>6. QED
  BY <1>1, <1>2, <1>3, <1>4, <1>5 DEF Caller

\* So do the workers and the deadline.
LEMMA WorkType == ASSUME TypeOK, Staged, (\E w \in Worker : Work(w)) \/ Expire PROVE TypeOK'
<1>1. ASSUME NEW w \in Worker, Leave(w) PROVE TypeOK'
  BY <1>1 DEF TypeOK, Leave, input, channel, context, Payload
<1>2. ASSUME NEW w \in Worker, Take(w) PROVE TypeOK'
  <2>1. taken + 1 \in 0..fed /\ taken + 1 \in 0..n
    BY <1>2, Counters DEF Take
  <2>2. QED
    BY <1>2, <2>1 DEF TypeOK, Take, input, context, Payload
<1>3. ASSUME NEW w \in Worker, SendOK(w) \/ SendFailed(w) PROVE TypeOK'
  <2>1. item[w] \in Payload
    BY <1>3, Counters DEF SendOK, SendFailed, Staged, Payload
  <2>2. CASE SendOK(w)
    BY <2>1, <2>2 DEF TypeOK, SendOK, input, channel, context, Payload
  <2>3. CASE SendFailed(w)
    BY <2>1, <2>3 DEF TypeOK, SendFailed, input, channel, Payload
  <2>4. QED
    BY <1>3, <2>2, <2>3
<1>4. CASE Expire
  BY <1>4 DEF TypeOK, Expire, input, channel, context, Payload
<1>5. QED
  BY <1>1, <1>2, <1>3, <1>4 DEF Work

\* The invariant is preserved by the calling goroutine.
LEMMA CallerStep == ASSUME EnqueueInv, Caller PROVE EnqueueInv'
<1>1. TypeOK'
  BY CallerType DEF EnqueueInv
<1>2. CASE Start
  <2>1. UNCHANGED <<n, concurrency, fed, taken, closed, item, firstErr, cancelled, expired, published>>
    BY <1>2 DEF Start, input, channel, context
  <2>2. \A w \in Worker : state[w] = "off"
    BY <1>2 DEF EnqueueInv, Staged, Start
  <2>3. \A w \in Worker : state'[w] \in {"off", "select"}
    BY <1>2, <2>2 DEF Start, EnqueueInv, TypeOK
  <2>4. Accounted'
    <3>1. fed = 0 /\ taken = 0 /\ published = {} /\ 1..0 = {}
      BY <1>2 DEF EnqueueInv, Staged, Start
    <3>2. QED
      BY <2>1, <2>3, <3>1 DEF Accounted, Done
  <2>5. pc' \in {"feed"} => n > 0 /\ concurrency > 1 /\ state'[1] # "off"
    BY <1>2, Counters, EnqueueAssumption
       DEF Start, Answer, Sequential, workers, Worker, EnqueueInv, TypeOK
  <2>6. Staged'
    BY <1>2, <2>1, <2>3, <2>5 DEF Staged, EnqueueInv, TypeOK, Start, Answer, Done
  <2>7. NilMeansAllPublished'
    BY <1>2, <2>1 DEF NilMeansAllPublished, EnqueueInv, TypeOK, Staged, Start, Answer, Payload
  <2>8. QED
    BY <1>1, <2>4, <2>6, <2>7 DEF EnqueueInv
<1>3. CASE SerialSend
  <2>1. /\ UNCHANGED <<n, concurrency, taken, closed, state, item, firstErr, cancelled, expired, result>>
        /\ fed' = fed + 1 /\ pc = "serial" /\ pc' \in {"serial", "failed"}
    BY <1>3 DEF SerialSend, input, context
  <2>2. pc' = "serial" => published' = 1..fed'
    <3>1. pc' = "serial" => published' = 1..fed \cup {fed + 1}
      BY <1>3 DEF SerialSend, EnqueueInv, Accounted
    <3>2. 1..fed \cup {fed + 1} = 1..(fed + 1)
      BY Counters DEF EnqueueInv
    <3>3. QED
      BY <3>1, <3>2, <2>1
  <2>3. published \subseteq published'
    BY <1>3 DEF SerialSend
  <2>4. Accounted'
    BY <2>1, <2>2, <2>3 DEF Accounted, EnqueueInv, Staged, Done
  <2>5. Staged' /\ NilMeansAllPublished'
    BY <2>1 DEF Staged, NilMeansAllPublished, EnqueueInv, Done
  <2>6. QED
    BY <1>1, <2>4, <2>5 DEF EnqueueInv
<1>4. CASE SerialReturn
  BY <1>1, <1>4, EnqueueAssumption
     DEF EnqueueInv, TypeOK, Accounted, Staged, NilMeansAllPublished, SerialReturn, Answer, input,
         channel, context, Payload, Done, Worker
<1>5. CASE Feed
  BY <1>1, <1>5, EnqueueAssumption
     DEF EnqueueInv, TypeOK, Accounted, Staged, NilMeansAllPublished, Feed, input,
         channel, context, Payload, Done, Worker
<1>6. CASE CloseJobs
  BY <1>1, <1>6, EnqueueAssumption
     DEF EnqueueInv, TypeOK, Accounted, Staged, NilMeansAllPublished, CloseJobs, input,
         channel, context, Payload, Done, Worker
<1>7. CASE Return
  <2>1. /\ UNCHANGED <<n, concurrency, fed, taken, closed, state, item, firstErr, cancelled, expired, published>>
        /\ pc = "wait" /\ pc' = "returned"
        /\ \A w \in Worker : state[w] \in {"off", "gone"}
        /\ result' = IF firstErr \/ expired THEN "error" ELSE "nil"
    BY <1>7 DEF Return, Answer, input, channel, context
  <2>2. ASSUME result' = "nil" PROVE published' = Payload'
    <3>1. ~firstErr /\ ~expired /\ ~Done
      BY <2>1, <2>2 DEF EnqueueInv, Staged, Done
    <3>2. n > 0 /\ 1 \in Worker /\ state[1] = "gone" /\ fed = n
      BY <2>1, <3>1, Counters DEF EnqueueInv, Staged, Worker
    <3>3. taken = n
      BY <3>1, <3>2 DEF EnqueueInv, Accounted
    <3>4. \A p \in 1..n : p \in published
      BY <2>1, <3>1, <3>3 DEF EnqueueInv, Accounted
    <3>5. QED
      BY <2>1, <3>4 DEF EnqueueInv, TypeOK, Payload
  <2>3. Accounted'
    BY <2>1 DEF EnqueueInv, Accounted, Done
  <2>4. Staged'
    BY <2>1 DEF EnqueueInv, Staged, Done
  <2>5. QED
    BY <1>1, <2>2, <2>3, <2>4 DEF EnqueueInv, NilMeansAllPublished
<1>8. QED
  BY <1>2, <1>3, <1>4, <1>5, <1>6, <1>7 DEF Caller

\* And by a worker, and when the deadline passes.
LEMMA WorkStep ==
    ASSUME EnqueueInv, (\E w \in Worker : Work(w)) \/ Expire PROVE EnqueueInv'
<1>1. TypeOK'
  BY WorkType DEF EnqueueInv
<1>2. ASSUME NEW w \in Worker, Leave(w) PROVE EnqueueInv'
  BY <1>1, <1>2, EnqueueAssumption
     DEF EnqueueInv, TypeOK, Accounted, Staged, NilMeansAllPublished, Leave, input,
         channel, context, Payload, Done, Worker
<1>3. ASSUME NEW w \in Worker, Take(w) PROVE EnqueueInv'
  <2>1. Accounted'
    BY <1>1, <1>3, Counters
       DEF EnqueueInv, TypeOK, Accounted, Staged, Take, input, channel, context, Done, Worker
  <2>2. Staged'
    BY <1>1, <1>3, Counters
       DEF EnqueueInv, TypeOK, Staged, Take, input, channel, context, Done, Worker
  <2>3. NilMeansAllPublished'
    BY <1>1, <1>3, Counters
       DEF EnqueueInv, TypeOK, Staged, NilMeansAllPublished, Take, input, channel, context, Payload
  <2>4. QED
    BY <1>1, <2>1, <2>2, <2>3 DEF EnqueueInv
<1>4. ASSUME NEW w \in Worker, SendOK(w) PROVE EnqueueInv'
  <2>1. Accounted'
    BY <1>1, <1>4, Counters
       DEF EnqueueInv, TypeOK, Accounted, Staged, SendOK, input, channel, context, Done, Worker
  <2>2. Staged'
    BY <1>1, <1>4, Counters
       DEF EnqueueInv, TypeOK, Staged, SendOK, input, channel, context, Done, Worker
  <2>3. NilMeansAllPublished'
    BY <1>1, <1>4, Counters
       DEF EnqueueInv, TypeOK, Staged, NilMeansAllPublished, SendOK, input, channel, context, Payload
  <2>4. QED
    BY <1>1, <2>1, <2>2, <2>3 DEF EnqueueInv
<1>5. ASSUME NEW w \in Worker, SendFailed(w) PROVE EnqueueInv'
  <2>1. Accounted'
    BY <1>1, <1>5, Counters
       DEF EnqueueInv, TypeOK, Accounted, Staged, SendFailed, input, channel, context, Done, Worker
  <2>2. Staged'
    BY <1>1, <1>5, Counters
       DEF EnqueueInv, TypeOK, Staged, SendFailed, input, channel, context, Done, Worker
  <2>3. NilMeansAllPublished'
    BY <1>1, <1>5, Counters
       DEF EnqueueInv, TypeOK, Staged, NilMeansAllPublished, SendFailed, input, channel, context, Payload
  <2>4. QED
    BY <1>1, <2>1, <2>2, <2>3 DEF EnqueueInv
<1>6. CASE Expire
  BY <1>1, <1>6, EnqueueAssumption
     DEF EnqueueInv, TypeOK, Accounted, Staged, NilMeansAllPublished, Expire, input,
         channel, context, Payload, Done, Worker
<1>7. QED
  BY <1>2, <1>3, <1>4, <1>5, <1>6 DEF Work

\* EnqueueInv is inductive.
LEMMA EnqueueInductive == EnqueueInv /\ [Next]_vars => EnqueueInv'
<1>1. CASE EnqueueInv /\ UNCHANGED vars
  BY <1>1 DEF vars, input, channel, context, EnqueueInv, TypeOK, Accounted, Staged,
              NilMeansAllPublished, Payload, Done, Worker
<1>2. QED
  BY <1>1, CallerStep, WorkStep DEF Next

\* EnqueueCommands answers nil only when the whole batch is in the Command Queue.
THEOREM NilIsComplete == Spec => []NilMeansAllPublished
<1>1. EnqueueInv => NilMeansAllPublished
  BY DEF EnqueueInv
<1>2. QED
  BY <1>1, EnqueueInit, EnqueueInductive, PTL DEF Spec

\* Every step of the call is a step of its contract or changes nothing the contract
\* sees; nothing is published once the call has returned.
THEOREM KeepsContract == Spec => ImplementsEnqueueContract
<1>1. Init => Contract!Init
  BY EnqueueAssumption DEF Init, Contract!Init, Payload
<1>2. EnqueueInv /\ EnqueueInv' /\ [Next]_vars => [Contract!Next]_(Contract!vars)
  <2>1. SUFFICES ASSUME EnqueueInv, EnqueueInv', Next
                 PROVE  [Contract!Next]_(Contract!vars)
    BY DEF vars, Contract!vars, input, Payload
  <2>2. n' = n
    BY <2>1 DEF Next, Caller, Work, Start, SerialSend, SerialReturn, Feed, CloseJobs, Return,
                Leave, Take, SendOK, SendFailed, Expire, input
  <2>3. CASE Start
    BY <2>1, <2>2, <2>3
       DEF Start, Answer, Contract!Next, Contract!Return, Contract!vars,
           EnqueueInv, TypeOK, Staged, NilMeansAllPublished, Payload
  <2>4. CASE SerialSend
    <3>1. result = "open" /\ fed + 1 \in Payload /\ fed + 1 \in 1..MaxBatch
      BY <2>1, <2>4, Counters DEF SerialSend, EnqueueInv, Staged, Payload
    <3>2. result' = result /\ (published' = published \/ published' = published \cup {fed + 1})
      BY <2>4 DEF SerialSend
    <3>3. QED
      BY <2>2, <3>1, <3>2 DEF Contract!Next, Contract!Publish, Contract!vars, Payload
  <2>5. CASE SerialReturn
    BY <2>1, <2>2, <2>5
       DEF SerialReturn, Answer, Contract!Next, Contract!Return, Contract!vars,
           EnqueueInv, TypeOK, Staged, NilMeansAllPublished, Payload
  <2>6. CASE Feed \/ CloseJobs \/ Expire
    BY <2>1, <2>2, <2>6 DEF Feed, CloseJobs, Expire, Contract!vars, Payload
  <2>7. CASE Return
    BY <2>1, <2>2, <2>7
       DEF Return, Answer, Contract!Next, Contract!Return, Contract!vars,
           EnqueueInv, TypeOK, Staged, NilMeansAllPublished, Payload
  <2>8. ASSUME NEW w \in Worker, Leave(w) \/ Take(w) PROVE UNCHANGED Contract!vars
    BY <2>2, <2>8 DEF Leave, Take, Contract!vars, Payload
  <2>9. ASSUME NEW w \in Worker, SendOK(w) \/ SendFailed(w)
        PROVE  [Contract!Next]_(Contract!vars)
    <3>1. result = "open" /\ item[w] \in Payload /\ item[w] \in 1..MaxBatch
      BY <2>1, <2>9, Counters DEF SendOK, SendFailed, EnqueueInv, Staged, Payload
    <3>2. result' = result /\ (published' = published \/ published' = published \cup {item[w]})
      BY <2>9 DEF SendOK, SendFailed
    <3>3. QED
      BY <2>2, <3>1, <3>2 DEF Contract!Next, Contract!Publish, Contract!vars, Payload
  <2>10. QED
    BY <2>1, <2>3, <2>4, <2>5, <2>6, <2>7, <2>8, <2>9 DEF Next, Caller, Work
<1>3. QED
  BY <1>1, <1>2, EnqueueInit, EnqueueInductive, PTL
     DEF Spec, ImplementsEnqueueContract, Contract!Spec

=============================================================================
