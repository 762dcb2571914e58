------------------------ MODULE CommandSender_proofs ------------------------
(***************************************************************************)
(* For any requests, workers and size of the channel: a batch of commands  *)
(* is in one pair of hands, and the pool and the inline fallback together  *)
(* make one call of EnqueueCommands for it.                                *)
(***************************************************************************)
EXTENDS CommandSender, TLAPS

InChannel(r) == {i \in DOMAIN jobs : jobs[i] = r}
WithWorkers(r) == {v \in Worker : job[v] = r}

\* OneHolder in terms of the three places a batch may be in.
InOnePlace(r) ==
    /\ \A i, j \in InChannel(r) : i = j
    /\ \A v, w \in WithWorkers(r) : v = w
    /\ InChannel(r) = {} \/ WithWorkers(r) = {}
    /\ pc[r] = "inline" => InChannel(r) = {} /\ WithWorkers(r) = {}

Nowhere(r) == InChannel(r) = {} /\ WithWorkers(r) = {} /\ pc[r] # "inline"

LEMMA HoldersSplit ==
  ASSUME NEW r \in Req
  PROVE  /\ (\A a, b \in Holders(r) : a = b) <=> InOnePlace(r)
         /\ Holders(r) = {} <=> Nowhere(r)
<1>1. \A i \in InChannel(r) : <<"channel", i>> \in Holders(r)
  BY DEF Holders, InChannel
<1>2. \A v \in WithWorkers(r) : <<"worker", v>> \in Holders(r)
  BY DEF Holders, WithWorkers
<1>3. pc[r] = "inline" => <<"handler", r>> \in Holders(r)
  BY DEF Holders
<1>4. ASSUME NEW a \in Holders(r)
      PROVE  \/ \E i \in InChannel(r) : a = <<"channel", i>>
             \/ \E v \in WithWorkers(r) : a = <<"worker", v>>
             \/ pc[r] = "inline" /\ a = <<"handler", r>>
  BY DEF Holders, InChannel, WithWorkers
<1>5. Holders(r) = {} <=> Nowhere(r)
  BY <1>1, <1>2, <1>3, <1>4 DEF Nowhere
<1>6. ASSUME \A a, b \in Holders(r) : a = b PROVE InOnePlace(r)
  <2>1. \A i, j \in InChannel(r) : i = j
    BY <1>1, <1>6
  <2>2. \A v, w \in WithWorkers(r) : v = w
    BY <1>2, <1>6
  <2>3. InChannel(r) = {} \/ WithWorkers(r) = {}
    BY <1>1, <1>2, <1>6
  <2>4. pc[r] = "inline" => InChannel(r) = {} /\ WithWorkers(r) = {}
    BY <1>1, <1>2, <1>3, <1>6
  <2> QED
    BY <2>1, <2>2, <2>3, <2>4 DEF InOnePlace
<1>7. ASSUME InOnePlace(r) PROVE \A a, b \in Holders(r) : a = b
  BY <1>4, <1>7 DEF InOnePlace
<1> QED
  BY <1>5, <1>6, <1>7

\* The invariant: as OneHolder, and a request that is not handed over has no result.
HandsInv ==
    \A r \in Req :
        /\ InOnePlace(r)
        /\ pc[r] \notin {"accepted", "inline"} \/ result[r] # "open" => Nowhere(r)
        /\ pc[r] \in {"new", "try", "handoff", "refused"} => result[r] = "open"

LEMMA HandsAreHolders == HandsInv => OneHolder
BY HoldersSplit DEF HandsInv, OneHolder

\* Types.
LEMMA SenderInit == Init => TypeOK /\ HandsInv
<1> SUFFICES ASSUME Init PROVE TypeOK /\ HandsInv
  OBVIOUS
<1>1. TypeOK
  BY SenderAssumption DEF Init, TypeOK
<1>2. \A r \in Req : InChannel(r) = {} /\ WithWorkers(r) = {}
  BY SenderAssumption DEF Init, InChannel, WithWorkers
<1>3. HandsInv
  BY <1>2 DEF Init, HandsInv, InOnePlace, Nowhere
<1> QED
  BY <1>1, <1>3

LEMMA SenderTypeStep == TypeOK /\ [Next]_vars => TypeOK'
<1> SUFFICES ASSUME TypeOK, [Next]_vars PROVE TypeOK'
  OBVIOUS
<1>1. ASSUME NEW r \in Req, PostCommands(r) PROVE TypeOK'
  BY <1>1 DEF PostCommands, Goto, TypeOK
<1>a. ASSUME NEW r \in Req, SendJob(r), UNCHANGED <<job, published, result>> PROVE TypeOK'
  <2>1. jobs' \in Seq(Req) /\ Len(jobs') = Len(jobs) + 1
    BY <1>a DEF SendJob, TypeOK
  <2>2. Len(jobs') <= Buffer
    BY <1>a, <2>1, SenderAssumption DEF SendJob, TypeOK
  <2>3. pc' \in [Req -> {"new", "try", "handoff", "inline",
                       "accepted", "failed", "refused", "dropped"}]
    BY <1>a DEF SendJob, Goto, TypeOK
  <2> QED
    BY <1>a, <2>1, <2>2, <2>3 DEF TypeOK
<1>2. ASSUME NEW r \in Req, TrySendNonBlocking(r) PROVE TypeOK'
  <2>1. CASE ~SendJob(r)
    BY <1>2, <2>1 DEF TrySendNonBlocking, Goto, TypeOK
  <2> QED
    BY <1>2, <1>a, <2>1 DEF TrySendNonBlocking
<1>3. ASSUME NEW r \in Req, SendWithTimer(r) PROVE TypeOK'
  <2>1. CASE ~SendJob(r)
    BY <1>3, <2>1 DEF SendWithTimer, Goto, TypeOK
  <2> QED
    BY <1>3, <1>a, <2>1 DEF SendWithTimer
<1>4. ASSUME NEW r \in Req, PublishOne(r) PROVE TypeOK'
  <2>1. Batch[r] \subseteq Payload
    BY SenderAssumption
  <2> QED
    BY <1>4, <2>1 DEF PublishOne, TypeOK
<1>5. ASSUME NEW r \in Req, InlineDone(r) PROVE TypeOK'
  BY <1>5 DEF InlineDone, Answers, Goto, TypeOK
<1>6. ASSUME NEW w \in Worker, Receive(w) PROVE TypeOK'
  BY <1>6, SenderAssumption DEF Receive, TypeOK
<1>7. ASSUME NEW w \in Worker, WorkerDone(w) PROVE TypeOK'
  BY <1>7 DEF WorkerDone, Answers, TypeOK
<1>8. CASE Crash
  BY <1>8, SenderAssumption DEF Crash, TypeOK
<1>9. CASE UNCHANGED vars
  BY <1>9 DEF vars, TypeOK
<1>10. \A w \in Worker : job[w] # NoJob => job[w] \in Req
  BY DEF TypeOK
<1> QED
  BY <1>1, <1>2, <1>3, <1>4, <1>5, <1>6, <1>7, <1>8, <1>9, <1>10 DEF Next, Serve, Work

\* A request goes on without a change of hands.
LEMMA NoHands ==
  ASSUME TypeOK, HandsInv, NEW r \in Req, NEW c,
         Goto(r, c), UNCHANGED <<jobs, job, result>>,
         \/ pc[r] = "new" /\ c \in {"refused", "try"}
         \/ pc[r] = "try" /\ c = "handoff"
         \/ pc[r] = "handoff" /\ c = "inline"
  PROVE  HandsInv'
<1>1. \A s \in Req : InChannel(s)' = InChannel(s) /\ WithWorkers(s)' = WithWorkers(s)
  BY DEF InChannel, WithWorkers
<1>2. pc'[r] = c /\ \A s \in Req : s # r => pc'[s] = pc[s]
  BY DEF Goto, TypeOK
<1>3. Nowhere(r) /\ result[r] = "open"
  BY DEF HandsInv
<1>4. InOnePlace(r)' /\ (c # "inline" => Nowhere(r)')
  BY <1>1, <1>2, <1>3 DEF Nowhere, InOnePlace
<1>5. ASSUME NEW s \in Req, s # r PROVE InOnePlace(s)' <=> InOnePlace(s)
  BY <1>1, <1>2, <1>5 DEF InOnePlace
<1>6. ASSUME NEW s \in Req, s # r PROVE Nowhere(s)' <=> Nowhere(s)
  BY <1>1, <1>2, <1>6 DEF Nowhere
<1>7. ASSUME NEW s \in Req
      PROVE  /\ InOnePlace(s)'
             /\ pc'[s] \notin {"accepted", "inline"} \/ result'[s] # "open" => Nowhere(s)'
             /\ pc'[s] \in {"new", "try", "handoff", "refused"} => result'[s] = "open"
  <2>1. CASE s = r
    BY <2>1, <1>2, <1>3, <1>4
  <2>2. CASE s # r
    BY <2>2, <1>2, <1>5, <1>6 DEF HandsInv
  <2> QED
    BY <2>1, <2>2
<1> QED
  BY <1>7 DEF HandsInv

\* A batch that nobody holds is put into the channel.
LEMMA SendHands ==
  ASSUME TypeOK, HandsInv, NEW r \in Req, pc[r] \in {"try", "handoff"}, SendJob(r),
         UNCHANGED <<job, result>>
  PROVE  HandsInv'
<1> DEFINE n == Len(jobs) + 1
<1>1. /\ DOMAIN jobs = 1..Len(jobs) /\ Len(jobs) \in Nat /\ DOMAIN jobs' = 1..n /\ jobs'[n] = r
      /\ \A i \in 1..Len(jobs) : jobs'[i] = jobs[i]
  BY DEF SendJob, TypeOK
<1>2. pc'[r] = "accepted" /\ \A s \in Req : s # r => pc'[s] = pc[s]
  BY DEF SendJob, Goto, TypeOK
<1>3. Nowhere(r) /\ result[r] = "open"
  BY DEF HandsInv
<1>4. \A s \in Req : WithWorkers(s)' = WithWorkers(s)
  BY DEF WithWorkers
<1>5. InChannel(r)' = {n}
  BY <1>1, <1>3 DEF InChannel, Nowhere
<1>6. ASSUME NEW s \in Req, s # r PROVE InChannel(s)' = InChannel(s)
  BY <1>1, <1>6 DEF InChannel
<1>7. ASSUME NEW s \in Req
      PROVE  /\ InOnePlace(s)'
             /\ pc'[s] \notin {"accepted", "inline"} \/ result'[s] # "open" => Nowhere(s)'
             /\ pc'[s] \in {"new", "try", "handoff", "refused"} => result'[s] = "open"
  <2>1. CASE s = r
    <3>1. InOnePlace(r)'
      BY <1>2, <1>3, <1>4, <1>5 DEF InOnePlace, Nowhere
    <3> QED
      BY <2>1, <3>1, <1>2, <1>3
  <2>2. CASE s # r
    <3>1. (InOnePlace(s)' <=> InOnePlace(s)) /\ (Nowhere(s)' <=> Nowhere(s))
      BY <2>2, <1>2, <1>4, <1>6 DEF InOnePlace, Nowhere
    <3> QED
      BY <2>2, <3>1, <1>2 DEF HandsInv
  <2> QED
    BY <2>1, <2>2
<1> QED
  BY <1>7 DEF HandsInv

\* A batch goes from the channel to a worker.
LEMMA ReceiveHands ==
  ASSUME TypeOK, HandsInv, NEW w \in Worker, Receive(w)
  PROVE  HandsInv'
<1>0. PICK r \in Req : r = Head(jobs)
  BY DEF Receive, TypeOK
<1>1. /\ DOMAIN jobs = 1..Len(jobs) /\ Len(jobs) \in Nat \ {0} /\ DOMAIN jobs' = 1..(Len(jobs) - 1)
      /\ r = jobs[1]
      /\ \A i \in 1..(Len(jobs) - 1) : jobs'[i] = jobs[i + 1]
  BY <1>0 DEF Receive, TypeOK
<1>2. /\ job' = [job EXCEPT ![w] = r] /\ job[w] = NoJob /\ UNCHANGED <<pc, result>>
      /\ job \in [Worker -> Req \cup {NoJob}] /\ NoJob \notin Req
  BY <1>0, SenderAssumption DEF Receive, TypeOK
<1>3. 1 \in InChannel(r)
  BY <1>1 DEF InChannel
<1>4. InOnePlace(r) /\ ~Nowhere(r)
  BY <1>1, <1>3 DEF HandsInv, Nowhere
<1>5. \A s \in Req : \A i \in InChannel(s)' : i + 1 \in InChannel(s) /\ i \in Nat /\ i + 1 # 1
  BY <1>1 DEF InChannel
<1>6. InChannel(r)' = {} /\ WithWorkers(r)' = {w} /\ pc[r] # "inline"
  <2>1. InChannel(r)' = {}
    BY <1>1, <1>3, <1>4, <1>5 DEF InOnePlace
  <2>2. WithWorkers(r) = {} /\ pc[r] # "inline"
    BY <1>3, <1>4 DEF InOnePlace
  <2>3. WithWorkers(r)' = {w}
    BY <1>1, <1>2, <2>2 DEF WithWorkers
  <2> QED
    BY <2>1, <2>2, <2>3
<1>7. ASSUME NEW s \in Req, s # r PROVE WithWorkers(s)' = WithWorkers(s)
  BY <1>2, <1>7 DEF WithWorkers
<1>8. ASSUME NEW s \in Req
      PROVE  /\ InOnePlace(s)'
             /\ pc'[s] \notin {"accepted", "inline"} \/ result'[s] # "open" => Nowhere(s)'
             /\ pc'[s] \in {"new", "try", "handoff", "refused"} => result'[s] = "open"
  <2>1. CASE s = r
    <3>1. InOnePlace(r)'
      BY <1>2, <1>6 DEF InOnePlace
    <3> QED
      BY <2>1, <3>1, <1>1, <1>2, <1>4 DEF HandsInv
  <2>2. CASE s # r
    <3>1. InOnePlace(s)
      BY DEF HandsInv
    <3>2. \A i, j \in InChannel(s)' : i = j
      BY <3>1, <1>5 DEF InOnePlace
    <3>3. InChannel(s) = {} => InChannel(s)' = {}
      BY <1>5
    <3>4. InOnePlace(s)' /\ (Nowhere(s) => Nowhere(s)')
      BY <2>2, <3>1, <3>2, <3>3, <1>2, <1>7 DEF InOnePlace, Nowhere
    <3> QED
      BY <3>4, <1>2 DEF HandsInv
  <2> QED
    BY <2>1, <2>2
<1> QED
  BY <1>8 DEF HandsInv

\* A call is over: whoever made it, a worker or the handler, lets go of the batch.
LetsGo(r) ==
    /\ ~Nowhere(r) /\ Nowhere(r)'
    /\ pc'[r] \notin {"new", "try", "handoff", "refused"}
    /\ \A s \in Req : s # r => WithWorkers(s)' = WithWorkers(s) /\ pc'[s] = pc[s]
    /\ \E a \in Answers(r) : result' = [result EXCEPT ![r] = a]
    /\ UNCHANGED <<jobs, published>>

LEMMA DoneLetsGo ==
  ASSUME TypeOK, HandsInv
  PROVE  /\ \A w \in Worker : WorkerDone(w) => \E r \in Req : LetsGo(r)
         /\ \A r \in Req : InlineDone(r) => LetsGo(r)
<1>1. ASSUME NEW w \in Worker, WorkerDone(w) PROVE \E r \in Req : LetsGo(r)
  <2>1. PICK r \in Req : r = job[w]
    BY <1>1 DEF WorkerDone, TypeOK
  <2>2. /\ job' = [job EXCEPT ![w] = NoJob] /\ UNCHANGED <<pc, jobs, published>> /\ NoJob \notin Req
        /\ \E a \in Answers(r) : result' = [result EXCEPT ![r] = a]
    BY <1>1, <2>1, SenderAssumption DEF WorkerDone
  <2>3. w \in WithWorkers(r)
    BY <2>1 DEF WithWorkers
  <2>4. InOnePlace(r) /\ ~Nowhere(r)
    BY <2>3 DEF HandsInv, Nowhere
  <2>5. pc[r] = "accepted" /\ InChannel(r) = {} /\ \A v \in WithWorkers(r) : v = w
    BY <2>3, <2>4 DEF HandsInv, InOnePlace
  <2>6. WithWorkers(r)' = {}
    BY <2>2, <2>5 DEF WithWorkers, TypeOK
  <2>7. InChannel(r)' = {}
    BY <2>2, <2>5 DEF InChannel
  <2>8. \A s \in Req : s # r => WithWorkers(s)' = WithWorkers(s)
    BY <2>1, <2>2 DEF WithWorkers, TypeOK
  <2>9. Nowhere(r)'
    BY <2>2, <2>5, <2>6, <2>7 DEF Nowhere
  <2> QED
    BY <2>2, <2>4, <2>5, <2>8, <2>9 DEF LetsGo
<1>2. ASSUME NEW r \in Req, InlineDone(r) PROVE LetsGo(r)
  <2>1. /\ pc[r] = "inline" /\ pc \in [Req -> {"new", "try", "handoff", "inline",
                       "accepted", "failed", "refused", "dropped"}]
        /\ UNCHANGED <<jobs, job, published>>
    BY <1>2 DEF InlineDone, TypeOK
  <2>2. PICK a \in Answers(r) : result' = [result EXCEPT ![r] = a] /\
                                Goto(r, IF a = "nil" THEN "accepted" ELSE "failed")
    BY <1>2 DEF InlineDone
  <2>3. pc'[r] \in {"accepted", "failed"} /\ \A s \in Req : s # r => pc'[s] = pc[s]
    BY <2>1, <2>2 DEF Goto
  <2>4. InChannel(r) = {} /\ WithWorkers(r) = {} /\ ~Nowhere(r)
    BY <2>1 DEF HandsInv, InOnePlace, Nowhere
  <2>5. InChannel(r)' = InChannel(r) /\ \A s \in Req : WithWorkers(s)' = WithWorkers(s)
    BY <2>1 DEF InChannel, WithWorkers
  <2>6. Nowhere(r)'
    BY <2>3, <2>4, <2>5 DEF Nowhere
  <2> QED
    BY <2>1, <2>2, <2>3, <2>4, <2>5, <2>6 DEF LetsGo
<1> QED
  BY <1>1, <1>2

LEMMA DoneHands ==
  ASSUME TypeOK, HandsInv, NEW r \in Req, LetsGo(r)
  PROVE  HandsInv'
<1>1. \A s \in Req : s # r => result'[s] = result[s]
  BY DEF LetsGo, TypeOK
<1>2. \A s \in Req : InChannel(s)' = InChannel(s)
  BY DEF LetsGo, InChannel
<1>3. ASSUME NEW s \in Req
      PROVE  /\ InOnePlace(s)'
             /\ pc'[s] \notin {"accepted", "inline"} \/ result'[s] # "open" => Nowhere(s)'
             /\ pc'[s] \in {"new", "try", "handoff", "refused"} => result'[s] = "open"
  <2>1. CASE s = r
    <3>1. Nowhere(r)' /\ pc'[r] \notin {"new", "try", "handoff", "refused"}
      BY DEF LetsGo
    <3>2. InOnePlace(r)'
      BY <3>1 DEF InOnePlace, Nowhere
    <3> QED
      BY <2>1, <3>1, <3>2
  <2>2. CASE s # r
    <3>1. WithWorkers(s)' = WithWorkers(s) /\ pc'[s] = pc[s]
      BY <2>2 DEF LetsGo
    <3>2. (InOnePlace(s)' <=> InOnePlace(s)) /\ (Nowhere(s)' <=> Nowhere(s))
      BY <3>1, <1>2 DEF InOnePlace, Nowhere
    <3> QED
      BY <2>2, <3>1, <3>2, <1>1 DEF HandsInv
  <2> QED
    BY <2>1, <2>2
<1> QED
  BY <1>3 DEF HandsInv

\* A process that dies holds nothing when it comes up again.
LEMMA CrashHands ==
  ASSUME TypeOK, HandsInv, Crash
  PROVE  HandsInv'
<1>1. \A s \in Req : InChannel(s)' = {} /\ WithWorkers(s)' = {}
  BY SenderAssumption DEF Crash, InChannel, WithWorkers
<1>2. /\ pc' = [r \in Req |-> IF pc[r] \in {"try", "handoff", "inline"} THEN "dropped" ELSE pc[r]]
      /\ result' = [r \in Req |-> IF Holders(r) # {} THEN "lost" ELSE result[r]]
  BY DEF Crash
<1>3. ASSUME NEW s \in Req
      PROVE  /\ InOnePlace(s)'
             /\ pc'[s] \notin {"accepted", "inline"} \/ result'[s] # "open" => Nowhere(s)'
             /\ pc'[s] \in {"new", "try", "handoff", "refused"} => result'[s] = "open"
  <2>1. InOnePlace(s)' /\ Nowhere(s)'
    BY <1>1, <1>2 DEF InOnePlace, Nowhere
  <2>2. ASSUME pc'[s] \in {"new", "try", "handoff", "refused"} PROVE result'[s] = "open"
    <3>1. pc[s] \in {"new", "refused"}
      BY <1>2, <2>2
    <3>2. Holders(s) = {} /\ result[s] = "open"
      BY <3>1, HoldersSplit DEF HandsInv
    <3> QED
      BY <1>2, <3>2
  <2> QED
    BY <2>1, <2>2
<1> QED
  BY <1>3 DEF HandsInv

LEMMA HandsStep == TypeOK /\ HandsInv /\ [Next]_vars => HandsInv'
<1> SUFFICES ASSUME TypeOK, HandsInv, [Next]_vars PROVE HandsInv'
  OBVIOUS
<1>1. ASSUME UNCHANGED <<pc, jobs, job, result>> PROVE HandsInv'
  BY <1>1 DEF HandsInv, InOnePlace, Nowhere, InChannel, WithWorkers
<1>2. ASSUME NEW r \in Req, PostCommands(r) \/ TrySendNonBlocking(r) \/ SendWithTimer(r)
      PROVE  HandsInv'
  <2>1. CASE SendJob(r) /\ UNCHANGED <<job, result>> /\ pc[r] \in {"try", "handoff"}
    BY <2>1, SendHands
  <2>2. CASE PostCommands(r)
    BY <2>2, NoHands DEF PostCommands
  <2>3. CASE TrySendNonBlocking(r)
    BY <2>1, <2>3, NoHands DEF TrySendNonBlocking
  <2>4. CASE SendWithTimer(r)
    BY <2>1, <2>4, NoHands DEF SendWithTimer
  <2> QED
    BY <1>2, <2>2, <2>3, <2>4
<1>3. ASSUME NEW r, PublishOne(r) PROVE HandsInv'
  BY <1>1, <1>3 DEF PublishOne
<1>4. UNCHANGED vars => UNCHANGED <<pc, jobs, job, result>>
  BY DEF vars
<1> QED
  BY <1>1, <1>2, <1>3, <1>4, ReceiveHands, DoneLetsGo, DoneHands, CrashHands DEF Next, Serve, Work

\* A batch of commands has one holder at most, the channel, a worker or its handler, and
\* none before it is handed over or after its call is over; and the channel keeps to its
\* capacity: for any number of requests and workers, with failures and crashes.
THEOREM OneHolderEach == Spec => []SenderInv
<1>1. TypeOK /\ HandsInv => SenderInv
  BY HandsAreHolders DEF SenderInv
<1> QED
  BY <1>1, SenderInit, SenderTypeStep, HandsStep, PTL DEF Spec

\* What a step may do to a batch, seen from the Command Queue.
CallStep(r) == Call(r)!Next \/ UNCHANGED <<published[r], result[r]>>

\* A command is published for a batch that somebody holds: its call is open.
LEMMA PublishIsCalled ==
  ASSUME TypeOK, HandsInv, NEW r \in Req, ~Nowhere(r), PublishOne(r), NEW s \in Req
  PROVE  CallStep(s)
<1>1. PICK p \in Batch[r] \ published[r] : published' = [published EXCEPT ![r] = @ \cup {p}]
  BY DEF PublishOne
<1>2. result' = result /\ result[r] = "open" /\ Batch[r] \subseteq Payload
  BY SenderAssumption DEF PublishOne, HandsInv
<1>3. CASE s = r
  <2>1. published'[r] = published[r] \cup {p}
    BY <1>1 DEF TypeOK
  <2>2. Call(r)!Publish(p)
    BY <1>1, <1>2, <2>1 DEF Call!Publish
  <2> QED
    BY <1>2, <1>3, <2>2 DEF CallStep, Call!Next
<1>4. CASE s # r
  BY <1>1, <1>2, <1>4 DEF CallStep, TypeOK
<1> QED
  BY <1>3, <1>4

\* An answer ends an open call, and nil means that everything was published.
LEMMA DoneIsReturned ==
  ASSUME TypeOK, HandsInv, NEW r \in Req, LetsGo(r), NEW s \in Req
  PROVE  CallStep(s)
<1>1. PICK a \in Answers(r) : result' = [result EXCEPT ![r] = a]
  BY DEF LetsGo
<1>2. published' = published /\ result[r] = "open"
  BY DEF LetsGo, HandsInv
<1>3. CASE s = r
  <2>1. result'[r] = a /\ a \in {"nil", "error"} /\ (a = "nil" => published[r] = Batch[r])
    BY <1>1 DEF TypeOK, Answers
  <2>2. Call(r)!Return(a)
    BY <1>2, <2>1 DEF Call!Return
  <2> QED
    BY <1>3, <2>1, <2>2 DEF CallStep, Call!Next
<1>4. CASE s # r
  BY <1>1, <1>2, <1>4 DEF CallStep, TypeOK
<1> QED
  BY <1>3, <1>4

\* To the queue a call that a crash cuts short is one that failed.
LEMMA CrashIsReturned ==
  ASSUME TypeOK, HandsInv, Crash, NEW s \in Req
  PROVE  CallStep(s)
<1>1. /\ result' = [r \in Req |-> IF Holders(r) # {} THEN "lost" ELSE result[r]]
      /\ published' = published
  BY DEF Crash
<1>2. CASE Holders(s) # {}
  <2>1. result[s] = "open" /\ result'[s] = "lost"
    BY <1>1, <1>2, HoldersSplit DEF HandsInv
  <2>2. Call(s)!Return("error")
    BY <1>1, <2>1 DEF Call!Return
  <2> QED
    BY <2>2 DEF CallStep, Call!Next
<1>3. CASE Holders(s) = {}
  BY <1>1, <1>3 DEF CallStep
<1> QED
  BY <1>2, <1>3

\* Seen from the Command Queue the pool and the inline fallback make one call of
\* EnqueueCommands for each batch: after an answer, or the death of the process, nothing
\* more of it is published.
THEOREM PoolKeepsContract == Spec => OneCallPerBatch
<1> DEFINE Step == \A r \in Req : Call(r)!Next \/ UNCHANGED <<published[r], result[r]>>
<1>1. Init => \A r \in Req : Call(r)!Init
  BY SenderAssumption DEF Init, Call!Init
<1>2. TypeOK /\ HandsInv /\ [Next]_vars => [Step]_vars
  <2> SUFFICES ASSUME TypeOK, HandsInv, Next PROVE Step
    OBVIOUS
  <2> SUFFICES ASSUME NEW s \in Req PROVE CallStep(s)
    BY DEF CallStep
  <2>1. CASE UNCHANGED <<published, result>>
    BY <2>1 DEF CallStep
  <2>2. ASSUME NEW r \in Req, PostCommands(r) \/ TrySendNonBlocking(r) \/ SendWithTimer(r)
        PROVE  CallStep(s)
    BY <2>1, <2>2 DEF PostCommands, TrySendNonBlocking, SendWithTimer
  <2>3. ASSUME NEW r \in Req, pc[r] = "inline", PublishOne(r) PROVE CallStep(s)
    BY <2>3, PublishIsCalled DEF Nowhere
  <2>4. ASSUME NEW w \in Worker, job[w] # NoJob, PublishOne(job[w]) PROVE CallStep(s)
    <3>1. PICK r \in Req : r = job[w]
      BY <2>4 DEF TypeOK
    <3>2. ~Nowhere(r)
      BY <3>1 DEF Nowhere, WithWorkers
    <3> QED
      BY <2>4, <3>1, <3>2, PublishIsCalled
  <2>5. ASSUME NEW w \in Worker, Receive(w) PROVE CallStep(s)
    BY <2>1, <2>5 DEF Receive
  <2> QED
    BY <2>2, <2>3, <2>4, <2>5, DoneLetsGo, DoneIsReturned, CrashIsReturned DEF Next, Serve, Work
<1>3. (Init => \A r \in Req : Call(r)!Init) /\ (Init /\ [][Next]_vars => [][Step]_vars)
  BY <1>1, <1>2, SenderInit, SenderTypeStep, HandsStep, PTL
<1> QED
  BY <1>3 DEF Spec, OneCallPerBatch, CallStep
=============================================================================
