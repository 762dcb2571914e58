---------------------------- MODULE CommandSender ----------------------------
(***************************************************************************)
(* prism-api's command sender: postCommands hands a batch to a pool of     *)
(* workers over a bounded channel and answers 202 at once. When the        *)
(* channel is full the handler waits for a short time and then publishes   *)
(* the batch itself. Workers log an error and go on.                       *)
(*                                                                         *)
(* Storage.EnqueueCommands appears here as what EnqueueContract promises,  *)
(* one instance per batch; EnqueueCommands is shown to keep that promise.  *)
(***************************************************************************)
EXTENDS Integers, Sequences, FiniteSets

CONSTANTS
    Req,       \* POST /api/commands requests
    Payload,   \* commands
    Batch,     \* the commands of each request
    Worker,    \* the pool's goroutines
    NoJob,     \* an idle worker's job
    Buffer,    \* capacity of the jobs channel
    Fails,     \* may EnqueueCommands return an error (its queue, its timeout)?
    Crashes    \* may the process be killed and started again?

ASSUME SenderAssumption ==
    /\ Batch \in [Req -> SUBSET Payload]
    /\ NoJob \notin Req
    /\ Buffer \in Nat /\ Buffer >= Cardinality(Worker)   \* initCommandSender sees to it
    /\ Fails \in BOOLEAN
    /\ Crashes \in BOOLEAN

VARIABLES
    pc,         \* each request: see TypeOK
    jobs,       \* the channel
    job,        \* the batch each worker is publishing
    published,  \* commands of each batch in the Command Queue
    result      \* what EnqueueCommands answered for each batch, if it did

vars == <<pc, jobs, job, published, result>>

Init ==
    /\ pc = [r \in Req |-> "new"]
    /\ jobs = <<>>
    /\ job = [w \in Worker |-> NoJob]
    /\ published = [r \in Req |-> {}]
    /\ result = [r \in Req |-> "open"]

Goto(r, c) == pc' = [pc EXCEPT ![r] = c]

-----------------------------------------------------------------------------
\* Without a valid token or body: 401 or 400. Otherwise the batch is stamped and
\* trySendNonBlocking is next.
PostCommands(r) ==
    /\ pc[r] = "new"
    /\ Goto(r, "refused") \/ Goto(r, "try")
    /\ UNCHANGED <<jobs, job, published, result>>

SendJob(r) ==
    /\ Len(jobs) < Buffer
    /\ jobs' = Append(jobs, r)
    /\ Goto(r, "accepted")

TrySendNonBlocking(r) ==
    /\ pc[r] = "try"
    /\ \/ SendJob(r)
       \/ /\ Len(jobs) = Buffer
          /\ Goto(r, "handoff")
          /\ UNCHANGED jobs
    /\ UNCHANGED <<job, published, result>>

\* Mutant: a job that was sent just as the timer fired is reported as not sent.
SendWithTimer_Ambiguous(r) ==
    /\ pc[r] = "handoff"
    /\ \/ SendJob(r)
       \/ Goto(r, "inline") /\ (UNCHANGED jobs \/ jobs' = Append(jobs, r))
    /\ UNCHANGED <<job, published, result>>

\* The channel has room before the timer fires, or the timer fires.
SendWithTimer(r) ==
    /\ pc[r] = "handoff"
    /\ \/ SendJob(r)
       \/ Goto(r, "inline") /\ UNCHANGED jobs
    /\ UNCHANGED <<job, published, result>>

-----------------------------------------------------------------------------
\* Mutant: the last job stays in the channel.
Receive_LeavesLast(w) ==
    /\ job[w] = NoJob
    /\ Len(jobs) > 1
    /\ job' = [job EXCEPT ![w] = Head(jobs)]
    /\ jobs' = Tail(jobs)
    /\ UNCHANGED <<pc, published, result>>

\* A worker receives from the channel and calls EnqueueCommands.
Receive(w) ==
    /\ job[w] = NoJob
    /\ jobs # <<>>
    /\ job' = [job EXCEPT ![w] = Head(jobs)]
    /\ jobs' = Tail(jobs)
    /\ UNCHANGED <<pc, published, result>>

\* What a call of EnqueueCommands for the batch of r may do.
PublishOne(r) ==
    /\ \E p \in Batch[r] \ published[r] :
          published' = [published EXCEPT ![r] = @ \cup {p}]
    /\ UNCHANGED <<pc, jobs, job, result>>

Answers(r) == (IF published[r] = Batch[r] THEN {"nil"} ELSE {})
              \cup (IF Fails THEN {"error"} ELSE {})

\* Mutant: a batch whose call failed is put back into the channel.
WorkerDone_Requeues(w) ==
    /\ job[w] # NoJob
    /\ \E a \in Answers(job[w]) :
          /\ result' = [result EXCEPT ![job[w]] = a]
          /\ jobs' = IF a = "error" /\ Len(jobs) < Buffer THEN Append(jobs, job[w]) ELSE jobs
    /\ job' = [job EXCEPT ![w] = NoJob]
    /\ UNCHANGED <<pc, published>>

\* The worker's call is over; an error is logged and forgotten.
WorkerDone(w) ==
    /\ job[w] # NoJob
    /\ \E a \in Answers(job[w]) : result' = [result EXCEPT ![job[w]] = a]
    /\ job' = [job EXCEPT ![w] = NoJob]
    /\ UNCHANGED <<pc, jobs, published>>

\* The handler's own call is over: 202, or 500 when it failed.
InlineDone(r) ==
    /\ pc[r] = "inline"
    /\ \E a \in Answers(r) :
          /\ result' = [result EXCEPT ![r] = a]
          /\ Goto(r, IF a = "nil" THEN "accepted" ELSE "failed")
    /\ UNCHANGED <<jobs, job, published>>

\* Who holds a batch.
Holders(r) == {<<"channel", i>> : i \in {j \in DOMAIN jobs : jobs[j] = r}}
                \cup {<<"worker", w>> : w \in {v \in Worker : job[v] = r}}
                \cup (IF pc[r] = "inline" THEN {<<"handler", r>>} ELSE {})

\* The process dies: the channel, the workers and the open requests are gone, and the
\* batches they held are lost.
Crash ==
    /\ Crashes
    /\ \E r \in Req : pc[r] \notin {"new", "dropped"}
    /\ jobs' = <<>>
    /\ job' = [w \in Worker |-> NoJob]
    /\ pc' = [r \in Req |-> IF pc[r] \in {"try", "handoff", "inline"} THEN "dropped" ELSE pc[r]]
    /\ result' = [r \in Req |-> IF Holders(r) # {} THEN "lost" ELSE result[r]]
    /\ UNCHANGED published

-----------------------------------------------------------------------------
Serve(r) == \/ PostCommands(r) \/ TrySendNonBlocking(r) \/ SendWithTimer(r)
            \/ (pc[r] = "inline" /\ PublishOne(r)) \/ InlineDone(r)

Work(w) == \/ Receive(w)
           \/ (job[w] # NoJob /\ PublishOne(job[w]))
           \/ WorkerDone(w)

Next == \/ \E r \in Req : Serve(r)
        \/ \E w \in Worker : Work(w)
        \/ Crash

Spec == Init /\ [][Next]_vars

\* Handlers and workers are scheduled; a call of EnqueueCommands returns (AlwaysReturns).
FairSpec == /\ Spec
            /\ \A r \in Req : WF_vars(Serve(r))
            /\ \A w \in Worker : WF_vars(Work(w))

-----------------------------------------------------------------------------
\* A request is new, being handed over, being published by its handler, or answered:
\* 202, 500, 400/401, or not at all because the process died.
TypeOK ==
    /\ pc \in [Req -> {"new", "try", "handoff", "inline",
                       "accepted", "failed", "refused", "dropped"}]
    /\ jobs \in Seq(Req) /\ Len(jobs) <= Buffer
    /\ job \in [Worker -> Req \cup {NoJob}]
    /\ published \in [Req -> SUBSET Payload]
    /\ result \in [Req -> {"open", "nil", "error", "lost"}]

\* A batch is in one pair of hands: the channel, one worker or its own handler hold it,
\* never two of them, also when the timer fires just as the channel gets room; and nobody
\* holds it before it is handed over or once its call is over.
OneHolder == \A r \in Req :
    /\ \A a, b \in Holders(r) : a = b
    /\ pc[r] \notin {"accepted", "inline"} \/ result[r] # "open" => Holders(r) = {}

\* Both: a full channel takes no further job, and a job has one holder.
SenderInv == TypeOK /\ OneHolder

Call(r) == INSTANCE EnqueueContract
             WITH batch <- Batch[r], published <- published[r],
                  result <- IF result[r] = "lost" THEN "error" ELSE result[r]

\* For each batch EnqueueCommands is called at most once: seen from the queue, the pool
\* and the inline fallback together still behave as one call of it. In particular, a
\* request that was answered 500, or cut short by the death of the process, leaves nothing
\* behind that is published later.
OneCallPerBatch ==
    /\ \A r \in Req : Call(r)!Init
    /\ [][\A r \in Req : Call(r)!Next \/ UNCHANGED <<published[r], result[r]>>]_vars

\* Every accepted batch is worked off: its call of EnqueueCommands is made and returns,
\* unless the process dies.
AcceptedIsWorkedOff == \A r \in Req : (pc[r] = "accepted") ~> (result[r] # "open")

\* docs/es_design.md: the API "publishes command to Command Queue and returns generated
\* idempotency keys to the caller": an accepted batch gets to the queue.
AcceptedIsPublished == \A r \in Req : (pc[r] = "accepted") ~> (published[r] = Batch[r])

=============================================================================
