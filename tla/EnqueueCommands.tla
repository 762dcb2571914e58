--------------------------- MODULE EnqueueCommands ---------------------------
(***************************************************************************)
(* One call of prism-api's Storage.EnqueueCommands: the payloads of a      *)
(* batch are marshalled, then published to the Command Queue, one after    *)
(* the other or by several goroutines fed over a channel. The first error  *)
(* cancels the rest; the caller's context may expire at any time.          *)
(*                                                                         *)
(* The channel is first-in first-out and filled in the order of the batch, *)
(* so payloads taken + 1 .. fed are what it holds.                         *)
(***************************************************************************)
EXTENDS Integers, FiniteSets

CONSTANTS
    MaxBatch,      \* bound on the number of commands in a batch
    Concurrencies, \* the values of Storage.queueConcurrency
    MarshalFails,  \* may a payload fail to marshal?
    QueueFails,    \* may EnqueueMessage return an error?
    Expires        \* may the caller's context expire?

ASSUME EnqueueAssumption ==
    /\ MaxBatch \in Nat
    /\ Concurrencies \subseteq Nat
    /\ MarshalFails \in BOOLEAN
    /\ QueueFails \in BOOLEAN
    /\ Expires \in BOOLEAN

Worker == 1..MaxBatch

VARIABLES
    n,           \* number of commands in the batch
    concurrency, \* Storage.queueConcurrency
    pc,          \* the calling goroutine: "start", "serial", "failed", "feed", "wait", "returned"
    fed,         \* payloads sent to the channel (or tried, when sequential)
    taken,       \* payloads received from the channel
    closed,      \* close(jobs) was executed
    state,       \* each worker: "off", "select", "send", "gone"
    item,        \* the payload each worker is publishing
    firstErr,    \* an error was recorded
    cancelled,   \* cancel() was called
    expired,     \* parentCtx is done
    published,   \* payloads the queue has accepted
    result       \* "open", "nil" or "error"

input == <<n, concurrency>>
channel == <<fed, taken, closed>>
context == <<firstErr, cancelled, expired>>
vars == <<input, pc, channel, state, item, context, published, result>>

Payload == 1..n
Sequential == concurrency <= 1

\* No more workers than payloads.
workers == IF concurrency > n THEN n ELSE concurrency

Init ==
    /\ n \in 0..MaxBatch
    /\ concurrency \in Concurrencies
    /\ pc = "start"
    /\ fed = 0 /\ taken = 0 /\ closed = FALSE
    /\ state = [w \in Worker |-> "off"]
    /\ item = [w \in Worker |-> 0]
    /\ firstErr = FALSE /\ cancelled = FALSE /\ expired = FALSE
    /\ published = {}
    /\ result = "open"

Done == cancelled \/ expired   \* ctx.Done() is ready

Answer(r) == result' = r /\ pc' = "returned"

-----------------------------------------------------------------------------
\* An empty batch returns at once; otherwise the payloads are marshalled and, unless
\* the queue is written sequentially, the workers are started.
Start ==
    /\ pc = "start"
    /\ \/ /\ n = 0
          /\ Answer("nil")
          /\ UNCHANGED state
       \/ /\ n > 0 /\ MarshalFails
          /\ Answer("error")
          /\ UNCHANGED state
       \/ /\ n > 0 /\ Sequential
          /\ pc' = "serial"
          /\ UNCHANGED <<state, result>>
       \/ /\ n > 0 /\ ~Sequential
          /\ pc' = "feed"
          /\ state' = [w \in Worker |-> IF w <= workers THEN "select" ELSE "off"]
          /\ UNCHANGED result
    /\ UNCHANGED <<input, channel, item, context, published>>

\* The sequential loop: publish the next payload, stop at the first error.
SerialSend ==
    /\ pc = "serial" /\ fed < n
    /\ fed' = fed + 1
    /\ \/ /\ published' = published \cup {fed + 1}
          /\ UNCHANGED pc
       \/ /\ QueueFails \/ expired
          /\ \/ published' = published \cup {fed + 1}   \* accepted, the answer lost
             \/ UNCHANGED published
          /\ pc' = "failed"
    /\ UNCHANGED <<input, taken, closed, state, item, context, result>>

SerialReturn ==
    /\ \/ pc = "serial" /\ fed = n /\ Answer("nil")
       \/ pc = "failed" /\ Answer("error")
    /\ UNCHANGED <<input, channel, state, item, context, published>>

-----------------------------------------------------------------------------
\* The feeding loop: send the next payload while the channel has room, or give up once
\* the context is done; when both are possible, select picks either.
Feed ==
    /\ pc = "feed" /\ fed < n
    /\ fed - taken < workers
    /\ fed' = fed + 1
    /\ UNCHANGED <<input, pc, taken, closed, state, item, context, published, result>>

\* Mutant: the feeding loop does not look at the context.
CloseJobs_NoCancel ==
    /\ pc = "feed" /\ fed = n
    /\ closed' = TRUE
    /\ pc' = "wait"
    /\ UNCHANGED <<input, fed, taken, state, item, context, published, result>>

CloseJobs ==
    /\ pc = "feed"
    /\ fed = n \/ Done
    /\ closed' = TRUE
    /\ pc' = "wait"
    /\ UNCHANGED <<input, fed, taken, state, item, context, published, result>>

\* Mutants: the context's error is not looked at; the workers are not waited for.
Return_IgnoresContext ==
    /\ pc = "wait"
    /\ \A w \in Worker : state[w] \in {"off", "gone"}
    /\ Answer(IF firstErr THEN "error" ELSE "nil")
    /\ UNCHANGED <<input, channel, state, item, context, published>>

Return_NoWait ==
    /\ pc = "wait"
    /\ Answer(IF firstErr \/ expired THEN "error" ELSE "nil")
    /\ UNCHANGED <<input, channel, state, item, context, published>>

\* wg.Wait() is over.
Return ==
    /\ pc = "wait"
    /\ \A w \in Worker : state[w] \in {"off", "gone"}
    /\ Answer(IF firstErr \/ expired THEN "error" ELSE "nil")
    /\ UNCHANGED <<input, channel, state, item, context, published>>

-----------------------------------------------------------------------------
\* A worker's select: leave once the context is done, take the next payload, or leave
\* because the channel is closed and empty.
Leave(w) ==
    /\ state[w] = "select"
    /\ Done \/ (closed /\ taken = fed)
    /\ state' = [state EXCEPT ![w] = "gone"]
    /\ UNCHANGED <<input, pc, channel, item, context, published, result>>

Take(w) ==
    /\ state[w] = "select"
    /\ taken < fed
    /\ taken' = taken + 1
    /\ item' = [item EXCEPT ![w] = taken + 1]
    /\ state' = [state EXCEPT ![w] = "send"]
    /\ UNCHANGED <<input, pc, fed, closed, context, published, result>>

SendOK(w) ==
    /\ state[w] = "send"
    /\ published' = published \cup {item[w]}
    /\ state' = [state EXCEPT ![w] = "select"]
    /\ UNCHANGED <<input, pc, channel, item, context, result>>

\* The first failure is recorded and cancels the context; the worker leaves.
SendFailed(w) ==
    /\ state[w] = "send"
    /\ QueueFails \/ Done
    /\ \/ published' = published \cup {item[w]}   \* accepted, the answer lost
       \/ UNCHANGED published
    /\ firstErr' = TRUE
    /\ cancelled' = TRUE
    /\ state' = [state EXCEPT ![w] = "gone"]
    /\ UNCHANGED <<input, pc, channel, item, expired, result>>

\* The caller's deadline passes.
Expire ==
    /\ Expires /\ ~expired /\ pc # "returned"
    /\ expired' = TRUE
    /\ UNCHANGED <<input, pc, channel, state, item, firstErr, cancelled, published, result>>

-----------------------------------------------------------------------------
Caller == Start \/ SerialSend \/ SerialReturn \/ Feed \/ CloseJobs \/ Return
Work(w) == Leave(w) \/ Take(w) \/ SendOK(w) \/ SendFailed(w)

Next == Caller \/ (\E w \in Worker : Work(w)) \/ Expire

Spec == Init /\ [][Next]_vars

\* Goroutines are scheduled, and a call of the queue's client ends, well or badly.
FairSpec == Spec /\ WF_vars(Caller) /\ \A w \in Worker : WF_vars(Work(w))

-----------------------------------------------------------------------------
\* Every variable is within its type; no more payloads are taken than were fed.
TypeOK ==
    /\ n \in 0..MaxBatch /\ concurrency \in Concurrencies
    /\ pc \in {"start", "serial", "failed", "feed", "wait", "returned"}
    /\ fed \in 0..n /\ taken \in 0..fed /\ closed \in BOOLEAN
    /\ state \in [Worker -> {"off", "select", "send", "gone"}]
    /\ item \in [Worker -> 0..n]
    /\ firstErr \in BOOLEAN /\ cancelled \in BOOLEAN /\ expired \in BOOLEAN
    /\ published \subseteq Payload
    /\ result \in {"open", "nil", "error"}

\* EnqueueCommands answers nil only when every payload of the batch is in the queue,
\* although a worker may leave its select with payloads still in the channel.
NilMeansAllPublished == result = "nil" => published = Payload

\* The call keeps its promise, EnqueueContract: in particular none of its goroutines
\* publishes anything after it has returned.
Contract == INSTANCE EnqueueContract WITH Payload <- 1..MaxBatch, batch <- Payload

ImplementsEnqueueContract == Contract!Spec

\* The call returns, whatever fails: the feeder is never left blocked on a full channel
\* whose readers have all gone, nor wg.Wait on a worker that waits for the feeder.
AlwaysReturns == <>(pc = "returned")

-----------------------------------------------------------------------------
(***************************************************************************)
(* The inductive invariant: what has left the channel is published or in a *)
(* worker's hands unless an error was recorded; a worker that left found   *)
(* the context done or the channel closed and empty.                       *)
(***************************************************************************)
Accounted ==
    /\ pc = "serial" => published = 1..fed
    /\ ~firstErr => \A p \in 1..taken :
          p \in published \/ \E w \in Worker : state[w] = "send" /\ item[w] = p
    /\ ~Done => \A w \in Worker : state[w] = "gone" => closed /\ taken = fed

Staged ==
    /\ cancelled = firstErr
    /\ pc = "start" => fed = 0 /\ taken = 0 /\ ~closed /\ published = {}
    /\ pc = "wait" => closed
    /\ pc = "feed" => ~closed
    /\ pc = "wait" /\ ~Done => fed = n
    /\ pc \in {"start", "serial", "failed"} => \A w \in Worker : state[w] = "off"
    /\ pc \in {"feed", "wait"} => n > 0 /\ concurrency > 1 /\ state[1] # "off"
    /\ pc = "returned" => \A w \in Worker : state[w] \in {"off", "gone"}
    /\ result = "open" <=> pc # "returned"
    /\ \A w \in Worker : state[w] = "send" => item[w] \in 1..fed

\* Payloads are accounted for, and every goroutine is where the stage of the call lets it be.
EnqueueInv == TypeOK /\ Accounted /\ Staged /\ NilMeansAllPublished

=============================================================================
