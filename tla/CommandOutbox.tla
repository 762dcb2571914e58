----------------------------- MODULE CommandOutbox -----------------------------
(***************************************************************************)
(* The outbox of the web client (useTasks, useSettings): a user's actions  *)
(* queue commands, and an effect posts the whole queue to the API: at once *)
(* whenever the queue changes, and again every five seconds. The effect is *)
(* torn down when the queue changes, and the answers to what it posted are *)
(* then ignored. An accepted post stores the keys the API generated and    *)
(* clears the queue in one render; every other answer (the API sends plain *)
(* text then, which is no JSON) leaves it as it was.                       *)
(*                                                                         *)
(* A 202 says that the API has taken the commands: into the channel of its *)
(* command sender, in memory, or by publishing them itself. What becomes   *)
(* of them there is the subject of CommandSender; a worker's error or the  *)
(* end of the process may still lose what was taken.                       *)
(***************************************************************************)
EXTENDS Integers, Sequences, FiniteSets

CONSTANTS
    Intent,      \* what users ask for, each queued as one command
    Slot,        \* posts that may be under way at a time (a bound)
    MaxFailures  \* bound on the posts that fail

ASSUME OutboxAssumption == MaxFailures \in Nat

VARIABLES
    commands,  \* the queue: what is asked for, and the idempotency key (0: none)
    effect,    \* the number of the effect in force; a new one for each new queue
    made,      \* what users have asked for so far
    post,      \* the posts under way
    intake,    \* <<intent, key>> the API has taken: into its sender's channel, or published
    lastKey,   \* the key the API generated last
    failures   \* posts that failed

outboxVars == <<commands, effect, made, post, intake, lastKey, failures>>

Command == [intent: Intent, key: Nat]
Post == [phase: {"free", "sent", "accepted", "failed"}, effect: Nat,
         body: Seq(Command), keys: Seq(Nat)]
NoPost == [phase |-> "free", effect |-> 0, body |-> <<>>, keys |-> <<>>]

OutboxInit ==
    /\ commands = <<>>
    /\ effect = 0
    /\ made = {}
    /\ post = [p \in Slot |-> NoPost]
    /\ intake = {}
    /\ lastKey = 0
    /\ failures = 0

-----------------------------------------------------------------------------
\* flushCommands of the effect that closed over a queue.
flushCommands(p, e, queue) ==
    /\ post[p] = NoPost
    /\ post' = [post EXCEPT ![p] = [phase |-> "sent", effect |-> e, body |-> queue, keys |-> <<>>]]

\* Mutant: the effect does not depend on the queue, so that it is not torn down.
Act_KeepsEffect(i) ==
    LET queue == Append(commands, [intent |-> i, key |-> 0]) IN
    /\ i \notin made
    /\ made' = made \cup {i}
    /\ commands' = queue
    /\ \E p \in Slot : flushCommands(p, effect, queue)
    /\ UNCHANGED <<effect, intake, lastKey, failures>>

\* A user's action queues a command; the effect is replaced and posts at once.
Act(i) ==
    LET queue == Append(commands, [intent |-> i, key |-> 0]) IN
    /\ i \notin made
    /\ made' = made \cup {i}
    /\ commands' = queue
    /\ effect' = effect + 1
    /\ \E p \in Slot : flushCommands(p, effect + 1, queue)
    /\ UNCHANGED <<intake, lastKey, failures>>

\* Mutant: there is no interval.
Interval_Missing == FALSE /\ UNCHANGED outboxVars

\* The five-second interval of the effect in force.
Interval ==
    /\ commands # <<>>
    /\ \E p \in Slot : flushCommands(p, effect, commands)
    /\ UNCHANGED <<commands, effect, made, intake, lastKey, failures>>

\* finalizeCommands: a command without a key gets a new one.
Keys(body) == [n \in DOMAIN body |-> IF body[n].key = 0 THEN lastKey + n ELSE body[n].key]

\* The API takes all commands of the post: its command sender has the batch in its
\* channel, or has published it: 202.
Accept(p) ==
    LET body == post[p].body
        keys == Keys(body)
    IN
    /\ post[p].phase = "sent"
    /\ intake' = intake \cup {<<body[n].intent, keys[n]>> : n \in DOMAIN body}
    /\ lastKey' = lastKey + Len(body)
    /\ post' = [post EXCEPT ![p].phase = "accepted", ![p].keys = keys]
    /\ UNCHANGED <<commands, effect, made, failures>>

\* The post fails: it is refused or lost on its way (nothing is taken), publishing it at
\* once fails half-way (500: some are), or all are taken and the answer is lost.
Fail(p) ==
    LET body == post[p].body
        keys == Keys(body)
    IN
    /\ post[p].phase = "sent"
    /\ failures < MaxFailures
    /\ failures' = failures + 1
    /\ \E some \in SUBSET DOMAIN body :
          intake' = intake \cup {<<body[n].intent, keys[n]>> : n \in some}
    /\ lastKey' = lastKey + Len(body)
    /\ post' = [post EXCEPT ![p].phase = "failed"]
    /\ UNCHANGED <<commands, effect, made>>

\* set-idempotency-keys, by position; a key that is there stays.
SetIdempotencyKeys(queue, keys) ==
    [n \in DOMAIN queue |-> IF queue[n].key # 0 \/ n \notin DOMAIN keys
                            THEN queue[n] ELSE [queue[n] EXCEPT !.key = keys[n]]]

ClearCommands(queue) == <<>>

\* Mutant: nobody looks whether the effect was torn down.
Answered_IgnoresTeardown(p) ==
    /\ post[p].phase = "accepted"
    /\ commands' = ClearCommands(SetIdempotencyKeys(commands, post[p].keys))
    /\ effect' = effect + 1
    /\ post' = [post EXCEPT ![p] = NoPost]
    /\ UNCHANGED <<made, intake, lastKey, failures>>

\* The client gets a 202: unless the effect was torn down since, the keys are set and
\* the queue is cleared.
Answered(p) ==
    /\ post[p].phase = "accepted"
    /\ \/ /\ post[p].effect = effect
          /\ commands' = ClearCommands(SetIdempotencyKeys(commands, post[p].keys))
          /\ effect' = effect + 1
       \/ /\ post[p].effect # effect
          /\ UNCHANGED <<commands, effect>>
    /\ post' = [post EXCEPT ![p] = NoPost]
    /\ UNCHANGED <<made, intake, lastKey, failures>>

\* Anything else ends in the catch clause.
Caught(p) ==
    /\ post[p].phase = "failed"
    /\ post' = [post EXCEPT ![p] = NoPost]
    /\ UNCHANGED <<commands, effect, made, intake, lastKey, failures>>

-----------------------------------------------------------------------------
Reply(p) == Answered(p) \/ Caught(p)

OutboxNext ==
    \/ \E i \in Intent : Act(i)
    \/ Interval
    \/ \E p \in Slot : Accept(p) \/ Fail(p) \/ Reply(p)

OutboxSpec == OutboxInit /\ [][OutboxNext]_outboxVars

\* The interval keeps firing, and a post is answered or fails in the end.
FairOutboxSpec ==
    /\ OutboxSpec
    /\ WF_outboxVars(Interval)
    /\ \A p \in Slot : WF_outboxVars(Accept(p)) /\ WF_outboxVars(Reply(p))

-----------------------------------------------------------------------------
\* Every variable is within its type.
OutboxTypes ==
    /\ commands \in Seq(Command)
    /\ effect \in Nat
    /\ made \subseteq Intent
    /\ post \in [Slot -> Post]
    /\ intake \subseteq Intent \X Nat
    /\ lastKey \in Nat
    /\ failures \in Nat

Queued == {commands[n].intent : n \in DOMAIN commands}
Taken == {a[1] : a \in intake}

\* The client loses nothing a user asks for: it is queued until the API has taken it, also
\* when the answer to an older post arrives after the queue has grown or was cleared.
NothingLost == made \subseteq Queued \cup Taken

\* The client comes to rest: the queue is worked off and is posted no more.
OutboxDrains == <>[](commands = <<>> /\ \A p \in Slot : post[p] = NoPost)

\* docs/event_flow.md: "Each command run reuses the key provided by the Prism API": what
\* a user asks for once is taken under one key, however often it is posted.
OneKeyPerIntent == \A a, b \in intake : a[1] = b[1] => a[2] = b[2]

-----------------------------------------------------------------------------
(***************************************************************************)
(* The inductive invariant behind NothingLost.                             *)
(***************************************************************************)

\* A post of the effect in force carries the queue as it is now; no effect is newer than
\* the one in force.
PostOfEffect == \A p \in Slot :
    /\ post[p].effect <= effect
    /\ post[p].phase # "free" /\ post[p].effect = effect => post[p].body = commands

\* What a post carried was taken when it was answered with 202.
AcceptedIsTaken == \A p \in Slot : post[p].phase = "accepted" =>
    \A n \in DOMAIN post[p].body : post[p].body[n].intent \in Taken

\* Types, posts and the queue together.
OutboxInv == OutboxTypes /\ PostOfEffect /\ AcceptedIsTaken /\ NothingLost

=============================================================================
