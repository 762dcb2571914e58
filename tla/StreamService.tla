----------------------------- MODULE StreamService -----------------------------
(***************************************************************************)
(* stream-service: one goroutine per Redis channel receives the events the *)
(* read-model-updater has published and broadcasts each to the connected   *)
(* clients of its user, through a Go channel of capacity one per client;   *)
(* one goroutine per connection writes what arrives there to the client.   *)
(*                                                                         *)
(* The map of clients is guarded by a RWMutex: a broadcast holds the read  *)
(* lock while it goes from client to client, adding and removing a client  *)
(* takes the write lock. A send on a closed channel would panic and take   *)
(* the whole service down.                                                 *)
(***************************************************************************)
EXTENDS Integers, Sequences

CONSTANTS
    Client,      \* connections
    User,        \* users
    UserOf,      \* the user of each connection
    Subscriber,  \* Redis channels, one subscribing goroutine each
    Feed,        \* what read-model-updater publishes on each channel, in order
    RedisDrops   \* may Redis lose a message (the subscription is down)?

\* Events of entity type "user" travel on the task channel and are ignored, like the
\* ones that do not parse.
Message == [user: User, kind: {"task", "user-settings", "ignored"}]

ASSUME StreamAssumption ==
    /\ UserOf \in [Client -> User]
    /\ Feed \in [Subscriber -> Seq(Message)]
    /\ RedisDrops \in BOOLEAN

VARIABLES
    published,  \* how much of each feed has been published
    inbox,      \* messages (by number) the subscription holds
    at,         \* where each subscriber is
    cur,        \* the message each subscriber broadcasts
    todo,       \* the clients its broadcast still has to visit
    clients,    \* the map of connected clients
    conn,       \* where the handler of each connection is
    buf,        \* each client's channel
    hand,       \* the message a handler has taken off its channel
    got,        \* what was written to each client
    gone        \* clients that have gone away

subs == <<published, inbox, at, cur, todo>>
vars == <<subs, clients, conn, buf, hand, got, gone>>

Update == Subscriber \X Nat   \* a message: its channel and its number there

Init ==
    /\ published = [s \in Subscriber |-> 0]
    /\ inbox = [s \in Subscriber |-> <<>>]
    /\ at = [s \in Subscriber |-> "wait"]
    /\ cur = [s \in Subscriber |-> 0]
    /\ todo = [s \in Subscriber |-> {}]
    /\ clients = {}
    /\ conn = [c \in Client |-> "auth"]
    /\ buf = [c \in Client |-> <<>>]
    /\ hand = [c \in Client |-> <<>>]
    /\ got = [c \in Client |-> <<>>]
    /\ gone = {}

-----------------------------------------------------------------------------
(***************************************************************************)
(* Subscribers.                                                            *)
(***************************************************************************)
Publish(s) ==
    /\ published[s] < Len(Feed[s])
    /\ published' = [published EXCEPT ![s] = @ + 1]
    /\ \/ inbox' = [inbox EXCEPT ![s] = Append(@, published'[s])]
       \/ RedisDrops /\ UNCHANGED inbox
    /\ UNCHANGED <<at, cur, todo, clients, conn, buf, hand, got, gone>>

\* SubscribeUpdates parses the next message; what it does not know it skips.
Receive(s) ==
    /\ at[s] = "wait" /\ inbox[s] # <<>>
    /\ inbox' = [inbox EXCEPT ![s] = Tail(@)]
    /\ \/ /\ Feed[s][Head(inbox[s])].kind = "ignored"
          /\ UNCHANGED <<at, cur>>
       \/ /\ Feed[s][Head(inbox[s])].kind # "ignored"
          /\ cur' = [cur EXCEPT ![s] = Head(inbox[s])]
          /\ at' = [at EXCEPT ![s] = "lock"]
    /\ UNCHANGED <<published, todo, clients, conn, buf, hand, got, gone>>

\* broadcast: the clients of the message's user, under the read lock.
RLock(s) ==
    /\ at[s] = "lock"
    /\ todo' = [todo EXCEPT ![s] = {c \in clients : UserOf[c] = Feed[s][cur[s]].user}]
    /\ at' = [at EXCEPT ![s] = "send"]
    /\ UNCHANGED <<published, inbox, cur, clients, conn, buf, hand, got, gone>>

\* Mutants: a channel without capacity; a send without a default.
TrySend_Unbounded(s, c) ==
    /\ at[s] = "send" /\ c \in todo[s]
    /\ todo' = [todo EXCEPT ![s] = @ \ {c}]
    /\ buf' = [buf EXCEPT ![c] = Append(@, <<s, cur[s]>>)]
    /\ UNCHANGED <<published, inbox, at, cur, clients, conn, hand, got, gone>>

TrySend_Blocks(s, c) ==
    /\ at[s] = "send" /\ c \in todo[s]
    /\ todo' = [todo EXCEPT ![s] = @ \ {c}]
    /\ buf[c] = <<>> /\ buf' = [buf EXCEPT ![c] = <<<<s, cur[s]>>>>]
    /\ UNCHANGED <<published, inbox, at, cur, clients, conn, hand, got, gone>>

\* A send that would block is skipped.
TrySend(s, c) ==
    /\ at[s] = "send" /\ c \in todo[s]
    /\ todo' = [todo EXCEPT ![s] = @ \ {c}]
    /\ \/ buf[c] = <<>> /\ buf' = [buf EXCEPT ![c] = <<<<s, cur[s]>>>>]
       \/ buf[c] # <<>> /\ UNCHANGED buf
    /\ UNCHANGED <<published, inbox, at, cur, clients, conn, hand, got, gone>>

RUnlock(s) ==
    /\ at[s] = "send" /\ todo[s] = {}
    /\ at' = [at EXCEPT ![s] = "wait"]
    /\ UNCHANGED <<published, inbox, cur, todo, clients, conn, buf, hand, got, gone>>

-----------------------------------------------------------------------------
(***************************************************************************)
(* The handler of a connection.                                            *)
(***************************************************************************)
Goto(c, l) == conn' = [conn EXCEPT ![c] = l]

\* The write lock is free of readers.
NoReader == \A s \in Subscriber : at[s] # "send"

\* 401, or on to the initial payloads.
Authenticate(c) ==
    /\ conn[c] = "auth"
    /\ \/ Goto(c, "initial") \/ Goto(c, "closed")
    /\ UNCHANGED <<subs, clients, buf, hand, got, gone>>

\* The initial payloads are written; the handler of a client that is gone gives up.
WriteInitial(c) ==
    /\ conn[c] = "initial"
    /\ \/ Goto(c, "add")
       \/ c \in gone /\ Goto(c, "closed")
    /\ UNCHANGED <<subs, clients, buf, hand, got, gone>>

addClient(c) ==
    /\ conn[c] = "add" /\ NoReader
    /\ clients' = clients \cup {c}
    /\ Goto(c, "loop")
    /\ UNCHANGED <<subs, buf, hand, got, gone>>

\* Mutant: the message stays in the channel.
TakeMessage_Peeks(c) ==
    /\ conn[c] = "loop" /\ buf[c] # <<>>
    /\ hand' = [hand EXCEPT ![c] = Head(buf[c])]
    /\ Goto(c, "write")
    /\ UNCHANGED <<subs, clients, buf, got, gone>>

TakeMessage(c) ==
    /\ conn[c] = "loop" /\ buf[c] # <<>>
    /\ hand' = [hand EXCEPT ![c] = Head(buf[c])]
    /\ buf' = [buf EXCEPT ![c] = Tail(@)]
    /\ Goto(c, "write")
    /\ UNCHANGED <<subs, clients, got, gone>>

writeSSE(c) ==
    /\ conn[c] = "write"
    /\ \/ got' = [got EXCEPT ![c] = Append(@, hand[c])] /\ Goto(c, "loop")
       \/ c \in gone /\ Goto(c, "remove") /\ UNCHANGED got
    /\ hand' = [hand EXCEPT ![c] = <<>>]
    /\ UNCHANGED <<subs, clients, buf, gone>>

\* ctx.Done, or a keep-alive that cannot be written.
Leave(c) ==
    /\ conn[c] = "loop" /\ c \in gone
    /\ Goto(c, "remove")
    /\ UNCHANGED <<subs, clients, buf, hand, got, gone>>

\* Mutants: the write lock is not taken; the client stays in the map.
removeClient_NoLock(c) ==
    /\ conn[c] = "remove"
    /\ clients' = clients \ {c}
    /\ Goto(c, "close")
    /\ UNCHANGED <<subs, buf, hand, got, gone>>

removeClient_Keeps(c) ==
    /\ conn[c] = "remove" /\ NoReader
    /\ Goto(c, "close")
    /\ UNCHANGED <<subs, clients, buf, hand, got, gone>>

removeClient(c) ==
    /\ conn[c] = "remove" /\ NoReader
    /\ clients' = clients \ {c}
    /\ Goto(c, "close")
    /\ UNCHANGED <<subs, buf, hand, got, gone>>

CloseChannel(c) ==
    /\ conn[c] = "close"
    /\ buf' = [buf EXCEPT ![c] = <<>>]
    /\ Goto(c, "closed")
    /\ UNCHANGED <<subs, clients, hand, got, gone>>

\* The client goes away.
Disconnect(c) ==
    /\ c \notin gone
    /\ gone' = gone \cup {c}
    /\ UNCHANGED <<subs, clients, conn, buf, hand, got>>

-----------------------------------------------------------------------------
Subscribe(s) == Receive(s) \/ RLock(s) \/ RUnlock(s) \/ \E c \in Client : TrySend(s, c)

\* The steps of a handler that do not wait for the client.
Serve(c) ==
    \/ Authenticate(c) \/ addClient(c) \/ TakeMessage(c) \/ removeClient(c)
    \/ CloseChannel(c)
    \/ c \in gone /\ (WriteInitial(c) \/ writeSSE(c))

Next ==
    \/ \E s \in Subscriber : Publish(s) \/ Subscribe(s)
    \/ \E c \in Client :
          \/ Authenticate(c) \/ WriteInitial(c) \/ addClient(c) \/ TakeMessage(c)
          \/ writeSSE(c) \/ Leave(c) \/ removeClient(c) \/ CloseChannel(c) \/ Disconnect(c)

Spec == Init /\ [][Next]_vars

\* Goroutines run on. A client may stop reading for ever, so a write to it may never
\* return, unless its connection is gone.
FairSpec ==
    /\ Spec
    /\ \A s \in Subscriber : WF_vars(Subscribe(s))
    /\ \A c \in Client : WF_vars(Serve(c)) /\ WF_vars(Leave(c))

-----------------------------------------------------------------------------
\* Every variable is within its type and a client's channel holds at most one message.
TypeOK ==
    /\ published \in [Subscriber -> Nat]
    /\ inbox \in [Subscriber -> Seq(Nat)]
    /\ at \in [Subscriber -> {"wait", "lock", "send"}]
    /\ cur \in [Subscriber -> Nat]
    /\ todo \in [Subscriber -> SUBSET Client]
    /\ clients \subseteq Client
    /\ conn \in [Client -> {"auth", "initial", "add", "loop", "write", "remove", "close", "closed"}]
    /\ buf \in [Client -> Seq(Update)] /\ \A c \in Client : Len(buf[c]) <= 1
    /\ hand \in [Client -> Update \cup {<<>>}]
    /\ got \in [Client -> Seq(Update)]
    /\ gone \subseteq Client

\* No broadcast ever sends on a channel its handler has closed, although handlers leave
\* while a broadcast is under way: that send would panic and stop the service.
NeverSendOnClosed ==
    \A s \in Subscriber : \A c \in todo[s] : conn[c] # "closed"

\* A client sees the updates of a channel in the order they were published, each at most
\* once, although its channel, its handler and Redis each may drop some; and it sees its
\* own user's only, although the users share the Redis channels and the subscribers.
InOrder ==
    \A c \in Client : \A i, j \in DOMAIN got[c] :
        /\ i < j /\ got[c][i][1] = got[c][j][1] => got[c][i][2] < got[c][j][2]
        /\ Feed[got[c][i][1]][got[c][i][2]].user = UserOf[c]

\* A client that does not read holds nobody up: whatever has reached a subscriber is
\* broadcast in the end.
SlowClientsBlockNobody ==
    \A s \in Subscriber : inbox[s] # <<>> ~> inbox[s] = <<>> /\ at[s] = "wait"

\* The handler of a client that is gone ends, and the client is forgotten.
LeaversAreForgotten ==
    \A c \in Client : c \in gone ~> conn[c] = "closed" /\ c \notin clients

\* docs/es_design.md: "Stream Service streams read-model changes to clients": between two
\* updates of a channel, a client has also seen every one of its updates in between.
NoGaps ==
    \A c \in Client : \A i, j \in DOMAIN got[c] :
        i < j /\ got[c][i][1] = got[c][j][1] =>
            LET s == got[c][i][1] IN
            \A n \in got[c][i][2]..got[c][j][2] :
                Feed[s][n].user = UserOf[c] /\ Feed[s][n].kind # "ignored" =>
                    \E k \in i..j : got[c][k] = <<s, n>>

=============================================================================
