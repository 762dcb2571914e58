------------------------- MODULE StreamService_proofs -------------------------
(***************************************************************************)
(* For any number of connections, channels and messages: no broadcast of   *)
(* stream-service sends on a closed channel, and what a connection is sent *)
(* is in the order in which Redis delivered it.                            *)
(***************************************************************************)
EXTENDS StreamService, SequenceTheorems, TLAPS

(***************************************************************************)
(* The inductive invariant behind NeverSendOnClosed: the clients a         *)
(* broadcast still has to visit are connected, and a connected client's    *)
(* handler is past addClient and before removeClient.                      *)
(***************************************************************************)
VisitsConnected == \A s \in Subscriber :
    /\ todo[s] \subseteq clients
    /\ todo[s] # {} => at[s] = "send"

ConnectedIsServed == \A c \in Client : c \in clients <=> conn[c] \in {"loop", "write", "remove"}

\* Both together.
StreamInv == VisitsConnected /\ ConnectedIsServed

(***************************************************************************)
(* The inductive invariant behind InOrder: a message moves from a          *)
(* subscription to the broadcast, to the client's channel, to its          *)
(* handler's hand and to the client, and stays behind the ones before it.  *)
(***************************************************************************)
\* What waits in a subscription is in order and newer than what is being broadcast.
InboxOrdered == \A s \in Subscriber :
    /\ cur[s] <= published[s]
    /\ \A i \in DOMAIN inbox[s] : cur[s] < inbox[s][i] /\ inbox[s][i] <= published[s]
    /\ \A i, j \in DOMAIN inbox[s] : i < j => inbox[s][i] < inbox[s][j]

\* A handler has a message in hand exactly while it writes it.
HandWhileWriting == \A c \in Client :
    IF conn[c] = "write" THEN hand[c] \in Subscriber \X Nat ELSE hand[c] = <<>>

\* Everything that was sent to a client, wherever it is by now.
InHand(c) == IF conn[c] = "write" THEN {hand[c]} ELSE {}
Taken(c) == {got[c][i] : i \in DOMAIN got[c]}
Held(c) == Taken(c) \cup InHand(c) \cup {buf[c][i] : i \in DOMAIN buf[c]}

\* Is the message being broadcast still to come to the client?
ToCome(s, c) == at[s] = "lock" \/ c \in todo[s]

\* What was sent to a client is no newer than the broadcast of its channel, older if the
\* broadcast has yet to reach the client, and of the client's user.
HeldIsOlder == \A c \in Client : \A u \in Held(c) :
    /\ u[2] <= cur[u[1]]
    /\ ToCome(u[1], c) => u[2] < cur[u[1]]
    /\ Feed[u[1]][u[2]].user = UserOf[c]

VisitsOwnUser == \A s \in Subscriber : \A c \in todo[s] :
    Feed[s][cur[s]].user = UserOf[c]

Older(u, v) == u[1] = v[1] => u[2] < v[2]

\* On its way to a client, a message never overtakes another.
NoOvertaking == \A c \in Client :
    /\ \A i, j \in DOMAIN got[c] : i < j => Older(got[c][i], got[c][j])
    /\ \A u \in Taken(c), v \in InHand(c) : Older(u, v)
    /\ \A u \in Taken(c) \cup InHand(c), i \in DOMAIN buf[c] : Older(u, buf[c][i])

\* All of it together.
OrderInv == InboxOrdered /\ HeldIsOlder /\ VisitsOwnUser /\ NoOvertaking

-----------------------------------------------------------------------------
\* The parts of the type invariant the argument needs: who is connected, and where the
\* subscribers and the handlers are.
Shape == /\ at \in [Subscriber -> {"wait", "lock", "send"}]
         /\ todo \in [Subscriber -> SUBSET Client]
         /\ clients \subseteq Client
         /\ DOMAIN conn = Client

Inductive == Shape /\ StreamInv

\* At the start nobody is connected and no broadcast is under way.
LEMMA InitInductive == Init => Inductive
  BY DEF Init, Inductive, Shape, StreamInv, VisitsConnected, ConnectedIsServed

\* A subscriber's step: the clients of a new broadcast are taken from the map, and none
\* is added later.
LEMMA SubscriberStep ==
    ASSUME Inductive, NEW s \in Subscriber, Publish(s) \/ Subscribe(s)
    PROVE  Inductive'
<1> USE DEF Inductive, Shape, StreamInv, VisitsConnected, ConnectedIsServed
<1>1. CASE Publish(s)
  BY <1>1 DEF Publish
<1>2. CASE Receive(s)
  BY <1>2 DEF Receive
<1>3. CASE RLock(s)
  BY <1>3 DEF RLock
<1>4. CASE RUnlock(s)
  BY <1>4 DEF RUnlock
<1>5. ASSUME NEW c \in Client, TrySend(s, c) PROVE Inductive'
  BY <1>5 DEF TrySend
<1> QED BY <1>1, <1>2, <1>3, <1>4, <1>5 DEF Subscribe

\* A step of a connection's handler: the map changes only while no broadcast holds the
\* read lock, and then no broadcast has clients left to visit.
LEMMA HandlerStep ==
    ASSUME Inductive, NEW c \in Client,
           \/ Authenticate(c) \/ WriteInitial(c) \/ addClient(c) \/ TakeMessage(c)
           \/ writeSSE(c) \/ Leave(c) \/ removeClient(c) \/ CloseChannel(c) \/ Disconnect(c)
    PROVE  Inductive'
<1> USE DEF Inductive, Shape, StreamInv, VisitsConnected, ConnectedIsServed, Goto, subs
<1>1. CASE Authenticate(c)
  BY <1>1 DEF Authenticate
<1>2. CASE WriteInitial(c)
  BY <1>2 DEF WriteInitial
<1>3. CASE addClient(c)
  BY <1>3 DEF addClient
<1>4. CASE TakeMessage(c)
  BY <1>4 DEF TakeMessage
<1>5. CASE writeSSE(c)
  BY <1>5 DEF writeSSE
<1>6. CASE Leave(c)
  BY <1>6 DEF Leave
<1>7. CASE removeClient(c)
  <2>1. \A s \in Subscriber : todo[s] = {}
    BY <1>7 DEF removeClient, NoReader
  <2>2. VisitsConnected'
    BY <1>7, <2>1 DEF removeClient
  <2>3. ConnectedIsServed'
    BY <1>7 DEF removeClient
  <2> QED BY <1>7, <2>2, <2>3 DEF removeClient
<1>8. CASE CloseChannel(c)
  BY <1>8 DEF CloseChannel
<1>9. CASE Disconnect(c)
  BY <1>9 DEF Disconnect
<1> QED BY <1>1, <1>2, <1>3, <1>4, <1>5, <1>6, <1>7, <1>8, <1>9

\* Every step, a stuttering one included.
LEMMA InductiveStep == Inductive /\ [Next]_vars => Inductive'
<1> SUFFICES ASSUME Inductive, [Next]_vars PROVE Inductive'
  OBVIOUS
<1>1. CASE UNCHANGED vars
  BY <1>1 DEF vars, subs, Inductive, Shape, StreamInv, VisitsConnected, ConnectedIsServed
<1>2. CASE Next
  BY <1>2, SubscriberStep, HandlerStep DEF Next
<1> QED BY <1>1, <1>2

\* A send of broadcast never meets a closed channel, so the service never panics: for
\* any number of clients, subscribers and messages.
THEOREM NoPanic == Spec => []NeverSendOnClosed
<1>1. Inductive => NeverSendOnClosed
  BY DEF Inductive, Shape, StreamInv, VisitsConnected, ConnectedIsServed, NeverSendOnClosed
<1> QED BY <1>1, InitInductive, InductiveStep, PTL DEF Spec

-----------------------------------------------------------------------------
StreamTypes == TypeOK /\ HandWhileWriting

\* A channel of capacity one: empty, or one update that is its head.
LEMMA ShortBuffer ==
  ASSUME TypeOK, NEW c \in Client, buf[c] # <<>>
  PROVE  /\ Head(buf[c]) \in Update /\ Head(buf[c]) = buf[c][1] /\ 1 \in DOMAIN buf[c]
         /\ Tail(buf[c]) = <<>> /\ DOMAIN buf[c] = {1}
<1>1. buf[c] \in Seq(Update) /\ Len(buf[c]) <= 1
  BY DEF TypeOK
<1>2. Len(buf[c]) = 1
  <2> DEFINE n == Len(buf[c])
  <2>1. n \in Nat /\ n # 0 /\ n <= 1
    BY <1>1, EmptySeq
  <2> HIDE DEF n
  <2>2. n = 1
    BY <2>1
  <2> QED
    BY <2>2 DEF n
<1>3. Head(buf[c]) \in Update /\ Head(buf[c]) = buf[c][1] /\ DOMAIN buf[c] = {1}
  BY <1>1, <1>2
<1>4. Tail(buf[c]) = <<>>
  <2>1. Tail(buf[c]) \in Seq(Update) /\ Len(Tail(buf[c])) = 0
    BY <1>1, <1>2
  <2> QED
    BY <2>1, EmptySeq
<1> QED
  BY <1>3, <1>4

\* Writing one channel keeps the channels' capacity.
LEMMA BufferWrite ==
  ASSUME buf \in [Client -> Seq(Update)], \A x \in Client : Len(buf[x]) <= 1,
         NEW c \in Client, NEW q \in Seq(Update), Len(q) <= 1,
         buf' = buf \/ buf' = [buf EXCEPT ![c] = q]
  PROVE  buf' \in [Client -> Seq(Update)] /\ \A x \in Client : Len(buf'[x]) <= 1
<1>1. \A x \in Client : buf'[x] = buf[x] \/ buf'[x] = q
  OBVIOUS
<1> QED
  BY <1>1

\* Every step keeps the types: channels hold at most one message, and a handler writes
\* only a message it has taken.
LEMMA StreamTypeStep == StreamTypes /\ [Next]_vars => StreamTypes'
<1> SUFFICES ASSUME StreamTypes, [Next]_vars PROVE StreamTypes'
  OBVIOUS
<1> USE DEF StreamTypes, TypeOK, HandWhileWriting, Goto, subs
<1>empty. <<>> \in Seq(Update) /\ Len(<<>>) = 0
  OBVIOUS
<1>1. ASSUME NEW s \in Subscriber, Publish(s) PROVE StreamTypes'
  <2>1. published' \in [Subscriber -> Nat] /\ published'[s] \in Nat
    BY <1>1 DEF Publish
  <2>2. inbox' \in [Subscriber -> Seq(Nat)]
    <3>1. Append(inbox[s], published'[s]) \in Seq(Nat)
      BY <2>1
    <3> QED
      BY <1>1, <3>1 DEF Publish
  <2> QED
    BY <1>1, <2>1, <2>2 DEF Publish
<1>2. ASSUME NEW s \in Subscriber, Receive(s) PROVE StreamTypes'
  <2>1. Head(inbox[s]) \in Nat /\ Tail(inbox[s]) \in Seq(Nat)
    BY <1>2 DEF Receive
  <2> QED
    BY <1>2, <2>1 DEF Receive
<1>3. ASSUME NEW s \in Subscriber, RLock(s) \/ RUnlock(s) PROVE StreamTypes'
  BY <1>3 DEF RLock, RUnlock
<1>4. ASSUME NEW s \in Subscriber, NEW c \in Client, TrySend(s, c) PROVE StreamTypes'
  <2>1. <<s, cur[s]>> \in Update
    BY DEF Update
  <2>2. <<<<s, cur[s]>>>> \in Seq(Update) /\ Len(<<<<s, cur[s]>>>>) = 1
    BY <2>1
  <2>3. buf' = buf \/ buf' = [buf EXCEPT ![c] = <<<<s, cur[s]>>>>]
    BY <1>4 DEF TrySend
  <2>4. buf' \in [Client -> Seq(Update)] /\ \A x \in Client : Len(buf'[x]) <= 1
    <3>1. buf \in [Client -> Seq(Update)] /\ \A x \in Client : Len(buf[x]) <= 1
      OBVIOUS
    <3> HIDE DEF StreamTypes, TypeOK, HandWhileWriting
    <3>2. Len(<<<<s, cur[s]>>>>) <= 1
      BY <2>2
    <3> QED
      BY <2>2, <2>3, <3>1, <3>2, BufferWrite
  <2> QED
    BY <1>4, <2>4 DEF TrySend
<1>5. ASSUME NEW c \in Client, Authenticate(c) \/ WriteInitial(c) \/ addClient(c) \/ Leave(c)
                               \/ removeClient(c)
      PROVE  StreamTypes'
  BY <1>5 DEF Authenticate, WriteInitial, addClient, Leave, removeClient
<1>6. ASSUME NEW c \in Client, TakeMessage(c) PROVE StreamTypes'
  <2>1. Head(buf[c]) \in Update /\ Tail(buf[c]) = <<>>
    BY <1>6, ShortBuffer DEF TakeMessage
  <2>2. buf' \in [Client -> Seq(Update)] /\ \A x \in Client : Len(buf'[x]) <= 1
    BY <1>6, <2>1, <1>empty, BufferWrite DEF TakeMessage
  <2>3. hand' \in [Client -> Update \cup {<<>>}] /\ HandWhileWriting'
    BY <1>6, <2>1 DEF TakeMessage, Update
  <2> QED
    BY <1>6, <2>2, <2>3 DEF TakeMessage
<1>7. ASSUME NEW c \in Client, writeSSE(c) PROVE StreamTypes'
  <2>1. hand[c] \in Update
    BY <1>7 DEF writeSSE, Update
  <2>2. got' \in [Client -> Seq(Update)]
    <3>1. Append(got[c], hand[c]) \in Seq(Update)
      BY <2>1
    <3> QED
      BY <1>7, <3>1 DEF writeSSE
  <2> QED
    BY <1>7, <2>2 DEF writeSSE
<1>8. ASSUME NEW c \in Client, CloseChannel(c) \/ Disconnect(c) PROVE StreamTypes'
  <2>1. buf' \in [Client -> Seq(Update)] /\ \A x \in Client : Len(buf'[x]) <= 1
    <3>1. buf' = buf \/ buf' = [buf EXCEPT ![c] = <<>>]
      BY <1>8 DEF CloseChannel, Disconnect
    <3>2. buf \in [Client -> Seq(Update)] /\ \A x \in Client : Len(buf[x]) <= 1
      OBVIOUS
    <3> HIDE DEF StreamTypes, TypeOK, HandWhileWriting
    <3>3. Len(<<>>) <= 1
      BY <1>empty
    <3> QED
      BY <1>empty, <3>1, <3>2, <3>3, BufferWrite
  <2> QED
    BY <1>8, <2>1 DEF CloseChannel, Disconnect
<1>9. CASE UNCHANGED vars
  BY <1>9 DEF vars
<1> QED
  BY <1>1, <1>2, <1>3, <1>4, <1>5, <1>6, <1>7, <1>8, <1>9 DEF Next, Subscribe

\* Every variable keeps its type, and no client's channel ever holds more than the one
\* message it has room for.
THEOREM StreamTypeCorrect == Spec => []TypeOK
<1>1. Init => StreamTypes
  <2>1. <<>> \in Seq(Update) /\ <<>> \in Seq(Nat) /\ Len(<<>>) = 0
    OBVIOUS
  <2> QED
    BY <2>1 DEF Init, StreamTypes, TypeOK, HandWhileWriting
<1>2. StreamTypes => TypeOK
  BY DEF StreamTypes
<1> QED
  BY <1>1, <1>2, StreamTypeStep, PTL DEF Spec

\* What is known of a state in which a message has not overtaken another.
StreamOrder == StreamTypes /\ Inductive /\ OrderInv

\* What was sent to a client, by where it is now; each part is a set of updates.
LEMMA HeldTypes ==
  ASSUME StreamTypes, NEW c \in Client
  PROVE  /\ Held(c) \subseteq Update /\ Taken(c) \subseteq Update /\ InHand(c) \subseteq Update
         /\ \A u \in Update : u[1] \in Subscriber /\ u[2] \in Nat
<1>1. got[c] \in Seq(Update) /\ buf[c] \in Seq(Update)
  BY DEF StreamTypes, TypeOK
<1>2. Taken(c) \subseteq Update /\ {buf[c][i] : i \in DOMAIN buf[c]} \subseteq Update
  BY <1>1 DEF Taken
<1>3. InHand(c) \subseteq Update
  BY DEF StreamTypes, HandWhileWriting, InHand, Update
<1>4. \A u \in Update : u[1] \in Subscriber /\ u[2] \in Nat
  BY DEF Update
<1> QED
  BY <1>2, <1>3, <1>4 DEF Held

\* A step that leaves the broadcasts alone, and of what was sent to clients only moves or
\* drops some, keeps it older than the broadcasts.
LEMMA HeldKept ==
  ASSUME HeldIsOlder, UNCHANGED <<cur, at, todo>>,
         \A c \in Client : Held(c)' \subseteq Held(c)
  PROVE  HeldIsOlder'
  BY DEF HeldIsOlder, ToCome

\* The parts of the invariant only speak of these variables.
LEMMA OrderFrame ==
  /\ InboxOrdered /\ UNCHANGED <<cur, published, inbox>> => InboxOrdered'
  /\ VisitsOwnUser /\ UNCHANGED <<cur, todo>> => VisitsOwnUser'
  /\ \A c : UNCHANGED <<got, hand, buf>> /\ (conn'[c] = "write" <=> conn[c] = "write")
        => Held(c)' = Held(c) /\ Taken(c)' = Taken(c) /\ InHand(c)' = InHand(c)
<1>1. InboxOrdered /\ UNCHANGED <<cur, published, inbox>> => InboxOrdered'
  BY DEF InboxOrdered
<1>2. VisitsOwnUser /\ UNCHANGED <<cur, todo>> => VisitsOwnUser'
  BY DEF VisitsOwnUser
<1>3. ASSUME NEW c, UNCHANGED <<got, hand, buf>>, conn'[c] = "write" <=> conn[c] = "write"
      PROVE  Held(c)' = Held(c) /\ Taken(c)' = Taken(c) /\ InHand(c)' = InHand(c)
  BY <1>3 DEF Held, Taken, InHand
<1> QED
  BY <1>1, <1>2, <1>3

\* A step that leaves channels, hands and clients alone lets nothing overtake.
LEMMA StillOrdered ==
  ASSUME NoOvertaking, UNCHANGED <<got, hand, buf>>,
         \A c \in Client : conn'[c] = "write" <=> conn[c] = "write"
  PROVE  NoOvertaking' /\ \A c \in Client : Held(c)' = Held(c)
<1>1. \A c \in Client : Held(c)' = Held(c) /\ Taken(c)' = Taken(c) /\ InHand(c)' = InHand(c)
  BY OrderFrame
<1> QED
  BY <1>1 DEF NoOvertaking

\* A subscriber's step: Redis delivers in order, a new broadcast is newer than everything
\* sent before, and it reaches each client of its user once.
LEMMA BroadcastOrder ==
  ASSUME StreamOrder, NEW s \in Subscriber, Publish(s) \/ Subscribe(s)
  PROVE  OrderInv'
<1>inv. /\ StreamTypes /\ StreamInv /\ InboxOrdered /\ HeldIsOlder /\ VisitsOwnUser /\ NoOvertaking
  BY DEF StreamOrder, Inductive, OrderInv
<1>type. /\ published \in [Subscriber -> Nat] /\ inbox \in [Subscriber -> Seq(Nat)]
         /\ at \in [Subscriber -> {"wait", "lock", "send"}] /\ cur \in [Subscriber -> Nat]
         /\ todo \in [Subscriber -> SUBSET Client] /\ clients \subseteq Client
         /\ buf \in [Client -> Seq(Update)]
  BY <1>inv DEF StreamTypes, TypeOK
<1>held. \A c \in Client : \A u \in Held(c) : u[1] \in Subscriber /\ u[2] \in Nat
  BY <1>inv, HeldTypes
<1>1. CASE Publish(s)
  <2>1. UNCHANGED <<at, cur, todo, got, hand, buf, conn>>
    BY <1>1 DEF Publish
  <2>2. InboxOrdered'
    <3> SUFFICES ASSUME NEW x \in Subscriber
                 PROVE  /\ cur[x] <= published'[x]
                        /\ \A i \in DOMAIN inbox'[x] : cur[x] < inbox'[x][i] /\ inbox'[x][i] <= published'[x]
                        /\ \A i, j \in DOMAIN inbox'[x] : i < j => inbox'[x][i] < inbox'[x][j]
      BY <2>1 DEF InboxOrdered
    <3>0. /\ cur[x] <= published[x] /\ cur[x] \in Nat /\ published[x] \in Nat
          /\ \A i \in DOMAIN inbox[x] : cur[x] < inbox[x][i] /\ inbox[x][i] <= published[x]
          /\ \A i, j \in DOMAIN inbox[x] : i < j => inbox[x][i] < inbox[x][j]
          /\ \A i \in DOMAIN inbox[x] : inbox[x][i] \in Nat
      BY <1>inv, <1>type DEF InboxOrdered
    <3>1. CASE x # s \/ inbox' = inbox
      <4>1. inbox'[x] = inbox[x] /\ published'[x] \in {published[x], published[x] + 1}
        BY <1>1, <1>type, <3>1 DEF Publish
      <4> QED
        BY <3>0, <4>1
    <3>2. CASE x = s /\ inbox' # inbox
      <4> DEFINE n == published[s] + 1
      <4>1. published'[x] = n /\ inbox'[x] = Append(inbox[x], n)
        BY <1>1, <1>type, <3>2 DEF Publish
      <4>2. /\ DOMAIN inbox'[x] = DOMAIN inbox[x] \cup {Len(inbox[x]) + 1}
            /\ inbox'[x][Len(inbox[x]) + 1] = n
            /\ \A i \in DOMAIN inbox[x] : /\ inbox'[x][i] = inbox[x][i] /\ i \in Nat
                                          /\ i < Len(inbox[x]) + 1
            /\ Len(inbox[x]) \in Nat
        BY <4>1, <1>type
      <4>3. \A i \in DOMAIN inbox'[x] : cur[x] < inbox'[x][i] /\ inbox'[x][i] <= published'[x]
        BY <3>0, <3>2, <4>1, <4>2
      <4>4. \A i, j \in DOMAIN inbox'[x] : i < j => inbox'[x][i] < inbox'[x][j]
        BY <3>0, <3>2, <4>1, <4>2
      <4> QED
        BY <3>0, <3>2, <4>1, <4>3, <4>4
    <3> QED
      BY <3>1, <3>2
  <2> QED
    BY <2>1, <2>2, <1>inv, StillOrdered, HeldKept, OrderFrame DEF OrderInv
<1>2. CASE Receive(s)
  <2> DEFINE n == Head(inbox[s])
  <2>1. /\ at[s] = "wait" /\ inbox[s] # <<>> /\ inbox' = [inbox EXCEPT ![s] = Tail(inbox[s])]
        /\ UNCHANGED <<published, todo, got, hand, buf, conn>>
        /\ \/ UNCHANGED <<at, cur>>
           \/ cur' = [cur EXCEPT ![s] = n] /\ at' = [at EXCEPT ![s] = "lock"]
    BY <1>2, <1>type DEF Receive
  <2>2. /\ n \in Nat /\ n = inbox[s][1] /\ 1 \in DOMAIN inbox[s]
        /\ Tail(inbox[s]) \in Seq(Nat)
        /\ \A i \in DOMAIN Tail(inbox[s]) : /\ i \in Nat /\ i + 1 \in DOMAIN inbox[s] /\ 1 < i + 1
                                            /\ Tail(inbox[s])[i] = inbox[s][i + 1]
    BY <2>1, <1>type
  <2>3. /\ \A i \in DOMAIN inbox[s] : cur[s] < inbox[s][i] /\ inbox[s][i] <= published[s]
        /\ \A i, j \in DOMAIN inbox[s] : i < j => inbox[s][i] < inbox[s][j]
    BY <1>inv DEF InboxOrdered
  <2>4. cur'[s] \in {cur[s], n} /\ cur[s] < n /\ n <= published[s]
    BY <2>1, <2>2, <2>3, <1>type
  <2>5. InboxOrdered'
    <3> SUFFICES ASSUME NEW x \in Subscriber
                 PROVE  /\ cur'[x] <= published[x]
                        /\ \A i \in DOMAIN inbox'[x] : cur'[x] < inbox'[x][i] /\ inbox'[x][i] <= published[x]
                        /\ \A i, j \in DOMAIN inbox'[x] : i < j => inbox'[x][i] < inbox'[x][j]
      BY <2>1 DEF InboxOrdered
    <3>1. CASE x # s
      BY <3>1, <2>1, <1>inv, <1>type DEF InboxOrdered
    <3>2. CASE x = s
      <4>1. inbox'[x] = Tail(inbox[s])
        BY <3>2, <2>1, <1>type
      <4>2. cur'[x] <= published[x]
        BY <3>2, <2>4, <1>inv DEF InboxOrdered
      <4>3. ASSUME NEW i \in DOMAIN inbox'[x]
            PROVE  cur'[x] < inbox'[x][i] /\ inbox'[x][i] <= published[x]
        <5>1. inbox'[x][i] = inbox[s][i + 1] /\ i + 1 \in DOMAIN inbox[s] /\ 1 < i + 1
          BY <4>1, <2>2
        <5>2. cur[s] < inbox[s][i + 1] /\ n < inbox[s][i + 1] /\ inbox[s][i + 1] <= published[s]
          BY <5>1, <2>2, <2>3
        <5> QED
          BY <5>1, <5>2, <2>4, <3>2
      <4>4. \A i, j \in DOMAIN inbox'[x] : i < j => inbox'[x][i] < inbox'[x][j]
        <5> SUFFICES ASSUME NEW i \in DOMAIN inbox'[x], NEW j \in DOMAIN inbox'[x], i < j
                     PROVE  inbox'[x][i] < inbox'[x][j]
          OBVIOUS
        <5>1. /\ inbox'[x][i] = inbox[s][i + 1] /\ i + 1 \in DOMAIN inbox[s] /\ i \in Nat
              /\ inbox'[x][j] = inbox[s][j + 1] /\ j + 1 \in DOMAIN inbox[s] /\ j \in Nat
          BY <4>1, <2>2
        <5>2. i + 1 < j + 1
          BY <5>1
        <5> QED
          BY <5>1, <5>2, <2>3
      <4> QED
        BY <4>2, <4>3, <4>4
    <3> QED
      BY <3>1, <3>2
  <2>6. todo[s] = {}
    BY <2>1, <1>inv DEF StreamInv, VisitsConnected
  <2>7. VisitsOwnUser'
    <3>1. \A x \in Subscriber : x = s \/ cur'[x] = cur[x]
      BY <2>1, <1>type
    <3> QED
      BY <2>1, <2>6, <3>1, <1>inv DEF VisitsOwnUser
  <2>8. NoOvertaking' /\ \A c \in Client : Held(c)' = Held(c)
    BY <2>1, <1>inv, StillOrdered
  <2>9. HeldIsOlder'
    <3> SUFFICES ASSUME NEW c \in Client, NEW u \in Held(c)
                 PROVE  /\ u[2] <= cur'[u[1]]
                        /\ ToCome(u[1], c)' => u[2] < cur'[u[1]]
                        /\ Feed[u[1]][u[2]].user = UserOf[c]
      BY <2>8 DEF HeldIsOlder
    <3>1. /\ u[1] \in Subscriber /\ u[2] \in Nat /\ u[2] <= cur[u[1]]
          /\ ToCome(u[1], c) => u[2] < cur[u[1]]
          /\ Feed[u[1]][u[2]].user = UserOf[c]
      BY <1>held, <1>inv DEF HeldIsOlder
    <3>2. CASE u[1] # s \/ UNCHANGED <<at, cur>>
      <4>1. cur'[u[1]] = cur[u[1]] /\ (ToCome(u[1], c)' <=> ToCome(u[1], c))
        BY <2>1, <3>1, <3>2, <1>type DEF ToCome
      <4> QED
        BY <3>1, <4>1
    <3>3. CASE u[1] = s /\ cur' = [cur EXCEPT ![s] = n]
      BY <3>1, <3>3, <2>2, <2>4, <1>type
    <3> QED
      BY <2>1, <3>2, <3>3
  <2> QED
    BY <2>5, <2>7, <2>8, <2>9 DEF OrderInv
<1>3. CASE RLock(s)
  <2>1. /\ at[s] = "lock" /\ at' = [at EXCEPT ![s] = "send"]
        /\ todo' = [todo EXCEPT ![s] = {c \in clients : UserOf[c] = Feed[s][cur[s]].user}]
        /\ UNCHANGED <<published, inbox, cur, got, hand, buf, conn>>
    BY <1>3 DEF RLock
  <2>2. VisitsOwnUser'
    BY <2>1, <1>inv, <1>type DEF VisitsOwnUser
  <2>3. \A x \in Subscriber, c \in Client : ToCome(x, c)' => ToCome(x, c)
    BY <2>1, <1>type DEF ToCome
  <2>4. NoOvertaking' /\ \A c \in Client : Held(c)' = Held(c)
    BY <2>1, <1>inv, StillOrdered
  <2>5. HeldIsOlder'
    BY <2>1, <2>3, <2>4, <1>inv, <1>held DEF HeldIsOlder
  <2> QED
    BY <2>1, <2>2, <2>4, <2>5, <1>inv, OrderFrame DEF OrderInv
<1>4. CASE RUnlock(s)
  <2>1. /\ at' = [at EXCEPT ![s] = "wait"]
        /\ UNCHANGED <<published, inbox, cur, todo, got, hand, buf, conn>>
    BY <1>4 DEF RUnlock
  <2>2. \A x \in Subscriber, c \in Client : ToCome(x, c)' => ToCome(x, c)
    BY <2>1, <1>type DEF ToCome
  <2>3. NoOvertaking' /\ \A c \in Client : Held(c)' = Held(c)
    BY <2>1, <1>inv, StillOrdered
  <2>4. HeldIsOlder'
    BY <2>1, <2>2, <2>3, <1>inv, <1>held DEF HeldIsOlder
  <2> QED
    BY <2>1, <2>3, <2>4, <1>inv, OrderFrame DEF OrderInv
<1>5. ASSUME NEW c \in Client, TrySend(s, c) PROVE OrderInv'
  <2> DEFINE v == <<s, cur[s]>>
  <2>1. /\ at[s] = "send" /\ c \in todo[s] /\ todo' = [todo EXCEPT ![s] = @ \ {c}]
        /\ UNCHANGED <<published, inbox, at, cur, got, hand, conn>>
        /\ \/ buf[c] = <<>> /\ buf' = [buf EXCEPT ![c] = <<v>>]
           \/ buf' = buf
    BY <1>5 DEF TrySend
  <2>2. VisitsOwnUser'
    BY <2>1, <1>inv, <1>type DEF VisitsOwnUser
  <2>3. \A x \in Subscriber, d \in Client : ToCome(x, d)' => ToCome(x, d)
    BY <2>1, <1>type DEF ToCome
  <2>4. CASE buf' = buf
    <3>1. NoOvertaking' /\ \A d \in Client : Held(d)' = Held(d)
      BY <2>1, <2>4, <1>inv, StillOrdered
    <3>2. HeldIsOlder'
      BY <2>1, <2>3, <3>1, <1>inv, <1>held DEF HeldIsOlder
    <3> QED
      BY <2>1, <2>2, <3>1, <3>2, <1>inv, OrderFrame DEF OrderInv
  <2>5. CASE buf[c] = <<>> /\ buf' = [buf EXCEPT ![c] = <<v>>]
    <3>1. /\ buf'[c] = <<v>> /\ \A d \in Client : d # c => buf'[d] = buf[d]
          /\ DOMAIN <<v>> = {1} /\ <<v>>[1] = v
      BY <2>5, <1>type
    <3>2. \A d \in Client : Taken(d)' = Taken(d) /\ InHand(d)' = InHand(d)
      BY <2>1 DEF Taken, InHand
    <3>3. \A d \in Client : d # c => Held(d)' = Held(d)
      BY <3>1, <3>2 DEF Held
    <3>4. Held(c)' \subseteq Held(c) \cup {v} /\ Taken(c) \cup InHand(c) \subseteq Held(c)
      BY <3>1, <3>2 DEF Held
    <3>5. v[1] = s /\ v[2] = cur[s] /\ ~ToCome(s, c)' /\ ToCome(s, c)
      BY <2>1, <1>type DEF ToCome
    <3>6. HeldIsOlder'
      <4> SUFFICES ASSUME NEW d \in Client, NEW u \in Held(d)'
                   PROVE  /\ u[2] <= cur[u[1]]
                          /\ ToCome(u[1], d)' => u[2] < cur[u[1]]
                          /\ Feed[u[1]][u[2]].user = UserOf[d]
        BY <2>1 DEF HeldIsOlder
      <4>1. CASE u \in Held(d)
        BY <4>1, <2>3, <1>inv, <1>held DEF HeldIsOlder
      <4>2. CASE d = c /\ u = v
        <5>1. Feed[s][cur[s]].user = UserOf[c]
          BY <2>1, <1>inv DEF VisitsOwnUser
        <5> QED
          BY <4>2, <3>5, <5>1, <1>type
      <4> QED
        BY <4>1, <4>2, <3>3, <3>4
    <3>7. NoOvertaking'
      <4> SUFFICES ASSUME NEW d \in Client
                   PROVE  /\ \A i, j \in DOMAIN got[d] : i < j => Older(got[d][i], got[d][j])
                          /\ \A u \in Taken(d), w \in InHand(d) : Older(u, w)
                          /\ \A u \in Taken(d) \cup InHand(d), i \in DOMAIN buf'[d] : Older(u, buf'[d][i])
        BY <2>1, <3>2 DEF NoOvertaking
      <4>1. /\ \A i, j \in DOMAIN got[d] : i < j => Older(got[d][i], got[d][j])
            /\ \A u \in Taken(d), w \in InHand(d) : Older(u, w)
            /\ \A u \in Taken(d) \cup InHand(d), i \in DOMAIN buf[d] : Older(u, buf[d][i])
        BY <1>inv DEF NoOvertaking
      <4>2. ASSUME d = c, NEW u \in Taken(c) \cup InHand(c) PROVE Older(u, v)
        <5>1. u \in Held(c)
          BY <4>2, <3>4
        <5>2. ToCome(u[1], c) => u[2] < cur[u[1]]
          BY <5>1, <1>inv DEF HeldIsOlder
        <5> QED
          BY <5>2, <3>5 DEF Older
      <4> QED
        BY <4>1, <4>2, <3>1
    <3> QED
      BY <2>1, <2>2, <3>6, <3>7, <1>inv, OrderFrame DEF OrderInv
  <2> QED
    BY <2>1, <2>4, <2>5
<1> QED
  BY <1>1, <1>2, <1>3, <1>4, <1>5 DEF Subscribe

\* A handler's step takes what is in its channel to its hand and from there to the client,
\* or drops it: nothing new, and nothing past what went before.
LEMMA DeliveryOrder ==
  ASSUME StreamOrder, NEW c \in Client,
         \/ Authenticate(c) \/ WriteInitial(c) \/ addClient(c) \/ TakeMessage(c)
         \/ writeSSE(c) \/ Leave(c) \/ removeClient(c) \/ CloseChannel(c) \/ Disconnect(c)
  PROVE  OrderInv'
<1>inv. /\ StreamTypes /\ InboxOrdered /\ HeldIsOlder /\ VisitsOwnUser /\ NoOvertaking
  BY DEF StreamOrder, OrderInv
<1>type. /\ buf \in [Client -> Seq(Update)] /\ hand \in [Client -> Update \cup {<<>>}]
         /\ got \in [Client -> Seq(Update)] /\ DOMAIN conn = Client
  BY <1>inv DEF StreamTypes, TypeOK
<1>subs. InboxOrdered' /\ VisitsOwnUser' /\ UNCHANGED <<cur, at, todo>>
  BY <1>inv, OrderFrame DEF Authenticate, WriteInitial, addClient, TakeMessage, writeSSE, Leave,
        removeClient, CloseChannel, Disconnect, subs
<1>1. CASE Authenticate(c) \/ WriteInitial(c) \/ addClient(c) \/ Leave(c) \/ removeClient(c) \/ Disconnect(c)
  <2>1. UNCHANGED <<got, hand, buf>> /\ \A d \in Client : conn'[d] = "write" <=> conn[d] = "write"
    BY <1>1, <1>type DEF Authenticate, WriteInitial, addClient, Leave, removeClient, Disconnect, Goto
  <2> QED
    BY <2>1, <1>inv, <1>subs, StillOrdered, HeldKept DEF OrderInv
<1>2. ASSUME NoOvertaking', \A d \in Client : Held(d)' \subseteq Held(d) PROVE OrderInv'
  BY <1>2, <1>inv, <1>subs, HeldKept DEF OrderInv
<1>old. ASSUME NEW d \in Client
        PROVE  /\ \A i, j \in DOMAIN got[d] : i < j => Older(got[d][i], got[d][j])
               /\ \A u \in Taken(d), w \in InHand(d) : Older(u, w)
               /\ \A u \in Taken(d) \cup InHand(d), i \in DOMAIN buf[d] : Older(u, buf[d][i])
  BY <1>inv DEF NoOvertaking
<1>same. ASSUME NEW d \in Client, got'[d] = got[d], buf'[d] = buf[d], hand'[d] = hand[d], conn'[d] = conn[d]
         PROVE  Held(d)' = Held(d) /\ Taken(d)' = Taken(d) /\ InHand(d)' = InHand(d)
  BY <1>same DEF Held, Taken, InHand
<1>3. CASE TakeMessage(c)
  <2>1. /\ conn[c] = "loop" /\ buf[c] # <<>> /\ got' = got
        /\ hand' = [hand EXCEPT ![c] = Head(buf[c])]
        /\ buf' = [buf EXCEPT ![c] = Tail(buf[c])]
        /\ conn' = [conn EXCEPT ![c] = "write"]
    BY <1>3, <1>type DEF TakeMessage, Goto
  <2>2. Head(buf[c]) = buf[c][1] /\ 1 \in DOMAIN buf[c] /\ Tail(buf[c]) = <<>>
    BY <2>1, <1>inv, ShortBuffer DEF StreamTypes
  <2>3. /\ buf'[c] = <<>> /\ InHand(c)' = {buf[c][1]} /\ Taken(c)' = Taken(c)
    BY <2>1, <2>2, <1>type DEF InHand, Taken
  <2>4. \A d \in Client : d # c => /\ got'[d] = got[d] /\ buf'[d] = buf[d]
                                   /\ hand'[d] = hand[d] /\ conn'[d] = conn[d]
    BY <2>1, <1>type
  <2>5. Held(c)' \subseteq Held(c)
    BY <2>2, <2>3 DEF Held
  <2>6. NoOvertaking'
    <3> SUFFICES ASSUME NEW d \in Client
                 PROVE  /\ \A i, j \in DOMAIN got[d] : i < j => Older(got[d][i], got[d][j])
                        /\ \A u \in Taken(d)', w \in InHand(d)' : Older(u, w)
                        /\ \A u \in Taken(d)' \cup InHand(d)', i \in DOMAIN buf'[d] : Older(u, buf'[d][i])
      BY <2>1 DEF NoOvertaking
    <3>1. CASE d = c
      BY <3>1, <2>2, <2>3, <1>old
    <3>2. CASE d # c
      BY <3>2, <2>4, <1>old, <1>same
    <3> QED
      BY <3>1, <3>2
  <2> QED
    BY <1>2, <2>4, <2>5, <2>6, <1>same
<1>4. CASE writeSSE(c)
  <2>1. /\ conn[c] = "write" /\ hand' = [hand EXCEPT ![c] = <<>>] /\ buf' = buf
        /\ got' = got \/ got' = [got EXCEPT ![c] = Append(got[c], hand[c])]
        /\ \E l \in {"loop", "remove"} : conn' = [conn EXCEPT ![c] = l]
    BY <1>4, <1>type DEF writeSSE, Goto
  <2>2. hand[c] \in Update /\ InHand(c) = {hand[c]} /\ InHand(c)' = {}
    BY <2>1, <1>inv, <1>type DEF StreamTypes, HandWhileWriting, InHand, Update
  <2>3. \A d \in Client : d # c => /\ got'[d] = got[d] /\ buf'[d] = buf[d]
                                   /\ hand'[d] = hand[d] /\ conn'[d] = conn[d]
    BY <2>1, <1>type
  <2>4. \/ got'[c] = got[c]
        \/ /\ DOMAIN got'[c] = DOMAIN got[c] \cup {Len(got[c]) + 1}
           /\ got'[c][Len(got[c]) + 1] = hand[c]
           /\ \A i \in DOMAIN got[c] : got'[c][i] = got[c][i] /\ i \in Nat /\ i < Len(got[c]) + 1
    <3>1. got[c] \in Seq(Update) /\ (got'[c] = got[c] \/ got'[c] = Append(got[c], hand[c]))
      BY <2>1, <1>type
    <3>2. CASE got'[c] = Append(got[c], hand[c])
      BY <3>1, <3>2, <2>2
    <3> QED
      BY <3>1, <3>2
  <2>5. Taken(c)' \subseteq Taken(c) \cup InHand(c)
    BY <2>2, <2>4 DEF Taken
  <2>6. Held(c)' \subseteq Held(c)
    BY <2>1, <2>2, <2>5 DEF Held
  <2>7. \A i, j \in DOMAIN got'[c] : i < j => Older(got'[c][i], got'[c][j])
    <3>1. CASE got'[c] = got[c]
      BY <3>1, <1>old
    <3>2. CASE /\ DOMAIN got'[c] = DOMAIN got[c] \cup {Len(got[c]) + 1}
               /\ got'[c][Len(got[c]) + 1] = hand[c]
               /\ \A i \in DOMAIN got[c] : got'[c][i] = got[c][i] /\ i \in Nat /\ i < Len(got[c]) + 1
      <4> SUFFICES ASSUME NEW i \in DOMAIN got'[c], NEW j \in DOMAIN got'[c], i < j
                   PROVE  Older(got'[c][i], got'[c][j])
        OBVIOUS
      <4>1. i \in DOMAIN got[c] /\ got'[c][i] = got[c][i]
        BY <3>2, <1>type
      <4>2. CASE j \in DOMAIN got[c]
        BY <4>1, <4>2, <3>2, <1>old
      <4>3. CASE j = Len(got[c]) + 1
        <5>1. got[c][i] \in Taken(c) /\ hand[c] \in InHand(c)
          BY <4>1, <2>2 DEF Taken
        <5>2. Older(got[c][i], hand[c])
          BY <5>1, <1>old
        <5> QED
          BY <4>1, <4>3, <3>2, <5>2
      <4> QED
        BY <4>2, <4>3, <3>2
    <3> QED
      BY <2>4, <3>1, <3>2
  <2>8. NoOvertaking'
    <3> SUFFICES ASSUME NEW d \in Client
                 PROVE  /\ \A i, j \in DOMAIN got'[d] : i < j => Older(got'[d][i], got'[d][j])
                        /\ \A u \in Taken(d)', w \in InHand(d)' : Older(u, w)
                        /\ \A u \in Taken(d)' \cup InHand(d)', i \in DOMAIN buf'[d] : Older(u, buf'[d][i])
      BY DEF NoOvertaking
    <3>1. CASE d = c
      BY <3>1, <2>1, <2>2, <2>5, <2>7, <1>old
    <3>2. CASE d # c
      BY <3>2, <2>3, <1>old, <1>same
    <3> QED
      BY <3>1, <3>2
  <2> QED
    BY <1>2, <2>3, <2>6, <2>8, <1>same
<1>5. CASE CloseChannel(c)
  <2>1. /\ conn[c] = "close" /\ buf' = [buf EXCEPT ![c] = <<>>] /\ UNCHANGED <<hand, got>>
        /\ conn' = [conn EXCEPT ![c] = "closed"]
    BY <1>5 DEF CloseChannel, Goto
  <2>2. /\ buf'[c] = <<>> /\ DOMAIN buf'[c] = {}
        /\ InHand(c)' = InHand(c) /\ \A d \in Client : Taken(d)' = Taken(d)
    BY <2>1, <1>type DEF InHand, Taken
  <2>3. \A d \in Client : d # c => /\ got'[d] = got[d] /\ buf'[d] = buf[d]
                                   /\ hand'[d] = hand[d] /\ conn'[d] = conn[d]
    BY <2>1, <1>type
  <2>4. Held(c)' \subseteq Held(c)
    BY <2>2 DEF Held
  <2>5. NoOvertaking'
    <3> SUFFICES ASSUME NEW d \in Client
                 PROVE  /\ \A i, j \in DOMAIN got[d] : i < j => Older(got[d][i], got[d][j])
                        /\ \A u \in Taken(d)', w \in InHand(d)' : Older(u, w)
                        /\ \A u \in Taken(d)' \cup InHand(d)', i \in DOMAIN buf'[d] : Older(u, buf'[d][i])
      BY <2>1 DEF NoOvertaking
    <3>1. CASE d = c
      BY <3>1, <2>2, <1>old
    <3>2. CASE d # c
      BY <3>2, <2>3, <1>old, <1>same
    <3> QED
      BY <3>1, <3>2
  <2> QED
    BY <1>2, <2>3, <2>4, <2>5, <1>same
<1> QED
  BY <1>1, <1>3, <1>4, <1>5

\* A client is shown the updates of each channel in the order of their publication, none
\* twice and only its own user's, for any number of clients, users, channels and messages,
\* whatever Redis, full channels and leaving clients drop.
THEOREM DeliveredInOrder == Spec => []InOrder
<1>1. Init => StreamOrder
  <2> SUFFICES ASSUME Init PROVE StreamOrder
    OBVIOUS
  <2>0. <<>> \in Seq(Update) /\ <<>> \in Seq(Nat) /\ Len(<<>>) = 0
    OBVIOUS
  <2>1. StreamTypes /\ Inductive
    BY <2>0, InitInductive DEF Init, StreamTypes, TypeOK, HandWhileWriting
  <2>2. \A c \in Client : Held(c) = {} /\ Taken(c) = {} /\ InHand(c) = {}
    <3> SUFFICES ASSUME NEW c \in Client PROVE Held(c) = {} /\ Taken(c) = {} /\ InHand(c) = {}
      OBVIOUS
    <3>1. got[c] = <<>> /\ buf[c] = <<>> /\ conn[c] = "auth"
      BY DEF Init
    <3>2. DOMAIN got[c] = {} /\ DOMAIN buf[c] = {}
      BY <3>1
    <3> QED
      BY <3>1, <3>2 DEF Held, Taken, InHand
  <2>3. InboxOrdered /\ VisitsOwnUser
    BY DEF Init, InboxOrdered, VisitsOwnUser
  <2>4. HeldIsOlder /\ NoOvertaking
    BY <2>2 DEF Init, HeldIsOlder, NoOvertaking
  <2> QED
    BY <2>1, <2>3, <2>4 DEF StreamOrder, OrderInv
<1>2. StreamOrder /\ [Next]_vars => StreamOrder'
  <2> SUFFICES ASSUME StreamOrder, [Next]_vars PROVE StreamOrder'
    OBVIOUS
  <2>1. StreamTypes'
    BY StreamTypeStep DEF StreamOrder
  <2>2. Inductive'
    BY InductiveStep DEF StreamOrder
  <2>3. CASE UNCHANGED vars
    <3>1. UNCHANGED <<published, inbox, at, cur, todo, got, hand, buf, conn>>
      BY <2>3 DEF vars, subs
    <3>2. OrderInv'
      BY <3>1, StillOrdered, HeldKept, OrderFrame DEF StreamOrder, OrderInv
    <3> QED
      BY <2>1, <2>2, <3>2 DEF StreamOrder
  <2>4. CASE Next
    <3>1. OrderInv'
      BY <2>4, BroadcastOrder, DeliveryOrder DEF Next
    <3> QED
      BY <2>1, <2>2, <3>1 DEF StreamOrder
  <2> QED
    BY <2>3, <2>4
<1>3. StreamOrder => InOrder
  <2> SUFFICES ASSUME StreamOrder, NEW c \in Client, NEW i \in DOMAIN got[c], NEW j \in DOMAIN got[c]
               PROVE  /\ i < j /\ got[c][i][1] = got[c][j][1] => got[c][i][2] < got[c][j][2]
                      /\ Feed[got[c][i][1]][got[c][i][2]].user = UserOf[c]
    BY DEF InOrder
  <2>1. got[c][i] \in Held(c)
    BY DEF Held, Taken
  <2> QED
    BY <2>1 DEF StreamOrder, OrderInv, NoOvertaking, HeldIsOlder, Older
<1> QED
  BY <1>1, <1>2, <1>3, PTL DEF Spec

=============================================================================
