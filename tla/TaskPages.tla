------------------------------- MODULE TaskPages -------------------------------
(***************************************************************************)
(* The way of a user's tasks from the read model to the screen. After each *)
(* event read-model-updater lists the first pages of the task table and    *)
(* stores them in Redis with their continuation tokens; prism-api answers  *)
(* GET /tasks from that entry or from the table; the web client walks the  *)
(* pages once a minute and replaces its board by what it collected, and    *)
(* merges the updates of the stream into the board in between. Refreshes   *)
(* may cross, the entry may change between two pages of a walk, and walks  *)
(* may overlap.                                                            *)
(*                                                                         *)
(* A task is its row key, a number; a row is the version its last write    *)
(* gave it, 0 when there is none. Rows are never deleted. A continuation   *)
(* token is the key of the first row not returned, 0 for no token.         *)
(***************************************************************************)
EXTENDS Integers, Sequences, FiniteSets

CONSTANTS
    Task,          \* row keys
    Existing,      \* rows that are there from the beginning
    Event,         \* the events the projection applies
    TaskOf,        \* the task of each event
    Creations,     \* the events that create their task; the others set some of its fields
    Ordered,       \* the events that carry the task's order: creations, and some updates
    TasksPerPage,  \* TASKS_PAGE_SIZE of read-model-updater
    CachedPages,   \* NUM_CACHED_PAGES of read-model-updater
    TaskPageSize,  \* TASKS_PAGE_SIZE of prism-api
    Poll,          \* calls of fetchRemote that may overlap
    MaxFaults      \* bound on the number of failed calls in a behaviour

ASSUME PagesAssumption ==
    /\ Task \subseteq Nat \ {0}
    /\ IsFiniteSet(Task)
    /\ Existing \subseteq Task
    /\ TaskOf \in [Event -> Task]
    /\ Creations \subseteq Ordered /\ Ordered \subseteq Event
    /\ TasksPerPage \in Nat \ {0}
    /\ CachedPages \in Nat \ {0}
    /\ TaskPageSize \in 1..1000
    /\ MaxFaults \in Nat

VARIABLES
    row,      \* the task table
    refresh,  \* each event's handler: RefreshTasks and the publication after it
    entry,    \* the user's tasks entry in Redis
    walk,     \* each call of fetchRemote
    board,    \* the tasks of the web client's state
    faults    \* failed calls so far

vars == <<row, refresh, entry, walk, board, faults>>

NoEntry == [tasks |-> <<>>, pageSize |-> 0, cachedPages |-> 0, pageTokens |-> <<>>, next |-> 0]
NotApplied == [pc |-> "todo", version |-> 0, page |-> 0, from |-> 0,
               tasks |-> <<>>, tokens |-> <<>>]
NoWalk == [pc |-> "idle", token |-> 0, aggregated |-> <<>>, seen |-> {}]
NoTask == [version |-> 0, order |-> "none"]

Init ==
    /\ row = [t \in Task |-> IF t \in Existing THEN 1 ELSE 0]
    /\ refresh = [e \in Event |-> NotApplied]
    /\ entry = NoEntry
    /\ walk = [w \in Poll |-> NoWalk]
    /\ board = [t \in Task |-> NoTask]
    /\ faults = 0

-----------------------------------------------------------------------------
(***************************************************************************)
(* The table. A query returns the first rows from a token on, at most the  *)
(* limit and possibly fewer, and a token as long as rows remain.           *)
(***************************************************************************)
Rest(from) == {t \in Task : row[t] > 0 /\ t >= from}
Before(S, t) == Cardinality({u \in S : u < t})
First(S) == CHOOSE t \in S : \A u \in S : t <= u

\* The token of the rows that are left: none when no row is.
encodeContinuationToken(S) == IF S = {} THEN 0 ELSE First(S)

Rows(S) == [i \in 1..Cardinality(S) |->
              LET t == CHOOSE t \in S : Before(S, t) = i - 1 IN [id |-> t, version |-> row[t]]]

TablePages(from, limit) ==
    LET rest == Rest(from) IN
    {[tasks |-> Rows(S), next |-> encodeContinuationToken(rest \ S)] :
        S \in {{t \in rest : Before(rest, t) < n} : n \in 1..limit}}

-----------------------------------------------------------------------------
(***************************************************************************)
(* read-model-updater.                                                     *)
(***************************************************************************)
\* Apply writes the row; the refresh that follows begins at the first page.
Apply(e) ==
    LET t == TaskOf[e] IN
    /\ refresh[e].pc = "todo"
    /\ row[t] = 0 <=> e \in Creations
    /\ row' = [row EXCEPT ![t] = @ + 1]
    /\ refresh' = [refresh EXCEPT ![e].pc = "list", ![e].version = row[t] + 1]
    /\ UNCHANGED <<entry, walk, board, faults>>

\* Mutant: the continuation of the last page is not stored.
Payload_NoNextToken(r, next) ==
    LET pages == (Len(r.tasks) + TasksPerPage - 1) \div TasksPerPage IN
    [tasks |-> r.tasks, pageSize |-> TasksPerPage, pageTokens |-> r.tokens, next |-> 0,
     cachedPages |-> IF pages > CachedPages THEN CachedPages ELSE pages]

\* What is stored once the last page is listed.
Payload(r, next) ==
    LET pages == (Len(r.tasks) + TasksPerPage - 1) \div TasksPerPage IN
    [tasks |-> r.tasks, pageSize |-> TasksPerPage, pageTokens |-> r.tokens, next |-> next,
     cachedPages |-> IF pages > CachedPages THEN CachedPages ELSE pages]

Found(e, tasks) == \E i \in DOMAIN tasks : tasks[i].id = TaskOf[e]

\* One page of RefreshTasks. A short or last page, or the last page to be cached, ends the
\* listing, and the entry is stored, or deleted when the event's task is not on it.
RefreshTasks(e) ==
    /\ refresh[e].pc = "list"
    /\ \E p \in TablePages(refresh[e].from, TasksPerPage) :
          LET full == Len(p.tasks) = TasksPerPage /\ p.next # 0
              more == full /\ refresh[e].page < CachedPages - 1
              r    == [refresh[e] EXCEPT
                         !.pc = IF more THEN "list" ELSE "store",
                         !.page = @ + 1, !.from = p.next,
                         !.tasks = @ \o p.tasks,
                         !.tokens = IF more THEN Append(@, p.next) ELSE @]
          IN refresh' = [refresh EXCEPT ![e] = r]
    /\ UNCHANGED <<row, entry, walk, board, faults>>

Refreshed(e) ==
    refresh' = [refresh EXCEPT ![e] =
                  [NotApplied EXCEPT !.pc = "publish", !.version = refresh[e].version]]

\* The call of Redis at the end of RefreshTasks.
StoreEntry(e) ==
    LET r == refresh[e] IN
    /\ r.pc = "store"
    /\ entry' = IF Found(e, r.tasks) THEN Payload(r, r.from) ELSE NoEntry
    /\ Refreshed(e)
    /\ UNCHANGED <<row, walk, board, faults>>

\* Mutant: the entry never expires.
Expire_Never == FALSE /\ UNCHANGED vars

\* Redis drops the entry when its time to live has passed.
Expire ==
    /\ entry # NoEntry
    /\ entry' = NoEntry
    /\ UNCHANGED <<row, refresh, walk, board, faults>>

\* The event goes to stream-service once the refresh is over.
Publish(e) ==
    /\ refresh[e].pc = "publish"
    /\ refresh' = [refresh EXCEPT ![e].pc = "streamed"]
    /\ UNCHANGED <<row, entry, walk, board, faults>>

-----------------------------------------------------------------------------
(***************************************************************************)
(* prism-api: FetchTasks. A request looks in Redis first; what is not      *)
(* there is asked of the table in a second step.                           *)
(***************************************************************************)
Positions(token) == {i \in 1..Len(entry.pageTokens) : entry.pageTokens[i] = token}
Known(token) == token = 0 \/ Positions(token) # {}

\* Mutant: the token that follows a page finds that page again.
PageIndex_OffByOne(token) == IF token = 0 THEN 0 ELSE First(Positions(token)) - 1

\* Pages count from 0, and the first token is the one of page 1.
PageIndex(token) == IF token = 0 THEN 0 ELSE First(Positions(token))

CacheHit(token) ==
    /\ entry.tasks # <<>>
    /\ entry.pageSize = TaskPageSize
    /\ Known(token)
    /\ PageIndex(token) < entry.cachedPages
    /\ PageIndex(token) * TaskPageSize < Len(entry.tasks)

\* Mutant: the walk goes on behind the whole entry.
NextToken_AlwaysLast(token) == entry.next

NextToken(token) ==
    IF PageIndex(token) < Len(entry.pageTokens)
    THEN entry.pageTokens[PageIndex(token) + 1] ELSE entry.next

CachedPage(token) ==
    LET start == PageIndex(token) * TaskPageSize
        end   == IF start + TaskPageSize > Len(entry.tasks)
                 THEN Len(entry.tasks) ELSE start + TaskPageSize
    IN [tasks |-> SubSeq(entry.tasks, start + 1, end), next |-> NextToken(token)]

-----------------------------------------------------------------------------
(***************************************************************************)
(* The web client.                                                         *)
(***************************************************************************)
\* fetchRemote is called when the page opens and every minute, whether or not the last
\* call is over.
StartPoll(w) ==
    /\ walk[w].pc = "idle"
    /\ walk' = [walk EXCEPT ![w].pc = "get"]
    /\ UNCHANGED <<row, refresh, entry, board, faults>>

\* A page is collected; the walk ends without a token or with one it has seen.
Collect(w, p) ==
    LET end == p.next = 0 \/ p.next \in walk[w].seen IN
    walk' = [walk EXCEPT ![w] =
               [pc |-> IF end THEN "done" ELSE "get",
                token |-> IF end THEN 0 ELSE p.next,
                aggregated |-> @.aggregated \o p.tasks,
                seen |-> IF end THEN {} ELSE @.seen \cup {p.next}]]

\* fetchTasksFromCache.
FetchFromCache(w) ==
    /\ walk[w].pc = "get"
    /\ IF CacheHit(walk[w].token)
       THEN Collect(w, CachedPage(walk[w].token))
       ELSE walk' = [walk EXCEPT ![w].pc = "query"]
    /\ UNCHANGED <<row, refresh, entry, board, faults>>

FetchFromTable(w) ==
    /\ walk[w].pc = "query"
    /\ \E p \in TablePages(walk[w].token, TaskPageSize) : Collect(w, p)
    /\ UNCHANGED <<row, refresh, entry, board, faults>>

\* set-tasks: the board becomes what the walk collected.
SetTasks(w) ==
    /\ walk[w].pc \in {"done", "cut"}
    /\ board' = [t \in Task |->
                   LET at == {i \in DOMAIN walk[w].aggregated : walk[w].aggregated[i].id = t}
                   IN IF at = {} THEN NoTask
                      ELSE [version |-> walk[w].aggregated[First(at)].version, order |-> "own"]]
    /\ walk' = [walk EXCEPT ![w] = NoWalk]
    /\ UNCHANGED <<row, refresh, entry, faults>>

\* merge-tasks: the fields of a streamed update go over those on the board. An event
\* without an order is streamed with order 0.
MergeTasks(e) ==
    /\ refresh[e].pc = "streamed"
    /\ board' = [board EXCEPT ![TaskOf[e]] =
                   [version |-> refresh[e].version,
                    order |-> IF e \in Ordered THEN "own" ELSE "zero"]]
    /\ refresh' = [refresh EXCEPT ![e] = [NotApplied EXCEPT !.pc = "end"]]
    /\ UNCHANGED <<row, entry, walk, faults>>

-----------------------------------------------------------------------------
Fault == faults < MaxFaults /\ faults' = faults + 1

\* A listing or the call of Redis fails: logged, the entry stays as it is.
RefreshFails(e) ==
    /\ refresh[e].pc \in {"list", "store"}
    /\ Fault
    /\ Refreshed(e)
    /\ UNCHANGED <<row, entry, walk, board>>

\* No client is connected to the stream, or the publication fails.
UpdateLost(e) ==
    /\ refresh[e].pc \in {"publish", "streamed"}
    /\ Fault
    /\ refresh' = [refresh EXCEPT ![e] = [NotApplied EXCEPT !.pc = "end"]]
    /\ UNCHANGED <<row, entry, walk, board>>

\* The look-up in Redis fails and the table is asked.
LookupFails(w) ==
    /\ walk[w].pc = "get"
    /\ Fault
    /\ walk' = [walk EXCEPT ![w].pc = "query"]
    /\ UNCHANGED <<row, refresh, entry, board>>

\* The answer is not ok: the walk ends with what it has. Or none comes: nothing is set.
RequestFails(w) ==
    /\ walk[w].pc \in {"get", "query"}
    /\ Fault
    /\ \/ walk' = [walk EXCEPT ![w].pc = "cut", ![w].token = 0, ![w].seen = {}]
       \/ walk' = [walk EXCEPT ![w] = NoWalk]
    /\ UNCHANGED <<row, refresh, entry, board>>

HandleEvent(e) == Apply(e) \/ RefreshTasks(e) \/ StoreEntry(e) \/ Publish(e) \/ MergeTasks(e)
Walk(w) == StartPoll(w) \/ FetchFromCache(w) \/ FetchFromTable(w) \/ SetTasks(w)

Next ==
    \/ \E e \in Event : HandleEvent(e) \/ RefreshFails(e) \/ UpdateLost(e)
    \/ \E w \in Poll : Walk(w) \/ LookupFails(w) \/ RequestFails(w)
    \/ Expire

Spec == Init /\ [][Next]_vars

\* The hosts keep running, the client keeps polling, and Redis drops entries in the end.
FairSpec ==
    /\ Spec
    /\ \A e \in Event : WF_vars(HandleEvent(e))
    /\ \A w \in Poll : WF_vars(Walk(w))
    /\ WF_vars(Expire)

-----------------------------------------------------------------------------
Listing == Seq([id: Task, version: Nat])
Token == Task \cup {0}

\* Every variable is within its type.
TypeOK ==
    /\ row \in [Task -> Nat]
    /\ refresh \in [Event -> [pc: {"todo", "list", "store", "publish", "streamed", "end"},
                              version: Nat, page: 0..CachedPages, from: Token,
                              tasks: Listing, tokens: Seq(Task)]]
    /\ entry \in [tasks: Listing, pageSize: Nat, cachedPages: Nat,
                  pageTokens: Seq(Task), next: Token]
    /\ walk \in [Poll -> [pc: {"idle", "get", "query", "done", "cut"}, token: Token,
                          aggregated: Listing, seen: SUBSET Task]]
    /\ board \in [Task -> [version: Nat, order: {"none", "own", "zero"}]]
    /\ faults \in 0..MaxFaults

Ascending(tasks) == \A i, j \in DOMAIN tasks : i < j => tasks[i].id < tasks[j].id
Has(tasks, t) == \E i \in DOMAIN tasks : tasks[i].id = t

\* A listing from the first row on can be cut into pages by counting: the token of page i
\* separates the first i pages of tasks from the rest, whatever was inserted while they
\* were listed, and a row the listing does not hold lies behind its last token.
CutsIntoPages(tasks, tokens, next) ==
    /\ Ascending(tasks)
    /\ \A i \in DOMAIN tokens : \A j \in DOMAIN tasks :
          tasks[j].id < tokens[i] <=> j <= i * TasksPerPage
    /\ Len(tasks) <= (Len(tokens) + 1) * TasksPerPage
    /\ next # 0 => /\ \A j \in DOMAIN tasks : tasks[j].id < next
                   /\ \A i \in DOMAIN tokens : tokens[i] <= next
    /\ \A t \in Existing : Has(tasks, t) \/ (next # 0 /\ t >= next)

\* So can the entry in Redis ...
EntryCutsIntoPages ==
    entry # NoEntry =>
        /\ entry.pageSize = TasksPerPage
        /\ CutsIntoPages(entry.tasks, entry.pageTokens, entry.next)

\* ... because what a refresh has listed always can, and is full pages until it is stored.
RefreshCutsIntoPages ==
    \A e \in Event : LET r == refresh[e] IN
        /\ r.pc = "todo" => r = NotApplied
        /\ r.pc = "store" => CutsIntoPages(r.tasks, r.tokens, r.from)
        /\ r.pc = "list" =>
              /\ r.page < CachedPages
              /\ Len(r.tokens) = r.page /\ Len(r.tasks) = r.page * TasksPerPage
              /\ IF r.page = 0 THEN r.from = 0
                 ELSE r.from # 0 /\ CutsIntoPages(r.tasks, r.tokens, r.from)

\* A walk through the pages never collects a task twice, although its pages come from the
\* entry, from another entry that replaced it, and from the table.
NoTaskTwice == \A w \in Poll : Ascending(walk[w].aggregated)

\* A walk whose requests all succeed ends with every task that was there all along: no
\* mixture of entries and table pages, and no repeated token, loses one.
NoTaskSkipped ==
    \A w \in Poll : walk[w].pc = "done" =>
        \A t \in Existing : Has(walk[w].aggregated, t)

\* A walk under way has collected, of the tasks that were there all along, those before its
\* token, and nothing behind it; the tokens it has seen are not behind it either.
WalkUpToToken ==
    \A w \in Poll : LET k == walk[w] IN
        /\ k.pc = "idle" => k = NoWalk
        /\ k.pc \in {"get", "query"} /\ k.token = 0 => k.aggregated = <<>> /\ k.seen = {}
        /\ k.pc \in {"get", "query"} /\ k.token # 0 =>
              /\ \A i \in DOMAIN k.aggregated : k.aggregated[i].id < k.token
              /\ \A s \in k.seen : s <= k.token
              /\ \A t \in Existing : t < k.token => Has(k.aggregated, t)

\* The inductive invariant: rows stay, listings can be cut into pages, and walks know
\* every row before their token.
PagesInv ==
    /\ TypeOK
    /\ \A t \in Existing : row[t] > 0
    /\ EntryCutsIntoPages
    /\ RefreshCutsIntoPages
    /\ WalkUpToToken
    /\ NoTaskTwice
    /\ NoTaskSkipped

Current == [t \in Task |-> IF row[t] = 0 THEN NoTask ELSE [version |-> row[t], order |-> "own"]]

\* Once events stop, the board shows the read model in the end and for good, however the
\* refreshes crossed, whichever failed, and whatever the stream put on the board before.
BoardCatchesUp == <>[](board = Current)

=============================================================================
