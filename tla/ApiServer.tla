------------------------------- MODULE ApiServer -------------------------------
(***************************************************************************)
(* The prism-api process around GET /tasks, and the web client's side of   *)
(* the call: start-up from the environment; fetchWithAccessTokenRetry,     *)
(* which asks again when the API's clock is behind the issuer's;           *)
(* UserIDFromAuthHeader and getTasks; and the bounded queue through which  *)
(* every run of the handler is logged.                                     *)
(*                                                                         *)
(* Time is in seconds of the API's clock.                                  *)
(***************************************************************************)
EXTENDS ApiConfig, Sequences, FiniteSets

CONSTANTS
    Req,          \* calls of fetchWithAccessTokenRetry for GET /tasks
    Query,        \* what a call may carry
    Env,          \* environments the process may be started in
    Cpus,         \* runtime.NumCPU()
    Half,         \* an int32 reaches from -Half to Half - 1
    MaxWorkers,   \* bound on the log workers of the environments
    Skews,        \* by how much the issuer's and the client's clocks may be ahead
    Held,         \* access tokens the client may hold from earlier
    Life,         \* lifetime of a new access token
    Margin,       \* time a token must have left for the API (a minute)
    MaxTime,      \* bound on the time that passes
    NoReq         \* not a request

Delays == <<1, 3>>     \* retryDelaysMs
Tolerance == 1         \* TOKEN_ACTIVATION_TOLERANCE_MS
MaxWait == 10          \* MAX_TOKEN_ACTIVATION_WAIT_MS

EnvVars == {"TASKS_PAGE_SIZE", "COMMAND_QUEUE_CONCURRENCY", "ENQUEUE_WORKERS", "ENQUEUE_BUFFER",
            "TASK_METRICS_LOG_WORKERS", "TASK_METRICS_LOG_QUEUE"}

ASSUME ApiAssumption ==
    /\ Query \subseteq [bearer: {"own", "foreign", "none"}, pageSize: {"none", "valid", "invalid"},
                        pageToken: {"none", "valid", "invalid"}]
    /\ Env \subseteq [EnvVars -> Var]
    /\ Cpus \in Nat \ {0}
    /\ Half \in Nat /\ Half > maxTaskPageSize
    /\ MaxWorkers \in Nat
    /\ Skews \subseteq [issuer: Int, client: Int]
    /\ Held \subseteq [iat: Int, exp: Int]
    /\ Life \in Nat /\ Life > MaxTime
    /\ Margin \in Nat /\ MaxTime \in Nat
    /\ NoReq \notin Req

\* Seen from the client, a new token lasts through the time considered; and a token held
\* from earlier is active for the API, or was issued before and lasts as well.
ASSUME TokenAssumption ==
    \A s \in Skews :
        /\ MaxTime + s.client < s.issuer + Life
        /\ \A t \in Held : t.iat <= 0 \/ (t.iat <= s.issuer /\ MaxTime + s.client < t.exp)

VARIABLES
    cfg,      \* the process: down, exited, or up with its configuration
    skew,     \* the clocks
    now,      \* time
    token,    \* the access token the Auth0 client holds
    req,      \* each call
    queue,    \* taskLogQueue: whose run each record is of
    held,     \* the record each log worker is writing
    written   \* records written, by call

vars == <<cfg, skew, now, token, req, queue, held, written>>

Down == [state |-> "down"]
NoToken == [iat |-> 0, exp |-> 0]
NoQuery == [bearer |-> "none", pageSize |-> "none", pageToken |-> "none"]
NewReq == [pc |-> "new", query |-> NoQuery, sent |-> NoToken, until |-> 0,
           inactive |-> FALSE, runs |-> 0]

Init ==
    /\ cfg = Down
    /\ skew \in Skews
    /\ now = 0
    /\ token \in Held
    /\ req = [r \in Req |-> NewReq]
    /\ queue = <<>>
    /\ held = [w \in 1..MaxWorkers |-> NoReq]
    /\ written = [r \in Req |-> 0]

Up == cfg.state = "up"

-----------------------------------------------------------------------------
\* main: a missing connection string or name, a key set that cannot be fetched, a bad page
\* size or a bad queue concurrency ends the process; a warm-up that fails does not. The
\* rest of the environment is taken as it can be.
Start(env, complete) ==
    /\ cfg = Down
    /\ cfg' = IF /\ complete
                 /\ Acceptable(env.TASKS_PAGE_SIZE)
                 /\ Acceptable(env.COMMAND_QUEUE_CONCURRENCY)
              THEN [state |-> "up",
                    env |-> env,
                    pageSize |-> ApiPageSize(env.TASKS_PAGE_SIZE, Half),
                    queueConcurrency |-> lookupPositiveInt(env.COMMAND_QUEUE_CONCURRENCY,
                                                           queueConcurrencyForCPU(Cpus)),
                    sender |-> initCommandSender(env, Cpus),
                    log |-> initTaskLogQueue(env, Cpus)]
              ELSE [state |-> "exited"]
    /\ UNCHANGED <<skew, now, token, req, queue, held, written>>

Tick ==
    /\ now < MaxTime
    /\ now' = now + 1
    /\ UNCHANGED <<cfg, skew, token, req, queue, held, written>>

-----------------------------------------------------------------------------
(***************************************************************************)
(* The web client.                                                         *)
(***************************************************************************)
Call(r) ==
    /\ Up
    /\ req[r].pc = "new"
    /\ \E q \in Query : req' = [req EXCEPT ![r].pc = "token", ![r].query = q]
    /\ UNCHANGED <<cfg, skew, now, token, queue, held, written>>

ClientNow == now + skew.client

\* getAccessTokenSilently: the token at hand while it lasts, else a new one.
CurrentToken ==
    IF token # NoToken /\ ClientNow < token.exp THEN token
    ELSE [iat |-> now + skew.issuer, exp |-> now + skew.issuer + Life]

\* getStableAccessToken: a token from the future is held back for a while.
GetStableAccessToken(r) ==
    LET ahead == CurrentToken.iat - ClientNow
        wait  == IF ahead <= 0 THEN 0
                 ELSE IF ahead + Tolerance > MaxWait THEN MaxWait ELSE ahead + Tolerance
    IN
    /\ req[r].pc = "token"
    /\ now >= req[r].until
    /\ token' = CurrentToken
    /\ req' = [req EXCEPT ![r].pc = "send", ![r].sent = CurrentToken, ![r].until = now + wait]
    /\ UNCHANGED <<cfg, skew, now, queue, held, written>>

\* Mutant: one retry too few.
Again_OneLess(r) == req[r].inactive /\ req[r].runs < Len(Delays)

\* A refusal that says that the token is not active yet is worth another attempt, as long
\* as there are delays left.
Again(r) == req[r].inactive /\ req[r].runs <= Len(Delays)

Retry(r) ==
    /\ req[r].pc = "answered" /\ Again(r)
    /\ req' = [req EXCEPT ![r].pc = "token", ![r].until = now + Delays[req[r].runs]]
    /\ UNCHANGED <<cfg, skew, now, token, queue, held, written>>

\* Any other answer is the result.
Return(r) ==
    /\ req[r].pc = "answered" /\ ~Again(r)
    /\ req' = [req EXCEPT ![r].pc = "end", ![r].query = NoQuery]
    /\ UNCHANGED <<cfg, skew, now, token, queue, held, written>>

-----------------------------------------------------------------------------
(***************************************************************************)
(* The handler.                                                            *)
(***************************************************************************)
\* UserIDFromAuthHeader: the library's own checks, then those with a minute's margin. Of
\* the refusals only "token used before issued" speaks of a token that is not active yet.
Inactive(r) == req[r].query.bearer = "own" /\ req[r].sent.iat > now
Accepted(r) ==
    /\ req[r].query.bearer = "own"
    /\ now < req[r].sent.exp
    /\ req[r].sent.iat <= now
    /\ now + Margin < req[r].sent.exp

Answer(status, stage) == [status |-> status, stage |-> stage, err |-> FALSE, inactive |-> FALSE]

\* decodeContinuationToken takes the token apart.
Decodes(r) == req[r].query.pageToken # "invalid"

\* getTasks: the answer, where storage may fail ...
Answers(r) ==
    IF ~Accepted(r) THEN {[Answer(401, "auth") EXCEPT !.inactive = Inactive(r)]}
    ELSE IF req[r].query.pageSize = "invalid" THEN {Answer(400, "invalid_page_size")}
    ELSE IF ~Decodes(r) THEN {Answer(400, "invalid_page_token")}
    ELSE {Answer(500, "storage"), Answer(200, "")}

\* ... and what comes of it: it may not get out to the client.
Outcomes(r) ==
    Answers(r) \cup
    {[o EXCEPT !.err = TRUE, !.inactive = FALSE, !.stage = IF @ = "" THEN "encode_response" ELSE @] :
        o \in Answers(r)}

\* A failure to send the answer counts although its status was fine.
severityForStatus(o) ==
    CASE o.status >= 500 \/ o.err -> "ERROR"
      [] o.status \in 400..499 /\ ~o.err -> "WARN"
      [] OTHER -> "INFO"

enqueueTaskLogEvent(r) == Len(queue) < cfg.log.buffer /\ queue' = Append(queue, r)

\* Mutant: a record is dropped when the queue is full.
Log_Drops(r) ==
    /\ queue' = IF Len(queue) < cfg.log.buffer THEN Append(queue, r) ELSE queue
    /\ UNCHANGED written

\* metrics.Log: the record goes to the queue, or is written at once when that is full.
Log(r) ==
    \/ enqueueTaskLogEvent(r) /\ UNCHANGED written
    \/ Len(queue) >= cfg.log.buffer /\ written' = [written EXCEPT ![r] = @ + 1] /\ UNCHANGED queue

\* A request reaches the API at any time after it may be sent.
GetTasks(r) ==
    /\ req[r].pc = "send"
    /\ now >= req[r].until
    /\ \E o \in Outcomes(r) :
          req' = [req EXCEPT ![r].pc = "answered", ![r].sent = NoToken, ![r].until = 0,
                              ![r].inactive = o.inactive, ![r].runs = @ + 1]
    /\ Log(r)
    /\ UNCHANGED <<cfg, skew, now, token, held>>

\* A log worker takes a record ...
TakeRecord(w) ==
    /\ Up /\ w <= cfg.log.workers
    /\ held[w] = NoReq /\ queue # <<>>
    /\ held' = [held EXCEPT ![w] = Head(queue)]
    /\ queue' = Tail(queue)
    /\ UNCHANGED <<cfg, skew, now, token, req, written>>

\* ... and writes it.
WriteRecord(w) ==
    /\ held[w] # NoReq
    /\ written' = [written EXCEPT ![held[w]] = @ + 1]
    /\ held' = [held EXCEPT ![w] = NoReq]
    /\ UNCHANGED <<cfg, skew, now, token, req, queue>>

Next ==
    \/ \E env \in Env, complete \in BOOLEAN : Start(env, complete)
    \/ \E r \in Req : \/ Call(r) \/ GetStableAccessToken(r) \/ GetTasks(r)
                     \/ Retry(r) \/ Return(r)
    \/ \E w \in 1..MaxWorkers : TakeRecord(w) \/ WriteRecord(w)
    \/ Tick

Spec == Init /\ [][Next]_vars

-----------------------------------------------------------------------------
\* The configuration of a running process is usable whatever the environment holds: the
\* sender's buffer takes a job per worker, there are workers, the log queue is not empty,
\* every page size, the requests' included, is one the table accepts, and with the one
\* TASKS_PAGE_SIZE that docker-compose.yml gives both services, prism-api and the cache
\* updater cut pages of the same size up to the limit of 1000.
ConfigWithinLimits ==
    Up => /\ cfg.sender.workers >= 1 /\ cfg.sender.buffer >= cfg.sender.workers
          /\ cfg.queueConcurrency >= 1
          /\ cfg.log.workers >= 1 /\ cfg.log.buffer >= 1
          /\ cfg.pageSize \in 1..maxTaskPageSize
          /\ \A n \in {0, 1, maxTaskPageSize, maxTaskPageSize + 1} :
                resolveTaskPageSize(n, cfg.pageSize) \in 1..maxTaskPageSize
          /\ cfg.env.TASKS_PAGE_SIZE.n <= maxTaskPageSize =>
                cfg.pageSize = UpdaterPageSize(cfg.env.TASKS_PAGE_SIZE, Half)

\* A run of the handler is logged once, not twice and not never, however full the queue
\* is: each is in the queue, with a worker, or written; and the severity it is logged
\* with tells success from failure, also when the status was sent before the failure.
LoggedOnce ==
    \A r \in Req :
        /\ req[r].runs = written[r] + Cardinality({i \in DOMAIN queue : queue[i] = r})
                                    + Cardinality({w \in DOMAIN held : held[w] = r})
        /\ \A o \in Outcomes(r) : severityForStatus(o) = "INFO" <=> o.stage = ""

\* The two retries bridge a gap of four seconds between the issuer's clock and the API's:
\* no call ends because its token was "used before issued", whatever the client's clock
\* says (short of outdating a new token at once) and however late its requests arrive.
SkewIsBridged ==
    skew.issuer <= 4 => \A r \in Req : req[r].pc = "end" => ~req[r].inactive

=============================================================================
