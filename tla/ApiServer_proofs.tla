--------------------------- MODULE ApiServer_proofs ---------------------------
(***************************************************************************)
(* For any environment, any number of processors, calls and log workers:   *)
(* the configuration of a running prism-api is within its limits; the      *)
(* client's retries bridge a gap of four seconds between the clocks; and   *)
(* every run of getTasks is logged once.                                   *)
(***************************************************************************)
EXTENDS ApiServer, FiniteSetTheorems, TLAPS

\* A looked-up number is positive when its fallback is.
LEMMA LookupPositive ==
    ASSUME NEW v \in Var, NEW fallback \in Nat \ {0}
    PROVE  lookupPositiveInt(v, fallback) \in Nat \ {0}
BY DEF lookupPositiveInt, Var

\* Numbers that fit are kept by the conversion to an int32, and it makes integers.
LEMMA Int32Fits ==
    ASSUME NEW n \in Int
    PROVE  /\ Int32(n, Half) \in Int
           /\ n \in 0..(Half - 1) => Int32(n, Half) = n
<1>1. Half \in Nat \ {0} /\ n + Half \in Int /\ 2 * Half \in Nat \ {0}
  BY ApiAssumption DEF maxTaskPageSize
<1>2. (n + Half) % (2 * Half) \in Int
  BY <1>1
<1>3. ASSUME n \in 0..(Half - 1) PROVE (n + Half) % (2 * Half) = n + Half
  <2>1. n + Half \in 0..(2 * Half - 1)
    BY <1>1, <1>3
  <2>2. \A a \in Int, b \in Nat \ {0} : a \in 0..(b - 1) => a % b = a
    OBVIOUS
  <2>3. QED
    BY <1>1, <2>1, <2>2
<1>4. QED
  BY <1>1, <1>2, <1>3 DEF Int32

\* The command sender has workers and a buffer that takes a job for each.
LEMMA SenderLimits ==
    ASSUME NEW env \in [EnvVars -> Var]
    PROVE  /\ initCommandSender(env, Cpus).workers \in Nat \ {0}
           /\ initCommandSender(env, Cpus).buffer \in Nat
           /\ initCommandSender(env, Cpus).buffer >= initCommandSender(env, Cpus).workers
<1> DEFINE q == deriveQueueConcurrency(env)
           auto == computeWorkerDefaults(q, Cpus)
<1>1. /\ env.COMMAND_QUEUE_CONCURRENCY \in Var /\ env.ENQUEUE_WORKERS \in Var
      /\ env.ENQUEUE_BUFFER \in Var
  BY DEF EnvVars
<1>2. q \in Nat \ {0}
  BY <1>1, LookupPositive DEF deriveQueueConcurrency
<1>3. auto.workers \in Nat \ {0} /\ auto.buffer \in Nat \ {0}
  BY <1>2, ApiAssumption DEF computeWorkerDefaults, Clamp
<1>4. /\ lookupPositiveInt(env.ENQUEUE_WORKERS, auto.workers) \in Nat \ {0}
      /\ lookupPositiveInt(env.ENQUEUE_BUFFER, auto.buffer) \in Nat \ {0}
  BY <1>1, <1>3, LookupPositive
<1> HIDE DEF auto, q
<1>5. QED
  BY <1>4 DEF initCommandSender, auto, q

\* The log queue has workers and room.
LEMMA LogLimits ==
    ASSUME NEW env \in [EnvVars -> Var]
    PROVE  /\ initTaskLogQueue(env, Cpus).workers >= 1
           /\ initTaskLogQueue(env, Cpus).buffer >= 1
<1>1. env.TASK_METRICS_LOG_WORKERS \in Var /\ env.TASK_METRICS_LOG_QUEUE \in Var
  BY DEF EnvVars
<1>2. lookupPositiveInt(env.TASK_METRICS_LOG_WORKERS, Cpus) \in Nat \ {0}
  BY <1>1, LookupPositive, ApiAssumption
<1> DEFINE w == lookupPositiveInt(env.TASK_METRICS_LOG_WORKERS, Cpus)
<1>3. lookupPositiveInt(env.TASK_METRICS_LOG_QUEUE, w * 1024) \in Nat \ {0}
  BY <1>1, <1>2, LookupPositive
<1>4. QED
  BY <1>2, <1>3 DEF initTaskLogQueue

\* Both services take a page size the table accepts, the same one up to the limit.
LEMMA PageSizes ==
    ASSUME NEW v \in Var, Acceptable(v)
    PROVE  /\ ApiPageSize(v, Half) \in 1..maxTaskPageSize
           /\ v.n <= maxTaskPageSize => ApiPageSize(v, Half) = UpdaterPageSize(v, Half)
<1> DEFINE n == lookupPositiveInt(v, 10)
<1>1. n \in Nat \ {0}
  BY LookupPositive
<1>2. Int32(n, Half) \in Int
  BY <1>1, Int32Fits
<1>3. ApiPageSize(v, Half) \in 1..maxTaskPageSize
  BY <1>2 DEF ApiPageSize, Clamp, maxTaskPageSize
<1>4. ASSUME v.n <= maxTaskPageSize
      PROVE  ApiPageSize(v, Half) = UpdaterPageSize(v, Half)
  <2>1. n \in 1..maxTaskPageSize
    BY <1>1, <1>4 DEF Acceptable, lookupPositiveInt, maxTaskPageSize, Var
  <2>2. n \in 0..(Half - 1)
    BY <2>1, ApiAssumption DEF maxTaskPageSize
  <2>3. Int32(n, Half) = n
    BY <2>1, <2>2, Int32Fits
  <2>4. QED
    BY <2>1, <2>3 DEF ApiPageSize, UpdaterPageSize, Clamp, maxTaskPageSize
<1>5. QED
  BY <1>3, <1>4

\* A process that comes up is configured within its limits.
LEMMA StartWithinLimits ==
    ASSUME NEW env \in Env, NEW complete \in BOOLEAN, Start(env, complete)
    PROVE  ConfigWithinLimits'
<1>1. SUFFICES ASSUME Acceptable(env.TASKS_PAGE_SIZE), Acceptable(env.COMMAND_QUEUE_CONCURRENCY),
                      complete
               PROVE  ConfigWithinLimits'
  <2>1. ASSUME ~(/\ complete
                 /\ Acceptable(env.TASKS_PAGE_SIZE)
                 /\ Acceptable(env.COMMAND_QUEUE_CONCURRENCY))
        PROVE  ConfigWithinLimits'
    <3>1. cfg' = [state |-> "exited"]
      BY <2>1 DEF Start
    <3>2. QED
      BY <3>1 DEF ConfigWithinLimits, Up
  <2>2. QED
    BY <2>1
<1>2. /\ env \in [EnvVars -> Var] /\ env.TASKS_PAGE_SIZE \in Var
      /\ env.COMMAND_QUEUE_CONCURRENCY \in Var
  BY ApiAssumption DEF EnvVars
<1> DEFINE conf == [state |-> "up",
                    env |-> env,
                    pageSize |-> ApiPageSize(env.TASKS_PAGE_SIZE, Half),
                    queueConcurrency |-> lookupPositiveInt(env.COMMAND_QUEUE_CONCURRENCY,
                                                           queueConcurrencyForCPU(Cpus)),
                    sender |-> initCommandSender(env, Cpus),
                    log |-> initTaskLogQueue(env, Cpus)]
<1>3. cfg' = conf
  BY <1>1 DEF Start
<1>4. queueConcurrencyForCPU(Cpus) \in Nat \ {0}
  BY ApiAssumption DEF queueConcurrencyForCPU, Clamp
<1>5. lookupPositiveInt(env.COMMAND_QUEUE_CONCURRENCY, queueConcurrencyForCPU(Cpus)) \in Nat \ {0}
  BY <1>2, <1>4, LookupPositive
<1>6. \A n \in Int : resolveTaskPageSize(n, ApiPageSize(env.TASKS_PAGE_SIZE, Half)) \in 1..maxTaskPageSize
  <2>1. ApiPageSize(env.TASKS_PAGE_SIZE, Half) \in Int
    BY <1>1, <1>2, PageSizes DEF maxTaskPageSize
  <2>2. QED
    BY <2>1 DEF resolveTaskPageSize, Clamp, maxTaskPageSize
<1>7. QED
  BY <1>1, <1>2, <1>3, <1>5, <1>6, SenderLimits, LogLimits, PageSizes
     DEF ConfigWithinLimits, maxTaskPageSize

\* Whatever the environment holds, a prism-api that runs has command workers and a buffer
\* for them, a usable log queue, and page sizes that the table accepts and that agree with
\* the cache updater's.
THEOREM ConfigurationIsUsable == Spec => []ConfigWithinLimits
<1>1. Init => ConfigWithinLimits
  BY DEF Init, Down, ConfigWithinLimits, Up
<1>2. ConfigWithinLimits /\ [Next]_vars => ConfigWithinLimits'
  <2> SUFFICES ASSUME ConfigWithinLimits, [Next]_vars PROVE ConfigWithinLimits'
    OBVIOUS
  <2>1. CASE \E env \in Env, complete \in BOOLEAN : Start(env, complete)
    BY <2>1, StartWithinLimits
  <2>2. CASE cfg' = cfg
    BY <2>2 DEF ConfigWithinLimits, Up
  <2>3. (\E env \in Env, complete \in BOOLEAN : Start(env, complete)) \/ cfg' = cfg
    BY DEF Next, vars, Tick, Call, GetStableAccessToken, GetTasks, Retry, Return, TakeRecord,
           WriteRecord
  <2>4. QED
    BY <2>1, <2>2, <2>3
<1>3. QED
  BY <1>1, <1>2, PTL DEF Spec

-----------------------------------------------------------------------------
Token == [iat: Int, exp: Int]
ReqType == [pc: {"new", "token", "send", "answered", "end"}, query: Query \cup {NoQuery},
            sent: Token, until: Int, inactive: BOOLEAN, runs: Nat]

\* The types of what the calls and the log keep.
ApiTypes ==
    /\ skew \in Skews /\ now \in 0..MaxTime /\ token \in Token
    /\ req \in [Req -> ReqType]
    /\ queue \in Seq(Req)
    /\ held \in [1..MaxWorkers -> Req \cup {NoReq}]
    /\ written \in [Req -> Nat]

\* The token a call gets is one.
LEMMA CurrentTokenType == ApiTypes => CurrentToken \in Token /\ skew.issuer \in Int /\ skew.client \in Int
<1> SUFFICES ASSUME ApiTypes PROVE CurrentToken \in Token /\ skew.issuer \in Int /\ skew.client \in Int
  OBVIOUS
<1>1. skew.issuer \in Int /\ skew.client \in Int /\ now \in Int /\ Life \in Int
  BY ApiAssumption DEF ApiTypes
<1> QED
  BY <1>1 DEF CurrentToken, ApiTypes, Token

\* What an answer says: its status, whether the token was too new, and a severity that
\* tells success from failure.
LEMMA OutcomeFacts ==
  ASSUME NEW r \in Req, NEW o \in Outcomes(r)
  PROVE  /\ o.inactive \in BOOLEAN /\ (o.inactive => Inactive(r))
         /\ severityForStatus(o) = "INFO" <=> o.stage = ""
<1> DEFINE Fine(a) == /\ a = [status |-> a.status, stage |-> a.stage, err |-> a.err,
                              inactive |-> a.inactive]
                      /\ a.err = FALSE
                      /\ a.status \in {200, 400, 401, 500}
                      /\ (a.stage = "") = (a.status = 200)
                      /\ a.inactive = FALSE \/ (a.inactive = TRUE /\ Inactive(r))
<1>1. Inactive(r) \in BOOLEAN
  BY DEF Inactive
<1>2. ASSUME NEW a \in Answers(r) PROVE Fine(a)
  <2>1. CASE a = [Answer(401, "auth") EXCEPT !.inactive = Inactive(r)]
    <3>1. a = [status |-> 401, stage |-> "auth", err |-> FALSE, inactive |-> Inactive(r)]
      BY <2>1 DEF Answer
    <3>2. CASE Inactive(r) = TRUE
      BY <3>1, <3>2
    <3>3. CASE Inactive(r) = FALSE
      BY <3>1, <3>3
    <3> QED
      BY <1>1, <3>2, <3>3, Zenon
  <2>2. CASE a = Answer(400, "invalid_page_size")
    BY <2>2 DEF Answer
  <2>3. CASE a = Answer(400, "invalid_page_token")
    BY <2>3 DEF Answer
  <2>4. CASE a = Answer(500, "storage")
    BY <2>4 DEF Answer
  <2>5. CASE a = Answer(200, "")
    BY <2>5 DEF Answer
  <2> HIDE DEF Fine
  <2>6. \/ a = [Answer(401, "auth") EXCEPT !.inactive = Inactive(r)]
        \/ a = Answer(400, "invalid_page_size") \/ a = Answer(400, "invalid_page_token")
        \/ a = Answer(500, "storage") \/ a = Answer(200, "")
    BY Zenon DEF Answers
  <2> QED
    BY <2>1, <2>2, <2>3, <2>4, <2>5, <2>6
<1> HIDE DEF Fine
<1>3. CASE o \in Answers(r)
  <2>1. Fine(o)
    BY <1>2, <1>3
  <2>2. o.status \in {200, 400, 401, 500} /\ o.err = FALSE /\ o.inactive \in BOOLEAN
    BY <2>1 DEF Fine
  <2>3. severityForStatus(o) = IF o.status = 200 THEN "INFO"
                               ELSE IF o.status = 500 THEN "ERROR" ELSE "WARN"
    BY <2>2 DEF severityForStatus
  <2>4. severityForStatus(o) = "INFO" <=> o.status = 200
    BY <2>3
  <2> QED
    BY <2>1, <2>2, <2>4 DEF Fine
<1>4. ASSUME NEW a \in Answers(r),
             o = [a EXCEPT !.err = TRUE, !.inactive = FALSE,
                           !.stage = IF @ = "" THEN "encode_response" ELSE @]
      PROVE  /\ o.inactive = FALSE
             /\ severityForStatus(o) = "INFO" <=> o.stage = ""
  <2>1. Fine(a)
    BY <1>2
  <2>2. o.inactive = FALSE /\ o.err = TRUE /\ o.stage # "" /\ o.status \in {200, 400, 401, 500}
    BY <1>4, <2>1 DEF Fine
  <2>3. severityForStatus(o) = "ERROR"
    BY <2>2 DEF severityForStatus
  <2> QED
    BY <2>2, <2>3
<1>5. \/ o \in Answers(r)
      \/ \E a \in Answers(r) :
             o = [a EXCEPT !.err = TRUE, !.inactive = FALSE,
                           !.stage = IF @ = "" THEN "encode_response" ELSE @]
  BY DEF Outcomes
<1> QED
  BY <1>3, <1>4, <1>5

\* How a call's step changes the record of the call.
LEMMA CallSteps ==
  ASSUME ApiTypes, NEW r \in Req
  PROVE  /\ Call(r) => \E q \in Query :
               req' = [req EXCEPT ![r] = [req[r] EXCEPT !.pc = "token", !.query = q]]
         /\ GetStableAccessToken(r) => \E wait \in Nat :
               req' = [req EXCEPT ![r] = [req[r] EXCEPT !.pc = "send", !.sent = CurrentToken,
                                                        !.until = now + wait]]
         /\ Retry(r) =>
               req' = [req EXCEPT ![r] = [req[r] EXCEPT !.pc = "token",
                                                        !.until = now + Delays[req[r].runs]]]
         /\ Return(r) => req' = [req EXCEPT ![r] = [req[r] EXCEPT !.pc = "end", !.query = NoQuery]]
         /\ GetTasks(r) => \E o \in Outcomes(r) :
               req' = [req EXCEPT ![r] = [req[r] EXCEPT !.pc = "answered", !.sent = NoToken,
                           !.until = 0, !.inactive = o.inactive, !.runs = req[r].runs + 1]]
<1>type. req \in [Req -> ReqType] /\ req[r] \in ReqType
  BY DEF ApiTypes
<1>1. ASSUME Call(r) PROVE \E q \in Query :
               req' = [req EXCEPT ![r] = [req[r] EXCEPT !.pc = "token", !.query = q]]
  BY <1>1, <1>type DEF Call, ReqType
<1>2. ASSUME GetStableAccessToken(r)
      PROVE  \E wait \in Nat :
               req' = [req EXCEPT ![r] = [req[r] EXCEPT !.pc = "send", !.sent = CurrentToken,
                                                        !.until = now + wait]]
  <2> DEFINE ahead == CurrentToken.iat - ClientNow
             wait  == IF ahead <= 0 THEN 0
                      ELSE IF ahead + Tolerance > MaxWait THEN MaxWait ELSE ahead + Tolerance
  <2>1. wait \in Nat
    <3>1. CurrentToken.iat \in Int /\ ClientNow \in Int
      BY CurrentTokenType DEF Token, ClientNow, ApiTypes
    <3> QED
      BY <3>1 DEF Tolerance, MaxWait
  <2>2. req' = [req EXCEPT ![r].pc = "send", ![r].sent = CurrentToken, ![r].until = now + wait]
    BY <1>2 DEF GetStableAccessToken
  <2> HIDE DEF wait
  <2> QED
    BY <2>1, <2>2, <1>type DEF ReqType
<1>3. ASSUME Retry(r)
      PROVE  req' = [req EXCEPT ![r] = [req[r] EXCEPT !.pc = "token",
                                                      !.until = now + Delays[req[r].runs]]]
  BY <1>3, <1>type DEF Retry, ReqType
<1>4. ASSUME Return(r)
      PROVE  req' = [req EXCEPT ![r] = [req[r] EXCEPT !.pc = "end", !.query = NoQuery]]
  BY <1>4, <1>type DEF Return, ReqType
<1>5. ASSUME GetTasks(r)
      PROVE  \E o \in Outcomes(r) :
               req' = [req EXCEPT ![r] = [req[r] EXCEPT !.pc = "answered", !.sent = NoToken,
                           !.until = 0, !.inactive = o.inactive, !.runs = req[r].runs + 1]]
  <2>1. PICK o \in Outcomes(r) :
          req' = [req EXCEPT ![r].pc = "answered", ![r].sent = NoToken, ![r].until = 0,
                              ![r].inactive = o.inactive, ![r].runs = @ + 1]
    BY <1>5 DEF GetTasks
  <2>2. req' = [req EXCEPT ![r] = [req[r] EXCEPT !.pc = "answered", !.sent = NoToken,
                           !.until = 0, !.inactive = o.inactive, !.runs = req[r].runs + 1]]
    BY <2>1, <1>type DEF ReqType
  <2> QED
    BY <2>2
<1> QED
  BY <1>1, <1>2, <1>3, <1>4, <1>5

-----------------------------------------------------------------------------
\* The token at hand is good for as long as we look: the client asks for no other.
Lasts == token # NoToken /\ MaxTime + skew.client < token.exp

\* The time a call has waited before its retries, by how often it was answered.
Waited(n) == CASE n = 0 -> 0 [] n = 1 -> 1 [] OTHER -> 4

\* The token at hand is active, or stays and is ahead by no more than the gap.
TokenInv == token.iat <= 0 \/ (Lasts /\ token.iat <= now + skew.issuer)

\* A call makes its first attempt, with a token that is active or that stays ...
FirstAttempt(r) ==
    req[r].pc = "send" /\ req[r].runs = 0 => req[r].sent.iat <= 0 \/ (Lasts /\ req[r].sent = token)

\* ... or tries again with the same token, when the API's clock has come closer to it ...
LaterAttempt(r) ==
    req[r].pc \in {"token", "send"} /\ req[r].runs > 0 =>
        /\ req[r].runs <= 2 /\ Lasts
        /\ token.iat + Waited(req[r].runs) <= req[r].until + skew.issuer
        /\ req[r].pc = "send" => req[r].sent = token

\* ... or was refused, and the token is ahead by no more than the rest of the gap.
Refused(r) ==
    req[r].pc = "answered" /\ req[r].inactive =>
        /\ req[r].runs \in {1, 2} /\ Lasts
        /\ token.iat + Waited(req[r].runs - 1) <= now + skew.issuer

CallInv(r) == /\ FirstAttempt(r) /\ LaterAttempt(r) /\ Refused(r)
              /\ req[r].pc = "end" => ~req[r].inactive

\* The invariant behind SkewIsBridged.
BridgeInv == skew.issuer <= 4 => TokenInv /\ \A r \in Req : CallInv(r)

\* A call is answered once before it is over or tries again.
RunsInv ==
    \A r \in Req : /\ req[r].pc = "new" => req[r].runs = 0
                   /\ req[r].pc = "answered" => req[r].runs > 0


\* The types and the counts hold at the start, ...
LEMMA ApiTypeInit == Init => ApiTypes /\ RunsInv
<1> SUFFICES ASSUME Init PROVE ApiTypes /\ RunsInv
  OBVIOUS
<1>1. NewReq \in ReqType
  BY DEF NewReq, ReqType, NoToken, Token
<1>2. skew \in Skews /\ now \in 0..MaxTime /\ token \in Token
  BY ApiAssumption DEF Init, Token
<1>3. req \in [Req -> ReqType] /\ queue \in Seq(Req) /\ written \in [Req -> Nat]
  BY <1>1 DEF Init
<1>4. held \in [1..MaxWorkers -> Req \cup {NoReq}]
  BY DEF Init
<1>5. RunsInv
  BY DEF Init, RunsInv, NewReq
<1> QED
  BY <1>2, <1>3, <1>4, <1>5 DEF ApiTypes

\* ... and after a step of a call, ...
LEMMA CallType ==
  ASSUME ApiTypes, RunsInv, NEW r \in Req,
         Call(r) \/ GetStableAccessToken(r) \/ GetTasks(r) \/ Retry(r) \/ Return(r)
  PROVE  /\ \E c \in ReqType : req' = [req EXCEPT ![r] = c]
         /\ RunsInv'
<1>type. /\ req \in [Req -> ReqType] /\ req[r] \in ReqType /\ now \in Int
         /\ NoToken \in Token
  BY ApiAssumption DEF ApiTypes, NoToken, Token
<1>frame. ASSUME NEW c, req' = [req EXCEPT ![r] = c], c.pc = "new" => c.runs = 0,
                 c.pc = "answered" => c.runs > 0
          PROVE  RunsInv'
  BY <1>frame, <1>type DEF RunsInv
<1>1. CASE Call(r)
  <2>1. PICK q \in Query : req' = [req EXCEPT ![r] = [req[r] EXCEPT !.pc = "token", !.query = q]]
    BY <1>1, CallSteps
  <2> DEFINE c == [req[r] EXCEPT !.pc = "token", !.query = q]
  <2>2. c \in ReqType /\ c.pc = "token"
    BY <1>type DEF ReqType
  <2> QED
    BY <2>1, <2>2, <1>frame
<1>2. CASE GetStableAccessToken(r)
  <2>1. PICK wait \in Nat :
          req' = [req EXCEPT ![r] = [req[r] EXCEPT !.pc = "send", !.sent = CurrentToken,
                                                   !.until = now + wait]]
    BY <1>2, CallSteps
  <2> DEFINE c == [req[r] EXCEPT !.pc = "send", !.sent = CurrentToken, !.until = now + wait]
  <2>2. CurrentToken \in Token /\ now + wait \in Int
    BY <1>type, CurrentTokenType
  <2>3. c \in ReqType /\ c.pc = "send"
    BY <1>type, <2>2 DEF ReqType
  <2> QED
    BY <2>1, <2>3, <1>frame
<1>3. CASE GetTasks(r)
  <2>1. PICK o \in Outcomes(r) :
          req' = [req EXCEPT ![r] = [req[r] EXCEPT !.pc = "answered", !.sent = NoToken,
                           !.until = 0, !.inactive = o.inactive, !.runs = req[r].runs + 1]]
    BY <1>3, CallSteps
  <2> DEFINE c == [req[r] EXCEPT !.pc = "answered", !.sent = NoToken,
                           !.until = 0, !.inactive = o.inactive, !.runs = req[r].runs + 1]
  <2>2. o.inactive \in BOOLEAN
    BY OutcomeFacts
  <2>3. req[r].runs + 1 \in Nat /\ req[r].runs + 1 > 0
    BY <1>type DEF ReqType
  <2>4. c.pc = "answered" /\ c.runs = req[r].runs + 1
    BY <1>type DEF ReqType
  <2>5. ASSUME NEW b \in BOOLEAN, NEW n \in Nat
        PROVE  [req[r] EXCEPT !.pc = "answered", !.sent = NoToken, !.until = 0, !.inactive = b,
                              !.runs = n] \in ReqType
    <3> DEFINE d == [req[r] EXCEPT !.pc = "answered", !.sent = NoToken, !.until = 0]
    <3>1. d \in ReqType
      <4>1. ASSUME NEW u \in Int, NEW t \in Token
            PROVE  [req[r] EXCEPT !.pc = "answered", !.sent = t, !.until = u] \in ReqType
        BY <1>type DEF ReqType
      <4>2. 0 \in Int /\ NoToken \in Token
        BY <1>type
      <4> HIDE DEF d
      <4> QED
        BY <4>1, <4>2, Zenon DEF d
    <3>2. [d EXCEPT !.inactive = b] \in ReqType
      BY <3>1 DEF ReqType
    <3>3. ASSUME NEW e \in ReqType PROVE [e EXCEPT !.runs = n] \in ReqType
      BY DEF ReqType
    <3>4. [[d EXCEPT !.inactive = b] EXCEPT !.runs = n] \in ReqType
      BY <3>2, <3>3
    <3> QED
      BY <3>4
  <2>6. c \in ReqType
    BY <2>2, <2>3, <2>5
  <2> QED
    BY <2>1, <2>3, <2>4, <2>6, <1>frame
<1>4. CASE Retry(r)
  <2> DEFINE c == [req[r] EXCEPT !.pc = "token", !.until = now + Delays[req[r].runs]]
  <2>1. req' = [req EXCEPT ![r] = c]
    BY <1>4, CallSteps
  <2>2. req[r].runs \in {1, 2}
    BY <1>4, <1>type DEF Retry, Again, Delays, RunsInv, ReqType
  <2>3. now + Delays[req[r].runs] \in Int
    BY <2>2, <1>type DEF Delays
  <2>4. c \in ReqType /\ c.pc = "token"
    BY <1>type, <2>3 DEF ReqType
  <2> QED
    BY <2>1, <2>4, <1>frame
<1>5. CASE Return(r)
  <2> DEFINE c == [req[r] EXCEPT !.pc = "end", !.query = NoQuery]
  <2>1. req' = [req EXCEPT ![r] = c]
    BY <1>5, CallSteps
  <2>2. c \in ReqType /\ c.pc = "end"
    BY <1>type DEF ReqType
  <2> QED
    BY <2>1, <2>2, <1>frame
<1> QED
  BY <1>1, <1>2, <1>3, <1>4, <1>5

\* ... and after every step.
LEMMA ApiTypeStep == ApiTypes /\ RunsInv /\ [Next]_vars => ApiTypes' /\ RunsInv'
<1> SUFFICES ASSUME ApiTypes, RunsInv, [Next]_vars PROVE ApiTypes' /\ RunsInv'
  OBVIOUS
<1>1. ASSUME NEW r \in Req,
             Call(r) \/ GetStableAccessToken(r) \/ GetTasks(r) \/ Retry(r) \/ Return(r)
      PROVE  ApiTypes' /\ RunsInv'
  <2>1. RunsInv' /\ req' \in [Req -> ReqType]
    BY <1>1, CallType DEF ApiTypes
  <2>2. token' \in Token
    BY <1>1, CurrentTokenType DEF Call, GetStableAccessToken, GetTasks, Retry, Return, ApiTypes
  <2>3. queue' \in Seq(Req) /\ written' \in [Req -> Nat]
    <3>1. CASE GetTasks(r) /\ enqueueTaskLogEvent(r) /\ UNCHANGED written
      BY <3>1 DEF enqueueTaskLogEvent, ApiTypes
    <3>2. CASE written' = [written EXCEPT ![r] = @ + 1] /\ UNCHANGED queue
      BY <3>2 DEF ApiTypes
    <3>3. CASE UNCHANGED <<queue, written>>
      BY <3>3 DEF ApiTypes
    <3> QED
      BY <1>1, <3>1, <3>2, <3>3 DEF Call, GetStableAccessToken, GetTasks, Retry, Return, Log
  <2>4. UNCHANGED <<skew, now, held>>
    BY <1>1 DEF Call, GetStableAccessToken, GetTasks, Retry, Return
  <2> QED
    BY <2>1, <2>2, <2>3, <2>4 DEF ApiTypes
<1>2. ASSUME NEW w \in 1..MaxWorkers, TakeRecord(w) PROVE ApiTypes' /\ RunsInv'
  BY <1>2 DEF TakeRecord, ApiTypes, RunsInv
<1>3. ASSUME NEW w \in 1..MaxWorkers, WriteRecord(w) PROVE ApiTypes' /\ RunsInv'
  BY <1>3 DEF WriteRecord, ApiTypes, RunsInv
<1>4. CASE Tick
  BY <1>4, ApiAssumption DEF Tick, ApiTypes, RunsInv
<1>5. ASSUME NEW env, NEW complete, Start(env, complete) PROVE ApiTypes' /\ RunsInv'
  BY <1>5 DEF Start, ApiTypes, RunsInv
<1>6. CASE UNCHANGED vars
  BY <1>6 DEF vars, ApiTypes, RunsInv
<1> QED
  BY <1>1, <1>2, <1>3, <1>4, <1>5, <1>6 DEF Next

\* The client keeps a token that lasts; and the one a call gets is active for the API, or
\* lasts and is ahead by no more than the gap between the clocks.
LEMMA TokenKept ==
  ASSUME ApiTypes
  PROVE  /\ Lasts => CurrentToken = token
         /\ TokenInv /\ token' = CurrentToken /\ UNCHANGED <<skew, now>> => TokenInv'
<1>type. /\ skew.issuer \in Int /\ skew.client \in Int /\ now \in 0..MaxTime /\ MaxTime \in Nat
         /\ token \in Token /\ Life \in Nat /\ skew \in Skews /\ Life > 0
  BY CurrentTokenType, ApiAssumption DEF ApiTypes
<1>1. Lasts => CurrentToken = token
  BY <1>type DEF Lasts, CurrentToken, ClientNow, Token
<1>2. ASSUME TokenInv, token' = CurrentToken, UNCHANGED <<skew, now>> PROVE TokenInv'
  <2>1. CASE CurrentToken = token
    BY <1>2, <2>1 DEF TokenInv, Lasts
  <2>2. CASE CurrentToken # token
    <3> DEFINE t == [iat |-> now + skew.issuer, exp |-> now + skew.issuer + Life]
    <3>1. token' = t
      BY <1>2, <2>2 DEF CurrentToken
    <3>2. MaxTime + skew.client < skew.issuer + Life
      BY TokenAssumption, <1>type
    <3>3. t # NoToken
      <4>1. t.exp # t.iat
        BY <1>type
      <4>2. NoToken.exp = NoToken.iat
        BY DEF NoToken
      <4> QED
        BY <4>1, <4>2
    <3>4. MaxTime + skew.client < t.exp /\ t.iat <= now + skew.issuer
      BY <3>2, <1>type
    <3> QED
      BY <3>1, <3>3, <3>4, <1>2 DEF TokenInv, Lasts
  <2> QED
    BY <2>1, <2>2
<1> QED
  BY <1>1, <1>2

\* A call that takes no step is not disturbed by the clock or by what others fetch.
LEMMA OthersKept ==
  ASSUME ApiTypes, NEW r \in Req, CallInv(r), req'[r] = req[r], skew' = skew,
         now' = now \/ now' = now + 1, Lasts => token' = token
  PROVE  CallInv(r)'
<1>type. /\ skew.issuer \in Int /\ now \in Int /\ token \in Token /\ req[r] \in ReqType
  BY CurrentTokenType DEF ApiTypes
<1>0. Lasts => Lasts'
  BY DEF Lasts
<1>1. FirstAttempt(r)'
  BY <1>0 DEF CallInv, FirstAttempt
<1>2. LaterAttempt(r)'
  BY <1>0 DEF CallInv, LaterAttempt
<1>3. Refused(r)'
  <2> SUFFICES ASSUME req[r].pc = "answered", req[r].inactive PROVE Refused(r)'
    BY DEF Refused
  <2>1. /\ req[r].runs \in {1, 2} /\ Lasts
        /\ token.iat + Waited(req[r].runs - 1) <= now + skew.issuer
    BY DEF CallInv, Refused
  <2>2. Waited(req[r].runs - 1) \in Int /\ token.iat \in Int
    BY <2>1, <1>type DEF Waited, Token
  <2>3. token.iat + Waited(req[r].runs - 1) <= now' + skew.issuer
    BY <2>1, <2>2, <1>type
  <2> QED
    BY <2>1, <2>3, <1>0 DEF Refused
<1> QED
  BY <1>1, <1>2, <1>3 DEF CallInv

\* A call that begins or that returns.
LEMMA EndsKeep ==
  ASSUME ApiTypes, RunsInv, NEW r \in Req, CallInv(r), Call(r) \/ Return(r)
  PROVE  CallInv(r)'
<1>type. req[r] \in ReqType /\ req \in [Req -> ReqType]
  BY DEF ApiTypes
<1>1. CASE Call(r)
  <2>1. PICK q \in Query : req' = [req EXCEPT ![r] = [req[r] EXCEPT !.pc = "token", !.query = q]]
    BY <1>1, CallSteps
  <2>2. req'[r].pc = "token" /\ req'[r].runs = 0
    BY <1>1, <2>1, <1>type DEF Call, RunsInv, ReqType
  <2> QED
    BY <2>2 DEF CallInv, FirstAttempt, LaterAttempt, Refused
<1>2. CASE Return(r)
  <2>1. req' = [req EXCEPT ![r] = [req[r] EXCEPT !.pc = "end", !.query = NoQuery]]
    BY <1>2, CallSteps
  <2>2. req'[r].pc = "end" /\ req'[r].inactive = req[r].inactive
    BY <2>1, <1>type DEF ReqType
  <2>3. ~req[r].inactive
    BY <1>2, <1>type DEF Return, Again, Delays, CallInv, Refused, ReqType
  <2> QED
    BY <2>2, <2>3 DEF CallInv, FirstAttempt, LaterAttempt, Refused
<1> QED
  BY <1>1, <1>2

\* A call that was refused waits, and the gap becomes smaller by what it waits.
LEMMA RetryKeeps ==
  ASSUME ApiTypes, NEW r \in Req, CallInv(r), Retry(r)
  PROVE  CallInv(r)'
<1>type. /\ req[r] \in ReqType /\ req \in [Req -> ReqType] /\ now \in Int /\ skew.issuer \in Int
         /\ token.iat \in Int
  BY CurrentTokenType DEF ApiTypes, Token
<1>1. req' = [req EXCEPT ![r] = [req[r] EXCEPT !.pc = "token", !.until = now + Delays[req[r].runs]]]
  BY CallSteps
<1>2. /\ req'[r].pc = "token" /\ req'[r].runs = req[r].runs
      /\ req'[r].until = now + Delays[req[r].runs]
  BY <1>1, <1>type DEF ReqType
<1>3. /\ req[r].runs \in {1, 2} /\ Lasts
      /\ token.iat + Waited(req[r].runs - 1) <= now + skew.issuer
  BY DEF Retry, Again, CallInv, Refused
<1>4. UNCHANGED <<token, skew, now>>
  BY DEF Retry
<1>5. token.iat + Waited(req[r].runs) <= now + Delays[req[r].runs] + skew.issuer
  <2>1. CASE req[r].runs = 1
    BY <1>3, <2>1, <1>type DEF Waited, Delays
  <2>2. CASE req[r].runs = 2
    BY <1>3, <2>2, <1>type DEF Waited, Delays
  <2> QED
    BY <2>1, <2>2, <1>3
<1>6. Lasts'
  BY <1>3, <1>4 DEF Lasts
<1>7. LaterAttempt(r)'
  BY <1>2, <1>3, <1>4, <1>5, <1>6 DEF LaterAttempt
<1> QED
  BY <1>2, <1>7 DEF CallInv, FirstAttempt, Refused

\* A call takes the token of its last attempt, if that was too new.
LEMMA GetTokenKeeps ==
  ASSUME ApiTypes, NEW r \in Req, TokenInv, CallInv(r), GetStableAccessToken(r)
  PROVE  CallInv(r)'
<1>type. /\ req[r] \in ReqType /\ req \in [Req -> ReqType] /\ now \in Int /\ skew.issuer \in Int
         /\ token.iat \in Int
  BY CurrentTokenType DEF ApiTypes, Token
<1>1. PICK wait \in Nat :
        req' = [req EXCEPT ![r] = [req[r] EXCEPT !.pc = "send", !.sent = CurrentToken,
                                                 !.until = now + wait]]
  BY CallSteps
<1>2. /\ req'[r].pc = "send" /\ req'[r].runs = req[r].runs /\ req'[r].sent = CurrentToken
      /\ req'[r].until = now + wait
  BY <1>1, <1>type DEF ReqType
<1>3. /\ UNCHANGED <<skew, now>> /\ token' = CurrentToken
      /\ now >= req[r].until /\ req[r].pc = "token"
  BY DEF GetStableAccessToken
<1>4. FirstAttempt(r)'
  <2>1. TokenInv'
    BY <1>3, TokenKept
  <2> QED
    BY <2>1, <1>2, <1>3 DEF FirstAttempt, TokenInv
<1>5. LaterAttempt(r)'
  <2> SUFFICES ASSUME req[r].runs > 0 PROVE LaterAttempt(r)'
    BY <1>2 DEF LaterAttempt
  <2>1. /\ req[r].runs <= 2 /\ Lasts
        /\ token.iat + Waited(req[r].runs) <= req[r].until + skew.issuer
    BY <1>3 DEF CallInv, LaterAttempt
  <2>2. token' = token
    BY <2>1, <1>3, TokenKept
  <2>3. Waited(req[r].runs) \in Int /\ req[r].until \in Int
    BY <2>1, <1>type DEF Waited, ReqType
  <2>4. token.iat + Waited(req[r].runs) <= now + wait + skew.issuer
    BY <2>1, <2>3, <1>3, <1>type
  <2> QED
    BY <2>1, <2>2, <2>4, <1>2, <1>3 DEF LaterAttempt, Lasts
<1> QED
  BY <1>2, <1>4, <1>5 DEF CallInv, Refused

\* A refusal finds the token ahead by no more than the gap less the time waited, and after
\* both delays there is none.
LEMMA AnswerKeeps ==
  ASSUME ApiTypes, NEW r \in Req, skew.issuer <= 4, TokenInv, CallInv(r), GetTasks(r)
  PROVE  CallInv(r)'
<1>type. /\ req[r] \in ReqType /\ req \in [Req -> ReqType] /\ now \in Nat /\ skew.issuer \in Int
         /\ token.iat \in Int /\ req[r].runs \in Nat /\ req[r].until \in Int /\ req[r].sent.iat \in Int
  <2>1. /\ req[r] \in ReqType /\ req \in [Req -> ReqType] /\ now \in Nat /\ skew.issuer \in Int
        /\ token \in Token
    BY CurrentTokenType DEF ApiTypes
  <2>2. req[r].runs \in Nat /\ req[r].until \in Int /\ req[r].sent \in Token
    BY <2>1 DEF ReqType
  <2> QED
    BY <2>1, <2>2 DEF Token
<1>1. PICK o \in Outcomes(r) :
        req' = [req EXCEPT ![r] = [req[r] EXCEPT !.pc = "answered", !.sent = NoToken,
                           !.until = 0, !.inactive = o.inactive, !.runs = req[r].runs + 1]]
  BY CallSteps
<1>2. /\ req'[r].pc = "answered" /\ req'[r].inactive = o.inactive
      /\ req'[r].runs = req[r].runs + 1
  BY <1>1, <1>type DEF ReqType
<1>3. UNCHANGED <<token, skew, now>> /\ now >= req[r].until /\ req[r].pc = "send"
  BY DEF GetTasks
<1>4. ASSUME o.inactive
      PROVE  /\ req[r].runs + 1 \in {1, 2} /\ Lasts
             /\ token.iat + Waited(req[r].runs) <= now + skew.issuer
  <2>1. req[r].sent.iat > now
    BY <1>4, OutcomeFacts DEF Inactive
  <2>2. CASE req[r].runs = 0
    <3>1. Lasts /\ req[r].sent = token
      BY <2>1, <2>2, <1>3, <1>type DEF CallInv, FirstAttempt
    <3>2. token.iat <= now + skew.issuer
      BY <2>1, <3>1, <1>type DEF TokenInv
    <3> QED
      BY <2>2, <3>1, <3>2, <1>type DEF Waited
  <2>3. CASE req[r].runs > 0
    <3>1. /\ req[r].runs <= 2 /\ Lasts /\ req[r].sent = token
          /\ token.iat + Waited(req[r].runs) <= req[r].until + skew.issuer
      BY <2>3, <1>3 DEF CallInv, LaterAttempt
    <3>2. CASE req[r].runs = 1
      BY <3>1, <3>2, <1>3, <1>type DEF Waited
    <3>3. CASE req[r].runs = 2
      BY <3>1, <3>3, <2>1, <1>3, <1>type DEF Waited
    <3>4. req[r].runs = 1 \/ req[r].runs = 2
      BY <2>3, <3>1, <1>type
    <3> QED
      BY <3>2, <3>3, <3>4
  <2> QED
    BY <2>2, <2>3, <1>type
<1>5. Refused(r)'
  <2> SUFFICES ASSUME o.inactive PROVE Refused(r)'
    BY <1>2 DEF Refused
  <2>1. req'[r].runs - 1 = req[r].runs
    BY <1>2, <1>type
  <2>2. Lasts'
    BY <1>3, <1>4 DEF Lasts
  <2> QED
    BY <2>1, <2>2, <1>2, <1>3, <1>4 DEF Refused
<1> QED
  BY <1>2, <1>5 DEF CallInv, FirstAttempt, LaterAttempt

LEMMA BridgeStep == ApiTypes /\ RunsInv /\ BridgeInv /\ [Next]_vars => BridgeInv'
<1> SUFFICES ASSUME ApiTypes, RunsInv, BridgeInv, [Next]_vars, skew.issuer <= 4, skew' = skew
             PROVE  TokenInv' /\ \A s \in Req : CallInv(s)'
  <2>1. [Next]_vars => skew' = skew
    <3>1. ASSUME Next PROVE skew' = skew
      BY <3>1 DEF Next, Start, Tick, Call, GetStableAccessToken, GetTasks, Retry, Return,
                  TakeRecord, WriteRecord
    <3> QED
      BY <3>1 DEF vars
  <2> QED
    BY <2>1 DEF BridgeInv
<1>type. /\ skew.issuer \in Int /\ now \in Int /\ token.iat \in Int /\ req \in [Req -> ReqType]
  BY CurrentTokenType DEF ApiTypes, Token
<1>0. TokenInv /\ \A s \in Req : CallInv(s)
  BY DEF BridgeInv
<1>1. ASSUME NEW r \in Req, Call(r) \/ Return(r) \/ Retry(r) \/ GetTasks(r)
      PROVE  TokenInv' /\ \A s \in Req : CallInv(s)'
  <2>1. UNCHANGED <<token, now>>
    BY <1>1 DEF Call, Return, Retry, GetTasks
  <2>2. TokenInv'
    BY <2>1, <1>0 DEF TokenInv, Lasts
  <2>3. CallInv(r)'
    BY <1>0, <1>1, EndsKeep, RetryKeeps, AnswerKeeps
  <2>4. ASSUME NEW s \in Req, s # r PROVE CallInv(s)'
    <3>1. req'[s] = req[s]
      BY <1>1, <2>4, <1>type DEF Call, Return, Retry, GetTasks
    <3> QED
      BY <3>1, <2>1, <1>0, OthersKept
  <2> QED
    BY <2>2, <2>3, <2>4
<1>2. ASSUME NEW r \in Req, GetStableAccessToken(r)
      PROVE  TokenInv' /\ \A s \in Req : CallInv(s)'
  <2>1. token' = CurrentToken /\ now' = now
    BY <1>2 DEF GetStableAccessToken
  <2>2. TokenInv' /\ (Lasts => token' = token)
    BY <2>1, <1>0, TokenKept
  <2>3. CallInv(r)'
    BY <1>0, <1>2, GetTokenKeeps
  <2>4. ASSUME NEW s \in Req, s # r PROVE CallInv(s)'
    <3>1. req'[s] = req[s]
      BY <1>2, <2>4, <1>type DEF GetStableAccessToken
    <3> QED
      BY <3>1, <2>1, <2>2, <1>0, OthersKept
  <2> QED
    BY <2>2, <2>3, <2>4
<1>3. ASSUME UNCHANGED <<token, req>>, now' = now \/ now' = now + 1
      PROVE  TokenInv' /\ \A s \in Req : CallInv(s)'
  <2>1. TokenInv'
    BY <1>0, <1>3, <1>type DEF TokenInv, Lasts
  <2>2. ASSUME NEW s \in Req PROVE CallInv(s)'
    BY <1>0, <1>3, OthersKept
  <2> QED
    BY <2>1, <2>2
<1>4. \/ \E r \in Req : \/ Call(r) \/ Return(r) \/ Retry(r) \/ GetTasks(r)
                        \/ GetStableAccessToken(r)
      \/ UNCHANGED <<token, req>> /\ (now' = now \/ now' = now + 1)
  BY DEF Next, vars, Start, Tick, TakeRecord, WriteRecord
<1> QED
  BY <1>1, <1>2, <1>3, <1>4

\* The two retries of fetchWithAccessTokenRetry bridge four seconds between the issuer's
\* clock and the API's, whatever the client's clock, the delays on the way and the other
\* calls: no call ends with "token used before issued".
THEOREM RetriesBridgeSkew == Spec => []SkewIsBridged
<1> DEFINE I == ApiTypes /\ RunsInv /\ BridgeInv
<1>1. Init => I
  <2> SUFFICES ASSUME Init PROVE I
    OBVIOUS
  <2>1. ApiTypes /\ RunsInv
    BY ApiTypeInit
  <2>2. TokenInv
    <3>1. token \in Held /\ skew \in Skews /\ now = 0
      BY DEF Init
    <3>2. skew.issuer \in Int
      BY <2>1, CurrentTokenType
    <3>3. token.iat <= 0 \/ (token.iat <= skew.issuer /\ MaxTime + skew.client < token.exp)
      BY <3>1, TokenAssumption
    <3>4. token.iat \in Int /\ NoToken.iat = 0
      BY <2>1 DEF ApiTypes, Token, NoToken
    <3> QED
      BY <3>1, <3>2, <3>3, <3>4 DEF TokenInv, Lasts
  <2>3. ASSUME NEW r \in Req PROVE CallInv(r)
    BY DEF Init, NewReq, CallInv, FirstAttempt, LaterAttempt, Refused
  <2> QED
    BY <2>1, <2>2, <2>3 DEF BridgeInv
<1>2. I /\ [Next]_vars => I'
  BY ApiTypeStep, BridgeStep
<1>3. I => SkewIsBridged
  BY DEF BridgeInv, CallInv, SkewIsBridged
<1> QED
  BY <1>1, <1>2, <1>3, PTL DEF Spec

-----------------------------------------------------------------------------
Places(f, x) == {i \in DOMAIN f : f[i] = x}

\* The places of a queue, and those that hold a request, are finitely many.
LEMMA PlacesFinite ==
  ASSUME NEW S, NEW q \in Seq(S), NEW x
  PROVE  /\ IsFiniteSet(Places(q, x)) /\ Cardinality(Places(q, x)) \in Nat
<1>1. Len(q) \in Nat /\ DOMAIN q = 1..Len(q)
  OBVIOUS
<1>2. IsFiniteSet(1..Len(q))
  BY <1>1, FS_Interval
<1>3. Places(q, x) \in SUBSET (1..Len(q))
  BY <1>1 DEF Places
<1>4. IsFiniteSet(Places(q, x))
  BY <1>2, <1>3, FS_Subset
<1> QED
  BY <1>4, FS_CardinalityType

\* A record that is sent to a queue has one place more in it.
LEMMA PlacesAppend ==
  ASSUME NEW S, NEW q \in Seq(S), NEW y \in S, NEW x
  PROVE  Cardinality(Places(Append(q, y), x)) = Cardinality(Places(q, x)) + IF x = y THEN 1 ELSE 0
<1>1. /\ Len(q) \in Nat /\ DOMAIN q = 1..Len(q) /\ DOMAIN Append(q, y) = 1..(Len(q) + 1)
      /\ Append(q, y)[Len(q) + 1] = y
      /\ \A i \in 1..Len(q) : Append(q, y)[i] = q[i]
  OBVIOUS
<1>2. CASE x = y
  <2>1. Places(Append(q, y), x) = Places(q, x) \cup {Len(q) + 1}
    BY <1>1, <1>2 DEF Places
  <2>2. Len(q) + 1 \notin Places(q, x)
    BY <1>1 DEF Places
  <2> QED
    BY <1>2, <2>1, <2>2, PlacesFinite, FS_AddElement
<1>3. CASE x # y
  <2>1. Places(Append(q, y), x) = Places(q, x)
    BY <1>1, <1>3 DEF Places
  <2> QED
    BY <1>3, <2>1, PlacesFinite
<1> QED
  BY <1>2, <1>3

\* A record that is taken from a queue has one place less in it.
LEMMA PlacesTail ==
  ASSUME NEW S, NEW q \in Seq(S), q # <<>>, NEW x
  PROVE  Cardinality(Places(q, x)) = Cardinality(Places(Tail(q), x)) + IF x = Head(q) THEN 1 ELSE 0
<1>1. /\ Len(q) \in Nat \ {0} /\ DOMAIN q = 1..Len(q) /\ DOMAIN Tail(q) = 1..(Len(q) - 1)
      /\ Head(q) = q[1] /\ Tail(q) \in Seq(S)
      /\ \A i \in 1..(Len(q) - 1) : Tail(q)[i] = q[i + 1]
  OBVIOUS
<1> DEFINE P == Places(Tail(q), x)
           Q == Places(q, x) \ {1}
           f == [i \in P |-> i + 1]
<1>2. P \subseteq 1..(Len(q) - 1) /\ Q \subseteq 2..Len(q)
  BY <1>1 DEF Places
<1>3. \A i \in 1..(Len(q) - 1) : i \in P <=> i + 1 \in Q
  BY <1>1 DEF Places
<1> HIDE DEF P, Q
<1>4. f \in [P -> Q] /\ IsInjective(f)
  BY <1>2, <1>3 DEF IsInjective
<1>5. \A j \in Q : \E i \in P : f[i] = j
  <2> SUFFICES ASSUME NEW j \in Q PROVE \E i \in P : f[i] = j
    OBVIOUS
  <2>1. j - 1 \in 1..(Len(q) - 1) /\ (j - 1) + 1 = j
    BY <1>1, <1>2
  <2>2. j - 1 \in P
    BY <1>3, <2>1
  <2> QED
    BY <2>1, <2>2
<1>6. ExistsBijection(P, Q)
  BY <1>4, <1>5 DEF ExistsBijection, Bijection, Injection, Surjection
<1>7. IsFiniteSet(P) /\ Cardinality(P) \in Nat
  BY <1>1, PlacesFinite DEF P
<1>8. Cardinality(Q) = Cardinality(P)
  BY <1>6, <1>7, FS_Bijection
<1>9. /\ Cardinality(Q) = IF 1 \in Places(q, x) THEN Cardinality(Places(q, x)) - 1
                                                ELSE Cardinality(Places(q, x))
      /\ Cardinality(Places(q, x)) \in Nat
  BY PlacesFinite, FS_RemoveElement DEF Q
<1>10. 1 \in Places(q, x) <=> x = Head(q)
  BY <1>1 DEF Places
<1> QED
  BY <1>7, <1>8, <1>9, <1>10 DEF P

\* Every run of the handler for a call is in the queue, with a worker, or written.
Accounted(r) ==
    req[r].runs = written[r] + Cardinality(Places(queue, r)) + Cardinality(Places(held, r))

\* The counts are numbers.
LEMMA CountTypes ==
  ASSUME ApiTypes, NEW r \in Req
  PROVE  /\ req[r].runs \in Nat /\ written[r] \in Nat
         /\ Cardinality(Places(queue, r)) \in Nat /\ Cardinality(Places(held, r)) \in Nat
         /\ IsFiniteSet(Places(held, r))
<1>1. req[r] \in ReqType /\ written[r] \in Nat
  BY DEF ApiTypes
<1>2. Cardinality(Places(queue, r)) \in Nat
  BY PlacesFinite DEF ApiTypes
<1>3. IsFiniteSet(Places(held, r))
  <2>1. IsFiniteSet(1..MaxWorkers)
    BY FS_Interval, ApiAssumption
  <2>2. Places(held, r) \in SUBSET (1..MaxWorkers)
    BY DEF Places, ApiTypes
  <2> QED
    BY <2>1, <2>2, FS_Subset
<1>4. Cardinality(Places(held, r)) \in Nat
  BY <1>3, FS_CardinalityType
<1> QED
  BY <1>1, <1>2, <1>3, <1>4 DEF ReqType

\* metrics.Log accounts for the run it is called in, wherever the record goes.
LEMMA AnswerAccounted ==
  ASSUME ApiTypes, NEW r \in Req, GetTasks(r), NEW s \in Req, Accounted(s)
  PROVE  Accounted(s)'
<1>type. /\ req[r] \in ReqType /\ req \in [Req -> ReqType] /\ req[r].runs \in Nat
  BY DEF ApiTypes, ReqType
<1>1. PICK o \in Outcomes(r) :
        req' = [req EXCEPT ![r] = [req[r] EXCEPT !.pc = "answered", !.sent = NoToken,
                           !.until = 0, !.inactive = o.inactive, !.runs = req[r].runs + 1]]
  BY CallSteps
<1>2. req'[s].runs = req[s].runs + IF s = r THEN 1 ELSE 0
  <2>1. CASE s = r
    BY <1>1, <1>type, <2>1 DEF ReqType
  <2>2. CASE s # r
    <3>1. req'[s] = req[s] /\ req[s].runs \in Nat
      BY <1>1, <1>type, <2>2, CountTypes
    <3> QED
      BY <3>1, <2>2
  <2> QED
    BY <2>1, <2>2
<1>3. held' = held /\ Log(r)
  BY DEF GetTasks
<1>4. CASE queue' = Append(queue, r) /\ written' = written
  <2>1. Cardinality(Places(queue', s)) = Cardinality(Places(queue, s)) + IF s = r THEN 1 ELSE 0
    BY <1>4, PlacesAppend DEF ApiTypes
  <2>2. /\ written[s] \in Nat /\ Cardinality(Places(held, s)) \in Nat
        /\ Cardinality(Places(queue, s)) \in Nat
    BY CountTypes
  <2> QED
    BY <1>2, <1>3, <1>4, <2>1, <2>2 DEF Accounted
<1>5. CASE written' = [written EXCEPT ![r] = @ + 1] /\ queue' = queue
  <2>1. written'[s] = written[s] + IF s = r THEN 1 ELSE 0
    BY <1>5, CountTypes DEF ApiTypes
  <2> QED
    BY <1>2, <1>3, <1>5, <2>1, CountTypes DEF Accounted
<1> QED
  BY <1>3, <1>4, <1>5 DEF Log, enqueueTaskLogEvent

\* A log worker takes a record out of the queue and has it ...
LEMMA TakeAccounted ==
  ASSUME ApiTypes, NEW w \in 1..MaxWorkers, TakeRecord(w), NEW s \in Req, Accounted(s)
  PROVE  Accounted(s)'
<1>1. /\ held[w] = NoReq /\ queue # <<>> /\ held' = [held EXCEPT ![w] = Head(queue)]
      /\ queue' = Tail(queue) /\ UNCHANGED <<req, written>>
  BY DEF TakeRecord
<1>2. /\ held \in [1..MaxWorkers -> Req \cup {NoReq}] /\ queue \in Seq(Req) /\ MaxWorkers \in Nat
      /\ NoReq \notin Req
  BY ApiAssumption DEF ApiTypes
<1>3. Head(queue) \in Req
  BY <1>1, <1>2
<1>4. Cardinality(Places(queue, s)) = Cardinality(Places(queue', s)) + IF s = Head(queue) THEN 1 ELSE 0
  BY <1>1, <1>2, PlacesTail
<1>5. Cardinality(Places(held', s)) = Cardinality(Places(held, s)) + IF s = Head(queue) THEN 1 ELSE 0
  <2>1. w \notin Places(held, s)
    BY <1>1, <1>2 DEF Places
  <2>2. CASE s = Head(queue)
    <3>1. Places(held', s) = Places(held, s) \cup {w}
      BY <1>1, <1>2, <2>2 DEF Places
    <3> QED
      BY <2>1, <2>2, <3>1, CountTypes, FS_AddElement
  <2>3. CASE s # Head(queue)
    <3>1. Places(held', s) = Places(held, s)
      BY <1>1, <1>2, <2>3 DEF Places
    <3> QED
      BY <2>3, <3>1, CountTypes
  <2> QED
    BY <2>2, <2>3
<1>6. queue' \in Seq(Req)
  BY <1>1, <1>2
<1>7. Cardinality(Places(queue', s)) \in Nat
  BY <1>6, PlacesFinite
<1>8. /\ written[s] \in Nat /\ Cardinality(Places(held, s)) \in Nat
      /\ req[s].runs = written[s] + Cardinality(Places(queue, s)) + Cardinality(Places(held, s))
  BY CountTypes DEF Accounted
<1>9. req[s].runs = written[s] + Cardinality(Places(queue', s)) + Cardinality(Places(held', s))
  BY <1>4, <1>5, <1>7, <1>8
<1> QED
  BY <1>1, <1>9 DEF Accounted

\* ... and writes what it has, once.
LEMMA WriteAccounted ==
  ASSUME ApiTypes, NEW w \in 1..MaxWorkers, WriteRecord(w), NEW s \in Req, Accounted(s)
  PROVE  Accounted(s)'
<1>1. /\ held[w] # NoReq /\ held' = [held EXCEPT ![w] = NoReq]
      /\ written' = [written EXCEPT ![held[w]] = @ + 1] /\ UNCHANGED <<req, queue>>
  BY DEF WriteRecord
<1>2. /\ held \in [1..MaxWorkers -> Req \cup {NoReq}] /\ MaxWorkers \in Nat /\ NoReq \notin Req
      /\ written \in [Req -> Nat]
  BY ApiAssumption DEF ApiTypes
<1>3. held[w] \in Req
  BY <1>1, <1>2
<1>4. CASE s = held[w]
  <2>1. Places(held', s) = Places(held, s) \ {w} /\ w \in Places(held, s)
    BY <1>1, <1>2, <1>4 DEF Places
  <2>2. Cardinality(Places(held', s)) = Cardinality(Places(held, s)) - 1
    BY <2>1, CountTypes, FS_RemoveElement
  <2>3. written'[s] = written[s] + 1
    BY <1>1, <1>2, <1>4
  <2> QED
    BY <1>1, <2>2, <2>3, CountTypes DEF Accounted
<1>5. CASE s # held[w]
  <2>1. Places(held', s) = Places(held, s)
    BY <1>1, <1>2, <1>5 DEF Places
  <2>2. written'[s] = written[s]
    BY <1>1, <1>2, <1>5
  <2> QED
    BY <1>1, <2>1, <2>2 DEF Accounted
<1> QED
  BY <1>4, <1>5

LEMMA LogStep ==
  ASSUME ApiTypes, [Next]_vars, NEW s \in Req, Accounted(s)
  PROVE  Accounted(s)'
<1>1. ASSUME NEW r \in Req, Call(r) \/ GetStableAccessToken(r) \/ Retry(r) \/ Return(r)
      PROVE  Accounted(s)'
  <2>1. UNCHANGED <<queue, held, written>>
    BY <1>1 DEF Call, GetStableAccessToken, Retry, Return
  <2>2. req[r] \in ReqType /\ req \in [Req -> ReqType]
    BY DEF ApiTypes
  <2>3. req'[s].runs = req[s].runs
    <3>1. CASE Call(r)
      BY <2>2, <3>1 DEF Call, ReqType
    <3>2. CASE GetStableAccessToken(r)
      BY <2>2, <3>2 DEF GetStableAccessToken, ReqType
    <3>3. CASE Retry(r)
      BY <2>2, <3>3 DEF Retry, ReqType
    <3>4. CASE Return(r)
      BY <2>2, <3>4 DEF Return, ReqType
    <3> QED
      BY <1>1, <3>1, <3>2, <3>3, <3>4
  <2> QED
    BY <2>1, <2>3 DEF Accounted
<1>2. ASSUME UNCHANGED <<req, queue, held, written>> PROVE Accounted(s)'
  BY <1>2 DEF Accounted
<1>3. \/ \E r \in Req : Call(r) \/ GetStableAccessToken(r) \/ Retry(r) \/ Return(r) \/ GetTasks(r)
      \/ \E w \in 1..MaxWorkers : TakeRecord(w) \/ WriteRecord(w)
      \/ UNCHANGED <<req, queue, held, written>>
  BY DEF Next, vars, Start, Tick
<1> QED
  BY <1>1, <1>2, <1>3, AnswerAccounted, TakeAccounted, WriteAccounted

\* Every run of getTasks is logged, and logged once, however small the log queue, however
\* many the workers and whichever of the two ways the record takes; and a run that failed
\* is never logged as a success.
THEOREM RunsAreLoggedOnce == Spec => []LoggedOnce
<1> DEFINE I == ApiTypes /\ RunsInv /\ \A r \in Req : Accounted(r)
<1>1. Init => I
  <2> SUFFICES ASSUME Init, NEW r \in Req PROVE Accounted(r)
    BY ApiTypeInit
  <2>1. req[r].runs = 0 /\ written[r] = 0
    BY DEF Init, NewReq
  <2>2. Places(queue, r) = {} /\ Places(held, r) = {}
    BY ApiAssumption DEF Init, Places
  <2> QED
    BY <2>1, <2>2, FS_EmptySet DEF Accounted
<1>2. I /\ [Next]_vars => I'
  BY ApiTypeStep, LogStep
<1>3. I => LoggedOnce
  BY OutcomeFacts DEF Accounted, Places, LoggedOnce
<1> QED
  BY <1>1, <1>2, <1>3, PTL DEF Spec

=============================================================================
