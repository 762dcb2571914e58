------------------------------- MODULE ApiConfig -------------------------------
(***************************************************************************)
(* What prism-api and read-model-updater make of their environment         *)
(* variables at start-up: page sizes, the sizes of the command sender's    *)
(* pool and queue, of the queue client's fan-out and of the log queue.     *)
(***************************************************************************)
EXTENDS Integers

\* A variable is unset, a number, or text that is none.
Unset == [kind |-> "unset", n |-> 0]
Text == [kind |-> "text", n |-> 0]
Number(n) == [kind |-> "number", n |-> n]
Var == [kind: {"unset", "text", "number"}, n: Int]

Clamp(n, low, high) == IF n < low THEN low ELSE IF n > high THEN high ELSE n

\* lookupPositiveInt and envInt: anything but a positive number is as good as nothing.
lookupPositiveInt(v, fallback) == IF v.kind = "number" /\ v.n > 0 THEN v.n ELSE fallback

\* main accepts a positive number or nothing, and exits on anything else.
Acceptable(v) == v.kind = "unset" \/ (v.kind = "number" /\ v.n > 0)

\* int32(n), where an int32 holds half numbers from 0 on.
Int32(n, half) == ((n + half) % (2 * half)) - half

maxTaskPageSize == 1000

\* TASKS_PAGE_SIZE: as prism-api's storage takes it, and as the cache updater takes it.
ApiPageSize(v, half) == Clamp(Int32(lookupPositiveInt(v, 10), half), 1, maxTaskPageSize)
UpdaterPageSize(v, half) ==
    LET n == Int32(lookupPositiveInt(v, 10), half) IN IF n <= 0 THEN 1 ELSE n

\* The page size of a request, 0 when it names none.
resolveTaskPageSize(requested, default) ==
    IF requested <= 0 THEN Clamp(default, 1, maxTaskPageSize)
    ELSE Clamp(requested, 1, maxTaskPageSize)

queueConcurrencyForCPU(cpus) == IF cpus < 1 THEN 8 ELSE Clamp(cpus * 10, 8, 64)

computeWorkerDefaults(queueConcurrency, cpus) ==
    LET q == IF queueConcurrency <= 0 THEN 8 ELSE queueConcurrency
        c == IF cpus <= 0 THEN 1 ELSE cpus
        w == Clamp(IF c * 32 > q * 4 THEN c * 32 ELSE q * 4, 32, 192)
    IN [workers |-> w, buffer |-> Clamp(w * 128, 32 * 128, 64 * 1024)]

deriveQueueConcurrency(env) == lookupPositiveInt(env.COMMAND_QUEUE_CONCURRENCY, 8)

\* Mutant: a buffer is taken as it is given.
initCommandSender_AnyBuffer(env, cpus) ==
    LET auto    == computeWorkerDefaults(deriveQueueConcurrency(env), cpus)
        workers == lookupPositiveInt(env.ENQUEUE_WORKERS, auto.workers)
    IN [workers |-> workers, buffer |-> lookupPositiveInt(env.ENQUEUE_BUFFER, auto.buffer)]

initCommandSender(env, cpus) ==
    LET auto    == computeWorkerDefaults(deriveQueueConcurrency(env), cpus)
        workers == lookupPositiveInt(env.ENQUEUE_WORKERS, auto.workers)
        buffer  == lookupPositiveInt(env.ENQUEUE_BUFFER, auto.buffer)
    IN [workers |-> workers, buffer |-> IF buffer < workers THEN workers ELSE buffer]

initTaskLogQueue(env, cpus) ==
    LET workers == lookupPositiveInt(env.TASK_METRICS_LOG_WORKERS, cpus)
        w       == IF workers < 1 THEN 1 ELSE workers
    IN [workers |-> w, buffer |-> lookupPositiveInt(env.TASK_METRICS_LOG_QUEUE, w * 1024)]

=============================================================================
