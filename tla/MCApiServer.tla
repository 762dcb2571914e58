----------------------------- MODULE MCApiServer -----------------------------
(***************************************************************************)
(* An instance of ApiServer for TLC: environments and queries.             *)
(***************************************************************************)
EXTENDS ApiServer, TLC

E(page, conc, workers, buffer, logWorkers, logQueue) ==
    [TASKS_PAGE_SIZE |-> page, COMMAND_QUEUE_CONCURRENCY |-> conc, ENQUEUE_WORKERS |-> workers,
     ENQUEUE_BUFFER |-> buffer, TASK_METRICS_LOG_WORKERS |-> logWorkers,
     TASK_METRICS_LOG_QUEUE |-> logQueue]

\* Values that are missing, no number, not positive, at and beyond the limits; a page size
\* beyond an int32 (here of 12 bits).
Environments == {
    E(Unset, Unset, Unset, Unset, Number(1), Number(1)),
    E(Number(1000), Number(1), Number(9000), Number(1), Text, Number(1)),
    E(Number(1001), Number(9000), Text, Number(0), Number(0), Number(2)),
    E(Number(5000), Unset, Number(0), Text, Number(1), Text),
    E(Text, Unset, Unset, Unset, Unset, Unset),
    E(Unset, Number(0), Unset, Unset, Unset, Unset)}

Q(bearer, size, tok) == [bearer |-> bearer, pageSize |-> size, pageToken |-> tok]

Queries == {Q("own", "none", "none"), Q("own", "invalid", "none"), Q("own", "none", "invalid"),
            Q("foreign", "none", "none")}

\* The client's clock is right with the issuer's, or behind it.
Clocks == {[issuer |-> 4, client |-> 4], [issuer |-> 4, client |-> 3]}

\* No token, and one that the API no longer accepts when the client still does.
HeldTokens == {NoToken, [iat |-> -9, exp |-> 6]}
\* Calls are alike.
Alike == Permutations(Req)
=============================================================================
