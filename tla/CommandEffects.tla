--------------------------- MODULE CommandEffects ---------------------------
(***************************************************************************)
(* What the command side promises to the rest of the system, with no       *)
(* handlers, leases or failures in sight: events are stored once per key   *)
(* and type, only stored events are published, and a key is settled only   *)
(* when everything stored for it has been published.                       *)
(***************************************************************************)
EXTENDS Integers, Sequences

CONSTANTS Key, Event, Path

VARIABLES
    log,      \* the events stored so far
    sent,     \* <<position in log, path>> of the events published so far
    settled   \* the keys whose command a retry may skip

vars == <<log, sent, settled>>

Init == log = <<>> /\ sent = {} /\ settled = {}

Stored(k) == {i \in DOMAIN log : log[i].key = k}
Published(i) == \E p \in Path : <<i, p>> \in sent

Emit(e) ==
    /\ e.key \notin settled
    /\ \A i \in Stored(e.key) : log[i].type # e.type
    /\ log' = Append(log, e)
    /\ UNCHANGED <<sent, settled>>

Publish(i, p) ==
    /\ i \in DOMAIN log
    /\ sent' = sent \cup {<<i, p>>}
    /\ UNCHANGED <<log, settled>>

Settle(k) ==
    /\ \A i \in Stored(k) : Published(i)
    /\ settled' = settled \cup {k}
    /\ UNCHANGED <<log, sent>>

\* A settled key is forgotten; its events are not.
Forget(k) ==
    /\ settled' = settled \ {k}
    /\ UNCHANGED <<log, sent>>

Next ==
    \/ \E e \in Event : Emit(e)
    \/ \E i \in DOMAIN log, p \in Path : Publish(i, p)
    \/ \E k \in Key : Settle(k) \/ Forget(k)

Spec == Init /\ [][Next]_vars
=============================================================================
