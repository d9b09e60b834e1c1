------------------------------ MODULE ChainLog ------------------------------
(***************************************************************************)
(* What the chain store promises: a log that only ever grows by one entry  *)
(* at its end, whose every entry commits to a payload that was stored      *)
(* before it, once, and whose times never run backwards.  No process, no   *)
(* lock, no file and no hash: those are how ChainStore keeps the promise.  *)
(***************************************************************************)
EXTENDS Integers, Sequences

CONSTANTS
    Keys,       \* the keys whose signatures count
    Payloads,   \* the digests an entry may commit to
    Times       \* the timestamps an entry may carry

VARIABLES
    log,        \* the entries, oldest first
    stored      \* the payloads that can be read back

vars == <<log, stored>>

Init == log = << >> /\ stored = {}

StorePayload(p) ==
    /\ stored' = stored \cup {p}
    /\ UNCHANGED log

\* The first entry is the baseline; time moves forward from one to the next.
Commit(time, kind, p, k) ==
    /\ p \in stored
    /\ \A i \in DOMAIN log : log[i].payload # p
    /\ IF log = << >> THEN kind = "baseline" ELSE log[Len(log)].time <= time
    /\ log' = Append(log, [seq |-> Len(log), time |-> time, kind |-> kind,
                           payload |-> p, key |-> k])
    /\ UNCHANGED stored

Next ==
    \/ \E p \in Payloads : StorePayload(p)
    \/ \E time \in Times, kind \in {"baseline", "append"}, p \in Payloads, k \in Keys :
           Commit(time, kind, p, k)

Spec == Init /\ [][Next]_vars
=============================================================================
