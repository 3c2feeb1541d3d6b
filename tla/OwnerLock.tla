------------------------------ MODULE OwnerLock ------------------------------
(***************************************************************************)
(* What the owner record of a Conversation promises, without files, tokens *)
(* or callers: one Host at a time holds the Conversation, a Host executes  *)
(* it only while it holds it, and a Host that lives loses it only after it *)
(* stopped executing by itself.                                            *)
(***************************************************************************)
CONSTANTS Hosts, None

VARIABLES
    alive,    \* Hosts whose process still runs
    holder,   \* the Host named by the durable record, None when there is none
    serving   \* Hosts that would execute the Conversation now

vars == <<alive, holder, serving>>

Init == /\ alive = Hosts
        /\ holder = None
        /\ serving = {}

\* A Host takes the free record; it may be closing and never serve.
Grant(h) == /\ h \in alive
            /\ holder = None
            /\ holder' = h
            /\ serving' \in {serving, serving \cup {h}}
            /\ UNCHANGED alive

Stop(h) == /\ h \in serving
           /\ serving' = serving \ {h}
           /\ UNCHANGED <<alive, holder>>

\* Its own release, or the isolation of a record whose process is dead.
Free(h) == /\ holder = h
           /\ h \notin serving
           /\ holder' = None
           /\ UNCHANGED <<alive, serving>>

Crash(h) == /\ h \in alive
            /\ alive' = alive \ {h}
            /\ serving' = serving \ {h}
            /\ UNCHANGED holder

Next == \E h \in Hosts : Grant(h) \/ Stop(h) \/ Free(h) \/ Crash(h)

Spec == Init /\ [][Next]_vars

\* At most one Host serves, it is alive, and the record names it.
OnlyHolderServes == serving \subseteq {holder} \cap alive
=============================================================================
