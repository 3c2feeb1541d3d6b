-------------------------- MODULE MCExecutionLease --------------------------
(* Small instances of ExecutionLease for TLC. *)
EXTENDS ExecutionLease

CONSTANTS h1, h2, runner, child, peer, c1, c2, c3

\* Two lease owners on one Host, one on the other.
TwoOwners == [o \in Owners |-> IF o = peer THEN h2 ELSE h1]

\* One activity per owner.
OnePerOwner == [c \in Callers |-> CASE c = c1 -> runner
                                    [] c = c2 -> child
                                    [] c = c3 -> peer]
=============================================================================
