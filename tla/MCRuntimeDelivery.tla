-------------------------- MODULE MCRuntimeDelivery --------------------------
(* A small instance of RuntimeDelivery for TLC. *)
EXTENDS RuntimeDelivery

\* The Hosts are alike: one of them has the Conversation at first.
MCInit == DeliveryInit /\ serving = CHOOSE h \in DeliveryHosts : TRUE

Ended == {r \in Receipts : rows[r].dispatch # "none"}
Failed == {r \in Receipts : rows[r].dispatchFails + rows[r].wakeFails > 0}
UserSent == admission.step = "input" \/ \E t \in Turns : t > 1 /\ turn[t] # "none" /\ opened[t] = 0

\* Processes of the first Turn end in their order, as they are alike.  A Host dies, or rows fail;
\* and a second process ends where neither happens and the user sends nothing.
Small ==
    /\ \A r \in Ended : rows[r].source = 1 /\ \A s \in Receipts : s < r => s \in Ended
    /\ alive # DeliveryHosts => Failed = {}
    /\ Cardinality(Ended) > 1 => alive = DeliveryHosts /\ Failed = {} /\ ~UserSent

MCNext == DeliveryNext /\ Small'
MCSafe == MCInit /\ [][MCNext]_deliveryVars
MCSpec == MCSafe /\ DeliveryFairness

\* The process that ends first, which meets every fault, stands for all of them: its end reaches the
\* Conversation, is given up, or waits for a Turn (ProcessCompletionDeliveryCoordinator.scanOnce).
FirstEndSettles == EndSettles(1)
=============================================================================
