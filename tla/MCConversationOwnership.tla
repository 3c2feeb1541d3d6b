---------------------- MODULE MCConversationOwnership ----------------------
(* Small instances of ConversationOwnership for TLC. *)
EXTENDS ConversationOwnership

\* Every Host may or may not serve the Conversation at any time.
AnyAnswer == [h \in Hosts |-> Eligibilities]

\* One Host serves the Conversation at times; at the others every run() is a
\* control command.
OneServes == LET first == CHOOSE h \in Hosts : TRUE
             IN [h \in Hosts |-> IF h = first THEN Eligibilities
                                              ELSE Eligibilities \ {"eligible"}]

=============================================================================
