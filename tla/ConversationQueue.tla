-------------------------- MODULE ConversationQueue --------------------------
(***************************************************************************)
(* What the input queue of one Conversation promises: a command is         *)
(* accepted once, waits, and is taken by one Turn or withdrawn; one Turn   *)
(* runs at a time, and it takes some commands when it starts, never later. *)
(***************************************************************************)
CONSTANT Commands

VARIABLES
    waiting,   \* accepted, not taken by a Turn
    running,   \* taken by the Turn that runs
    finished,  \* taken by a Turn that ended
    withdrawn  \* cancelled while waiting

vars == <<waiting, running, finished, withdrawn>>

New == Commands \ (waiting \cup running \cup finished \cup withdrawn)

Init == /\ waiting \subseteq Commands
        /\ running = {}
        /\ finished = {}
        /\ withdrawn = {}

Submit == \E m \in New : /\ waiting' = waiting \cup {m}
                         /\ UNCHANGED <<running, finished, withdrawn>>

\* With nothing running, a new command may start a Turn at once.
SubmitAndStart == /\ running = {}
                  /\ \E m \in New : running' = {m}
                  /\ UNCHANGED <<waiting, finished, withdrawn>>

Start == /\ running = {}
         /\ \E S \in SUBSET waiting :
               /\ S # {}
               /\ running' = S
               /\ waiting' = waiting \ S
         /\ UNCHANGED <<finished, withdrawn>>

Finish == /\ running # {}
          /\ finished' = finished \cup running
          /\ running' = {}
          /\ UNCHANGED <<waiting, withdrawn>>

Withdraw == \E m \in waiting : /\ waiting' = waiting \ {m}
                               /\ withdrawn' = withdrawn \cup {m}
                               /\ UNCHANGED <<running, finished>>

Next == Submit \/ SubmitAndStart \/ Start \/ Finish \/ Withdraw

Spec == Init /\ [][Next]_vars
=============================================================================
