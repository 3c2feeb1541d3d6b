----------------------------- MODULE MCTurnQueue -----------------------------
(* Small instances of TurnQueue for TLC. *)
EXTENDS TurnQueue, TLC

\* Inputs, of which the second is incompatible with the others.
Inputs == [m \in Commands |-> "input"]
SecondApart == [m \in Commands |-> IF m = 2 THEN 2 ELSE 1]

\* Two inputs, a continuation and a retry; all compatible.
Mixed == [m \in Commands |-> CASE m = 2 -> "continuation"
                                [] m = 4 -> "retry"
                                [] OTHER -> "input"]
AllAlike == [m \in Commands |-> 1]

\* Without the second input, commands are submitted as time passes; with it, what the Host finds
\* queued is changed by controls, until one Turn has ended.
Small == IF state[3] = "absent"
         THEN (\A c \in Callers : op[c].cmd # 3) /\ (\A c \in Controllers : ctl[c] = IdleCtl)
         ELSE /\ \A c \in Callers : op[c] = IdleOp
              /\ now = Start0
              /\ Cardinality({m \in Commands : turn[m] # "none"}) <= 1

\* Activities are interchangeable.
Symmetry == Permutations(Callers)

\* Controls change what is queued while no start command is under way, and nothing else starts or
\* arrives from then on: the wakes of a control meet the slot, a drive and its end.
ControlsBegin == \E c \in Controllers : ctl[c].pc = "idle" /\ ctl'[c].pc # "idle"
StartsBegin == \E c \in Callers : op[c].pc = "idle" /\ op'[c].pc # "idle"

Uncontrolled == /\ \A c \in Controllers : ctl[c] = IdleCtl
                /\ \A m \in Commands : rev[m] <= 1 /\ state[m] # "cancelled"

Apart == /\ ControlsBegin => /\ \A c \in Callers : op[c] = IdleOp
                             /\ arrived = 0 /\ crashes = 0
         /\ StartsBegin \/ arrived' # arrived \/ crashes' # crashes => Uncontrolled
=============================================================================
