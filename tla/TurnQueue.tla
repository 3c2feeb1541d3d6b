------------------------------ MODULE TurnQueue ------------------------------
(***************************************************************************)
(* The input queue of one Conversation at the Host that serves it: start   *)
(* commands and their receipts, the guidance controls that edit, hold,     *)
(* cancel and reorder what waits, the admission slot that turns a prefix   *)
(* of the queue into a Turn, and the executor that ends the Turn.          *)
(*                                                                         *)
(* Every command reads, then commits one fenced transaction of the         *)
(* database worker; reads and the commit are steps of their own, and a     *)
(* Host may die between any two.  That at most one Host serves the         *)
(* Conversation is ConversationOwnership; that the executor may write is   *)
(* ExecutionLease, of whose row only the holder's Turn is kept here.       *)
(* Left out: child memberships, runtime_continuation intents, rewinding    *)
(* edits and deletions, and the backoffs after local errors.  A control    *)
(* with a revision that is no longer current changes nothing and is left   *)
(* out too.                                                                *)
(***************************************************************************)
EXTENDS Naturals, FiniteSets

CONSTANTS
    Commands,     \* start commands, by the ids derived from their source keys
    KindOf,       \* "input", "continuation" or "retry"
    GroupOf,      \* equal for commands whose frozen settings are compatible
    Callers,      \* activities that submit start commands, or repeat them
    Controllers,  \* activities that change what is queued
    Start0,       \* first value of the clock, above every reordered position
    MaxTime,      \* bound of the clock
    MaxRev,       \* bound of an intent's revisions
    MaxRetries,   \* attempts startIntent() adds to the first
    MaxInputs,    \* bound of the stop requests and deliveries that arrive
    MaxCrashes,   \* bound of the Host's crashes
    None

ASSUME CommandsAssumption ==
    /\ Commands \subseteq Nat
    /\ IsFiniteSet(Commands)
    /\ KindOf \in [Commands -> {"input", "continuation", "retry"}]
    /\ None \notin Commands
ASSUME BoundsAssumption ==
    /\ Start0 \in Nat /\ MaxTime \in Nat /\ MaxRev \in Nat
    /\ MaxRetries \in Nat /\ MaxInputs \in Nat /\ MaxCrashes \in Nat

VARIABLES
    now,       \* the clock of timestamps
    receipts,  \* commands with a committed CommandReceipt
    state,     \* state of the TurnIntent row
    pos,       \* position of its current revision
    hold,      \* the current revision is paused
    rev,       \* number of its revisions
    turnOf,    \* the Turn that took the intent, named by the primary command
    sent,      \* revision whose text became the message of the Turn
    turn,      \* status of the Turn a command names
    lease,     \* Turn of the Conversation's ExecutionLease row
    stop,      \* the Turn's interrupt_request row
    delivery,  \* the active Turn has a pending runtime_delivery input
    arrived,   \* stop requests and deliveries so far
    host,      \* the serving Host: "down", in its startup scan, or "up"
    blocked,   \* that scan saw an active Turn
    crashes,   \* crashes so far
    op,        \* per caller, its start command
    ctl,       \* per controller, its control
    adm,       \* the admission slot
    exec,      \* the drive of the active Turn
    ended      \* Turns whose drive has not asked for the next admission yet

intents == <<receipts, state, pos, hold, rev>>
turns   == <<turnOf, sent, turn, lease>>
inputs  == <<stop, delivery, arrived>>
hostVars == <<host, blocked, crashes>>
vars == <<now, intents, turns, inputs, hostVars, op, ctl, adm, exec, ended>>

IsInput(m) == KindOf[m] = "input"
Queued == {m \in Commands : state[m] = "queued"}
ConversationIdle == lease = None /\ Queued = {}

\* `wait`: the queue was not empty, or, in the result, the command is in it;
\* `at`: the timestamp of the plan.
IdleOp == [pc |-> "idle", cmd |-> None, at |-> 0, wait |-> FALSE, tries |-> 0]
Ops == [pc : {"idle", "replan", "look", "commit", "wake"},
        cmd : Commands \cup {None}, at : Nat, wait : BOOLEAN, tries : Nat]

\* `cmd`: the intent a control is about; `of`: those whose revisions it has
\* read; `queue`: for a reorder, all that was queued.
IdleCtl == [pc |-> "idle", what |-> "edit", cmd |-> None, of |-> {}, queue |-> {},
            revs |-> [m \in Commands |-> 0]]
Ctls == [pc : {"idle", "commit", "wake"},
         what : {"edit", "pause", "resume", "cancel", "reorder"},
         cmd : Commands \cup {None}, of : SUBSET Commands,
         queue : SUBSET Commands, revs : [Commands -> Nat]]

\* `listed`: the queue that was read; `seen`: what was read since of the
\* intents in `read`; `again`: requested after the pass that runs.
SeenIntents == [guidance : BOOLEAN, hold : BOOLEAN, pos : Nat, rev : Nat]
Unseen == [guidance |-> FALSE, hold |-> FALSE, pos |-> 0, rev |-> 0]
IdleAdm == [pc |-> "none", listed |-> {}, read |-> {},
            seen |-> [m \in Commands |-> Unseen], again |-> FALSE]
Adms == [pc : {"none", "look", "list", "read", "commit", "finish"},
         listed : SUBSET Commands, read : SUBSET Commands,
         seen : [Commands -> SeenIntents], again : BOOLEAN]

IdleExec == [pc |-> "run", status |-> "none", to |-> None, toRev |-> 0]
Execs == [pc : {"run", "end"},
          status : {"none", "interrupted", "finished", "handoff"},
          to : Commands \cup {None}, toRev : Nat]

\* A Host starts, with what earlier ones left in the queue.
Init ==
    /\ now = Start0
    /\ state \in [Commands -> {"absent", "queued"}]
    /\ \A m \in Queued : KindOf[m] # "retry"
    /\ receipts = {m \in Commands : state[m] = "queued"}
    /\ pos = [m \in Commands |-> IF state[m] = "queued" THEN Start0 ELSE 0]
    /\ rev = [m \in Commands |-> IF state[m] = "queued" THEN 1 ELSE 0]
    /\ hold = [m \in Commands |-> FALSE]
    /\ turnOf = [m \in Commands |-> None]
    /\ sent = [m \in Commands |-> 0]
    /\ turn = [m \in Commands |-> "none"]
    /\ lease = None
    /\ stop = [m \in Commands |-> "none"]
    /\ delivery = FALSE
    /\ arrived = 0
    /\ host = "down"
    /\ blocked = FALSE
    /\ crashes = 0
    /\ op = [c \in Callers |-> IdleOp]
    /\ ctl = [c \in Controllers |-> IdleCtl]
    /\ adm = IdleAdm
    /\ exec = IdleExec
    /\ ended = {}

Tick == /\ now < MaxTime
        /\ now' = now + 1
        /\ UNCHANGED <<intents, turns, inputs, hostVars, op, ctl, adm, exec, ended>>

---------------------------------------------------------------------------
(* The rows a transaction writes. *)

\* A new intent with its first revision.
Accept(m, at) ==
    /\ receipts' = receipts \cup {m}
    /\ state' = [state EXCEPT ![m] = "queued"]
    /\ pos' = [pos EXCEPT ![m] = at]
    /\ rev' = [rev EXCEPT ![m] = 1]
    /\ UNCHANGED <<hold, turns>>

\* Turn t starts with the intents S.
TakeInto(t, S) ==
    /\ turnOf' = [m \in Commands |-> IF m \in S THEN t ELSE turnOf[m]]
    /\ turn' = [turn EXCEPT ![t] = "active"]
    /\ lease' = t

AcceptAndAdmit(m, at) ==
    /\ receipts' = receipts \cup {m}
    /\ state' = [state EXCEPT ![m] = "admitted"]
    /\ pos' = [pos EXCEPT ![m] = at]
    /\ rev' = [rev EXCEPT ![m] = 1]
    /\ sent' = [sent EXCEPT ![m] = 1]
    /\ TakeInto(m, {m})
    /\ UNCHANGED hold

\* scheduleAdmission(): one slot per Conversation; a running one goes again.
ScheduleAdmission ==
    adm' = IF adm.pc = "none" THEN [IdleAdm EXCEPT !.pc = "look"]
                              ELSE [adm EXCEPT !.again = TRUE]

---------------------------------------------------------------------------
(* input(), continuation() and retry() *)

ToOp(c, o) == /\ op' = [op EXCEPT ![c] = o]
              /\ UNCHANGED <<now, inputs, hostVars, ctl, exec, ended>>

\* The result of a command: it is in the queue, or a Turn has taken it.
Answered(waits) == [IdleOp EXCEPT !.pc = "wake", !.wait = waits]

\* An activity submits a command, possibly one submitted before, or plans it
\* again.  A receipt answers; a retry needs an idle Conversation.
StartBegin(c, m) ==
    /\ host # "down"
    /\ \/ op[c].pc = "idle"
       \/ op[c].pc = "replan" /\ op[c].cmd = m
    /\ ToOp(c, IF m \in receipts
               THEN Answered(state[m] # "admitted")
               ELSE IF KindOf[m] = "retry" /\ ~ConversationIdle THEN IdleOp
               ELSE [op[c] EXCEPT !.pc = "look", !.cmd = m, !.at = now])
    /\ UNCHANGED <<intents, turns, adm>>

\* "A fresh ordinary input must not take an idle lease ahead of an already
\* durable queue."
MustWait(m) == IsInput(m) /\ Queued # {}

StartLook(c) ==
    /\ op[c].pc = "look"
    /\ ToOp(c, [op[c] EXCEPT !.pc = "commit", !.wait = MustWait(op[c].cmd)])
    /\ UNCHANGED <<intents, turns, adm>>

\* Mutant: the queue seen by the reading decides.
MutStartHolds(c) == KindOf[op[c].cmd] = "retry" => ConversationIdle

\* The assertions of the transaction.
StartHolds(c) == /\ KindOf[op[c].cmd] = "retry" => ConversationIdle
                 /\ IsInput(op[c].cmd) /\ ~op[c].wait => Queued = {}

\* Mutant: the insertion of the receipt does not conflict.
MutIsNew(m) == m \in Commands

IsNew(m) == m \notin receipts

StartCommit(c) ==
    LET m == op[c].cmd
        starts == ~op[c].wait /\ lease = None
    IN /\ op[c].pc = "commit"
       /\ IsNew(m)
       /\ StartHolds(c)
       /\ IF starts THEN AcceptAndAdmit(m, op[c].at) ELSE Accept(m, op[c].at)
       /\ ToOp(c, Answered(~starts))
       /\ UNCHANGED adm

\* The other activity with this command was faster: its receipt answers.
StartRaced(c) ==
    /\ op[c].pc = "commit"
    /\ op[c].cmd \in receipts
    /\ ToOp(c, Answered(state[op[c].cmd] # "admitted"))
    /\ UNCHANGED <<intents, turns, adm>>

Replan(c) == IF op[c].tries < MaxRetries
             THEN [IdleOp EXCEPT !.pc = "replan", !.cmd = op[c].cmd,
                                 !.tries = op[c].tries + 1]
             ELSE IdleOp

\* An assertion failed: of StartHolds, or, where a Turn would start, of the
\* head of the Context.  startIntent() plans again; a busy retry is refused.
StartRejected(c) ==
    /\ op[c].pc = "commit"
    /\ op[c].cmd \notin receipts
    /\ ~StartHolds(c) \/ (~op[c].wait /\ lease = None)
    /\ ToOp(c, IF KindOf[op[c].cmd] = "retry" /\ ~ConversationIdle
               THEN IdleOp ELSE Replan(c))
    /\ UNCHANGED <<intents, turns, adm>>

\* wake(): an admitted Turn is driven, anything else looks at the queue.
StartWake(c) ==
    /\ op[c].pc = "wake"
    /\ IF op[c].wait THEN ScheduleAdmission ELSE UNCHANGED adm
    /\ ToOp(c, IdleOp)
    /\ UNCHANGED <<intents, turns>>

---------------------------------------------------------------------------
(* Guidance: editGuidance(), setGuidanceHold(), cancelGuidance() and
   reorderGuidance() *)

ToCtl(c, k) == /\ ctl' = [ctl EXCEPT ![c] = k]
               /\ UNCHANGED <<now, inputs, turns, hostVars, op, exec, ended>>

Guidance == {m \in Queued : IsInput(m)}
RevsOf(S) == [m \in Commands |-> IF m \in S THEN rev[m] ELSE 0]

\* currentGuidanceIntent() finds the revision the command expects.
ControlRead(c) ==
    /\ host # "down"
    /\ ctl[c].pc = "idle"
    /\ \E m \in Guidance, what \in {"edit", "pause", "resume", "cancel"} :
          ToCtl(c, [IdleCtl EXCEPT !.pc = "commit", !.what = what, !.cmd = m,
                                   !.of = {m}, !.revs = RevsOf({m})])
    /\ UNCHANGED <<intents, adm>>

\* A reorder names all guidance; `queue` is all that is queued, `cmd` the
\* input that moves to the front.
ReorderRead(c) ==
    /\ host # "down"
    /\ ctl[c].pc = "idle"
    /\ \E m \in Guidance :
          ToCtl(c, [IdleCtl EXCEPT !.pc = "commit", !.what = "reorder", !.cmd = m,
                                   !.queue = Queued, !.of = Guidance,
                                   !.revs = RevsOf(Guidance)])
    /\ UNCHANGED <<intents, adm>>

\* Mutant: a control fences only that the intents still exist.
MutRevisionsHold(k) == \A m \in k.of : state[m] # "absent"

\* guidanceRevisionFenceSteps()
RevisionsHold(k) == \A m \in k.of : state[m] = "queued" /\ rev[m] = k.revs[m]

\* a is served before b, of the positions p.
Earlier(p, a, b) == p[a] < p[b] \/ (p[a] = p[b] /\ a < b)

\* The front, then the others as they were.
Reordered(k) ==
    [m \in Commands |->
        IF m \notin k.of THEN pos[m]
        ELSE IF m = k.cmd THEN 1
        ELSE 2 + Cardinality({n \in k.of \ {k.cmd} : Earlier(pos, n, m)})]

Revise(S) == rev' = [m \in Commands |-> IF m \in S THEN rev[m] + 1 ELSE rev[m]]

ControlHolds(k) == /\ RevisionsHold(k)
                   /\ k.what = "reorder" => Queued = k.queue

ControlCommit(c) ==
    LET k == ctl[c] IN
    /\ k.pc = "commit"
    /\ ControlHolds(k)
    /\ \/ /\ k.what = "cancel"
          /\ state' = [state EXCEPT ![k.cmd] = "cancelled"]
          /\ UNCHANGED <<rev, hold, pos>>
       \/ /\ k.what # "cancel"
          /\ \A m \in k.of : rev[m] < MaxRev
          /\ Revise(k.of)
          /\ hold' = CASE k.what = "pause" -> [hold EXCEPT ![k.cmd] = TRUE]
                       [] k.what = "resume" -> [hold EXCEPT ![k.cmd] = FALSE]
                       [] OTHER -> hold
          /\ pos' = IF k.what = "reorder" THEN Reordered(k) ELSE pos
          /\ UNCHANGED state
    /\ ToCtl(c, [IdleCtl EXCEPT !.pc = "wake"])
    /\ UNCHANGED <<receipts, adm>>

\* GuidanceControlConflictError, or the bound.
ControlConflict(c) ==
    LET k == ctl[c] IN
    /\ k.pc = "commit"
    /\ ~ControlHolds(k) \/ \E m \in k.of : rev[m] >= MaxRev
    /\ ToCtl(c, IdleCtl)
    /\ UNCHANGED <<intents, adm>>

\* Mutant: a control relies on the pass that runs.
MutControlWake(c) == /\ ctl[c].pc = "wake"
                     /\ IF adm.pc = "none" THEN ScheduleAdmission ELSE UNCHANGED adm
                     /\ ToCtl(c, IdleCtl)
                     /\ UNCHANGED intents

ControlWake(c) == /\ ctl[c].pc = "wake"
                  /\ ScheduleAdmission
                  /\ ToCtl(c, IdleCtl)
                  /\ UNCHANGED intents

---------------------------------------------------------------------------
(* The admission slot: runAdmissionSlot() around admitNextQueued() *)

ToAdm(a) == /\ adm' = a
            /\ UNCHANGED <<now, inputs, hostVars, op, ctl, exec, ended>>

\* A pass that admitted nothing goes again for a wake it has not answered.
Pass == IF adm.again THEN [IdleAdm EXCEPT !.pc = "look"]
                     ELSE [IdleAdm EXCEPT !.pc = "finish"]

AdmitLook ==
    /\ adm.pc = "look"
    /\ ToAdm(IF lease = None THEN [adm EXCEPT !.pc = "list"] ELSE Pass)
    /\ UNCHANGED <<intents, turns>>

AdmitList ==
    /\ adm.pc = "list"
    /\ ToAdm(IF Queued = {} THEN Pass
             ELSE [adm EXCEPT !.pc = "read", !.listed = Queued])
    /\ UNCHANGED <<intents, turns>>

\* maybeCurrentGuidanceIntent(), in the order of ids; an intent that is queued
\* no more is read as no guidance.
Observed(m) == [guidance |-> m \in Guidance, hold |-> m \in Guidance /\ hold[m],
                pos |-> pos[m], rev |-> rev[m]]

AdmitRead ==
    /\ adm.pc = "read"
    /\ \E m \in adm.listed \ adm.read :
          /\ \A n \in adm.listed \ adm.read : m <= n
          /\ ToAdm([adm EXCEPT
                       !.seen = [@ EXCEPT ![m] = Observed(m)],
                       !.read = @ \cup {m},
                       !.pc = IF adm.listed = adm.read \cup {m} THEN "commit" ELSE @])
    /\ UNCHANGED <<intents, turns>>

Unheld == {m \in adm.read : ~adm.seen[m].hold}

Before(a, b) == \/ adm.seen[a].pos < adm.seen[b].pos
                \/ adm.seen[a].pos = adm.seen[b].pos /\ a < b

IsFirst(first) == \A n \in Unheld \ {first} : Before(first, n)

\* The first, and after an ordinary input those that follow it and are
\* compatible with it.
Members(first) ==
    LET Joins(m) == adm.seen[m].guidance /\ GroupOf[m] = GroupOf[first]
    IN IF ~adm.seen[first].guidance THEN {first}
       ELSE {m \in Unheld : \A n \in Unheld : n = m \/ Before(n, m) => Joins(n)}

\* Mutant: the revisions are not fenced.
MutRevisionsUnfenced == Queued = adm.listed

\* The queue and every revision are still those that were read.
QueueHolds == /\ Queued = adm.listed
              /\ \A m \in adm.read : rev[m] = adm.seen[m].rev

AdmitCommit ==
    /\ adm.pc = "commit"
    /\ QueueHolds
    /\ lease = None
    /\ \E first \in Unheld :
          LET S == Members(first)
          IN /\ IsFirst(first)
             /\ TakeInto(first, S)
             /\ state' = [m \in Commands |-> IF m \in S THEN "admitted" ELSE state[m]]
             /\ sent' = [m \in Commands |-> IF m \in S THEN adm.seen[m].rev
                                                       ELSE sent[m]]
    /\ ToAdm([IdleAdm EXCEPT !.pc = "finish"])
    /\ UNCHANGED <<receipts, pos, hold, rev>>

\* Everything is held, or the transaction failed.
AdmitNull ==
    /\ adm.pc = "commit"
    /\ Unheld = {} \/ ~QueueHolds \/ lease # None
    /\ ToAdm(Pass)
    /\ UNCHANGED <<intents, turns>>

\* finishAdmissionSlot(): a wake since then opens a new slot.
AdmitFinish ==
    /\ adm.pc = "finish"
    /\ ToAdm(IF adm.again THEN [IdleAdm EXCEPT !.pc = "look"] ELSE IdleAdm)
    /\ UNCHANGED <<intents, turns>>

---------------------------------------------------------------------------
(* The drive of the active Turn: what ends it, and what must not be left. *)

Arrives == /\ arrived < MaxInputs
           /\ arrived' = arrived + 1
           /\ UNCHANGED <<now, intents, turns, hostVars, op, ctl, adm, exec, ended>>

\* requestInterrupt(), from any Host: requests that find one coalesce with
\* it, requests that find the Turn terminated are ignored.
Interrupt ==
    /\ \E t \in Commands :
          /\ turn[t] = "active"
          /\ stop[t] = "none"
          /\ stop' = [stop EXCEPT ![t] = "pending"]
    /\ Arrives
    /\ UNCHANGED delivery

DeliveryArrives ==
    /\ lease # None
    /\ delivery' = TRUE
    /\ Arrives
    /\ UNCHANGED stop

ToExec(e) == /\ exec' = e
             /\ UNCHANGED <<now, intents, arrived, hostVars, op, ctl, adm>>

Drives == host # "down" /\ lease # None

\* absorbRuntimeDeliveryInputs()
Absorb == /\ Drives
          /\ exec.pc = "run"
          /\ delivery
          /\ delivery' = FALSE
          /\ ToExec(exec)
          /\ UNCHANGED <<turns, stop, ended>>

\* terminateIfRequested() found a request and absorbs what was delivered.
EndInterrupted ==
    /\ Drives
    /\ exec.pc = "run"
    /\ stop[lease] = "pending"
    /\ delivery' = FALSE
    /\ ToExec([IdleExec EXCEPT !.pc = "end", !.status = "interrupted"])
    /\ UNCHANGED <<turns, stop, ended>>

\* It found none: the model is done, or the drive failed and has absorbed.
EndOwn ==
    /\ Drives
    /\ exec.pc = "run"
    /\ stop[lease] # "pending"
    /\ ToExec([IdleExec EXCEPT !.pc = "end", !.status = "finished"])
    /\ UNCHANGED <<turns, inputs, ended>>

\* oldestQueuedBoundaryIntent(): the Turn ends early for the input that waits.
Boundary == {m \in Guidance : ~hold[m]}

EndHandoff ==
    /\ Drives
    /\ exec.pc = "run"
    /\ stop[lease] # "pending"
    /\ \E m \in Boundary :
          /\ \A n \in Boundary \ {m} : Earlier(pos, m, n)
          /\ ToExec([pc |-> "end", status |-> "handoff", to |-> m, toRev |-> rev[m]])
    /\ UNCHANGED <<turns, inputs, ended>>

\* Mutant: a request that came after the reading is not looked for.
MutInputsHold == ~delivery

\* prepareTerminalInputFence()
InputsHold == /\ ~delivery
              /\ exec.status = "interrupted" \/ stop[lease] # "pending"

\* Mutant: the intent of a handoff is not looked at again.
MutHandoffHolds == exec.status = "handoff" => state[exec.to] # "absent"

HandoffHolds == exec.status = "handoff"
                   => state[exec.to] = "queued" /\ rev[exec.to] = exec.toRev

\* recordTerminal()
EndCommit ==
    /\ Drives
    /\ exec.pc = "end"
    /\ InputsHold
    /\ HandoffHolds
    /\ turn' = [turn EXCEPT ![lease] = "terminated"]
    /\ stop' = [stop EXCEPT ![lease] = IF exec.status = "interrupted" THEN "consumed" ELSE @]
    /\ lease' = None
    /\ ended' = ended \cup {lease}
    /\ exec' = IdleExec
    /\ UNCHANGED <<now, intents, arrived, hostVars, op, ctl, adm, turnOf, sent, delivery>>

\* Mutant: the same end is tried again.
MutEndConflict ==
    /\ Drives
    /\ exec.pc = "end"
    /\ ~InputsHold \/ ~HandoffHolds
    /\ ToExec(exec)
    /\ UNCHANGED <<turns, stop, delivery, ended>>

\* The executor looks again.
EndConflict ==
    /\ Drives
    /\ exec.pc = "end"
    /\ ~InputsHold \/ ~HandoffHolds
    /\ ToExec(IdleExec)
    /\ UNCHANGED <<turns, stop, delivery, ended>>

\* runDriveSlot(): after a terminal result the queue is looked at.
DriveEnded ==
    /\ \E t \in ended : ended' = ended \ {t}
    /\ ScheduleAdmission
    /\ UNCHANGED <<now, intents, turns, inputs, hostVars, op, ctl, exec>>

---------------------------------------------------------------------------
(* The serving Host dies; it, or the next one, recovers the Conversation. *)

Crash ==
    /\ host # "down"
    /\ crashes < MaxCrashes
    /\ crashes' = crashes + 1
    /\ host' = "down"
    /\ op' = [c \in Callers |-> IdleOp]
    /\ ctl' = [c \in Controllers |-> IdleCtl]
    /\ adm' = IdleAdm
    /\ exec' = IdleExec
    /\ ended' = {}
    /\ blocked' = FALSE
    /\ UNCHANGED <<now, intents, turns, inputs>>

\* recoverStartup(): the active Turn is driven again ...
RecoverTurn ==
    /\ host = "down"
    /\ host' = "scan"
    /\ blocked' = (lease # None)
    /\ UNCHANGED <<now, crashes, intents, turns, inputs, op, ctl, adm, exec, ended>>

\* ... and without one the queue is looked at.
RecoverQueue ==
    /\ host = "scan"
    /\ host' = "up"
    /\ IF ~blocked /\ Queued # {} THEN ScheduleAdmission ELSE UNCHANGED adm
    /\ UNCHANGED <<now, blocked, crashes, intents, turns, inputs, op, ctl, exec, ended>>

---------------------------------------------------------------------------
\* An activity goes on with its command.
Starting(c) == \/ op[c].pc = "replan" /\ StartBegin(c, op[c].cmd)
               \/ StartLook(c) \/ StartCommit(c) \/ StartRaced(c)
               \/ StartRejected(c) \/ StartWake(c)

Controlling(c) == ControlCommit(c) \/ ControlConflict(c) \/ ControlWake(c)

Admitting == \/ AdmitLook \/ AdmitList \/ AdmitRead \/ AdmitCommit
             \/ AdmitNull \/ AdmitFinish

Ending == \/ EndInterrupted \/ EndOwn \/ EndHandoff \/ EndCommit \/ EndConflict

Recovering == RecoverTurn \/ RecoverQueue

Next == \/ Tick
        \/ \E c \in Callers : (\E m \in Commands : StartBegin(c, m)) \/ Starting(c)
        \/ \E c \in Controllers : ControlRead(c) \/ ReorderRead(c) \/ Controlling(c)
        \/ Admitting
        \/ Interrupt \/ DeliveryArrives \/ Absorb
        \/ Ending \/ DriveEnded
        \/ Crash \/ Recovering

Spec == Init /\ [][Next]_vars

\* Commands come to their end; model and tools answer, so every drive does,
\* and each of its rounds absorbs what was delivered; a Host comes back.
Fairness ==
    /\ \A c \in Callers : WF_vars(Starting(c))
    /\ \A c \in Controllers : WF_vars(Controlling(c))
    /\ WF_vars(Admitting)
    /\ WF_vars(Ending)
    /\ SF_vars(Absorb)
    /\ WF_vars(DriveEnded)
    /\ WF_vars(Recovering)

FairSpec == Spec /\ Fairness

---------------------------------------------------------------------------
(* Correctness *)

TypeOK ==
    /\ now \in Nat
    /\ receipts \subseteq Commands
    /\ state \in [Commands -> {"absent", "queued", "admitted", "cancelled"}]
    /\ pos \in [Commands -> Nat]
    /\ hold \in [Commands -> BOOLEAN]
    /\ rev \in [Commands -> Nat]
    /\ turnOf \in [Commands -> Commands \cup {None}]
    /\ sent \in [Commands -> Nat]
    /\ turn \in [Commands -> {"none", "active", "terminated"}]
    /\ lease \in Commands \cup {None}
    /\ stop \in [Commands -> {"none", "pending", "consumed"}]
    /\ delivery \in BOOLEAN
    /\ arrived \in Nat
    /\ host \in {"down", "scan", "up"}
    /\ blocked \in BOOLEAN
    /\ crashes \in Nat
    /\ op \in [Callers -> Ops]
    /\ ctl \in [Controllers -> Ctls]
    /\ adm \in Adms
    /\ adm.read \subseteq adm.listed
    /\ adm.pc \notin {"read", "commit"} => adm.read = {}
    /\ exec \in Execs
    /\ ended \subseteq Commands

Running(t) == {m \in Commands : turnOf[m] # None /\ turn[turnOf[m]] = t}

Q == INSTANCE ConversationQueue WITH
        waiting   <- Queued,
        running   <- Running("active"),
        finished  <- Running("terminated"),
        withdrawn <- {m \in Commands : state[m] = "cancelled"}

\* Every command, however often it is repeated or raced, is accepted once and
\* runs in one Turn, of which there is never a second one at the same time.
QueueImplemented == Q!Spec

\* A Turn never takes a command past one that was to be served before it:
\* not an input that waited, nor one that is new ("must not take an idle lease
\* ahead of an already durable queue").  A continuation may.
KeepsOrder ==
    \A m \in Commands :
        state[m] # "admitted" /\ state'[m] = "admitted"
        => \A n \in Commands :
              state[n] = "queued" /\ state'[n] = "queued" /\ ~hold[n]
              => \/ state[m] = "queued" /\ Earlier(pos, m, n)
                 \/ state[m] = "absent" /\ KindOf[m] = "continuation"

NoOvertaking == [][KeepsOrder]_vars

\* What the user has paused does not run, although the pause and the selection
\* of the prefix overlap.
PausedStaysQueued ==
    [][\A m \in Commands : state[m] = "queued" /\ hold[m]
                              => state'[m] # "admitted"]_vars

\* The Turn gets the last committed text of every input it takes: an edit
\* that was acknowledged is never lost to an admission that read before it.
LastEditIsSent == \A m \in Commands : state[m] = "admitted" => sent[m] = rev[m]

\* A Turn ends only when nothing is left for it: no stop request that was
\* accepted stays unanswered, no runtime delivery stays behind.
NothingLeftOpen ==
    /\ \A t \in Commands : turn[t] = "terminated" => stop[t] # "pending"
    /\ lease = None => ~delivery

\* A Turn is cut short only for an input that waits and is not paused.
HandoffIsWanted ==
    [][exec.status = "handoff"
          => \A t \in Commands : turn[t] = "active" /\ turn'[t] = "terminated"
                                    => exec.to \in Boundary]_vars

\* Whatever waits unpaused is taken in the end, if the Host stays: no wake is
\* lost between commands, controls, the slot and the end of a drive.
QueueDrains ==
    <>[](host # "down") =>
        \A m \in Commands :
            (state[m] = "queued" /\ ~hold[m]) ~> (state[m] # "queued" \/ hold[m])

\* An accepted stop request ends its Turn, if the Host stays.
InterruptTakesEffect ==
    <>[](host # "down") =>
        \A t \in Commands : (stop[t] = "pending") ~> (turn[t] = "terminated")

\* One Turn at a time; it takes its own command, and what is admitted is in a
\* Turn that has begun.
OneTurn ==
    /\ \A t \in Commands : turn[t] = "active" <=> lease = t
    /\ \A t \in Commands : turn[t] # "none" => turnOf[t] = t
    /\ \A m \in Commands : /\ state[m] = "admitted" <=> turnOf[m] # None
                           /\ turnOf[m] # None => turn[turnOf[m]] # "none"

\* A receipt stands for an accepted command, and only those have been read.
ReceiptsMatch ==
    /\ receipts = {m \in Commands : state[m] # "absent"}
    /\ adm.listed \subseteq receipts
    /\ \A c \in Callers : op[c].pc \in {"replan", "look", "commit"} => op[c].cmd # None

\* Controls are about inputs, so only those are ever paused.
HeldAreInputs ==
    /\ \A m \in Commands : hold[m] => IsInput(m)
    /\ \A c \in Controllers :
          ctl[c].pc = "commit" => ctl[c].cmd \in ctl[c].of /\ IsInput(ctl[c].cmd)

\* Of an intent that is queued with the revision that was read, all else that
\* was read still holds: the revisions fence position and hold.
SeenIsCurrent ==
    /\ adm.pc = "commit" => adm.read = adm.listed
    /\ \A m \in adm.read :
          /\ adm.seen[m].rev <= rev[m]
          /\ state[m] = "queued" /\ adm.seen[m].rev = rev[m]
                => adm.seen[m] = Observed(m)

\* The same for the intent a handoff is about.
HandoffIsCurrent ==
    exec.status = "handoff" =>
       /\ exec.to \in receipts
       /\ exec.toRev <= rev[exec.to]
       /\ state[exec.to] = "queued" /\ rev[exec.to] = exec.toRev
             => exec.to \in Boundary

StopsAreOpen == \A t \in Commands : stop[t] = "pending" => turn[t] = "active"

IInv == /\ TypeOK
        /\ ReceiptsMatch
        /\ HeldAreInputs
        /\ OneTurn
        /\ SeenIsCurrent
        /\ HandoffIsCurrent
        /\ StopsAreOpen
        /\ NothingLeftOpen
        /\ LastEditIsSent
=============================================================================
