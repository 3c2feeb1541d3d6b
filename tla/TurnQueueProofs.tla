--------------------------- MODULE TurnQueueProofs ---------------------------
(***************************************************************************)
(* Proofs about TurnQueue for any commands, kinds, groups, callers,        *)
(* controllers and bounds.  Few steps write rows: StartCommit,             *)
(* ControlCommit, AdmitCommit and EndCommit (RowStep), so an invariant     *)
(* about rows has one step for each.  What was read of an intent is tied   *)
(* to its row by the number of its revisions (SeenIsCurrent), which makes  *)
(* the fence of the admission transaction enough for the properties.       *)
(***************************************************************************)
EXTENDS TurnQueue, FiniteSetTheorems, TLAPS

USE DEF vars, intents, turns, inputs, hostVars

---------------------------------------------------------------------------
(* Which step writes what. *)

\* The rows of intents and Turns are written by the four commits alone.
LEMMA RowStep ==
  ASSUME [Next]_vars
  PROVE  \/ UNCHANGED <<intents, turns>>
         \/ \E c \in Callers : StartCommit(c)
         \/ \E c \in Controllers : ControlCommit(c)
         \/ AdmitCommit
         \/ EndCommit
  <1>1. CASE UNCHANGED vars
    BY <1>1
  <1>2. CASE Tick
    BY <1>2 DEF Tick
  <1>3. ASSUME NEW c \in Callers, (\E m \in Commands : StartBegin(c, m)) \/ Starting(c)
        PROVE  StartCommit(c) \/ UNCHANGED <<intents, turns>>
    BY <1>3 DEF Starting, StartBegin, StartLook, StartRaced, StartRejected, StartWake
  <1>4. ASSUME NEW c \in Controllers, ControlRead(c) \/ ReorderRead(c) \/ Controlling(c)
        PROVE  ControlCommit(c) \/ UNCHANGED <<intents, turns>>
    BY <1>4 DEF Controlling, ControlRead, ReorderRead, ControlConflict, ControlWake, ToCtl
  <1>5. CASE Admitting
    BY <1>5 DEF Admitting, AdmitLook, AdmitList, AdmitRead, AdmitNull, AdmitFinish
  <1>6. CASE Interrupt \/ DeliveryArrives \/ Absorb \/ DriveEnded
    BY <1>6 DEF Interrupt, DeliveryArrives, Absorb, DriveEnded, Arrives, ToExec
  <1>7. CASE Ending
    BY <1>7 DEF Ending, EndInterrupted, EndOwn, EndHandoff, EndConflict, ToExec
  <1>8. CASE Crash \/ Recovering
    BY <1>8 DEF Crash, Recovering, RecoverTurn, RecoverQueue
  <1> QED
    BY <1>1, <1>2, <1>3, <1>4, <1>5, <1>6, <1>7, <1>8 DEF Next

---------------------------------------------------------------------------
(* Records. *)

LEMMA IdleTypes == /\ IdleOp \in Ops
                   /\ IdleCtl \in Ctls
                   /\ IdleAdm \in Adms
                   /\ IdleExec \in Execs
  BY DEF IdleOp, Ops, IdleCtl, Ctls, IdleAdm, Adms, Unseen, SeenIntents, IdleExec, Execs

LEMMA AnsweredType == ASSUME NEW b \in BOOLEAN PROVE Answered(b) \in Ops
  BY DEF Answered, IdleOp, Ops

LEMMA ReplanType ==
  ASSUME NEW c \in Callers, op[c] \in Ops
  PROVE  /\ Replan(c) \in Ops
         /\ Replan(c).pc = "replan" => Replan(c).cmd = op[c].cmd
         /\ Replan(c).pc \in {"idle", "replan"}
  <1>1. CASE op[c].tries < MaxRetries
    <2>1. Replan(c) = [pc |-> "replan", cmd |-> op[c].cmd, at |-> 0, wait |-> FALSE,
                       tries |-> op[c].tries + 1]
      BY <1>1 DEF Replan, IdleOp
    <2>2. op[c].cmd \in Commands \cup {None} /\ op[c].tries + 1 \in Nat
      BY DEF Ops
    <2> QED BY <2>1, <2>2 DEF Ops
  <1>2. CASE ~(op[c].tries < MaxRetries)
    <2>1. Replan(c) = IdleOp /\ IdleOp.pc = "idle"
      BY <1>2 DEF Replan, IdleOp
    <2> QED BY <2>1, IdleTypes
  <1> QED BY <1>1, <1>2

\* The slot runs on with what it has read, or starts anew, or reads.
AdmKept == /\ adm'.pc = adm.pc \/ (adm.pc = "look" /\ adm'.pc = "list")
           /\ adm'.listed = adm.listed
           /\ adm'.read = adm.read
           /\ adm'.seen = adm.seen
AdmReset == /\ adm'.pc # "commit"
            /\ adm'.listed = {}
            /\ adm'.read = {}

LEMMA ScheduleIs ==
  ASSUME TypeOK, ScheduleAdmission
  PROVE  adm' \in Adms /\ (AdmKept \/ AdmReset)
  BY DEF TypeOK, ScheduleAdmission, IdleAdm, Adms, AdmKept, AdmReset, Unseen, SeenIntents

LEMMA PassIs == /\ Pass \in Adms
                /\ Pass.listed = {} /\ Pass.read = {}
                /\ Pass.pc # "commit"
  BY DEF Pass, IdleAdm, Adms, Unseen, SeenIntents

LEMMA ObservedType ==
  ASSUME TypeOK, NEW m \in Commands
  PROVE  Observed(m) \in SeenIntents
  BY DEF TypeOK, Observed, SeenIntents

LEMMA ReadIs ==
  ASSUME TypeOK, AdmitRead
  PROVE  \E m \in adm.listed \ adm.read :
            /\ adm' \in Adms
            /\ adm'.listed = adm.listed
            /\ adm'.read = adm.read \cup {m}
            /\ adm'.seen = [adm.seen EXCEPT ![m] = Observed(m)]
            /\ adm'.pc = "commit" => adm'.read = adm'.listed
            /\ adm'.pc \in {"read", "commit"}
  <1>0. adm \in Adms /\ adm.listed \subseteq Commands
    BY DEF TypeOK, Adms
  <1>1. PICK m \in adm.listed \ adm.read :
           adm' = [adm EXCEPT
                       !.seen = [@ EXCEPT ![m] = Observed(m)],
                       !.read = @ \cup {m},
                       !.pc = IF adm.listed = adm.read \cup {m} THEN "commit" ELSE @]
    BY DEF AdmitRead, ToAdm
  <1>2. Observed(m) \in SeenIntents
    BY <1>0, ObservedType
  <1>3. [adm.seen EXCEPT ![m] = Observed(m)] \in [Commands -> SeenIntents]
    BY <1>0, <1>2 DEF Adms
  <1>4. adm.pc = "read"
    BY DEF AdmitRead
  <1>5. adm'.seen = [adm.seen EXCEPT ![m] = Observed(m)]
    BY <1>0, <1>1 DEF Adms
  <1>6. /\ adm'.listed = adm.listed
        /\ adm'.read = adm.read \cup {m}
        /\ adm'.pc = IF adm.listed = adm.read \cup {m} THEN "commit" ELSE "read"
        /\ adm'.again = adm.again
        /\ adm' = [pc |-> adm'.pc, listed |-> adm'.listed, read |-> adm'.read,
                    seen |-> adm'.seen, again |-> adm'.again]
    BY <1>0, <1>1, <1>4 DEF Adms
  <1>7. adm' \in Adms
    BY <1>0, <1>3, <1>5, <1>6 DEF Adms
  <1> QED
    BY <1>5, <1>6, <1>7

LEMMA AdmStep ==
  ASSUME TypeOK, [Next]_vars
  PROVE  adm' \in Adms /\ (AdmKept \/ AdmReset \/ AdmitList \/ AdmitRead)
  <1>0. adm \in Adms /\ Queued \subseteq Commands
    BY DEF TypeOK, Queued
  <1>1. CASE UNCHANGED adm
    BY <1>0, <1>1 DEF AdmKept
  <1>2. CASE ScheduleAdmission
    BY <1>2, ScheduleIs
  <1>3. CASE adm' = IdleAdm \/ adm' = Pass
    <2>1. /\ IdleAdm \in Adms /\ IdleAdm.pc = "none"
          /\ IdleAdm.listed = {} /\ IdleAdm.read = {}
      BY IdleTypes DEF IdleAdm
    <2>2. CASE adm' = IdleAdm
      BY <2>1, <2>2 DEF AdmReset
    <2>3. CASE adm' = Pass
      BY <2>3, PassIs DEF AdmReset
    <2> QED BY <1>3, <2>2, <2>3
  <1>4. CASE AdmitLook
    <2>1. CASE lease = None
      BY <1>0, <1>4, <2>1 DEF AdmitLook, ToAdm, Adms, AdmKept
    <2> QED BY <1>3, <1>4, <2>1 DEF AdmitLook, ToAdm
  <1>5. CASE AdmitList
    <2>1. CASE Queued # {}
      BY <1>0, <1>5, <2>1 DEF AdmitList, ToAdm, Adms
    <2> QED BY <1>3, <1>5, <2>1 DEF AdmitList, ToAdm
  <1>6. CASE AdmitRead
    BY <1>6, ReadIs
  <1>7. CASE AdmitCommit \/ AdmitNull \/ AdmitFinish
    <2>1. [IdleAdm EXCEPT !.pc = "finish"] \in Adms /\ [IdleAdm EXCEPT !.pc = "look"] \in Adms
      BY IdleTypes DEF Adms
    <2> QED
      BY <1>3, <1>7, <2>1 DEF AdmitCommit, AdmitNull, AdmitFinish, Pass, ToAdm,
                              IdleAdm, AdmReset
  <1>8. ASSUME NEW c \in Callers, (\E m \in Commands : StartBegin(c, m)) \/ Starting(c)
        PROVE  UNCHANGED adm \/ ScheduleAdmission
    BY <1>8 DEF Starting, StartBegin, StartLook, StartCommit, StartRaced, StartRejected,
                StartWake
  <1>9. ASSUME NEW c \in Controllers, ControlRead(c) \/ ReorderRead(c) \/ Controlling(c)
        PROVE  UNCHANGED adm \/ ScheduleAdmission
    BY <1>9 DEF Controlling, ControlRead, ReorderRead, ControlCommit, ControlConflict,
                ControlWake
  <1>10. CASE Interrupt \/ DeliveryArrives \/ Absorb \/ DriveEnded
    BY <1>1, <1>2, <1>10 DEF Interrupt, DeliveryArrives, Absorb, DriveEnded, Arrives, ToExec
  <1>11. CASE Ending
    BY <1>1, <1>11 DEF Ending, EndInterrupted, EndOwn, EndHandoff, EndCommit, EndConflict, ToExec
  <1>12. CASE Tick \/ Crash \/ Recovering
    BY <1>1, <1>2, <1>3, <1>12 DEF Tick, Crash, Recovering, RecoverTurn, RecoverQueue
  <1> QED
    BY <1>1, <1>2, <1>4, <1>5, <1>6, <1>7, <1>8, <1>9, <1>10, <1>11, <1>12
       DEF Next, Admitting

---------------------------------------------------------------------------
(* The selected prefix. *)

LEMMA MembersAreRead ==
  ASSUME NEW first \in Unheld
  PROVE  Members(first) \subseteq Unheld /\ Unheld \subseteq adm.read
  BY DEF Members, Unheld

\* `Before` orders what was read strictly and totally.
LEMMA BeforeIsOrder ==
  ASSUME TypeOK
  PROVE  /\ \A a, b \in adm.read : a # b => Before(a, b) \/ Before(b, a)
         /\ \A a, b \in adm.read : Before(a, b) => ~Before(b, a)
         /\ \A a, b, c \in adm.read : Before(a, b) /\ Before(b, c) => Before(a, c)
  <1>1. /\ \A a \in adm.read : a \in Nat
        /\ \A a \in adm.read : adm.seen[a].pos \in Nat
    BY CommandsAssumption DEF TypeOK, Adms, SeenIntents
  <1> QED BY <1>1 DEF Before

LEMMA FirstIsMember ==
  ASSUME TypeOK, NEW first \in Unheld, IsFirst(first)
  PROVE  first \in Members(first)
  <1>1. \A n \in Unheld : n = first \/ ~Before(n, first)
    BY BeforeIsOrder DEF IsFirst, Unheld
  <1> QED BY <1>1 DEF Members

\* Whatever else waits unpaused comes after every member.
LEMMA MembersComeFirst ==
  ASSUME TypeOK, NEW first \in Unheld, IsFirst(first),
         NEW m \in Members(first), NEW n \in Unheld, n \notin Members(first)
  PROVE  Before(m, n)
  <1>0. m \in Unheld /\ Unheld \subseteq adm.read
    BY MembersAreRead
  <1>1. CASE ~adm.seen[first].guidance
    BY <1>1, FirstIsMember DEF Members, IsFirst
  <1>2. CASE adm.seen[first].guidance
    <2> DEFINE Joins(k) == adm.seen[k].guidance /\ GroupOf[k] = GroupOf[first]
    <2>1. \A k \in Unheld : k = m \/ Before(k, m) => Joins(k)
      BY <1>2 DEF Members
    <2>2. PICK k \in Unheld : (k = n \/ Before(k, n)) /\ ~Joins(k)
      BY <1>2 DEF Members
    <2>3. Before(m, k)
      BY <1>0, <2>1, <2>2, BeforeIsOrder
    <2> QED
      BY <1>0, <2>2, <2>3, BeforeIsOrder
  <1> QED BY <1>1, <1>2

---------------------------------------------------------------------------
(* Type correctness. *)

Planned(o) == o.pc \in {"replan", "look", "commit"} => o.cmd # None

LEMMA OpStarts ==
  ASSUME TypeOK, ReceiptsMatch, NEW c \in Callers,
         (\E m \in Commands : StartBegin(c, m)) \/ Starting(c)
  PROVE  \E o \in Ops : Planned(o) /\ op' = [op EXCEPT ![c] = o]
  <1>0. /\ op[c] \in Ops /\ op[c].wait \in BOOLEAN /\ now \in Nat
        /\ op[c].cmd \in Commands \cup {None} /\ op[c].at \in Nat
        /\ Planned(op[c])
    BY DEF TypeOK, Ops, ReceiptsMatch, Planned
  <1>1. IdleOp \in Ops /\ Planned(IdleOp)
    BY IdleTypes DEF IdleOp, Planned
  <1>2. \A b \in BOOLEAN : Answered(b) \in Ops /\ Planned(Answered(b))
    BY AnsweredType DEF Answered, IdleOp, Planned
  <1>3. ASSUME NEW m \in Commands, StartBegin(c, m)
        PROVE  \E o \in Ops : Planned(o) /\ op' = [op EXCEPT ![c] = o]
    <2>1. /\ [op[c] EXCEPT !.pc = "look", !.cmd = m, !.at = now] \in Ops
          /\ Planned([op[c] EXCEPT !.pc = "look", !.cmd = m, !.at = now])
      BY <1>0, CommandsAssumption DEF Ops, Planned
    <2> QED
      BY <1>1, <1>2, <1>3, <2>1 DEF StartBegin, ToOp
  <1>4. CASE StartLook(c)
    <2> DEFINE o == [op[c] EXCEPT !.pc = "commit", !.wait = MustWait(op[c].cmd)]
    <2>1. MustWait(op[c].cmd) \in BOOLEAN
      BY DEF MustWait
    <2>2. o \in Ops /\ o.cmd = op[c].cmd
      BY <1>0, <2>1 DEF Ops
    <2>3. op[c].cmd # None
      BY <1>0, <1>4 DEF StartLook, Planned
    <2> QED
      BY <1>4, <2>2, <2>3 DEF StartLook, ToOp, Planned
  <1>5. CASE StartCommit(c)
    <2>1. (~(~op[c].wait /\ lease = None)) \in BOOLEAN
      OBVIOUS
    <2> QED BY <1>2, <1>5, <2>1 DEF StartCommit, ToOp
  <1>6. CASE StartRaced(c)
    BY <1>2, <1>6 DEF StartRaced, ToOp
  <1>7. CASE StartRejected(c)
    <2>1. Planned(Replan(c)) /\ Replan(c) \in Ops
      BY <1>0, <1>7, ReplanType DEF StartRejected, Planned
    <2> QED BY <1>1, <1>7, <2>1 DEF StartRejected, ToOp
  <1>8. CASE StartWake(c)
    BY <1>1, <1>8 DEF StartWake, ToOp
  <1>9. CASE op[c].pc = "replan" /\ StartBegin(c, op[c].cmd)
    BY <1>0, <1>3, <1>9 DEF Planned
  <1> QED
    BY <1>3, <1>4, <1>5, <1>6, <1>7, <1>8, <1>9 DEF Starting

LEMMA OpStep ==
  ASSUME TypeOK, ReceiptsMatch, [Next]_vars
  PROVE  op' \in [Callers -> Ops] /\ \A c \in Callers : Planned(op'[c])
  <1>0. op \in [Callers -> Ops] /\ \A c \in Callers : Planned(op[c])
    BY DEF TypeOK, ReceiptsMatch, Planned
  <1>1. CASE UNCHANGED op
    BY <1>0, <1>1
  <1>2. ASSUME NEW c \in Callers, (\E m \in Commands : StartBegin(c, m)) \/ Starting(c)
        PROVE  op' \in [Callers -> Ops] /\ \A d \in Callers : Planned(op'[d])
    <2>1. PICK o \in Ops : Planned(o) /\ op' = [op EXCEPT ![c] = o]
      BY <1>2, OpStarts
    <2> QED BY <1>0, <2>1
  <1>3. CASE Crash
    <2>1. IdleOp \in Ops /\ Planned(IdleOp)
      BY IdleTypes DEF IdleOp, Planned
    <2> QED BY <1>3, <2>1 DEF Crash
  <1>4. ASSUME NEW c \in Controllers, ControlRead(c) \/ ReorderRead(c) \/ Controlling(c)
        PROVE  UNCHANGED op
    BY <1>4 DEF ControlRead, ReorderRead, Controlling, ControlCommit, ControlConflict,
                ControlWake, ToCtl
  <1>5. CASE Admitting
    BY <1>1, <1>5 DEF Admitting, AdmitLook, AdmitList, AdmitRead, AdmitCommit, AdmitNull,
                      AdmitFinish, ToAdm
  <1>6. CASE Tick \/ Interrupt \/ DeliveryArrives \/ Absorb \/ DriveEnded \/ Recovering
    BY <1>1, <1>6 DEF Tick, Interrupt, DeliveryArrives, Absorb, DriveEnded, Arrives, ToExec,
                      Recovering, RecoverTurn, RecoverQueue
  <1>7. CASE Ending
    BY <1>1, <1>7 DEF Ending, EndInterrupted, EndOwn, EndHandoff, EndCommit, EndConflict, ToExec
  <1> QED
    BY <1>1, <1>2, <1>3, <1>4, <1>5, <1>6, <1>7 DEF Next

AboutInput(k) == k.pc = "commit" => k.cmd \in k.of /\ IsInput(k.cmd)

LEMMA CtlReads ==
  ASSUME TypeOK, NEW c \in Controllers, ControlRead(c) \/ ReorderRead(c) \/ Controlling(c)
  PROVE  \E k \in Ctls : AboutInput(k) /\ ctl' = [ctl EXCEPT ![c] = k]
  <1>1. IdleCtl \in Ctls /\ AboutInput(IdleCtl)
    BY IdleTypes DEF IdleCtl, AboutInput
  <1>2. /\ Guidance \subseteq Commands /\ Queued \subseteq Commands
        /\ \A m \in Guidance : IsInput(m)
    BY DEF Guidance, Queued
  <1>3. \A S \in SUBSET Commands : RevsOf(S) \in [Commands -> Nat]
    BY DEF RevsOf, TypeOK
  <1>4. CASE ControlRead(c)
    <2>1. PICK m \in Guidance, what \in {"edit", "pause", "resume", "cancel"} :
             ctl' = [ctl EXCEPT ![c] = [IdleCtl EXCEPT !.pc = "commit", !.what = what,
                            !.cmd = m, !.of = {m}, !.revs = RevsOf({m})]]
      BY <1>4 DEF ControlRead, ToCtl
    <2> DEFINE k == [IdleCtl EXCEPT !.pc = "commit", !.what = what,
                            !.cmd = m, !.of = {m}, !.revs = RevsOf({m})]
    <2>2. {m} \in SUBSET Commands /\ RevsOf({m}) \in [Commands -> Nat] /\ m \in Commands
      BY <1>2, <1>3
    <2>3. k \in Ctls /\ k.of = {m} /\ k.cmd = m
      BY <1>1, <2>2 DEF Ctls
    <2> QED BY <1>2, <2>1, <2>3 DEF AboutInput
  <1>5. CASE ReorderRead(c)
    <2>1. PICK m \in Guidance :
             ctl' = [ctl EXCEPT ![c] = [IdleCtl EXCEPT !.pc = "commit", !.what = "reorder",
                            !.cmd = m, !.queue = Queued, !.of = Guidance,
                            !.revs = RevsOf(Guidance)]]
      BY <1>5 DEF ReorderRead, ToCtl
    <2> DEFINE k == [IdleCtl EXCEPT !.pc = "commit", !.what = "reorder",
                            !.cmd = m, !.queue = Queued, !.of = Guidance,
                            !.revs = RevsOf(Guidance)]
    <2>2. RevsOf(Guidance) \in [Commands -> Nat] /\ m \in Commands
      BY <1>2, <1>3
    <2>3. k \in Ctls /\ k.of = Guidance /\ k.cmd = m
      BY <1>1, <1>2, <2>2 DEF Ctls
    <2> QED BY <1>2, <2>1, <2>3 DEF AboutInput
  <1>6. CASE ControlCommit(c)
    <2>1. [IdleCtl EXCEPT !.pc = "wake"] \in Ctls /\ AboutInput([IdleCtl EXCEPT !.pc = "wake"])
      BY <1>1 DEF Ctls, AboutInput
    <2> QED BY <1>6, <2>1 DEF ControlCommit, ToCtl
  <1>7. CASE ControlConflict(c) \/ ControlWake(c)
    BY <1>1, <1>7 DEF ControlConflict, ControlWake, ToCtl
  <1> QED BY <1>4, <1>5, <1>6, <1>7 DEF Controlling

LEMMA CtlStep ==
  ASSUME TypeOK, HeldAreInputs, [Next]_vars
  PROVE  ctl' \in [Controllers -> Ctls] /\ \A c \in Controllers : AboutInput(ctl'[c])
  <1>0. ctl \in [Controllers -> Ctls] /\ \A c \in Controllers : AboutInput(ctl[c])
    BY DEF TypeOK, HeldAreInputs, AboutInput
  <1>1. CASE UNCHANGED ctl
    BY <1>0, <1>1
  <1>2. ASSUME NEW c \in Controllers, ControlRead(c) \/ ReorderRead(c) \/ Controlling(c)
        PROVE  ctl' \in [Controllers -> Ctls] /\ \A d \in Controllers : AboutInput(ctl'[d])
    <2>1. PICK k \in Ctls : AboutInput(k) /\ ctl' = [ctl EXCEPT ![c] = k]
      BY <1>2, CtlReads
    <2> QED BY <1>0, <2>1
  <1>3. CASE Crash
    <2>1. IdleCtl \in Ctls /\ AboutInput(IdleCtl)
      BY IdleTypes DEF IdleCtl, AboutInput
    <2> QED BY <1>3, <2>1 DEF Crash
  <1>4. ASSUME NEW c \in Callers, (\E m \in Commands : StartBegin(c, m)) \/ Starting(c)
        PROVE  UNCHANGED ctl
    BY <1>4 DEF Starting, StartBegin, StartLook, StartCommit, StartRaced, StartRejected,
                StartWake, ToOp
  <1>5. CASE Admitting
    BY <1>1, <1>5 DEF Admitting, AdmitLook, AdmitList, AdmitRead, AdmitCommit, AdmitNull,
                      AdmitFinish, ToAdm
  <1>6. CASE Tick \/ Interrupt \/ DeliveryArrives \/ Absorb \/ DriveEnded \/ Recovering
    BY <1>1, <1>6 DEF Tick, Interrupt, DeliveryArrives, Absorb, DriveEnded, Arrives, ToExec,
                      Recovering, RecoverTurn, RecoverQueue
  <1>7. CASE Ending
    BY <1>1, <1>7 DEF Ending, EndInterrupted, EndOwn, EndHandoff, EndCommit, EndConflict, ToExec
  <1> QED
    BY <1>1, <1>2, <1>3, <1>4, <1>5, <1>6, <1>7 DEF Next

\* What the executor has decided: nothing, an end of its own, or a handoff.
Decided ==
    \/ UNCHANGED exec
    \/ exec' \in Execs /\ exec'.status # "handoff"
    \/ EndHandoff

LEMMA ExecStep ==
  ASSUME TypeOK, [Next]_vars
  PROVE  Decided
  <1>1. IdleExec \in Execs /\ IdleExec.status = "none"
    BY IdleTypes DEF IdleExec
  <1>2. \A x \in {"interrupted", "finished"} :
           /\ [IdleExec EXCEPT !.pc = "end", !.status = x] \in Execs
           /\ [IdleExec EXCEPT !.pc = "end", !.status = x].status = x
    BY <1>1 DEF Execs
  <1>3. CASE Ending
    BY <1>1, <1>2, <1>3 DEF Ending, EndInterrupted, EndOwn, EndCommit, EndConflict, ToExec, Decided
  <1>4. ASSUME NEW c \in Callers, (\E m \in Commands : StartBegin(c, m)) \/ Starting(c)
        PROVE  UNCHANGED exec
    BY <1>4 DEF Starting, StartBegin, StartLook, StartCommit, StartRaced, StartRejected,
                StartWake, ToOp
  <1>5. ASSUME NEW c \in Controllers, ControlRead(c) \/ ReorderRead(c) \/ Controlling(c)
        PROVE  UNCHANGED exec
    BY <1>5 DEF ControlRead, ReorderRead, Controlling, ControlCommit, ControlConflict,
                ControlWake, ToCtl
  <1>6. CASE Admitting
    BY <1>6 DEF Admitting, AdmitLook, AdmitList, AdmitRead, AdmitCommit, AdmitNull,
                AdmitFinish, ToAdm, Decided
  <1>7. CASE Tick \/ Interrupt \/ DeliveryArrives \/ Absorb \/ DriveEnded \/ Recovering
    BY <1>7 DEF Tick, Interrupt, DeliveryArrives, Absorb, DriveEnded, Arrives, ToExec,
                Recovering, RecoverTurn, RecoverQueue, Decided
  <1>8. CASE Crash
    BY <1>1, <1>8 DEF Crash, Decided
  <1> QED
    BY <1>3, <1>4, <1>5, <1>6, <1>7, <1>8 DEF Next, Decided

\* The part of TypeOK about rows.
RowsOK ==
    /\ receipts \subseteq Commands
    /\ state \in [Commands -> {"absent", "queued", "admitted", "cancelled"}]
    /\ pos \in [Commands -> Nat]
    /\ hold \in [Commands -> BOOLEAN]
    /\ rev \in [Commands -> Nat]
    /\ turnOf \in [Commands -> Commands \cup {None}]
    /\ sent \in [Commands -> Nat]
    /\ turn \in [Commands -> {"none", "active", "terminated"}]
    /\ lease \in Commands \cup {None}

LEMMA ReorderedType ==
  ASSUME TypeOK, NEW k \in Ctls
  PROVE  Reordered(k) \in [Commands -> Nat]
  <1>1. ASSUME NEW m \in Commands
        PROVE  Cardinality({n \in k.of \ {k.cmd} : Earlier(pos, n, m)}) \in Nat
    <2> DEFINE S == {n \in k.of \ {k.cmd} : Earlier(pos, n, m)}
    <2>1. S \subseteq Commands
      BY DEF Ctls
    <2>2. IsFiniteSet(S)
      BY <2>1, CommandsAssumption, FS_Subset
    <2> QED BY <2>2, FS_CardinalityType
  <1>2. \A m \in Commands : pos[m] \in Nat
    BY DEF TypeOK
  <1> QED BY <1>1, <1>2 DEF Reordered

LEMMA TakeIntoTypes ==
  ASSUME TypeOK, NEW t \in Commands, NEW S, TakeInto(t, S)
  PROVE  /\ turnOf' \in [Commands -> Commands \cup {None}]
         /\ turn' \in [Commands -> {"none", "active", "terminated"}]
         /\ lease' \in Commands
  BY DEF TypeOK, TakeInto

LEMMA RowTypes ==
  ASSUME TypeOK, ReceiptsMatch, [Next]_vars
  PROVE  RowsOK'
  <1>0. RowsOK
    BY DEF TypeOK, RowsOK
  <1>1. CASE UNCHANGED <<intents, turns>>
    BY <1>0, <1>1 DEF RowsOK
  <1>2. ASSUME NEW c \in Callers, StartCommit(c) PROVE RowsOK'
    <2>1. op[c].cmd \in Commands /\ op[c].at \in Nat
      BY <1>2 DEF StartCommit, ReceiptsMatch, TypeOK, Ops
    <2>2. CASE Accept(op[c].cmd, op[c].at)
      BY <1>0, <2>1, <2>2 DEF Accept, RowsOK
    <2>3. CASE AcceptAndAdmit(op[c].cmd, op[c].at)
      BY <1>0, <2>1, <2>3, TakeIntoTypes DEF AcceptAndAdmit, RowsOK
    <2> QED BY <1>2, <2>2, <2>3 DEF StartCommit
  <1>3. ASSUME NEW c \in Controllers, ControlCommit(c) PROVE RowsOK'
    <2>1. ctl[c] \in Ctls
      BY DEF TypeOK
    <2>2. UNCHANGED <<receipts, turns>>
      BY <1>3 DEF ControlCommit, ToCtl
    <2>3. CASE ctl[c].what = "cancel" /\ state' = [state EXCEPT ![ctl[c].cmd] = "cancelled"]
               /\ UNCHANGED <<rev, hold, pos>>
      BY <1>0, <2>2, <2>3 DEF RowsOK
    <2>4. CASE /\ Revise(ctl[c].of)
               /\ hold' = CASE ctl[c].what = "pause" -> [hold EXCEPT ![ctl[c].cmd] = TRUE]
                            [] ctl[c].what = "resume" -> [hold EXCEPT ![ctl[c].cmd] = FALSE]
                            [] OTHER -> hold
               /\ pos' = IF ctl[c].what = "reorder" THEN Reordered(ctl[c]) ELSE pos
               /\ UNCHANGED state
      <3>1. rev' \in [Commands -> Nat]
        BY <1>0, <2>4 DEF Revise, RowsOK
      <3>2. hold' \in [Commands -> BOOLEAN]
        BY <1>0, <2>4 DEF RowsOK
      <3>3. pos' \in [Commands -> Nat]
        BY <1>0, <2>1, <2>4, ReorderedType DEF RowsOK
      <3> QED BY <1>0, <2>2, <2>4, <3>1, <3>2, <3>3 DEF RowsOK
    <2> QED BY <1>3, <2>3, <2>4 DEF ControlCommit
  <1>4. CASE AdmitCommit
    <2>1. PICK first \in Unheld :
             /\ IsFirst(first)
             /\ TakeInto(first, Members(first))
             /\ state' = [m \in Commands |-> IF m \in Members(first) THEN "admitted" ELSE state[m]]
             /\ sent' = [m \in Commands |-> IF m \in Members(first) THEN adm.seen[m].rev
                                                                  ELSE sent[m]]
      BY <1>4 DEF AdmitCommit
    <2>2. first \in Commands /\ \A m \in Commands : adm.seen[m].rev \in Nat
      BY DEF TypeOK, Adms, SeenIntents, Unheld
    <2>3. UNCHANGED <<receipts, pos, hold, rev>>
      BY <1>4 DEF AdmitCommit
    <2> QED BY <1>0, <2>1, <2>2, <2>3, TakeIntoTypes DEF RowsOK
  <1>5. CASE EndCommit
    BY <1>0, <1>5 DEF EndCommit, RowsOK
  <1> QED BY <1>1, <1>2, <1>3, <1>4, <1>5, RowStep

\* The clock, the inputs, the Host and the ends of drives.
OthersOK ==
    /\ now \in Nat
    /\ stop \in [Commands -> {"none", "pending", "consumed"}]
    /\ delivery \in BOOLEAN
    /\ arrived \in Nat
    /\ host \in {"down", "scan", "up"}
    /\ blocked \in BOOLEAN
    /\ crashes \in Nat
    /\ ended \subseteq Commands

LEMMA OtherTypes ==
  ASSUME TypeOK, [Next]_vars
  PROVE  OthersOK'
  <1>0. OthersOK
    BY DEF TypeOK, OthersOK
  <1>1. CASE UNCHANGED <<now, inputs, hostVars, ended>>
    BY <1>0, <1>1 DEF OthersOK
  <1>2. ASSUME NEW c \in Callers, (\E m \in Commands : StartBegin(c, m)) \/ Starting(c)
        PROVE  UNCHANGED <<now, inputs, hostVars, ended>>
    BY <1>2 DEF Starting, StartBegin, StartLook, StartCommit, StartRaced, StartRejected,
                StartWake, ToOp
  <1>3. ASSUME NEW c \in Controllers, ControlRead(c) \/ ReorderRead(c) \/ Controlling(c)
        PROVE  UNCHANGED <<now, inputs, hostVars, ended>>
    BY <1>3 DEF ControlRead, ReorderRead, Controlling, ControlCommit, ControlConflict,
                ControlWake, ToCtl
  <1>4. CASE Admitting
    BY <1>1, <1>4 DEF Admitting, AdmitLook, AdmitList, AdmitRead, AdmitCommit, AdmitNull,
                      AdmitFinish, ToAdm
  <1>5. CASE Tick \/ DriveEnded
    BY <1>0, <1>5 DEF Tick, DriveEnded, OthersOK
  <1>6. CASE Interrupt
    <2>1. /\ arrived' = arrived + 1
          /\ UNCHANGED <<now, hostVars, ended, delivery>>
      BY <1>6 DEF Interrupt, Arrives
    <2>2. stop' \in [Commands -> {"none", "pending", "consumed"}]
      BY <1>0, <1>6 DEF Interrupt, OthersOK
    <2> QED BY <1>0, <2>1, <2>2 DEF OthersOK
  <1>9. CASE DeliveryArrives \/ Absorb
    <2>1. /\ delivery' \in BOOLEAN /\ arrived' \in {arrived, arrived + 1}
          /\ UNCHANGED <<now, stop, hostVars, ended>>
      BY <1>9 DEF DeliveryArrives, Absorb, Arrives, ToExec
    <2> QED BY <1>0, <2>1 DEF OthersOK
  <1>10. CASE Crash
    <2>1. /\ host' = "down" /\ blocked' = FALSE /\ ended' = {} /\ crashes' = crashes + 1
          /\ UNCHANGED <<now, stop, delivery, arrived>>
      BY <1>10 DEF Crash
    <2>2. crashes' \in Nat
      <3>1. crashes' = crashes + 1
        BY <1>10 DEF Crash
      <3> QED BY <1>0, <3>1 DEF OthersOK
    <2>4. host' \in {"down", "scan", "up"} /\ ended' \subseteq Commands
      BY <1>10 DEF Crash
    <2>5. blocked' \in BOOLEAN
      BY <2>1, Zenon
    <2>3. /\ now' \in Nat /\ arrived' \in Nat /\ delivery' \in BOOLEAN
          /\ stop' \in [Commands -> {"none", "pending", "consumed"}]
      BY <1>0, <2>1 DEF OthersOK
    <2> QED BY <2>2, <2>3, <2>4, <2>5 DEF OthersOK
  <1>11. CASE RecoverTurn
    <2>1. /\ host' = "scan" /\ blocked' = (lease # None)
          /\ UNCHANGED <<now, crashes, inputs, ended>>
      BY <1>11 DEF RecoverTurn
    <2>2. (lease # None) \in BOOLEAN
      OBVIOUS
    <2> HIDE DEF inputs
    <2>3. blocked' \in BOOLEAN
      BY <2>1, <2>2
    <2> USE DEF inputs
    <2> QED BY <1>0, <2>1, <2>3 DEF OthersOK
  <1>12. CASE RecoverQueue
    <2>1. /\ host' = "up"
          /\ UNCHANGED <<now, blocked, crashes, inputs, ended>>
      BY <1>12 DEF RecoverQueue
    <2> QED BY <1>0, <2>1 DEF OthersOK
  <1>7. CASE EndCommit
    <2>1. lease \in Commands
      BY <1>7 DEF EndCommit, Drives, TypeOK
    <2> QED BY <1>0, <1>7, <2>1 DEF EndCommit, OthersOK
  <1>8. CASE EndInterrupted \/ EndOwn \/ EndHandoff \/ EndConflict
    BY <1>0, <1>8 DEF EndInterrupted, EndOwn, EndHandoff, EndConflict, ToExec, OthersOK
  <1> QED
    BY <1>1, <1>2, <1>3, <1>4, <1>5, <1>6, <1>7, <1>8, <1>9, <1>10, <1>11, <1>12
       DEF Next, Ending, Recovering

LEMMA TypeStep == TypeOK /\ ReceiptsMatch /\ HeldAreInputs /\ [Next]_vars => TypeOK'
  <1> SUFFICES ASSUME TypeOK, ReceiptsMatch, HeldAreInputs, [Next]_vars PROVE TypeOK'
    OBVIOUS
  <1>1. RowsOK' /\ OthersOK'
    BY RowTypes, OtherTypes
  <1>2. op' \in [Callers -> Ops] /\ ctl' \in [Controllers -> Ctls]
    BY OpStep, CtlStep
  <1>3. /\ adm' \in Adms
        /\ adm'.read \subseteq adm'.listed
        /\ adm'.pc \notin {"read", "commit"} => adm'.read = {}
    <2>1. CASE AdmKept
      <3>1. /\ adm.read \subseteq adm.listed
            /\ adm.pc \notin {"read", "commit"} => adm.read = {}
        BY DEF TypeOK
      <3>2. adm' \in Adms
        BY AdmStep
      <3> QED BY <2>1, <3>1, <3>2 DEF AdmKept
    <2>4. CASE AdmReset
      BY <2>4, AdmStep DEF AdmReset
    <2>2. CASE AdmitList
      <3>1. CASE Queued = {}
        BY <2>2, <3>1, PassIs DEF AdmitList, ToAdm
      <3>2. CASE Queued # {}
        <4>1. adm \in Adms /\ adm.read = {} /\ Queued \subseteq Commands
          BY <2>2 DEF TypeOK, AdmitList, Queued
        <4>2. adm' = [adm EXCEPT !.pc = "read", !.listed = Queued]
          BY <2>2, <3>2 DEF AdmitList, ToAdm
        <4> QED BY <4>1, <4>2 DEF Adms
      <3> QED BY <3>1, <3>2
    <2>3. CASE AdmitRead
      BY <2>3, ReadIs DEF TypeOK
    <2> QED BY <2>1, <2>2, <2>3, <2>4, AdmStep
  <1>4. exec' \in Execs
    <2>1. CASE EndHandoff
      <3>1. PICK m \in Boundary : exec' = [pc |-> "end", status |-> "handoff", to |-> m,
                                           toRev |-> rev[m]]
        BY <2>1 DEF EndHandoff, ToExec
      <3>2. m \in Commands /\ rev[m] \in Nat
        BY DEF Boundary, Guidance, Queued, TypeOK
      <3> QED BY <3>1, <3>2 DEF Execs
    <2> QED BY <2>1, ExecStep DEF Decided, TypeOK
  <1> QED BY <1>1, <1>2, <1>3, <1>4 DEF TypeOK, RowsOK, OthersOK

---------------------------------------------------------------------------
(* What the commits do to the rows. *)

\* The rows an admission writes, and why: its members still wait, with the
\* revisions that were read.
LEMMA AdmitIs ==
  ASSUME TypeOK, AdmitCommit
  PROVE  \E first \in Unheld :
            LET S == Members(first)
            IN /\ IsFirst(first)
               /\ first \in S
               /\ S \subseteq Unheld
               /\ Unheld \subseteq Queued
               /\ \A m \in Unheld : rev[m] = adm.seen[m].rev
               /\ TakeInto(first, S)
               /\ state' = [m \in Commands |-> IF m \in S THEN "admitted" ELSE state[m]]
               /\ sent' = [m \in Commands |-> IF m \in S THEN adm.seen[m].rev ELSE sent[m]]
               /\ UNCHANGED <<receipts, pos, hold, rev, exec>>
  <1>1. PICK first \in Unheld :
             /\ IsFirst(first)
             /\ TakeInto(first, Members(first))
             /\ state' = [m \in Commands |-> IF m \in Members(first) THEN "admitted" ELSE state[m]]
             /\ sent' = [m \in Commands |-> IF m \in Members(first) THEN adm.seen[m].rev
                                                                  ELSE sent[m]]
    BY DEF AdmitCommit
  <1>2. /\ Queued = adm.listed
        /\ \A m \in adm.read : rev[m] = adm.seen[m].rev
        /\ UNCHANGED <<receipts, pos, hold, rev, exec>>
    BY DEF AdmitCommit, QueueHolds, ToAdm
  <1>3. Unheld \subseteq adm.read /\ adm.read \subseteq adm.listed
    BY DEF Unheld, TypeOK
  <1>4. first \in Members(first) /\ Members(first) \subseteq Unheld
    BY <1>1, FirstIsMember, MembersAreRead
  <1> QED BY <1>1, <1>2, <1>3, <1>4

\* A control revises inputs that are queued, or cancels one.
LEMMA ControlIs ==
  ASSUME TypeOK, HeldAreInputs, NEW c \in Controllers, ControlCommit(c)
  PROVE  /\ ctl[c] \in Ctls
         /\ ctl[c].cmd \in ctl[c].of
         /\ ctl[c].of \subseteq Queued
         /\ IsInput(ctl[c].cmd)
         /\ UNCHANGED <<receipts, turns, exec, adm>>
         /\ \/ /\ state' = [state EXCEPT ![ctl[c].cmd] = "cancelled"]
               /\ UNCHANGED <<rev, hold, pos>>
            \/ /\ UNCHANGED state
               /\ rev' = [m \in Commands |-> IF m \in ctl[c].of THEN rev[m] + 1 ELSE rev[m]]
               /\ \A m \in Commands \ ctl[c].of : pos'[m] = pos[m]
               /\ \A m \in Commands \ {ctl[c].cmd} : hold'[m] = hold[m]
  <1>1. ctl[c] \in Ctls /\ ctl[c].pc = "commit" /\ RevisionsHold(ctl[c])
    BY DEF TypeOK, ControlCommit, ControlHolds
  <1>2. ctl[c].cmd \in ctl[c].of /\ IsInput(ctl[c].cmd) /\ ctl[c].of \subseteq Queued
    BY <1>1 DEF HeldAreInputs, RevisionsHold, Ctls, Queued
  <1>3. UNCHANGED <<receipts, turns, exec, adm>>
    BY DEF ControlCommit, ToCtl
  <1>4. CASE state' = [state EXCEPT ![ctl[c].cmd] = "cancelled"] /\ UNCHANGED <<rev, hold, pos>>
    BY <1>1, <1>2, <1>3, <1>4
  <1>5. CASE /\ Revise(ctl[c].of)
             /\ hold' = CASE ctl[c].what = "pause" -> [hold EXCEPT ![ctl[c].cmd] = TRUE]
                          [] ctl[c].what = "resume" -> [hold EXCEPT ![ctl[c].cmd] = FALSE]
                          [] OTHER -> hold
             /\ pos' = IF ctl[c].what = "reorder" THEN Reordered(ctl[c]) ELSE pos
             /\ UNCHANGED state
    <2>1. rev' = [m \in Commands |-> IF m \in ctl[c].of THEN rev[m] + 1 ELSE rev[m]]
      BY <1>5 DEF Revise
    <2>2. \A m \in Commands \ ctl[c].of : pos'[m] = pos[m]
      BY <1>5 DEF Reordered
    <2>3. \A m \in Commands \ {ctl[c].cmd} : hold'[m] = hold[m]
      BY <1>5 DEF TypeOK
    <2> QED BY <1>1, <1>2, <1>3, <1>5, <2>1, <2>2, <2>3
  <1> QED BY <1>4, <1>5 DEF ControlCommit

\* A start command writes one new intent.
LEMMA StartIs ==
  ASSUME TypeOK, ReceiptsMatch, NEW c \in Callers, StartCommit(c)
  PROVE  /\ op[c].cmd \in Commands
         /\ op[c].cmd \notin receipts
         /\ state[op[c].cmd] = "absent"
         /\ StartHolds(c)
         /\ UNCHANGED <<hold, exec, inputs>>
         /\ receipts' = receipts \cup {op[c].cmd}
         /\ pos' = [pos EXCEPT ![op[c].cmd] = op[c].at]
         /\ rev' = [rev EXCEPT ![op[c].cmd] = 1]
         /\ \/ /\ state' = [state EXCEPT ![op[c].cmd] = "queued"]
               /\ UNCHANGED turns
            \/ /\ state' = [state EXCEPT ![op[c].cmd] = "admitted"]
               /\ sent' = [sent EXCEPT ![op[c].cmd] = 1]
               /\ lease = None /\ ~op[c].wait
               /\ TakeInto(op[c].cmd, {op[c].cmd})
  <1>1. op[c].cmd \in Commands /\ op[c].cmd \notin receipts
    BY DEF StartCommit, IsNew, ReceiptsMatch, TypeOK, Ops
  <1>2. state[op[c].cmd] = "absent"
    BY <1>1 DEF ReceiptsMatch
  <1>3. StartHolds(c) /\ UNCHANGED <<exec, inputs>>
    BY DEF StartCommit, ToOp
  <1>4. CASE Accept(op[c].cmd, op[c].at)
    BY <1>1, <1>2, <1>3, <1>4 DEF Accept
  <1>5. CASE lease = None /\ ~op[c].wait /\ AcceptAndAdmit(op[c].cmd, op[c].at)
    BY <1>1, <1>2, <1>3, <1>5 DEF AcceptAndAdmit
  <1> QED BY <1>4, <1>5 DEF StartCommit

LEMMA EndIs ==
  ASSUME TypeOK, EndCommit
  PROVE  /\ lease \in Commands
         /\ turn' = [turn EXCEPT ![lease] = "terminated"]
         /\ lease' = None
         /\ InputsHold /\ HandoffHolds
         /\ UNCHANGED <<intents, turnOf, sent>>
  BY DEF EndCommit, Drives, TypeOK

---------------------------------------------------------------------------
(* The parts of the invariant, one by one. *)

LEMMA ReceiptsStep ==
  ASSUME TypeOK, ReceiptsMatch, HeldAreInputs, [Next]_vars
  PROVE  ReceiptsMatch'
  <1> DEFINE Match == receipts = {m \in Commands : state[m] # "absent"}
  <1>0. Match
    BY DEF ReceiptsMatch
  <1>1. Match' /\ receipts \subseteq receipts'
    <2>1. CASE UNCHANGED <<intents, turns>>
      BY <1>0, <2>1
    <2>2. ASSUME NEW c \in Callers, StartCommit(c) PROVE Match' /\ receipts \subseteq receipts'
      <3>1. /\ receipts' = receipts \cup {op[c].cmd} /\ op[c].cmd \in Commands
            /\ \/ state' = [state EXCEPT ![op[c].cmd] = "queued"]
               \/ state' = [state EXCEPT ![op[c].cmd] = "admitted"]
        BY <2>2, StartIs
      <3>2. state \in [Commands -> {"absent", "queued", "admitted", "cancelled"}]
        BY DEF TypeOK
      <3> QED BY <1>0, <3>1, <3>2
    <2>3. ASSUME NEW c \in Controllers, ControlCommit(c)
          PROVE  Match' /\ receipts \subseteq receipts'
      BY <1>0, <2>3, ControlIs DEF TypeOK, Queued
    <2>4. CASE AdmitCommit
      BY <1>0, <2>4, AdmitIs DEF Queued
    <2>5. CASE EndCommit
      BY <1>0, <2>5, EndIs
    <2> QED BY <2>1, <2>2, <2>3, <2>4, <2>5, RowStep
  <1>2. adm'.listed \subseteq receipts'
    <2>1. adm.listed \subseteq receipts /\ Queued \subseteq receipts
      BY DEF ReceiptsMatch, Queued
    <2>2. CASE AdmKept \/ AdmReset
      BY <1>1, <2>1, <2>2 DEF AdmKept, AdmReset
    <2>3. CASE AdmitList
      BY <1>1, <2>1, <2>3, PassIs DEF AdmitList, ToAdm, TypeOK, Adms
    <2>4. CASE AdmitRead
      BY <1>1, <2>1, <2>4, ReadIs
    <2> QED BY <2>2, <2>3, <2>4, AdmStep
  <1>3. \A c \in Callers : Planned(op'[c])
    BY OpStep
  <1> QED BY <1>1, <1>2, <1>3 DEF ReceiptsMatch, Planned

LEMMA HeldStep ==
  ASSUME TypeOK, ReceiptsMatch, HeldAreInputs, [Next]_vars
  PROVE  HeldAreInputs'
  <1>0. \A m \in Commands : hold[m] => IsInput(m)
    BY DEF HeldAreInputs
  <1>1. \A m \in Commands : hold'[m] => IsInput(m)
    <2>1. CASE UNCHANGED hold
      BY <1>0, <2>1
    <2>2. ASSUME NEW c \in Controllers, ControlCommit(c)
          PROVE  \A m \in Commands : hold'[m] => IsInput(m)
      <3>1. IsInput(ctl[c].cmd) /\ \A m \in Commands \ {ctl[c].cmd} : hold'[m] = hold[m]
        BY <2>2, ControlIs
      <3> QED BY <1>0, <3>1
    <2>3. ASSUME NEW c \in Callers, StartCommit(c) PROVE UNCHANGED hold
      BY <2>3, StartIs
    <2> QED BY <2>1, <2>2, <2>3, AdmitIs, EndIs, RowStep
  <1>2. \A c \in Controllers : AboutInput(ctl'[c])
    BY CtlStep
  <1> QED BY <1>1, <1>2 DEF HeldAreInputs, AboutInput, IsInput

\* The revision of an intent is the fence of all that is read of it.
LEMMA RevisionFences ==
  ASSUME TypeOK, ReceiptsMatch, HeldAreInputs, [Next]_vars, NEW m \in receipts
  PROVE  /\ m \in receipts'
         /\ rev[m] <= rev'[m]
         /\ rev'[m] = rev[m] /\ state'[m] = "queued"
               => state[m] = "queued" /\ pos'[m] = pos[m] /\ hold'[m] = hold[m]
  <1>0. m \in Commands /\ rev[m] \in Nat
    BY DEF TypeOK
  <1>1. CASE UNCHANGED <<intents, turns>>
    BY <1>0, <1>1
  <1>2. ASSUME NEW c \in Callers, StartCommit(c)
        PROVE  m \in receipts' /\ UNCHANGED <<rev[m], state[m], pos[m], hold[m]>>
    <2>1. op[c].cmd # m /\ receipts' = receipts \cup {op[c].cmd} /\ UNCHANGED hold
      BY <1>2, StartIs
    <2>3. /\ pos' = [pos EXCEPT ![op[c].cmd] = op[c].at]
          /\ rev' = [rev EXCEPT ![op[c].cmd] = 1]
          /\ \/ state' = [state EXCEPT ![op[c].cmd] = "queued"]
             \/ state' = [state EXCEPT ![op[c].cmd] = "admitted"]
      BY <1>2, StartIs
    <2>2. /\ state \in [Commands -> {"absent", "queued", "admitted", "cancelled"}]
          /\ pos \in [Commands -> Nat] /\ rev \in [Commands -> Nat]
      BY DEF TypeOK
    <2> QED BY <1>0, <2>1, <2>2, <2>3
  <1>3. ASSUME NEW c \in Controllers, ControlCommit(c)
        PROVE  /\ m \in receipts'
               /\ rev[m] <= rev'[m]
               /\ rev'[m] = rev[m] /\ state'[m] = "queued"
                     => state[m] = "queued" /\ pos'[m] = pos[m] /\ hold'[m] = hold[m]
    <2>1. /\ ctl[c].cmd \in ctl[c].of
          /\ receipts' = receipts
          /\ \/ /\ state' = [state EXCEPT ![ctl[c].cmd] = "cancelled"]
                /\ UNCHANGED <<rev, hold, pos>>
             \/ /\ UNCHANGED state
                /\ rev' = [n \in Commands |-> IF n \in ctl[c].of THEN rev[n] + 1 ELSE rev[n]]
                /\ \A n \in Commands \ ctl[c].of : pos'[n] = pos[n]
                /\ \A n \in Commands \ {ctl[c].cmd} : hold'[n] = hold[n]
      BY <1>3, ControlIs
    <2>2. state \in [Commands -> {"absent", "queued", "admitted", "cancelled"}]
      BY DEF TypeOK
    <2> QED BY <1>0, <2>1, <2>2
  <1>4. CASE AdmitCommit
    BY <1>0, <1>4, AdmitIs
  <1>5. CASE EndCommit
    BY <1>0, <1>5, EndIs
  <1> QED BY <1>0, <1>1, <1>2, <1>3, <1>4, <1>5, RowStep

LEMMA ObservedHolds ==
  ASSUME NEW m \in Commands, state[m] = "queued", state'[m] = "queued",
         rev'[m] = rev[m], pos'[m] = pos[m], hold'[m] = hold[m]
  PROVE  Observed(m)' = Observed(m) /\ (m \in Guidance)' = (m \in Guidance)
  <1>1. (m \in Guidance)' = (m \in Guidance)
    BY DEF Guidance, Queued, IsInput
  <1> QED BY <1>1 DEF Observed

LEMMA SeenStep ==
  ASSUME TypeOK, ReceiptsMatch, HeldAreInputs, SeenIsCurrent, [Next]_vars
  PROVE  SeenIsCurrent'
  <1> DEFINE Current(m) ==
                /\ adm.seen[m].rev <= rev[m]
                /\ state[m] = "queued" /\ adm.seen[m].rev = rev[m]
                      => adm.seen[m] = Observed(m)
  <1>0. adm \in Adms /\ \A m \in adm.read : m \in Commands /\ m \in receipts /\ Current(m)
    BY DEF SeenIsCurrent, TypeOK, Adms, ReceiptsMatch
  <1>1. ASSUME NEW m \in adm.read, adm'.seen[m] = adm.seen[m]
        PROVE  Current(m)'
    <2>1. /\ rev[m] \in Nat /\ rev'[m] \in Nat /\ adm.seen[m].rev \in Nat
      BY <1>0, RowTypes DEF TypeOK, RowsOK, Adms, SeenIntents
    <2>2. /\ rev[m] <= rev'[m]
          /\ rev'[m] = rev[m] /\ state'[m] = "queued"
                => state[m] = "queued" /\ pos'[m] = pos[m] /\ hold'[m] = hold[m]
      BY <1>0, RevisionFences
    <2>3. adm'.seen[m].rev <= rev'[m]
      BY <1>0, <1>1, <2>1, <2>2
    <2>4. ASSUME state'[m] = "queued", adm'.seen[m].rev = rev'[m]
          PROVE  adm'.seen[m] = Observed(m)'
      <3>1. rev'[m] = rev[m]
        BY <1>0, <1>1, <2>1, <2>2, <2>4
      <3>2. state[m] = "queued" /\ pos'[m] = pos[m] /\ hold'[m] = hold[m]
        BY <2>2, <2>4, <3>1
      <3>3. Observed(m)' = Observed(m)
        BY <1>0, <2>4, <3>1, <3>2, ObservedHolds
      <3>4. adm.seen[m] = Observed(m)
        BY <1>0, <1>1, <2>4, <3>1, <3>2
      <3> QED BY <1>1, <3>3, <3>4
    <2> QED BY <2>3, <2>4
  <1>2. CASE AdmKept
    <2>1. adm'.pc = "commit" => adm'.read = adm'.listed
      BY <1>2 DEF AdmKept, SeenIsCurrent
    <2>2. \A m \in adm'.read : Current(m)'
      BY <1>1, <1>2 DEF AdmKept
    <2> QED BY <2>1, <2>2 DEF SeenIsCurrent
  <1>3. CASE AdmReset
    BY <1>3 DEF AdmReset, SeenIsCurrent
  <1>4. CASE AdmitList
    <2>1. CASE Queued = {}
      BY <1>4, <2>1, PassIs DEF AdmitList, ToAdm, SeenIsCurrent
    <2>2. CASE Queued # {}
      <3>1. adm' = [adm EXCEPT !.pc = "read", !.listed = Queued] /\ adm.read = {}
        BY <1>4, <2>2 DEF AdmitList, ToAdm, TypeOK
      <3>2. adm'.pc = "read" /\ adm'.read = {}
        BY <1>0, <3>1 DEF Adms
      <3> QED BY <3>2 DEF SeenIsCurrent
    <2> QED BY <2>1, <2>2
  <1>5. CASE AdmitRead
    <2>1. PICK n \in adm.listed \ adm.read :
            /\ adm' \in Adms
            /\ adm'.read = adm.read \cup {n}
            /\ adm'.seen = [adm.seen EXCEPT ![n] = Observed(n)]
            /\ adm'.pc = "commit" => adm'.read = adm'.listed
      BY <1>5, ReadIs
    <2>2. n \in Commands /\ UNCHANGED <<intents>>
      BY <1>0, <1>5 DEF AdmitRead, Adms
    <2>3. ASSUME NEW m \in adm.read PROVE Current(m)'
      <3>1. adm'.seen[m] = adm.seen[m]
        BY <1>0, <2>1 DEF Adms
      <3> QED BY <1>1, <3>1
    <2>4. Current(n)'
      <3>1. adm'.seen[n] = Observed(n) /\ Observed(n)' = Observed(n)
        BY <1>0, <2>1, <2>2 DEF Adms, Observed, Guidance, Queued, IsInput
      <3>2. Observed(n).rev = rev[n] /\ rev'[n] = rev[n] /\ rev[n] \in Nat
        BY <2>2 DEF Observed, TypeOK
      <3> QED BY <3>1, <3>2
    <2> QED BY <2>1, <2>3, <2>4 DEF SeenIsCurrent
  <1> QED BY <1>2, <1>3, <1>4, <1>5, AdmStep

LEMMA HandoffStep ==
  ASSUME TypeOK, ReceiptsMatch, HeldAreInputs, HandoffIsCurrent, [Next]_vars
  PROVE  HandoffIsCurrent'
  <1>1. CASE UNCHANGED exec
    <2> SUFFICES ASSUME exec.status = "handoff"
                 PROVE  /\ exec.to \in receipts'
                        /\ exec.toRev <= rev'[exec.to]
                        /\ state'[exec.to] = "queued" /\ rev'[exec.to] = exec.toRev
                              => (exec.to \in Boundary)'
      BY <1>1 DEF HandoffIsCurrent
    <2>0. PICK m \in Commands : m = exec.to /\ m \in receipts
      BY DEF HandoffIsCurrent, TypeOK
    <2>1. /\ exec.toRev <= rev[m]
          /\ state[m] = "queued" /\ rev[m] = exec.toRev => m \in Boundary
      BY <2>0 DEF HandoffIsCurrent
    <2>2. rev[m] \in Nat /\ rev'[m] \in Nat /\ exec.toRev \in Nat
      BY RowTypes DEF TypeOK, RowsOK, Execs
    <2>3. /\ m \in receipts'
          /\ rev[m] <= rev'[m]
          /\ rev'[m] = rev[m] /\ state'[m] = "queued"
                => state[m] = "queued" /\ pos'[m] = pos[m] /\ hold'[m] = hold[m]
      BY <2>0, RevisionFences
    <2>4. ASSUME state'[m] = "queued", rev'[m] = exec.toRev
          PROVE  (m \in Boundary)'
      <3>1. rev'[m] = rev[m]
        BY <2>1, <2>2, <2>3, <2>4
      <3>2. state[m] = "queued" /\ pos'[m] = pos[m] /\ hold'[m] = hold[m]
        BY <2>3, <2>4, <3>1
      <3>3. (m \in Guidance)' = (m \in Guidance)
        BY <2>4, <3>1, <3>2, ObservedHolds
      <3> QED BY <2>1, <2>4, <3>1, <3>2, <3>3 DEF Boundary
    <2> QED BY <1>1, <2>0, <2>1, <2>2, <2>3, <2>4
  <1>2. CASE exec'.status # "handoff"
    BY <1>2 DEF HandoffIsCurrent
  <1>3. CASE EndHandoff
    <2>1. PICK m \in Boundary :
             exec' = [pc |-> "end", status |-> "handoff", to |-> m, toRev |-> rev[m]]
      BY <1>3 DEF EndHandoff, ToExec
    <2>2. UNCHANGED intents
      BY <1>3 DEF EndHandoff, ToExec
    <2>3. m \in Commands /\ state[m] = "queued" /\ rev[m] \in Nat
      BY DEF Boundary, Guidance, Queued, TypeOK
    <2>4. m \in receipts' /\ (m \in Boundary)' /\ rev'[m] = rev[m]
      BY <2>1, <2>2, <2>3 DEF ReceiptsMatch, Boundary, Guidance, Queued, IsInput
    <2> QED BY <2>1, <2>3, <2>4 DEF HandoffIsCurrent
  <1> QED BY <1>1, <1>2, <1>3, ExecStep DEF Decided

LEMMA OneTurnStep ==
  ASSUME TypeOK, ReceiptsMatch, HeldAreInputs, OneTurn, [Next]_vars
  PROVE  OneTurn'
  <1>0. /\ state \in [Commands -> {"absent", "queued", "admitted", "cancelled"}]
        /\ turnOf \in [Commands -> Commands \cup {None}]
        /\ turn \in [Commands -> {"none", "active", "terminated"}]
        /\ lease \in Commands \cup {None}
        /\ None \notin Commands
    BY CommandsAssumption DEF TypeOK
  <1>1. CASE UNCHANGED <<state, turns>>
    BY <1>1 DEF OneTurn
  <1>2. ASSUME NEW t \in Commands, NEW S \in SUBSET Commands, t \in S, lease = None,
               \A m \in S : state[m] # "admitted",
               TakeInto(t, S),
               \A m \in Commands : state'[m] = IF m \in S THEN "admitted" ELSE state[m]
        PROVE  OneTurn'
    <2>1. /\ \A m \in Commands : turnOf'[m] = IF m \in S THEN t ELSE turnOf[m]
          /\ \A u \in Commands : turn'[u] = IF u = t THEN "active" ELSE turn[u]
          /\ lease' = t
      BY <1>0, <1>2 DEF TakeInto
    <2>2. turnOf[t] = None /\ turn[t] = "none"
      BY <1>0, <1>2 DEF OneTurn
    <2>3. \A u \in Commands : turn'[u] = "active" <=> lease' = u
      BY <1>0, <1>2, <2>1 DEF OneTurn
    <2>4. \A u \in Commands : turn'[u] # "none" => turnOf'[u] = u
      <3> SUFFICES ASSUME NEW u \in Commands, turn'[u] # "none" PROVE turnOf'[u] = u
        OBVIOUS
      <3>1. CASE u = t
        BY <1>2, <2>1, <3>1
      <3>2. CASE u # t
        <4>1. turn[u] # "none" /\ turnOf[u] = u
          BY <2>1, <3>2 DEF OneTurn
        <4>2. u \notin S
          BY <1>0, <1>2, <4>1 DEF OneTurn
        <4> QED BY <2>1, <4>1, <4>2
      <3> QED BY <3>1, <3>2
    <2>5. \A m \in Commands : state'[m] = "admitted" <=> turnOf'[m] # None
      BY <1>0, <1>2, <2>1 DEF OneTurn
    <2>6. ASSUME NEW m \in Commands, turnOf'[m] # None
          PROVE  turn'[turnOf'[m]] # "none"
      <3>1. CASE m \in S
        BY <1>2, <2>1, <3>1
      <3>2. CASE m \notin S
        <4>1. turnOf'[m] = turnOf[m] /\ turnOf[m] \in Commands /\ turn[turnOf[m]] # "none"
          BY <1>0, <2>1, <2>6, <3>2 DEF OneTurn
        <4> QED BY <2>1, <4>1
      <3> QED BY <3>1, <3>2
    <2> QED BY <2>3, <2>4, <2>5, <2>6 DEF OneTurn
  <1>3. ASSUME NEW c \in Callers, StartCommit(c) PROVE OneTurn'
    <2> DEFINE m == op[c].cmd
    <2>1. m \in Commands /\ state[m] = "absent"
      BY <1>3, StartIs
    <2>2. CASE state' = [state EXCEPT ![m] = "queued"] /\ UNCHANGED turns
      BY <1>0, <2>1, <2>2 DEF OneTurn
    <2>3. CASE /\ state' = [state EXCEPT ![m] = "admitted"]
               /\ lease = None
               /\ TakeInto(m, {m})
      <3>1. \A n \in Commands : state'[n] = IF n \in {m} THEN "admitted" ELSE state[n]
        BY <1>0, <2>1, <2>3
      <3>2. {m} \in SUBSET Commands /\ m \in {m} /\ \A n \in {m} : state[n] # "admitted"
        BY <2>1
      <3> QED BY <1>2, <2>1, <2>3, <3>1, <3>2
    <2> QED BY <1>3, <2>2, <2>3, StartIs
  <1>4. ASSUME NEW c \in Controllers, ControlCommit(c) PROVE OneTurn'
    <2>1. /\ ctl[c].cmd \in Queued
          /\ UNCHANGED turns
          /\ UNCHANGED state \/ state' = [state EXCEPT ![ctl[c].cmd] = "cancelled"]
      BY <1>4, ControlIs
    <2> QED BY <1>0, <2>1 DEF OneTurn, Queued
  <1>5. CASE AdmitCommit
    <2>1. PICK first \in Unheld :
             /\ first \in Members(first)
             /\ Members(first) \subseteq Queued
             /\ TakeInto(first, Members(first))
             /\ state' = [m \in Commands |-> IF m \in Members(first) THEN "admitted" ELSE state[m]]
      BY <1>5, AdmitIs
    <2>2. /\ first \in Commands /\ Members(first) \in SUBSET Commands /\ lease = None
          /\ \A m \in Members(first) : state[m] # "admitted"
      BY <1>5, <2>1 DEF AdmitCommit, Queued
    <2>3. \A m \in Commands : state'[m] = IF m \in Members(first) THEN "admitted" ELSE state[m]
      BY <2>1
    <2> HIDE DEF Members, Unheld
    <2> QED BY <1>2, <2>1, <2>2, <2>3
  <1>6. CASE EndCommit
    <2>1. /\ lease \in Commands
          /\ turn' = [turn EXCEPT ![lease] = "terminated"]
          /\ lease' = None
          /\ UNCHANGED <<state, turnOf>>
      BY <1>6, EndIs
    <2>2. \A u \in Commands : turn'[u] = IF u = lease THEN "terminated" ELSE turn[u]
      BY <1>0, <2>1
    <2>3. turn[lease] = "active" /\ turnOf[lease] = lease
      BY <2>1 DEF OneTurn
    <2> QED BY <1>0, <2>1, <2>2, <2>3 DEF OneTurn
  <1> QED BY <1>1, <1>3, <1>4, <1>5, <1>6, RowStep

\* Turns begin at a commit and end with EndCommit alone.
LEMMA TurnsGoOn ==
  ASSUME TypeOK, ReceiptsMatch, HeldAreInputs, [Next]_vars, ~EndCommit
  PROVE  /\ \A t \in Commands : turn[t] = "active" => turn'[t] = "active"
         /\ lease' = None => lease = None
  <1>0. turn \in [Commands -> {"none", "active", "terminated"}] /\ None \notin Commands
    BY CommandsAssumption DEF TypeOK
  <1>1. ASSUME NEW u \in Commands, NEW S, TakeInto(u, S)
        PROVE  /\ \A t \in Commands : turn[t] = "active" => turn'[t] = "active"
               /\ lease' # None
    BY <1>0, <1>1 DEF TakeInto
  <1>2. ASSUME NEW c \in Callers, StartCommit(c)
        PROVE  UNCHANGED turns \/ \E u \in Commands, S \in SUBSET Commands : TakeInto(u, S)
    <2>1. op[c].cmd \in Commands /\ {op[c].cmd} \in SUBSET Commands
      BY <1>2, StartIs
    <2> QED BY <1>2, <2>1, StartIs
  <1>3. CASE AdmitCommit
    <2>1. PICK first \in Unheld : TakeInto(first, Members(first))
      BY <1>3, AdmitIs
    <2>2. first \in Commands
      BY DEF Unheld, TypeOK, Adms
    <2> QED BY <1>1, <2>1, <2>2
  <1> QED BY <1>1, <1>2, <1>3, ControlIs, RowStep

\* What becomes of the inputs of the active Turn.
LEMMA InputStep ==
  ASSUME TypeOK, [Next]_vars
  PROVE  \/ UNCHANGED <<stop, delivery>>
         \/ Interrupt /\ UNCHANGED <<turns, delivery>>
         \/ lease # None /\ UNCHANGED <<turns, stop>>
         \/ EndCommit
  <1>1. ASSUME NEW c \in Callers, (\E m \in Commands : StartBegin(c, m)) \/ Starting(c)
        PROVE  UNCHANGED <<stop, delivery>>
    BY <1>1 DEF Starting, StartBegin, StartLook, StartCommit, StartRaced, StartRejected,
                StartWake, ToOp
  <1>2. ASSUME NEW c \in Controllers, ControlRead(c) \/ ReorderRead(c) \/ Controlling(c)
        PROVE  UNCHANGED <<stop, delivery>>
    BY <1>2 DEF ControlRead, ReorderRead, Controlling, ControlCommit, ControlConflict,
                ControlWake, ToCtl
  <1>3. CASE Admitting
    BY <1>3 DEF Admitting, AdmitLook, AdmitList, AdmitRead, AdmitCommit, AdmitNull,
                AdmitFinish, ToAdm
  <1>4. CASE Interrupt
    BY <1>4 DEF Interrupt, Arrives
  <1>5. CASE DeliveryArrives \/ Absorb \/ EndInterrupted \/ EndConflict
    BY <1>5 DEF DeliveryArrives, Absorb, EndInterrupted, EndConflict, Arrives, ToExec, Drives
  <1>6. CASE Tick \/ EndOwn \/ EndHandoff \/ DriveEnded \/ Crash \/ Recovering
    BY <1>6 DEF Tick, EndOwn, EndHandoff, DriveEnded, Crash, Recovering, RecoverTurn,
                RecoverQueue, ToExec
  <1> QED BY <1>1, <1>2, <1>3, <1>4, <1>5, <1>6 DEF Next, Ending

LEMMA StopsStep ==
  ASSUME TypeOK, ReceiptsMatch, HeldAreInputs, OneTurn, StopsAreOpen, [Next]_vars
  PROVE  StopsAreOpen'
  <1>0. /\ stop \in [Commands -> {"none", "pending", "consumed"}]
        /\ turn \in [Commands -> {"none", "active", "terminated"}]
    BY DEF TypeOK
  <1>1. CASE EndCommit
    <2>1. /\ lease \in Commands
          /\ turn' = [turn EXCEPT ![lease] = "terminated"]
          /\ exec.status = "interrupted" \/ stop[lease] # "pending"
          /\ stop' = [stop EXCEPT ![lease] = IF exec.status = "interrupted" THEN "consumed" ELSE @]
      BY <1>1, EndIs DEF EndCommit, InputsHold
    <2>2. stop'[lease] # "pending"
      BY <1>0, <2>1
    <2> QED BY <1>0, <2>1, <2>2 DEF StopsAreOpen
  <1>2. CASE Interrupt /\ UNCHANGED turns
    BY <1>0, <1>2 DEF Interrupt, StopsAreOpen
  <1>3. CASE UNCHANGED stop /\ ~EndCommit
    BY <1>3, TurnsGoOn DEF StopsAreOpen
  <1> QED BY <1>1, <1>2, <1>3, InputStep

LEMMA LeftStep ==
  ASSUME TypeOK, ReceiptsMatch, HeldAreInputs, OneTurn, StopsAreOpen, NothingLeftOpen,
         [Next]_vars
  PROVE  NothingLeftOpen'
  <1>1. \A t \in Commands : turn'[t] = "terminated" => stop'[t] # "pending"
    BY StopsStep DEF StopsAreOpen
  <1>2. lease' = None => ~delivery'
    <2>1. CASE EndCommit
      BY <2>1, EndIs DEF EndCommit, InputsHold
    <2>2. CASE ~EndCommit
      BY <2>2, TurnsGoOn, InputStep DEF NothingLeftOpen
    <2> QED BY <2>1, <2>2
  <1> QED BY <1>1, <1>2 DEF NothingLeftOpen

LEMMA EditStep ==
  ASSUME TypeOK, ReceiptsMatch, HeldAreInputs, LastEditIsSent, [Next]_vars
  PROVE  LastEditIsSent'
  <1>0. /\ state \in [Commands -> {"absent", "queued", "admitted", "cancelled"}]
        /\ sent \in [Commands -> Nat]
        /\ rev \in [Commands -> Nat]
    BY DEF TypeOK
  <1>1. CASE UNCHANGED <<state, rev, sent>>
    BY <1>1 DEF LastEditIsSent
  <1>2. ASSUME NEW c \in Callers, StartCommit(c) PROVE LastEditIsSent'
    <2>1. op[c].cmd \in Commands
      BY <1>2, StartIs
    <2>2. /\ state[op[c].cmd] = "absent"
          /\ rev' = [rev EXCEPT ![op[c].cmd] = 1]
          /\ \/ /\ state' = [state EXCEPT ![op[c].cmd] = "queued"]
                /\ UNCHANGED sent
             \/ /\ state' = [state EXCEPT ![op[c].cmd] = "admitted"]
                /\ sent' = [sent EXCEPT ![op[c].cmd] = 1]
      BY <1>2, StartIs
    <2> QED BY <1>0, <2>1, <2>2 DEF LastEditIsSent
  <1>3. ASSUME NEW c \in Controllers, ControlCommit(c) PROVE LastEditIsSent'
    <2>1. ctl[c].of \subseteq Queued /\ ctl[c].cmd \in ctl[c].of /\ UNCHANGED sent
      BY <1>3, ControlIs
    <2>2. \A m \in Commands : state'[m] = "admitted" => state[m] = "admitted" /\ rev'[m] = rev[m]
      BY <1>0, <1>3, <2>1, ControlIs DEF Queued
    <2> QED BY <2>1, <2>2 DEF LastEditIsSent
  <1>4. CASE AdmitCommit
    <2>1. PICK first \in Unheld :
             /\ \A m \in Members(first) : rev[m] = adm.seen[m].rev
             /\ state' = [m \in Commands |-> IF m \in Members(first) THEN "admitted" ELSE state[m]]
             /\ sent' = [m \in Commands |-> IF m \in Members(first) THEN adm.seen[m].rev ELSE sent[m]]
             /\ UNCHANGED rev
      BY <1>4, AdmitIs
    <2> QED BY <2>1 DEF LastEditIsSent
  <1>5. CASE EndCommit
    BY <1>5, EndIs DEF LastEditIsSent
  <1> QED BY <1>1, <1>2, <1>3, <1>4, <1>5, RowStep

---------------------------------------------------------------------------
(* The invariant. *)

LEMMA InitIInv == Init => IInv
  <1> SUFFICES ASSUME Init PROVE IInv
    OBVIOUS
  <1>0. None \notin Commands /\ Start0 \in Nat
    BY CommandsAssumption, BoundsAssumption
  <1>1. /\ IdleOp.pc = "idle" /\ IdleCtl.pc = "idle" /\ IdleExec.status = "none"
        /\ IdleAdm.pc = "none" /\ IdleAdm.listed = {} /\ IdleAdm.read = {}
    BY DEF IdleOp, IdleCtl, IdleExec, IdleAdm
  <1>2. TypeOK
    <2>1. /\ now \in Nat /\ receipts \subseteq Commands
          /\ state \in [Commands -> {"absent", "queued", "admitted", "cancelled"}]
          /\ pos \in [Commands -> Nat] /\ hold \in [Commands -> BOOLEAN]
          /\ rev \in [Commands -> Nat]
      BY <1>0 DEF Init
    <2>2. /\ turnOf \in [Commands -> Commands \cup {None}] /\ sent \in [Commands -> Nat]
          /\ turn \in [Commands -> {"none", "active", "terminated"}]
          /\ lease \in Commands \cup {None}
          /\ stop \in [Commands -> {"none", "pending", "consumed"}]
          /\ arrived \in Nat /\ host \in {"down", "scan", "up"}
          /\ crashes \in Nat /\ ended \subseteq Commands
      BY <1>0 DEF Init
    <2>3. delivery \in BOOLEAN /\ blocked \in BOOLEAN
      BY Zenon DEF Init
    <2>4. op \in [Callers -> Ops] /\ ctl \in [Controllers -> Ctls] /\ adm \in Adms /\ exec \in Execs
      BY IdleTypes DEF Init
    <2>5. adm.read = {}
      BY <1>1 DEF Init
    <2> QED BY <2>1, <2>2, <2>3, <2>4, <2>5 DEF TypeOK
  <1>3. ReceiptsMatch
    BY <1>1 DEF Init, ReceiptsMatch
  <1>4. HeldAreInputs
    BY <1>1 DEF Init, HeldAreInputs
  <1>5. OneTurn
    BY <1>0 DEF Init, OneTurn
  <1>6. SeenIsCurrent /\ HandoffIsCurrent
    BY <1>1 DEF Init, SeenIsCurrent, HandoffIsCurrent
  <1>7. StopsAreOpen /\ NothingLeftOpen
    BY DEF Init, StopsAreOpen, NothingLeftOpen
  <1>8. LastEditIsSent
    BY DEF Init, LastEditIsSent
  <1> QED BY <1>2, <1>3, <1>4, <1>5, <1>6, <1>7, <1>8 DEF IInv

LEMMA StepIInv == IInv /\ [Next]_vars => IInv'
  BY TypeStep, ReceiptsStep, HeldStep, OneTurnStep, SeenStep, HandoffStep, StopsStep,
     LeftStep, EditStep DEF IInv

LEMMA Invariant == Spec => []IInv
  BY InitIInv, StepIInv, PTL DEF Spec

\* Every variable keeps its type: among others, what the slot has read is a
\* part of what it has listed.
THEOREM TypeCorrect == Spec => []TypeOK
  BY Invariant, PTL DEF IInv

\* A Turn gets the last committed text of every input it takes.
THEOREM LastEdit == Spec => []LastEditIsSent
  BY Invariant, PTL DEF IInv

\* A Turn that has ended leaves no stop request and no delivery behind.
THEOREM NothingOpen == Spec => []NothingLeftOpen
  BY Invariant, PTL DEF IInv

---------------------------------------------------------------------------
(* What an admission takes. *)

\* At the commit of an admission the slot knows the queue as it is.
LEMMA CommitSees ==
  ASSUME IInv, AdmitCommit, NEW n \in Queued
  PROVE  /\ n \in adm.read
         /\ adm.seen[n] = Observed(n)
  BY DEF IInv, AdmitCommit, QueueHolds, SeenIsCurrent, Queued

LEMMA AdmittedBy ==
  ASSUME IInv, [Next]_vars, NEW m \in Commands,
         state[m] # "admitted", state'[m] = "admitted"
  PROVE  \/ \E c \in Callers : /\ StartCommit(c)
                               /\ m = op[c].cmd
                               /\ state[m] = "absent"
                               /\ ~op[c].wait
                               /\ StartHolds(c)
         \/ AdmitCommit
  <1>0. state \in [Commands -> {"absent", "queued", "admitted", "cancelled"}]
    BY DEF IInv, TypeOK
  <1>1. ASSUME NEW c \in Callers, StartCommit(c)
        PROVE  m = op[c].cmd /\ state[m] = "absent" /\ ~op[c].wait /\ StartHolds(c)
    <2>1. /\ state[op[c].cmd] = "absent"
          /\ StartHolds(c)
          /\ \/ state' = [state EXCEPT ![op[c].cmd] = "queued"]
             \/ state' = [state EXCEPT ![op[c].cmd] = "admitted"] /\ ~op[c].wait
      BY <1>1, StartIs DEF IInv
    <2> QED BY <1>0, <2>1
  <1>2. ASSUME NEW c \in Controllers, ControlCommit(c) PROVE FALSE
    <2>1. UNCHANGED state \/ state' = [state EXCEPT ![ctl[c].cmd] = "cancelled"]
      BY <1>2, ControlIs DEF IInv
    <2> QED BY <1>0, <2>1
  <1>3. ~EndCommit
    BY EndIs DEF IInv
  <1> QED BY <1>1, <1>2, <1>3, RowStep DEF IInv

\* A Turn never takes a command past one that was to be served before it,
\* unless it is a new continuation.
THEOREM Overtaking == Spec => NoOvertaking
  <1>1. ASSUME IInv, [Next]_vars, NEW m \in Commands, NEW n \in Commands,
               state[m] # "admitted", state'[m] = "admitted",
               state[n] = "queued", state'[n] = "queued", ~hold[n]
        PROVE  \/ state[m] = "queued" /\ Earlier(pos, m, n)
               \/ state[m] = "absent" /\ KindOf[m] = "continuation"
    <2>0. n \in Queued
      BY <1>1 DEF Queued
    <2>1. ASSUME NEW c \in Callers, m = op[c].cmd, ~op[c].wait, StartHolds(c)
          PROVE  KindOf[m] = "continuation"
      BY <2>0, <2>1, CommandsAssumption DEF StartHolds, ConversationIdle, IsInput
    <2>2. CASE AdmitCommit
      <3>1. PICK first \in Unheld :
               /\ IsFirst(first)
               /\ Members(first) \subseteq Unheld
               /\ Unheld \subseteq Queued
               /\ state' = [k \in Commands |-> IF k \in Members(first) THEN "admitted" ELSE state[k]]
        BY <1>1, <2>2, AdmitIs DEF IInv
      <3>2. m \in Members(first) /\ n \notin Members(first)
        BY <1>1, <3>1
      <3>3. n \in adm.read /\ adm.seen[n] = Observed(n)
        BY <1>1, <2>0, <2>2, CommitSees
      <3>4. ~adm.seen[n].hold
        <4>1. Observed(n).hold = (n \in Guidance /\ hold[n])
          BY DEF Observed
        <4> QED BY <1>1, <3>3, <4>1, Zenon
      <3>5. n \in Unheld
        BY <3>3, <3>4 DEF Unheld
      <3>6. Before(m, n)
        BY <1>1, <3>1, <3>2, <3>5, MembersComeFirst DEF IInv
      <3>7. m \in Queued /\ adm.seen[m] = Observed(m)
        BY <1>1, <2>2, <3>1, <3>2, CommitSees
      <3>8. adm.seen[m].pos = pos[m] /\ adm.seen[n].pos = pos[n]
        BY <3>3, <3>7 DEF Observed
      <3>9. Earlier(pos, m, n)
        BY <3>6, <3>8 DEF Before, Earlier
      <3> QED BY <3>7, <3>9 DEF Queued
    <2> QED BY <1>1, <2>1, <2>2, AdmittedBy
  <1>2. IInv /\ [Next]_vars => [KeepsOrder]_vars
    BY <1>1 DEF KeepsOrder
  <1> QED BY <1>2, Invariant, PTL DEF Spec, NoOvertaking

\* What the user has paused does not run.
THEOREM Paused == Spec => PausedStaysQueued
  <1> DEFINE Stays == \A m \in Commands : state[m] = "queued" /\ hold[m]
                                             => state'[m] # "admitted"
  <1>1. ASSUME IInv, [Next]_vars, NEW m \in Commands, state[m] = "queued", hold[m],
               state'[m] = "admitted"
        PROVE  FALSE
    <2>1. AdmitCommit
      BY <1>1, AdmittedBy
    <2>2. m \in Queued /\ m \in Guidance
      BY <1>1 DEF IInv, HeldAreInputs, Guidance, Queued
    <2>3. adm.seen[m] = Observed(m)
      BY <1>1, <2>1, <2>2, CommitSees
    <2>4. adm.seen[m].hold
      <3>1. Observed(m).hold = (m \in Guidance /\ hold[m])
        BY DEF Observed
      <3> QED BY <1>1, <2>2, <2>3, <3>1, Zenon
    <2>5. m \notin Unheld
      BY <2>4 DEF Unheld
    <2> QED BY <1>1, <2>1, <2>5, AdmitIs DEF IInv
  <1>2. IInv /\ [Next]_vars => [Stays]_vars
    BY <1>1
  <1> QED BY <1>2, Invariant, PTL DEF Spec, PausedStaysQueued

\* A Turn is cut short only for an input that waits and is not paused.
THEOREM Handoff == Spec => HandoffIsWanted
  <1> DEFINE Wanted == exec.status = "handoff"
                       => \A t \in Commands :
                             turn[t] = "active" /\ turn'[t] = "terminated"
                                => exec.to \in Boundary
  <1>1. ASSUME IInv, [Next]_vars, NEW t \in Commands, turn[t] = "active",
               turn'[t] = "terminated", exec.status = "handoff"
        PROVE  exec.to \in Boundary
    <2>1. EndCommit
      BY <1>1, TurnsGoOn DEF IInv
    <2>2. state[exec.to] = "queued" /\ rev[exec.to] = exec.toRev
      BY <1>1, <2>1, EndIs DEF IInv, HandoffHolds
    <2> QED BY <1>1, <2>2 DEF IInv, HandoffIsCurrent
  <1>2. IInv /\ [Next]_vars => [Wanted]_vars
    BY <1>1
  <1> QED BY <1>2, Invariant, PTL DEF Spec, HandoffIsWanted

---------------------------------------------------------------------------
(* TurnQueue implements ConversationQueue. *)

Cancelled == {m \in Commands : state[m] = "cancelled"}

\* A Turn that starts with S is all that runs then.
LEMMA StartRuns ==
  ASSUME TypeOK, OneTurn, lease = None, NEW t \in Commands, NEW S \in SUBSET Commands,
         t \in S, \A m \in S : state[m] # "admitted", TakeInto(t, S)
  PROVE  /\ Running("active") = {}
         /\ Running("active")' = S
         /\ Running("terminated")' = Running("terminated")
  <1>1. /\ \A m \in Commands : turnOf'[m] = IF m \in S THEN t ELSE turnOf[m]
        /\ \A u \in Commands : turn'[u] = IF u = t THEN "active" ELSE turn[u]
        /\ \A u \in Commands : turn[u] # "active"
        /\ None \notin Commands
        /\ \A m \in Commands : turnOf[m] \in Commands \cup {None}
    BY CommandsAssumption DEF TypeOK, OneTurn, TakeInto
  <1>2. turn[t] = "none" /\ \A m \in S : turnOf[m] = None
    BY <1>1 DEF TypeOK, OneTurn
  <1>3. ASSUME NEW m \in Commands, turnOf[m] # None
        PROVE  turnOf[m] # t /\ turnOf[m] \in Commands
    BY <1>1, <1>2, <1>3 DEF OneTurn
  <1>4. \A m \in Commands : turnOf'[m] # None /\ turn'[turnOf'[m]] = "active" <=> m \in S
    BY <1>1, <1>2, <1>3
  <1>5. \A m \in Commands : turnOf'[m] # None /\ turn'[turnOf'[m]] = "terminated"
                              <=> turnOf[m] # None /\ turn[turnOf[m]] = "terminated"
    BY <1>1, <1>2, <1>3
  <1>6. Running("active") = {}
    BY <1>1 DEF Running
  <1> QED BY <1>4, <1>5, <1>6 DEF Running

\* A step of TurnQueue is a step of ConversationQueue, or leaves it alone.
LEMMA QueueStep == IInv /\ [Next]_vars => [Q!Next]_Q!vars
  <1> SUFFICES ASSUME IInv, [Next]_vars PROVE [Q!Next]_Q!vars
    OBVIOUS
  <1> DEFINE R == Running("active")
             F == Running("terminated")
  <1>0. /\ state \in [Commands -> {"absent", "queued", "admitted", "cancelled"}]
        /\ turnOf \in [Commands -> Commands \cup {None}]
        /\ turn \in [Commands -> {"none", "active", "terminated"}]
        /\ None \notin Commands
    BY CommandsAssumption DEF IInv, TypeOK
  <1>1. /\ \A m \in Commands : state[m] = "absent" =>
              m \in Commands \ (Queued \cup R \cup F \cup Cancelled)
    BY DEF IInv, OneTurn, Queued, Running, Cancelled
  <1>2. UNCHANGED turns => UNCHANGED <<R, F>>
    BY DEF Running
  <1>3. UNCHANGED state => UNCHANGED <<Queued, Cancelled>>
    BY DEF Queued, Cancelled
  <1>4. CASE UNCHANGED <<intents, turns>>
    BY <1>2, <1>3, <1>4 DEF Q!vars, Cancelled
  <1>5. ASSUME NEW c \in Callers, StartCommit(c) PROVE Q!Next
    <2> DEFINE m == op[c].cmd
    <2>1. m \in Commands /\ state[m] = "absent"
      BY <1>5, StartIs DEF IInv
    <2>2. CASE state' = [state EXCEPT ![m] = "queued"] /\ UNCHANGED turns
      <3>1. Queued' = Queued \cup {m} /\ Cancelled' = Cancelled
        BY <1>0, <2>1, <2>2 DEF Queued, Cancelled
      <3> QED BY <1>1, <1>2, <2>1, <2>2, <3>1 DEF Q!Next, Q!Submit, Q!New, Cancelled
    <2>3. CASE /\ state' = [state EXCEPT ![m] = "admitted"]
               /\ lease = None
               /\ TakeInto(m, {m})
      <3>1. Queued' = Queued /\ Cancelled' = Cancelled
        BY <1>0, <2>1, <2>3 DEF Queued, Cancelled
      <3>2. R = {} /\ R' = {m} /\ F' = F
        BY <2>1, <2>3, StartRuns DEF IInv
      <3> QED BY <1>1, <2>1, <3>1, <3>2 DEF Q!Next, Q!SubmitAndStart, Q!New, Cancelled
    <2> QED BY <1>5, <2>2, <2>3, StartIs DEF IInv
  <1>6. ASSUME NEW c \in Controllers, ControlCommit(c) PROVE [Q!Next]_Q!vars
    <2>1. /\ ctl[c].cmd \in Queued
          /\ UNCHANGED turns
          /\ UNCHANGED state \/ state' = [state EXCEPT ![ctl[c].cmd] = "cancelled"]
      BY <1>6, ControlIs DEF IInv
    <2>2. CASE UNCHANGED state
      BY <1>2, <1>3, <2>1, <2>2 DEF Q!vars, Cancelled
    <2>3. CASE state' = [state EXCEPT ![ctl[c].cmd] = "cancelled"]
      <3>1. /\ Queued' = Queued \ {ctl[c].cmd}
            /\ Cancelled' = Cancelled \cup {ctl[c].cmd}
        BY <1>0, <2>1, <2>3 DEF Queued, Cancelled
      <3> QED BY <1>2, <2>1, <3>1 DEF Q!Next, Q!Withdraw, Cancelled
    <2> QED BY <2>1, <2>2, <2>3
  <1>7. CASE AdmitCommit
    <2>1. PICK first \in Unheld :
             /\ first \in Members(first)
             /\ Members(first) \subseteq Queued
             /\ TakeInto(first, Members(first))
             /\ state' = [m \in Commands |-> IF m \in Members(first) THEN "admitted" ELSE state[m]]
      BY <1>7, AdmitIs DEF IInv
    <2> DEFINE S == Members(first)
    <2>2. /\ first \in Commands /\ S \in SUBSET Commands /\ lease = None
          /\ \A m \in S : state[m] # "admitted"
      BY <1>7, <2>1 DEF AdmitCommit, Queued
    <2>3. R = {} /\ R' = S /\ F' = F
      BY <2>1, <2>2, StartRuns DEF IInv
    <2>4. Queued' = Queued \ S /\ Cancelled' = Cancelled
      BY <1>0, <2>1 DEF Queued, Cancelled
    <2>5. S \in SUBSET Queued /\ S # {}
      BY <2>1
    <2> HIDE DEF S
    <2> QED BY <2>3, <2>4, <2>5 DEF Q!Next, Q!Start, Cancelled
  <1>8. CASE EndCommit
    <2>1. /\ lease \in Commands
          /\ turn' = [turn EXCEPT ![lease] = "terminated"]
          /\ UNCHANGED <<state, turnOf>>
      BY <1>8, EndIs DEF IInv
    <2>2. turn[lease] = "active" /\ turnOf[lease] = lease
          /\ \A u \in Commands : turn[u] = "active" => u = lease
      BY <2>1 DEF IInv, OneTurn
    <2>3. \A u \in Commands : turn'[u] = IF u = lease THEN "terminated" ELSE turn[u]
      BY <1>0, <2>1
    <2>4. lease \in R
      BY <1>0, <2>1, <2>2 DEF Running
    <2>5. \A m \in Commands : turnOf[m] # None => turnOf[m] \in Commands
      BY <1>0
    <2>6. R' = {} /\ F' = F \cup R
      BY <2>1, <2>2, <2>3, <2>5 DEF Running
    <2> QED BY <1>3, <2>1, <2>4, <2>6 DEF Q!Next, Q!Finish, Cancelled
  <1> QED BY <1>4, <1>5, <1>6, <1>7, <1>8, RowStep DEF IInv

LEMMA QueueInit == Init => Q!Init
  BY DEF Init, Q!Init, Queued, Running

\* Every command is accepted once and runs in one Turn, of which there is
\* never a second one at the same time, however starts, controls, admissions,
\* ends and crashes interleave.
THEOREM Implements == Spec => QueueImplemented
  BY QueueInit, QueueStep, Invariant, PTL DEF Spec, QueueImplemented, Q!Spec
=============================================================================
