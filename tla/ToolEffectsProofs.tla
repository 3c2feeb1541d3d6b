------------------------- MODULE ToolEffectsProofs -------------------------
(***************************************************************************)
(* Proofs about ToolEffects for any Hosts, calls, answers and generations. *)
(* EffectInv is inductive.  Its heart is that a dispatched effect belongs  *)
(* to the Host of its dispatch for ever (ExecutionsOwnRows): every other   *)
(* execution of the call stops at its claim, and a recovery gives up an    *)
(* effect only of a Host that is dead and stays dead (HangingIsDead).  An  *)
(* execution that may still go on to the tool, unaware of any stop, runs   *)
(* in the current generation of the lease (DrivenByLease): that is why a   *)
(* scan by the holder of the lease alone reaches every call.               *)
(***************************************************************************)
EXTENDS ToolEffects, TLAPS

USE DEF effectVars

---------------------------------------------------------------------------
(* The invariant. *)

\* A takeover finds a generation left: who is gone has left room for it.
GenerationLeft == lease.host \notin alive => lease.generation < MaxGeneration

Sent == {"dispatched", "receipt_written"}
NeverRan == {"cancelled", "rejected"}

\* How the rows of a call go together, and with the calls n of its tool.
RowOK(r, n) ==
    /\ r.call = "pending" => r.intent = "none" /\ r.operation = "none"
    /\ r.intent = "none" => r.receipt = "none" /\ (r.call = "pending" \/ r.operation \in NeverRan)
    /\ r.intent = "pending" => r.operation = "pending" /\ r.receipt = "none"
    /\ r.intent = "dispatched" => r.operation = "executing" /\ r.receipt = "none"
    /\ r.intent = "receipt_written" => r.receipt \in Results /\ r.operation \in {"executing", r.receipt}
    /\ r.intent = "cancelled_before_dispatch" => r.operation = "cancelled" /\ r.receipt = "none"
    /\ r.outcome # "none" => r.operation \in Results /\ r.outcome = r.operation
    /\ n <= 1
    /\ r.intent \notin Sent => n = 0
    /\ r.receipt \in NeverRan => n = 0

RowsOK == \A c \in Calls : RowOK(rows[c], invoked[c])

\* The steps between the claim of a dispatch and the end of the execution.
Executing == {"execute", "calling", "observed", "reconcile"}

\* An execution runs in a live process, with a generation the lease has reached; past its claim
\* the dispatch is its own, and nobody else has written the receipt.
ExecutionOK(h, c) ==
    LET x == exec[h][c] IN
    /\ x.pc # "idle" => h \in alive
    /\ x.generation <= lease.generation
    /\ x.pc \in Executing => rows[c].by = h /\ rows[c].intent \in Sent
    /\ x.pc = "execute" => invoked[c] = 0
    /\ x.pc \in {"observed", "reconcile"} => x.seen \in Results
    /\ x.pc = "observed" /\ x.seen \in NeverRan => invoked[c] = 0
    /\ x.pc \in {"execute", "calling", "observed"} => rows[c].receipt = "none"
    /\ x.pc = "reconcile" => rows[c].receipt = x.seen

ExecutionsOwnRows == \A h \in EffectHosts, c \in Calls : ExecutionOK(h, c)

\* A recovery holds on to an effect only if its dispatcher is dead.
HangingIsDead ==
    \A h \in EffectHosts : hanging[h] # 0 =>
        rows[hanging[h]].by \notin alive /\ rows[hanging[h]].intent \in Sent

EndedIsSettled == ~turnOpen => \A c \in Calls : rows[c].outcome # "none"

\* An execution on its way to the tool whose signal is not aborted drives under the lease.
DrivenByLease ==
    \A h \in EffectHosts, c \in Calls :
        exec[h][c].pc \in {"dispatch", "claim", "execute", "calling"} /\ exec[h][c].abort = "no"
        => lease = [host |-> h, generation |-> exec[h][c].generation]

EffectInv ==
    /\ EffectTypeOK /\ GenerationLeft
    /\ RowsOK /\ ExecutionsOwnRows /\ HangingIsDead
    /\ EndedIsSettled /\ DrivenByLease /\ StopReachesCalls

---------------------------------------------------------------------------
(* Operators. *)

LEMMA RowConstants == FreshRow \in EffectRows /\ DoneRow \in EffectRows
  BY DEF FreshRow, DoneRow, EffectRows, Results

LEMMA NoExecType == NoExec \in Executions
  BY EffectAssumption DEF NoExec, Executions, Steps

\* Changing the fields of an execution keeps its shape.
LEMMA ExecutionUpdate ==
  ASSUME NEW x \in Executions, NEW pc \in Steps,
         NEW a \in {"no", "stop", "handoff"}, NEW s \in Results
  PROVE  /\ [x EXCEPT !.pc = pc] \in Executions
         /\ [x EXCEPT !.abort = a] \in Executions
         /\ [x EXCEPT !.pc = pc, !.abort = a] \in Executions
         /\ [x EXCEPT !.pc = pc, !.seen = s] \in Executions
  BY DEF Executions

\* Changing the fields of the rows of a call keeps their shape.
LEMMA RowUpdate ==
  ASSUME NEW r \in EffectRows, NEW o \in Results
  PROVE  /\ [r EXCEPT !.call = "executing", !.operation = o] \in EffectRows
         /\ [r EXCEPT !.call = "executing", !.intent = "pending", !.operation = "pending"] \in EffectRows
         /\ [r EXCEPT !.intent = "cancelled_before_dispatch", !.operation = "cancelled"] \in EffectRows
         /\ [r EXCEPT !.intent = "receipt_written", !.receipt = o] \in EffectRows
         /\ [r EXCEPT !.operation = o] \in EffectRows
         /\ [r EXCEPT !.call = "terminal", !.outcome = o] \in EffectRows
  <1>1. /\ [r EXCEPT !.call = "executing", !.operation = o] \in EffectRows
        /\ [r EXCEPT !.operation = o] \in EffectRows
    BY DEF EffectRows
  <1>2. [r EXCEPT !.call = "executing", !.intent = "pending", !.operation = "pending"] \in EffectRows
    BY DEF EffectRows
  <1>3. [r EXCEPT !.intent = "cancelled_before_dispatch", !.operation = "cancelled"] \in EffectRows
    BY DEF EffectRows, Results
  <1>4. [r EXCEPT !.intent = "receipt_written", !.receipt = o] \in EffectRows
    BY DEF EffectRows
  <1>5. [r EXCEPT !.call = "terminal", !.outcome = o] \in EffectRows
    BY DEF EffectRows
  <1> QED
    BY <1>1, <1>2, <1>3, <1>4, <1>5

\* What each operator makes of the rows of a call has their shape.
LEMMA RowOperators ==
  ASSUME EffectTypeOK, NEW c \in Calls, NEW o \in Results
  PROVE  /\ rows[c] \in EffectRows
         /\ Settled(c, o) \in EffectRows
         /\ CancelledRow(c) \in EffectRows
         /\ WithReceipt(c, o) \in EffectRows
         /\ Completed(c) \in EffectRows
  <1>1. rows[c] \in EffectRows
    BY DEF EffectTypeOK
  <1>2. Settled(c, o) \in EffectRows /\ CancelledRow(c) \in EffectRows
    BY <1>1, RowUpdate DEF Settled, CancelledRow, Results
  <1>3. WithReceipt(c, o) \in EffectRows
    BY <1>1, RowUpdate DEF WithReceipt
  <1>4. Completed(c) \in EffectRows
    <2>1. CASE rows[c].receipt \in Results
      BY <1>1, <2>1, RowUpdate DEF Completed
    <2>2. CASE rows[c].receipt \notin Results
      BY <1>1, <2>2 DEF Completed, EffectRows
    <2> QED
      BY <2>1, <2>2
  <1> QED
    BY <1>1, <1>2, <1>3, <1>4

---------------------------------------------------------------------------
(* Type correctness. *)

LEMMA TypeInit == EffectInit => EffectTypeOK
  <1> SUFFICES ASSUME EffectInit PROVE EffectTypeOK
    OBVIOUS
  <1>1. rows \in [Calls -> EffectRows] /\ invoked \in [Calls -> Nat]
    BY RowConstants DEF EffectInit
  <1>2. exec \in [EffectHosts -> [Calls -> Executions]]
    BY NoExecType DEF EffectInit
  <1>3. lease \in [host : EffectHosts \cup {NoHost}, generation : 1..MaxGeneration]
    BY DEF EffectInit
  <1> QED
    BY <1>1, <1>2, <1>3 DEF EffectInit, EffectTypeOK

LEMMA TypeSetRow ==
  ASSUME EffectTypeOK, NEW c \in Calls, NEW r \in EffectRows, SetRow(c, r)
  PROVE  rows' \in [Calls -> EffectRows]
  BY DEF EffectTypeOK, SetRow

LEMMA TypeSetExec ==
  ASSUME EffectTypeOK, NEW h \in EffectHosts, NEW c \in Calls, NEW x \in Executions,
         exec' = [exec EXCEPT ![h][c] = x]
  PROVE  exec' \in [EffectHosts -> [Calls -> Executions]]
  BY DEF EffectTypeOK

LEMMA TypeGoto ==
  ASSUME EffectTypeOK, NEW h \in EffectHosts, NEW c \in Calls, NEW s \in Steps,
         Goto(h, c, s) \/ ExecEnds(h, c)
  PROVE  exec' \in [EffectHosts -> [Calls -> Executions]]
  <1>1. exec[h][c] \in Executions
    BY DEF EffectTypeOK
  <1>2. CASE Goto(h, c, s)
    <2>1. [exec[h][c] EXCEPT !.pc = s] \in Executions
      BY <1>1, ExecutionUpdate DEF Results
    <2>2. exec' = [exec EXCEPT ![h][c] = [exec[h][c] EXCEPT !.pc = s]]
      BY <1>2 DEF Goto, EffectTypeOK
    <2> QED
      BY <2>1, <2>2, TypeSetExec
  <1>3. CASE ExecEnds(h, c)
    BY <1>3, NoExecType, TypeSetExec DEF ExecEnds
  <1> QED
    BY <1>2, <1>3

LEMMA TypeAborted ==
  ASSUME EffectTypeOK, NEW h \in EffectHosts, NEW why \in {"stop", "handoff"}
  PROVE  Aborted(h, why) \in [EffectHosts -> [Calls -> Executions]]
  <1>1. ASSUME NEW c \in Calls
        PROVE  exec[h][c] \in Executions /\ [exec[h][c] EXCEPT !.abort = why] \in Executions
    <2>1. exec[h][c] \in Executions
      BY DEF EffectTypeOK
    <2> QED
      BY <2>1 DEF Executions
  <1> QED
    BY <1>1 DEF Aborted, EffectTypeOK

LEMMA TypeExecStep ==
  ASSUME EffectTypeOK, NEW h \in EffectHosts, NEW c \in Calls,
         ExecStep(h, c) \/ Answered(h, c)
  PROVE  EffectTypeOK'
  <1>0. /\ exec[h][c] \in Executions /\ rows[c] \in EffectRows
        /\ lease.generation \in 0..MaxGeneration
        /\ {"registered", "prepare", "dispatch", "claim", "execute", "calling", "reconcile"} \subseteq Steps
        /\ {"cancelled", "rejected", "outcome_unknown"} \subseteq Results
    BY DEF EffectTypeOK, Steps, Results
  <1>1. CASE BeginCall(h, c)
    <2>1. [NoExec EXCEPT !.pc = "admitted", !.generation = lease.generation] \in Executions
      BY <1>0 DEF NoExec, Executions, Steps
    <2>2. rows' \in [Calls -> EffectRows] /\ exec' \in [EffectHosts -> [Calls -> Executions]]
      BY <1>0, <1>1, <2>1, RowOperators, TypeSetRow, TypeSetExec DEF BeginCall, EffectTypeOK
    <2> QED
      BY <1>1, <2>2 DEF BeginCall, EffectTypeOK
  <1>2. CASE Register(h, c)
    BY <1>0, <1>2, TypeGoto DEF Register, EffectTypeOK
  <1>3. CASE AbortIfStopped(h, c)
    <2> DEFINE a == IF stopSet /\ exec[h][c].abort = "no" THEN "stop" ELSE exec[h][c].abort
    <2>1. [exec[h][c] EXCEPT !.pc = "prepare", !.abort = a] \in Executions
      BY <1>0 DEF Executions
    <2>2. exec' = [exec EXCEPT ![h][c] = [exec[h][c] EXCEPT !.pc = "prepare", !.abort = a]]
      BY <1>3 DEF AbortIfStopped
    <2>3. exec' \in [EffectHosts -> [Calls -> Executions]]
      BY <2>1, <2>2, TypeSetExec
    <2> QED
      BY <1>3, <2>3 DEF AbortIfStopped, EffectTypeOK
  <1>4. CASE Prepare(h, c)
    <2>1. rows' \in [Calls -> EffectRows]
      BY <1>0, <1>4, RowOperators, RowUpdate, TypeSetRow DEF Prepare, EffectTypeOK
    <2>2. exec' \in [EffectHosts -> [Calls -> Executions]]
      BY <1>0, <1>4, TypeGoto DEF Prepare
    <2> QED
      BY <1>4, <2>1, <2>2 DEF Prepare, EffectTypeOK
  <1>5. CASE DispatchAborted(h, c)
    BY <1>0, <1>5, RowOperators, TypeSetRow, TypeGoto DEF DispatchAborted, EffectTypeOK
  <1>6. CASE ClaimRead(h, c) \/ ClaimLost(h, c)
    BY <1>0, <1>6, TypeGoto DEF ClaimRead, ClaimLost, EffectTypeOK
  <1>7. CASE ClaimCommit(h, c)
    <2>1. [rows[c] EXCEPT !.intent = "dispatched", !.operation = "executing", !.by = h] \in EffectRows
      BY <1>0 DEF EffectRows
    <2> QED
      BY <1>0, <1>7, <2>1, TypeSetRow, TypeGoto DEF ClaimCommit, EffectTypeOK
  <1>8. CASE CallTool(h, c)
    <2>1. [exec[h][c] EXCEPT !.pc = "observed", !.seen = "cancelled"] \in Executions
      BY <1>0, ExecutionUpdate DEF Steps
    <2>2. exec' \in [EffectHosts -> [Calls -> Executions]]
      BY <1>0, <1>8, <2>1, TypeGoto, TypeSetExec DEF CallTool
    <2>3. invoked' \in [Calls -> Nat]
      BY <1>8 DEF CallTool, EffectTypeOK
    <2> QED
      BY <1>8, <2>2, <2>3 DEF CallTool, EffectTypeOK
  <1>9. CASE Answered(h, c) \/ GaveUp(h, c)
    <2>1. PICK o \in Results : exec' = [exec EXCEPT ![h][c] = [@ EXCEPT !.pc = "observed", !.seen = o]]
      BY <1>9, EffectAssumption DEF Answered, GaveUp, Results
    <2>2. [exec[h][c] EXCEPT !.pc = "observed", !.seen = o] \in Executions
      BY <1>0, ExecutionUpdate DEF Steps
    <2>3. exec' \in [EffectHosts -> [Calls -> Executions]]
      BY <2>1, <2>2, TypeSetExec DEF EffectTypeOK
    <2> QED
      BY <1>9, <2>3 DEF Answered, GaveUp, EffectTypeOK
  <1>10. CASE RecordReceipt(h, c)
    <2>1. WithReceipt(c, exec[h][c].seen) \in EffectRows
      BY <1>0 DEF WithReceipt, EffectRows, Executions
    <2> QED
      BY <1>0, <1>10, <2>1, TypeSetRow, TypeGoto DEF RecordReceipt, EffectTypeOK
  <1>11. CASE Reconcile(h, c)
    BY <1>0, <1>11, RowOperators, TypeSetRow, TypeGoto DEF Reconcile, EffectTypeOK
  <1> QED
    BY <1>1, <1>2, <1>3, <1>4, <1>5, <1>6, <1>7, <1>8, <1>9, <1>10, <1>11 DEF ExecStep

LEMMA TypeConvergence ==
  ASSUME EffectTypeOK, NEW h \in EffectHosts, NEW c \in Calls, Convergence(h, c)
  PROVE  EffectTypeOK'
  <1>0. rows[c] \in EffectRows /\ "cancelled" \in Results
    BY DEF EffectTypeOK, Results
  <1>1. CASE FinalizeNext(h, c)
    BY <1>0, <1>1, RowUpdate, TypeSetRow DEF FinalizeNext, Terminal, EffectTypeOK
  <1>2. CASE ResumeReceipt(h, c)
    BY <1>0, <1>2, RowOperators, TypeSetRow DEF ResumeReceipt, EffectTypeOK
  <1>3. CASE FindHanging(h, c)
    <2>1. /\ recovering' = [recovering EXCEPT ![h] = recovering[h] \ {c}]
          /\ UNCHANGED hanging \/ hanging' = [hanging EXCEPT ![h] = c]
          /\ UNCHANGED <<turnOpen, stopSet, scanDue, lease, rows, invoked, alive, exec, closing>>
      BY <1>3 DEF FindHanging
    <2>2. recovering' \in [EffectHosts -> SUBSET Calls] /\ hanging' \in [EffectHosts -> Calls \cup {0}]
      BY <2>1 DEF EffectTypeOK
    <2> QED
      BY <2>1, <2>2 DEF EffectTypeOK
  <1>4. CASE CloseRead(h, c)
    BY <1>4 DEF CloseRead, EffectTypeOK
  <1> QED
    BY <1>1, <1>2, <1>3, <1>4 DEF Convergence

\* A recovery that begins has Host h only note what it will look at.
LEMMA RecoverySteps ==
  ASSUME NEW h \in EffectHosts, RecoverUnheld(h) \/ RecoverStopped(h)
  PROVE  /\ UNCHANGED <<turnOpen, stopSet, scanDue, lease, rows, invoked, alive, exec, closing, hanging>>
         /\ recovering' = [recovering EXCEPT ![h] = Dispatched]
  BY DEF RecoverUnheld, RecoverStopped, Recover

LEMMA TypeHostStep ==
  ASSUME EffectTypeOK, GenerationLeft, NEW h \in EffectHosts,
         HostStep(h) \/ HandBack(h) \/ HostDies(h)
  PROVE  EffectTypeOK'
  <1>0. {"cancelled", "outcome_unknown"} \subseteq Results
    BY DEF Results
  <1>1. CASE RecordUnknown(h)
    <2>1. hanging[h] \in Calls
      BY <1>1 DEF RecordUnknown, EffectTypeOK
    <2>2. rows' \in [Calls -> EffectRows]
      BY <1>0, <1>1, <2>1, RowOperators, TypeSetRow DEF RecordUnknown
    <2> QED
      BY <1>1, <2>2 DEF RecordUnknown, EffectTypeOK
  <1>2. CASE CancelActive(h)
    BY <1>2, TypeAborted DEF CancelActive, EffectTypeOK
  <1>3. CASE CloseCommit(h)
    <2>1. closing[h] \in Calls
      BY <1>3 DEF CloseCommit, EffectTypeOK
    <2>2. rows' \in [Calls -> EffectRows]
      BY <1>0, <1>3, <2>1, RowOperators, TypeSetRow DEF CloseCommit, EffectTypeOK
    <2> QED
      BY <1>3, <2>2 DEF CloseCommit, EffectTypeOK
  <1>4. CASE EndTurn(h)
    BY <1>4 DEF EndTurn, EffectTypeOK
  <1>5. CASE TakeOver(h)
    BY <1>5, EffectAssumption DEF TakeOver, GenerationLeft, EffectTypeOK
  <1>6. CASE HandBack(h)
    BY <1>6, TypeAborted DEF HandBack, EffectTypeOK
  <1>7. CASE HostDies(h)
    <2>1. [c \in Calls |-> NoExec] \in [Calls -> Executions]
      BY NoExecType
    <2> QED
      BY <1>7, <2>1 DEF HostDies, EffectTypeOK
  <1>8. CASE RecoverUnheld(h) \/ RecoverStopped(h)
    <2>1. Dispatched \subseteq Calls
      BY DEF Dispatched
    <2> QED
      BY <1>8, <2>1, RecoverySteps DEF EffectTypeOK
  <1> QED
    BY <1>1, <1>2, <1>3, <1>4, <1>5, <1>6, <1>7, <1>8 DEF HostStep

LEMMA TypeStep ==
  ASSUME EffectTypeOK, GenerationLeft, [EffectNext]_effectVars
  PROVE  EffectTypeOK'
  <1>1. CASE RequestStop
    BY <1>1 DEF RequestStop, EffectTypeOK
  <1>2. CASE UNCHANGED effectVars
    BY <1>2 DEF EffectTypeOK
  <1> QED
    BY <1>1, <1>2, TypeExecStep, TypeConvergence, TypeHostStep DEF EffectNext

---------------------------------------------------------------------------
(* The rows of a call. *)

\* What a row never takes back: its dispatcher, the first receipt, a terminal operation, the outcome.
RowForward(r, s) ==
    /\ r.intent \in Sent => s.intent \in Sent /\ s.by = r.by
    /\ r.receipt # "none" => s.receipt = r.receipt
    /\ r.operation \in Results => s.operation = r.operation
    /\ r.outcome # "none" => s.outcome = r.outcome

RowsForward == \A c \in Calls : RowForward(rows[c], rows'[c])

LEMMA RowsInit == EffectInit => RowsOK
  <1> SUFFICES ASSUME EffectInit, NEW c \in Calls PROVE RowOK(rows[c], invoked[c])
    BY DEF RowsOK
  <1> QED
    BY DEF EffectInit, RowOK, FreshRow, DoneRow, Results, NeverRan, Sent

LEMMA SetRowStep ==
  ASSUME EffectTypeOK, RowsOK, NEW c \in Calls, NEW r, SetRow(c, r), UNCHANGED invoked,
         RowOK(r, invoked[c]), RowForward(rows[c], r)
  PROVE  RowsOK' /\ RowsForward
  <1> SUFFICES ASSUME NEW d \in Calls
               PROVE  RowOK(rows'[d], invoked'[d]) /\ RowForward(rows[d], rows'[d])
    BY DEF RowsOK, RowsForward
  <1>1. rows'[c] = r /\ (d # c => rows'[d] = rows[d])
    BY DEF SetRow, EffectTypeOK
  <1> QED
    BY <1>1 DEF RowsOK, RowForward

LEMMA SameRowsStep ==
  ASSUME RowsOK, UNCHANGED <<rows, invoked>>
  PROVE  RowsOK' /\ RowsForward
  BY DEF RowsOK, RowsForward, RowForward

\* A call nobody has touched, and an effect nobody has dispatched, may be settled or go on.
LEMMA UnsentStep ==
  ASSUME NEW r \in EffectRows, NEW n \in Nat, RowOK(r, n), NEW o \in NeverRan, NEW h
  PROVE  /\ r.call = "pending" =>
               LET s == [r EXCEPT !.call = "executing", !.operation = o]
               IN  RowOK(s, n) /\ RowForward(r, s)
         /\ r.call = "pending" =>
               LET s == [r EXCEPT !.call = "executing", !.intent = "pending", !.operation = "pending"]
               IN  RowOK(s, n) /\ RowForward(r, s)
         /\ r.intent = "pending" =>
               LET s == [r EXCEPT !.intent = "cancelled_before_dispatch", !.operation = "cancelled"]
               IN  RowOK(s, n) /\ RowForward(r, s)
         /\ r.intent = "pending" =>
               LET s == [r EXCEPT !.intent = "dispatched", !.operation = "executing", !.by = h]
               IN  RowOK(s, n) /\ RowForward(r, s)
  <1> USE DEF RowOK, RowForward, EffectRows, Results, NeverRan, Sent
  <1>1. CASE r.call = "pending"
    BY <1>1
  <1>2. CASE r.intent = "pending"
    BY <1>2
  <1> QED
    BY <1>1, <1>2

\* A receipt is written, decides the operation, and the operation the outcome.
LEMMA SentStep ==
  ASSUME EffectTypeOK, NEW c \in Calls, RowOK(rows[c], invoked[c]), NEW o \in Results,
         o \in NeverRan => invoked[c] = 0
  PROVE  /\ RowOK(WithReceipt(c, o), invoked[c]) /\ RowForward(rows[c], WithReceipt(c, o))
         /\ RowOK(Completed(c), invoked[c]) /\ RowForward(rows[c], Completed(c))
         /\ Terminal(c) /\ rows[c].outcome = "none" =>
               LET s == [rows[c] EXCEPT !.call = "terminal", !.outcome = rows[c].operation]
               IN  RowOK(s, invoked[c]) /\ RowForward(rows[c], s)
  <1> USE DEF RowOK, RowForward, EffectRows, Results, NeverRan, Sent
  <1>0. rows[c] \in EffectRows /\ invoked[c] \in Nat
    BY DEF EffectTypeOK
  <1>1. RowOK(WithReceipt(c, o), invoked[c]) /\ RowForward(rows[c], WithReceipt(c, o))
    BY <1>0 DEF WithReceipt
  <1>2. RowOK(Completed(c), invoked[c]) /\ RowForward(rows[c], Completed(c))
    BY <1>0 DEF Completed, Terminal
  <1>3. ASSUME Terminal(c), rows[c].outcome = "none",
               NEW s, s = [rows[c] EXCEPT !.call = "terminal", !.outcome = rows[c].operation]
        PROVE  RowOK(s, invoked[c]) /\ RowForward(rows[c], s)
    BY <1>0, <1>3 DEF Terminal
  <1> QED
    BY <1>1, <1>2, <1>3

LEMMA RowsExecStep ==
  ASSUME EffectTypeOK, RowsOK, ExecutionsOwnRows, NEW h \in EffectHosts, NEW c \in Calls,
         ExecStep(h, c) \/ Answered(h, c)
  PROVE  RowsOK' /\ RowsForward
  <1>0. /\ rows[c] \in EffectRows /\ invoked[c] \in Nat /\ RowOK(rows[c], invoked[c])
        /\ {"cancelled", "rejected"} \subseteq NeverRan
        /\ ExecutionOK(h, c)
    BY DEF EffectTypeOK, RowsOK, NeverRan, ExecutionsOwnRows
  <1>1. CASE BeginCall(h, c)
    BY <1>0, <1>1, UnsentStep, SetRowStep, SameRowsStep DEF BeginCall, Settled
  <1>2. CASE Prepare(h, c)
    BY <1>0, <1>2, UnsentStep, SetRowStep, SameRowsStep DEF Prepare, Settled
  <1>3. CASE DispatchAborted(h, c)
    BY <1>0, <1>3, UnsentStep, SetRowStep, SameRowsStep DEF DispatchAborted, CancelledRow
  <1>4. CASE ClaimCommit(h, c)
    BY <1>0, <1>4, UnsentStep, SetRowStep DEF ClaimCommit, ClaimHolds
  <1>5. CASE CallTool(h, c)
    <2>1. CASE UNCHANGED invoked
      BY <1>5, <2>1, SameRowsStep DEF CallTool
    <2>2. CASE invoked' = [invoked EXCEPT ![c] = @ + 1] /\ rows[c].intent = "dispatched"
      <3>1. RowOK(rows[c], invoked[c] + 1)
        BY <1>0, <1>5, <2>2 DEF CallTool, ExecutionOK, RowOK, Sent, NeverRan, Executing
      <3>2. UNCHANGED rows
        BY <1>5 DEF CallTool
      <3> QED
        BY <2>2, <3>1, <3>2 DEF RowsOK, RowsForward, RowForward, EffectTypeOK
    <2> QED
      BY <1>5, <2>1, <2>2 DEF CallTool
  <1>6. CASE RecordReceipt(h, c)
    <2>1. /\ exec[h][c].seen \in Results
          /\ exec[h][c].seen \in NeverRan => invoked[c] = 0
      BY <1>0, <1>6 DEF RecordReceipt, ExecutionOK
    <2> QED
      BY <1>0, <1>6, <2>1, SentStep, SetRowStep DEF RecordReceipt
  <1>7. CASE Reconcile(h, c)
    <2>1. \E o \in Results : o \notin NeverRan
      BY DEF Results, NeverRan
    <2> QED
      BY <1>0, <1>7, <2>1, SentStep, SetRowStep, SameRowsStep DEF Reconcile
  <1>8. CASE \/ Register(h, c) \/ AbortIfStopped(h, c) \/ ClaimRead(h, c) \/ ClaimLost(h, c)
             \/ GaveUp(h, c) \/ Answered(h, c)
    BY <1>8, SameRowsStep DEF Register, AbortIfStopped, ClaimRead, ClaimLost, GaveUp, Answered
  <1> QED
    BY <1>1, <1>2, <1>3, <1>4, <1>5, <1>6, <1>7, <1>8 DEF ExecStep

LEMMA RowsStep ==
  ASSUME EffectInv, [EffectNext]_effectVars
  PROVE  RowsOK' /\ RowsForward
  <1>0. /\ EffectTypeOK /\ RowsOK /\ ExecutionsOwnRows
        /\ "cancelled" \in NeverRan
        /\ "outcome_unknown" \in Results \ NeverRan
    BY DEF EffectInv, NeverRan, Results
  <1>1. ASSUME NEW h \in EffectHosts, NEW c \in Calls, Convergence(h, c)
        PROVE  RowsOK' /\ RowsForward
    <2>0. RowOK(rows[c], invoked[c])
      BY <1>0 DEF RowsOK
    <2>1. CASE FinalizeNext(h, c)
      BY <1>0, <2>0, <2>1, SentStep, SetRowStep DEF FinalizeNext
    <2>2. CASE ResumeReceipt(h, c)
      BY <1>0, <2>0, <2>2, SentStep, SetRowStep DEF ResumeReceipt
    <2>3. CASE FindHanging(h, c) \/ CloseRead(h, c)
      BY <1>0, <2>3, SameRowsStep DEF FindHanging, CloseRead
    <2> QED
      BY <1>1, <2>1, <2>2, <2>3 DEF Convergence
  <1>2. ASSUME NEW h \in EffectHosts, RecordUnknown(h)
        PROVE  RowsOK' /\ RowsForward
    <2>1. hanging[h] \in Calls
      BY <1>0, <1>2 DEF RecordUnknown, EffectTypeOK
    <2>2. RowOK(rows[hanging[h]], invoked[hanging[h]])
      BY <1>0, <2>1 DEF RowsOK
    <2> QED
      BY <1>0, <1>2, <2>1, <2>2, SentStep, SetRowStep DEF RecordUnknown
  <1>3. ASSUME NEW h \in EffectHosts, CloseCommit(h)
        PROVE  RowsOK' /\ RowsForward
    <2>1. closing[h] \in Calls
      BY <1>0, <1>3 DEF CloseCommit, EffectTypeOK
    <2>2. /\ RowOK(rows[closing[h]], invoked[closing[h]])
          /\ rows[closing[h]] \in EffectRows /\ invoked[closing[h]] \in Nat
      BY <1>0, <2>1 DEF RowsOK, EffectTypeOK
    <2> QED
      BY <1>0, <1>3, <2>1, <2>2, UnsentStep, SetRowStep, SameRowsStep
         DEF CloseCommit, Settled, CancelledRow
  <1>4. ASSUME NEW h \in EffectHosts,
               \/ CancelActive(h) \/ EndTurn(h) \/ TakeOver(h)
               \/ HandBack(h) \/ HostDies(h)
        PROVE  RowsOK' /\ RowsForward
    BY <1>0, <1>4, SameRowsStep DEF CancelActive, EndTurn, TakeOver, HandBack, HostDies
  <1>6. ASSUME NEW h \in EffectHosts, RecoverUnheld(h) \/ RecoverStopped(h)
        PROVE  RowsOK' /\ RowsForward
    BY <1>0, <1>6, RecoverySteps, SameRowsStep
  <1>5. CASE RequestStop \/ UNCHANGED effectVars
    BY <1>0, <1>5, SameRowsStep DEF RequestStop
  <1> QED
    BY <1>0, <1>1, <1>2, <1>3, <1>4, <1>5, <1>6, RowsExecStep DEF EffectNext, HostStep

---------------------------------------------------------------------------
(* Executions and recoveries. *)

LEMMA GenerationLeftStep ==
  ASSUME EffectInv, [EffectNext]_effectVars
  PROVE  GenerationLeft' /\ lease.generation <= lease'.generation
  <1>0. /\ lease.generation \in Nat /\ lease.generation <= MaxGeneration /\ MaxGeneration \in Nat
        /\ GenerationLeft
    BY EffectAssumption DEF EffectInv, EffectTypeOK
  <1>1. ASSUME NEW h \in EffectHosts, TakeOver(h)
        PROVE  GenerationLeft' /\ lease.generation <= lease'.generation
    BY <1>0, <1>1 DEF TakeOver, GenerationLeft
  <1>2. ASSUME NEW h \in EffectHosts, HandBack(h) \/ HostDies(h)
        PROVE  GenerationLeft' /\ lease.generation <= lease'.generation
    BY <1>0, <1>2 DEF HandBack, HostDies, GenerationLeft, EffectInv, EffectTypeOK
  <1>3. CASE UNCHANGED <<lease, alive>>
    BY <1>0, <1>3 DEF GenerationLeft
  <1>4. \/ UNCHANGED <<lease, alive>>
        \/ \E h \in EffectHosts : TakeOver(h) \/ HandBack(h) \/ HostDies(h)
    <2>1. ASSUME NEW h \in EffectHosts, NEW c \in Calls,
                 ExecStep(h, c) \/ Answered(h, c) \/ Convergence(h, c)
          PROVE  UNCHANGED <<lease, alive>>
      BY <2>1 DEF ExecStep, BeginCall, Register, AbortIfStopped, Prepare, DispatchAborted,
         ClaimRead, ClaimCommit, ClaimLost, CallTool, GaveUp, RecordReceipt, Reconcile,
         Answered, Convergence, FinalizeNext, ResumeReceipt, FindHanging, CloseRead
    <2>2. ASSUME NEW h \in EffectHosts, HostStep(h), ~TakeOver(h)
          PROVE  UNCHANGED <<lease, alive>>
      BY <2>2, RecoverySteps DEF HostStep, RecordUnknown, CancelActive, CloseCommit, EndTurn
    <2> QED
      BY <2>1, <2>2 DEF EffectNext, RequestStop
  <1> QED
    BY <1>1, <1>2, <1>3, <1>4

\* A dead Host stays dead.
LEMMA DeadStaysDead ==
  ASSUME EffectTypeOK, [EffectNext]_effectVars
  PROVE  alive' \subseteq alive
  <1>1. ASSUME NEW h \in EffectHosts, NEW c \in Calls,
               ExecStep(h, c) \/ Answered(h, c) \/ Convergence(h, c)
        PROVE  UNCHANGED alive
    BY <1>1 DEF ExecStep, BeginCall, Register, AbortIfStopped, Prepare, DispatchAborted,
       ClaimRead, ClaimCommit, ClaimLost, CallTool, GaveUp, RecordReceipt, Reconcile,
       Answered, Convergence, FinalizeNext, ResumeReceipt, FindHanging, CloseRead
  <1>2. ASSUME NEW h \in EffectHosts, HostStep(h) \/ HandBack(h) \/ HostDies(h)
        PROVE  alive' \subseteq alive
    BY <1>2, RecoverySteps DEF HostStep, RecordUnknown, CancelActive, CloseCommit, EndTurn, TakeOver,
       HandBack, HostDies
  <1> QED
    BY <1>1, <1>2 DEF EffectNext, RequestStop

\* The facts of an execution that goes no further carry over while its dispatch stays as it is.
LEMMA ExecutionKept ==
  ASSUME NEW h \in EffectHosts, NEW c \in Calls, ExecutionOK(h, c),
         exec'[h][c].pc = exec[h][c].pc, exec'[h][c].seen = exec[h][c].seen,
         exec'[h][c].generation <= lease'.generation,
         exec[h][c].pc # "idle" => h \in alive',
         exec[h][c].pc \in Executing =>
             /\ rows'[c].by = rows[c].by /\ rows'[c].intent \in Sent
             /\ rows'[c].receipt = rows[c].receipt /\ invoked'[c] = invoked[c]
  PROVE  ExecutionOK(h, c)'
  BY DEF ExecutionOK, Executing

\* An execution that is not past its claim needs a live Host and a generation only.
LEMMA ExecutionBefore ==
  ASSUME NEW h \in EffectHosts, NEW c \in Calls, exec'[h][c].pc \notin Executing,
         exec'[h][c].generation <= lease'.generation,
         exec'[h][c].pc # "idle" => h \in alive'
  PROVE  ExecutionOK(h, c)'
  BY DEF ExecutionOK, Executing

\* A step of one execution, or on the rows of one call, leaves the others as they are.
LEMMA OtherExecutions ==
  ASSUME EffectInv, RowsForward, UNCHANGED <<lease, alive>>,
         NEW h \in EffectHosts, NEW c \in Calls, NEW x, exec' = [exec EXCEPT ![h][c] = x],
         \A d \in Calls \ {c} : rows'[d] = rows[d] /\ invoked'[d] = invoked[d],
         \A k \in EffectHosts \ {h} : exec[k][c].pc \in Executing =>
             rows'[c].receipt = rows[c].receipt /\ invoked'[c] = invoked[c],
         ExecutionOK(h, c)'
  PROVE  ExecutionsOwnRows'
  <1> SUFFICES ASSUME NEW k \in EffectHosts, NEW d \in Calls, k # h \/ d # c
               PROVE  ExecutionOK(k, d)'
    BY DEF ExecutionsOwnRows
  <1>1. exec'[k][d] = exec[k][d] /\ ExecutionOK(k, d)
    BY DEF EffectInv, EffectTypeOK, ExecutionsOwnRows
  <1>2. exec[k][d].pc \in Executing =>
             /\ rows'[d].by = rows[d].by /\ rows'[d].intent \in Sent
             /\ rows'[d].receipt = rows[d].receipt /\ invoked'[d] = invoked[d]
    BY <1>1 DEF ExecutionOK, RowsForward, RowForward
  <1> QED
    BY <1>1, <1>2, ExecutionKept DEF ExecutionOK

\* A step that leaves its execution outside the dispatched part, and every receipt as it is.
LEMMA OutsideDispatch ==
  ASSUME EffectInv, RowsForward, UNCHANGED <<lease, alive, invoked>>,
         NEW h \in EffectHosts, NEW c \in Calls, NEW x, exec' = [exec EXCEPT ![h][c] = x],
         x.pc \notin Executing, x.generation <= lease.generation, x.pc # "idle" => h \in alive,
         UNCHANGED rows \/ \E r : SetRow(c, r) /\ r.receipt = rows[c].receipt
  PROVE  ExecutionsOwnRows'
  <1>1. /\ \A d \in Calls \ {c} : rows'[d] = rows[d]
        /\ rows'[c].receipt = rows[c].receipt
    BY DEF SetRow, EffectInv, EffectTypeOK
  <1>2. exec'[h][c] = x
    BY DEF EffectInv, EffectTypeOK
  <1>3. ExecutionOK(h, c)'
    BY <1>2, ExecutionBefore
  <1> QED
    BY <1>1, <1>3, OtherExecutions

LEMMA ExecutionsExecStep ==
  ASSUME EffectInv, NEW h \in EffectHosts, NEW c \in Calls, ExecStep(h, c) \/ Answered(h, c)
  PROVE  ExecutionsOwnRows'
  <1>0. /\ ExecutionOK(h, c) /\ EffectTypeOK /\ RowOK(rows[c], invoked[c])
        /\ rows[c] \in EffectRows /\ exec[h][c] \in Executions
        /\ exec[h][c].generation \in Nat /\ lease.generation \in Nat
        /\ exec[h][c].generation <= lease.generation
        /\ exec[h][c].pc # "idle" => h \in alive
        /\ invoked[c] \in Nat
    BY DEF EffectInv, ExecutionsOwnRows, RowsOK, EffectTypeOK, Executions, ExecutionOK
  <1>a. RowsForward
    BY RowsExecStep DEF EffectInv
  \* Every other execution of the call stands before its claim, or is that of the dispatcher.
  <1>b. \A k \in EffectHosts : exec[k][c].pc \in Executing =>
           rows[c].intent \in Sent /\ rows[c].by = k
    BY DEF EffectInv, ExecutionsOwnRows, ExecutionOK
  <1>c. exec[h][c].pc \in Executing =>
           \A k \in EffectHosts \ {h} : exec[k][c].pc \notin Executing
    BY <1>b
  <1>d. /\ NoExec.pc \notin Executing /\ NoExec.pc = "idle"
        /\ NoExec.generation <= lease.generation
    BY <1>0 DEF NoExec, Executing
  <1>e. \A s \in {"registered", "prepare", "dispatch", "claim"} :
           LET x == [exec[h][c] EXCEPT !.pc = s]
           IN  x.pc \notin Executing /\ x.generation <= lease.generation
    BY <1>0 DEF Executions, Executing
  <1>f. exec[h] \in [Calls -> Executions] /\ exec \in [EffectHosts -> [Calls -> Executions]]
    BY <1>0 DEF EffectTypeOK
  <1>g. /\ \A o : Settled(c, o).receipt = rows[c].receipt
        /\ CancelledRow(c).receipt = rows[c].receipt
        /\ [rows[c] EXCEPT !.call = "executing", !.intent = "pending",
                           !.operation = "pending"].receipt = rows[c].receipt
    BY <1>0 DEF Settled, CancelledRow, EffectRows
  <1>1. CASE BeginCall(h, c)
    <2>1. CASE stopSet
      <3>1. exec' = [exec EXCEPT ![h][c] = exec[h][c]]
        BY <1>1, <1>f, <2>1 DEF BeginCall
      <3>2. exec[h][c].pc \notin Executing
        BY <1>1 DEF BeginCall, Executing
      <3>3. \E r : SetRow(c, r) /\ r.receipt = rows[c].receipt
        BY <1>1, <1>g, <2>1 DEF BeginCall
      <3> QED
        BY <1>0, <1>a, <1>1, <3>1, <3>2, <3>3, OutsideDispatch DEF BeginCall
    <2>2. CASE ~stopSet
      <3> DEFINE x == [NoExec EXCEPT !.pc = "admitted", !.generation = lease.generation]
      <3>1. x.pc \notin Executing /\ x.generation <= lease.generation
        BY <1>0 DEF NoExec, Executing
      <3>2. /\ exec' = [exec EXCEPT ![h][c] = x] /\ h \in alive
            /\ UNCHANGED <<rows, lease, alive, invoked>>
        BY <1>1, <2>2 DEF BeginCall, Serves
      <3> QED
        BY <1>a, <3>1, <3>2, OutsideDispatch
    <2> QED
      BY <2>1, <2>2
  <1>2. CASE Register(h, c)
    BY <1>0, <1>a, <1>2, <1>e, OutsideDispatch DEF Register, Goto
  <1>3. CASE AbortIfStopped(h, c)
    <2>1. ASSUME NEW a
          PROVE  LET x == [exec[h][c] EXCEPT !.pc = "prepare", !.abort = a]
                 IN  x.pc \notin Executing /\ x.generation <= lease.generation
      BY <1>0 DEF Executions, Executing
    <2> QED
      BY <1>0, <1>a, <1>3, <2>1, OutsideDispatch DEF AbortIfStopped
  <1>4. CASE Prepare(h, c)
    <2>1. UNCHANGED rows \/ \E r : SetRow(c, r) /\ r.receipt = rows[c].receipt
      BY <1>g, <1>4 DEF Prepare
    <2>2. Goto(h, c, "dispatch") \/ ExecEnds(h, c)
      BY <1>4 DEF Prepare
    <2> QED
      BY <1>0, <1>a, <1>d, <1>e, <1>4, <2>1, <2>2, OutsideDispatch DEF Prepare, Goto, ExecEnds
  <1>5. CASE DispatchAborted(h, c)
    <2>1. UNCHANGED rows \/ \E r : SetRow(c, r) /\ r.receipt = rows[c].receipt
      BY <1>g, <1>5 DEF DispatchAborted
    <2> QED
      BY <1>0, <1>a, <1>d, <1>5, <2>1, OutsideDispatch DEF DispatchAborted, ExecEnds
  <1>6. CASE ClaimRead(h, c) \/ ClaimLost(h, c)
    BY <1>0, <1>a, <1>d, <1>e, <1>6, OutsideDispatch DEF ClaimRead, ClaimLost, Goto, ExecEnds
  <1>7. CASE Reconcile(h, c)
    <2>1. UNCHANGED rows \/ \E r : SetRow(c, r) /\ r.receipt = rows[c].receipt
      BY <1>0, <1>7 DEF Reconcile, Completed, EffectRows
    <2> QED
      BY <1>0, <1>a, <1>d, <1>7, <2>1, OutsideDispatch DEF Reconcile, ExecEnds
  <1>8. CASE ClaimCommit(h, c)
    <2> DEFINE r == [rows[c] EXCEPT !.intent = "dispatched", !.operation = "executing", !.by = h]
    <2>1. /\ rows[c].intent = "pending" /\ SetRow(c, r) /\ exec[h][c].pc = "claim"
          /\ exec' = [exec EXCEPT ![h][c] = [exec[h][c] EXCEPT !.pc = "execute"]]
          /\ UNCHANGED <<turnOpen, stopSet, scanDue, lease, invoked, alive, closing, recovering, hanging>>
      BY <1>8 DEF ClaimCommit, ClaimHolds, Goto
    <2>2. \A k \in EffectHosts : exec[k][c].pc \notin Executing
      BY <1>b, <2>1 DEF Sent
    <2>3. /\ exec'[h][c].pc = "execute" /\ exec'[h][c].generation = exec[h][c].generation
          /\ rows'[c].by = h /\ rows'[c].intent = "dispatched" /\ rows'[c].receipt = "none"
          /\ invoked'[c] = 0
          /\ \A d \in Calls \ {c} : rows'[d] = rows[d]
      BY <1>0, <1>f, <2>1 DEF SetRow, EffectTypeOK, EffectRows, Executions, RowOK, Sent
    <2>4. ExecutionOK(h, c)'
      BY <1>0, <2>1, <2>3 DEF ExecutionOK, Executing, Sent
    <2> QED
      BY <1>a, <2>1, <2>2, <2>3, <2>4, OtherExecutions
  <1>9. CASE CallTool(h, c)
    <2>0. UNCHANGED <<rows, lease, alive>> /\ exec[h][c].pc = "execute"
          /\ exec[h][c].pc \in Executing
      BY <1>9 DEF CallTool, Executing
    <2>1. CASE ExecEnds(h, c) /\ UNCHANGED invoked
      BY <1>a, <1>d, <2>0, <2>1, OutsideDispatch DEF ExecEnds
    <2>2. CASE /\ exec' = [exec EXCEPT ![h][c] = [@ EXCEPT !.pc = "observed", !.seen = "cancelled"]]
               /\ UNCHANGED invoked
      <3>1. /\ exec'[h][c].pc = "observed" /\ exec'[h][c].seen = "cancelled"
            /\ exec'[h][c].generation = exec[h][c].generation
        BY <1>0, <1>f, <2>2 DEF Executions
      <3>2. ExecutionOK(h, c)'
        BY <1>0, <2>0, <2>2, <3>1 DEF ExecutionOK, Executing, Results
      <3> QED
        BY <1>a, <1>c, <2>0, <2>2, <3>2, OtherExecutions
    <2>3. CASE Goto(h, c, "calling") /\ invoked' = [invoked EXCEPT ![c] = @ + 1]
      <3>1. /\ exec'[h][c].pc = "calling" /\ exec'[h][c].generation = exec[h][c].generation
            /\ \A d \in Calls \ {c} : invoked'[d] = invoked[d]
        BY <1>0, <1>f, <2>3 DEF Executions, Goto, EffectTypeOK
      <3>2. ExecutionOK(h, c)'
        BY <1>0, <2>0, <2>3, <3>1 DEF ExecutionOK, Executing
      <3> QED
        BY <1>a, <1>c, <2>0, <2>3, <3>1, <3>2, OtherExecutions DEF Goto
    <2> QED
      BY <1>9, <2>1, <2>2, <2>3 DEF CallTool
  <1>10. CASE Answered(h, c) \/ GaveUp(h, c)
    <2>1. PICK o \in Results \ NeverRan :
             exec' = [exec EXCEPT ![h][c] = [@ EXCEPT !.pc = "observed", !.seen = o]]
      BY <1>10, EffectAssumption DEF Answered, GaveUp, Results, NeverRan
    <2>2. /\ UNCHANGED <<rows, lease, alive, invoked>> /\ exec[h][c].pc = "calling"
          /\ exec[h][c].pc \in Executing
      BY <1>10 DEF Answered, GaveUp, Executing
    <2>3. /\ exec'[h][c].pc = "observed" /\ exec'[h][c].seen = o
          /\ exec'[h][c].generation = exec[h][c].generation
      BY <1>0, <1>f, <2>1 DEF Executions
    <2>4. ExecutionOK(h, c)'
      BY <1>0, <2>2, <2>3 DEF ExecutionOK, Executing
    <2> QED
      BY <1>a, <2>1, <2>2, <2>4, OtherExecutions
  <1>11. CASE RecordReceipt(h, c)
    <2>1. /\ UNCHANGED <<lease, alive, invoked>> /\ exec[h][c].pc = "observed"
          /\ exec[h][c].pc \in Executing
          /\ exec' = [exec EXCEPT ![h][c] = [exec[h][c] EXCEPT !.pc = "reconcile"]]
          /\ SetRow(c, WithReceipt(c, exec[h][c].seen))
      BY <1>11 DEF RecordReceipt, Executing, Goto
    <2>2. rows[c].intent = "dispatched" /\ rows[c].receipt = "none" /\ rows[c].by = h
      BY <1>0, <2>1 DEF ExecutionOK, RowOK, Sent, Executing, Results
    <2>3. /\ exec'[h][c].pc = "reconcile" /\ exec'[h][c].seen = exec[h][c].seen
          /\ exec'[h][c].generation = exec[h][c].generation
      BY <1>0, <1>f, <2>1 DEF Executions
    <2>4. /\ rows'[c].receipt = exec[h][c].seen /\ rows'[c].by = h
          /\ rows'[c].intent = "receipt_written"
          /\ \A d \in Calls \ {c} : rows'[d] = rows[d]
      BY <1>0, <2>1, <2>2 DEF SetRow, WithReceipt, EffectTypeOK, EffectRows
    <2>5. ExecutionOK(h, c)'
      BY <1>0, <2>1, <2>3, <2>4 DEF ExecutionOK, Executing, Sent
    <2> QED
      BY <1>a, <1>c, <2>1, <2>4, <2>5, OtherExecutions
  <1> QED
    BY <1>1, <1>2, <1>3, <1>4, <1>5, <1>6, <1>7, <1>8, <1>9, <1>10, <1>11 DEF ExecStep

\* Steps that move no execution; a receipt they write is that of a dead dispatcher.
LEMMA ExecutionsKept ==
  ASSUME EffectInv, RowsForward, UNCHANGED invoked, lease.generation <= lease'.generation,
         \A c \in Calls : rows'[c].receipt = rows[c].receipt \/ rows[c].by \notin alive,
         \A h \in EffectHosts, c \in Calls :
             /\ exec'[h][c].pc = exec[h][c].pc /\ exec'[h][c].seen = exec[h][c].seen
             /\ exec'[h][c].generation = exec[h][c].generation
             /\ exec[h][c].pc # "idle" => h \in alive',
         lease'.generation \in Nat
  PROVE  ExecutionsOwnRows'
  <1> SUFFICES ASSUME NEW h \in EffectHosts, NEW c \in Calls PROVE ExecutionOK(h, c)'
    BY DEF ExecutionsOwnRows
  <1>1. /\ ExecutionOK(h, c) /\ exec[h][c].generation \in Nat /\ lease.generation \in Nat
    BY DEF EffectInv, ExecutionsOwnRows, EffectTypeOK, Executions
  <1>2. exec[h][c].pc \in Executing => exec[h][c].pc # "idle"
    BY DEF Executing
  <1>3. exec[h][c].pc \in Executing =>
             /\ rows'[c].by = rows[c].by /\ rows'[c].intent \in Sent
             /\ rows'[c].receipt = rows[c].receipt /\ invoked'[c] = invoked[c]
    BY <1>1, <1>2 DEF ExecutionOK, RowsForward, RowForward
  <1>4. exec'[h][c].generation <= lease'.generation
    BY <1>1 DEF ExecutionOK
  <1> QED
    BY <1>1, <1>3, <1>4, ExecutionKept

\* Aborting the executions of a Host changes nothing else about any execution.
LEMMA AbortedIs ==
  ASSUME EffectTypeOK, NEW k \in EffectHosts, NEW why, exec' = Aborted(k, why)
  PROVE  \A h \in EffectHosts, c \in Calls :
            /\ exec'[h][c].pc = exec[h][c].pc /\ exec'[h][c].seen = exec[h][c].seen
            /\ exec'[h][c].generation = exec[h][c].generation
            /\ exec'[h][c].abort # exec[h][c].abort =>
                  h = k /\ exec[h][c].abort = "no" /\ exec'[h][c].abort = why
            /\ h = k /\ exec[h][c].pc \notin {"idle", "admitted"} /\ why # "no" =>
                  exec'[h][c].abort # "no"
  <1> SUFFICES ASSUME NEW h \in EffectHosts, NEW c \in Calls
               PROVE  /\ exec'[h][c].pc = exec[h][c].pc /\ exec'[h][c].seen = exec[h][c].seen
                      /\ exec'[h][c].generation = exec[h][c].generation
                      /\ exec'[h][c].abort # exec[h][c].abort =>
                            h = k /\ exec[h][c].abort = "no" /\ exec'[h][c].abort = why
                      /\ h = k /\ exec[h][c].pc \notin {"idle", "admitted"} /\ why # "no" =>
                            exec'[h][c].abort # "no"
    OBVIOUS
  <1>1. exec[h][c] \in Executions
    BY DEF EffectTypeOK
  <1>2. CASE h # k
    BY <1>2 DEF Aborted, EffectTypeOK
  <1>3. CASE h = k
    <2>1. exec'[h][c] = IF Registered(exec[h][c]) /\ exec[h][c].abort = "no"
                        THEN [exec[h][c] EXCEPT !.abort = why] ELSE exec[h][c]
      BY <1>3 DEF Aborted, EffectTypeOK
    <2> QED
      BY <1>1, <1>3, <2>1 DEF Executions, Registered
  <1> QED
    BY <1>2, <1>3

LEMMA ExecutionsStep ==
  ASSUME EffectInv, [EffectNext]_effectVars
  PROVE  ExecutionsOwnRows'
  <1>0. /\ EffectTypeOK /\ EffectTypeOK' /\ RowsForward
        /\ lease.generation <= lease'.generation /\ lease'.generation \in Nat
        /\ alive' \subseteq alive
        /\ \A h \in EffectHosts, c \in Calls : exec[h][c].pc # "idle" => h \in alive
    <2>1. EffectTypeOK /\ EffectTypeOK' /\ RowsForward /\ alive' \subseteq alive
      BY TypeStep, RowsStep, DeadStaysDead DEF EffectInv
    <2>2. \A h \in EffectHosts, c \in Calls : exec[h][c].pc # "idle" => h \in alive
      BY DEF EffectInv, ExecutionsOwnRows, ExecutionOK
    <2>3. lease'.generation \in Nat
      BY <2>1 DEF EffectTypeOK
    <2> QED
      BY <2>1, <2>2, <2>3, GenerationLeftStep
  <1>1. ASSUME NEW h \in EffectHosts, NEW c \in Calls, Convergence(h, c)
        PROVE  ExecutionsOwnRows'
    <2>1. UNCHANGED <<exec, invoked, alive>>
      BY <1>1 DEF Convergence, FinalizeNext, ResumeReceipt, FindHanging, CloseRead
    <2>2. \A d \in Calls : rows'[d].receipt = rows[d].receipt
      <3>1. rows[c] \in EffectRows
        BY <1>0 DEF EffectTypeOK
      <3>2. /\ Completed(c).receipt = rows[c].receipt
            /\ \A o : [rows[c] EXCEPT !.call = "terminal", !.outcome = o].receipt = rows[c].receipt
        BY <3>1 DEF Completed, EffectRows
      <3>3. UNCHANGED rows \/ \E r : SetRow(c, r) /\ r.receipt = rows[c].receipt
        BY <1>1, <3>2 DEF Convergence, FinalizeNext, ResumeReceipt, FindHanging, CloseRead
      <3> QED
        BY <1>0, <3>3 DEF SetRow, EffectTypeOK
    <2> QED
      BY <1>0, <2>1, <2>2, ExecutionsKept
  <1>2. ASSUME NEW h \in EffectHosts, RecordUnknown(h)
        PROVE  ExecutionsOwnRows'
    <2>1. UNCHANGED <<exec, invoked, alive>> /\ hanging[h] \in Calls
          /\ rows[hanging[h]].by \notin alive
      BY <1>0, <1>2 DEF RecordUnknown, EffectInv, HangingIsDead, EffectTypeOK
    <2>2. \A d \in Calls \ {hanging[h]} : rows'[d] = rows[d]
      BY <1>0, <1>2 DEF RecordUnknown, SetRow, EffectTypeOK
    <2> QED
      BY <1>0, <2>1, <2>2, ExecutionsKept
  <1>3. ASSUME NEW h \in EffectHosts, CloseCommit(h)
        PROVE  ExecutionsOwnRows'
    <2>1. UNCHANGED <<exec, invoked, alive>> /\ closing[h] \in Calls
      BY <1>0, <1>3 DEF CloseCommit, EffectTypeOK
    <2>2. \A d \in Calls : rows'[d].receipt = rows[d].receipt
      <3>1. rows[closing[h]] \in EffectRows
        BY <1>0, <2>1 DEF EffectTypeOK
      <3>2. /\ \A o : Settled(closing[h], o).receipt = rows[closing[h]].receipt
            /\ CancelledRow(closing[h]).receipt = rows[closing[h]].receipt
        BY <3>1 DEF Settled, CancelledRow, EffectRows
      <3>3. UNCHANGED rows \/ \E r : SetRow(closing[h], r) /\ r.receipt = rows[closing[h]].receipt
        BY <1>3, <3>2 DEF CloseCommit
      <3> QED
        BY <1>0, <3>3 DEF SetRow, EffectTypeOK
    <2> QED
      BY <1>0, <2>1, <2>2, ExecutionsKept
  <1>4. ASSUME NEW h \in EffectHosts, CancelActive(h) \/ HandBack(h)
        PROVE  ExecutionsOwnRows'
    <2>1. UNCHANGED <<rows, invoked, alive>>
          /\ (UNCHANGED exec \/ \E why : exec' = Aborted(h, why))
      BY <1>4 DEF CancelActive, HandBack
    <2> QED
      BY <1>0, <2>1, AbortedIs, ExecutionsKept
  <1>5. ASSUME NEW h \in EffectHosts,
               EndTurn(h) \/ TakeOver(h) \/ RecoverUnheld(h) \/ RecoverStopped(h)
        PROVE  ExecutionsOwnRows'
    <2>1. UNCHANGED <<exec, rows, invoked, alive>>
      BY <1>5, RecoverySteps DEF EndTurn, TakeOver
    <2> QED
      BY <1>0, <2>1, ExecutionsKept
  <1>6. ASSUME NEW h \in EffectHosts, HostDies(h)
        PROVE  ExecutionsOwnRows'
    <2> SUFFICES ASSUME NEW k \in EffectHosts, NEW c \in Calls PROVE ExecutionOK(k, c)'
      BY DEF ExecutionsOwnRows
    <2>1. /\ UNCHANGED <<rows, invoked, lease>>
          /\ exec' = [exec EXCEPT ![h] = [d \in Calls |-> NoExec]]
          /\ alive' = alive \ {h}
      BY <1>6 DEF HostDies
    <2>2. CASE k = h
      <3>1. exec'[k][c] = NoExec
        BY <1>0, <2>1, <2>2 DEF EffectTypeOK
      <3> QED
        BY <1>0, <3>1, ExecutionBefore DEF NoExec, Executing
    <2>3. CASE k # h
      <3>1. exec'[k][c] = exec[k][c] /\ ExecutionOK(k, c)
        BY <1>0, <2>1, <2>3 DEF EffectTypeOK, EffectInv, ExecutionsOwnRows
      <3> QED
        BY <1>0, <2>1, <2>3, <3>1, ExecutionKept DEF ExecutionOK
    <2> QED
      BY <2>2, <2>3
  <1>7. CASE RequestStop \/ UNCHANGED effectVars
    <2>1. UNCHANGED <<exec, rows, invoked, alive>>
      BY <1>7 DEF RequestStop
    <2> QED
      BY <1>0, <2>1, ExecutionsKept
  <1> QED
    BY <1>1, <1>2, <1>3, <1>4, <1>5, <1>6, <1>7, ExecutionsExecStep DEF EffectNext, HostStep

LEMMA HangingStep ==
  ASSUME EffectInv, [EffectNext]_effectVars
  PROVE  HangingIsDead'
  <1> SUFFICES ASSUME NEW h \in EffectHosts, hanging'[h] # 0
               PROVE  rows'[hanging'[h]].by \notin alive' /\ rows'[hanging'[h]].intent \in Sent
    BY DEF HangingIsDead
  <1>0. /\ EffectTypeOK /\ EffectTypeOK' /\ RowsForward /\ alive' \subseteq alive /\ HangingIsDead
        /\ hanging'[h] \in Calls
    BY TypeStep, RowsStep, DeadStaysDead DEF EffectInv, EffectTypeOK
  <1>1. CASE hanging'[h] = hanging[h]
    BY <1>0, <1>1 DEF HangingIsDead, RowsForward, RowForward
  <1>2. ASSUME NEW k \in EffectHosts, NEW c \in Calls, FindHanging(k, c), hanging'[h] # hanging[h]
        PROVE  rows'[hanging'[h]].by \notin alive' /\ rows'[hanging'[h]].intent \in Sent
    BY <1>0, <1>2 DEF FindHanging, DispatchedByLiveHost, Sent, EffectTypeOK
  <1>3. \/ \E k \in EffectHosts, c \in Calls : FindHanging(k, c)
        \/ UNCHANGED hanging
        \/ \E k \in EffectHosts : hanging' = [hanging EXCEPT ![k] = 0]
    <2>1. ASSUME NEW k \in EffectHosts, NEW c \in Calls,
                 ExecStep(k, c) \/ Answered(k, c) \/ Convergence(k, c)
          PROVE  UNCHANGED hanging \/ FindHanging(k, c)
      BY <2>1 DEF ExecStep, BeginCall, Register, AbortIfStopped, Prepare, DispatchAborted,
         ClaimRead, ClaimCommit, ClaimLost, CallTool, GaveUp, RecordReceipt, Reconcile,
         Answered, Convergence, FinalizeNext, ResumeReceipt, CloseRead
    <2>2. ASSUME NEW k \in EffectHosts, HostStep(k) \/ HandBack(k) \/ HostDies(k)
          PROVE  UNCHANGED hanging \/ hanging' = [hanging EXCEPT ![k] = 0]
      BY <2>2, RecoverySteps DEF HostStep, RecordUnknown, CancelActive, CloseCommit, EndTurn, TakeOver,
         HandBack, HostDies
    <2> QED
      BY <2>1, <2>2 DEF EffectNext, RequestStop
  <1> QED
    BY <1>0, <1>1, <1>2, <1>3 DEF EffectTypeOK

LEMMA EndedStep ==
  ASSUME EffectInv, [EffectNext]_effectVars
  PROVE  EndedIsSettled'
  <1>1. RowsForward /\ EndedIsSettled
    BY RowsStep DEF EffectInv
  <1>2. ~turnOpen => \A c \in Calls : rows'[c].outcome # "none"
    BY <1>1 DEF EndedIsSettled, RowsForward, RowForward
  <1>3. UNCHANGED turnOpen \/ \E h \in EffectHosts : EndTurn(h)
    <2>1. ASSUME NEW h \in EffectHosts, NEW c \in Calls,
                 ExecStep(h, c) \/ Answered(h, c) \/ Convergence(h, c)
          PROVE  UNCHANGED turnOpen
      BY <2>1 DEF ExecStep, BeginCall, Register, AbortIfStopped, Prepare, DispatchAborted,
         ClaimRead, ClaimCommit, ClaimLost, CallTool, GaveUp, RecordReceipt, Reconcile,
         Answered, Convergence, FinalizeNext, ResumeReceipt, FindHanging, CloseRead
    <2>2. ASSUME NEW h \in EffectHosts, HostStep(h) \/ HandBack(h) \/ HostDies(h), ~EndTurn(h)
          PROVE  UNCHANGED turnOpen
      BY <2>2, RecoverySteps
         DEF HostStep, RecordUnknown, CancelActive, CloseCommit, TakeOver, HandBack, HostDies
    <2> QED
      BY <2>1, <2>2 DEF EffectNext, RequestStop
  <1>4. ASSUME NEW h \in EffectHosts, EndTurn(h)
        PROVE  \A c \in Calls : rows'[c].outcome # "none"
    BY <1>4 DEF EndTurn
  <1> QED
    BY <1>2, <1>3, <1>4 DEF EndedIsSettled

---------------------------------------------------------------------------
(* What drives an execution, and what a stop reaches. *)

\* Where an execution may go on to the tool.
Driving == {"dispatch", "claim", "execute", "calling"}

DrivenOK(h, c) ==
    exec[h][c].pc \in Driving /\ exec[h][c].abort = "no"
    => lease = [host |-> h, generation |-> exec[h][c].generation]

StopOK(h, c) ==
    (\/ exec[h][c].pc \in {"execute", "calling"}
     \/ exec[h][c].pc \in {"prepare", "dispatch", "claim"} /\ Fenced(h, exec[h][c].generation))
    => exec[h][c].abort # "no"

LEMMA DrivenIs == DrivenByLease <=> \A h \in EffectHosts, c \in Calls : DrivenOK(h, c)
  BY DEF DrivenByLease, DrivenOK, Driving

LEMMA StopIs ==
  StopReachesCalls <=> (stopSet => \A h \in alive \ scanDue, c \in Calls : StopOK(h, c))
  BY DEF StopReachesCalls, StopOK

LEMMA GotoIs ==
  ASSUME EffectTypeOK, NEW h \in EffectHosts, NEW c \in Calls, NEW s, Goto(h, c, s)
  PROVE  /\ exec'[h][c].pc = s /\ exec'[h][c].abort = exec[h][c].abort
         /\ exec'[h][c].generation = exec[h][c].generation
         /\ \A k \in EffectHosts, d \in Calls : k # h \/ d # c => exec'[k][d] = exec[k][d]
  <1>1. exec' = [exec EXCEPT ![h][c] = [exec[h][c] EXCEPT !.pc = s]] /\ exec[h][c] \in Executions
    BY DEF Goto, EffectTypeOK
  <1>2. exec'[h][c] = [exec[h][c] EXCEPT !.pc = s]
    BY <1>1 DEF EffectTypeOK
  <1> QED
    BY <1>1, <1>2 DEF Executions, EffectTypeOK

LEMMA EndsIs ==
  ASSUME EffectTypeOK, NEW h \in EffectHosts, NEW c \in Calls, ExecEnds(h, c)
  PROVE  /\ exec'[h][c].pc = "idle"
         /\ \A k \in EffectHosts, d \in Calls : k # h \/ d # c => exec'[k][d] = exec[k][d]
  <1>1. exec'[h][c] = NoExec /\ NoExec.pc = "idle"
    BY DEF ExecEnds, NoExec, EffectTypeOK
  <1> QED
    BY <1>1 DEF ExecEnds, EffectTypeOK

LEMMA SeenIs ==
  ASSUME EffectTypeOK, NEW h \in EffectHosts, NEW c \in Calls, NEW o,
         exec' = [exec EXCEPT ![h][c] = [@ EXCEPT !.pc = "observed", !.seen = o]]
  PROVE  /\ exec'[h][c].pc = "observed"
         /\ \A k \in EffectHosts, d \in Calls : k # h \/ d # c => exec'[k][d] = exec[k][d]
  <1>1. exec[h][c] \in Executions
    BY DEF EffectTypeOK
  <1>2. [exec[h][c] EXCEPT !.pc = "observed", !.seen = o].pc = "observed"
    BY <1>1 DEF Executions
  <1> QED
    BY <1>2 DEF EffectTypeOK

\* One step of an execution leaves the others alone; it gets on its way to the tool under the
\* fence, and after the second look at the request.
LEMMA DrivenExecStep ==
  ASSUME EffectInv, NEW h \in EffectHosts, NEW c \in Calls, ExecStep(h, c) \/ Answered(h, c)
  PROVE  /\ \A k \in EffectHosts, d \in Calls : k # h \/ d # c => exec'[k][d] = exec[k][d]
         /\ DrivenOK(h, c)'
         /\ stopSet /\ h \in alive \ scanDue => StopOK(h, c)'
         /\ UNCHANGED <<turnOpen, stopSet, scanDue, lease, alive>>
  <1>0. /\ EffectTypeOK /\ exec[h][c] \in Executions /\ DrivenOK(h, c)
        /\ stopSet /\ h \in alive \ scanDue => StopOK(h, c)
    BY DrivenIs, StopIs DEF EffectInv, EffectTypeOK
  <1>1. UNCHANGED <<turnOpen, stopSet, scanDue, lease, alive>>
    BY DEF ExecStep, BeginCall, Register, AbortIfStopped, Prepare, DispatchAborted,
       ClaimRead, ClaimCommit, ClaimLost, CallTool, GaveUp, RecordReceipt, Reconcile, Answered
  <1> DEFINE Others == \A k \in EffectHosts, d \in Calls : k # h \/ d # c => exec'[k][d] = exec[k][d]
             Left == /\ exec'[h][c].pc \notin Driving \cup {"prepare"}
                     /\ Others
  <1>2. ASSUME Left
        PROVE  DrivenOK(h, c)' /\ StopOK(h, c)' /\ Others
    BY <1>2 DEF DrivenOK, StopOK, Driving
  <1>3. CASE ExecEnds(h, c)
    BY <1>0, <1>1, <1>2, <1>3, EndsIs DEF Driving
  <1>4. CASE \E o : exec' = [exec EXCEPT ![h][c] = [@ EXCEPT !.pc = "observed", !.seen = o]]
    <2>1. PICK o : exec' = [exec EXCEPT ![h][c] = [@ EXCEPT !.pc = "observed", !.seen = o]]
      BY <1>4
    <2> QED
      BY <1>0, <1>1, <1>2, <2>1, SeenIs DEF Driving
  <1>5. CASE Goto(h, c, "registered") \/ Goto(h, c, "reconcile")
    BY <1>0, <1>1, <1>2, <1>5, GotoIs DEF Driving
  <1>6. CASE BeginCall(h, c)
    <2>1. CASE UNCHANGED exec
      BY <1>1, <1>2, <1>6, <2>1 DEF BeginCall, Driving
    <2>2. CASE exec' = [exec EXCEPT ![h][c] =
                           [NoExec EXCEPT !.pc = "admitted", !.generation = lease.generation]]
      <3>1. [NoExec EXCEPT !.pc = "admitted", !.generation = lease.generation].pc = "admitted"
        BY DEF NoExec
      <3> QED
        BY <1>0, <1>1, <1>2, <2>2, <3>1 DEF Driving, EffectTypeOK
    <2> QED
      BY <1>6, <2>1, <2>2 DEF BeginCall
  <1>7. CASE AbortIfStopped(h, c)
    <2> DEFINE a == IF stopSet /\ exec[h][c].abort = "no" THEN "stop" ELSE exec[h][c].abort
               x == [exec[h][c] EXCEPT !.pc = "prepare", !.abort = a]
    <2>1. exec' = [exec EXCEPT ![h][c] = x]
      BY <1>7 DEF AbortIfStopped
    <2>2. x.pc = "prepare" /\ x.abort = a
      BY <1>0 DEF Executions
    <2>3. exec'[h][c].pc = "prepare" /\ (stopSet => exec'[h][c].abort # "no") /\ Others
      BY <1>0, <2>1, <2>2 DEF EffectTypeOK
    <2> QED
      BY <1>1, <2>3 DEF DrivenOK, StopOK, Driving
  <1>8. CASE Prepare(h, c) /\ ~ExecEnds(h, c)
    <2>1. /\ exec[h][c].pc = "prepare" /\ Fenced(h, exec[h][c].generation)
          /\ Goto(h, c, "dispatch")
      BY <1>8 DEF Prepare
    <2>2. /\ exec'[h][c].pc = "dispatch" /\ exec'[h][c].abort = exec[h][c].abort
          /\ exec'[h][c].generation = exec[h][c].generation /\ Others
      BY <1>0, <2>1, GotoIs
    <2>3. DrivenOK(h, c)'
      BY <1>1, <2>1, <2>2 DEF DrivenOK, Fenced
    <2> QED
      BY <1>0, <1>1, <2>1, <2>2, <2>3 DEF StopOK
  <1>9. CASE ClaimRead(h, c) /\ ~ExecEnds(h, c)
    <2>1. /\ exec[h][c].pc = "dispatch" /\ Fenced(h, exec[h][c].generation)
          /\ Goto(h, c, "claim")
      BY <1>9 DEF ClaimRead
    <2>2. /\ exec'[h][c].pc = "claim" /\ exec'[h][c].abort = exec[h][c].abort
          /\ exec'[h][c].generation = exec[h][c].generation /\ Others
      BY <1>0, <2>1, GotoIs
    <2>3. DrivenOK(h, c)'
      BY <1>1, <2>1, <2>2 DEF DrivenOK, Fenced
    <2> QED
      BY <1>0, <1>1, <2>1, <2>2, <2>3 DEF StopOK
  <1>10. CASE ClaimCommit(h, c)
    <2>1. /\ exec[h][c].pc = "claim" /\ Fenced(h, exec[h][c].generation)
          /\ Goto(h, c, "execute")
      BY <1>10 DEF ClaimCommit, ClaimHolds
    <2>2. /\ exec'[h][c].pc = "execute" /\ exec'[h][c].abort = exec[h][c].abort
          /\ exec'[h][c].generation = exec[h][c].generation /\ Others
      BY <1>0, <2>1, GotoIs
    <2>3. DrivenOK(h, c)'
      BY <1>1, <2>1, <2>2 DEF DrivenOK, Fenced
    <2> QED
      BY <1>0, <1>1, <2>1, <2>2, <2>3 DEF StopOK
  <1>11. CASE exec[h][c].pc = "execute" /\ Goto(h, c, "calling")
    <2>1. /\ exec'[h][c].pc = "calling" /\ exec'[h][c].abort = exec[h][c].abort
          /\ exec'[h][c].generation = exec[h][c].generation /\ Others
      BY <1>0, <1>11, GotoIs
    <2> QED
      BY <1>0, <1>1, <1>11, <2>1 DEF DrivenOK, StopOK, Driving
  <1>12. \/ ExecEnds(h, c)
         \/ \E o : exec' = [exec EXCEPT ![h][c] = [@ EXCEPT !.pc = "observed", !.seen = o]]
         \/ Goto(h, c, "registered") \/ Goto(h, c, "reconcile")
         \/ BeginCall(h, c) \/ AbortIfStopped(h, c)
         \/ Prepare(h, c) /\ ~ExecEnds(h, c)
         \/ ClaimRead(h, c) /\ ~ExecEnds(h, c)
         \/ ClaimCommit(h, c)
         \/ exec[h][c].pc = "execute" /\ Goto(h, c, "calling")
    <2>1. CASE CallTool(h, c)
      BY <2>1 DEF CallTool
    <2>2. CASE Answered(h, c) \/ GaveUp(h, c)
      BY <2>2 DEF Answered, GaveUp
    <2>3. CASE \/ Register(h, c) \/ DispatchAborted(h, c) \/ ClaimLost(h, c)
               \/ RecordReceipt(h, c) \/ Reconcile(h, c)
      BY <2>3 DEF Register, DispatchAborted, ClaimLost, RecordReceipt, Reconcile
    <2> QED
      BY <2>1, <2>2, <2>3 DEF ExecStep
  <1> QED
    BY <1>1, <1>3, <1>4, <1>5, <1>6, <1>7, <1>8, <1>9, <1>10, <1>11, <1>12

\* Steps that move no execution keep what drives it while the lease is the same, or was nobody's.
LEMMA DrivenStep ==
  ASSUME EffectInv, [EffectNext]_effectVars
  PROVE  DrivenByLease'
  <1>0. /\ EffectTypeOK /\ ExecutionsOwnRows
        /\ \A h \in EffectHosts, c \in Calls : DrivenOK(h, c)
    BY DrivenIs DEF EffectInv
  <1>1. ASSUME NEW h \in EffectHosts, NEW c \in Calls, ExecStep(h, c) \/ Answered(h, c)
        PROVE  DrivenByLease'
    <2> SUFFICES ASSUME NEW k \in EffectHosts, NEW d \in Calls PROVE DrivenOK(k, d)'
      BY DEF DrivenByLease, DrivenOK, Driving
    <2>1. CASE k = h /\ d = c
      BY <1>1, <2>1, DrivenExecStep
    <2>2. CASE k # h \/ d # c
      <3>1. exec'[k][d] = exec[k][d] /\ UNCHANGED lease
        BY <1>1, <2>2, DrivenExecStep
      <3> QED
        BY <1>0, <3>1 DEF DrivenOK
    <2> QED
      BY <2>1, <2>2
  <1>2. CASE UNCHANGED <<exec, lease>>
    BY <1>0, <1>2 DEF DrivenByLease, DrivenOK, Driving
  <1>3. ASSUME NEW h \in EffectHosts, CancelActive(h)
        PROVE  DrivenByLease'
    <2> SUFFICES ASSUME NEW k \in EffectHosts, NEW d \in Calls PROVE DrivenOK(k, d)'
      BY DEF DrivenByLease, DrivenOK, Driving
    <2>1. UNCHANGED lease /\ (UNCHANGED exec \/ exec' = Aborted(h, "stop"))
      BY <1>3 DEF CancelActive
    <2>2. /\ exec'[k][d].pc = exec[k][d].pc /\ exec'[k][d].generation = exec[k][d].generation
          /\ exec'[k][d].abort = "no" => exec[k][d].abort = "no"
      BY <1>0, <2>1, AbortedIs
    <2> QED
      BY <1>0, <2>1, <2>2 DEF DrivenOK
  <1>4. ASSUME NEW h \in EffectHosts, HandBack(h)
        PROVE  DrivenByLease'
    <2> SUFFICES ASSUME NEW k \in EffectHosts, NEW d \in Calls PROVE DrivenOK(k, d)'
      BY DEF DrivenByLease, DrivenOK, Driving
    <2>1. exec' = Aborted(h, "handoff") /\ lease.host = h
      BY <1>4 DEF HandBack, Serves
    <2>2. CASE k = h
      BY <1>0, <2>1, <2>2, AbortedIs DEF DrivenOK, Driving
    <2>3. CASE k # h
      <3>1. ~(exec[k][d].pc \in Driving /\ exec[k][d].abort = "no")
        BY <1>0, <2>1, <2>3 DEF DrivenOK
      <3>2. exec'[k][d].pc = exec[k][d].pc /\ exec'[k][d].abort = exec[k][d].abort
        BY <1>0, <2>1, <2>3, AbortedIs
      <3> QED
        BY <3>1, <3>2 DEF DrivenOK
    <2> QED
      BY <2>2, <2>3
  <1>5. ASSUME NEW h \in EffectHosts, TakeOver(h)
        PROVE  DrivenByLease'
    <2> SUFFICES ASSUME NEW k \in EffectHosts, NEW d \in Calls PROVE DrivenOK(k, d)'
      BY DEF DrivenByLease, DrivenOK, Driving
    <2>1. UNCHANGED exec /\ lease.host \notin alive
      BY <1>5 DEF TakeOver
    <2>2. exec[k][d].pc \in Driving => k \in alive
      BY <1>0 DEF ExecutionsOwnRows, ExecutionOK, Driving
    <2>3. ~(exec[k][d].pc \in Driving /\ exec[k][d].abort = "no")
      BY <1>0, <2>1, <2>2 DEF DrivenOK
    <2> QED
      BY <2>1, <2>3 DEF DrivenOK
  <1>6. ASSUME NEW h \in EffectHosts, HostDies(h)
        PROVE  DrivenByLease'
    <2> SUFFICES ASSUME NEW k \in EffectHosts, NEW d \in Calls PROVE DrivenOK(k, d)'
      BY DEF DrivenByLease, DrivenOK, Driving
    <2>1. UNCHANGED lease /\ exec' = [exec EXCEPT ![h] = [c \in Calls |-> NoExec]]
      BY <1>6 DEF HostDies
    <2>2. exec'[k][d] = exec[k][d] \/ exec'[k][d].pc = "idle"
      BY <1>0, <2>1 DEF EffectTypeOK, NoExec
    <2> QED
      BY <1>0, <2>1, <2>2 DEF DrivenOK, Driving
  <1>7. ASSUME NEW h \in EffectHosts, NEW c \in Calls, Convergence(h, c)
        PROVE  UNCHANGED <<exec, lease>>
    BY <1>7 DEF Convergence, FinalizeNext, ResumeReceipt, FindHanging, CloseRead
  <1>8. ASSUME NEW h \in EffectHosts,
               \/ RecordUnknown(h) \/ CloseCommit(h) \/ EndTurn(h)
               \/ RecoverUnheld(h) \/ RecoverStopped(h)
        PROVE  UNCHANGED <<exec, lease>>
    BY <1>8, RecoverySteps DEF RecordUnknown, CloseCommit, EndTurn
  <1> QED
    BY <1>1, <1>2, <1>3, <1>4, <1>5, <1>6, <1>7, <1>8 DEF EffectNext, HostStep, RequestStop

\* An execution that may call the tool for an open effect belongs to an open Turn.
LEMMA ExecutingIsOpen ==
  ASSUME EffectInv, NEW h \in EffectHosts, NEW c \in Calls, exec[h][c].pc \in {"execute", "calling"}
  PROVE  turnOpen
  <1>1. rows[c].intent \in Sent /\ rows[c].receipt = "none"
    BY DEF EffectInv, ExecutionsOwnRows, ExecutionOK, Executing
  <1>2. RowOK(rows[c], invoked[c])
    BY DEF EffectInv, RowsOK
  <1>3. rows[c].outcome = "none"
    BY <1>1, <1>2 DEF RowOK, Sent, Results
  <1> QED
    BY <1>3 DEF EffectInv, EndedIsSettled, EffectTypeOK

LEMMA StopStep ==
  ASSUME EffectInv, [EffectNext]_effectVars
  PROVE  StopReachesCalls'
  <1>0. /\ EffectTypeOK /\ ExecutionsOwnRows
        /\ stopSet => \A h \in alive \ scanDue, c \in Calls : StopOK(h, c)
    BY StopIs DEF EffectInv
  <1> SUFFICES ASSUME stopSet', NEW k \in alive' \ scanDue', NEW d \in Calls
               PROVE  StopOK(k, d)'
    BY DEF StopReachesCalls, StopOK
  <1>h. k \in EffectHosts
    BY TypeStep DEF EffectInv, EffectTypeOK
  <1>1. CASE /\ stopSet /\ k \in alive \ scanDue
             /\ exec'[k][d] = exec[k][d]
             /\ Fenced(k, exec[k][d].generation)' => Fenced(k, exec[k][d].generation)
    BY <1>0, <1>1 DEF StopOK
  <1>2. ASSUME NEW h \in EffectHosts, NEW c \in Calls, ExecStep(h, c) \/ Answered(h, c)
        PROVE  StopOK(k, d)'
    <2>1. UNCHANGED <<turnOpen, stopSet, scanDue, lease, alive>>
      BY <1>2, DrivenExecStep
    <2>2. CASE k = h /\ d = c
      BY <1>2, <2>1, <2>2, DrivenExecStep
    <2>3. CASE k # h \/ d # c
      <3>1. exec'[k][d] = exec[k][d]
        BY <1>h, <1>2, <2>3, DrivenExecStep
      <3> QED
        BY <1>1, <2>1, <3>1 DEF Fenced
    <2> QED
      BY <2>2, <2>3
  <1>3. ASSUME NEW h \in EffectHosts, CancelActive(h)
        PROVE  StopOK(k, d)'
    <2>1. /\ UNCHANGED <<turnOpen, stopSet, lease, alive>> /\ h \in scanDue
          /\ scanDue' = scanDue \ {h} /\ h \in alive
          /\ exec' = IF Serves(h) THEN Aborted(h, "stop") ELSE exec
      BY <1>0, <1>3 DEF CancelActive, EffectTypeOK
    <2>2. CASE Serves(h)
      <3>1. /\ exec'[k][d].pc = exec[k][d].pc /\ exec'[k][d].generation = exec[k][d].generation
            /\ exec[k][d].abort # "no" => exec'[k][d].abort # "no"
            /\ k = h /\ exec[k][d].pc \notin {"idle", "admitted"} => exec'[k][d].abort # "no"
        BY <1>0, <1>h, <2>1, <2>2, AbortedIs
      <3>2. CASE k = h
        BY <3>1, <3>2 DEF StopOK
      <3>3. CASE k # h
        <4>1. StopOK(k, d)
          BY <1>0, <2>1, <3>3
        <4> QED
          BY <2>1, <3>1, <4>1 DEF StopOK, Fenced
      <3> QED
        BY <3>2, <3>3
    <2>3. CASE ~Serves(h)
      <3>1. UNCHANGED exec
        BY <2>1, <2>3
      <3>2. CASE k # h
        BY <1>1, <2>1, <3>1, <3>2 DEF Fenced
      <3>3. CASE k = h
        <4>1. lease.host # k \/ ~turnOpen
          BY <2>1, <2>3, <3>3 DEF Serves
        <4>2. ~Fenced(k, exec[k][d].generation)
          BY <4>1 DEF Fenced
        <4>3. exec[k][d].pc \in {"execute", "calling"} => exec[k][d].abort # "no"
          BY <1>h, <4>1, ExecutingIsOpen DEF EffectInv, DrivenByLease
        <4> QED
          BY <2>1, <3>1, <4>2, <4>3 DEF StopOK, Fenced
      <3> QED
        BY <3>2, <3>3
    <2> QED
      BY <2>2, <2>3
  <1>4. ASSUME NEW h \in EffectHosts, HandBack(h)
        PROVE  StopOK(k, d)'
    <2>1. /\ UNCHANGED <<turnOpen, stopSet, scanDue, alive>>
          /\ lease' = [lease EXCEPT !.host = NoHost] /\ exec' = Aborted(h, "handoff")
      BY <1>4 DEF HandBack
    <2>2. /\ exec'[k][d].pc = exec[k][d].pc
          /\ exec[k][d].abort # "no" => exec'[k][d].abort # "no"
      BY <1>0, <1>h, <2>1, AbortedIs
    <2>3. StopOK(k, d)
      BY <1>0, <2>1
    <2>4. \A g : ~Fenced(k, g)'
      <3>1. lease'.host = NoHost /\ k # NoHost
        BY <1>0, <1>h, <2>1, EffectAssumption DEF EffectTypeOK
      <3> QED
        BY <3>1 DEF Fenced
    <2> QED
      BY <2>2, <2>3, <2>4 DEF StopOK
  <1>5. ASSUME NEW h \in EffectHosts, TakeOver(h)
        PROVE  StopOK(k, d)'
    <2>1. /\ UNCHANGED <<turnOpen, stopSet, scanDue, alive, exec>>
          /\ lease'.generation = lease.generation + 1
      BY <1>5 DEF TakeOver
    <2>2. exec[k][d].generation <= lease.generation /\ lease.generation \in Nat
          /\ exec[k][d].generation \in Nat
      BY <1>0, <1>h DEF ExecutionsOwnRows, ExecutionOK, EffectTypeOK, Executions
    <2>3. ~Fenced(k, exec[k][d].generation)'
      BY <2>1, <2>2 DEF Fenced
    <2>4. StopOK(k, d)
      BY <1>0, <2>1
    <2> QED
      BY <2>1, <2>3, <2>4 DEF StopOK
  <1>6. ASSUME NEW h \in EffectHosts, HostDies(h)
        PROVE  StopOK(k, d)'
    <2>1. /\ UNCHANGED <<turnOpen, stopSet, lease>> /\ k \in alive \ scanDue /\ k # h
          /\ exec' = [exec EXCEPT ![h] = [c \in Calls |-> NoExec]]
      BY <1>6 DEF HostDies
    <2>2. exec'[k][d] = exec[k][d]
      BY <1>0, <1>h, <2>1 DEF EffectTypeOK
    <2> QED
      BY <1>1, <2>1, <2>2 DEF Fenced
  <1>7. ASSUME NEW h \in EffectHosts, NEW c \in Calls, Convergence(h, c)
        PROVE  StopOK(k, d)'
    <2>1. UNCHANGED <<turnOpen, stopSet, scanDue, lease, alive, exec>>
      BY <1>7 DEF Convergence, FinalizeNext, ResumeReceipt, FindHanging, CloseRead
    <2> QED
      BY <1>1, <2>1 DEF Fenced
  <1>8. ASSUME NEW h \in EffectHosts,
               \/ RecordUnknown(h) \/ CloseCommit(h) \/ EndTurn(h)
               \/ RecoverUnheld(h) \/ RecoverStopped(h)
        PROVE  StopOK(k, d)'
    <2>1. UNCHANGED <<stopSet, scanDue, lease, alive, exec>>
      BY <1>8, RecoverySteps DEF RecordUnknown, CloseCommit, EndTurn
    <2>2. turnOpen' = turnOpen \/ turnOpen' = FALSE
      BY <1>8, RecoverySteps DEF RecordUnknown, CloseCommit, EndTurn
    <2> QED
      BY <1>1, <2>1, <2>2 DEF Fenced
  <1>9. CASE RequestStop
    BY <1>9 DEF RequestStop
  <1>10. CASE UNCHANGED effectVars
    BY <1>1, <1>10 DEF Fenced
  <1> QED
    BY <1>2, <1>3, <1>4, <1>5, <1>6, <1>7, <1>8, <1>9, <1>10 DEF EffectNext, HostStep

---------------------------------------------------------------------------
(* The invariant, and what follows from it. *)

LEMMA InvInit == EffectInit => EffectInv
  <1> SUFFICES ASSUME EffectInit PROVE EffectInv
    OBVIOUS
  <1>1. EffectTypeOK /\ RowsOK
    BY TypeInit, RowsInit
  <1>2. GenerationLeft /\ lease.generation \in Nat
    BY EffectAssumption DEF EffectInit, GenerationLeft
  <1>3. \A h \in EffectHosts, c \in Calls : exec[h][c] = NoExec
    BY DEF EffectInit
  <1>4. ExecutionsOwnRows
    BY <1>2, <1>3 DEF ExecutionsOwnRows, ExecutionOK, NoExec, Executing
  <1>5. HangingIsDead /\ EndedIsSettled /\ StopReachesCalls
    BY DEF EffectInit, HangingIsDead, EndedIsSettled, StopReachesCalls
  <1>6. DrivenByLease
    BY <1>3 DEF DrivenByLease, NoExec
  <1> QED
    BY <1>1, <1>2, <1>4, <1>5, <1>6 DEF EffectInv

LEMMA InvStep == EffectInv /\ [EffectNext]_effectVars => EffectInv'
  <1> SUFFICES ASSUME EffectInv, [EffectNext]_effectVars PROVE EffectInv'
    OBVIOUS
  <1>1. EffectTypeOK'
    BY TypeStep DEF EffectInv
  <1> QED
    BY <1>1, GenerationLeftStep, RowsStep, ExecutionsStep, HangingStep, EndedStep, DrivenStep,
       StopStep DEF EffectInv

LEMMA Invariant == EffectSpec => []EffectInv
  BY InvInit, InvStep, PTL DEF EffectSpec

\* Rows, executions and the lease keep their shape; an outcome has a terminal status.
THEOREM EffectTypeCorrect == EffectSpec => []EffectTypeOK
  BY Invariant, PTL DEF EffectInv

\* A call reported as cancelled or rejected never ran, and no tool is called twice for a call
\* (claimEffectDispatch, cancelPendingEffect).
THEOREM CancelledCallsNeverRan == EffectSpec => []CancelledNeverRan
  <1>1. EffectInv => CancelledNeverRan
    <2> SUFFICES ASSUME EffectInv, NEW c \in Calls
                 PROVE  /\ invoked[c] <= 1
                        /\ {rows[c].operation, rows[c].outcome} \cap NeverRan # {} => invoked[c] = 0
      BY DEF CancelledNeverRan, NeverRan
    <2>1. RowOK(rows[c], invoked[c]) /\ rows[c] \in EffectRows
      BY DEF EffectInv, RowsOK, EffectTypeOK
    <2>2. rows[c].outcome \in NeverRan => rows[c].operation \in NeverRan
      BY <2>1 DEF RowOK, NeverRan
    <2>3. rows[c].operation \in NeverRan => invoked[c] = 0
      BY <2>1 DEF RowOK, NeverRan, Sent, EffectRows
    <2> QED
      BY <2>1, <2>2, <2>3 DEF RowOK
  <1> QED
    BY <1>1, Invariant, PTL

\* The data root says what a live dispatcher has seen (recoverHangingEffectIntent).
THEOREM ObservationsKept == EffectSpec => []ObservationKept
  <1>1. EffectInv => ObservationKept
    BY DEF EffectInv, ExecutionsOwnRows, ExecutionOK, ObservationKept
  <1> QED
    BY <1>1, Invariant, PTL

\* A stop leaves no execution that goes on to the tool unaware of it (cancelActive).
THEOREM StopsReachCalls == EffectSpec => []StopReachesCalls
  BY Invariant, PTL DEF EffectInv

\* The dispatcher, the first receipt, a terminal operation and an outcome are never taken back.
THEOREM SettledEffectsStand == EffectSpec => SettledStands
  <1>1. EffectInv /\ [EffectNext]_effectVars => RowsForward
    BY RowsStep
  <1>2. EffectSpec => [][RowsForward]_effectVars
    BY <1>1, Invariant, PTL DEF EffectSpec
  <1> QED
    BY <1>2, PTL DEF SettledStands, RowsForward, RowForward, Sent
=============================================================================
