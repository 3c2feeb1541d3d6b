----------------------------- MODULE ToolEffects -----------------------------
(***************************************************************************)
(* The effects of the tool calls of one Turn, across Hosts: the rows of    *)
(* EffectControlPlane, the executions that the tool dispatcher registers   *)
(* so that a stop can abort them, the call of the external tool, and the   *)
(* recovery that converges what a dead Host has left.  The external tool   *)
(* (an MCP server) may be called, and may never answer.                    *)
(***************************************************************************)
EXTENDS Naturals, FiniteSets

CONSTANTS EffectHosts,    \* extension hosts
          Calls,          \* tool calls of the Turn; a number is a call_seq
          ToolAnswers,    \* what the external tool may answer
          MaxGeneration,  \* bound on the generations of the lease
          NoHost          \* no Host

ASSUME EffectAssumption ==
    /\ Calls \subseteq Nat \ {0}
    /\ ToolAnswers \subseteq {"succeeded", "failed"}
    /\ MaxGeneration \in Nat
    /\ NoHost \notin EffectHosts

VARIABLES
    turnOpen,   \* Turn.status = 'active'
    stopSet,    \* a termination request is pending in the data root
    scanDue,    \* Hosts whose cancellation scan for that request is still to come
    lease,      \* the Host that drives the Turn, and the generation of its lease
    rows,       \* per call: ToolCall, EffectIntent, Operation, EffectReceipt, ToolOutcome
    invoked,    \* how often the external tool was called for a call
    alive,      \* Hosts whose process runs
    exec,       \* the execution of a call at a Host
    closing,    \* a call that the stop of a Host has looked up and is about to close
    recovering, \* dispatched effects that the recovery of a Host has still to look at
    hanging     \* a call whose effect the recovery of a Host is about to give up

effectVars == <<turnOpen, stopSet, scanDue, lease, rows, invoked, alive, exec, closing,
                recovering, hanging>>

Results == {"succeeded", "failed", "cancelled", "rejected", "outcome_unknown"}

\* The rows of a call: status of ToolCall, EffectIntent and Operation, the dispatching Host, the
\* result in the EffectReceipt and the status of the ToolOutcome.
EffectRows ==
    [call : {"pending", "executing", "terminal"},
     intent : {"none", "pending", "dispatched", "receipt_written", "cancelled_before_dispatch"},
     by : EffectHosts \cup {NoHost},
     operation : {"none", "pending", "executing"} \cup Results,
     receipt : {"none"} \cup Results,
     outcome : {"none"} \cup Results]

\* Where an execution is, the generation it began with, why its signal is aborted, what it saw.
Steps == {"idle", "admitted", "registered", "prepare", "dispatch", "claim", "execute",
          "calling", "observed", "reconcile"}

Executions == [pc : Steps, generation : 0..MaxGeneration,
               abort : {"no", "stop", "handoff"}, seen : {"none"} \cup Results]

\* Rows of a call that the model has asked for and nobody has touched, and of one that is over.
FreshRow == [call |-> "pending", intent |-> "none", by |-> NoHost, operation |-> "none",
             receipt |-> "none", outcome |-> "none"]

DoneRow == [call |-> "terminal", intent |-> "receipt_written", by |-> NoHost,
            operation |-> "succeeded", receipt |-> "succeeded", outcome |-> "succeeded"]

NoExec == [pc |-> "idle", generation |-> 0, abort |-> "no", seen |-> "none"]

\* An execution that has been registered: cancelActive() finds its AbortController.
Registered(x) == x.pc \notin {"idle", "admitted"}

Terminal(c) == rows[c].operation \in Results

\* The fence under which a Host drives: its lease, in the generation it began with.
Fenced(h, g) == turnOpen /\ lease = [host |-> h, generation |-> g]

\* A Host may mutate the Turn while it owns the Conversation.
Serves(h) == h \in alive /\ lease.host = h /\ turnOpen

\* The model has asked for calls; those of earlier rounds are over, and the Turn may have been
\* taken over before.
EffectInit ==
    /\ turnOpen = TRUE
    /\ stopSet = FALSE
    /\ scanDue = {}
    /\ lease \in [host : EffectHosts, generation : 1..MaxGeneration]
    /\ \E first \in Calls :
          /\ rows = [c \in Calls |-> IF c < first THEN DoneRow ELSE FreshRow]
          /\ invoked = [c \in Calls |-> IF c < first THEN 1 ELSE 0]
    /\ alive = EffectHosts
    /\ exec = [h \in EffectHosts |-> [c \in Calls |-> NoExec]]
    /\ closing = [h \in EffectHosts |-> 0]
    /\ recovering = [h \in EffectHosts |-> {}]
    /\ hanging = [h \in EffectHosts |-> 0]

---------------------------------------------------------------------------
(* The execution of one call, from its dispatch to its reconciliation.     *)

Goto(h, c, step) == exec' = [exec EXCEPT ![h][c].pc = step]
ExecEnds(h, c) == exec' = [exec EXCEPT ![h][c] = NoExec]
SetRow(c, row) == rows' = [rows EXCEPT ![c] = row]

\* A call that never reaches an effect is settled by one terminal operation.
Settled(c, result) == [rows[c] EXCEPT !.call = "executing", !.operation = result]

\* The dispatcher takes a call up (or takes it up again), unless it is settled: a stop that was
\* requested before is answered without an effect.
BeginCall(h, c) ==
    /\ Serves(h)
    /\ exec[h][c].pc = "idle" /\ ~Terminal(c)
    /\ IF stopSet
       THEN /\ rows[c].call = "pending"
            /\ SetRow(c, Settled(c, "cancelled"))
            /\ UNCHANGED exec
       ELSE /\ exec' = [exec EXCEPT ![h][c] = [NoExec EXCEPT !.pc = "admitted", !.generation = lease.generation]]
            /\ UNCHANGED rows
    /\ UNCHANGED <<turnOpen, stopSet, scanDue, lease, invoked, alive, closing, recovering, hanging>>

Register(h, c) ==
    /\ exec[h][c].pc = "admitted"
    /\ Goto(h, c, "registered")
    /\ UNCHANGED <<turnOpen, stopSet, scanDue, lease, rows, invoked, alive, closing, recovering, hanging>>

\* The second look at the request, once the execution is registered.
MutAbortIfStopped(h, c) ==
    /\ exec[h][c].pc = "registered"
    /\ Goto(h, c, "prepare")
    /\ UNCHANGED <<turnOpen, stopSet, scanDue, lease, rows, invoked, alive, closing, recovering, hanging>>

AbortIfStopped(h, c) ==
    LET stopped == IF stopSet /\ exec[h][c].abort = "no" THEN "stop" ELSE exec[h][c].abort IN
    /\ exec[h][c].pc = "registered"
    /\ exec' = [exec EXCEPT ![h][c] = [@ EXCEPT !.pc = "prepare", !.abort = stopped]]
    /\ UNCHANGED <<turnOpen, stopSet, scanDue, lease, rows, invoked, alive, closing, recovering, hanging>>

\* Policies are asked; the intent is created, or the one created before is found again.
Prepare(h, c) ==
    /\ exec[h][c].pc = "prepare"
    /\ \/ /\ Fenced(h, exec[h][c].generation) /\ rows[c].call = "pending"
          /\ \/ /\ SetRow(c, [rows[c] EXCEPT !.call = "executing", !.intent = "pending", !.operation = "pending"])
                /\ Goto(h, c, "dispatch")
             \/ /\ SetRow(c, Settled(c, "rejected"))
                /\ ExecEnds(h, c)
       \/ /\ Fenced(h, exec[h][c].generation) /\ rows[c].intent # "none"
          /\ Goto(h, c, "dispatch") /\ UNCHANGED rows
       \/ /\ \/ ~Fenced(h, exec[h][c].generation)
             \/ rows[c].intent = "none" /\ rows[c].call # "pending"
          /\ ExecEnds(h, c) /\ UNCHANGED rows
    /\ UNCHANGED <<turnOpen, stopSet, scanDue, lease, invoked, alive, closing, recovering, hanging>>

CancelledRow(c) == [rows[c] EXCEPT !.intent = "cancelled_before_dispatch", !.operation = "cancelled"]

\* Aborted before the dispatch: by a hand-off, which leaves the call to the next Host, or by a
\* stop, which cancels the effect while nobody has dispatched it.
DispatchAborted(h, c) ==
    /\ exec[h][c].pc = "dispatch" /\ exec[h][c].abort # "no"
    /\ IF exec[h][c].abort = "stop" /\ rows[c].intent = "pending" /\ Fenced(h, exec[h][c].generation)
       THEN SetRow(c, CancelledRow(c))
       ELSE UNCHANGED rows
    /\ ExecEnds(h, c)
    /\ UNCHANGED <<turnOpen, stopSet, scanDue, lease, invoked, alive, closing, recovering, hanging>>

\* claimEffectDispatch() reads intent, attempt, operation and tool facts.
ClaimRead(h, c) ==
    /\ exec[h][c].pc = "dispatch" /\ exec[h][c].abort = "no"
    /\ IF rows[c].intent = "pending" /\ Fenced(h, exec[h][c].generation)
       THEN Goto(h, c, "claim")
       ELSE ExecEnds(h, c)
    /\ UNCHANGED <<turnOpen, stopSet, scanDue, lease, rows, invoked, alive, closing, recovering, hanging>>

\* The assertions of the transaction that dispatches.
MutClaimHolds(h, c) == Fenced(h, exec[h][c].generation)

ClaimHolds(h, c) == rows[c].intent = "pending" /\ Fenced(h, exec[h][c].generation)

\* The dispatch is committed before the tool is called, with the Host that will call it.
ClaimCommit(h, c) ==
    /\ exec[h][c].pc = "claim" /\ ClaimHolds(h, c)
    /\ SetRow(c, [rows[c] EXCEPT !.intent = "dispatched", !.operation = "executing", !.by = h])
    /\ Goto(h, c, "execute")
    /\ UNCHANGED <<turnOpen, stopSet, scanDue, lease, invoked, alive, closing, recovering, hanging>>

\* A claim that somebody else has won, or whose authority is gone, executes nothing.
ClaimLost(h, c) ==
    /\ exec[h][c].pc = "claim" /\ ~ClaimHolds(h, c)
    /\ ExecEnds(h, c)
    /\ UNCHANGED <<turnOpen, stopSet, scanDue, lease, rows, invoked, alive, closing, recovering, hanging>>

\* The dispatch is read back; the tool is called unless the signal is aborted by now.
CallTool(h, c) ==
    /\ exec[h][c].pc = "execute"
    /\ \/ /\ rows[c].intent # "dispatched" \/ rows[c].receipt # "none"
          /\ ExecEnds(h, c) /\ UNCHANGED invoked
       \/ /\ rows[c].intent = "dispatched" /\ rows[c].receipt = "none"
          /\ IF exec[h][c].abort # "no"
             THEN /\ exec' = [exec EXCEPT ![h][c] = [@ EXCEPT !.pc = "observed", !.seen = "cancelled"]]
                  /\ UNCHANGED invoked
             ELSE /\ Goto(h, c, "calling")
                  /\ invoked' = [invoked EXCEPT ![c] = @ + 1]
    /\ UNCHANGED <<turnOpen, stopSet, scanDue, lease, rows, alive, closing, recovering, hanging>>

\* The tool answers.
Answered(h, c) ==
    /\ exec[h][c].pc = "calling"
    /\ \E a \in ToolAnswers : exec' = [exec EXCEPT ![h][c] = [@ EXCEPT !.pc = "observed", !.seen = a]]
    /\ UNCHANGED <<turnOpen, stopSet, scanDue, lease, rows, invoked, alive, closing, recovering, hanging>>

\* The signal is aborted while the tool works: nobody knows what it has done.
GaveUp(h, c) ==
    /\ exec[h][c].pc = "calling" /\ exec[h][c].abort # "no"
    /\ exec' = [exec EXCEPT ![h][c] = [@ EXCEPT !.pc = "observed", !.seen = "outcome_unknown"]]
    /\ UNCHANGED <<turnOpen, stopSet, scanDue, lease, rows, invoked, alive, closing, recovering, hanging>>

\* The first receipt of a dispatched attempt stays; later ones only leave a CommandReceipt.
WithReceipt(c, result) ==
    IF rows[c].receipt = "none" /\ rows[c].intent = "dispatched"
    THEN [rows[c] EXCEPT !.intent = "receipt_written", !.receipt = result]
    ELSE rows[c]

\* The receipt is written without any lease.
RecordReceipt(h, c) ==
    /\ exec[h][c].pc = "observed"
    /\ SetRow(c, WithReceipt(c, exec[h][c].seen))
    /\ Goto(h, c, "reconcile")
    /\ UNCHANGED <<turnOpen, stopSet, scanDue, lease, invoked, alive, closing, recovering, hanging>>

\* completeOperation(): the receipt decides the operation, if that is still open.
Completed(c) ==
    IF rows[c].receipt # "none" /\ ~Terminal(c)
    THEN [rows[c] EXCEPT !.operation = rows[c].receipt]
    ELSE rows[c]

\* The dispatcher reconciles under its fence; with another lease it fails and leaves it to recovery.
Reconcile(h, c) ==
    /\ exec[h][c].pc = "reconcile"
    /\ IF Fenced(h, exec[h][c].generation) THEN SetRow(c, Completed(c)) ELSE UNCHANGED rows
    /\ ExecEnds(h, c)
    /\ UNCHANGED <<turnOpen, stopSet, scanDue, lease, invoked, alive, closing, recovering, hanging>>

---------------------------------------------------------------------------
(* Finalization, convergence and recovery by the Host that serves.         *)

\* A call whose operation is terminal gets its outcome when every earlier call has one.
FinalizeNext(h, c) ==
    /\ Serves(h)
    /\ Terminal(c) /\ rows[c].outcome = "none"
    /\ \A d \in Calls : d < c => rows[d].outcome # "none"
    /\ SetRow(c, [rows[c] EXCEPT !.call = "terminal", !.outcome = rows[c].operation])
    /\ UNCHANGED <<turnOpen, stopSet, scanDue, lease, invoked, alive, exec, closing, recovering, hanging>>

\* Receipts whose operation is still open are reconciled, whoever wrote them.
MutResumeReceipt(h, c) ==
    /\ Serves(h) /\ rows[c].by = h
    /\ rows[c].receipt # "none" /\ ~Terminal(c)
    /\ SetRow(c, Completed(c))
    /\ UNCHANGED <<turnOpen, stopSet, scanDue, lease, invoked, alive, exec, closing, recovering, hanging>>

ResumeReceipt(h, c) ==
    /\ Serves(h)
    /\ rows[c].receipt # "none" /\ ~Terminal(c)
    /\ SetRow(c, Completed(c))
    /\ UNCHANGED <<turnOpen, stopSet, scanDue, lease, invoked, alive, exec, closing, recovering, hanging>>

\* The Host that runs the effect is the one in its dispatch fence, not the holder of the lease.
MutDispatchedByLiveHost(c) == rows[c].by = lease.host

DispatchedByLiveHost(c) == rows[c].by \in alive

\* No other live Host drives the Turn, so that this one can claim the Conversation.
Claimable(h) == h \in alive /\ turnOpen /\ lease.host \notin alive \ {h}

Dispatched == {c \in Calls : rows[c].intent = "dispatched"}

Recover(h) ==
    /\ Claimable(h)
    /\ recovering[h] = {} /\ Dispatched # {}
    /\ recovering' = [recovering EXCEPT ![h] = Dispatched]
    /\ UNCHANGED <<turnOpen, stopSet, scanDue, lease, rows, invoked, alive, exec, closing, hanging>>

\* A Host that starts, or that finds the Turn without a live holder, looks through what was dispatched
\* before the Turn is taken over; a Host that has waited for the holder takes over without it.
RecoverUnheld(h) == lease.host # h /\ Recover(h)

\* The stop of the user, and every repetition of it, has a Host look when the dispatchers are dead.
RecoverStopped(h) == stopSet /\ (\A c \in Dispatched : rows[c].by \notin alive) /\ Recover(h)

\* One of those effects is looked at: it is still without a receipt, and its dispatcher is dead; or
\* it is passed over, for good.
FindHanging(h, c) ==
    /\ c \in recovering[h] /\ hanging[h] = 0
    /\ recovering' = [recovering EXCEPT ![h] = @ \ {c}]
    /\ IF Claimable(h) /\ rows[c].intent = "dispatched" /\ ~DispatchedByLiveHost(c)
       THEN hanging' = [hanging EXCEPT ![h] = c]
       ELSE UNCHANGED hanging
    /\ UNCHANGED <<turnOpen, stopSet, scanDue, lease, rows, invoked, alive, exec, closing>>

\* The tool is never called again: its outcome is recorded as unknown.
RecordUnknown(h) ==
    /\ hanging[h] # 0
    /\ SetRow(hanging[h], WithReceipt(hanging[h], "outcome_unknown"))
    /\ hanging' = [hanging EXCEPT ![h] = 0]
    /\ UNCHANGED <<turnOpen, stopSet, scanDue, lease, invoked, alive, exec, closing, recovering>>

---------------------------------------------------------------------------
(* A stop of the Turn.                                                     *)

\* Any Host may commit the request.
RequestStop ==
    /\ turnOpen /\ ~stopSet
    /\ stopSet' = TRUE
    /\ scanDue' = alive
    /\ UNCHANGED <<turnOpen, lease, rows, invoked, alive, exec, closing, recovering, hanging>>

Aborted(h, why) ==
    [exec EXCEPT ![h] = [c \in Calls |->
        IF Registered(exec[h][c]) /\ exec[h][c].abort = "no"
        THEN [exec[h][c] EXCEPT !.abort = why] ELSE exec[h][c]]]

\* A Host aborts what is registered, once, if it holds the lease.
CancelActive(h) ==
    /\ h \in scanDue
    /\ scanDue' = scanDue \ {h}
    /\ exec' = IF Serves(h) THEN Aborted(h, "stop") ELSE exec
    /\ UNCHANGED <<turnOpen, stopSet, lease, rows, invoked, alive, closing, recovering, hanging>>

\* The drive has seen the request and looks up a call that has no outcome and no dispatch.
CloseRead(h, c) ==
    /\ Serves(h) /\ stopSet /\ closing[h] = 0
    /\ rows[c].call = "pending" \/ rows[c].intent = "pending"
    /\ closing' = [closing EXCEPT ![h] = c]
    /\ UNCHANGED <<turnOpen, stopSet, scanDue, lease, rows, invoked, alive, exec, recovering, hanging>>

\* It is settled without an effect, or its effect is cancelled, if it still is in that state.
MutCloseCommit(h) ==
    LET c == closing[h] IN
    /\ c # 0
    /\ closing' = [closing EXCEPT ![h] = 0]
    /\ SetRow(c, CancelledRow(c))
    /\ UNCHANGED <<turnOpen, stopSet, scanDue, lease, invoked, alive, exec, recovering, hanging>>

CloseCommit(h) ==
    LET c == closing[h] IN
    /\ c # 0
    /\ closing' = [closing EXCEPT ![h] = 0]
    /\ \/ /\ Serves(h) /\ rows[c].call = "pending" /\ SetRow(c, Settled(c, "cancelled"))
       \/ /\ Serves(h) /\ rows[c].intent = "pending" /\ SetRow(c, CancelledRow(c))
       \/ /\ Serves(h) => rows[c].call # "pending" /\ rows[c].intent # "pending"
          /\ UNCHANGED rows
    /\ UNCHANGED <<turnOpen, stopSet, scanDue, lease, invoked, alive, exec, recovering, hanging>>

\* The Turn ends when every call has its outcome: after a stop, or with the answer of the model.
EndTurn(h) ==
    /\ Serves(h)
    /\ \A c \in Calls : rows[c].outcome # "none"
    /\ turnOpen' = FALSE
    /\ UNCHANGED <<stopSet, scanDue, lease, rows, invoked, alive, exec, closing, recovering, hanging>>

---------------------------------------------------------------------------
(* Hosts.                                                                  *)

\* The lease goes back although an execution may still be under way (the Host lost its eligibility
\* or its renewal); the executions are told so.
HandBack(h) ==
    /\ Serves(h) /\ lease.generation < MaxGeneration
    /\ lease' = [lease EXCEPT !.host = NoHost]
    /\ exec' = Aborted(h, "handoff")
    /\ UNCHANGED <<turnOpen, stopSet, scanDue, rows, invoked, alive, closing, recovering, hanging>>

\* A live Host claims a Turn that nobody drives, in a new generation.
TakeOver(h) ==
    /\ turnOpen /\ h \in alive /\ lease.host \notin alive
    /\ lease' = [host |-> h, generation |-> lease.generation + 1]
    /\ UNCHANGED <<turnOpen, stopSet, scanDue, rows, invoked, alive, exec, closing, recovering, hanging>>

\* A process dies; with it its executions, not what the tool does.
HostDies(h) ==
    /\ h \in alive /\ alive # {h} /\ lease.generation < MaxGeneration
    /\ alive' = alive \ {h}
    /\ scanDue' = scanDue \ {h}
    /\ exec' = [exec EXCEPT ![h] = [c \in Calls |-> NoExec]]
    /\ closing' = [closing EXCEPT ![h] = 0]
    /\ recovering' = [recovering EXCEPT ![h] = {}]
    /\ hanging' = [hanging EXCEPT ![h] = 0]
    /\ UNCHANGED <<turnOpen, stopSet, lease, rows, invoked>>

---------------------------------------------------------------------------
ExecStep(h, c) ==
    \/ BeginCall(h, c) \/ Register(h, c) \/ AbortIfStopped(h, c) \/ Prepare(h, c)
    \/ DispatchAborted(h, c) \/ ClaimRead(h, c) \/ ClaimCommit(h, c) \/ ClaimLost(h, c)
    \/ CallTool(h, c) \/ GaveUp(h, c) \/ RecordReceipt(h, c) \/ Reconcile(h, c)

Convergence(h, c) == FinalizeNext(h, c) \/ ResumeReceipt(h, c) \/ FindHanging(h, c) \/ CloseRead(h, c)

HostStep(h) ==
    \/ RecoverUnheld(h) \/ RecoverStopped(h) \/ RecordUnknown(h)
    \/ CancelActive(h) \/ CloseCommit(h) \/ EndTurn(h) \/ TakeOver(h)

EffectNext ==
    \/ \E h \in EffectHosts, c \in Calls : ExecStep(h, c) \/ Answered(h, c) \/ Convergence(h, c)
    \/ \E h \in EffectHosts : HostStep(h) \/ HandBack(h) \/ HostDies(h)
    \/ RequestStop

EffectSpec == EffectInit /\ [][EffectNext]_effectVars

\* Executions go on, whatever the tool does.  The Host that serves converges, which every commit asks
\* for; a recovery that has begun comes to its end; and somebody serves.  That a recovery begins is
\* not granted.
EffectFairness ==
    /\ \A h \in EffectHosts, c \in Calls :
          WF_effectVars(ExecStep(h, c)) /\ WF_effectVars(FinalizeNext(h, c))
          /\ WF_effectVars(ResumeReceipt(h, c)) /\ WF_effectVars(FindHanging(h, c))
          /\ WF_effectVars(CloseRead(h, c))
    /\ \A h \in EffectHosts :
          /\ WF_effectVars(RecordUnknown(h)) /\ WF_effectVars(CancelActive(h))
          /\ WF_effectVars(CloseCommit(h)) /\ WF_effectVars(EndTurn(h)) /\ WF_effectVars(TakeOver(h))

---------------------------------------------------------------------------
\* The shape of the rows and of the executions; a ToolOutcome only ever has a terminal status
\* (terminalStatusForOperations).
EffectTypeOK ==
    /\ turnOpen \in BOOLEAN /\ stopSet \in BOOLEAN
    /\ scanDue \subseteq alive /\ alive \subseteq EffectHosts
    /\ lease \in [host : EffectHosts \cup {NoHost}, generation : 1..MaxGeneration]
    /\ rows \in [Calls -> EffectRows]
    /\ invoked \in [Calls -> Nat]
    /\ exec \in [EffectHosts -> [Calls -> Executions]]
    /\ recovering \in [EffectHosts -> SUBSET Calls]
    /\ closing \in [EffectHosts -> Calls \cup {0}] /\ hanging \in [EffectHosts -> Calls \cup {0}]

\* A call that the model is told was cancelled or rejected did not happen and will not: neither a
\* dispatch that overlaps the cancellation of its intent (claimEffectDispatch, cancelPendingEffect)
\* nor the close of the tool context by a stop lets the tool run afterwards; and no tool is called
\* twice, whoever takes the Turn over.
CancelledNeverRan ==
    \A c \in Calls :
        /\ invoked[c] <= 1
        /\ {rows[c].operation, rows[c].outcome} \cap {"cancelled", "rejected"} # {} => invoked[c] = 0

\* What a live dispatcher has seen of its effect is what the data root says: no recovery elsewhere
\* (recoverHangingEffectIntent) guesses the result while the Host in the dispatch fence is alive,
\* though the lease of the Turn is another's by now.
ObservationKept ==
    \A h \in EffectHosts, c \in Calls :
        /\ exec[h][c].pc \in {"execute", "calling", "observed"} => rows[c].receipt = "none"
        /\ exec[h][c].pc = "reconcile" => rows[c].receipt = exec[h][c].seen

\* A stop whose scan is over (cancelActive) leaves no execution that goes on to the tool unaware of
\* it, even one that was just being registered during the scan
\* (abortRegisteredExecutionIfTurnTerminated); one whose lease is gone cannot dispatch.
StopReachesCalls ==
    stopSet => \A h \in alive \ scanDue, c \in Calls :
        (\/ exec[h][c].pc \in {"execute", "calling"}
         \/ exec[h][c].pc \in {"prepare", "dispatch", "claim"} /\ Fenced(h, exec[h][c].generation))
        => exec[h][c].abort # "no"

\* What is settled about an effect stands, whoever serves the Turn next: the Host in its dispatch
\* fence, its first receipt, its terminal operation and the outcome the model is told.
SettledStands ==
    [][\A c \in Calls :
          /\ rows[c].intent \in {"dispatched", "receipt_written"} =>
                rows'[c].intent \in {"dispatched", "receipt_written"} /\ rows'[c].by = rows[c].by
          /\ rows[c].receipt # "none" => rows'[c].receipt = rows[c].receipt
          /\ rows[c].operation \in Results => rows'[c].operation = rows[c].operation
          /\ rows[c].outcome # "none" => rows'[c].outcome = rows[c].outcome]_effectVars

\* A user who sees the Turn go on repeats the stop.
StopIsRepeated == \A h \in EffectHosts : WF_effectVars(RecoverStopped(h))

\* A stopped Turn ends (terminateIfRequested), although the tool may never answer, Hosts die in
\* the middle of an effect, and the lease is handed over while an execution is under way.  An effect
\* whose dispatcher dies after the Turn was taken over is found by no recovery of the Host that
\* serves; for it the Turn waits until the stop is repeated (settleDeadHostExecution).
StopEndsTurn == StopIsRepeated => (stopSet ~> ~turnOpen)
=============================================================================
