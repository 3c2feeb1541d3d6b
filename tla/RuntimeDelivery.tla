--------------------------- MODULE RuntimeDelivery ---------------------------
(***************************************************************************)
(* How the end of a background process reaches its Conversation: the       *)
(* outbox of ended processes, the inbox item, the delivery and its wake,   *)
(* which the dispatcher of the serving Host works through; the Turns that  *)
(* take a delivery in, at a request boundary or as they open; and the      *)
(* continuation that opens a Turn of its own for one.  Hosts may die       *)
(* between any two steps.                                                  *)
(***************************************************************************)
EXTENDS Naturals, FiniteSets

CONSTANTS DeliveryHosts,  \* extension hosts
          Receipts,       \* background processes, by the receipt of their end
          MaxTurns,       \* bound on the Turns of the Conversation
          MaxFailures,    \* failures after which the dispatcher gives an outbox row up
          NoHost          \* no Host

ASSUME DeliveryAssumption ==
    /\ Receipts \subseteq Nat \ {0}
    /\ MaxTurns \in Nat \ {0}
    /\ MaxFailures \in Nat \ {0}
    /\ NoHost \notin DeliveryHosts

VARIABLES
    alive,      \* Hosts whose process runs
    serving,    \* the Host that owns the Conversation
    turn,       \* status of each Turn; a terminated one has the status of its TurnTermination
    fenced,     \* Turns with a TurnFinalOutputFence
    opened,     \* the delivery for which a continuation opened a Turn, or 0
    loop,       \* the agent loop of the active Turn, in memory of the serving Host
    rows,       \* per receipt: dispatch, inbox item, delivery, wake, input and continuation
    reached,    \* per receipt: Context segments and notices that its Conversation got
    work,       \* the outbox row that a Host has claimed, and how far it is
    late,       \* a wake handler of a Host that has run out of its time, and still runs
    admission   \* a Turn that the serving Host has prepared and not committed

deliveryVars == <<alive, serving, turn, fenced, opened, loop, rows, reached, work, late, admission>>

Turns == 1..MaxTurns
Active == {t \in Turns : turn[t] = "active"}

FreshRow == [source |-> 0, dispatch |-> "none", dispatchBy |-> NoHost, dispatchFails |-> 0,
             inbox |-> FALSE, delivery |-> "none", phase |-> "none", target |-> 0,
             wake |-> "none", wakeBy |-> NoHost, wakeFails |-> 0, input |-> "none", intent |-> "none"]

NoDecision == [phase |-> "none", target |-> 0, seen |-> "none"]
Idle == [step |-> "idle", receipt |-> 0, read |-> <<"none", 0>>, decision |-> NoDecision,
         taken |-> {}, superseded |-> {}]
Boundary == [step |-> "boundary", leaving |-> FALSE, todo |-> {}]

DeliveryInit ==
    /\ alive = DeliveryHosts
    /\ serving \in DeliveryHosts
    /\ turn = [t \in Turns |-> IF t = 1 THEN "active" ELSE "none"]
    /\ fenced = {}
    /\ opened = [t \in Turns |-> 0]
    /\ loop = Boundary
    /\ rows = [r \in Receipts |-> FreshRow]
    /\ reached = [r \in Receipts |-> 0]
    /\ work = [h \in DeliveryHosts |-> Idle]
    /\ late = [h \in DeliveryHosts |-> Idle]
    /\ admission = Idle

Serving(h) == h \in alive /\ serving = h
SetRow(r, row) == rows' = [rows EXCEPT ![r] = row]
Work(h, step) == work' = [work EXCEPT ![h] = [Idle EXCEPT !.step = step, !.receipt = work[h].receipt]]
WorkEnds(h) == work' = [work EXCEPT ![h] = Idle]
Row(h) == rows[work[h].receipt]

\* A pending delivery without a Turn, which the next Turn or a continuation takes.
Waits(r) == rows[r].delivery = "pending" /\ rows[r].phase = "next_turn" /\ rows[r].target = 0
Waiting == {r \in Receipts : Waits(r)}

\* A pending delivery for a Turn; it is routed if another Turn has started the process.
Into(r, t) == rows[r].delivery = "pending" /\ rows[r].phase = "current_turn" /\ rows[r].target = t
Routed(r, t) == Into(r, t) /\ rows[r].source # t

---------------------------------------------------------------------------
(* Authority: where a delivery goes, by the state of its source Turn.      *)

Open(t) == turn[t] = "active" /\ t \notin fenced

\* The decision of resolve(), with what it has seen of the source Turn.
Decision(r) ==
    LET source == rows[r].source
        goes(phase, t) == [phase |-> phase, target |-> t, seen |-> turn[source]]
    IN  CASE Open(source) -> {goes("current_turn", source)}
          [] turn[source] = "active" /\ source \in fenced -> {goes("next_turn", 0)}
          [] turn[source] = "completed" ->
                IF \E t \in Turns : Open(t) THEN {goes("current_turn", t) : t \in {u \in Turns : Open(u)}}
                ELSE {goes("next_turn", 0)}
          [] OTHER -> {goes("notify_only", 0)}

\* The authority steps of a decision.  That no Turn runs cannot be asserted.
MutAuthority(r, d) == turn[rows[r].source] = d.seen

Authority(r, d) ==
    /\ turn[rows[r].source] = d.seen
    /\ d.phase = "current_turn" => Open(d.target)
    /\ d.phase = "next_turn" /\ d.seen = "active" => rows[r].source \in fenced

Retargeted(r, d) == [rows[r] EXCEPT !.phase = d.phase, !.target = d.target]

\* The bound on Turns: an end that may still need a Turn of its own keeps one.
MayContinue == {r \in Receipts : /\ rows[r].dispatch # "none" /\ rows[r].intent \in {"none", "queued"}
                                /\ rows[r].delivery \in {"none", "pending"}}
Room == Cardinality({t \in Turns : turn[t] = "none"})
        > Cardinality(MayContinue) + (IF admission.step = "input" THEN 1 ELSE 0)

---------------------------------------------------------------------------
(* The dispatcher: an ended process becomes an inbox item and a delivery.  *)

\* A process that a Turn has started ends; its receipt and its dispatch are one transaction.
ProcessEnds(r, t) ==
    /\ rows[r].dispatch = "none" /\ turn[t] # "none" /\ Room
    /\ SetRow(r, [rows[r] EXCEPT !.source = t, !.dispatch = "pending"])
    /\ UNCHANGED <<alive, serving, turn, fenced, opened, loop, reached, work, late, admission>>

\* The claim of a Host that is gone expires and is fenced.
Expired(r) ==
    \/ /\ rows[r].dispatch = "claimed" /\ rows[r].dispatchBy \notin alive
       /\ SetRow(r, [rows[r] EXCEPT !.dispatch = "pending", !.dispatchBy = NoHost])
    \/ /\ rows[r].wake = "claimed" /\ rows[r].wakeBy \notin alive
       /\ SetRow(r, [rows[r] EXCEPT !.wake = "pending", !.wakeBy = NoHost])

FenceClaim(h, r) ==
    /\ Serving(h) /\ work[h] = Idle /\ Expired(r)
    /\ UNCHANGED <<alive, serving, turn, fenced, opened, loop, reached, work, late, admission>>

ClaimDispatch(h, r) ==
    /\ Serving(h) /\ work[h] = Idle
    /\ rows[r].dispatch = "pending"
    /\ SetRow(r, [rows[r] EXCEPT !.dispatch = "claimed", !.dispatchBy = h])
    /\ work' = [work EXCEPT ![h] = [Idle EXCEPT !.step = "inbox", !.receipt = r]]
    /\ UNCHANGED <<alive, serving, turn, fenced, opened, loop, reached, late, admission>>

\* The inbox item is created, or the one created before is found by its dedupe key.
EnsureInbox(h) ==
    /\ work[h].step = "inbox"
    /\ SetRow(work[h].receipt, [Row(h) EXCEPT !.inbox = TRUE])
    /\ Work(h, "delivery")
    /\ UNCHANGED <<alive, serving, turn, fenced, opened, loop, reached, late, admission>>

\* The first attempt is looked up; without one, a destination is decided.
FindDelivery(h) ==
    /\ work[h].step = "delivery"
    /\ IF Row(h).delivery # "none"
       THEN Work(h, "wake")
       ELSE \E d \in Decision(work[h].receipt) :
               work' = [work EXCEPT ![h].step = "create", ![h].decision = d]
    /\ UNCHANGED <<alive, serving, turn, fenced, opened, loop, rows, reached, late, admission>>

\* The delivery is created if the decision still holds.
CreateDelivery(h) ==
    LET r == work[h].receipt  d == work[h].decision IN
    /\ work[h].step = "create" /\ Authority(r, d)
    /\ SetRow(r, [Retargeted(r, d) EXCEPT !.delivery = "pending"])
    /\ Work(h, "wake")
    /\ UNCHANGED <<alive, serving, turn, fenced, opened, loop, reached, late, admission>>

WithWake(row) ==
    IF row.wake # "none" THEN row
    ELSE [row EXCEPT !.wake = IF row.delivery = "failed" THEN "dead_letter" ELSE "pending"]

EnsureWake(h) ==
    /\ work[h].step = "wake"
    /\ SetRow(work[h].receipt, WithWake(Row(h)))
    /\ Work(h, "complete")
    /\ UNCHANGED <<alive, serving, turn, fenced, opened, loop, reached, late, admission>>

CompleteDispatch(h) ==
    /\ work[h].step = "complete"
    /\ SetRow(work[h].receipt, [Row(h) EXCEPT !.dispatch = "completed", !.dispatchBy = NoHost])
    /\ WorkEnds(h)
    /\ UNCHANGED <<alive, serving, turn, fenced, opened, loop, reached, late, admission>>

\* Preparing the content fails, or the authority has moved; after MaxFailures it is given up.
DispatchFails(h) ==
    LET fails == Row(h).dispatchFails + 1 IN
    /\ \/ work[h].step = "inbox"
       \/ work[h].step = "create" /\ ~Authority(work[h].receipt, work[h].decision)
    /\ SetRow(work[h].receipt, [Row(h) EXCEPT
            !.dispatch = IF fails = MaxFailures THEN "dead_letter" ELSE "pending",
            !.dispatchBy = NoHost, !.dispatchFails = fails])
    /\ WorkEnds(h)
    /\ UNCHANGED <<alive, serving, turn, fenced, opened, loop, reached, late, admission>>

\* The scan of any Host, the serving one or not, completes deliveries that have no wake.
RecoverWake(h, r) ==
    /\ h \in alive
    /\ rows[r].wake = "none"
    /\ rows[r].delivery = "pending" \/ rows[r].input = "pending"
    /\ SetRow(r, WithWake(rows[r]))
    /\ UNCHANGED <<alive, serving, turn, fenced, opened, loop, reached, work, late, admission>>

---------------------------------------------------------------------------
(* The dispatcher: the wake of a delivery.                                 *)

ClaimWake(h, r) ==
    /\ Serving(h) /\ work[h] = Idle
    /\ rows[r].wake = "pending"
    /\ SetRow(r, [rows[r] EXCEPT !.wake = "claimed", !.wakeBy = h])
    /\ work' = [work EXCEPT ![h] = [Idle EXCEPT !.step = "decide", !.receipt = r]]
    /\ UNCHANGED <<alive, serving, turn, fenced, opened, loop, reached, late, admission>>

\* A delivery that is still pending is decided upon once more.
DecideWake(h) ==
    /\ work[h].step = "decide"
    /\ IF Row(h).delivery = "pending"
       THEN \E d \in Decision(work[h].receipt) :
               work' = [work EXCEPT ![h].step = "apply", ![h].decision = d,
                                    ![h].read = <<Row(h).phase, Row(h).target>>]
       ELSE Work(h, "act")
    /\ UNCHANGED <<alive, serving, turn, fenced, opened, loop, rows, reached, late, admission>>

AsRead(h) == Row(h).delivery = "pending" /\ work[h].read = <<Row(h).phase, Row(h).target>>
StillDecided(h) == AsRead(h) /\ Authority(work[h].receipt, work[h].decision)

MutReleasedWake(row) == [row EXCEPT !.wake = "pending"]

ReleasedWake(row) == [row EXCEPT !.wake = "pending", !.wakeBy = NoHost]

ApplyDecision(h) ==
    /\ work[h].step = "apply" /\ StillDecided(h)
    /\ SetRow(work[h].receipt, Retargeted(work[h].receipt, work[h].decision))
    /\ Work(h, "act")
    /\ UNCHANGED <<alive, serving, turn, fenced, opened, loop, reached, late, admission>>

\* Another delivery row is a race and ends in a new scan; another authority is decided upon again.
DecisionLost(h) ==
    /\ work[h].step = "apply" /\ ~StillDecided(h)
    /\ IF AsRead(h)
       THEN Work(h, "decide") /\ UNCHANGED rows
       ELSE SetRow(work[h].receipt, ReleasedWake(Row(h))) /\ WorkEnds(h)
    /\ UNCHANGED <<alive, serving, turn, fenced, opened, loop, reached, late, admission>>

\* The delivery is read back and says what its handler does.
Act(h) ==
    /\ work[h].step = "act"
    /\ Work(h, CASE Row(h).phase = "notify_only" -> "notify"
                 [] Row(h).phase = "next_turn" /\ Row(h).target = 0 -> "prepare"
                 [] OTHER -> "resume")
    /\ UNCHANGED <<alive, serving, turn, fenced, opened, loop, rows, reached, late, admission>>

\* acknowledgeNotification(): the commit that consumes the delivery is the notice, once.
Notified(r) ==
    IF rows[r].delivery = "pending"
    THEN /\ SetRow(r, [rows[r] EXCEPT !.delivery = "consumed"])
         /\ reached' = [reached EXCEPT ![r] = @ + 1]
    ELSE UNCHANGED <<rows, reached>>

Notify(h) ==
    /\ work[h].step = "notify"
    /\ Notified(work[h].receipt)
    /\ Work(h, "acknowledge")
    /\ UNCHANGED <<alive, serving, turn, fenced, opened, loop, late, admission>>

\* A scheduling hint for the loop; the wake is over when the input has been handled.
MutResume(h) ==
    /\ work[h].step = "resume"
    /\ Work(h, "acknowledge")
    /\ UNCHANGED <<alive, serving, turn, fenced, opened, loop, rows, reached, late, admission>>

Resume(h) ==
    /\ work[h].step = "resume"
    /\ IF Row(h).input = "consumed"
       THEN Work(h, "acknowledge") /\ UNCHANGED rows
       ELSE SetRow(work[h].receipt, ReleasedWake(Row(h))) /\ WorkEnds(h)
    /\ UNCHANGED <<alive, serving, turn, fenced, opened, loop, reached, late, admission>>

AcknowledgeWake(h) ==
    /\ work[h].step = "acknowledge"
    /\ SetRow(work[h].receipt, [Row(h) EXCEPT !.wake = "acknowledged", !.wakeBy = NoHost])
    /\ WorkEnds(h)
    /\ UNCHANGED <<alive, serving, turn, fenced, opened, loop, reached, late, admission>>

\* A failed wake is retried; after MaxFailures its delivery is given up if it is still pending.
MutFailedWake(row) ==
    LET fails == row.wakeFails + 1 IN
    IF fails < MaxFailures THEN [ReleasedWake(row) EXCEPT !.wakeFails = fails]
    ELSE [row EXCEPT !.wake = "dead_letter", !.wakeBy = NoHost, !.wakeFails = fails, !.delivery = "failed"]

FailedWake(row) ==
    LET fails == row.wakeFails + 1 IN
    IF fails < MaxFailures THEN [ReleasedWake(row) EXCEPT !.wakeFails = fails]
    ELSE [row EXCEPT !.wake = "dead_letter", !.wakeBy = NoHost, !.wakeFails = fails,
                     !.delivery = IF @ = "pending" THEN "failed" ELSE @]

\* The handler takes longer than the claim may last: the wake has failed, the handler still runs.
WakeTimesOut(h) ==
    /\ work[h].step \in {"notify", "prepare", "continue"} /\ late[h] = Idle
    /\ SetRow(work[h].receipt, FailedWake(Row(h)))
    /\ late' = [late EXCEPT ![h] = work[h]]
    /\ WorkEnds(h)
    /\ UNCHANGED <<alive, serving, turn, fenced, opened, loop, reached, admission>>

LateNotify(h) ==
    /\ late[h].step = "notify"
    /\ Notified(late[h].receipt)
    /\ late' = [late EXCEPT ![h] = Idle]
    /\ UNCHANGED <<alive, serving, turn, fenced, opened, loop, work, admission>>

---------------------------------------------------------------------------
(* Admission: a new Turn takes in what waits for one.                      *)

Queued == {r \in Receipts : rows[r].intent = "queued"}

\* What prepareNextTurnDeliverySteps() reads for a Turn that opens for the delivery `start`.
Prepared(w, step, start) ==
    [w EXCEPT !.step = step, !.receipt = start,
              !.taken = Waiting, !.superseded = (Waiting \ {start}) \cap Queued]

\* The assertions of the transaction that opens the Turn.
TakesStill(w) == \A r \in w.taken : Waits(r)
CancelsStill(w) == \A r \in w.superseded : rows[r].intent = "queued"
MayOpen(w) == Active = {} /\ TakesStill(w) /\ CancelsStill(w)

TookIn(row, t) == [row EXCEPT !.delivery = "consumed", !.target = t, !.input = "pending"]

OpensTurn(w) ==
    \E t \in Turns :
        /\ turn[t] = "none" /\ \A u \in Turns : u < t => turn[u] # "none"
        /\ turn' = [turn EXCEPT ![t] = "active"]
        /\ opened' = [opened EXCEPT ![t] = w.receipt]
        /\ loop' = Boundary
        /\ rows' = [r \in Receipts |->
               LET intent == IF r = w.receipt THEN "admitted"
                              ELSE IF r \in w.superseded THEN "cancelled" ELSE rows[r].intent
                   row == [rows[r] EXCEPT !.intent = intent]
               IN  IF r \in w.taken THEN TookIn(row, t) ELSE row]

\* A continuation takes the idle Conversation at once, or waits in the queue of the running Turn.
Continued(w) ==
    /\ Waits(w.receipt)
    /\ \/ MayOpen(w) /\ OpensTurn(w)
       \/ /\ Active # {}
          /\ SetRow(w.receipt, [rows[w.receipt] EXCEPT !.intent = "queued"])
          /\ UNCHANGED <<turn, opened, loop>>

\* The command of an earlier handler for this delivery is replayed, or a new one is prepared.
PrepareContinuation(h) ==
    /\ work[h].step = "prepare"
    /\ IF Row(h).intent # "none"
       THEN Work(h, "acknowledge")
       ELSE work' = [work EXCEPT ![h] = Prepared(work[h], "continue", work[h].receipt)]
    /\ UNCHANGED <<alive, serving, turn, fenced, opened, loop, rows, reached, late, admission>>

Continue(h) ==
    /\ work[h].step = "continue" /\ Row(h).intent = "none"
    /\ Continued(work[h])
    /\ Work(h, "acknowledge")
    /\ UNCHANGED <<alive, serving, fenced, reached, late, admission>>

\* What the continuation has read is no longer so: its wake fails, or finds the command replayed.
ContinueFails(h) ==
    /\ work[h].step = "continue"
    /\ IF Row(h).intent # "none"
       THEN Work(h, "acknowledge") /\ UNCHANGED rows
       ELSE /\ ~Waits(work[h].receipt) \/ (Active = {} /\ ~MayOpen(work[h]))
            /\ SetRow(work[h].receipt, FailedWake(Row(h)))
            /\ WorkEnds(h)
    /\ UNCHANGED <<alive, serving, turn, fenced, opened, loop, reached, late, admission>>

LatePrepare(h) ==
    /\ late[h].step = "prepare"
    /\ late' = [late EXCEPT ![h] = Prepared(late[h], "continue", late[h].receipt)]
    /\ UNCHANGED <<alive, serving, turn, fenced, opened, loop, rows, reached, work, admission>>

LateContinue(h) ==
    /\ late[h].step = "continue"
    /\ \/ rows[late[h].receipt].intent = "none" /\ Continued(late[h])
       \/ /\ \/ rows[late[h].receipt].intent # "none"
             \/ ~Waits(late[h].receipt)
             \/ Active = {} /\ ~MayOpen(late[h])
          /\ UNCHANGED <<turn, opened, loop, rows>>
    /\ late' = [late EXCEPT ![h] = Idle]
    /\ UNCHANGED <<alive, serving, fenced, reached, work, admission>>

\* The user's input, when nothing is queued before it.
PrepareInput(h) ==
    /\ Serving(h) /\ admission = Idle /\ Active = {} /\ Queued = {}
    /\ Room
    /\ admission' = Prepared(Idle, "input", 0)
    /\ UNCHANGED <<alive, serving, turn, fenced, opened, loop, rows, reached, work, late>>

\* A queued continuation whose delivery no longer waits is cancelled; the others open a Turn.
CancelSuperseded(h, r) ==
    /\ Serving(h) /\ admission = Idle /\ Active = {}
    /\ r \in Queued /\ rows[r].delivery # "pending"
    /\ SetRow(r, [rows[r] EXCEPT !.intent = "cancelled"])
    /\ UNCHANGED <<alive, serving, turn, fenced, opened, loop, reached, work, late, admission>>

PrepareQueued(h, r) ==
    /\ Serving(h) /\ admission = Idle /\ Active = {}
    /\ r \in Queued /\ rows[r].delivery = "pending"
    /\ admission' = Prepared(Idle, "queued", r)
    /\ UNCHANGED <<alive, serving, turn, fenced, opened, loop, rows, reached, work, late>>

\* The continuation opens a Turn only while its delivery still waits for one.
MutStartHolds == admission.step = "queued" => admission.receipt \in Queued

StartHolds ==
    IF admission.step = "input" THEN Queued = {}
    ELSE admission.receipt \in Queued /\ rows[admission.receipt].delivery = "pending"

CommitAdmission ==
    /\ admission # Idle
    /\ IF MayOpen(admission) /\ StartHolds
       THEN OpensTurn(admission)
       ELSE UNCHANGED <<turn, opened, loop, rows>>
    /\ admission' = Idle
    /\ UNCHANGED <<alive, serving, fenced, reached, work, late>>

---------------------------------------------------------------------------
(* The agent loop of the active Turn.                                      *)

Drives(t, step) == serving # NoHost /\ turn[t] = "active" /\ loop.step = step
Loop(step, todo) == loop' = [loop EXCEPT !.step = step, !.todo = todo]
Inputs(t) == {r \in Receipts : rows[r].input = "pending" /\ rows[r].target = t}

\* absorbRuntimeDeliveryInputs() reads the deliveries for the Turn, at a request boundary or before
\* the Turn ends early.
ReadDeliveries(t) ==
    /\ Drives(t, "boundary")
    /\ Loop("advance", {r \in Receipts : Into(r, t)})
    /\ UNCHANGED <<alive, serving, turn, fenced, opened, rows, reached, work, late, admission>>

\* advance(): a delivery is injected where its decision leads to this Turn (a routed one only at a
\* request boundary), and has its destination corrected where it does not.
Injected(r, t) ==
    TookIn([rows[r] EXCEPT !.intent = IF @ = "queued" THEN "cancelled" ELSE @], t)

Advanced(r, t, d) ==
    LET here == d.phase = "current_turn" /\ d.target = t
        left == loop.leaving /\ rows[r].source # t
    IN  CASE ~Into(r, t) \/ (here /\ left) -> rows[r]
          [] here /\ ~left /\ Into(r, t)   -> Injected(r, t)
          [] OTHER                         -> Retargeted(r, d)

Advance(t, r) ==
    /\ Drives(t, "advance") /\ r \in loop.todo
    /\ \E d \in Decision(r) : SetRow(r, Advanced(r, t, d))
    /\ Loop("advance", loop.todo \ {r})
    /\ UNCHANGED <<alive, serving, turn, fenced, opened, reached, work, late, admission>>

ReadInputs(t) ==
    /\ Drives(t, "advance") /\ loop.todo = {}
    /\ Loop("append", Inputs(t))
    /\ UNCHANGED <<alive, serving, turn, fenced, opened, rows, reached, work, late, admission>>

\* The Context segment and the acknowledgement of its input are one transaction.
Appended(r) ==
    /\ reached' = [reached EXCEPT ![r] = @ + 1]
    /\ SetRow(r, [rows[r] EXCEPT !.input = "consumed"])

AppendInput(t, r) ==
    /\ Drives(t, "append") /\ r \in loop.todo
    /\ Appended(r)
    /\ Loop("append", loop.todo \ {r})
    /\ UNCHANGED <<alive, serving, turn, fenced, opened, work, late, admission>>

Absorbed(t) ==
    /\ Drives(t, "append") /\ loop.todo = {}
    /\ Loop(IF loop.leaving THEN "terminal" ELSE "request", {})
    /\ UNCHANGED <<alive, serving, turn, fenced, opened, rows, reached, work, late, admission>>

\* The model asks for tools, whose results need another request.
AskForTools(t) ==
    /\ Drives(t, "request")
    /\ Loop("boundary", {})
    /\ UNCHANGED <<alive, serving, turn, fenced, opened, rows, reached, work, late, admission>>

Passed(t) == [r \in Receipts |->
    IF Routed(r, t) THEN [rows[r] EXCEPT !.phase = "next_turn", !.target = 0] ELSE rows[r]]

\* The model gives its final output, which is fenced, and routed deliveries passed on, unless a result of the Turn's own
\* work or an input that was not taken in yet is still to come: those need another request.
MayFence(t) == Inputs(t) = {} /\ \A r \in Receipts : Into(r, t) => Routed(r, t)

FinalOutput(t) ==
    /\ Drives(t, "request")
    /\ IF MayFence(t)
       THEN fenced' = fenced \cup {t} /\ rows' = Passed(t) /\ Loop("fenced", {})
       ELSE Loop("boundary", {}) /\ UNCHANGED <<fenced, rows>>
    /\ UNCHANGED <<alive, serving, turn, opened, reached, work, late, admission>>

\* The user stops the Turn, or it fails.
Leave(t) ==
    /\ \E step \in {"boundary", "request", "fenced"} : Drives(t, step)
    /\ ~loop.leaving
    /\ loop' = [Boundary EXCEPT !.leaving = TRUE]
    /\ UNCHANGED <<alive, serving, turn, fenced, opened, rows, reached, work, late, admission>>

\* The terminal commit passes on what was routed into the Turn and not taken in.
Terminate(t, status) ==
    /\ turn' = [turn EXCEPT ![t] = status]
    /\ rows' = Passed(t)
    /\ loop' = Boundary

CompleteTurn(t) ==
    /\ Drives(t, "fenced") /\ Inputs(t) = {}
    /\ Terminate(t, "completed")
    /\ UNCHANGED <<alive, serving, fenced, opened, reached, work, late, admission>>

EndTurnEarly(t) ==
    /\ Drives(t, "terminal")
    /\ IF Inputs(t) = {}
       THEN Terminate(t, "stopped")
       ELSE Loop("boundary", {}) /\ UNCHANGED <<turn, rows>>
    /\ UNCHANGED <<alive, serving, fenced, opened, reached, work, late, admission>>

---------------------------------------------------------------------------
(* Hosts.                                                                  *)

\* A Host takes a Conversation without an owner and resumes its Turn where the rows say it is.
Serve(h) ==
    /\ h \in alive /\ serving = NoHost
    /\ serving' = h
    /\ loop' = [Boundary EXCEPT !.step = IF Active \cap fenced # {} THEN "fenced" ELSE "boundary"]
    /\ UNCHANGED <<alive, turn, fenced, opened, rows, reached, work, late, admission>>

\* An idle Conversation is handed back.
HandBack(h) ==
    /\ Serving(h) /\ Active = {}
    /\ work[h] = Idle /\ late[h] = Idle /\ admission = Idle
    /\ serving' = NoHost
    /\ UNCHANGED <<alive, turn, fenced, opened, loop, rows, reached, work, late, admission>>

HostDies(h) ==
    /\ h \in alive /\ alive # {h}
    /\ alive' = alive \ {h}
    /\ work' = [work EXCEPT ![h] = Idle]
    /\ late' = [late EXCEPT ![h] = Idle]
    /\ IF serving = h
       THEN serving' = NoHost /\ admission' = Idle /\ loop' = Boundary
       ELSE UNCHANGED <<serving, admission, loop>>
    /\ UNCHANGED <<turn, fenced, opened, rows, reached>>

---------------------------------------------------------------------------
DispatcherStep(h) ==
    \/ EnsureInbox(h) \/ FindDelivery(h) \/ CreateDelivery(h) \/ EnsureWake(h) \/ CompleteDispatch(h)
    \/ DispatchFails(h) \/ DecideWake(h) \/ ApplyDecision(h) \/ DecisionLost(h) \/ Act(h) \/ Notify(h)
    \/ Resume(h) \/ AcknowledgeWake(h) \/ PrepareContinuation(h) \/ Continue(h) \/ ContinueFails(h)

Claims(h, r) == FenceClaim(h, r) \/ ClaimDispatch(h, r) \/ ClaimWake(h, r)
LateStep(h) == LateNotify(h) \/ LatePrepare(h) \/ LateContinue(h)
Queue(h, r) == CancelSuperseded(h, r) \/ PrepareQueued(h, r)

LoopStep(t) ==
    \/ ReadDeliveries(t) \/ ReadInputs(t) \/ Absorbed(t) \/ AskForTools(t) \/ FinalOutput(t)
    \/ CompleteTurn(t) \/ EndTurnEarly(t)
    \/ \E r \in Receipts : Advance(t, r) \/ AppendInput(t, r)

DeliveryNext ==
    \/ \E r \in Receipts, t \in Turns : ProcessEnds(r, t)
    \/ \E h \in DeliveryHosts, r \in Receipts : Claims(h, r) \/ RecoverWake(h, r) \/ Queue(h, r)
    \/ \E h \in DeliveryHosts :
          \/ DispatcherStep(h) \/ WakeTimesOut(h) \/ LateStep(h) \/ PrepareInput(h)
          \/ Serve(h) \/ HandBack(h) \/ HostDies(h)
    \/ CommitAdmission
    \/ \E t \in Turns : LoopStep(t) \/ Leave(t)

DeliverySpec == DeliveryInit /\ [][DeliveryNext]_deliveryVars

\* Some Host serves the Conversation while there is work for it; its scans pass every outbox row, as
\* long as rows are outstanding; its loop and its queue go on; the model does not ask for tools forever.
DeliveryFairness ==
    /\ WF_deliveryVars(\E h \in DeliveryHosts : Serve(h))
    /\ WF_deliveryVars(\E h \in DeliveryHosts : DispatcherStep(h))
    /\ WF_deliveryVars(CommitAdmission)
    /\ WF_deliveryVars(\E t \in Turns : LoopStep(t))
    /\ SF_deliveryVars(\E t \in Turns : FinalOutput(t))
    /\ \A r \in Receipts :
          /\ WF_deliveryVars(\E h \in DeliveryHosts : RecoverWake(h, r))
          /\ SF_deliveryVars(\E h \in DeliveryHosts : Claims(h, r))
          /\ SF_deliveryVars(\E h \in DeliveryHosts : Queue(h, r))

---------------------------------------------------------------------------
Statuses == {"none", "active", "completed", "stopped"}
Phases == {"none", "current_turn", "next_turn", "notify_only"}

Loops == [step : {"boundary", "advance", "append", "request", "fenced", "terminal"},
          leaving : BOOLEAN, todo : SUBSET Receipts]

DeliveryRows ==
    [source : Turns \cup {0}, dispatch : {"none", "pending", "claimed", "completed", "dead_letter"},
     dispatchBy : DeliveryHosts \cup {NoHost}, dispatchFails : 0..MaxFailures, inbox : BOOLEAN,
     delivery : {"none", "pending", "consumed", "failed"}, phase : Phases, target : Turns \cup {0},
     wake : {"none", "pending", "claimed", "acknowledged", "dead_letter"},
     wakeBy : DeliveryHosts \cup {NoHost}, wakeFails : 0..MaxFailures,
     input : {"none", "pending", "consumed"}, intent : {"none", "queued", "admitted", "cancelled"}]

Decisions == [phase : Phases, target : Turns \cup {0}, seen : Statuses]

DispatchSteps == {"inbox", "delivery", "create", "wake", "complete"}
LateSteps == {"notify", "prepare", "continue"}
WakeSteps == LateSteps \cup {"decide", "apply", "act", "resume", "acknowledge"}

Works(steps) ==
    [step : steps, receipt : Receipts \cup {0}, read : Phases \X (Turns \cup {0}),
     decision : Decisions, taken : SUBSET Receipts, superseded : SUBSET Receipts]

\* The shape of the rows and of what the Hosts have in memory; exactly the claimed rows name a Host.
DeliveryTypeOK ==
    /\ alive \subseteq DeliveryHosts /\ serving \in alive \cup {NoHost}
    /\ turn \in [Turns -> Statuses]
    /\ fenced \subseteq Turns /\ opened \in [Turns -> Receipts \cup {0}]
    /\ loop \in Loops
    /\ rows \in [Receipts -> DeliveryRows]
    /\ reached \in [Receipts -> Nat]
    /\ work \in [DeliveryHosts -> Works({"idle"} \cup DispatchSteps \cup WakeSteps)]
    /\ late \in [DeliveryHosts -> Works({"idle"} \cup LateSteps)]
    /\ admission \in Works({"idle", "input", "queued"})
    /\ \A r \in Receipts : /\ (rows[r].dispatch = "claimed") = (rows[r].dispatchBy # NoHost)
                          /\ (rows[r].wake = "claimed") = (rows[r].wakeBy # NoHost)

\* The end of a process reaches its Conversation at most once, as a Context segment or as a notice,
\* and an end that was given up (a dead letter, a failed delivery) never does: not through a Host
\* that dies between any two transactions, a wake that is replayed (processCompletionDelivery.ts), or
\* a wake handler that outlives its claim and is still at work while the wake is retried or given up.
ReachesOnce ==
    \A r \in Receipts : reached[r] <= (IF rows[r].delivery = "consumed" THEN 1 ELSE 0)

\* A Turn whose final output is fenced, or that is over, keeps nothing that the model will never
\* see: no input that was injected and not appended, and no result routed into it from another Turn
\* (establishFinalOutputFence, prepareTerminalDeliverySteps), whichever decision was being made.
NothingLeftBehind ==
    \A t \in Turns : turn[t] # "none" /\ ~Open(t) =>
        /\ Inputs(t) = {}
        /\ \A r \in Receipts : ~Routed(r, t)

\* A delivery opens at most one Turn of its own, and none once another Turn has taken it in or it was
\* given up, however often its wake is replayed or outlived by its handler, and whatever happens
\* between preparing the Turn and opening it (the receipt of the command, admitQueuedIntents).
OpensOnce ==
    [][\A t \in Turns : opened'[t] # opened[t] =>
          /\ rows[opened'[t]].delivery = "pending"
          /\ \A u \in Turns : opened[u] # opened'[t]]_deliveryVars

\* What the code says of it: a continuation opens a Turn only while its delivery still waits for
\* one, so that no Turn is started with nothing to do (admitQueuedIntents, turnControlPlane.ts).
TurnHasWork ==
    \A t \in Turns : opened[t] # 0 =>
        rows[opened[t]].delivery = "consumed" /\ rows[opened[t]].target = t

\* An end of a process is settled: it has reached the Conversation or was given up.  Only the Turn
\* that its own continuation has opened can miss it, when a late handler had looked for it while it
\* was routed into another Turn: it is then left, without a wake, for whichever Turn comes next.
EndSettles(r) ==
    rows[r].dispatch # "none" ~>
        \/ reached[r] > 0 \/ rows[r].delivery = "failed"
        \/ rows[r].dispatch = "dead_letter" /\ rows[r].delivery = "none"
        \/ Waits(r) /\ rows[r].intent = "admitted" /\ rows[r].wake = "acknowledged"
=============================================================================
