------------------------- MODULE RuntimeDeliveryProofs -------------------------
(***************************************************************************)
(* Proofs about RuntimeDelivery for any Hosts, processes, Turns and        *)
(* failures.  DeliveryInv is inductive.  A claim belongs to one living     *)
(* Host (Working), so the delivery that a dispatcher is about to create    *)
(* does not exist yet; what a row says of its delivery and its input       *)
(* counts what has reached the Conversation (Fits); and a Turn that is     *)
(* closed keeps nothing (LeftAt), because a decision is applied under the  *)
(* authority of a Turn that is still open.                                 *)
(***************************************************************************)
EXTENDS RuntimeDelivery, TLAPS

USE DEF deliveryVars

---------------------------------------------------------------------------
(* The invariant. *)

\* What the columns of a row say of each other, and of the n times that it has reached the Conversation.
Fits(row, n) ==
    /\ (row.dispatch = "claimed") = (row.dispatchBy # NoHost)
    /\ (row.wake = "claimed") = (row.wakeBy # NoHost)
    /\ row.dispatch = "none" => row.delivery = "none" /\ row.wake = "none" /\ row.intent = "none"
    /\ row.dispatch # "none" => row.source \in Turns
    /\ row.dispatch \in {"none", "pending", "claimed"} => row.dispatchFails < MaxFailures
    /\ row.wake \in {"none", "pending", "claimed"} => row.wakeFails < MaxFailures
    /\ row.delivery # "consumed" => row.input = "none" /\ n = 0
    /\ row.delivery = "consumed" => n = (IF row.input = "pending" THEN 0 ELSE 1)

\* The work w of the Host h on a row: it holds the claim, and creates a delivery where none is.
Working(h, w, row) ==
    /\ w.step \in DispatchSteps => row.dispatchBy = h
    /\ w.step \in WakeSteps => row.wakeBy = h
    /\ w.step = "create" => row.delivery = "none"

WorkOK(h) ==
    work[h].step # "idle" =>
        h \in alive /\ work[h].receipt \in Receipts /\ Working(h, work[h], rows[work[h].receipt])

LateOK(h) == late[h].step # "idle" => late[h].receipt \in Receipts

\* A row holds something for the Turn t that only t will handle.
LeftAt(row, t) ==
    \/ row.input = "pending" /\ row.target = t
    \/ row.delivery = "pending" /\ row.phase = "current_turn" /\ row.target = t /\ row.source # t

\* A Turn that was never opened has no traces; a closed one has nothing left; the delivery for which
\* a Turn was opened has been admitted.
TurnOK(t) ==
    /\ turn[t] = "none" => t \notin fenced /\ opened[t] = 0
    /\ turn[t] # "none" /\ ~Open(t) => \A r \in Receipts : ~LeftAt(rows[r], t)
    /\ opened[t] # 0 => rows[opened[t]].intent = "admitted"

LoopOK == loop.step = "append" => \A r \in loop.todo : rows[r].input = "pending"

AdmissionOK == admission.step = "input" => admission.receipt = 0

DeliveryInv ==
    /\ DeliveryTypeOK /\ LoopOK /\ AdmissionOK
    /\ \A r \in Receipts : Fits(rows[r], reached[r])
    /\ \A h \in DeliveryHosts : WorkOK(h) /\ LateOK(h)
    /\ \A t \in Turns : TurnOK(t)

---------------------------------------------------------------------------
(* Operators. *)

Steps == {"idle"} \cup DispatchSteps \cup WakeSteps

LEMMA NoneTypes ==
  /\ FreshRow \in DeliveryRows /\ Boundary \in Loops
  /\ Idle \in Works(Steps) /\ Idle \in Works({"idle"} \cup LateSteps)
  /\ Idle \in Works({"idle", "input", "queued"}) /\ Idle.step = "idle" /\ Idle.receipt = 0
  /\ 1 \in Turns
  <1>1. NoDecision \in Decisions /\ <<"none", 0>> \in Phases \X (Turns \cup {0})
    BY DEF NoDecision, Decisions, Phases, Statuses
  <1>2. FreshRow \in DeliveryRows
    BY DeliveryAssumption DEF FreshRow, DeliveryRows, Phases
  <1>3. Boundary \in Loops
    BY DEF Boundary, Loops
  <1> QED
    BY <1>1, <1>2, <1>3, DeliveryAssumption DEF Idle, Works, Steps, Turns

\* A decision is of the right shape, and leads into open Turns only.
LEMMA DecisionIs ==
  ASSUME DeliveryTypeOK, NEW r \in Receipts, rows[r].source \in Turns, NEW d \in Decision(r)
  PROVE  /\ d \in Decisions
         /\ d.phase = "current_turn" => Open(d.target)
  <1> DEFINE s == rows[r].source
  <1>1. turn[s] \in Statuses
    BY DEF DeliveryTypeOK
  <1>2. \E p \in {"current_turn", "next_turn", "notify_only"}, t \in Turns \cup {0} :
           /\ d = [phase |-> p, target |-> t, seen |-> turn[s]]
           /\ p = "current_turn" => Open(t)
    BY Zenon DEF Decision
  <1> QED
    BY <1>1, <1>2 DEF Decisions, Phases

\* A row with a new destination keeps all but its destination.
LEMMA RetargetedIs ==
  ASSUME NEW row \in DeliveryRows, NEW d \in Decisions
  PROVE  [row EXCEPT !.phase = d.phase, !.target = d.target] \in DeliveryRows
  BY DEF DeliveryRows, Decisions

\* A failed wake counts its failure; the delivery is given up at most if it is pending.
LEMMA FailedWakeIs ==
  ASSUME NEW row \in DeliveryRows, NEW n \in Nat, Fits(row, n), row.wake = "claimed"
  PROVE  /\ FailedWake(row) \in DeliveryRows
         /\ Fits(FailedWake(row), n)
         /\ FailedWake(row).dispatchBy = row.dispatchBy /\ FailedWake(row).wakeBy = NoHost
         /\ FailedWake(row).intent = row.intent /\ FailedWake(row).input = row.input
         /\ FailedWake(row).target = row.target /\ FailedWake(row).phase = row.phase
         /\ FailedWake(row).source = row.source
         /\ FailedWake(row).delivery \in {row.delivery, "failed"}
         /\ row.delivery = "none" => FailedWake(row).delivery = "none"
  <1>1. row.wakeFails < MaxFailures /\ row.wakeFails + 1 \in 0..MaxFailures
    BY DeliveryAssumption DEF Fits, DeliveryRows
  <1> DEFINE f == row.wakeFails + 1
  <1>2. CASE f < MaxFailures
    <2> DEFINE new == [row EXCEPT !.wake = "pending", !.wakeBy = NoHost, !.wakeFails = f]
    <2>1. FailedWake(row) = new
      BY <1>2 DEF FailedWake, ReleasedWake, DeliveryRows
    <2>2. new \in DeliveryRows
      BY <1>1 DEF DeliveryRows
    <2>3. Fits(new, n)
      BY <1>2 DEF DeliveryRows, Fits
    <2> QED
      BY <2>1, <2>2, <2>3 DEF DeliveryRows
  <1>3. CASE ~(f < MaxFailures)
    <2> DEFINE given == IF row.delivery = "pending" THEN "failed" ELSE row.delivery
               new == [row EXCEPT !.wake = "dead_letter", !.wakeBy = NoHost, !.wakeFails = f,
                                  !.delivery = given]
    <2>1. FailedWake(row) = new
      BY <1>3 DEF FailedWake, ReleasedWake, DeliveryRows
    <2> given \in {"none", "pending", "consumed", "failed"}
      BY DEF DeliveryRows
    <2> HIDE DEF given
    <2>2. new \in DeliveryRows
      BY <1>1 DEF DeliveryRows
    <2> USE DEF given
    <2>3. Fits(new, n)
      BY DEF DeliveryRows, Fits
    <2> QED
      BY <2>1, <2>2, <2>3 DEF DeliveryRows
  <1> QED
    BY <1>2, <1>3

---------------------------------------------------------------------------
(* Steps that change one row. *)

\* What the work of the Host g depends on stays: its claims, and that a delivery is still missing.
Leaves(g, old, new) ==
    /\ old.dispatchBy = g => new.dispatchBy = g /\ (old.delivery = "none" => new.delivery = "none")
    /\ old.wakeBy = g => new.wakeBy = g

LEMMA Bystander ==
  ASSUME DeliveryInv, NEW g \in DeliveryHosts, work'[g] = work[g], g \in alive',
         \A s \in Receipts : Leaves(g, rows[s], rows'[s])
  PROVE  WorkOK(g)'
  <1> SUFFICES ASSUME work[g].step # "idle" PROVE WorkOK(g)'
    BY DEF WorkOK
  <1>1. work[g].receipt \in Receipts /\ Working(g, work[g], rows[work[g].receipt])
    BY DEF DeliveryInv, WorkOK
  <1>2. PICK s \in Receipts : s = work[g].receipt
    BY <1>1
  <1>3. Working(g, work'[g], rows'[s])
    <2>1. Working(g, work[g], rows[s]) /\ Leaves(g, rows[s], rows'[s])
      BY <1>1, <1>2
    <2>2. work[g].step = "create" => work[g].step \in DispatchSteps
      BY DEF DispatchSteps
    <2> QED
      BY <2>1, <2>2 DEF Working, Leaves
  <1> QED
    BY <1>2, <1>3 DEF WorkOK

\* A row that changes keeps an admission, and gets no obligation to a Turn that is not open.
Proper(r, row) ==
    /\ rows[r].intent = "admitted" => row.intent = "admitted"
    /\ \A t \in Turns : LeftAt(row, t) => LeftAt(rows[r], t) \/ Open(t)

LEMMA RowStep ==
  ASSUME DeliveryInv, NEW r \in Receipts, NEW row \in DeliveryRows, NEW n \in Nat,
         rows' = [rows EXCEPT ![r] = row], reached' = [reached EXCEPT ![r] = n],
         Fits(row, n), Proper(r, row),
         UNCHANGED <<alive, serving, turn, fenced, opened>>,
         \A g \in DeliveryHosts :
            (work'[g] = work[g] /\ (work[g].step = "idle" \/ Leaves(g, rows[r], row))) \/ WorkOK(g)',
         work' \in [DeliveryHosts -> Works(Steps)],
         late' \in [DeliveryHosts -> Works({"idle"} \cup LateSteps)],
         \A g \in DeliveryHosts : LateOK(g)',
         loop' \in Loops, LoopOK', UNCHANGED admission
  PROVE  DeliveryInv'
  <1>1. rows' \in [Receipts -> DeliveryRows] /\ reached' \in [Receipts -> Nat]
    BY DEF DeliveryInv, DeliveryTypeOK
  <1>2. \A s \in Receipts : rows'[s] = (IF s = r THEN row ELSE rows[s])
                          /\ reached'[s] = (IF s = r THEN n ELSE reached[s])
    BY DEF DeliveryInv, DeliveryTypeOK
  <1>3. \A s \in Receipts : Fits(rows'[s], reached'[s])
    BY <1>2 DEF DeliveryInv
  <1>4. ASSUME NEW g \in DeliveryHosts PROVE WorkOK(g)'
    <2>1. CASE work'[g] = work[g] /\ Leaves(g, rows[r], row)
      <3>1. \A s \in Receipts : Leaves(g, rows[s], rows'[s])
        BY <1>2, <2>1 DEF Leaves
      <3> QED
        BY <2>1, <3>1, Bystander DEF WorkOK, DeliveryInv
    <2> QED
      BY <2>1 DEF WorkOK
  <1>5. ASSUME NEW t \in Turns PROVE TurnOK(t)'
    BY <1>2 DEF DeliveryInv, TurnOK, Proper, Open, DeliveryTypeOK
  <1>6. DeliveryTypeOK'
    BY <1>1, <1>3 DEF DeliveryInv, DeliveryTypeOK, Steps, Fits
  <1> QED
    BY <1>3, <1>4, <1>5, <1>6 DEF DeliveryInv, AdmissionOK

\* A step of the Host h on the row of its work: it goes on with the same row, or is done.
LEMMA HostStep ==
  ASSUME DeliveryInv, NEW h \in DeliveryHosts, NEW r \in Receipts, NEW row \in DeliveryRows,
         NEW n \in Nat, NEW w \in Works(Steps),
         rows' = [rows EXCEPT ![r] = row], reached' = [reached EXCEPT ![r] = n],
         Fits(row, n), Proper(r, row), rows[r].input = "pending" => row.input = "pending",
         work' = [work EXCEPT ![h] = w],
         w.step # "idle" => h \in alive /\ w.receipt = r /\ Working(h, w, row),
         \A g \in DeliveryHosts : g # h /\ g \in alive => Leaves(g, rows[r], row),
         UNCHANGED <<alive, serving, turn, fenced, opened, loop, admission>>,
         late' \in [DeliveryHosts -> Works({"idle"} \cup LateSteps)],
         \A g \in DeliveryHosts : LateOK(g)'
  PROVE  DeliveryInv'
  <1>1. work' \in [DeliveryHosts -> Works(Steps)]
    BY DEF DeliveryInv, DeliveryTypeOK, Steps
  <1>2. \A g \in DeliveryHosts : work'[g] = (IF g = h THEN w ELSE work[g])
    BY DEF DeliveryInv, DeliveryTypeOK
  <1>3. rows'[r] = row /\ \A s \in Receipts : s # r => rows'[s] = rows[s]
    BY DEF DeliveryInv, DeliveryTypeOK
  <1>4. WorkOK(h)'
    BY <1>2, <1>3 DEF WorkOK
  <1>5. \A g \in DeliveryHosts :
            (work'[g] = work[g] /\ (work[g].step = "idle" \/ Leaves(g, rows[r], row))) \/ WorkOK(g)'
    BY <1>2, <1>4 DEF DeliveryInv, WorkOK
  <1>6. loop' \in Loops /\ LoopOK'
    BY <1>3 DEF DeliveryInv, DeliveryTypeOK, LoopOK, Loops
  <1> QED
    BY <1>1, <1>5, <1>6, RowStep

\* What a Host at work knows.
LEMMA AtWork ==
  ASSUME DeliveryInv, NEW h \in DeliveryHosts, work[h].step # "idle"
  PROVE  /\ h \in alive /\ h # NoHost
         /\ work[h] \in Works(Steps)
         /\ work[h].receipt \in Receipts
         /\ rows[work[h].receipt] \in DeliveryRows /\ reached[work[h].receipt] \in Nat
         /\ Fits(rows[work[h].receipt], reached[work[h].receipt])
         /\ Working(h, work[h], rows[work[h].receipt])
  BY DeliveryAssumption DEF DeliveryInv, DeliveryTypeOK, WorkOK, Steps

\* The work that Work() puts down: the next step on the same row.
Goes(step, r) == [Idle EXCEPT !.step = step, !.receipt = r]

LEMMA NextWork ==
  ASSUME NEW r \in Receipts, NEW step \in Steps
  PROVE  Goes(step, r) \in Works(Steps) /\ Goes(step, r).step = step /\ Goes(step, r).receipt = r
  BY NoneTypes DEF Works, Goes

\* A Host that goes on with its claim still works on its row.
LEMMA NextStep ==
  ASSUME NEW h, NEW r \in Receipts, NEW row, NEW step,
         \/ step \in DispatchSteps \ {"create"} /\ row.dispatchBy = h
         \/ step \in WakeSteps /\ row.wakeBy = h
  PROVE  /\ Goes(step, r) \in Works(Steps) /\ Goes(step, r).step = step /\ Goes(step, r).receipt = r
         /\ Working(h, Goes(step, r), row)
  <1>1. step \in Steps /\ step # "create" /\ ~(step \in DispatchSteps /\ step \in WakeSteps)
    BY DEF Steps, DispatchSteps, WakeSteps, LateSteps
  <1>2. Goes(step, r) \in Works(Steps) /\ Goes(step, r).receipt = r /\ Goes(step, r).step = step
    BY <1>1, NextWork
  <1> QED
    BY <1>1, <1>2 DEF Working

\* A row that changes only where no obligation to a Turn can arise.
LEMMA ProperRow ==
  ASSUME NEW r \in Receipts, NEW row,
         rows[r].intent = "admitted" => row.intent = "admitted",
         row.input = rows[r].input, row.source = rows[r].source,
         row.phase = rows[r].phase, row.target = rows[r].target,
         row.delivery = "pending" => rows[r].delivery = "pending"
  PROVE  Proper(r, row)
  BY DEF Proper, LeftAt

\* The row as it is is proper, and no claim changes.
LEMMA SameRow ==
  ASSUME DeliveryInv, NEW r \in Receipts
  PROVE  /\ Proper(r, rows[r]) /\ \A g \in DeliveryHosts : Leaves(g, rows[r], rows[r])
         /\ rows = [rows EXCEPT ![r] = rows[r]] /\ reached = [reached EXCEPT ![r] = reached[r]]
         /\ rows[r] \in DeliveryRows /\ reached[r] \in Nat
  BY DEF Proper, Leaves, DeliveryInv, DeliveryTypeOK

LEMMA SameLate ==
  ASSUME DeliveryInv, UNCHANGED late
  PROVE  /\ late' \in [DeliveryHosts -> Works({"idle"} \cup LateSteps)]
         /\ \A g \in DeliveryHosts : LateOK(g)'
  BY DEF DeliveryInv, DeliveryTypeOK, LateOK

\* The Host h goes on with a row that it has changed, or takes it up.
LEMMA HostGoesOn ==
  ASSUME DeliveryInv, NEW h \in DeliveryHosts, h \in alive, NEW r \in Receipts, NEW row \in DeliveryRows,
         NEW w \in Works(Steps), w.receipt = r, Working(h, w, row),
         rows' = [rows EXCEPT ![r] = row], work' = [work EXCEPT ![h] = w],
         Fits(row, reached[r]), Proper(r, row), row.input = rows[r].input,
         \A g \in DeliveryHosts : g # h => Leaves(g, rows[r], row),
         UNCHANGED <<alive, serving, turn, fenced, opened, loop, admission, reached, late>>
  PROVE  DeliveryInv'
  <1>1. PICK n \in Nat : n = reached[r] /\ reached' = [reached EXCEPT ![r] = n]
    BY SameRow
  <1>2. /\ rows' = [rows EXCEPT ![r] = row] /\ Fits(row, n) /\ Proper(r, row)
        /\ (rows[r].input = "pending" => row.input = "pending")
        /\ work' = [work EXCEPT ![h] = w]
        /\ (w.step # "idle" => h \in alive /\ w.receipt = r /\ Working(h, w, row))
        /\ \A g \in DeliveryHosts : g # h /\ g \in alive => Leaves(g, rows[r], row)
    BY <1>1
  <1>3. UNCHANGED <<alive, serving, turn, fenced, opened, loop, admission>>
    OBVIOUS
  <1> QED
    BY <1>1, <1>2, <1>3, SameLate, HostStep

---------------------------------------------------------------------------
(* The dispatcher. *)

LEMMA EnsureInboxSafe ==
  ASSUME DeliveryInv, NEW h \in DeliveryHosts, EnsureInbox(h)
  PROVE  DeliveryInv'
  <1>1. PICK r \in Receipts : r = work[h].receipt
    BY AtWork DEF EnsureInbox
  <1> DEFINE row == [rows[r] EXCEPT !.inbox = TRUE]
             w == Goes("delivery", r)
  <1>2. rows[r] \in DeliveryRows /\ Fits(rows[r], reached[r]) /\ h \in alive /\ h # NoHost
        /\ rows[r].dispatchBy = h /\ reached[r] \in Nat
    BY <1>1, AtWork DEF EnsureInbox, Working, DispatchSteps
  <1>3. row \in DeliveryRows
    BY <1>2 DEF DeliveryRows
  <1>8. Fits(row, reached[r])
    BY <1>2 DEF DeliveryRows, Fits
  <1>4. Proper(r, row) /\ row.input = rows[r].input
    BY <1>2, ProperRow DEF DeliveryRows
  <1>5. \A g \in DeliveryHosts : Leaves(g, rows[r], row)
    BY <1>2 DEF Leaves, DeliveryRows
  <1>6. w \in Works(Steps) /\ w.receipt = r /\ Working(h, w, row)
    <2>1. "delivery" \in DispatchSteps \ {"create"} /\ row.dispatchBy = h
      BY <1>2 DEF DispatchSteps, DeliveryRows
    <2> HIDE DEF row
    <2> QED
      BY <2>1, NextStep
  <1>7. rows' = [rows EXCEPT ![r] = row] /\ work' = [work EXCEPT ![h] = w]
    BY <1>1 DEF EnsureInbox, SetRow, Row, Work, Goes
  <1>9. UNCHANGED <<alive, serving, turn, fenced, opened, loop, admission, reached, late>>
    BY DEF EnsureInbox
  <1> HIDE DEF row, w
  <1> QED
    BY <1>2, <1>3, <1>4, <1>5, <1>6, <1>7, <1>8, <1>9, SameRow, SameLate, HostStep

\* A step of the Host h that leaves the rows alone.
LEMMA WorkStep ==
  ASSUME DeliveryInv, NEW h \in DeliveryHosts, NEW r \in Receipts, NEW w \in Works(Steps),
         work' = [work EXCEPT ![h] = w],
         w.step # "idle" => h \in alive /\ w.receipt = r /\ Working(h, w, rows[r]),
         UNCHANGED <<alive, serving, turn, fenced, opened, loop, admission, rows, reached, late>>
  PROVE  DeliveryInv'
  <1>1. Fits(rows[r], reached[r])
    BY DEF DeliveryInv
  <1>2. rows' = [rows EXCEPT ![r] = rows[r]] /\ reached' = [reached EXCEPT ![r] = reached[r]]
    BY SameRow
  <1>3. w.step # "idle" => h \in alive /\ w.receipt = r /\ Working(h, w, rows[r])
    OBVIOUS
  <1> QED
    BY <1>1, <1>2, <1>3, SameRow, SameLate, HostStep

LEMMA FindDeliverySafe ==
  ASSUME DeliveryInv, NEW h \in DeliveryHosts, FindDelivery(h)
  PROVE  DeliveryInv'
  <1>1. PICK r \in Receipts : r = work[h].receipt
    BY AtWork DEF FindDelivery
  <1>2. rows[r] \in DeliveryRows /\ Fits(rows[r], reached[r]) /\ h \in alive /\ h # NoHost
        /\ rows[r].dispatchBy = h /\ work[h] \in Works(Steps)
    BY <1>1, AtWork DEF FindDelivery, Working, DispatchSteps
  <1>3. UNCHANGED <<alive, serving, turn, fenced, opened, loop, admission, rows, reached, late>>
    BY DEF FindDelivery
  <1>4. CASE rows[r].delivery # "none"
    <2> DEFINE w == Goes("wake", r)
    <2>1. w \in Works(Steps) /\ w.receipt = r /\ Working(h, w, rows[r])
      <3>1. "wake" \in DispatchSteps \ {"create"}
        BY DEF DispatchSteps
      <3> QED
        BY <1>2, <3>1, NextStep
    <2>2. work' = [work EXCEPT ![h] = w]
      BY <1>1, <1>4 DEF FindDelivery, Row, Work, Goes
    <2> HIDE DEF w
    <2> QED
      BY <1>2, <1>3, <2>1, <2>2, WorkStep
  <1>5. CASE rows[r].delivery = "none"
    <2>1. rows[r].source \in Turns
      BY <1>2 DEF Fits
    <2>2. PICK d \in Decision(r) : work' = [work EXCEPT ![h].step = "create", ![h].decision = d]
      BY <1>1, <1>5 DEF FindDelivery, Row
    <2>3. d \in Decisions
      BY <2>1, DecisionIs DEF DeliveryInv
    <2> DEFINE w == [work[h] EXCEPT !.step = "create", !.decision = d]
    <2>4. w \in Works(Steps)
      BY <1>2, <2>3 DEF Works, Steps, DispatchSteps
    <2>5. w.step = "create" /\ w.receipt = r
      BY <1>1, <1>2 DEF Works
    <2>6. Working(h, w, rows[r])
      BY <1>2, <1>5, <2>5 DEF DispatchSteps, WakeSteps, LateSteps, Working
    <2>7. work' = [work EXCEPT ![h] = w]
      BY <2>2 DEF DeliveryInv, DeliveryTypeOK
    <2> HIDE DEF w
    <2> QED
      BY <1>2, <1>3, <2>4, <2>5, <2>6, <2>7, WorkStep
  <1> QED
    BY <1>4, <1>5

\* A decision that still holds leads to no Turn that is not open.
LEMMA RetargetedProper ==
  ASSUME NEW r \in Receipts, NEW d \in Decisions, NEW row,
         d.phase = "current_turn" => Open(d.target),
         row.intent = rows[r].intent, row.phase = d.phase, row.target = d.target,
         row.input = "none"
  PROVE  Proper(r, row)
  BY DEF Proper, LeftAt

LEMMA CreateDeliverySafe ==
  ASSUME DeliveryInv, NEW h \in DeliveryHosts, CreateDelivery(h)
  PROVE  DeliveryInv'
  <1>1. PICK r \in Receipts : r = work[h].receipt
    BY AtWork DEF CreateDelivery
  <1>0. PICK d : d = work[h].decision
    OBVIOUS
  <1> DEFINE row == [rows[r] EXCEPT !.phase = d.phase, !.target = d.target, !.delivery = "pending"]
             w == Goes("wake", r)
  <1>2. rows[r] \in DeliveryRows /\ Fits(rows[r], reached[r]) /\ h \in alive /\ h # NoHost
        /\ rows[r].dispatchBy = h /\ rows[r].delivery = "none" /\ reached[r] \in Nat /\ d \in Decisions
    BY <1>1, <1>0, AtWork DEF CreateDelivery, Working, DispatchSteps, Works
  <1>3. row \in DeliveryRows
    BY <1>2 DEF DeliveryRows, Decisions
  <1>4. Fits(row, reached[r])
    BY <1>2 DEF DeliveryRows, Fits
  <1>5. rows[r].input = "none" /\ row.input = "none" /\ row.phase = d.phase /\ row.target = d.target
        /\ row.intent = rows[r].intent
    BY <1>2 DEF DeliveryRows, Fits
  <1>6. d.phase = "current_turn" => Open(d.target)
    BY <1>0, <1>1 DEF CreateDelivery, Authority
  <1>7. Proper(r, row)
    <2> HIDE DEF row
    <2> QED
      BY <1>2, <1>5, <1>6, RetargetedProper
  <1>8. \A g \in DeliveryHosts : g # h => Leaves(g, rows[r], row)
    BY <1>2 DEF Leaves, DeliveryRows
  <1>9. w \in Works(Steps) /\ w.receipt = r /\ Working(h, w, row)
    <2>1. "wake" \in DispatchSteps \ {"create"} /\ row.dispatchBy = h
      BY <1>2 DEF DispatchSteps, DeliveryRows
    <2> HIDE DEF row
    <2> QED
      BY <2>1, NextStep
  <1>10. rows' = [rows EXCEPT ![r] = row] /\ work' = [work EXCEPT ![h] = w]
    BY <1>0, <1>1, <1>2 DEF CreateDelivery, SetRow, Retargeted, Work, Goes, DeliveryRows
  <1>11. UNCHANGED <<alive, serving, turn, fenced, opened, loop, admission, reached, late>>
    BY DEF CreateDelivery
  <1> HIDE DEF row, w
  <1> QED
    BY <1>2, <1>3, <1>4, <1>5, <1>7, <1>8, <1>9, <1>10, <1>11, SameRow, SameLate, HostStep

\* A step on a row that leaves the work of every living Host alone.
LEMMA QuietStep ==
  ASSUME DeliveryInv, NEW r \in Receipts, NEW row \in DeliveryRows, NEW n \in Nat,
         rows' = [rows EXCEPT ![r] = row], reached' = [reached EXCEPT ![r] = n],
         Fits(row, n), Proper(r, row),
         \A g \in DeliveryHosts : g \in alive => Leaves(g, rows[r], row),
         UNCHANGED <<alive, serving, turn, fenced, opened, work, admission>>,
         late' \in [DeliveryHosts -> Works({"idle"} \cup LateSteps)],
         \A g \in DeliveryHosts : LateOK(g)',
         loop' \in Loops,
         (loop' = loop /\ (rows[r].input = "pending" => row.input = "pending")) \/ LoopOK'
  PROVE  DeliveryInv'
  <1>1. work' \in [DeliveryHosts -> Works(Steps)]
    BY DEF DeliveryInv, DeliveryTypeOK, Steps
  <1>2. \A g \in DeliveryHosts : work'[g] = work[g] /\ (work[g].step = "idle" \/ Leaves(g, rows[r], row))
    BY DEF DeliveryInv, WorkOK
  <1>3. LoopOK'
    <2>1. rows'[r] = row /\ \A s \in Receipts : s # r => rows'[s] = rows[s]
      BY DEF DeliveryInv, DeliveryTypeOK
    <2> QED
      BY <2>1 DEF DeliveryInv, DeliveryTypeOK, LoopOK, Loops
  <1> QED
    BY <1>1, <1>2, <1>3, RowStep

\* A wake is created once.
LEMMA WithWakeIs ==
  ASSUME NEW row \in DeliveryRows, NEW n, Fits(row, n), row.dispatch # "none"
  PROVE  /\ WithWake(row) \in DeliveryRows /\ Fits(WithWake(row), n)
         /\ WithWake(row).dispatchBy = row.dispatchBy /\ WithWake(row).wakeBy = row.wakeBy
         /\ WithWake(row).intent = row.intent /\ WithWake(row).input = row.input
         /\ WithWake(row).target = row.target /\ WithWake(row).phase = row.phase
         /\ WithWake(row).source = row.source /\ WithWake(row).delivery = row.delivery
  <1> DEFINE next == IF row.delivery = "failed" THEN "dead_letter" ELSE "pending"
             new == [row EXCEPT !.wake = next]
  <1>1. CASE row.wake = "none"
    <2>1. WithWake(row) = new
      BY <1>1 DEF WithWake
    <2>2. next \in {"pending", "dead_letter"}
      OBVIOUS
    <2> HIDE DEF next
    <2>3. new \in DeliveryRows
      BY <2>2 DEF DeliveryRows
    <2>4. Fits(new, n)
      BY <1>1, <2>2 DEF Fits, DeliveryRows
    <2> QED
      BY <2>1, <2>3, <2>4 DEF DeliveryRows
  <1>2. CASE row.wake # "none"
    BY <1>2 DEF WithWake
  <1> QED
    BY <1>1, <1>2

LEMMA EnsureWakeSafe ==
  ASSUME DeliveryInv, NEW h \in DeliveryHosts, EnsureWake(h)
  PROVE  DeliveryInv'
  <1>1. PICK r \in Receipts : r = work[h].receipt
    BY AtWork DEF EnsureWake
  <1>2. rows[r] \in DeliveryRows /\ Fits(rows[r], reached[r]) /\ h \in alive /\ h # NoHost
        /\ rows[r].dispatchBy = h /\ reached[r] \in Nat
    BY <1>1, AtWork DEF EnsureWake, Working, DispatchSteps
  <1>3. rows[r].dispatch # "none"
    BY <1>2 DEF Fits
  <1>4. PICK row : row = WithWake(rows[r])
    OBVIOUS
  <1>5. /\ row \in DeliveryRows /\ Fits(row, reached[r])
        /\ row.dispatchBy = h /\ row.input = rows[r].input
        /\ \A g \in DeliveryHosts : Leaves(g, rows[r], row)
    BY <1>2, <1>3, <1>4, WithWakeIs DEF Leaves
  <1>6. Proper(r, row)
    BY <1>2, <1>3, <1>4, WithWakeIs, ProperRow
  <1>7. "complete" \in DispatchSteps \ {"create"}
    BY DEF DispatchSteps
  <1>8. rows' = [rows EXCEPT ![r] = row] /\ work' = [work EXCEPT ![h] = Goes("complete", r)]
    BY <1>1, <1>4 DEF EnsureWake, SetRow, Row, Work, Goes
  <1>9. UNCHANGED <<alive, serving, turn, fenced, opened, loop, admission, reached, late>>
    BY DEF EnsureWake
  <1> QED
    <2>1. /\ Goes("complete", r) \in Works(Steps) /\ Goes("complete", r).receipt = r
          /\ Working(h, Goes("complete", r), row)
      <3>1. row.dispatchBy = h
        BY <1>5
      <3> QED
        BY <1>7, <3>1, NextStep
    <2> QED
      BY <1>2, <1>5, <1>6, <1>8, <1>9, <2>1, SameRow, SameLate, HostStep

LEMMA CompleteDispatchSafe ==
  ASSUME DeliveryInv, NEW h \in DeliveryHosts, CompleteDispatch(h)
  PROVE  DeliveryInv'
  <1>1. PICK r \in Receipts : r = work[h].receipt
    BY AtWork DEF CompleteDispatch
  <1> DEFINE row == [rows[r] EXCEPT !.dispatch = "completed", !.dispatchBy = NoHost]
  <1>2. rows[r] \in DeliveryRows /\ Fits(rows[r], reached[r]) /\ h \in alive /\ h # NoHost
        /\ rows[r].dispatchBy = h /\ reached[r] \in Nat
    BY <1>1, AtWork DEF CompleteDispatch, Working, DispatchSteps
  <1>3. row \in DeliveryRows
    BY <1>2 DEF DeliveryRows
  <1>4. Fits(row, reached[r])
    BY <1>2 DEF DeliveryRows, Fits
  <1>5. Proper(r, row) /\ row.input = rows[r].input
    <2>1. /\ row.intent = rows[r].intent /\ row.input = rows[r].input /\ row.source = rows[r].source
          /\ row.phase = rows[r].phase /\ row.target = rows[r].target /\ row.delivery = rows[r].delivery
      BY <1>2 DEF DeliveryRows
    <2> HIDE DEF row
    <2> QED
      BY <2>1, ProperRow
  <1>6. \A g \in DeliveryHosts : g # h => Leaves(g, rows[r], row)
    BY <1>2 DEF Leaves, DeliveryRows
  <1>7. rows' = [rows EXCEPT ![r] = row] /\ work' = [work EXCEPT ![h] = Idle]
    BY <1>1 DEF CompleteDispatch, SetRow, Row, WorkEnds
  <1>8. UNCHANGED <<alive, serving, turn, fenced, opened, loop, admission, reached, late>>
    BY DEF CompleteDispatch
  <1> HIDE DEF row
  <1> QED
    BY <1>2, <1>3, <1>4, <1>5, <1>6, <1>7, <1>8, NoneTypes, SameRow, SameLate, HostStep

LEMMA DispatchFailsSafe ==
  ASSUME DeliveryInv, NEW h \in DeliveryHosts, DispatchFails(h)
  PROVE  DeliveryInv'
  <1>1. PICK r \in Receipts : r = work[h].receipt
    BY AtWork DEF DispatchFails
  <1> DEFINE f == rows[r].dispatchFails + 1
             next == IF f = MaxFailures THEN "dead_letter" ELSE "pending"
             row == [rows[r] EXCEPT !.dispatch = next, !.dispatchBy = NoHost, !.dispatchFails = f]
  <1>2. rows[r] \in DeliveryRows /\ Fits(rows[r], reached[r]) /\ h \in alive /\ h # NoHost
        /\ rows[r].dispatchBy = h /\ reached[r] \in Nat
    BY <1>1, AtWork DEF DispatchFails, Working, DispatchSteps
  <1>3. f \in 0..MaxFailures /\ (next = "pending" => f < MaxFailures) /\ next \in {"pending", "dead_letter"}
    BY <1>2, DeliveryAssumption DEF DeliveryRows, Fits
  <1>10. rows' = [rows EXCEPT ![r] = row] /\ work' = [work EXCEPT ![h] = Idle]
    BY <1>1 DEF DispatchFails, SetRow, Row, WorkEnds
  <1> HIDE DEF f, next
  <1>4. row \in DeliveryRows
    BY <1>2, <1>3 DEF DeliveryRows
  <1>5. Fits(row, reached[r])
    BY <1>2, <1>3 DEF DeliveryRows, Fits
  <1>6. Proper(r, row) /\ row.input = rows[r].input
    <2>1. /\ row.intent = rows[r].intent /\ row.input = rows[r].input /\ row.source = rows[r].source
          /\ row.phase = rows[r].phase /\ row.target = rows[r].target /\ row.delivery = rows[r].delivery
      BY <1>2 DEF DeliveryRows
    <2> HIDE DEF row
    <2> QED
      BY <2>1, ProperRow
  <1>7. \A g \in DeliveryHosts : g # h => Leaves(g, rows[r], row)
    BY <1>2 DEF Leaves, DeliveryRows
  <1>8. UNCHANGED <<alive, serving, turn, fenced, opened, loop, admission, reached, late>>
    BY DEF DispatchFails
  <1> HIDE DEF row
  <1> QED
    BY <1>2, <1>4, <1>5, <1>6, <1>7, <1>8, <1>10, NoneTypes, SameRow, SameLate, HostStep

LEMMA RecoverWakeSafe ==
  ASSUME DeliveryInv, NEW h \in DeliveryHosts, NEW r \in Receipts, RecoverWake(h, r)
  PROVE  DeliveryInv'
  <1>1. rows[r] \in DeliveryRows /\ Fits(rows[r], reached[r]) /\ reached[r] \in Nat /\ loop \in Loops
    BY DEF DeliveryInv, DeliveryTypeOK
  <1>2. rows[r].dispatch # "none"
    BY <1>1 DEF RecoverWake, Fits
  <1>3. PICK row : row = WithWake(rows[r])
    OBVIOUS
  <1>4. /\ row \in DeliveryRows /\ Fits(row, reached[r]) /\ row.input = rows[r].input
        /\ \A g \in DeliveryHosts : Leaves(g, rows[r], row)
    BY <1>1, <1>2, <1>3, WithWakeIs DEF Leaves
  <1>5. Proper(r, row)
    BY <1>1, <1>2, <1>3, WithWakeIs, ProperRow
  <1>6. rows' = [rows EXCEPT ![r] = row]
    BY <1>3 DEF RecoverWake, SetRow
  <1>7. UNCHANGED <<alive, serving, turn, fenced, opened, loop, work, admission, reached, late>>
    BY DEF RecoverWake
  <1> QED
    BY <1>1, <1>4, <1>5, <1>6, <1>7, SameRow, SameLate, QuietStep

---------------------------------------------------------------------------
(* The wake of a delivery. *)

\* A wake that is released has no claim, and changes nothing else.
LEMMA ReleasedWakeIs ==
  ASSUME NEW row \in DeliveryRows, NEW n, Fits(row, n), row.wake = "claimed"
  PROVE  /\ ReleasedWake(row) \in DeliveryRows /\ Fits(ReleasedWake(row), n)
         /\ ReleasedWake(row).dispatchBy = row.dispatchBy
         /\ ReleasedWake(row).intent = row.intent /\ ReleasedWake(row).input = row.input
         /\ ReleasedWake(row).target = row.target /\ ReleasedWake(row).phase = row.phase
         /\ ReleasedWake(row).source = row.source /\ ReleasedWake(row).delivery = row.delivery
  <1> DEFINE new == [row EXCEPT !.wake = "pending", !.wakeBy = NoHost]
  <1>1. ReleasedWake(row) = new
    BY DEF ReleasedWake
  <1>2. new \in DeliveryRows
    BY DEF DeliveryRows
  <1>3. Fits(new, n)
    BY DEF DeliveryRows, Fits
  <1> QED
    BY <1>1, <1>2, <1>3 DEF DeliveryRows

\* What a Host that works on a wake knows.
LEMMA AtWake ==
  ASSUME DeliveryInv, NEW h \in DeliveryHosts, work[h].step \in WakeSteps
  PROVE  /\ h \in alive /\ h # NoHost /\ work[h] \in Works(Steps) /\ work[h].receipt \in Receipts
         /\ rows[work[h].receipt] \in DeliveryRows /\ reached[work[h].receipt] \in Nat
         /\ Fits(rows[work[h].receipt], reached[work[h].receipt])
         /\ rows[work[h].receipt].wakeBy = h /\ rows[work[h].receipt].wake = "claimed"
         /\ rows[work[h].receipt].source \in Turns
  <1>1. work[h].step # "idle"
    BY DEF WakeSteps, LateSteps
  <1>2. rows[work[h].receipt].wakeBy = h /\ h # NoHost
    BY <1>1, AtWork DEF Working
  <1> QED
    BY <1>1, <1>2, AtWork DEF Fits

\* A Host that goes on with the wake of its row and leaves the rows alone.
LEMMA WakeGoesOn ==
  ASSUME DeliveryInv, NEW h \in DeliveryHosts, work[h].step \in WakeSteps, NEW step \in WakeSteps,
         Work(h, step),
         UNCHANGED <<alive, serving, turn, fenced, opened, loop, admission, rows, reached, late>>
  PROVE  DeliveryInv'
  <1>1. PICK r \in Receipts : r = work[h].receipt
    BY AtWake
  <1>2. rows[r].wakeBy = h /\ h \in alive
    BY <1>1, AtWake
  <1>3. /\ Goes(step, r) \in Works(Steps) /\ Goes(step, r).receipt = r
        /\ Working(h, Goes(step, r), rows[r])
    BY <1>2, NextStep
  <1>4. work' = [work EXCEPT ![h] = Goes(step, r)]
    BY <1>1 DEF Work, Goes
  <1> QED
    BY <1>2, <1>3, <1>4, WorkStep

\* A Host that gives the claim of its row back.
LEMMA WakeReleased ==
  ASSUME DeliveryInv, NEW h \in DeliveryHosts, work[h].step \in WakeSteps,
         NEW r \in Receipts, r = work[h].receipt, NEW row \in DeliveryRows,
         Fits(row, reached[r]), row.dispatchBy = rows[r].dispatchBy,
         row.intent = rows[r].intent, row.input = rows[r].input, row.source = rows[r].source,
         row.phase = rows[r].phase, row.target = rows[r].target,
         row.delivery = "pending" => rows[r].delivery = "pending",
         rows[r].delivery = "none" => row.delivery = "none",
         rows' = [rows EXCEPT ![r] = row], WorkEnds(h),
         late' = late \/ (work[h].step \in LateSteps /\ late' = [late EXCEPT ![h] = work[h]]),
         UNCHANGED <<alive, serving, turn, fenced, opened, loop, admission, reached>>
  PROVE  DeliveryInv'
  <1>1. rows[r].wakeBy = h /\ work[h] \in Works(Steps)
    BY AtWake
  <1>2. Proper(r, row)
    BY ProperRow
  <1>3. \A g \in DeliveryHosts : g # h => Leaves(g, rows[r], row)
    BY <1>1 DEF Leaves
  <1>4. late' \in [DeliveryHosts -> Works({"idle"} \cup LateSteps)] /\ \A g \in DeliveryHosts : LateOK(g)'
    <2>1. CASE late' = late
      BY <2>1, SameLate
    <2>2. CASE work[h].step \in LateSteps /\ late' = [late EXCEPT ![h] = work[h]]
      <3>1. work[h] \in Works({"idle"} \cup LateSteps)
        BY <1>1, <2>2 DEF Works
      <3>2. late \in [DeliveryHosts -> Works({"idle"} \cup LateSteps)]
        BY DEF DeliveryInv, DeliveryTypeOK
      <3>3. \A g \in DeliveryHosts : late'[g] = IF g = h THEN work[h] ELSE late[g]
        BY <2>2, <3>2
      <3> QED
        BY <2>2, <3>1, <3>2, <3>3 DEF DeliveryInv, LateOK
    <2> QED
      BY <2>1, <2>2
  <1>5. work' = [work EXCEPT ![h] = Idle] /\ row.input = rows[r].input /\ Fits(row, reached[r])
    BY DEF WorkEnds
  <1>6. PICK n \in Nat : n = reached[r] /\ reached' = [reached EXCEPT ![r] = n]
    BY SameRow
  <1>7. PICK w \in Works(Steps) : w = Idle /\ w.step = "idle"
    BY NoneTypes
  <1>8. work' = [work EXCEPT ![h] = w] /\ Fits(row, n) /\ Proper(r, row) /\ row.input = rows[r].input
    BY <1>2, <1>5, <1>6, <1>7
  <1>9. UNCHANGED <<alive, serving, turn, fenced, opened, loop, admission>>
    OBVIOUS
  <1>10. /\ rows' = [rows EXCEPT ![r] = row] /\ reached' = [reached EXCEPT ![r] = n]
         /\ Fits(row, n) /\ Proper(r, row) /\ (rows[r].input = "pending" => row.input = "pending")
         /\ work' = [work EXCEPT ![h] = w]
    BY <1>6, <1>8
  <1>11. (w.step # "idle" => h \in alive /\ w.receipt = r /\ Working(h, w, row))
         /\ (\A g \in DeliveryHosts : g # h /\ g \in alive => Leaves(g, rows[r], row))
    BY <1>3, <1>7
  <1> QED
    BY <1>4, <1>9, <1>10, <1>11, HostStep

LEMMA DecideWakeSafe ==
  ASSUME DeliveryInv, NEW h \in DeliveryHosts, DecideWake(h)
  PROVE  DeliveryInv'
  <1>1. work[h].step \in WakeSteps
    BY DEF DecideWake, WakeSteps
  <1>2. PICK r \in Receipts : r = work[h].receipt
    BY <1>1, AtWake
  <1>3. /\ h \in alive /\ work[h] \in Works(Steps) /\ rows[r] \in DeliveryRows
        /\ rows[r].wakeBy = h /\ rows[r].source \in Turns
    BY <1>1, <1>2, AtWake
  <1>4. UNCHANGED <<alive, serving, turn, fenced, opened, loop, admission, rows, reached, late>>
    BY DEF DecideWake
  <1>5. CASE rows[r].delivery = "pending"
    <2>1. PICK d \in Decision(r) :
             work' = [work EXCEPT ![h].step = "apply", ![h].decision = d,
                                  ![h].read = <<rows[r].phase, rows[r].target>>]
      BY <1>2, <1>5 DEF DecideWake, Row
    <2>2. d \in Decisions
      BY <1>3, DecisionIs DEF DeliveryInv
    <2> DEFINE w == [work[h] EXCEPT !.step = "apply", !.decision = d,
                                    !.read = <<rows[r].phase, rows[r].target>>]
    <2>3. <<rows[r].phase, rows[r].target>> \in Phases \X (Turns \cup {0})
      BY <1>3 DEF DeliveryRows
    <2>4. w \in Works(Steps)
      BY <1>3, <2>2, <2>3 DEF Works, Steps, WakeSteps
    <2>5. w.step = "apply" /\ w.receipt = r
      BY <1>2, <1>3 DEF Works
    <2>6. work' = [work EXCEPT ![h] = w]
      BY <2>1 DEF DeliveryInv, DeliveryTypeOK
    <2> HIDE DEF w
    <2>7. Working(h, w, rows[r])
      BY <1>3, <2>5 DEF Working, DispatchSteps
    <2> QED
      BY <1>3, <1>4, <2>4, <2>5, <2>6, <2>7, WorkStep
  <1>6. CASE rows[r].delivery # "pending"
    <2>1. "act" \in WakeSteps /\ Work(h, "act")
      BY <1>2, <1>6 DEF DecideWake, Row, WakeSteps
    <2> QED
      BY <1>1, <1>4, <2>1, WakeGoesOn
  <1> QED
    BY <1>5, <1>6

LEMMA ApplyDecisionSafe ==
  ASSUME DeliveryInv, NEW h \in DeliveryHosts, ApplyDecision(h)
  PROVE  DeliveryInv'
  <1>1. work[h].step \in WakeSteps
    BY DEF ApplyDecision, WakeSteps
  <1>2. PICK r \in Receipts : r = work[h].receipt
    BY <1>1, AtWake
  <1>3. PICK d : d = work[h].decision
    OBVIOUS
  <1> DEFINE row == [rows[r] EXCEPT !.phase = d.phase, !.target = d.target]
  <1>4. /\ h \in alive /\ d \in Decisions /\ rows[r] \in DeliveryRows /\ reached[r] \in Nat
        /\ Fits(rows[r], reached[r]) /\ rows[r].wakeBy = h
    BY <1>1, <1>2, <1>3, AtWake DEF Works
  <1>5. rows[r].delivery = "pending" /\ (d.phase = "current_turn" => Open(d.target))
    BY <1>2, <1>3 DEF ApplyDecision, StillDecided, AsRead, Authority, Row
  <1>6. row \in DeliveryRows
    BY <1>4 DEF DeliveryRows, Decisions
  <1>7. Fits(row, reached[r])
    BY <1>4 DEF DeliveryRows, Fits
  <1>8. /\ row.input = "none" /\ row.phase = d.phase /\ row.target = d.target
        /\ row.intent = rows[r].intent /\ row.wakeBy = h /\ rows[r].input = "none"
    BY <1>4, <1>5 DEF DeliveryRows, Fits
  <1>9. \A g \in DeliveryHosts : Leaves(g, rows[r], row)
    BY <1>4 DEF Leaves, DeliveryRows
  <1>10. rows' = [rows EXCEPT ![r] = row] /\ work' = [work EXCEPT ![h] = Goes("act", r)]
    BY <1>2, <1>3 DEF ApplyDecision, SetRow, Retargeted, Work, Goes
  <1> HIDE DEF row
  <1>11. Proper(r, row)
    BY <1>4, <1>5, <1>8, RetargetedProper
  <1>12. UNCHANGED <<alive, serving, turn, fenced, opened, loop, admission, reached, late>>
    BY DEF ApplyDecision
  <1>13. "act" \in WakeSteps
    BY DEF WakeSteps
  <1>14. /\ Goes("act", r) \in Works(Steps) /\ Goes("act", r).receipt = r
         /\ Working(h, Goes("act", r), row)
    BY <1>8, <1>13, NextStep
  <1> QED
    BY <1>4, <1>6, <1>7, <1>8, <1>9, <1>10, <1>11, <1>12, <1>14, SameRow, SameLate, HostStep

LEMMA DecisionLostSafe ==
  ASSUME DeliveryInv, NEW h \in DeliveryHosts, DecisionLost(h)
  PROVE  DeliveryInv'
  <1>1. work[h].step \in WakeSteps /\ "decide" \in WakeSteps
    BY DEF DecisionLost, WakeSteps
  <1>2. PICK r \in Receipts : r = work[h].receipt
    BY <1>1, AtWake
  <1>3. UNCHANGED <<alive, serving, turn, fenced, opened, loop, admission, reached, late>>
    BY DEF DecisionLost
  <1>4. CASE AsRead(h)
    BY <1>1, <1>3, <1>4, WakeGoesOn DEF DecisionLost
  <1>5. CASE ~AsRead(h)
    <2>1. PICK row : row = ReleasedWake(rows[r])
      OBVIOUS
    <2>2. rows' = [rows EXCEPT ![r] = row] /\ WorkEnds(h)
      BY <1>2, <1>5, <2>1 DEF DecisionLost, SetRow, Row
    <2>3. /\ rows[r] \in DeliveryRows /\ Fits(rows[r], reached[r]) /\ rows[r].wake = "claimed"
      BY <1>1, <1>2, AtWake
    <2>4. /\ row \in DeliveryRows /\ Fits(row, reached[r]) /\ row.dispatchBy = rows[r].dispatchBy
          /\ row.intent = rows[r].intent /\ row.input = rows[r].input /\ row.source = rows[r].source
          /\ row.phase = rows[r].phase /\ row.target = rows[r].target
          /\ row.delivery = rows[r].delivery
      BY <2>1, <2>3, ReleasedWakeIs
    <2> QED
      BY <1>1, <1>2, <1>3, <2>2, <2>4, WakeReleased
  <1> QED
    BY <1>4, <1>5

LEMMA ActSafe ==
  ASSUME DeliveryInv, NEW h \in DeliveryHosts, Act(h)
  PROVE  DeliveryInv'
  <1>1. work[h].step \in WakeSteps
    BY DEF Act, WakeSteps
  <1>2. PICK step \in WakeSteps : Work(h, step)
    BY DEF Act, WakeSteps, LateSteps
  <1> QED
    BY <1>1, <1>2, WakeGoesOn DEF Act

\* The notice is the commit that consumes a pending delivery; a delivery that is not pending stays.
LEMMA NotifiedIs ==
  ASSUME DeliveryInv, NEW r \in Receipts, Notified(r)
  PROVE  \E row \in DeliveryRows, n \in Nat :
            /\ rows' = [rows EXCEPT ![r] = row] /\ reached' = [reached EXCEPT ![r] = n]
            /\ Fits(row, n) /\ Proper(r, row) /\ row.input = rows[r].input
            /\ row.wakeBy = rows[r].wakeBy /\ row.dispatchBy = rows[r].dispatchBy
            /\ \A g \in DeliveryHosts : Leaves(g, rows[r], row)
  <1>1. rows[r] \in DeliveryRows /\ reached[r] \in Nat /\ Fits(rows[r], reached[r])
    BY DEF DeliveryInv, DeliveryTypeOK
  <1>2. CASE rows[r].delivery = "pending"
    <2> DEFINE row == [rows[r] EXCEPT !.delivery = "consumed"]
    <2>1. row \in DeliveryRows
      BY <1>1 DEF DeliveryRows
    <2>2. Fits(row, 1) /\ reached[r] = 0 /\ rows[r].input = "none"
      BY <1>1, <1>2 DEF DeliveryRows, Fits
    <2>3. /\ row.intent = rows[r].intent /\ row.input = rows[r].input /\ row.source = rows[r].source
          /\ row.phase = rows[r].phase /\ row.target = rows[r].target /\ row.delivery = "consumed"
          /\ row.wakeBy = rows[r].wakeBy /\ row.dispatchBy = rows[r].dispatchBy
      BY <1>1 DEF DeliveryRows
    <2>4. rows' = [rows EXCEPT ![r] = row] /\ reached' = [reached EXCEPT ![r] = 1]
      BY <1>2, <2>2 DEF Notified, SetRow
    <2> HIDE DEF row
    <2>5. Proper(r, row) /\ \A g \in DeliveryHosts : Leaves(g, rows[r], row)
      BY <1>2, <2>3, ProperRow DEF Leaves
    <2> QED
      BY <2>1, <2>2, <2>3, <2>4, <2>5
  <1>3. CASE rows[r].delivery # "pending"
    <2>1. UNCHANGED <<rows, reached>>
      BY <1>3 DEF Notified
    <2> QED
      BY <1>1, <2>1, SameRow
  <1> QED
    BY <1>2, <1>3

LEMMA NotifySafe ==
  ASSUME DeliveryInv, NEW h \in DeliveryHosts, Notify(h)
  PROVE  DeliveryInv'
  <1>1. work[h].step \in WakeSteps /\ "acknowledge" \in WakeSteps
    BY DEF Notify, WakeSteps, LateSteps
  <1>2. PICK r \in Receipts : r = work[h].receipt
    BY <1>1, AtWake
  <1>3. h \in alive /\ rows[r].wakeBy = h
    BY <1>1, <1>2, AtWake
  <1>4. PICK row \in DeliveryRows, n \in Nat :
            /\ rows' = [rows EXCEPT ![r] = row] /\ reached' = [reached EXCEPT ![r] = n]
            /\ Fits(row, n) /\ Proper(r, row) /\ row.input = rows[r].input
            /\ row.wakeBy = rows[r].wakeBy /\ row.dispatchBy = rows[r].dispatchBy
            /\ \A g \in DeliveryHosts : Leaves(g, rows[r], row)
    BY <1>2, NotifiedIs DEF Notify
  <1>5. work' = [work EXCEPT ![h] = Goes("acknowledge", r)]
    BY <1>2 DEF Notify, Work, Goes
  <1>6. /\ Goes("acknowledge", r) \in Works(Steps) /\ Goes("acknowledge", r).receipt = r
        /\ Working(h, Goes("acknowledge", r), row)
    BY <1>1, <1>3, <1>4, NextStep
  <1>7. UNCHANGED <<alive, serving, turn, fenced, opened, loop, admission, late>>
    BY DEF Notify
  <1> QED
    BY <1>3, <1>4, <1>5, <1>6, <1>7, SameLate, HostStep

LEMMA ResumeSafe ==
  ASSUME DeliveryInv, NEW h \in DeliveryHosts, Resume(h)
  PROVE  DeliveryInv'
  <1>1. work[h].step \in WakeSteps /\ "acknowledge" \in WakeSteps
    BY DEF Resume, WakeSteps
  <1>2. PICK r \in Receipts : r = work[h].receipt
    BY <1>1, AtWake
  <1>3. UNCHANGED <<alive, serving, turn, fenced, opened, loop, admission, reached, late>>
    BY DEF Resume
  <1>4. CASE Row(h).input = "consumed"
    BY <1>1, <1>3, <1>4, WakeGoesOn DEF Resume
  <1>5. CASE Row(h).input # "consumed"
    <2>1. PICK row : row = ReleasedWake(rows[r])
      OBVIOUS
    <2>2. rows' = [rows EXCEPT ![r] = row] /\ WorkEnds(h)
      BY <1>2, <1>5, <2>1 DEF Resume, SetRow, Row
    <2>3. /\ rows[r] \in DeliveryRows /\ Fits(rows[r], reached[r]) /\ rows[r].wake = "claimed"
      BY <1>1, <1>2, AtWake
    <2>4. /\ row \in DeliveryRows /\ Fits(row, reached[r]) /\ row.dispatchBy = rows[r].dispatchBy
          /\ row.intent = rows[r].intent /\ row.input = rows[r].input /\ row.source = rows[r].source
          /\ row.phase = rows[r].phase /\ row.target = rows[r].target
          /\ row.delivery = rows[r].delivery
      BY <2>1, <2>3, ReleasedWakeIs
    <2> QED
      BY <1>1, <1>2, <1>3, <2>2, <2>4, WakeReleased
  <1> QED
    BY <1>4, <1>5

LEMMA AcknowledgeWakeSafe ==
  ASSUME DeliveryInv, NEW h \in DeliveryHosts, AcknowledgeWake(h)
  PROVE  DeliveryInv'
  <1>1. work[h].step \in WakeSteps
    BY DEF AcknowledgeWake, WakeSteps
  <1>2. PICK r \in Receipts : r = work[h].receipt
    BY <1>1, AtWake
  <1> DEFINE row == [rows[r] EXCEPT !.wake = "acknowledged", !.wakeBy = NoHost]
  <1>3. /\ rows[r] \in DeliveryRows /\ Fits(rows[r], reached[r]) /\ rows[r].wake = "claimed"
    BY <1>1, <1>2, AtWake
  <1>4. row \in DeliveryRows
    BY <1>3 DEF DeliveryRows
  <1>5. Fits(row, reached[r])
    BY <1>3 DEF DeliveryRows, Fits
  <1>6. /\ row.intent = rows[r].intent /\ row.input = rows[r].input /\ row.source = rows[r].source
        /\ row.phase = rows[r].phase /\ row.target = rows[r].target /\ row.delivery = rows[r].delivery
        /\ row.dispatchBy = rows[r].dispatchBy
    BY <1>3 DEF DeliveryRows
  <1>7. rows' = [rows EXCEPT ![r] = row] /\ WorkEnds(h)
    BY <1>2 DEF AcknowledgeWake, SetRow, Row
  <1>8. UNCHANGED <<alive, serving, turn, fenced, opened, loop, admission, reached, late>>
    BY DEF AcknowledgeWake
  <1> HIDE DEF row
  <1> QED
    BY <1>1, <1>2, <1>4, <1>5, <1>6, <1>7, <1>8, WakeReleased

LEMMA WakeTimesOutSafe ==
  ASSUME DeliveryInv, NEW h \in DeliveryHosts, WakeTimesOut(h)
  PROVE  DeliveryInv'
  <1>1. work[h].step \in WakeSteps /\ work[h].step \in LateSteps
    BY DEF WakeTimesOut, WakeSteps, LateSteps
  <1>2. PICK r \in Receipts : r = work[h].receipt
    BY <1>1, AtWake
  <1>3. /\ rows[r] \in DeliveryRows /\ Fits(rows[r], reached[r]) /\ rows[r].wake = "claimed"
        /\ reached[r] \in Nat
    BY <1>1, <1>2, AtWake
  <1>4. PICK row : row = FailedWake(rows[r])
    OBVIOUS
  <1>5. rows' = [rows EXCEPT ![r] = row] /\ WorkEnds(h) /\ late' = [late EXCEPT ![h] = work[h]]
    BY <1>2, <1>4 DEF WakeTimesOut, SetRow, Row
  <1>6. UNCHANGED <<alive, serving, turn, fenced, opened, loop, admission, reached>>
    BY DEF WakeTimesOut
  <1>7. /\ row \in DeliveryRows /\ Fits(row, reached[r]) /\ row.dispatchBy = rows[r].dispatchBy
        /\ row.intent = rows[r].intent /\ row.input = rows[r].input /\ row.source = rows[r].source
        /\ row.phase = rows[r].phase /\ row.target = rows[r].target
        /\ (row.delivery = "pending" => rows[r].delivery = "pending")
        /\ (rows[r].delivery = "none" => row.delivery = "none")
    BY <1>3, <1>4, FailedWakeIs
  <1> QED
    BY <1>1, <1>2, <1>5, <1>6, <1>7, WakeReleased

---------------------------------------------------------------------------
(* Admission. *)

LEMMA PreparedIs ==
  ASSUME NEW S, NEW T, NEW w \in Works(S), NEW step \in T, NEW start \in Receipts \cup {0}
  PROVE  /\ Prepared(w, step, start) \in Works(T)
         /\ Prepared(w, step, start).step = step /\ Prepared(w, step, start).receipt = start
  BY DEF Prepared, Works, Waiting, Queued

LEMMA PrepareContinuationSafe ==
  ASSUME DeliveryInv, NEW h \in DeliveryHosts, PrepareContinuation(h)
  PROVE  DeliveryInv'
  <1>1. /\ work[h].step \in WakeSteps /\ "acknowledge" \in WakeSteps
        /\ "continue" \in WakeSteps /\ "continue" \in Steps
    BY DEF PrepareContinuation, WakeSteps, LateSteps, Steps
  <1>2. UNCHANGED <<alive, serving, turn, fenced, opened, loop, admission, rows, reached, late>>
    BY DEF PrepareContinuation
  <1>3. CASE Row(h).intent # "none"
    BY <1>1, <1>2, <1>3, WakeGoesOn DEF PrepareContinuation
  <1>4. CASE Row(h).intent = "none"
    <2>1. PICK r \in Receipts : r = work[h].receipt
      BY <1>1, AtWake
    <2>2. h \in alive /\ rows[r].wakeBy = h /\ work[h] \in Works(Steps)
      BY <1>1, <2>1, AtWake
    <2>3. PICK w : w = Prepared(work[h], "continue", r)
      OBVIOUS
    <2>4. w \in Works(Steps) /\ w.step = "continue" /\ w.receipt = r
      BY <1>1, <2>2, <2>3, PreparedIs
    <2>5. Working(h, w, rows[r])
      BY <2>2, <2>4 DEF Working, DispatchSteps
    <2>6. work' = [work EXCEPT ![h] = w]
      BY <1>4, <2>1, <2>3 DEF PrepareContinuation
    <2> QED
      BY <1>2, <2>2, <2>4, <2>5, <2>6, WorkStep
  <1> QED
    BY <1>3, <1>4

LEMMA ContinueFailsSafe ==
  ASSUME DeliveryInv, NEW h \in DeliveryHosts, ContinueFails(h)
  PROVE  DeliveryInv'
  <1>1. work[h].step \in WakeSteps /\ "acknowledge" \in WakeSteps
    BY DEF ContinueFails, WakeSteps, LateSteps
  <1>2. UNCHANGED <<alive, serving, turn, fenced, opened, loop, admission, reached, late>>
    BY DEF ContinueFails
  <1>3. CASE Row(h).intent # "none"
    BY <1>1, <1>2, <1>3, WakeGoesOn DEF ContinueFails
  <1>4. CASE Row(h).intent = "none"
    <2>1. PICK r \in Receipts : r = work[h].receipt
      BY <1>1, AtWake
    <2>2. PICK row : row = FailedWake(rows[r])
      OBVIOUS
    <2>3. rows' = [rows EXCEPT ![r] = row] /\ WorkEnds(h)
      BY <1>4, <2>1, <2>2 DEF ContinueFails, SetRow, Row
    <2>4. /\ rows[r] \in DeliveryRows /\ Fits(rows[r], reached[r]) /\ rows[r].wake = "claimed"
          /\ reached[r] \in Nat
      BY <1>1, <2>1, AtWake
    <2>5. /\ row \in DeliveryRows /\ Fits(row, reached[r]) /\ row.dispatchBy = rows[r].dispatchBy
          /\ row.intent = rows[r].intent /\ row.input = rows[r].input /\ row.source = rows[r].source
          /\ row.phase = rows[r].phase /\ row.target = rows[r].target
          /\ (row.delivery = "pending" => rows[r].delivery = "pending")
          /\ (rows[r].delivery = "none" => row.delivery = "none")
      BY <2>2, <2>4, FailedWakeIs
    <2> QED
      BY <1>1, <1>2, <2>1, <2>3, <2>5, WakeReleased
  <1> QED
    BY <1>3, <1>4

\* A step of a late handler that leaves the rows alone.
LEMMA LateGoesOn ==
  ASSUME DeliveryInv, NEW h \in DeliveryHosts, NEW l \in Works({"idle"} \cup LateSteps),
         late' = [late EXCEPT ![h] = l], l.step # "idle" => l.receipt \in Receipts
  PROVE  /\ late' \in [DeliveryHosts -> Works({"idle"} \cup LateSteps)]
         /\ \A g \in DeliveryHosts : LateOK(g)'
  BY DEF DeliveryInv, DeliveryTypeOK, LateOK

\* A step that changes no row and no work.
LEMMA IdleStep ==
  ASSUME DeliveryInv, UNCHANGED <<alive, turn, fenced, opened, rows, reached, work>>,
         late' \in [DeliveryHosts -> Works({"idle"} \cup LateSteps)],
         \A g \in DeliveryHosts : LateOK(g)',
         serving' \in alive \cup {NoHost},
         loop' \in Loops, LoopOK',
         admission' \in Works({"idle", "input", "queued"}), AdmissionOK'
  PROVE  DeliveryInv'
  <1>1. DeliveryTypeOK'
    BY DEF DeliveryInv, DeliveryTypeOK
  <1>2. \A h \in DeliveryHosts : WorkOK(h)'
    BY DEF DeliveryInv, WorkOK
  <1>3. \A t \in Turns : TurnOK(t)'
    BY DEF DeliveryInv, TurnOK, Open
  <1> QED
    BY <1>1, <1>2, <1>3 DEF DeliveryInv

LEMMA SameRest ==
  ASSUME DeliveryInv
  PROVE  /\ UNCHANGED serving /\ UNCHANGED alive => serving' \in alive \cup {NoHost}
         /\ UNCHANGED <<loop, rows>> => loop' \in Loops /\ LoopOK'
         /\ UNCHANGED admission => admission' \in Works({"idle", "input", "queued"}) /\ AdmissionOK'
  BY DEF DeliveryInv, DeliveryTypeOK, LoopOK, AdmissionOK

LEMMA LatePrepareSafe ==
  ASSUME DeliveryInv, NEW h \in DeliveryHosts, LatePrepare(h)
  PROVE  DeliveryInv'
  <1>1. PICK r \in Receipts : r = late[h].receipt
    BY DEF DeliveryInv, LateOK, LatePrepare
  <1>2. PICK l : l = Prepared(late[h], "continue", r)
    OBVIOUS
  <1>3. late[h] \in Works({"idle"} \cup LateSteps) /\ "continue" \in {"idle"} \cup LateSteps
    BY DEF DeliveryInv, DeliveryTypeOK, LateSteps
  <1>4. l \in Works({"idle"} \cup LateSteps) /\ l.receipt = r
    <2> DEFINE All == {"idle"} \cup LateSteps
    <2>1. late[h] \in Works(All) /\ "continue" \in All /\ r \in Receipts \cup {0}
      BY <1>3
    <2> HIDE DEF All
    <2>2. l \in Works(All) /\ l.receipt = r
      BY <1>2, <2>1, PreparedIs
    <2> QED
      BY <2>2 DEF All
  <1>5. late' = [late EXCEPT ![h] = l]
    BY <1>1, <1>2 DEF LatePrepare
  <1> QED
    BY <1>4, <1>5, LateGoesOn, SameRest, IdleStep DEF LatePrepare

LEMMA LateNotifySafe ==
  ASSUME DeliveryInv, NEW h \in DeliveryHosts, LateNotify(h)
  PROVE  DeliveryInv'
  <1>1. PICK r \in Receipts : r = late[h].receipt
    BY DEF DeliveryInv, LateOK, LateNotify
  <1>2. PICK row \in DeliveryRows, n \in Nat :
            /\ rows' = [rows EXCEPT ![r] = row] /\ reached' = [reached EXCEPT ![r] = n]
            /\ Fits(row, n) /\ Proper(r, row) /\ row.input = rows[r].input
            /\ row.wakeBy = rows[r].wakeBy /\ row.dispatchBy = rows[r].dispatchBy
            /\ \A g \in DeliveryHosts : Leaves(g, rows[r], row)
    BY <1>1, NotifiedIs DEF LateNotify
  <1>3. UNCHANGED <<alive, serving, turn, fenced, opened, loop, work, admission>>
    BY DEF LateNotify
  <1>4. /\ late' \in [DeliveryHosts -> Works({"idle"} \cup LateSteps)]
        /\ \A g \in DeliveryHosts : LateOK(g)'
    BY NoneTypes, LateGoesOn DEF LateNotify
  <1>5. loop' \in Loops
    BY <1>3 DEF DeliveryInv, DeliveryTypeOK
  <1> QED
    BY <1>2, <1>3, <1>4, <1>5, QuietStep

LEMMA PrepareSafe ==
  ASSUME DeliveryInv, NEW h \in DeliveryHosts,
         PrepareInput(h) \/ \E r \in Receipts : PrepareQueued(h, r)
  PROVE  DeliveryInv'
  <1>1. UNCHANGED <<alive, serving, turn, fenced, opened, loop, rows, reached, work, late>>
    BY DEF PrepareInput, PrepareQueued
  <1>2. admission' \in Works({"idle", "input", "queued"}) /\ AdmissionOK'
    <2>1. CASE PrepareInput(h)
      <3>1. admission' = Prepared(Idle, "input", 0)
        BY <2>1 DEF PrepareInput
      <3> QED
        BY <3>1, NoneTypes, PreparedIs DEF AdmissionOK
    <2>2. ASSUME NEW r \in Receipts, PrepareQueued(h, r)
          PROVE  admission' \in Works({"idle", "input", "queued"}) /\ AdmissionOK'
      <3>1. admission' = Prepared(Idle, "queued", r)
        BY <2>2 DEF PrepareQueued
      <3> QED
        BY <3>1, NoneTypes, PreparedIs DEF AdmissionOK
    <2> QED
      BY <2>1, <2>2
  <1> QED
    BY <1>1, <1>2, SameLate, SameRest, IdleStep

LEMMA CancelSupersededSafe ==
  ASSUME DeliveryInv, NEW h \in DeliveryHosts, NEW r \in Receipts, CancelSuperseded(h, r)
  PROVE  DeliveryInv'
  <1> DEFINE row == [rows[r] EXCEPT !.intent = "cancelled"]
  <1>1. /\ rows[r] \in DeliveryRows /\ reached[r] \in Nat /\ Fits(rows[r], reached[r])
        /\ rows[r].intent = "queued" /\ loop \in Loops
    BY DEF DeliveryInv, DeliveryTypeOK, CancelSuperseded, Queued
  <1>2. row \in DeliveryRows
    BY <1>1 DEF DeliveryRows
  <1>3. Fits(row, reached[r])
    BY <1>1 DEF DeliveryRows, Fits
  <1>4. /\ row.input = rows[r].input /\ row.source = rows[r].source
        /\ row.phase = rows[r].phase /\ row.target = rows[r].target /\ row.delivery = rows[r].delivery
        /\ row.dispatchBy = rows[r].dispatchBy /\ row.wakeBy = rows[r].wakeBy
    BY <1>1 DEF DeliveryRows
  <1>5. rows' = [rows EXCEPT ![r] = row]
    BY DEF CancelSuperseded, SetRow
  <1>6. UNCHANGED <<alive, serving, turn, fenced, opened, loop, work, admission, reached, late>>
    BY DEF CancelSuperseded
  <1> HIDE DEF row
  <1>7. Proper(r, row) /\ \A g \in DeliveryHosts : Leaves(g, rows[r], row)
    BY <1>1, <1>4, ProperRow DEF Leaves
  <1> QED
    BY <1>1, <1>2, <1>3, <1>4, <1>5, <1>6, <1>7, SameRow, SameLate, QuietStep

---------------------------------------------------------------------------
(* The ends of processes, and the claims. *)

LEMMA ProcessEndsSafe ==
  ASSUME DeliveryInv, NEW r \in Receipts, NEW t \in Turns, ProcessEnds(r, t)
  PROVE  DeliveryInv'
  <1> DEFINE row == [rows[r] EXCEPT !.source = t, !.dispatch = "pending"]
  <1>1. /\ rows[r] \in DeliveryRows /\ reached[r] \in Nat /\ Fits(rows[r], reached[r])
        /\ rows[r].dispatch = "none" /\ loop \in Loops
    BY DEF DeliveryInv, DeliveryTypeOK, ProcessEnds
  <1>2. row \in DeliveryRows
    BY <1>1 DEF DeliveryRows
  <1>3. rows[r].delivery = "none" /\ rows[r].input = "none" /\ rows[r].dispatchBy = NoHost
    BY <1>1 DEF Fits
  <1>4. Fits(row, reached[r])
    BY <1>1 DEF DeliveryRows, Fits
  <1>5. /\ row.input = "none" /\ row.delivery = "none" /\ row.intent = rows[r].intent
        /\ row.dispatchBy = rows[r].dispatchBy /\ row.wakeBy = rows[r].wakeBy
    BY <1>1, <1>3 DEF DeliveryRows
  <1>6. rows' = [rows EXCEPT ![r] = row]
    BY DEF ProcessEnds, SetRow
  <1>7. UNCHANGED <<alive, serving, turn, fenced, opened, loop, work, admission, reached, late>>
    BY DEF ProcessEnds
  <1> HIDE DEF row
  <1>8. Proper(r, row) /\ \A g \in DeliveryHosts : Leaves(g, rows[r], row)
    BY <1>5 DEF Leaves, Proper, LeftAt
  <1> QED
    BY <1>1, <1>2, <1>3, <1>4, <1>5, <1>6, <1>7, <1>8, SameRow, SameLate, QuietStep

\* A claim is fenced only when its Host is gone, so no living Host loses one.
LEMMA FenceClaimSafe ==
  ASSUME DeliveryInv, NEW h \in DeliveryHosts, NEW r \in Receipts, FenceClaim(h, r)
  PROVE  DeliveryInv'
  <1>1. /\ rows[r] \in DeliveryRows /\ reached[r] \in Nat /\ Fits(rows[r], reached[r]) /\ loop \in Loops
    BY DEF DeliveryInv, DeliveryTypeOK
  <1>2. UNCHANGED <<alive, serving, turn, fenced, opened, loop, work, admission, reached, late>>
    BY DEF FenceClaim
  <1>3. \E row \in DeliveryRows :
           /\ rows' = [rows EXCEPT ![r] = row] /\ Fits(row, reached[r])
           /\ row.intent = rows[r].intent /\ row.input = rows[r].input /\ row.source = rows[r].source
           /\ row.phase = rows[r].phase /\ row.target = rows[r].target
           /\ row.delivery = rows[r].delivery
           /\ \A g \in DeliveryHosts : g \in alive => Leaves(g, rows[r], row)
    <2>1. CASE rows[r].dispatch = "claimed" /\ rows[r].dispatchBy \notin alive
               /\ SetRow(r, [rows[r] EXCEPT !.dispatch = "pending", !.dispatchBy = NoHost])
      <3> DEFINE row == [rows[r] EXCEPT !.dispatch = "pending", !.dispatchBy = NoHost]
      <3>1. row \in DeliveryRows
        BY <1>1 DEF DeliveryRows
      <3>2. Fits(row, reached[r])
        BY <1>1, <2>1 DEF DeliveryRows, Fits
      <3>3. /\ row.intent = rows[r].intent /\ row.input = rows[r].input /\ row.source = rows[r].source
            /\ row.phase = rows[r].phase /\ row.target = rows[r].target
            /\ row.delivery = rows[r].delivery /\ row.wakeBy = rows[r].wakeBy
        BY <1>1 DEF DeliveryRows
      <3>4. rows' = [rows EXCEPT ![r] = row]
        BY <2>1 DEF SetRow
      <3> HIDE DEF row
      <3>5. \A g \in DeliveryHosts : g \in alive => Leaves(g, rows[r], row)
        BY <2>1, <3>3 DEF Leaves
      <3> QED
        BY <3>1, <3>2, <3>3, <3>4, <3>5
    <2>2. CASE rows[r].wake = "claimed" /\ rows[r].wakeBy \notin alive
               /\ SetRow(r, [rows[r] EXCEPT !.wake = "pending", !.wakeBy = NoHost])
      <3> DEFINE row == [rows[r] EXCEPT !.wake = "pending", !.wakeBy = NoHost]
      <3>1. row \in DeliveryRows
        BY <1>1 DEF DeliveryRows
      <3>2. Fits(row, reached[r])
        BY <1>1, <2>2 DEF DeliveryRows, Fits
      <3>3. /\ row.intent = rows[r].intent /\ row.input = rows[r].input /\ row.source = rows[r].source
            /\ row.phase = rows[r].phase /\ row.target = rows[r].target
            /\ row.delivery = rows[r].delivery /\ row.dispatchBy = rows[r].dispatchBy
        BY <1>1 DEF DeliveryRows
      <3>4. rows' = [rows EXCEPT ![r] = row]
        BY <2>2 DEF SetRow
      <3> HIDE DEF row
      <3>5. \A g \in DeliveryHosts : g \in alive => Leaves(g, rows[r], row)
        BY <2>2, <3>3 DEF Leaves
      <3> QED
        BY <3>1, <3>2, <3>3, <3>4, <3>5
    <2> QED
      BY <2>1, <2>2 DEF FenceClaim, Expired
  <1>4. PICK row \in DeliveryRows :
           /\ rows' = [rows EXCEPT ![r] = row] /\ Fits(row, reached[r])
           /\ row.intent = rows[r].intent /\ row.input = rows[r].input /\ row.source = rows[r].source
           /\ row.phase = rows[r].phase /\ row.target = rows[r].target
           /\ row.delivery = rows[r].delivery
           /\ \A g \in DeliveryHosts : g \in alive => Leaves(g, rows[r], row)
    BY <1>3
  <1>5. Proper(r, row)
    BY <1>4, ProperRow
  <1> QED
    BY <1>1, <1>2, <1>4, <1>5, SameRow, SameLate, QuietStep

LEMMA ClaimDispatchSafe ==
  ASSUME DeliveryInv, NEW h \in DeliveryHosts, NEW r \in Receipts, ClaimDispatch(h, r)
  PROVE  DeliveryInv'
  <1> DEFINE row == [rows[r] EXCEPT !.dispatch = "claimed", !.dispatchBy = h]
  <1>1. /\ rows[r] \in DeliveryRows /\ reached[r] \in Nat /\ Fits(rows[r], reached[r])
        /\ rows[r].dispatch = "pending" /\ h \in alive /\ h # NoHost
    BY DeliveryAssumption DEF DeliveryInv, DeliveryTypeOK, ClaimDispatch, Serving
  <1>2. row \in DeliveryRows
    BY <1>1 DEF DeliveryRows
  <1>3. Fits(row, reached[r]) /\ rows[r].dispatchBy = NoHost
    BY <1>1 DEF DeliveryRows, Fits
  <1>4. /\ row.intent = rows[r].intent /\ row.input = rows[r].input /\ row.source = rows[r].source
        /\ row.phase = rows[r].phase /\ row.target = rows[r].target /\ row.delivery = rows[r].delivery
        /\ row.dispatchBy = h /\ row.wakeBy = rows[r].wakeBy
    BY <1>1 DEF DeliveryRows
  <1>5. rows' = [rows EXCEPT ![r] = row] /\ work' = [work EXCEPT ![h] = Goes("inbox", r)]
    BY DEF ClaimDispatch, SetRow, Goes
  <1>6. UNCHANGED <<alive, serving, turn, fenced, opened, loop, admission, reached, late>>
    BY DEF ClaimDispatch
  <1> HIDE DEF row
  <1>7. Proper(r, row)
    BY <1>4, ProperRow
  <1>8. \A g \in DeliveryHosts : Leaves(g, rows[r], row)
    BY <1>3, <1>4, DeliveryAssumption DEF Leaves
  <1>9. "inbox" \in DispatchSteps \ {"create"}
    BY DEF DispatchSteps
  <1>10. /\ Goes("inbox", r) \in Works(Steps) /\ Goes("inbox", r).receipt = r
         /\ Working(h, Goes("inbox", r), row)
    BY <1>4, <1>9, NextStep
  <1> QED
    BY <1>1, <1>2, <1>3, <1>4, <1>5, <1>6, <1>7, <1>8, <1>10, HostGoesOn

LEMMA ClaimWakeSafe ==
  ASSUME DeliveryInv, NEW h \in DeliveryHosts, NEW r \in Receipts, ClaimWake(h, r)
  PROVE  DeliveryInv'
  <1> DEFINE row == [rows[r] EXCEPT !.wake = "claimed", !.wakeBy = h]
  <1>1. /\ rows[r] \in DeliveryRows /\ reached[r] \in Nat /\ Fits(rows[r], reached[r])
        /\ rows[r].wake = "pending" /\ h \in alive /\ h # NoHost
    BY DeliveryAssumption DEF DeliveryInv, DeliveryTypeOK, ClaimWake, Serving
  <1>2. row \in DeliveryRows
    BY <1>1 DEF DeliveryRows
  <1>3. Fits(row, reached[r]) /\ rows[r].wakeBy = NoHost
    BY <1>1 DEF DeliveryRows, Fits
  <1>4. /\ row.intent = rows[r].intent /\ row.input = rows[r].input /\ row.source = rows[r].source
        /\ row.phase = rows[r].phase /\ row.target = rows[r].target /\ row.delivery = rows[r].delivery
        /\ row.dispatchBy = rows[r].dispatchBy /\ row.wakeBy = h
    BY <1>1 DEF DeliveryRows
  <1>5. rows' = [rows EXCEPT ![r] = row] /\ work' = [work EXCEPT ![h] = Goes("decide", r)]
    BY DEF ClaimWake, SetRow, Goes
  <1>6. UNCHANGED <<alive, serving, turn, fenced, opened, loop, admission, reached, late>>
    BY DEF ClaimWake
  <1> HIDE DEF row
  <1>7. Proper(r, row)
    BY <1>4, ProperRow
  <1>8. \A g \in DeliveryHosts : Leaves(g, rows[r], row)
    BY <1>3, <1>4, DeliveryAssumption DEF Leaves
  <1>9. "decide" \in WakeSteps
    BY DEF WakeSteps
  <1>10. /\ Goes("decide", r) \in Works(Steps) /\ Goes("decide", r).receipt = r
         /\ Working(h, Goes("decide", r), row)
    BY <1>4, <1>9, NextStep
  <1> QED
    BY <1>1, <1>2, <1>3, <1>4, <1>5, <1>6, <1>7, <1>8, <1>10, HostGoesOn

---------------------------------------------------------------------------
(* A Turn opens. *)

\* The row of r after the Turn t was opened for w.
OpenedRow(w, t, r) ==
    LET intent == IF r = w.receipt THEN "admitted"
                   ELSE IF r \in w.superseded THEN "cancelled" ELSE rows[r].intent
        row == [rows[r] EXCEPT !.intent = intent]
    IN  IF r \in w.taken THEN TookIn(row, t) ELSE row

LEMMA OpenedRowIs ==
  ASSUME DeliveryInv, NEW w, NEW t \in Turns, NEW r \in Receipts,
         TakesStill(w), CancelsStill(w), w.receipt = r => rows[r].delivery = "pending"
  PROVE  /\ OpenedRow(w, t, r) \in DeliveryRows /\ Fits(OpenedRow(w, t, r), reached[r])
         /\ \A g \in DeliveryHosts : Leaves(g, rows[r], OpenedRow(w, t, r))
         /\ rows[r].intent = "admitted" \/ w.receipt = r => OpenedRow(w, t, r).intent = "admitted"
         /\ \A u \in Turns : LeftAt(OpenedRow(w, t, r), u) => LeftAt(rows[r], u) \/ u = t
  <1> DEFINE intent == IF r = w.receipt THEN "admitted"
                        ELSE IF r \in w.superseded THEN "cancelled" ELSE rows[r].intent
             row == [rows[r] EXCEPT !.intent = intent]
             in == [row EXCEPT !.delivery = "consumed", !.target = t, !.input = "pending"]
  <1>1. rows[r] \in DeliveryRows /\ Fits(rows[r], reached[r])
    BY DEF DeliveryInv, DeliveryTypeOK
  <1>2. r \in w.superseded => rows[r].intent = "queued"
    BY DEF CancelsStill
  <1>3. /\ intent \in {"none", "queued", "admitted", "cancelled"}
        /\ rows[r].dispatch = "none" => intent = "none"
        /\ rows[r].intent = "admitted" \/ w.receipt = r => intent = "admitted"
    <2>1. /\ rows[r].intent \in {"none", "queued", "admitted", "cancelled"}
          /\ rows[r].dispatch = "none" => rows[r].intent = "none" /\ rows[r].delivery = "none"
      BY <1>1 DEF DeliveryRows, Fits
    <2>2. CASE r = w.receipt
      BY <2>1, <2>2
    <2>3. CASE r # w.receipt /\ r \in w.superseded
      BY <1>2, <2>1, <2>3
    <2>4. CASE r # w.receipt /\ r \notin w.superseded
      BY <2>1, <2>4
    <2> QED
      BY <2>2, <2>3, <2>4
  <1> HIDE DEF intent
  <1>4. row \in DeliveryRows
    BY <1>1, <1>3 DEF DeliveryRows
  <1>5. Fits(row, reached[r])
    BY <1>1, <1>3 DEF DeliveryRows, Fits
  <1>6. /\ row.intent = intent /\ row.dispatchBy = rows[r].dispatchBy /\ row.wakeBy = rows[r].wakeBy
        /\ row.delivery = rows[r].delivery /\ row.input = rows[r].input /\ row.target = rows[r].target
        /\ row.phase = rows[r].phase /\ row.source = rows[r].source
    BY <1>1 DEF DeliveryRows
  <1>7. OpenedRow(w, t, r) = IF r \in w.taken THEN in ELSE row
    BY DEF OpenedRow, TookIn, intent
  <1> HIDE DEF row
  <1>8. CASE r \in w.taken
    <2>1. rows[r].delivery = "pending"
      BY <1>8 DEF TakesStill, Waits
    <2>2. in \in DeliveryRows
      BY <1>4 DEF DeliveryRows
    <2>3. /\ in.intent = intent /\ in.dispatchBy = rows[r].dispatchBy /\ in.wakeBy = rows[r].wakeBy
          /\ in.delivery = "consumed" /\ in.input = "pending" /\ in.target = t
      BY <1>4, <1>6 DEF DeliveryRows
    <2>4. reached[r] = 0
      BY <1>1, <2>1 DEF Fits
    <2>5. Fits(in, reached[r])
      BY <1>4, <1>5, <1>6, <2>1, <2>4 DEF DeliveryRows, Fits
    <2>6. OpenedRow(w, t, r) = in
      BY <1>7, <1>8
    <2> HIDE DEF in
    <2> QED
      BY <1>3, <2>1, <2>2, <2>3, <2>5, <2>6 DEF Leaves, LeftAt
  <1>9. CASE r \notin w.taken
    <2>1. OpenedRow(w, t, r) = row
      BY <1>7, <1>9
    <2> QED
      BY <1>3, <1>4, <1>5, <1>6, <2>1 DEF Leaves, LeftAt
  <1> QED
    BY <1>8, <1>9

LEMMA OpensTurnSafe ==
  ASSUME DeliveryInv, NEW w, w.receipt \in Receipts \cup {0}, MayOpen(w), OpensTurn(w),
         w.receipt # 0 => rows[w.receipt].delivery = "pending",
         UNCHANGED <<alive, serving, fenced, reached>>,
         work' \in [DeliveryHosts -> Works(Steps)],
         late' \in [DeliveryHosts -> Works({"idle"} \cup LateSteps)],
         \A g \in DeliveryHosts : LateOK(g)',
         \A g \in DeliveryHosts :
            work'[g] = work[g] \/ (work[g].step # "idle" /\ Work(g, "acknowledge") /\ work[g].step \in WakeSteps),
         admission' \in Works({"idle", "input", "queued"}), AdmissionOK'
  PROVE  DeliveryInv'
  <1>1. PICK t \in Turns :
           /\ turn[t] = "none"
           /\ turn' = [turn EXCEPT ![t] = "active"]
           /\ opened' = [opened EXCEPT ![t] = w.receipt]
           /\ loop' = Boundary
           /\ rows' = [r \in Receipts |-> OpenedRow(w, t, r)]
    BY DEF OpensTurn, OpenedRow
  <1>2. 0 \notin Receipts
    BY DeliveryAssumption
  <1>3. ASSUME NEW r \in Receipts
        PROVE  /\ rows'[r] \in DeliveryRows /\ Fits(rows'[r], reached[r])
               /\ \A g \in DeliveryHosts : Leaves(g, rows[r], rows'[r])
               /\ (rows[r].intent = "admitted" \/ w.receipt = r => rows'[r].intent = "admitted")
               /\ \A u \in Turns : LeftAt(rows'[r], u) => LeftAt(rows[r], u) \/ u = t
    <2>1. w.receipt = r => rows[r].delivery = "pending"
      BY <1>2
    <2>2. rows'[r] = OpenedRow(w, t, r)
      BY <1>1
    <2> QED
      BY <2>1, <2>2, OpenedRowIs DEF MayOpen
  <1>4. rows' \in [Receipts -> DeliveryRows] /\ \A r \in Receipts : Fits(rows'[r], reached'[r])
    BY <1>1, <1>3
  <1>5. turn' \in [Turns -> Statuses] /\ opened' \in [Turns -> Receipts \cup {0}] /\ loop' \in Loops
    BY <1>1, NoneTypes DEF DeliveryInv, DeliveryTypeOK, Statuses
  <1>6. DeliveryTypeOK'
    BY <1>4, <1>5 DEF DeliveryInv, DeliveryTypeOK, Fits, Steps
  <1>7. LoopOK'
    BY <1>1 DEF LoopOK, Boundary
  <1>8. ASSUME NEW g \in DeliveryHosts PROVE WorkOK(g)'
    <2>1. CASE work'[g] = work[g]
      <3>1. work[g].step # "idle" => g \in alive'
        BY AtWork
      <3> QED
        BY <1>3, <2>1, <3>1, Bystander DEF WorkOK
    <2>2. CASE work[g].step # "idle" /\ Work(g, "acknowledge") /\ work[g].step \in WakeSteps
      <3>1. PICK r \in Receipts : r = work[g].receipt
        BY <2>2, AtWork
      <3>2. g \in alive /\ rows[r].wakeBy = g
        BY <2>2, <3>1, AtWake
      <3>3. rows'[r].wakeBy = g
        BY <1>3, <3>2 DEF Leaves
      <3>4. work'[g] = Goes("acknowledge", r)
        BY <2>2, <3>1 DEF Work, Goes, DeliveryInv, DeliveryTypeOK
      <3>5. "acknowledge" \in WakeSteps
        BY DEF WakeSteps
      <3>6. PICK row : row = rows'[r]
        OBVIOUS
      <3>7. work'[g].receipt = r /\ Working(g, work'[g], row)
        BY <3>3, <3>4, <3>5, <3>6, NextStep
      <3> QED
        BY <3>1, <3>2, <3>6, <3>7 DEF WorkOK
    <2> QED
      BY <1>8, <2>1, <2>2
  <1>9. ASSUME NEW u \in Turns PROVE TurnOK(u)'
    <2>1. TurnOK(u) /\ turn[u] \in Statuses
      BY DEF DeliveryInv, DeliveryTypeOK
    <2>2. CASE u = t
      <3>1. turn'[t] = "active" /\ t \notin fenced' /\ opened'[t] = w.receipt
        BY <1>1, <2>1, <2>2 DEF TurnOK, DeliveryInv, DeliveryTypeOK
      <3> QED
        BY <1>3, <2>2, <3>1 DEF TurnOK, Open
    <2>3. CASE u # t
      <3>1. turn'[u] = turn[u] /\ opened'[u] = opened[u] /\ opened[u] \in Receipts \cup {0}
        BY <1>1, <2>3 DEF DeliveryInv, DeliveryTypeOK
      <3> QED
        BY <1>3, <2>1, <2>3, <3>1 DEF TurnOK, Open
    <2> QED
      BY <2>2, <2>3
  <1> QED
    BY <1>4, <1>6, <1>7, <1>8, <1>9 DEF DeliveryInv

\* A continuation that waits in the queue.
LEMMA QueuedIs ==
  ASSUME DeliveryInv, NEW r \in Receipts, Waits(r), rows[r].intent = "none",
         NEW row, row = [rows[r] EXCEPT !.intent = "queued"]
  PROVE  /\ row \in DeliveryRows /\ Fits(row, reached[r]) /\ Proper(r, row)
         /\ row.input = rows[r].input /\ row.wakeBy = rows[r].wakeBy
         /\ \A g \in DeliveryHosts : Leaves(g, rows[r], row)
  <1>1. /\ rows[r] \in DeliveryRows /\ Fits(rows[r], reached[r]) /\ rows[r].delivery = "pending"
    BY DEF DeliveryInv, DeliveryTypeOK, Waits
  <1>2. row \in DeliveryRows
    BY <1>1 DEF DeliveryRows
  <1>3. Fits(row, reached[r])
    BY <1>1 DEF DeliveryRows, Fits
  <1>4. /\ row.input = rows[r].input /\ row.source = rows[r].source
        /\ row.phase = rows[r].phase /\ row.target = rows[r].target /\ row.delivery = rows[r].delivery
        /\ row.dispatchBy = rows[r].dispatchBy /\ row.wakeBy = rows[r].wakeBy
    BY <1>1 DEF DeliveryRows
  <1> QED
    BY <1>2, <1>3, <1>4, ProperRow DEF Leaves

LEMMA ContinueSafe ==
  ASSUME DeliveryInv, NEW h \in DeliveryHosts, Continue(h)
  PROVE  DeliveryInv'
  <1>1. work[h].step \in WakeSteps /\ "acknowledge" \in WakeSteps
    BY DEF Continue, WakeSteps, LateSteps
  <1>2. PICK r \in Receipts : r = work[h].receipt
    BY <1>1, AtWake
  <1>3. h \in alive /\ rows[r].wakeBy = h /\ work[h] \in Works(Steps)
    BY <1>1, <1>2, AtWake
  <1>4. UNCHANGED <<alive, serving, fenced, reached, late, admission>> /\ Work(h, "acknowledge")
    BY DEF Continue
  <1>5. Waits(r) /\ rows[r].intent = "none"
    BY <1>2 DEF Continue, Continued, Row
  <1>6. work' = [work EXCEPT ![h] = Goes("acknowledge", r)]
    BY <1>2, <1>4 DEF Work, Goes
  <1>7. CASE MayOpen(work[h]) /\ OpensTurn(work[h])
    <2>1. PICK w : w = work[h]
      OBVIOUS
    <2>2. w.receipt \in Receipts \cup {0} /\ (w.receipt # 0 => rows[w.receipt].delivery = "pending")
      BY <1>2, <1>5, <2>1 DEF Waits
    <2>3. work' \in [DeliveryHosts -> Works(Steps)]
      <3>1. Goes("acknowledge", r) \in Works(Steps)
        BY <1>1, <1>3, NextStep
      <3> QED
        BY <1>6, <3>1 DEF DeliveryInv, DeliveryTypeOK, Steps
    <2>4. \A g \in DeliveryHosts :
            work'[g] = work[g] \/ (work[g].step # "idle" /\ Work(g, "acknowledge") /\ work[g].step \in WakeSteps)
      BY <1>1, <1>4, <1>6 DEF DeliveryInv, DeliveryTypeOK, WakeSteps, LateSteps
    <2>5. MayOpen(w) /\ OpensTurn(w)
      BY <1>7, <2>1
    <2> QED
      BY <1>4, <2>2, <2>3, <2>4, <2>5, SameLate, SameRest, OpensTurnSafe
  <1>8. CASE /\ SetRow(r, [rows[r] EXCEPT !.intent = "queued"])
             /\ UNCHANGED <<turn, opened, loop>>
    <2>1. PICK row : row = [rows[r] EXCEPT !.intent = "queued"]
      OBVIOUS
    <2>2. /\ row \in DeliveryRows /\ Fits(row, reached[r]) /\ Proper(r, row)
          /\ row.input = rows[r].input /\ row.wakeBy = h
          /\ \A g \in DeliveryHosts : Leaves(g, rows[r], row)
      BY <1>3, <1>5, <2>1, QueuedIs
    <2>3. rows' = [rows EXCEPT ![r] = row]
      BY <1>8, <2>1 DEF SetRow
    <2>4. /\ Goes("acknowledge", r) \in Works(Steps) /\ Goes("acknowledge", r).receipt = r
          /\ Working(h, Goes("acknowledge", r), row)
      BY <1>1, <2>2, NextStep
    <2>5. UNCHANGED <<alive, serving, turn, fenced, opened, loop, admission, reached, late>>
      BY <1>4, <1>8
    <2> QED
      BY <1>3, <1>6, <2>2, <2>3, <2>4, <2>5, HostGoesOn
  <1> QED
    BY <1>2, <1>7, <1>8 DEF Continue, Continued

LEMMA LateContinueSafe ==
  ASSUME DeliveryInv, NEW h \in DeliveryHosts, LateContinue(h)
  PROVE  DeliveryInv'
  <1>1. PICK r \in Receipts : r = late[h].receipt
    BY DEF DeliveryInv, LateOK, LateContinue
  <1>2. UNCHANGED <<alive, serving, fenced, reached, work, admission>>
    BY DEF LateContinue
  <1>3. /\ late' \in [DeliveryHosts -> Works({"idle"} \cup LateSteps)]
        /\ \A g \in DeliveryHosts : LateOK(g)'
    BY NoneTypes, LateGoesOn DEF LateContinue
  <1>4. CASE Waits(r) /\ MayOpen(late[h]) /\ OpensTurn(late[h])
    <2>1. PICK w : w = late[h]
      OBVIOUS
    <2>2. w.receipt \in Receipts \cup {0} /\ (w.receipt # 0 => rows[w.receipt].delivery = "pending")
      BY <1>1, <1>4, <2>1 DEF Waits
    <2>3. work' \in [DeliveryHosts -> Works(Steps)] /\ \A g \in DeliveryHosts : work'[g] = work[g]
      BY <1>2 DEF DeliveryInv, DeliveryTypeOK, Steps
    <2>4. MayOpen(w) /\ OpensTurn(w)
      BY <1>4, <2>1
    <2> QED
      BY <1>2, <1>3, <2>2, <2>3, <2>4, SameRest, OpensTurnSafe
  <1>5. CASE /\ Waits(r) /\ rows[r].intent = "none"
             /\ SetRow(r, [rows[r] EXCEPT !.intent = "queued"])
             /\ UNCHANGED <<turn, opened, loop>>
    <2>1. PICK row : row = [rows[r] EXCEPT !.intent = "queued"]
      OBVIOUS
    <2>2. /\ row \in DeliveryRows /\ Fits(row, reached[r]) /\ Proper(r, row)
          /\ row.input = rows[r].input /\ \A g \in DeliveryHosts : Leaves(g, rows[r], row)
      BY <1>5, <2>1, QueuedIs
    <2>3. rows' = [rows EXCEPT ![r] = row]
      BY <1>5, <2>1 DEF SetRow
    <2>4. PICK n \in Nat : n = reached[r] /\ reached' = [reached EXCEPT ![r] = n]
      BY <1>2, SameRow
    <2>5. UNCHANGED <<alive, serving, turn, fenced, opened, loop, work, admission>> /\ Fits(row, n)
      BY <1>2, <1>5, <2>2, <2>4
    <2>6. loop' \in Loops
      BY <2>5 DEF DeliveryInv, DeliveryTypeOK
    <2> QED
      BY <1>3, <2>2, <2>3, <2>4, <2>5, <2>6, QuietStep
  <1>6. CASE UNCHANGED <<turn, opened, loop, rows>>
    BY <1>2, <1>3, <1>6, SameRest, IdleStep
  <1> QED
    BY <1>1, <1>4, <1>5, <1>6 DEF LateContinue, Continued

LEMMA CommitAdmissionSafe ==
  ASSUME DeliveryInv, CommitAdmission
  PROVE  DeliveryInv'
  <1>1. UNCHANGED <<alive, serving, fenced, reached, work, late>> /\ admission' = Idle
    BY DEF CommitAdmission
  <1>2. admission' \in Works({"idle", "input", "queued"}) /\ AdmissionOK'
    BY <1>1, NoneTypes DEF AdmissionOK
  <1>3. CASE MayOpen(admission) /\ StartHolds /\ OpensTurn(admission)
    <2>1. PICK w : w = admission
      OBVIOUS
    <2>2. w.receipt \in Receipts \cup {0} /\ (w.receipt # 0 => rows[w.receipt].delivery = "pending")
      BY <1>3, <2>1 DEF StartHolds, DeliveryInv, AdmissionOK, Queued
    <2>3. work' \in [DeliveryHosts -> Works(Steps)] /\ \A g \in DeliveryHosts : work'[g] = work[g]
      BY <1>1 DEF DeliveryInv, DeliveryTypeOK, Steps
    <2>4. MayOpen(w) /\ OpensTurn(w)
      BY <1>3, <2>1
    <2> QED
      BY <1>1, <1>2, <2>2, <2>3, <2>4, SameLate, OpensTurnSafe
  <1>4. CASE UNCHANGED <<turn, opened, loop, rows>>
    BY <1>1, <1>2, <1>4, SameLate, SameRest, IdleStep
  <1> QED
    BY <1>3, <1>4 DEF CommitAdmission

---------------------------------------------------------------------------
(* The agent loop. *)

\* A step of the loop that leaves the rows alone.
LEMMA LoopStays ==
  ASSUME DeliveryInv, UNCHANGED <<alive, serving, turn, fenced, opened, rows, reached, work, late, admission>>,
         loop' \in Loops, LoopOK'
  PROVE  DeliveryInv'
  BY SameLate, SameRest, IdleStep

LEMMA LoopIs ==
  ASSUME DeliveryInv, NEW step \in {"boundary", "advance", "append", "request", "fenced", "terminal"},
         NEW todo \in SUBSET Receipts, Loop(step, todo)
  PROVE  loop' \in Loops /\ loop'.step = step /\ loop'.todo = todo
  BY DEF Loop, DeliveryInv, DeliveryTypeOK, Loops

LEMMA LoopTurns ==
  ASSUME DeliveryInv, NEW t \in Turns,
         ReadDeliveries(t) \/ ReadInputs(t) \/ Absorbed(t) \/ AskForTools(t) \/ Leave(t)
  PROVE  DeliveryInv'
  <1>1. UNCHANGED <<alive, serving, turn, fenced, opened, rows, reached, work, late, admission>>
    BY DEF ReadDeliveries, ReadInputs, Absorbed, AskForTools, Leave
  <1>2. CASE ReadInputs(t)
    <2>1. Loop("append", Inputs(t)) /\ Inputs(t) \subseteq Receipts
      BY <1>2 DEF ReadInputs, Inputs
    <2>2. loop' \in Loops /\ loop'.todo = Inputs(t)
      BY <2>1, LoopIs
    <2>3. LoopOK'
      BY <1>1, <2>2 DEF LoopOK, Inputs
    <2> QED
      BY <1>1, <2>2, <2>3, LoopStays
  <1>3. CASE ReadDeliveries(t)
    <2>1. Loop("advance", {r \in Receipts : Into(r, t)})
      BY <1>3 DEF ReadDeliveries
    <2>2. loop' \in Loops /\ loop'.step = "advance"
      BY <2>1, LoopIs
    <2> QED
      BY <1>1, <2>2, LoopStays DEF LoopOK
  <1>4. CASE Absorbed(t) \/ AskForTools(t)
    <2>1. PICK step \in {"terminal", "request", "boundary"} : Loop(step, {})
      BY <1>4 DEF Absorbed, AskForTools
    <2>2. loop' \in Loops /\ loop'.step = step
      BY <2>1, LoopIs
    <2> QED
      BY <1>1, <2>2, LoopStays DEF LoopOK
  <1>5. CASE Leave(t)
    <2>1. loop' = [Boundary EXCEPT !.leaving = TRUE]
      BY <1>5 DEF Leave
    <2>2. loop' \in Loops /\ loop'.step = "boundary"
      BY <2>1 DEF Boundary, Loops
    <2> QED
      BY <1>1, <2>2, LoopStays DEF LoopOK
  <1> QED
    BY <1>2, <1>3, <1>4, <1>5

\* advance() injects and retargets pending deliveries, and only into Turns that are open.
LEMMA AdvancedIs ==
  ASSUME DeliveryInv, NEW r \in Receipts, NEW t \in Turns, NEW d \in Decision(r)
  PROVE  /\ Advanced(r, t, d) \in DeliveryRows /\ Fits(Advanced(r, t, d), reached[r])
         /\ Proper(r, Advanced(r, t, d))
         /\ \A g \in DeliveryHosts : Leaves(g, rows[r], Advanced(r, t, d))
         /\ rows[r].input = "pending" => Advanced(r, t, d) = rows[r]
  <1>1. rows[r] \in DeliveryRows /\ Fits(rows[r], reached[r])
    BY DEF DeliveryInv, DeliveryTypeOK
  <1>2. CASE Advanced(r, t, d) = rows[r]
    BY <1>1, <1>2, SameRow
  <1>3. CASE Advanced(r, t, d) # rows[r]
    <2>1. rows[r].delivery = "pending"
      BY <1>3 DEF Advanced, Into
    <2>2. rows[r].dispatch # "none" /\ rows[r].input = "none" /\ reached[r] = 0 /\ rows[r].source \in Turns
      BY <1>1, <2>1 DEF Fits
    <2>3. d \in Decisions /\ (d.phase = "current_turn" => Open(d.target))
      BY <2>2, DecisionIs DEF DeliveryInv
    <2>4. \/ Advanced(r, t, d) = Injected(r, t) /\ d.phase = "current_turn" /\ d.target = t
          \/ Advanced(r, t, d) = Retargeted(r, d)
      BY <1>3 DEF Advanced
    <2>5. CASE Advanced(r, t, d) = Injected(r, t) /\ d.phase = "current_turn" /\ d.target = t
      <3> DEFINE intent == IF rows[r].intent = "queued" THEN "cancelled" ELSE rows[r].intent
                 row == [rows[r] EXCEPT !.intent = intent, !.delivery = "consumed",
                                        !.target = t, !.input = "pending"]
      <3>1. Advanced(r, t, d) = row
        BY <1>1, <2>5 DEF Injected, TookIn, DeliveryRows
      <3>2. /\ intent \in {"none", "queued", "admitted", "cancelled"}
            /\ rows[r].intent = "admitted" => intent = "admitted"
        BY <1>1 DEF DeliveryRows
      <3> HIDE DEF intent
      <3>3. row \in DeliveryRows
        <4>1. [rows[r] EXCEPT !.intent = intent] \in DeliveryRows
          BY <1>1, <3>2 DEF DeliveryRows
        <4>2. row = [[rows[r] EXCEPT !.intent = intent]
                       EXCEPT !.delivery = "consumed", !.target = t, !.input = "pending"]
          BY <1>1 DEF DeliveryRows
        <4> HIDE DEF row
        <4> QED
          BY <4>1, <4>2 DEF DeliveryRows
      <3>4. Fits(row, reached[r])
        BY <1>1, <2>1, <2>2, <3>2 DEF DeliveryRows, Fits
      <3>5. /\ row.intent = intent /\ row.dispatchBy = rows[r].dispatchBy /\ row.wakeBy = rows[r].wakeBy
            /\ row.delivery = "consumed" /\ row.target = t
        BY <1>1 DEF DeliveryRows
      <3> HIDE DEF row
      <3>6. Proper(r, row)
        BY <2>3, <2>5, <3>2, <3>5 DEF Proper, LeftAt
      <3> QED
        BY <2>1, <2>2, <3>1, <3>3, <3>4, <3>5, <3>6 DEF Leaves
    <2>6. CASE Advanced(r, t, d) = Retargeted(r, d)
      <3> DEFINE row == [rows[r] EXCEPT !.phase = d.phase, !.target = d.target]
      <3>1. Advanced(r, t, d) = row
        BY <2>6 DEF Retargeted
      <3>2. row \in DeliveryRows
        BY <1>1, <2>3, RetargetedIs
      <3>3. Fits(row, reached[r])
        BY <1>1 DEF DeliveryRows, Fits
      <3>4. /\ row.intent = rows[r].intent /\ row.dispatchBy = rows[r].dispatchBy
            /\ row.wakeBy = rows[r].wakeBy /\ row.input = "none"
            /\ row.phase = d.phase /\ row.target = d.target
        BY <1>1, <2>2 DEF DeliveryRows
      <3> HIDE DEF row
      <3>5. Proper(r, row)
        BY <2>3, <3>4, RetargetedProper
      <3> QED
        BY <2>1, <2>2, <3>1, <3>2, <3>3, <3>4, <3>5 DEF Leaves
    <2> QED
      BY <2>4, <2>5, <2>6
  <1> QED
    BY <1>2, <1>3

LEMMA AdvanceSafe ==
  ASSUME DeliveryInv, NEW t \in Turns, NEW r \in Receipts, Advance(t, r)
  PROVE  DeliveryInv'
  <1>1. PICK d \in Decision(r) : SetRow(r, Advanced(r, t, d))
    BY DEF Advance
  <1>2. PICK row : row = Advanced(r, t, d)
    OBVIOUS
  <1>3. /\ row \in DeliveryRows /\ Fits(row, reached[r]) /\ Proper(r, row)
        /\ \A g \in DeliveryHosts : Leaves(g, rows[r], row)
    BY <1>2, AdvancedIs
  <1>4. rows' = [rows EXCEPT ![r] = row]
    BY <1>1, <1>2 DEF SetRow
  <1>5. UNCHANGED <<alive, serving, turn, fenced, opened, reached, work, late, admission>>
    BY DEF Advance
  <1>6. PICK n \in Nat : n = reached[r] /\ reached' = [reached EXCEPT ![r] = n]
    BY <1>5, SameRow
  <1>7. loop.todo \ {r} \subseteq Receipts /\ Loop("advance", loop.todo \ {r})
    BY DEF Advance, DeliveryInv, DeliveryTypeOK, Loops
  <1>8. loop' \in Loops /\ loop'.step = "advance"
    BY <1>7, LoopIs
  <1>9. LoopOK' /\ Fits(row, n)
    BY <1>3, <1>6, <1>8 DEF LoopOK
  <1> QED
    BY <1>3, <1>4, <1>5, <1>6, <1>8, <1>9, SameLate, QuietStep

LEMMA AppendInputSafe ==
  ASSUME DeliveryInv, NEW t \in Turns, NEW r \in Receipts, AppendInput(t, r)
  PROVE  DeliveryInv'
  <1> DEFINE row == [rows[r] EXCEPT !.input = "consumed"]
  <1>1. /\ rows[r] \in DeliveryRows /\ reached[r] \in Nat /\ Fits(rows[r], reached[r])
        /\ loop \in Loops /\ r \in loop.todo /\ loop.step = "append"
        /\ \A s \in loop.todo : rows[s].input = "pending"
    BY DEF DeliveryInv, DeliveryTypeOK, AppendInput, LoopOK, Drives
  <1>2. rows[r].delivery = "consumed" /\ reached[r] = 0
    BY <1>1 DEF Fits
  <1>3. row \in DeliveryRows
    BY <1>1 DEF DeliveryRows
  <1>4. Fits(row, 1)
    BY <1>1, <1>2 DEF DeliveryRows, Fits
  <1>5. /\ row.input = "consumed" /\ row.delivery = "consumed" /\ row.intent = rows[r].intent
        /\ row.dispatchBy = rows[r].dispatchBy /\ row.wakeBy = rows[r].wakeBy
    BY <1>1, <1>2 DEF DeliveryRows
  <1>6. rows' = [rows EXCEPT ![r] = row] /\ reached' = [reached EXCEPT ![r] = 1]
    BY <1>2 DEF AppendInput, Appended, SetRow
  <1>7. UNCHANGED <<alive, serving, turn, fenced, opened, work, late, admission>>
    BY DEF AppendInput
  <1>8. loop.todo \ {r} \subseteq Receipts /\ Loop("append", loop.todo \ {r})
    BY <1>1 DEF AppendInput, Loops
  <1>9. loop' \in Loops /\ loop'.todo = loop.todo \ {r}
    BY <1>8, LoopIs
  <1> HIDE DEF row
  <1>10. LoopOK'
    <2>1. \A s \in Receipts : s # r => rows'[s] = rows[s]
      BY <1>6 DEF DeliveryInv, DeliveryTypeOK
    <2> QED
      BY <1>1, <1>8, <1>9, <2>1 DEF LoopOK
  <1>11. Proper(r, row) /\ \A g \in DeliveryHosts : Leaves(g, rows[r], row)
    BY <1>2, <1>5 DEF Leaves, Proper, LeftAt
  <1> QED
    BY <1>3, <1>4, <1>6, <1>7, <1>9, <1>10, <1>11, SameLate, QuietStep

\* What was routed into a Turn is passed on; nothing else changes.
LEMMA PassedIs ==
  ASSUME DeliveryInv, NEW t \in Turns, NEW r \in Receipts, Inputs(t) = {}
  PROVE  /\ Passed(t)[r] \in DeliveryRows /\ Fits(Passed(t)[r], reached[r])
         /\ \A g \in DeliveryHosts : Leaves(g, rows[r], Passed(t)[r])
         /\ Passed(t)[r].intent = rows[r].intent
         /\ ~LeftAt(Passed(t)[r], t)
         /\ \A u \in Turns : LeftAt(Passed(t)[r], u) => LeftAt(rows[r], u)
  <1>1. rows[r] \in DeliveryRows /\ Fits(rows[r], reached[r])
    BY DEF DeliveryInv, DeliveryTypeOK
  <1>2. CASE Routed(r, t)
    <2> DEFINE row == [rows[r] EXCEPT !.phase = "next_turn", !.target = 0]
    <2>1. Passed(t)[r] = row
      BY <1>2 DEF Passed
    <2>2. row \in DeliveryRows
      BY <1>1 DEF DeliveryRows, Phases
    <2>3. Fits(row, reached[r]) /\ rows[r].input = "none"
      BY <1>1, <1>2 DEF DeliveryRows, Fits, Routed, Into
    <2>4. /\ row.intent = rows[r].intent /\ row.dispatchBy = rows[r].dispatchBy
          /\ row.wakeBy = rows[r].wakeBy /\ row.input = rows[r].input
          /\ row.phase = "next_turn" /\ row.delivery = rows[r].delivery
      BY <1>1 DEF DeliveryRows
    <2> HIDE DEF row
    <2> QED
      BY <2>1, <2>2, <2>3, <2>4 DEF Leaves, LeftAt
  <1>3. CASE ~Routed(r, t)
    <2>1. Passed(t)[r] = rows[r]
      BY <1>3 DEF Passed
    <2>2. ~LeftAt(rows[r], t)
      BY <1>3 DEF LeftAt, Routed, Into, Inputs
    <2> QED
      BY <1>1, <2>1, <2>2 DEF Leaves
  <1> QED
    BY <1>2, <1>3

\* A Turn that closes, by the fence of its final output or by its end.
LEMMA TurnCloses ==
  ASSUME DeliveryInv, NEW t \in Turns, Inputs(t) = {}, rows' = Passed(t), turn[t] = "active",
         turn' \in [Turns -> Statuses], turn'[t] # "none", fenced' \in SUBSET Turns,
         \A u \in Turns : u # t => turn'[u] = turn[u] /\ (u \in fenced' <=> u \in fenced),
         loop' \in Loops, loop'.step # "append",
         UNCHANGED <<alive, serving, opened, reached, work, late, admission>>
  PROVE  DeliveryInv'
  <1>1. ASSUME NEW r \in Receipts
        PROVE  /\ rows'[r] \in DeliveryRows /\ Fits(rows'[r], reached'[r])
               /\ \A g \in DeliveryHosts : Leaves(g, rows[r], rows'[r])
               /\ rows'[r].intent = rows[r].intent
               /\ ~LeftAt(rows'[r], t)
               /\ \A u \in Turns : LeftAt(rows'[r], u) => LeftAt(rows[r], u)
    <2>1. rows'[r] = Passed(t)[r] /\ reached' = reached
      OBVIOUS
    <2> QED
      BY <2>1, PassedIs
  <1>2. rows' \in [Receipts -> DeliveryRows]
    BY <1>1 DEF Passed
  <1>3. DeliveryTypeOK'
    BY <1>1, <1>2 DEF DeliveryInv, DeliveryTypeOK, Fits
  <1>4. ASSUME NEW g \in DeliveryHosts PROVE WorkOK(g)'
    <2>1. work[g].step # "idle" => g \in alive'
      BY AtWork
    <2> QED
      BY <1>1, <2>1, Bystander DEF WorkOK
  <1>5. ASSUME NEW u \in Turns PROVE TurnOK(u)'
    <2>1. TurnOK(u) /\ opened[u] \in Receipts \cup {0}
      BY DEF DeliveryInv, DeliveryTypeOK
    <2>2. opened'[u] # 0 => rows'[opened'[u]].intent = "admitted"
      BY <1>1, <2>1 DEF TurnOK
    <2>3. CASE u = t
      BY <1>1, <2>2, <2>3 DEF TurnOK
    <2>4. CASE u # t
      BY <1>1, <2>1, <2>2, <2>4 DEF TurnOK, Open
    <2> QED
      BY <2>3, <2>4
  <1>6. LoopOK' /\ AdmissionOK' /\ \A g \in DeliveryHosts : LateOK(g)'
    BY DEF DeliveryInv, LoopOK, AdmissionOK, LateOK
  <1> QED
    BY <1>1, <1>3, <1>4, <1>5, <1>6 DEF DeliveryInv

LEMMA FinalOutputSafe ==
  ASSUME DeliveryInv, NEW t \in Turns, FinalOutput(t)
  PROVE  DeliveryInv'
  <1>1. UNCHANGED <<alive, serving, turn, opened, reached, work, late, admission>>
    BY DEF FinalOutput
  <1>2. CASE MayFence(t)
    <2>1. fenced' = fenced \cup {t} /\ rows' = Passed(t) /\ Loop("fenced", {})
      BY <1>2 DEF FinalOutput
    <2>2. loop' \in Loops /\ loop'.step = "fenced"
      BY <2>1, LoopIs
    <2>3. /\ turn' \in [Turns -> Statuses] /\ fenced' \in SUBSET Turns
          /\ turn[t] = "active" /\ turn'[t] # "none" /\ Inputs(t) = {}
          /\ \A u \in Turns : u # t => turn'[u] = turn[u] /\ (u \in fenced' <=> u \in fenced)
      BY <1>1, <1>2, <2>1 DEF FinalOutput, Drives, MayFence, DeliveryInv, DeliveryTypeOK
    <2> QED
      BY <1>1, <2>1, <2>2, <2>3, TurnCloses
  <1>3. CASE ~MayFence(t)
    <2>1. Loop("boundary", {}) /\ UNCHANGED <<fenced, rows>>
      BY <1>3 DEF FinalOutput
    <2>2. loop' \in Loops /\ loop'.step = "boundary"
      BY <2>1, LoopIs
    <2> QED
      BY <1>1, <2>1, <2>2, LoopStays DEF LoopOK
  <1> QED
    BY <1>2, <1>3

LEMMA EndTurnSafe ==
  ASSUME DeliveryInv, NEW t \in Turns, CompleteTurn(t) \/ EndTurnEarly(t)
  PROVE  DeliveryInv'
  <1>1. UNCHANGED <<alive, serving, fenced, opened, reached, work, late, admission>> /\ turn[t] = "active"
    BY DEF CompleteTurn, EndTurnEarly, Drives
  <1>2. ASSUME NEW status \in {"completed", "stopped"}, Terminate(t, status), Inputs(t) = {}
        PROVE  DeliveryInv'
    <2>1. rows' = Passed(t) /\ loop' \in Loops /\ loop'.step # "append"
      BY <1>2, NoneTypes DEF Terminate, Boundary
    <2>2. /\ turn' \in [Turns -> Statuses] /\ turn'[t] # "none" /\ fenced' \in SUBSET Turns
          /\ \A u \in Turns : u # t => turn'[u] = turn[u] /\ (u \in fenced' <=> u \in fenced)
      BY <1>1, <1>2 DEF Terminate, DeliveryInv, DeliveryTypeOK, Statuses
    <2> QED
      BY <1>1, <1>2, <2>1, <2>2, TurnCloses
  <1>3. CASE Loop("boundary", {}) /\ UNCHANGED <<turn, rows>>
    <2>1. loop' \in Loops /\ loop'.step = "boundary"
      BY <1>3, LoopIs
    <2> QED
      BY <1>1, <1>3, <2>1, LoopStays DEF LoopOK
  <1> QED
    BY <1>2, <1>3 DEF CompleteTurn, EndTurnEarly

---------------------------------------------------------------------------
(* Hosts. *)

LEMMA ServeSafe ==
  ASSUME DeliveryInv, NEW h \in DeliveryHosts, Serve(h)
  PROVE  DeliveryInv'
  <1>1. UNCHANGED <<alive, turn, fenced, opened, rows, reached, work, late, admission>> /\ serving' \in alive
    BY DEF Serve
  <1>2. PICK step \in {"fenced", "boundary"} : loop' = [Boundary EXCEPT !.step = step]
    BY DEF Serve
  <1>3. loop' \in Loops /\ loop'.step = step
    BY <1>2 DEF Boundary, Loops
  <1>4. LoopOK'
    BY <1>3 DEF LoopOK
  <1> QED
    BY <1>1, <1>3, <1>4, SameLate, SameRest, IdleStep

LEMMA HandBackSafe ==
  ASSUME DeliveryInv, NEW h \in DeliveryHosts, HandBack(h)
  PROVE  DeliveryInv'
  BY SameLate, SameRest, IdleStep DEF HandBack

LEMMA HostDiesSafe ==
  ASSUME DeliveryInv, NEW h \in DeliveryHosts, HostDies(h)
  PROVE  DeliveryInv'
  <1>1. /\ UNCHANGED <<turn, fenced, opened, rows, reached>>
        /\ alive' = alive \ {h} /\ work' = [work EXCEPT ![h] = Idle] /\ late' = [late EXCEPT ![h] = Idle]
    BY DEF HostDies
  <1>2. /\ late' \in [DeliveryHosts -> Works({"idle"} \cup LateSteps)]
        /\ \A g \in DeliveryHosts : LateOK(g)'
    BY <1>1, NoneTypes, LateGoesOn
  <1>3. work' \in [DeliveryHosts -> Works(Steps)] /\ \A g \in DeliveryHosts : WorkOK(g)'
    <2>1. work \in [DeliveryHosts -> Works(Steps)]
      BY DEF DeliveryInv, DeliveryTypeOK, Steps
    <2>2. work' \in [DeliveryHosts -> Works(Steps)]
      BY <1>1, <2>1, NoneTypes
    <2>3. WorkOK(h)'
      BY <1>1, <2>1, NoneTypes DEF WorkOK
    <2>4. ASSUME NEW g \in DeliveryHosts, g # h PROVE WorkOK(g)'
      <3>1. work'[g] = work[g] /\ WorkOK(g)
        BY <1>1, <2>1, <2>4 DEF DeliveryInv
      <3> QED
        BY <1>1, <2>4, <3>1 DEF WorkOK
    <2> QED
      BY <2>2, <2>3, <2>4
  <1>4. /\ serving' \in alive' \cup {NoHost} /\ loop' \in Loops /\ LoopOK'
        /\ admission' \in Works({"idle", "input", "queued"}) /\ AdmissionOK'
    <2>1. CASE serving = h
      <3>1. serving' = NoHost /\ admission' = Idle /\ loop' = Boundary
        BY <2>1 DEF HostDies
      <3> QED
        BY <3>1, NoneTypes DEF LoopOK, AdmissionOK, Boundary
    <2>2. CASE serving # h
      <3>1. UNCHANGED <<serving, admission, loop>>
        BY <2>2 DEF HostDies
      <3>2. serving' \in alive' \cup {NoHost}
        BY <1>1, <2>2, <3>1 DEF DeliveryInv, DeliveryTypeOK
      <3> QED
        BY <1>1, <3>1, <3>2, SameRest
    <2> QED
      BY <2>1, <2>2
  <1>5. DeliveryTypeOK'
    BY <1>1, <1>2, <1>3, <1>4 DEF DeliveryInv, DeliveryTypeOK, Steps
  <1>6. (\A r \in Receipts : Fits(rows[r], reached[r]))' /\ (\A t \in Turns : TurnOK(t))'
    BY <1>1 DEF DeliveryInv, TurnOK, Open
  <1> QED
    BY <1>2, <1>3, <1>4, <1>5, <1>6 DEF DeliveryInv

---------------------------------------------------------------------------
(* The invariant holds. *)

LEMMA InitHolds == DeliveryInit => DeliveryInv
  <1> SUFFICES ASSUME DeliveryInit PROVE DeliveryInv
    OBVIOUS
  <1> USE DEF DeliveryInit
  <1>1. /\ turn \in [Turns -> Statuses] /\ opened \in [Turns -> Receipts \cup {0}]
        /\ fenced \subseteq Turns /\ alive \subseteq DeliveryHosts /\ serving \in alive \cup {NoHost}
    BY DEF Statuses
  <1>2. /\ loop \in Loops /\ rows \in [Receipts -> DeliveryRows] /\ reached \in [Receipts -> Nat]
        /\ work \in [DeliveryHosts -> Works(Steps)]
        /\ late \in [DeliveryHosts -> Works({"idle"} \cup LateSteps)]
        /\ admission \in Works({"idle", "input", "queued"})
    BY NoneTypes
  <1>3. /\ FreshRow.dispatch = "none" /\ FreshRow.dispatchBy = NoHost /\ FreshRow.wake = "none"
        /\ FreshRow.wakeBy = NoHost /\ FreshRow.delivery = "none" /\ FreshRow.intent = "none"
        /\ FreshRow.input = "none" /\ FreshRow.dispatchFails = 0 /\ FreshRow.wakeFails = 0
    BY DEF FreshRow
  <1>4. Fits(FreshRow, 0)
    BY <1>3, DeliveryAssumption DEF Fits
  <1>5. \A r \in Receipts : Fits(rows[r], reached[r])
    BY <1>4
  <1>6. DeliveryTypeOK
    BY <1>1, <1>2, <1>5 DEF DeliveryTypeOK, Steps, Fits
  <1>7. LoopOK /\ AdmissionOK
    BY NoneTypes DEF LoopOK, AdmissionOK, Boundary
  <1>8. \A h \in DeliveryHosts : WorkOK(h) /\ LateOK(h)
    BY NoneTypes DEF WorkOK, LateOK
  <1>9. \A t \in Turns : TurnOK(t)
    BY <1>3 DEF TurnOK, Open, LeftAt
  <1> QED
    BY <1>5, <1>6, <1>7, <1>8, <1>9 DEF DeliveryInv

LEMMA StutterSafe ==
  ASSUME DeliveryInv, UNCHANGED deliveryVars
  PROVE  DeliveryInv'
  BY SameLate, SameRest, IdleStep

LEMMA Inductive == DeliveryInv /\ [DeliveryNext]_deliveryVars => DeliveryInv'
  <1> SUFFICES ASSUME DeliveryInv, [DeliveryNext]_deliveryVars PROVE DeliveryInv'
    OBVIOUS
  <1>1. ASSUME NEW h \in DeliveryHosts, NEW r \in Receipts,
               Claims(h, r) \/ RecoverWake(h, r) \/ Queue(h, r)
        PROVE  DeliveryInv'
    BY <1>1, FenceClaimSafe, ClaimDispatchSafe, ClaimWakeSafe, RecoverWakeSafe, CancelSupersededSafe,
       PrepareSafe DEF Claims, Queue
  <1>2. ASSUME NEW h \in DeliveryHosts, DispatcherStep(h) PROVE DeliveryInv'
    BY <1>2, EnsureInboxSafe, FindDeliverySafe, CreateDeliverySafe, EnsureWakeSafe, CompleteDispatchSafe,
       DispatchFailsSafe, DecideWakeSafe, ApplyDecisionSafe, DecisionLostSafe, ActSafe, NotifySafe,
       ResumeSafe, AcknowledgeWakeSafe, PrepareContinuationSafe, ContinueSafe, ContinueFailsSafe
    DEF DispatcherStep
  <1>3. ASSUME NEW h \in DeliveryHosts,
               \/ WakeTimesOut(h) \/ LateStep(h) \/ PrepareInput(h)
               \/ Serve(h) \/ HandBack(h) \/ HostDies(h)
        PROVE  DeliveryInv'
    BY <1>3, WakeTimesOutSafe, LateNotifySafe, LatePrepareSafe, LateContinueSafe, PrepareSafe,
       ServeSafe, HandBackSafe, HostDiesSafe DEF LateStep
  <1>4. ASSUME NEW t \in Turns, LoopStep(t) \/ Leave(t) PROVE DeliveryInv'
    BY <1>4, LoopTurns, AdvanceSafe, AppendInputSafe, FinalOutputSafe, EndTurnSafe DEF LoopStep
  <1>5. ASSUME NEW r \in Receipts, NEW t \in Turns, ProcessEnds(r, t) PROVE DeliveryInv'
    BY <1>5, ProcessEndsSafe
  <1> QED
    BY <1>1, <1>2, <1>3, <1>4, <1>5, CommitAdmissionSafe, StutterSafe DEF DeliveryNext

THEOREM DeliveryInvHolds == DeliverySpec => []DeliveryInv
  BY InitHolds, Inductive, PTL DEF DeliverySpec

---------------------------------------------------------------------------
(* What a reader should know. *)

\* The rows and what the Hosts have in memory are well formed, and exactly the claimed rows name a
\* Host (processCompletionDelivery.ts, claimOutbox).
THEOREM DeliveryTypeCorrect == DeliverySpec => []DeliveryTypeOK
  <1>1. DeliveryInv => DeliveryTypeOK
    BY DEF DeliveryInv
  <1> QED
    BY <1>1, DeliveryInvHolds, PTL

\* The end of a process reaches its Conversation at most once, and never when it was given up: the
\* row says of its delivery and its input exactly what was appended (markInputHandled,
\* acknowledgeNotification).
THEOREM EndsReachOnce == DeliverySpec => []ReachesOnce
  <1>1. DeliveryInv => ReachesOnce
    <2> SUFFICES ASSUME DeliveryInv, NEW r \in Receipts
                 PROVE  reached[r] <= (IF rows[r].delivery = "consumed" THEN 1 ELSE 0)
      BY DEF ReachesOnce
    <2>1. Fits(rows[r], reached[r])
      BY DEF DeliveryInv
    <2> QED
      BY <2>1 DEF Fits
  <1> QED
    BY <1>1, DeliveryInvHolds, PTL

\* A Turn that is over, or whose final output is fenced, keeps no input and no result that was routed
\* into it (establishFinalOutputFence, prepareTerminalDeliverySteps).
THEOREM NothingStaysBehind == DeliverySpec => []NothingLeftBehind
  <1>1. DeliveryInv => NothingLeftBehind
    <2> SUFFICES ASSUME DeliveryInv, NEW t \in Turns, turn[t] # "none", ~Open(t)
                 PROVE  Inputs(t) = {} /\ \A r \in Receipts : ~Routed(r, t)
      BY DEF NothingLeftBehind
    <2>1. \A r \in Receipts : ~LeftAt(rows[r], t)
      BY DEF DeliveryInv, TurnOK
    <2> QED
      BY <2>1 DEF LeftAt, Inputs, Routed, Into
  <1> QED
    BY <1>1, DeliveryInvHolds, PTL

\* A Turn that opens for a delivery is the first one to do so.
LEMMA OpensForOne ==
  ASSUME DeliveryInv, NEW w, w.receipt \in Receipts \cup {0}, OpensTurn(w),
         w.receipt # 0 => /\ rows[w.receipt].delivery = "pending"
                          /\ rows[w.receipt].intent # "admitted"
  PROVE  \A t \in Turns : opened'[t] # opened[t] =>
            /\ rows[opened'[t]].delivery = "pending"
            /\ \A u \in Turns : opened[u] # opened'[t]
  <1>1. PICK t \in Turns : turn[t] = "none" /\ opened' = [opened EXCEPT ![t] = w.receipt]
    BY DEF OpensTurn
  <1>2. opened[t] = 0 /\ opened \in [Turns -> Receipts \cup {0}]
    BY <1>1 DEF DeliveryInv, TurnOK, DeliveryTypeOK
  <1>3. \A u \in Turns : opened[u] # 0 => rows[opened[u]].intent = "admitted"
    BY DEF DeliveryInv, TurnOK
  <1>4. \A u \in Turns : opened'[u] = IF u = t THEN w.receipt ELSE opened[u]
    BY <1>1, <1>2
  <1> QED
    BY <1>2, <1>3, <1>4

\* A delivery opens at most one Turn of its own, and only while it is pending: the intent that opened
\* it stays admitted, however often its wake is replayed (startIntentPrepared, admitQueuedIntents).
THEOREM DeliveryOpensOnce == DeliverySpec => OpensOnce
  <1> DEFINE First ==
        \A t \in Turns : opened'[t] # opened[t] =>
          /\ rows[opened'[t]].delivery = "pending"
          /\ \A u \in Turns : opened[u] # opened'[t]
  <1>1. ASSUME DeliveryInv, [DeliveryNext]_deliveryVars PROVE First
    <2>1. CASE UNCHANGED opened
      BY <2>1
    <2>2. ASSUME NEW h \in DeliveryHosts, Continue(h) PROVE First
      <3>1. CASE OpensTurn(work[h])
        <4>1. PICK w : w = work[h]
          OBVIOUS
        <4>2. work[h].step # "idle" /\ Waits(work[h].receipt) /\ rows[work[h].receipt].intent = "none"
          BY <2>2 DEF Continue, Continued, Row
        <4>3. w.receipt \in Receipts
          BY <1>1, <4>1, <4>2, AtWork
        <4> QED
          BY <1>1, <3>1, <4>1, <4>2, <4>3, OpensForOne DEF Waits
      <3> QED
        BY <2>1, <2>2, <3>1 DEF Continue, Continued
    <2>3. ASSUME NEW h \in DeliveryHosts, LateContinue(h) PROVE First
      <3>1. CASE OpensTurn(late[h]) /\ Waits(late[h].receipt) /\ rows[late[h].receipt].intent = "none"
        <4>1. PICK w : w = late[h]
          OBVIOUS
        <4>2. w.receipt \in Receipts
          BY <1>1, <2>3, <4>1 DEF LateContinue, DeliveryInv, LateOK
        <4> QED
          BY <1>1, <3>1, <4>1, <4>2, OpensForOne DEF Waits
      <3> QED
        BY <2>1, <2>3, <3>1 DEF LateContinue, Continued
    <2>4. CASE CommitAdmission
      <3>1. CASE StartHolds /\ OpensTurn(admission)
        <4>1. PICK w : w = admission
          OBVIOUS
        <4>2. w.receipt \in Receipts \cup {0} /\
              (w.receipt # 0 => rows[w.receipt].delivery = "pending" /\ rows[w.receipt].intent = "queued")
          BY <1>1, <3>1, <4>1 DEF StartHolds, DeliveryInv, AdmissionOK, Queued
        <4> QED
          BY <1>1, <3>1, <4>1, <4>2, OpensForOne
      <3> QED
        BY <2>1, <2>4, <3>1 DEF CommitAdmission
    <2>5. ASSUME NEW h \in DeliveryHosts, DispatcherStep(h) PROVE First
      <3>1. CASE Continue(h)
        BY <2>2, <3>1
      <3>2. CASE ~Continue(h)
        <4>1. UNCHANGED opened
          BY <2>5, <3>2 DEF DispatcherStep, EnsureInbox, FindDelivery, CreateDelivery, EnsureWake,
             CompleteDispatch, DispatchFails, DecideWake, ApplyDecision, DecisionLost, Act, Notify,
             Resume, AcknowledgeWake, PrepareContinuation, ContinueFails
        <4> QED
          BY <2>1, <4>1
      <3> QED
        BY <3>1, <3>2
    <2>6. ASSUME NEW h \in DeliveryHosts,
                 \/ WakeTimesOut(h) \/ LateNotify(h) \/ LatePrepare(h) \/ PrepareInput(h)
                 \/ Serve(h) \/ HandBack(h) \/ HostDies(h)
          PROVE  First
      <3>1. UNCHANGED opened
        BY <2>6 DEF WakeTimesOut, LateNotify, LatePrepare, PrepareInput, Serve, HandBack, HostDies
      <3> QED
        BY <2>1, <3>1
    <2>7. ASSUME NEW h \in DeliveryHosts, NEW r \in Receipts,
                 Claims(h, r) \/ RecoverWake(h, r) \/ Queue(h, r)
          PROVE  First
      <3>1. UNCHANGED opened
        BY <2>7 DEF Claims, FenceClaim, ClaimDispatch, ClaimWake, RecoverWake, Queue, CancelSuperseded,
           PrepareQueued
      <3> QED
        BY <2>1, <3>1
    <2>8. ASSUME NEW t \in Turns, LoopStep(t) \/ Leave(t) \/ \E r \in Receipts : ProcessEnds(r, t)
          PROVE  First
      <3>1. UNCHANGED opened
        BY <2>8 DEF LoopStep, Leave, ProcessEnds, ReadDeliveries, ReadInputs, Absorbed, AskForTools,
           FinalOutput, CompleteTurn, EndTurnEarly, Advance, AppendInput
      <3> QED
        BY <2>1, <3>1
    <2>9. CASE UNCHANGED deliveryVars
      BY <2>1, <2>9
    <2> HIDE DEF First
    <2> QED
      BY <1>1, <2>3, <2>4, <2>5, <2>6, <2>7, <2>8, <2>9 DEF DeliveryNext, LateStep
  <1>2. DeliverySpec => [][First]_deliveryVars
    BY <1>1, DeliveryInvHolds, PTL DEF DeliverySpec
  <1> QED
    BY <1>2, PTL DEF OpensOnce
=============================================================================
