----------------------------- MODULE ModelRequest -----------------------------
(***************************************************************************)
(* One ModelRequest of an active Turn: the dispatch loop that opens a      *)
(* transport for it, its retries, the completed event that the transport   *)
(* writes, the partial output that a failure or a Stop freezes, and the    *)
(* persistent cancellation that races all of them.  A Host that takes the  *)
(* Turn over, from one that has ended or has handed it back, resumes the   *)
(* request by a new transport.                                             *)
(***************************************************************************)
EXTENDS Naturals

CONSTANTS ModelHosts,   \* extension hosts
          MaxAttempts,  \* attempts that the frozen retry policy allows
          MaxFaults,    \* bound on Hosts that end, leases that lapse and Turns handed back
          NoHost        \* no Host

ASSUME ModelAssumption ==
    /\ MaxAttempts \in Nat \ {0}
    /\ MaxFaults \in Nat
    /\ NoHost \notin ModelHosts

VARIABLES
    request,    \* the ModelRequest row: status, outcome, attempt and socket generation
    partials,   \* identities <<attempt, socket>> with a partial_summary checkpoint
    stopping,   \* a termination request of the Turn is pending
    alive,      \* Hosts whose process runs
    handoff,    \* Hosts that shut down and hand their work over
    lease,      \* the ExecutionLease of the Turn
    fence,      \* per Host: the lease generation that its drive of the Turn runs under, or 0
    dispatch,   \* per Host: its dispatch of the request
    cancel,     \* per Host: its cancellation of the request
    sent,       \* writes <<kind, Host, generation, identity>> that nobody need wait for any more
    faults      \* Hosts that ended, leases that lapsed and Turns handed back

durable == <<request, partials, stopping, lease>>
hosts == <<alive, handoff, faults>>
inFlight == <<sent, cancel>>
modelVars == <<request, partials, stopping, alive, handoff, lease, fence, dispatch, inFlight, faults>>

NoDispatch == [step |-> "idle", id |-> <<0, 0>>, output |-> FALSE, callback |-> "none",
               abort |-> "no", snapshot |-> FALSE]
NoCancel == [step |-> "idle", generation |-> 0, gaveUp |-> FALSE]

ModelInit ==
    /\ request = [status |-> "prepared", outcome |-> "none", attempt |-> 1, socket |-> 0]
    /\ partials = {}
    /\ stopping = FALSE
    /\ alive = ModelHosts
    /\ handoff = {}
    /\ lease = [holder |-> NoHost, generation |-> 0, lapsed |-> FALSE]
    /\ fence = [h \in ModelHosts |-> 0]
    /\ dispatch = [h \in ModelHosts |-> NoDispatch]
    /\ cancel = [h \in ModelHosts |-> NoCancel]
    /\ sent = {}
    /\ faults = 0

Open == request.status # "terminal"
Current == <<request.attempt, request.socket>>
Streams(id) == request.status = "streaming" /\ Current = id
Ended(outcome) == [request EXCEPT !.status = "terminal", !.outcome = outcome]

\* A write is fenced: the generation that it was begun under must still have the lease.
Fenced(h, generation) == lease.holder = h /\ lease.generation = generation
Drives(h) == h \in alive /\ fence[h] # 0
At(h, step) == Drives(h) /\ dispatch[h].step = step

Go(h, step) == dispatch' = [dispatch EXCEPT ![h].step = step]
Leaves(h) == dispatch' = [dispatch EXCEPT ![h] = NoDispatch]

\* The transport, or the delay of a retry, whose AbortController is registered.
Registered(d) == d.step \in {"delay", "stream"}

\* The adapter freezes the output it observed, synchronously, unless it has already ended.
Aborted(d, reason) ==
    IF Registered(d) /\ d.abort = "no"
      THEN [d EXCEPT !.abort = reason,
                     !.snapshot = d.step = "stream" /\ d.output /\ d.callback = "none"]
      ELSE d

\* A controller that registers after the shutdown began is aborted at once.
Registers(h, step, id) ==
    [NoDispatch EXCEPT !.step = step, !.id = id, !.abort = IF h \in handoff THEN "handoff" ELSE "no"]

\* An ExecutionHandoffError ends the drive; the request stays open for the next one.
DriveEnds(h) ==
    /\ fence' = [fence EXCEPT ![h] = 0]
    /\ Leaves(h)
    /\ UNCHANGED <<durable, inFlight, hosts>>

---------------------------------------------------------------------------
(* The drive and its lease.                                                *)

\* A live Host keeps its lease, expired or not; the one that is still valid keeps its generation.
Taken(h) ==
    IF lease.holder = h /\ ~lease.lapsed THEN lease
    ELSE [holder |-> h, generation |-> lease.generation + 1, lapsed |-> FALSE]

Claim(h) ==
    /\ h \in alive \ handoff
    /\ Open
    /\ fence[h] = 0
    /\ lease.holder = h \/ lease.holder \notin alive
    /\ lease' = Taken(h)
    /\ fence' = [fence EXCEPT ![h] = Taken(h).generation]
    /\ UNCHANGED <<request, partials, stopping, dispatch, inFlight, hosts>>

\* Between two rounds the drive finds that its Host does not serve the Conversation any more.
HandBack(h) ==
    /\ At(h, "idle")
    /\ Open
    /\ Fenced(h, fence[h])
    /\ faults < MaxFaults
    /\ faults' = faults + 1
    /\ lease' = [holder |-> NoHost, generation |-> lease.generation + 1, lapsed |-> TRUE]
    /\ fence' = [fence EXCEPT ![h] = 0]
    /\ UNCHANGED <<request, partials, stopping, alive, handoff, dispatch, inFlight>>

UserStops ==
    /\ ~stopping
    /\ Open
    /\ stopping' = TRUE
    /\ UNCHANGED <<request, partials, lease, fence, dispatch, inFlight, hosts>>

\* A Host that still drives the Turn renews too late.
LeaseLapses ==
    /\ Open
    /\ lease.holder \in alive
    /\ ~lease.lapsed
    /\ faults < MaxFaults
    /\ faults' = faults + 1
    /\ lease' = [lease EXCEPT !.lapsed = TRUE]
    /\ UNCHANGED <<request, partials, stopping, alive, handoff, fence, dispatch, inFlight>>

\* The renewal of a drive fails: its registered transports are handed over.
QuiesceTurn(h) ==
    /\ Drives(h)
    /\ Open
    /\ lease.lapsed
    /\ dispatch[h] # Aborted(dispatch[h], "handoff")
    /\ dispatch' = [dispatch EXCEPT ![h] = Aborted(@, "handoff")]
    /\ UNCHANGED <<durable, fence, inFlight, hosts>>

Remains(h) == alive \ (handoff \cup {h}) # {}

QuiesceAll(h) ==
    /\ h \in alive \ handoff
    /\ Remains(h)
    /\ faults < MaxFaults
    /\ faults' = faults + 1
    /\ handoff' = handoff \cup {h}
    /\ dispatch' = [dispatch EXCEPT ![h] = Aborted(@, "handoff")]
    /\ UNCHANGED <<durable, alive, fence, inFlight>>

Ends(h) ==
    /\ alive' = alive \ {h}
    /\ fence' = [fence EXCEPT ![h] = 0]
    /\ Leaves(h)
    /\ cancel' = [cancel EXCEPT ![h] = NoCancel]
    /\ sent' = {w \in sent : w[2] # h}
    /\ UNCHANGED <<durable, handoff>>

HostDies(h) ==
    /\ h \in alive
    /\ Remains(h)
    /\ faults < MaxFaults
    /\ faults' = faults + 1
    /\ Ends(h)

\* A Host that shuts down waits for its dispatches, closes its database and ends.
HostExits(h) ==
    /\ h \in alive \cap handoff
    /\ fence[h] = 0
    /\ Ends(h)
    /\ UNCHANGED faults

---------------------------------------------------------------------------
(* The dispatch loop.                                                      *)

MutReconnect == FALSE

Reconnect == request.socket > 0 \/ request.status = "streaming"

BeginDispatch(h) ==
    /\ At(h, "idle")
    /\ h \notin handoff
    /\ ~stopping
    /\ Open
    /\ Reconnect \/ request.socket = 0
    /\ \/ dispatch' = [dispatch EXCEPT ![h] = [NoDispatch EXCEPT !.step = "prepare", !.id = Current]]
       \/ /\ request.status = "retrying"
          /\ dispatch' = [dispatch EXCEPT ![h] = Registers(h, "delay", Current)]
    /\ UNCHANGED <<durable, fence, inFlight, hosts>>

DelayEnds(h) ==
    /\ At(h, "delay")
    /\ dispatch[h].abort = "no"
    /\ IF Open /\ Current = dispatch[h].id THEN Go(h, "prepare") ELSE Leaves(h)
    /\ UNCHANGED <<durable, fence, inFlight, hosts>>

PreparationFails(h) ==
    /\ At(h, "prepare")
    /\ Go(h, "fail")
    /\ UNCHANGED <<durable, fence, inFlight, hosts>>

OpenSocket(h) ==
    /\ At(h, "prepare")
    /\ Fenced(h, fence[h])
    /\ IF Open /\ Current = dispatch[h].id
         THEN /\ request' = [request EXCEPT !.status = "streaming", !.socket = @ + 1]
              /\ dispatch' = [dispatch EXCEPT ![h] = [@ EXCEPT !.step = "opened", !.id = Current']]
         ELSE request' = request /\ Leaves(h)
    /\ UNCHANGED <<partials, stopping, lease, fence, inFlight, hosts>>

RegisterActiveSocket(h) ==
    /\ At(h, "opened")
    /\ dispatch' = [dispatch EXCEPT ![h] = Registers(h, "stream", @.id)]
    /\ UNCHANGED <<durable, fence, inFlight, hosts>>

\* Callbacks write only while the transport is registered and nothing aborted it.
Authority(h) == At(h, "stream") /\ dispatch[h].abort = "no"

Delta(h) ==
    /\ Authority(h)
    /\ dispatch[h].callback = "none"
    /\ dispatch' = [dispatch EXCEPT ![h].output = TRUE]
    /\ UNCHANGED <<durable, fence, inFlight, hosts>>

\* The provider is done: the completed event is on its way to the database.
Done(h) ==
    /\ Authority(h)
    /\ dispatch[h].callback = "none"
    /\ dispatch' = [dispatch EXCEPT ![h].callback = "writing"]
    /\ UNCHANGED <<durable, fence, inFlight, hosts>>

MutCompleted(id) == IF Current = id THEN Ended("completed") ELSE request

Completed(id) == IF Streams(id) THEN Ended("completed") ELSE request

Sends(kind, h) == sent' = sent \cup {<<kind, h, fence[h], dispatch[h].id>>}

\* It has passed the last check of its authority.
SubmitCompleted(h) ==
    /\ Authority(h)
    /\ dispatch[h].callback = "writing"
    /\ dispatch' = [dispatch EXCEPT ![h].callback = "sent"]
    /\ Sends("completed", h)
    /\ UNCHANGED <<durable, fence, cancel, hosts>>

\* The database writes it, however long after; only its own transport waits for the answer.
CommitCompleted(w) ==
    LET h == w[2]
        waits == dispatch[h].callback = "sent" /\ fence[h] = w[3] /\ dispatch[h].id = w[4]
    IN /\ w[1] = "completed"
       /\ sent' = sent \ {w}
       /\ request' = IF Fenced(h, w[3]) THEN Completed(w[4]) ELSE request
       /\ dispatch' = IF waits THEN [dispatch EXCEPT ![h].callback = "ended"] ELSE dispatch
       /\ UNCHANGED <<partials, stopping, lease, fence, cancel, hosts>>

AdapterResolves(h) ==
    /\ Authority(h)
    /\ dispatch[h].callback = "ended"
    /\ Leaves(h)
    /\ UNCHANGED <<durable, fence, inFlight, hosts>>

\* The provider fails or a deadline passes; the transport is retired and gives up its authority.
\* Its output is frozen for display when the request is not going to be retried.
TransportFails(h) ==
    /\ Authority(h)
    /\ \/ /\ dispatch[h].id[1] < MaxAttempts
          /\ dispatch' = [dispatch EXCEPT ![h] = [@ EXCEPT !.abort = "own", !.step = "retry"]]
       \/ LET frozen == Aborted(dispatch[h], "own")
          IN dispatch' = [dispatch EXCEPT ![h] =
                 [frozen EXCEPT !.step = IF frozen.snapshot THEN "display" ELSE "fail"]]
    /\ UNCHANGED <<durable, fence, inFlight, hosts>>

Saved(id) == IF Streams(id) THEN partials \cup {id} ELSE partials

FinalizePartialOutput(h) ==
    /\ At(h, "display")
    /\ h \notin handoff
    /\ Fenced(h, fence[h])
    /\ partials' = Saved(dispatch[h].id)
    /\ Go(h, "fail")
    /\ UNCHANGED <<request, stopping, lease, fence, inFlight, hosts>>

\* The closure gives up, with its write perhaps on its way.
FinalizationTimesOut(h) ==
    /\ At(h, "display")
    /\ h \notin handoff
    /\ Go(h, "fail")
    /\ sent' = sent \/ Sends("partial", h)
    /\ UNCHANGED <<durable, fence, cancel, hosts>>

CommitLatePartial(w) ==
    /\ w[1] = "partial"
    /\ sent' = sent \ {w}
    /\ partials' = IF Fenced(w[2], w[3]) THEN Saved(w[4]) ELSE partials
    /\ UNCHANGED <<request, stopping, lease, fence, dispatch, cancel, hosts>>

FailRequest(h) ==
    /\ At(h, "fail")
    /\ Fenced(h, fence[h])
    /\ request' = IF Open /\ Current = dispatch[h].id THEN Ended("failed") ELSE request
    /\ Leaves(h)
    /\ UNCHANGED <<partials, stopping, lease, fence, inFlight, hosts>>

MutRetrying == [request EXCEPT !.status = "retrying", !.attempt = @ + 1]

Retrying == [request EXCEPT !.status = "retrying", !.attempt = @ + 1, !.socket = 0]

CreateTransientRetry(h) ==
    /\ At(h, "retry")
    /\ Fenced(h, fence[h])
    /\ IF Streams(dispatch[h].id)
         THEN /\ request' = Retrying
              /\ dispatch' = [dispatch EXCEPT ![h] = Registers(h, "delay", <<request.attempt + 1, 0>>)]
         ELSE request' = request /\ Leaves(h)
    /\ UNCHANGED <<partials, stopping, lease, fence, inFlight, hosts>>

---------------------------------------------------------------------------
(* A handoff: the dispatch throws and the drive ends.                      *)

HandsOver(h) ==
    /\ Drives(h)
    /\ \/ Registered(dispatch[h]) /\ dispatch[h].abort = "handoff"
       \/ h \in handoff /\ dispatch[h].step \in {"idle", "prepare", "display"}
    /\ DriveEnds(h)

---------------------------------------------------------------------------
(* The persistent cancellation, which aborts, saves what the abort froze   *)
(* and then ends the request.                                              *)

\* The closures it waits for: those of transports, not of delays, that are registered.
MutCloses(d) == FALSE

Closes(d) == d.step = "stream"

Cancelling(h, generation) ==
    [NoCancel EXCEPT !.generation = generation,
                     !.step = IF Closes(dispatch[h]) THEN "closing" ELSE "commit"]

\* By the window of the user or by the drive that observes the stop.  A transport that is handed
\* over refuses it.
StartCancel(h) ==
    /\ h \in alive
    /\ stopping
    /\ Open
    /\ lease.holder = h
    /\ lease.lapsed => At(h, "idle")
    /\ cancel[h].step = "idle"
    /\ ~(dispatch[h].step = "stream" /\ dispatch[h].abort = "handoff")
    /\ cancel' = [cancel EXCEPT ![h] = Cancelling(h, lease.generation)]
    /\ dispatch' = [dispatch EXCEPT ![h] = Aborted(@, "stop")]
    /\ UNCHANGED <<durable, fence, hosts, sent>>

\* The aborted dispatch joins the cancellation that runs, or runs one of its own.
DispatchCancelled(h) ==
    /\ Drives(h)
    /\ Registered(dispatch[h]) /\ dispatch[h].abort = "stop"
    /\ cancel' = IF cancel[h].step = "idle"
                   THEN [cancel EXCEPT ![h] = Cancelling(h, fence[h])] ELSE cancel
    /\ Go(h, "cancelling")
    /\ UNCHANGED <<durable, fence, hosts, sent>>

CancelReturns(h) ==
    /\ At(h, "cancelling")
    /\ cancel[h].step = "idle"
    /\ Leaves(h)
    /\ UNCHANGED <<durable, fence, inFlight, hosts>>

CancelAt(h, step) == h \in alive /\ cancel[h].step = step

CloseCancelledPartial(h) ==
    /\ CancelAt(h, "closing")
    /\ dispatch[h].snapshot => h \notin handoff
    /\ partials' = IF dispatch[h].snapshot THEN Saved(dispatch[h].id) ELSE partials
    /\ cancel' = [cancel EXCEPT ![h].step = "commit"]
    /\ UNCHANGED <<request, stopping, lease, fence, dispatch, hosts, sent>>

ClosureTimesOut(h) ==
    /\ CancelAt(h, "closing")
    /\ dispatch[h].snapshot
    /\ h \notin handoff
    /\ cancel' = [cancel EXCEPT ![h] = [@ EXCEPT !.step = "commit", !.gaveUp = TRUE]]
    /\ sent' = sent \/ Sends("partial", h)
    /\ UNCHANGED <<durable, fence, dispatch, hosts>>

CommitCancel(h) ==
    /\ CancelAt(h, "commit")
    /\ Fenced(h, cancel[h].generation)
    /\ request' = IF Open THEN Ended("cancelled") ELSE request
    /\ cancel' = [cancel EXCEPT ![h].step = "after"]
    /\ UNCHANGED <<partials, stopping, lease, fence, dispatch, hosts, sent>>

\* A dispatch whose open committed before the cancellation has registered by now: both answers of
\* the database arrive in their order.
MutAbortAfterCancel(h) ==
    /\ CancelAt(h, "after")
    /\ cancel' = [cancel EXCEPT ![h] = NoCancel]
    /\ UNCHANGED <<durable, fence, dispatch, hosts, sent>>

AbortAfterCancel(h) ==
    /\ CancelAt(h, "after")
    /\ dispatch[h].step # "opened"
    /\ cancel' = [cancel EXCEPT ![h] = NoCancel]
    /\ dispatch' = [dispatch EXCEPT ![h] = Aborted(@, "stop")]
    /\ UNCHANGED <<durable, fence, hosts, sent>>

\* The cancellation fails: its Host shuts down, or has lost the Turn.  The transport stops anyway.
CancelFails(h) ==
    /\ \/ /\ CancelAt(h, "closing")
          /\ dispatch[h].snapshot
          /\ h \in handoff
       \/ CancelAt(h, "commit") /\ ~Fenced(h, cancel[h].generation)
    /\ cancel' = [cancel EXCEPT ![h] = NoCancel]
    /\ IF dispatch[h].step = "cancelling"
         THEN Leaves(h) /\ fence' = [fence EXCEPT ![h] = 0]
         ELSE dispatch' = [dispatch EXCEPT ![h] = Aborted(@, "handoff")] /\ UNCHANGED fence
    /\ UNCHANGED <<durable, hosts, sent>>

---------------------------------------------------------------------------

\* What the drive and its timers do without the provider.
DriveStep(h) ==
    \/ BeginDispatch(h) \/ DelayEnds(h) \/ OpenSocket(h) \/ RegisterActiveSocket(h)
    \/ SubmitCompleted(h) \/ AdapterResolves(h) \/ TransportFails(h)
    \/ FinalizePartialOutput(h) \/ FinalizationTimesOut(h) \/ FailRequest(h) \/ CreateTransientRetry(h)
    \/ HandsOver(h)
    \/ DispatchCancelled(h) \/ CancelReturns(h)
    \/ At(h, "idle") /\ StartCancel(h)

CancelStep(h) ==
    \/ CloseCancelledPartial(h) \/ ClosureTimesOut(h) \/ CommitCancel(h)
    \/ AbortAfterCancel(h) \/ CancelFails(h)

ModelNext ==
    \/ UserStops \/ LeaseLapses \/ \E w \in sent : CommitCompleted(w) \/ CommitLatePartial(w)
    \/ \E h \in ModelHosts :
        \/ Claim(h) \/ HandBack(h) \/ QuiesceTurn(h) \/ QuiesceAll(h) \/ HostDies(h) \/ HostExits(h)
        \/ PreparationFails(h) \/ Delta(h) \/ Done(h) \/ StartCancel(h)
        \/ DriveStep(h) \/ CancelStep(h)

ModelFairness ==
    \A h \in ModelHosts :
        /\ WF_modelVars(Claim(h)) /\ WF_modelVars(HostExits(h))
        /\ WF_modelVars(DriveStep(h)) /\ WF_modelVars(CancelStep(h))

ModelSafe == ModelInit /\ [][ModelNext]_modelVars
ModelSpec == ModelSafe /\ ModelFairness

---------------------------------------------------------------------------
(* Properties.                                                             *)

Identities == (1..MaxAttempts) \X (0..MaxFaults + 1)

Requests == [status : {"prepared", "streaming", "retrying", "terminal"},
             outcome : {"none", "completed", "failed", "cancelled"},
             attempt : 1..MaxAttempts, socket : 0..MaxFaults + 1]

Generations == 0..2 * MaxFaults + 1

Leases == [holder : ModelHosts \cup {NoHost}, generation : Generations, lapsed : BOOLEAN]

Dispatches ==
    [step : {"idle", "delay", "prepare", "opened", "stream", "display", "fail", "retry", "cancelling"},
     id : Identities \cup {<<0, 0>>}, output : BOOLEAN, callback : {"none", "writing", "sent", "ended"},
     abort : {"no", "own", "stop", "handoff"}, snapshot : BOOLEAN]

Cancels == [step : {"idle", "closing", "commit", "after"}, generation : Generations, gaveUp : BOOLEAN]

Writes == {"completed", "partial"} \X ModelHosts \X (Generations \ {0}) \X Identities

\* The type invariant: a request opens at most one socket per attempt, and one more for each
\* Host that ends, lease that lapses or Turn that is handed back (the rows, and the maps of ModelProviderControlPlane).
ModelTypeOK ==
    /\ request \in Requests
    /\ partials \subseteq Identities
    /\ stopping \in BOOLEAN
    /\ handoff \subseteq ModelHosts /\ alive \subseteq ModelHosts
    /\ lease \in Leases
    /\ fence \in [ModelHosts -> Generations]
    /\ dispatch \in [ModelHosts -> Dispatches]
    /\ cancel \in [ModelHosts -> Cancels]
    /\ sent \subseteq Writes
    /\ faults \in 0..MaxFaults

\* A completion, a failure, a retry, a cancellation and the late display of a failure race for one
\* request on two Hosts: the first end stands, nothing is written for the request after it, and a
\* Host that shuts down or loses the Turn never ends it as cancelled, which only a Stop does
\* (databaseWorker.ts:1418, terminalizeRequest, createTransientRetry, quiesceAllActiveDispatches).
EndStands ==
    [][IF Open THEN request'.outcome = "cancelled" => stopping
       ELSE UNCHANGED <<request, partials>>]_modelVars

\* When a Stop ends the request, the output that its abort froze at the transport of the request is
\* in the transcript, unless the bounded closure ran out of time (cancelCurrentRequestOnce).
StopKeepsOutput ==
    [][\A h \in ModelHosts :
         /\ Open /\ request'.outcome = "cancelled"
         /\ cancel[h].step = "commit" /\ cancel'[h].step = "after" /\ ~cancel[h].gaveUp
         /\ dispatch[h].abort = "stop" /\ dispatch[h].snapshot /\ dispatch[h].id = Current
         => Current \in partials]_modelVars

\* No transport outlives what ended it: once a cancellation has returned on the Host that has the
\* Turn, and once a Host shuts down, no transport there is left running, though it may have
\* registered after the abort (cancelCurrentRequestOnce, registerActiveSocket).
NoTransportOutlives ==
    \A h \in ModelHosts :
        /\ At(h, "stream") /\ dispatch[h].abort = "no"
        => /\ h \notin handoff
           /\ request.outcome = "cancelled" /\ Fenced(h, fence[h]) => cancel[h].step # "idle"

\* However Hosts end and leases lapse, a Host that is left ends the request: it resumes a request
\* that another one had opened, and the deadlines end a silent provider (dispatchRequest).
RequestSettles == <>(request.status = "terminal")

\* A Stop seals the request only after the display closure of its transport: what the comment at
\* modelProviderControlPlane.ts:2616 asks of a Stop that arrives after the socket unregisters.
SealedAfterDisplay ==
    request.outcome = "cancelled" =>
        \A h \in ModelHosts : At(h, "display") /\ dispatch[h].id = Current => Current \in partials

=============================================================================
