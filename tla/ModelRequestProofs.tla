------------------------- MODULE ModelRequestProofs -------------------------
(***************************************************************************)
(* Proofs about ModelRequest for any Hosts, attempts and faults.           *)
(* ModelInv is inductive.  A dispatch that still runs under the lease of   *)
(* the Turn dispatches the current identity of the request (DrivesCurrent) *)
(* because nobody else may move it; identities only go forward (ShapeOK),  *)
(* so an output that was frozen and saved stays that of the request.       *)
(* SocketsCounted charges every transport of an attempt to the fault that  *)
(* made it necessary.                                                      *)
(***************************************************************************)
EXTENDS ModelRequest, TLAPS

USE DEF modelVars, durable, hosts, inFlight

---------------------------------------------------------------------------
(* The invariant. *)

Count(b) == IF b THEN 1 ELSE 0

\* The lease is held by a Host that stays, and has not lapsed.
Held == lease.holder \in alive \ handoff /\ ~lease.lapsed

\* Whoever drives under the lease of the Turn.
UnderLease(h) == fence[h] # 0 /\ Fenced(h, fence[h])

LeaseOK ==
    /\ lease.generation <= 2 * faults + Count(Held)
    /\ lease.holder # NoHost => lease.generation > 0
    /\ lease.lapsed \/ handoff # {} => faults >= 1
    /\ Held /\ ~stopping => fence[lease.holder] = lease.generation

\* A fence is that of the lease or of an earlier one.
FenceOK(h) ==
    fence[h] # 0 => h \in alive /\ (fence[h] < lease.generation \/ Fenced(h, fence[h]))

RequestOK ==
    Open => request.outcome = "none" /\ (request.status = "streaming" <=> request.socket > 0)

\* A drive under the lease that has not yet opened a transport for this attempt.
Due(h) ==
    /\ UnderLease(h)
    /\ \/ dispatch[h].step \in {"delay", "prepare"}
       \/ dispatch[h].step = "idle" /\ ~stopping

MayOpen == lease.holder \in alive /\ Due(lease.holder)

\* Every transport of an attempt but the first is due to a fault.
SocketsCounted == Open => request.socket + Count(MayOpen) <= faults + Count(Held)

\* An identity the request has had.
Past(id) ==
    \/ id[1] < request.attempt
    \/ id[1] = request.attempt /\ id[2] <= request.socket

ShapeOK(h) ==
    LET d == dispatch[h] IN
    /\ d.step = "idle" => d = NoDispatch
    /\ d.step # "idle" => fence[h] # 0 /\ d.id \in Identities
    /\ Past(d.id)
    /\ d.step \in {"opened", "stream", "display", "retry"} \/ d.snapshot \/ d.callback # "none"
       => d.id[2] > 0
    /\ d.step = "retry" => d.id[1] < MaxAttempts
    /\ d.step \in {"prepare", "opened"} => d.abort = "no"
    /\ d.snapshot => d.abort # "no" /\ d.step # "delay"
    /\ d.abort = "stop" => stopping /\ d.step \in {"delay", "stream", "cancelling"}
    /\ d.abort = "handoff" => h \in handoff \/ stopping \/ lease.lapsed \/ ~UnderLease(h)

\* Nobody but the drive under the lease moves the request.
DrivesCurrent(h) ==
    UnderLease(h) /\ Open =>
        /\ dispatch[h].step # "idle" => dispatch[h].id = Current
        /\ dispatch[h].callback # "ended"

CancelOK(h) ==
    /\ cancel[h].step # "idle" => h \in alive /\ stopping
    /\ cancel[h].step = "after" => ~Open
    /\ dispatch[h].step = "cancelling" => stopping /\ (cancel[h].step = "idle" => ~Open)
    /\ cancel[h].step # "idle" /\ dispatch[h].step # "idle" /\ UnderLease(h) =>
          cancel[h].generation = fence[h]

\* What a cancellation that is about to commit has saved.
SavedOK(h) ==
    /\ Open /\ cancel[h].step = "commit" /\ ~cancel[h].gaveUp
    /\ dispatch[h].abort = "stop" /\ dispatch[h].snapshot /\ dispatch[h].id = Current
    => Current \in partials

\* A transport nobody has aborted, or one about to be registered.
OutlivesOK(h) ==
    dispatch[h].step \in {"opened", "stream"} /\ dispatch[h].abort = "no" =>
        /\ dispatch[h].step = "stream" => h \notin handoff
        /\ request.outcome = "cancelled" /\ UnderLease(h) => cancel[h].step # "idle"

HostOK(h) ==
    FenceOK(h) /\ ShapeOK(h) /\ DrivesCurrent(h) /\ CancelOK(h) /\ SavedOK(h) /\ OutlivesOK(h)

ModelInv ==
    /\ ModelTypeOK /\ LeaseOK /\ RequestOK /\ SocketsCounted
    /\ \A h \in ModelHosts : HostOK(h)

---------------------------------------------------------------------------
(* Operators. *)

LEMMA NoneTypes == NoDispatch \in Dispatches /\ NoCancel \in Cancels /\ <<1, 0>> \in Identities
  BY ModelAssumption DEF NoDispatch, NoCancel, Dispatches, Cancels, Generations, Identities

\* Aborting changes nothing but the abort and the frozen snapshot, and no abort is taken back.
LEMMA AbortedIs ==
  ASSUME NEW d \in Dispatches, NEW reason \in {"own", "stop", "handoff"}
  PROVE  /\ Aborted(d, reason) \in Dispatches
         /\ Aborted(d, reason).step = d.step /\ Aborted(d, reason).id = d.id
         /\ Aborted(d, reason).callback = d.callback
         /\ \/ Aborted(d, reason) = d
            \/ /\ Registered(d) /\ d.abort = "no" /\ Aborted(d, reason).abort = reason
               /\ Aborted(d, reason).snapshot => d.step = "stream"
         /\ Registered(d) => Aborted(d, reason).abort # "no"
         /\ Aborted(d, reason).abort = "no" => Aborted(d, reason) = d
  <1>1. CASE Registered(d) /\ d.abort = "no"
    <2> DEFINE a == [d EXCEPT !.abort = reason,
                              !.snapshot = d.step = "stream" /\ d.output /\ d.callback = "none"]
    <2>1. Aborted(d, reason) = a
      BY <1>1 DEF Aborted
    <2>2. (d.step = "stream" /\ d.output /\ d.callback = "none") \in BOOLEAN
      BY DEF Dispatches
    <2>3. a \in Dispatches
      BY <2>2 DEF Dispatches
    <2>4. /\ a.step = d.step /\ a.id = d.id /\ a.callback = d.callback /\ a.abort = reason
          /\ a.snapshot => d.step = "stream"
      BY DEF Dispatches
    <2> QED
      BY <1>1, <2>1, <2>3, <2>4
  <1>2. CASE ~(Registered(d) /\ d.abort = "no")
    BY <1>2 DEF Aborted
  <1> QED
    BY <1>1, <1>2

LEMMA RegistersIs ==
  ASSUME NEW h, NEW s \in {"delay", "stream"}, NEW id \in Identities
  PROVE  /\ Registers(h, s, id) \in Dispatches
         /\ Registers(h, s, id).step = s /\ Registers(h, s, id).id = id
         /\ Registers(h, s, id).callback = "none" /\ Registers(h, s, id).snapshot = FALSE
         /\ Registers(h, s, id).abort = IF h \in handoff THEN "handoff" ELSE "no"
  BY DEF Registers, NoDispatch, Dispatches

\* Only the locals of one Host change.
Only(h) ==
    /\ dispatch' = [dispatch EXCEPT ![h] = dispatch'[h]]
    /\ cancel' = [cancel EXCEPT ![h] = cancel'[h]]
    /\ fence' = [fence EXCEPT ![h] = fence'[h]]

LEMMA OnlyIs ==
  ASSUME ModelTypeOK, NEW h \in ModelHosts, Only(h)
  PROVE  /\ \A k \in ModelHosts \ {h} :
               dispatch'[k] = dispatch[k] /\ cancel'[k] = cancel[k] /\ fence'[k] = fence[k]
         /\ dispatch'[h] \in Dispatches /\ cancel'[h] \in Cancels /\ fence'[h] \in Generations =>
               /\ dispatch' \in [ModelHosts -> Dispatches] /\ cancel' \in [ModelHosts -> Cancels]
               /\ fence' \in [ModelHosts -> Generations]
  BY DEF ModelTypeOK, Only

LEMMA OnlyDispatch ==
  ASSUME ModelTypeOK, NEW h \in ModelHosts, NEW d, dispatch' = [dispatch EXCEPT ![h] = d],
         UNCHANGED <<cancel, fence>>
  PROVE  Only(h) /\ dispatch'[h] = d
  BY DEF ModelTypeOK, Only

LEMMA GoIs ==
  ASSUME ModelTypeOK, NEW h \in ModelHosts, NEW s, Go(h, s)
  PROVE  /\ dispatch'[h] = [dispatch[h] EXCEPT !.step = s]
         /\ dispatch'[h].step = s /\ dispatch'[h].id = dispatch[h].id
         /\ dispatch'[h].abort = dispatch[h].abort /\ dispatch'[h].snapshot = dispatch[h].snapshot
         /\ dispatch'[h].callback = dispatch[h].callback
         /\ UNCHANGED <<cancel, fence>> => Only(h)
  <1>1. dispatch[h] \in Dispatches
    BY DEF ModelTypeOK
  <1>2. dispatch'[h] = [dispatch[h] EXCEPT !.step = s]
    BY DEF Go, ModelTypeOK
  <1> QED
    BY <1>1, <1>2 DEF Go, ModelTypeOK, Dispatches, Only

LEMMA LeavesIs ==
  ASSUME ModelTypeOK, NEW h \in ModelHosts, Leaves(h)
  PROVE  /\ dispatch'[h] = NoDispatch
         /\ UNCHANGED <<cancel, fence>> => Only(h)
  BY DEF Leaves, ModelTypeOK, Only

---------------------------------------------------------------------------
(* Type correctness. *)

LEMMA TypeInit == ModelInit => ModelTypeOK
  <1> SUFFICES ASSUME ModelInit PROVE ModelTypeOK
    OBVIOUS
  <1>1. request \in Requests
    BY ModelAssumption DEF ModelInit, Requests
  <1>2. lease \in Leases /\ fence \in [ModelHosts -> Generations] /\ faults \in 0..MaxFaults
    BY ModelAssumption DEF ModelInit, Leases, Generations
  <1> QED
    BY <1>1, <1>2, NoneTypes DEF ModelInit, ModelTypeOK

\* What the request may become, and what it never does.
Forward ==
    \/ UNCHANGED request
    \/ /\ Open
       /\ \/ \E o \in {"completed", "failed", "cancelled"} : request' = Ended(o)
          \/ request' = [request EXCEPT !.status = "streaming", !.socket = @ + 1]
          \/ request' = Retrying

LEMMA ForwardIs ==
  ASSUME request \in Requests, Forward
  PROVE  /\ Open' => Open
         /\ ~Open => UNCHANGED request
         /\ \/ request'.attempt = request.attempt /\ request'.socket \in {request.socket, request.socket + 1}
            \/ request'.attempt = request.attempt + 1 /\ request'.socket = 0
         /\ \A id \in Identities \cup {<<0, 0>>} :
               Past(id) => Past(id)' /\ (Current' = id => Current = id)
  <1>1. request.attempt \in Nat /\ request.socket \in Nat
    BY ModelAssumption DEF Requests
  <1>2. /\ Open' => Open
        /\ ~Open => UNCHANGED request
        /\ \/ request'.attempt = request.attempt /\ request'.socket \in {request.socket, request.socket + 1}
           \/ request'.attempt = request.attempt + 1 /\ request'.socket = 0
    BY <1>1 DEF Forward, Open, Ended, Retrying, Requests
  <1>3. ASSUME NEW id \in Identities \cup {<<0, 0>>}, Past(id)
        PROVE  Past(id)' /\ (Current' = id => Current = id)
    <2>1. id[1] \in Nat /\ id[2] \in Nat
      BY ModelAssumption DEF Identities
    <2>2. Past(id)'
      BY <1>1, <1>2, <1>3, <2>1 DEF Past
    <2>3. Current' = id => Current = id
      <3>1. SUFFICES ASSUME Current' = id PROVE Current = id
        OBVIOUS
      <3>2. request'.attempt = id[1] /\ request'.socket = id[2]
        BY <3>1 DEF Current
      <3>3. request.attempt = id[1] /\ request.socket = id[2]
        BY <1>1, <1>2, <1>3, <2>1, <3>2 DEF Past
      <3>4. id = <<id[1], id[2]>>
        BY DEF Identities
      <3> QED
        BY <3>3, <3>4 DEF Current
    <2> QED
      BY <2>2, <2>3
  <1> QED
    BY <1>2, <1>3

\* A transport is opened for the current identity while one is still due.
LEMMA OpenIs ==
  ASSUME ModelInv, NEW h \in ModelHosts, OpenSocket(h)
  PROVE  \/ /\ Open /\ Current = dispatch[h].id /\ UnderLease(h)
            /\ request' = [request EXCEPT !.status = "streaming", !.socket = @ + 1]
            /\ request' \in Requests /\ Current' \in Identities
            /\ dispatch'[h] = [dispatch[h] EXCEPT !.step = "opened", !.id = Current']
            /\ Only(h)
         \/ request' = request /\ Leaves(h) /\ ~(Open /\ Current = dispatch[h].id)
  <1>0. /\ request \in Requests /\ dispatch[h] \in Dispatches
        /\ dispatch \in [ModelHosts -> Dispatches]
        /\ request.socket \in Nat /\ request.attempt \in 1..MaxAttempts /\ faults \in 0..MaxFaults
    BY DEF ModelInv, ModelTypeOK, Requests
  <1>1. UnderLease(h) /\ h \in alive
    BY DEF OpenSocket, At, Drives, UnderLease
  <1>2. CASE Open /\ Current = dispatch[h].id
    <2>1. MayOpen
      BY <1>1 DEF MayOpen, Due, OpenSocket, At, UnderLease, Fenced
    <2>2. request.socket + 1 \in 0..MaxFaults + 1
      BY <1>0, <1>2, <2>1, ModelAssumption DEF ModelInv, SocketsCounted, Count
    <2>3. request' = [request EXCEPT !.status = "streaming", !.socket = @ + 1]
      BY <1>2 DEF OpenSocket
    <2>4. request' \in Requests /\ Current' = <<request.attempt, request.socket + 1>>
      BY <1>0, <2>2, <2>3 DEF Requests, Current
    <2>5. Current' \in Identities
      BY <1>0, <2>2, <2>4 DEF Identities
    <2>6. dispatch' = [dispatch EXCEPT ![h] = [dispatch[h] EXCEPT !.step = "opened", !.id = Current']]
      BY <1>2 DEF OpenSocket
    <2>7. dispatch'[h] = [dispatch[h] EXCEPT !.step = "opened", !.id = Current'] /\ Only(h)
      BY <2>6, OnlyDispatch DEF OpenSocket, ModelInv
    <2> QED
      BY <1>1, <1>2, <2>3, <2>4, <2>5, <2>7
  <1>3. CASE ~(Open /\ Current = dispatch[h].id)
    BY <1>3 DEF OpenSocket
  <1> QED
    BY <1>2, <1>3

\* A retry is the next attempt of the policy.
LEMMA RetryIs ==
  ASSUME ModelInv, NEW h \in ModelHosts, CreateTransientRetry(h)
  PROVE  \/ /\ Streams(dispatch[h].id) /\ Open /\ UnderLease(h)
            /\ request' = Retrying /\ request' \in Requests
            /\ Current' \in Identities /\ Current' = <<request.attempt + 1, 0>>
            /\ dispatch'[h] = Registers(h, "delay", Current')
            /\ Only(h)
         \/ request' = request /\ Leaves(h) /\ ~Streams(dispatch[h].id)
  <1>0. /\ request \in Requests /\ dispatch \in [ModelHosts -> Dispatches]
        /\ request.attempt \in 1..MaxAttempts
        /\ dispatch[h].step = "retry" => dispatch[h].id[1] < MaxAttempts
    BY DEF ModelInv, ModelTypeOK, Requests, HostOK, ShapeOK
  <1>1. CASE Streams(dispatch[h].id)
    <2>1. request.attempt + 1 \in 1..MaxAttempts
      BY <1>0, <1>1, ModelAssumption DEF CreateTransientRetry, At, Streams, Current
    <2>2. request' = Retrying /\ request' \in Requests /\ Current' = <<request.attempt + 1, 0>>
      <3>1. request' = Retrying
        BY <1>1 DEF CreateTransientRetry
      <3>2. request'.attempt = request.attempt + 1 /\ request'.socket = 0
        BY <1>0, <3>1 DEF Retrying, Requests
      <3>3. request' \in Requests
        <4>1. 0 \in 0..MaxFaults + 1
          BY ModelAssumption
        <4> QED
          BY <1>0, <2>1, <3>1, <4>1 DEF Retrying, Requests
      <3> QED
        BY <3>1, <3>2, <3>3 DEF Current
    <2>3. Current' \in Identities
      BY <2>1, <2>2, ModelAssumption DEF Identities
    <2>4. dispatch' = [dispatch EXCEPT ![h] = Registers(h, "delay", Current')]
      BY <1>1, <2>2 DEF CreateTransientRetry
    <2>5. dispatch'[h] = Registers(h, "delay", Current') /\ Only(h)
      BY <2>4, OnlyDispatch DEF CreateTransientRetry, ModelInv
    <2>6. UnderLease(h) /\ Open
      BY <1>1 DEF CreateTransientRetry, At, Drives, UnderLease, Streams, Open
    <2> QED
      BY <1>1, <2>2, <2>3, <2>5, <2>6
  <1>2. CASE ~Streams(dispatch[h].id)
    BY <1>2 DEF CreateTransientRetry
  <1> QED
    BY <1>1, <1>2

LEMMA EndedType ==
  ASSUME request \in Requests, NEW o \in {"completed", "failed", "cancelled"}
  PROVE  Ended(o) \in Requests
  BY DEF Ended, Requests

---------------------------------------------------------------------------
(* The Host that steps. *)

\* What a dispatch that has left, and a drive that has ended, leave behind.
LEMMA LeftOK ==
  ASSUME ModelInv, NEW h \in ModelHosts, dispatch'[h] = NoDispatch, FenceOK(h)',
         request' \in Requests,
         cancel'[h].step # "idle" => h \in alive' /\ stopping',
         cancel'[h].step = "after" => ~Open'
  PROVE  HostOK(h)'
  <1>1. /\ dispatch'[h].step = "idle" /\ dispatch'[h].abort = "no" /\ ~dispatch'[h].snapshot
        /\ dispatch'[h].callback = "none" /\ dispatch'[h].id = <<0, 0>>
    BY DEF NoDispatch
  <1>2. ShapeOK(h)'
    <2>1. Past(<<0, 0>>)'
      BY DEF Past, Requests
    <2> QED
      BY <1>1, <2>1 DEF ShapeOK
  <1>3. DrivesCurrent(h)'
    BY <1>1 DEF DrivesCurrent
  <1>4. CancelOK(h)'
    BY <1>1 DEF CancelOK
  <1>5. SavedOK(h)' /\ OutlivesOK(h)'
    BY <1>1 DEF SavedOK, OutlivesOK
  <1> QED
    BY <1>2, <1>3, <1>4, <1>5 DEF HostOK

\* Everything but the dispatch of the Host and the writes under way stays.
Stays == UNCHANGED <<request, partials, stopping, lease, alive, handoff, faults, cancel, fence>>

\* A dispatch that goes on with its identity, and is not aborted or frozen by that.
LEMMA MovedOK ==
  ASSUME ModelInv, NEW h \in ModelHosts, Stays,
         LET d == dispatch[h]
             e == dispatch'[h]
         IN  /\ d.step # "idle" /\ e.step \notin {"idle", "cancelling"}
             /\ e.id = d.id /\ e.abort = d.abort /\ e.snapshot = d.snapshot
             /\ \/ e.callback = d.callback
                \/ d.id[2] > 0 /\ (e.callback = "ended" => ~(UnderLease(h) /\ Open))
             /\ e.step \in {"opened", "stream", "display", "retry"} => d.id[2] > 0
             /\ e.step = "retry" => d.id[1] < MaxAttempts
             /\ e.step \in {"opened", "stream"} => e.step = d.step
             /\ e.step = "prepare" => d.abort = "no"
             /\ e.step = "delay" \/ d.abort = "stop" => e.step = d.step
  PROVE  HostOK(h)'
  <1>0. HostOK(h)
    BY DEF ModelInv
  <1>1. FenceOK(h)'
    BY <1>0 DEF HostOK, FenceOK, Stays, Fenced
  <1>2. ShapeOK(h)'
    BY <1>0 DEF HostOK, ShapeOK, Stays, Past, UnderLease, Fenced
  <1>3. DrivesCurrent(h)'
    BY <1>0 DEF HostOK, DrivesCurrent, Stays, UnderLease, Fenced, Open, Current
  <1>4. CancelOK(h)'
    BY <1>0 DEF HostOK, CancelOK, Stays, UnderLease, Fenced, Open
  <1>5. SavedOK(h)'
    BY <1>0 DEF HostOK, SavedOK, Stays, Open, Current
  <1>6. OutlivesOK(h)'
    BY <1>0 DEF HostOK, OutlivesOK, Stays, UnderLease, Fenced
  <1> QED
    BY <1>1, <1>2, <1>3, <1>4, <1>5, <1>6 DEF HostOK

\* A dispatch, or a transport, that registers or begins.
LEMMA RegisteredOK ==
  ASSUME ModelInv, NEW h \in ModelHosts, Stays,
         LET e == dispatch'[h]
         IN  /\ e.step \in {"prepare", "delay", "stream"} /\ e.id \in Identities /\ Past(e.id) /\ fence[h] # 0
             /\ e.callback = "none" /\ ~e.snapshot
             /\ \/ e.abort = "no"
                \/ e.abort = "handoff" /\ h \in handoff /\ e.step # "prepare"
             /\ e.step = "stream" =>
                   /\ dispatch[h].step = "opened" /\ dispatch[h].abort = "no" /\ e.id = dispatch[h].id
                   /\ e.abort = "no" => h \notin handoff
             /\ UnderLease(h) /\ Open => e.id = Current
             /\ cancel[h].step # "idle" => dispatch[h].step # "idle"
  PROVE  HostOK(h)'
  <1>0. HostOK(h)
    BY DEF ModelInv
  <1>1. FenceOK(h)'
    BY <1>0 DEF HostOK, FenceOK, Stays, Fenced
  <1>2. ShapeOK(h)'
    BY <1>0 DEF HostOK, ShapeOK, Stays, Past, UnderLease, Fenced
  <1>3. DrivesCurrent(h)'
    BY <1>0 DEF HostOK, DrivesCurrent, Stays, UnderLease, Fenced, Open, Current
  <1>4. CancelOK(h)'
    BY <1>0 DEF HostOK, CancelOK, Stays, UnderLease, Fenced, Open
  <1>5. SavedOK(h)'
    BY <1>0 DEF HostOK, SavedOK, Stays, Open, Current
  <1>6. OutlivesOK(h)'
    BY <1>0 DEF HostOK, OutlivesOK, Stays, UnderLease, Fenced
  <1> QED
    BY <1>1, <1>2, <1>3, <1>4, <1>5, <1>6 DEF HostOK

\* A dispatch that is aborted for a stop or a handoff.
LEMMA AbortedOK ==
  ASSUME ModelInv, NEW h \in ModelHosts, NEW reason \in {"stop", "handoff"},
         dispatch'[h] = Aborted(dispatch[h], reason),
         fence'[h] = fence[h],
         UNCHANGED <<request, partials, stopping, lease, alive>>, h \in handoff => h \in handoff',
         reason = "stop" => stopping,
         reason = "handoff" => h \in handoff' \/ stopping \/ lease.lapsed \/ ~UnderLease(h),
         dispatch[h].step = "opened" /\ dispatch[h].abort = "no"
             /\ request.outcome = "cancelled" /\ UnderLease(h) => cancel'[h].step # "idle",
         CancelOK(h)', SavedOK(h)'
  PROVE  HostOK(h)'
  <1>0. /\ HostOK(h) /\ dispatch[h] \in Dispatches
        /\ dispatch'[h].step = dispatch[h].step /\ dispatch'[h].id = dispatch[h].id
        /\ dispatch'[h].callback = dispatch[h].callback
        /\ \/ dispatch'[h] = dispatch[h]
           \/ /\ Registered(dispatch[h]) /\ dispatch[h].abort = "no" /\ dispatch'[h].abort = reason
              /\ dispatch'[h].snapshot => dispatch[h].step = "stream"
        /\ Registered(dispatch[h]) => dispatch'[h].abort # "no"
        /\ dispatch'[h].abort = "no" => dispatch'[h] = dispatch[h]
    <2>1. dispatch[h] \in Dispatches /\ HostOK(h)
      BY DEF ModelInv, ModelTypeOK
    <2> QED
      BY <2>1, AbortedIs
  <1>1. FenceOK(h)'
    BY <1>0 DEF HostOK, FenceOK, Fenced
  <1>2. ShapeOK(h)'
    <2>1. CASE dispatch'[h] = dispatch[h]
      BY <1>0, <2>1 DEF HostOK, ShapeOK, Past, UnderLease, Fenced
    <2>2. CASE /\ Registered(dispatch[h]) /\ dispatch[h].abort = "no" /\ dispatch'[h].abort = reason
               /\ dispatch'[h].snapshot => dispatch[h].step = "stream"
      BY <1>0, <2>2 DEF HostOK, ShapeOK, Past, UnderLease, Fenced, Registered
    <2> QED
      BY <1>0, <2>1, <2>2
  <1>3. DrivesCurrent(h)'
    BY <1>0 DEF HostOK, DrivesCurrent, UnderLease, Fenced, Open, Current
  <1>4. OutlivesOK(h)'
    BY <1>0 DEF HostOK, OutlivesOK, UnderLease, Fenced, Registered
  <1> QED
    BY <1>1, <1>2, <1>3, <1>4 DEF HostOK

\* A Host whose own dispatch, cancellation and fence stay, whatever the others do.
LEMMA BystanderOK ==
  ASSUME ModelInv, NEW k \in ModelHosts,
         dispatch'[k] = dispatch[k], cancel'[k] = cancel[k], fence'[k] = fence[k],
         k \in alive => k \in alive', k \in handoff' <=> k \in handoff,
         stopping => stopping', partials \subseteq partials', Forward,
         \/ lease' = lease
         \/ lease'.holder = lease.holder /\ lease'.generation = lease.generation /\ lease'.lapsed
         \/ lease'.holder # k /\ lease'.generation = lease.generation + 1,
         \/ UNCHANGED request
         \/ lease' = lease /\ (UnderLease(k) => ~Open' /\ request'.outcome # "cancelled")
  PROVE  HostOK(k)'
  <1>0. /\ HostOK(k) /\ dispatch[k] \in Dispatches /\ request \in Requests
        /\ lease.generation \in Nat /\ fence[k] \in Nat
    BY DEF ModelInv, ModelTypeOK, Leases, Generations
  <1>1. UnderLease(k)' => UnderLease(k) /\ lease'.holder = lease.holder
    BY <1>0 DEF UnderLease, Fenced, HostOK, FenceOK
  <1>2. FenceOK(k)'
    BY <1>0 DEF HostOK, FenceOK, Fenced
  <1>3. /\ Past(dispatch[k].id)'
        /\ Current' = dispatch[k].id => Current = dispatch[k].id
        /\ Open' => Open /\ (UNCHANGED request \/ ~UnderLease(k))
        /\ ~Open => UNCHANGED request
    <2>1. dispatch[k].id \in Identities \cup {<<0, 0>>} /\ Past(dispatch[k].id)
      BY <1>0 DEF Dispatches, HostOK, ShapeOK
    <2> QED
      BY <1>0, <2>1, ForwardIs
  <1>4. ShapeOK(k)'
    <2>1. k \in handoff \/ stopping \/ lease.lapsed \/ ~UnderLease(k)
             => k \in handoff' \/ stopping' \/ lease'.lapsed \/ ~UnderLease(k)'
      BY <1>1 DEF UnderLease, Fenced
    <2> QED
      BY <1>0, <1>3, <2>1 DEF HostOK, ShapeOK
  <1>5. DrivesCurrent(k)'
    BY <1>0, <1>1, <1>3 DEF HostOK, DrivesCurrent, Current
  <1>6. CancelOK(k)'
    BY <1>0, <1>1, <1>3 DEF HostOK, CancelOK
  <1>7. SavedOK(k)'
    BY <1>0, <1>3 DEF HostOK, SavedOK
  <1>8. OutlivesOK(k)'
    BY <1>0, <1>1 DEF HostOK, OutlivesOK
  <1> QED
    BY <1>2, <1>4, <1>5, <1>6, <1>7, <1>8 DEF HostOK

---------------------------------------------------------------------------
(* Steps of one Host. *)

LEMMA RequestStep ==
  ASSUME ModelInv, Forward
  PROVE  RequestOK'
  <1>1. request \in Requests /\ RequestOK /\ request.socket \in Nat
    BY DEF ModelInv, ModelTypeOK, Requests
  <1>2. CASE UNCHANGED request
    BY <1>1, <1>2 DEF RequestOK, Open
  <1>3. CASE \E o \in {"completed", "failed", "cancelled"} : request' = Ended(o)
    BY <1>1, <1>3 DEF RequestOK, Ended, Open, Requests
  <1>4. CASE Open /\ request' = [request EXCEPT !.status = "streaming", !.socket = @ + 1]
    <2>1. /\ request'.status = "streaming" /\ request'.socket = request.socket + 1
          /\ request'.outcome = request.outcome
      BY <1>1, <1>4 DEF Requests
    <2> QED
      BY <1>1, <1>4, <2>1 DEF RequestOK
  <1>5. CASE Open /\ request' = Retrying
    <2>1. request'.status = "retrying" /\ request'.socket = 0 /\ request'.outcome = request.outcome
      BY <1>1, <1>5 DEF Requests, Retrying
    <2> QED
      BY <1>1, <1>5, <2>1 DEF RequestOK
  <1> QED
    BY <1>2, <1>3, <1>4, <1>5 DEF Forward

\* A Host that moves nothing of the lease: the others stand by.
LEMMA HostStep ==
  ASSUME ModelInv, NEW h \in ModelHosts, Only(h),
         UNCHANGED <<stopping, lease, alive, handoff, faults>>,
         dispatch'[h] \in Dispatches, cancel'[h] \in Cancels, sent' \subseteq Writes,
         request' \in Requests, partials' \subseteq Identities, partials \subseteq partials',
         UNCHANGED request \/ (Forward /\ lease.holder = h),
         fence'[h] = fence[h] \/ (fence'[h] = 0 /\ ~(Held /\ ~stopping /\ UnderLease(h))),
         HostOK(h)', SocketsCounted'
  PROVE  ModelInv'
  <1>0. ModelTypeOK
    BY DEF ModelInv
  <1>1. ModelTypeOK'
    <2>1. fence'[h] \in Generations
      BY <1>0, ModelAssumption DEF ModelTypeOK, Generations
    <2>2. /\ dispatch' \in [ModelHosts -> Dispatches] /\ cancel' \in [ModelHosts -> Cancels]
          /\ fence' \in [ModelHosts -> Generations]
      BY <1>0, <2>1, OnlyIs
    <2> QED
      BY <1>0, <2>2 DEF ModelTypeOK
  <1>2. Forward
    BY DEF Forward
  <1>3. ASSUME NEW k \in ModelHosts PROVE HostOK(k)'
    <2>1. CASE k = h
      BY <2>1
    <2>2. CASE k # h
      <3>1. dispatch'[k] = dispatch[k] /\ cancel'[k] = cancel[k] /\ fence'[k] = fence[k]
        BY <1>0, <2>2, OnlyIs
      <3>2. lease.holder = h => ~UnderLease(k)
        BY <2>2 DEF UnderLease, Fenced
      <3> QED
        BY <1>2, <3>1, <3>2, BystanderOK
    <2> QED
      BY <2>1, <2>2
  <1>4. LeaseOK'
    <2>1. LeaseOK /\ Held' = Held
      BY DEF ModelInv, Held
    <2>2. Held /\ ~stopping => fence'[lease.holder] = lease.generation
      <3>1. SUFFICES ASSUME Held, ~stopping PROVE fence'[lease.holder] = lease.generation
        OBVIOUS
      <3>2. /\ lease.holder \in ModelHosts /\ fence[lease.holder] = lease.generation
            /\ lease.generation > 0 /\ lease.generation \in Nat
        BY <1>0, <2>1, <3>1, ModelAssumption DEF LeaseOK, Held, ModelTypeOK, Leases, Generations
      <3>3. lease.holder = h => UnderLease(h)
        BY <3>2 DEF UnderLease, Fenced
      <3> QED
        BY <1>0, <3>1, <3>2, <3>3, OnlyIs
    <2> QED
      BY <2>1, <2>2 DEF LeaseOK
  <1>5. RequestOK'
    BY <1>2, RequestStep
  <1> QED
    BY <1>1, <1>3, <1>4, <1>5 DEF ModelInv

\* No transport becomes due.
LEMMA CountedOK ==
  ASSUME ModelInv, NEW h \in ModelHosts, Only(h),
         UNCHANGED <<stopping, lease, alive, handoff, faults>>,
         Open' => UNCHANGED request,
         Open' /\ Due(h)' => Due(h)
  PROVE  SocketsCounted'
  <1>0. ModelTypeOK /\ SocketsCounted
    BY DEF ModelInv
  <1>1. SUFFICES ASSUME Open' PROVE request'.socket + Count(MayOpen)' <= faults + Count(Held)
    BY DEF SocketsCounted, Held, Count
  <1>2. Open /\ request' = request
    BY <1>1 DEF Open
  <1>3. MayOpen' => MayOpen
    <2>1. SUFFICES ASSUME MayOpen' PROVE MayOpen
      OBVIOUS
    <2>2. lease.holder \in alive /\ lease.holder \in ModelHosts /\ Due(lease.holder)'
      BY <1>0, <2>1 DEF MayOpen, ModelTypeOK
    <2>3. CASE lease.holder = h
      BY <1>1, <2>2, <2>3 DEF MayOpen
    <2>4. CASE lease.holder # h
      BY <1>0, <2>2, <2>4, OnlyIs DEF MayOpen, Due, UnderLease, Fenced
    <2> QED
      BY <2>3, <2>4
  <1>4. request.socket \in Nat /\ faults \in Nat
    BY <1>0, ModelAssumption DEF ModelTypeOK, Requests
  <1> QED
    BY <1>0, <1>1, <1>2, <1>3, <1>4 DEF SocketsCounted, Count

\* A step of the dispatch alone.
LEMMA DispatchStep ==
  ASSUME ModelInv, NEW h \in ModelHosts, Only(h), Stays,
         dispatch'[h] \in Dispatches, sent' \subseteq Writes, HostOK(h)',
         Open /\ Due(h)' => Due(h)
  PROVE  ModelInv'
  <1>1. request \in Requests /\ partials \subseteq Identities /\ cancel[h] \in Cancels
    BY DEF ModelInv, ModelTypeOK
  <1>2. SocketsCounted'
    BY CountedOK DEF Stays, Open
  <1>3. /\ UNCHANGED <<stopping, lease, alive, handoff, faults>> /\ UNCHANGED request
        /\ partials' = partials /\ cancel'[h] = cancel[h] /\ fence'[h] = fence[h]
    BY DEF Stays
  <1>4. /\ partials \subseteq partials' /\ partials' \subseteq Identities
        /\ request' \in Requests /\ cancel'[h] \in Cancels
    BY <1>1, <1>3
  <1> QED
    BY <1>1, <1>2, <1>3, <1>4, HostStep

\* What is known of a dispatch that is under way.
LEMMA AtIs ==
  ASSUME ModelInv, NEW h \in ModelHosts, NEW s, At(h, s), s # "idle"
  PROVE  /\ dispatch[h] \in Dispatches /\ sent \subseteq Writes /\ HostOK(h)
         /\ dispatch[h].step = s /\ fence[h] # 0 /\ h \in alive
         /\ dispatch[h].id \in Identities /\ Past(dispatch[h].id)
  BY DEF ModelInv, ModelTypeOK, HostOK, ShapeOK, At, Drives

LEMMA BeginDispatchStep ==
  ASSUME ModelInv, NEW h \in ModelHosts, BeginDispatch(h)
  PROVE  ModelInv'
  <1>0. /\ HostOK(h) /\ sent \subseteq Writes /\ ModelTypeOK /\ fence[h] # 0 /\ ~stopping
        /\ dispatch[h].step = "idle" /\ h \notin handoff
    BY DEF ModelInv, ModelTypeOK, BeginDispatch, At, Drives
  <1>1. Current \in Identities /\ Past(Current) /\ request \in Requests
    BY <1>0 DEF ModelTypeOK, Requests, Current, Identities, Past
  <1>2. /\ Only(h) /\ dispatch'[h].step \in {"prepare", "delay"} /\ dispatch'[h].id = Current
        /\ dispatch'[h].abort = "no" /\ dispatch'[h].callback = "none" /\ ~dispatch'[h].snapshot
        /\ dispatch'[h] \in Dispatches
    <2> DEFINE p == [NoDispatch EXCEPT !.step = "prepare", !.id = Current]
    <2>1. CASE dispatch' = [dispatch EXCEPT ![h] = p]
      <3>1. Only(h) /\ dispatch'[h] = p
        BY <1>0, <2>1, OnlyDispatch DEF BeginDispatch
      <3>2. /\ p \in Dispatches /\ p.step = "prepare" /\ p.id = Current /\ p.abort = "no"
            /\ p.callback = "none" /\ ~p.snapshot
        BY <1>1 DEF NoDispatch, Dispatches
      <3> QED
        BY <3>1, <3>2
    <2>2. CASE dispatch' = [dispatch EXCEPT ![h] = Registers(h, "delay", Current)]
      <3>1. Only(h) /\ dispatch'[h] = Registers(h, "delay", Current)
        BY <1>0, <2>2, OnlyDispatch DEF BeginDispatch
      <3> QED
        BY <1>0, <1>1, <3>1 DEF Registers, NoDispatch, Dispatches
    <2> QED
      BY <2>1, <2>2 DEF BeginDispatch
  <1>3. Stays /\ sent' = sent
    BY DEF BeginDispatch, Stays
  <1>4. cancel[h].step = "idle"
    BY <1>0 DEF HostOK, CancelOK
  <1>5. HostOK(h)'
    BY <1>0, <1>1, <1>2, <1>3, <1>4, RegisteredOK
  <1>6. Due(h)' => Due(h)
    BY <1>0, <1>3 DEF Due, Stays, UnderLease, Fenced
  <1> QED
    BY <1>0, <1>2, <1>3, <1>5, <1>6, DispatchStep

\* A dispatch that is dropped, in an open request only when no transport becomes due by that.
LEMMA LeavesStep ==
  ASSUME ModelInv, NEW h \in ModelHosts, Leaves(h), Stays, sent' = sent,
         \/ dispatch[h].step \in {"delay", "prepare"} \/ stopping
         \/ ~(Open /\ UnderLease(h))
  PROVE  ModelInv'
  <1>0. HostOK(h) /\ sent \subseteq Writes /\ ModelTypeOK /\ request \in Requests
    BY DEF ModelInv, ModelTypeOK
  <1>1. dispatch'[h] = NoDispatch /\ Only(h)
    BY <1>0, LeavesIs DEF Stays
  <1>2. HostOK(h)'
    <2>1. FenceOK(h)'
      BY <1>0 DEF HostOK, FenceOK, Stays, Fenced
    <2>2. /\ cancel'[h].step # "idle" => h \in alive' /\ stopping'
          /\ cancel'[h].step = "after" => ~Open'
      BY <1>0 DEF HostOK, CancelOK, Stays, Open
    <2> QED
      BY <1>0, <1>1, <2>1, <2>2, LeftOK DEF Stays
  <1>3. Open /\ Due(h)' => Due(h)
    BY <1>1 DEF Due, Stays, UnderLease, Fenced, NoDispatch
  <1> QED
    BY <1>0, <1>1, <1>2, <1>3, NoneTypes, DispatchStep

LEMMA DelayEndsStep ==
  ASSUME ModelInv, NEW h \in ModelHosts, DelayEnds(h)
  PROVE  ModelInv'
  <1>0. Stays /\ sent' = sent /\ At(h, "delay") /\ dispatch[h].abort = "no"
    BY DEF DelayEnds, Stays
  <1>1. CASE Go(h, "prepare")
    <2>1. /\ dispatch[h] \in Dispatches /\ sent \subseteq Writes /\ HostOK(h)
          /\ dispatch[h].step = "delay" /\ ModelTypeOK
      BY <1>0, AtIs DEF ModelInv
    <2>2. /\ dispatch'[h].step = "prepare" /\ dispatch'[h].id = dispatch[h].id
          /\ dispatch'[h].abort = dispatch[h].abort /\ dispatch'[h].snapshot = dispatch[h].snapshot
          /\ dispatch'[h].callback = dispatch[h].callback
          /\ dispatch'[h] = [dispatch[h] EXCEPT !.step = "prepare"] /\ Only(h)
      BY <1>0, <1>1, <2>1, GoIs DEF Stays
    <2>3. HostOK(h)'
      BY <1>0, <2>1, <2>2, MovedOK
    <2>4. dispatch'[h] \in Dispatches
      BY <2>1, <2>2 DEF Dispatches
    <2>5. Open /\ Due(h)' => Due(h)
      BY <1>0, <2>1 DEF Due, Stays, UnderLease, Fenced
    <2> QED
      BY <1>0, <2>1, <2>2, <2>3, <2>4, <2>5, DispatchStep
  <1>2. CASE Leaves(h)
    BY <1>0, <1>2, LeavesStep DEF At
  <1> QED
    BY <1>1, <1>2 DEF DelayEnds

LEMMA PreparationFailsStep ==
  ASSUME ModelInv, NEW h \in ModelHosts, PreparationFails(h)
  PROVE  ModelInv'
  <1>0. Stays /\ sent' = sent /\ At(h, "prepare")
    BY DEF PreparationFails, Stays
  <1>1. /\ dispatch[h] \in Dispatches /\ sent \subseteq Writes /\ HostOK(h)
        /\ dispatch[h].step = "prepare" /\ dispatch[h].abort = "no" /\ ModelTypeOK
    BY <1>0, AtIs DEF ModelInv, HostOK, ShapeOK
  <1>2. /\ dispatch'[h].step = "fail" /\ dispatch'[h].id = dispatch[h].id
        /\ dispatch'[h].abort = dispatch[h].abort /\ dispatch'[h].snapshot = dispatch[h].snapshot
        /\ dispatch'[h].callback = dispatch[h].callback
        /\ dispatch'[h] = [dispatch[h] EXCEPT !.step = "fail"] /\ Only(h)
    BY <1>0, <1>1, GoIs DEF Stays, PreparationFails
  <1>3. HostOK(h)'
    BY <1>0, <1>1, <1>2, MovedOK
  <1>4. dispatch'[h] \in Dispatches /\ ~Due(h)'
    BY <1>1, <1>2 DEF Dispatches, Due
  <1> QED
    BY <1>0, <1>1, <1>2, <1>3, <1>4, DispatchStep

LEMMA RegisterActiveSocketStep ==
  ASSUME ModelInv, NEW h \in ModelHosts, RegisterActiveSocket(h)
  PROVE  ModelInv'
  <1>0. Stays /\ sent' = sent /\ At(h, "opened")
    BY DEF RegisterActiveSocket, Stays
  <1>1. /\ dispatch[h] \in Dispatches /\ sent \subseteq Writes /\ HostOK(h)
        /\ dispatch[h].step = "opened" /\ dispatch[h].abort = "no" /\ ModelTypeOK
        /\ dispatch[h].id \in Identities /\ Past(dispatch[h].id) /\ fence[h] # 0
    BY <1>0, AtIs DEF ModelInv, HostOK, ShapeOK
  <1>2. Only(h) /\ dispatch'[h] = Registers(h, "stream", dispatch[h].id)
    BY <1>1, OnlyDispatch DEF RegisterActiveSocket
  <1>3. /\ dispatch'[h].step = "stream" /\ dispatch'[h].id = dispatch[h].id
        /\ dispatch'[h].callback = "none" /\ dispatch'[h].snapshot = FALSE
        /\ dispatch'[h] \in Dispatches
        /\ dispatch'[h].abort = IF h \in handoff THEN "handoff" ELSE "no"
    BY <1>1, <1>2 DEF Registers, NoDispatch, Dispatches
  <1>4. HostOK(h)'
    BY <1>0, <1>1, <1>3, RegisteredOK DEF HostOK, DrivesCurrent
  <1>5. ~Due(h)'
    BY <1>3 DEF Due
  <1> QED
    BY <1>0, <1>1, <1>2, <1>3, <1>4, <1>5, DispatchStep

\* A callback of the transport: its dispatch stays registered, not aborted.
LEMMA CallbackStep ==
  ASSUME ModelInv, NEW h \in ModelHosts, Authority(h), Stays, Only(h),
         dispatch'[h] \in Dispatches, sent' \subseteq Writes,
         dispatch'[h].step = dispatch[h].step, dispatch'[h].id = dispatch[h].id,
         dispatch'[h].abort = dispatch[h].abort, dispatch'[h].snapshot = dispatch[h].snapshot,
         dispatch'[h].callback \in {dispatch[h].callback, "writing", "sent"}
  PROVE  ModelInv'
  <1>1. /\ HostOK(h) /\ dispatch[h].step = "stream" /\ dispatch[h].id[2] > 0
        /\ dispatch[h].abort = "no"
    BY AtIs DEF Authority, HostOK, ShapeOK
  <1>2. HostOK(h)'
    BY <1>1, MovedOK
  <1>3. ~Due(h)'
    BY <1>1 DEF Due
  <1> QED
    BY <1>2, <1>3, DispatchStep

LEMMA DeltaStep ==
  ASSUME ModelInv, NEW h \in ModelHosts, Delta(h)
  PROVE  ModelInv'
  <1>0. Stays /\ dispatch[h] \in Dispatches /\ ModelTypeOK /\ sent' \subseteq Writes /\ Authority(h)
    BY DEF Delta, Stays, ModelInv, ModelTypeOK
  <1>1. dispatch'[h] = [dispatch[h] EXCEPT !.output = TRUE] /\ Only(h)
    BY <1>0 DEF Delta, Only, ModelTypeOK
  <1>2. /\ dispatch'[h] \in Dispatches
        /\ dispatch'[h].step = dispatch[h].step /\ dispatch'[h].id = dispatch[h].id
        /\ dispatch'[h].abort = dispatch[h].abort /\ dispatch'[h].snapshot = dispatch[h].snapshot
        /\ dispatch'[h].callback = dispatch[h].callback
    BY <1>0, <1>1 DEF Dispatches
  <1> QED
    BY <1>0, <1>1, <1>2, CallbackStep

LEMMA DoneStep ==
  ASSUME ModelInv, NEW h \in ModelHosts, Done(h)
  PROVE  ModelInv'
  <1>0. Stays /\ dispatch[h] \in Dispatches /\ ModelTypeOK /\ sent' \subseteq Writes /\ Authority(h)
    BY DEF Done, Stays, ModelInv, ModelTypeOK
  <1>1. dispatch'[h] = [dispatch[h] EXCEPT !.callback = "writing"] /\ Only(h)
    BY <1>0 DEF Done, Only, ModelTypeOK
  <1>2. /\ dispatch'[h] \in Dispatches
        /\ dispatch'[h].step = dispatch[h].step /\ dispatch'[h].id = dispatch[h].id
        /\ dispatch'[h].abort = dispatch[h].abort /\ dispatch'[h].snapshot = dispatch[h].snapshot
        /\ dispatch'[h].callback = "writing"
    BY <1>0, <1>1 DEF Dispatches
  <1> QED
    BY <1>0, <1>1, <1>2, CallbackStep

LEMMA SendsType ==
  ASSUME ModelInv, NEW h \in ModelHosts, NEW s, At(h, s), s # "idle",
         NEW kind \in {"completed", "partial"}, Sends(kind, h)
  PROVE  sent' \subseteq Writes
  <1>1. dispatch[h].id \in Identities /\ sent \subseteq Writes /\ fence[h] # 0
    BY AtIs
  <1>2. fence[h] \in Generations \ {0}
    BY <1>1 DEF ModelInv, ModelTypeOK
  <1>3. <<kind, h, fence[h], dispatch[h].id>> \in Writes
    BY <1>1, <1>2 DEF Writes
  <1> QED
    BY <1>1, <1>3 DEF Sends

LEMMA SubmitCompletedStep ==
  ASSUME ModelInv, NEW h \in ModelHosts, SubmitCompleted(h)
  PROVE  ModelInv'
  <1>0. Stays /\ dispatch[h] \in Dispatches /\ ModelTypeOK /\ Authority(h)
    BY DEF SubmitCompleted, Stays, ModelInv, ModelTypeOK
  <1>1. dispatch'[h] = [dispatch[h] EXCEPT !.callback = "sent"] /\ Only(h)
    BY <1>0 DEF SubmitCompleted, Only, ModelTypeOK
  <1>2. /\ dispatch'[h] \in Dispatches
        /\ dispatch'[h].step = dispatch[h].step /\ dispatch'[h].id = dispatch[h].id
        /\ dispatch'[h].abort = dispatch[h].abort /\ dispatch'[h].snapshot = dispatch[h].snapshot
        /\ dispatch'[h].callback = "sent"
    BY <1>0, <1>1 DEF Dispatches
  <1>3. sent' \subseteq Writes
    BY SendsType DEF SubmitCompleted, Authority
  <1> QED
    BY <1>0, <1>1, <1>2, <1>3, CallbackStep

LEMMA AdapterResolvesStep ==
  ASSUME ModelInv, NEW h \in ModelHosts, AdapterResolves(h)
  PROVE  ModelInv'
  <1>1. HostOK(h) /\ Stays /\ sent' = sent /\ Leaves(h) /\ dispatch[h].callback = "ended"
    BY DEF AdapterResolves, Stays, ModelInv
  <1>2. ~(Open /\ UnderLease(h))
    BY <1>1 DEF HostOK, DrivesCurrent
  <1> QED
    BY <1>1, <1>2, LeavesStep

\* A dispatch whose transport has failed.
LEMMA RetiredStep ==
  ASSUME ModelInv, NEW h \in ModelHosts, Authority(h), Stays, Only(h), sent' = sent,
         dispatch'[h] \in Dispatches, dispatch'[h].id = dispatch[h].id, dispatch'[h].abort = "own",
         dispatch'[h].callback = dispatch[h].callback,
         \/ dispatch'[h].step \in {"display", "fail"}
         \/ dispatch'[h].step = "retry" /\ dispatch[h].id[1] < MaxAttempts
  PROVE  ModelInv'
  <1>1. /\ HostOK(h) /\ dispatch[h].step = "stream" /\ dispatch[h].id[2] > 0 /\ sent \subseteq Writes
        /\ dispatch[h].id \in Identities /\ Past(dispatch[h].id) /\ fence[h] # 0
    BY AtIs DEF Authority, HostOK, ShapeOK
  <1>2. FenceOK(h)'
    BY <1>1 DEF HostOK, FenceOK, Stays, Fenced
  <1>3. ShapeOK(h)'
    BY <1>1 DEF ShapeOK, Stays, Past
  <1>4. DrivesCurrent(h)' /\ CancelOK(h)'
    BY <1>1 DEF HostOK, DrivesCurrent, CancelOK, Stays, UnderLease, Fenced, Open, Current
  <1>5. SavedOK(h)' /\ OutlivesOK(h)'
    BY <1>1 DEF SavedOK, OutlivesOK
  <1>6. HostOK(h)' /\ ~Due(h)'
    BY <1>2, <1>3, <1>4, <1>5 DEF HostOK, Due
  <1> QED
    BY <1>1, <1>6, DispatchStep

LEMMA TransportFailsStep ==
  ASSUME ModelInv, NEW h \in ModelHosts, TransportFails(h)
  PROVE  ModelInv'
  <1> DEFINE frozen == Aborted(dispatch[h], "own")
             r == [dispatch[h] EXCEPT !.abort = "own", !.step = "retry"]
             e == [frozen EXCEPT !.step = IF frozen.snapshot THEN "display" ELSE "fail"]
  <1>0. /\ Stays /\ sent' = sent /\ dispatch[h] \in Dispatches /\ ModelTypeOK
        /\ Authority(h) /\ dispatch[h].abort = "no" /\ Registered(dispatch[h])
    BY DEF TransportFails, Stays, ModelInv, ModelTypeOK, Authority, At, Registered
  <1>1. CASE dispatch[h].id[1] < MaxAttempts /\ dispatch' = [dispatch EXCEPT ![h] = r]
    <2>1. dispatch'[h] = r /\ Only(h)
      BY <1>0, <1>1, OnlyDispatch DEF TransportFails
    <2>2. /\ r \in Dispatches /\ r.id = dispatch[h].id /\ r.abort = "own" /\ r.step = "retry"
          /\ r.callback = dispatch[h].callback
      BY <1>0 DEF Dispatches
    <2> QED
      BY <1>0, <1>1, <2>1, <2>2, RetiredStep
  <1>2. CASE dispatch' = [dispatch EXCEPT ![h] = e]
    <2>1. dispatch'[h] = e /\ Only(h)
      BY <1>0, <1>2, OnlyDispatch DEF TransportFails
    <2>2. /\ frozen \in Dispatches /\ frozen.id = dispatch[h].id
          /\ frozen.abort = "own" /\ frozen.callback = dispatch[h].callback
      <3>1. "own" \in {"own", "stop", "handoff"}
        OBVIOUS
      <3> QED
        BY <1>0, <3>1, AbortedIs
    <2>3. /\ e \in Dispatches /\ e.id = frozen.id /\ e.abort = frozen.abort
          /\ e.step \in {"display", "fail"} /\ e.callback = frozen.callback
      <3> HIDE DEF frozen
      <3> QED
        BY <2>2 DEF Dispatches
    <2>4. /\ e \in Dispatches /\ e.id = dispatch[h].id /\ e.abort = "own"
          /\ e.step \in {"display", "fail"} /\ e.callback = dispatch[h].callback
      BY <2>2, <2>3
    <2> HIDE DEF e
    <2> QED
      BY <1>0, <2>1, <2>4, RetiredStep
  <1> QED
    BY <1>1, <1>2 DEF TransportFails

LEMMA QuiesceTurnStep ==
  ASSUME ModelInv, NEW h \in ModelHosts, QuiesceTurn(h)
  PROVE  ModelInv'
  <1>0. /\ Stays /\ sent' = sent /\ sent \subseteq Writes /\ dispatch[h] \in Dispatches /\ ModelTypeOK
        /\ HostOK(h) /\ lease.lapsed
        /\ dispatch' = [dispatch EXCEPT ![h] = Aborted(dispatch[h], "handoff")]
    BY DEF QuiesceTurn, Stays, ModelInv, ModelTypeOK
  <1>1. Only(h) /\ dispatch'[h] = Aborted(dispatch[h], "handoff")
    BY <1>0, OnlyDispatch DEF Stays
  <1>2. /\ dispatch'[h] \in Dispatches
        /\ dispatch'[h].step = dispatch[h].step /\ dispatch'[h].id = dispatch[h].id
        /\ \/ dispatch'[h] = dispatch[h]
           \/ dispatch'[h].abort = "handoff"
    BY <1>0, <1>1, AbortedIs
  <1>3. CancelOK(h)' /\ SavedOK(h)'
    BY <1>0, <1>2 DEF HostOK, CancelOK, SavedOK, Stays, UnderLease, Fenced, Open, Current
  <1>4. HostOK(h)'
    BY <1>0, <1>1, <1>3, AbortedOK DEF Stays, HostOK, OutlivesOK
  <1>5. Due(h)' => Due(h)
    BY <1>0, <1>2 DEF Due, Stays, UnderLease, Fenced
  <1> QED
    BY <1>0, <1>1, <1>2, <1>4, <1>5, DispatchStep

LEMMA FinalizationTimesOutStep ==
  ASSUME ModelInv, NEW h \in ModelHosts, FinalizationTimesOut(h)
  PROVE  ModelInv'
  <1>0. Stays /\ At(h, "display")
    BY DEF FinalizationTimesOut, Stays
  <1>1. /\ dispatch[h] \in Dispatches /\ sent \subseteq Writes /\ HostOK(h)
        /\ dispatch[h].step = "display" /\ dispatch[h].abort # "stop" /\ ModelTypeOK
        /\ dispatch[h].id[2] > 0
    BY <1>0, AtIs DEF ModelInv, HostOK, ShapeOK
  <1>2. /\ dispatch'[h].step = "fail" /\ dispatch'[h].id = dispatch[h].id
        /\ dispatch'[h].abort = dispatch[h].abort /\ dispatch'[h].snapshot = dispatch[h].snapshot
        /\ dispatch'[h].callback = dispatch[h].callback
        /\ dispatch'[h] = [dispatch[h] EXCEPT !.step = "fail"] /\ Only(h)
    BY <1>0, <1>1, GoIs DEF Stays, FinalizationTimesOut
  <1>3. HostOK(h)'
    BY <1>0, <1>1, <1>2, MovedOK
  <1>4. dispatch'[h] \in Dispatches /\ ~Due(h)'
    BY <1>1, <1>2 DEF Dispatches, Due
  <1>5. sent' \subseteq Writes
    BY <1>0, <1>1, SendsType DEF FinalizationTimesOut
  <1> QED
    BY <1>0, <1>1, <1>2, <1>3, <1>4, <1>5, DispatchStep

LEMMA HandsOverStep ==
  ASSUME ModelInv, NEW h \in ModelHosts, HandsOver(h)
  PROVE  ModelInv'
  <1>0. /\ HostOK(h) /\ ModelTypeOK /\ UNCHANGED <<durable, inFlight, hosts>> /\ Leaves(h)
        /\ fence' = [fence EXCEPT ![h] = 0] /\ fence[h] # 0
    BY DEF HandsOver, DriveEnds, ModelInv, Drives
  <1>1. dispatch'[h] = NoDispatch /\ fence'[h] = 0 /\ Only(h)
    BY <1>0, LeavesIs DEF ModelTypeOK, Only, Leaves
  <1>2. HostOK(h)'
    <2>1. FenceOK(h)'
      BY <1>1 DEF FenceOK
    <2>2. /\ cancel'[h].step # "idle" => h \in alive' /\ stopping'
          /\ cancel'[h].step = "after" => ~Open'
      BY <1>0 DEF HostOK, CancelOK, Open
    <2> QED
      BY <1>0, <1>1, <2>1, <2>2, LeftOK DEF ModelTypeOK
  <1>3. ~(Held /\ ~stopping /\ UnderLease(h))
    BY <1>0 DEF HandsOver, HostOK, ShapeOK, Held, UnderLease, Fenced
  <1>4. SocketsCounted'
    <2>1. ~Due(h)'
      BY <1>1 DEF Due, UnderLease
    <2> QED
      BY <1>0, <1>1, <2>1, CountedOK
  <1>5. /\ dispatch'[h] \in Dispatches /\ cancel'[h] \in Cancels /\ sent' \subseteq Writes
        /\ request' \in Requests /\ partials' \subseteq Identities /\ partials \subseteq partials'
        /\ UNCHANGED request /\ UNCHANGED <<stopping, lease, alive, handoff, faults>>
    BY <1>0, <1>1, NoneTypes DEF ModelTypeOK
  <1> QED
    BY <1>1, <1>2, <1>3, <1>4, <1>5, HostStep

LEMMA CancelReturnsStep ==
  ASSUME ModelInv, NEW h \in ModelHosts, CancelReturns(h)
  PROVE  ModelInv'
  <1>1. Stays /\ sent' = sent /\ Leaves(h) /\ HostOK(h) /\ dispatch[h].step = "cancelling"
    BY DEF CancelReturns, Stays, ModelInv, At
  <1>2. stopping
    BY <1>1 DEF HostOK, CancelOK
  <1> QED
    BY <1>1, <1>2, LeavesStep

LEMMA SavedIs ==
  ASSUME ModelInv, NEW h \in ModelHosts, dispatch[h].id \in Identities
  PROVE  /\ Saved(dispatch[h].id) \subseteq Identities /\ partials \subseteq Saved(dispatch[h].id)
         /\ Open /\ Current = dispatch[h].id /\ dispatch[h].id[2] > 0 => Current \in Saved(dispatch[h].id)
  BY DEF Saved, ModelInv, ModelTypeOK, Streams, RequestOK, Open, Current

LEMMA FinalizePartialOutputStep ==
  ASSUME ModelInv, NEW h \in ModelHosts, FinalizePartialOutput(h)
  PROVE  ModelInv'
  <1>0. /\ UNCHANGED <<request, stopping, lease, alive, handoff, faults, cancel, fence, sent>>
        /\ At(h, "display") /\ partials' = Saved(dispatch[h].id)
    BY DEF FinalizePartialOutput
  <1>1. /\ dispatch[h] \in Dispatches /\ sent \subseteq Writes /\ HostOK(h) /\ dispatch[h].id \in Identities
        /\ dispatch[h].step = "display" /\ dispatch[h].abort # "stop" /\ ModelTypeOK
    BY <1>0, AtIs DEF ModelInv, HostOK, ShapeOK
  <1>2. /\ dispatch'[h].step = "fail" /\ dispatch'[h].id = dispatch[h].id
        /\ dispatch'[h].abort = dispatch[h].abort /\ dispatch'[h].snapshot = dispatch[h].snapshot
        /\ dispatch'[h].callback = dispatch[h].callback
        /\ dispatch'[h] = [dispatch[h] EXCEPT !.step = "fail"] /\ Only(h)
    BY <1>0, <1>1, GoIs DEF FinalizePartialOutput
  <1>3. HostOK(h)'
    <2>1. FenceOK(h)'
      BY <1>0, <1>1 DEF HostOK, FenceOK, Fenced
    <2>2. ShapeOK(h)'
      BY <1>0, <1>1, <1>2 DEF HostOK, ShapeOK, Past, UnderLease, Fenced
    <2>3. DrivesCurrent(h)'
      BY <1>0, <1>1, <1>2 DEF HostOK, DrivesCurrent, UnderLease, Fenced, Open, Current
    <2>4. CancelOK(h)'
      BY <1>0, <1>1, <1>2 DEF HostOK, CancelOK, UnderLease, Fenced, Open
    <2>5. SavedOK(h)' /\ OutlivesOK(h)'
      BY <1>1, <1>2 DEF SavedOK, OutlivesOK
    <2> QED
      BY <2>1, <2>2, <2>3, <2>4, <2>5 DEF HostOK
  <1>4. dispatch'[h] \in Dispatches
    BY <1>1, <1>2 DEF Dispatches
  <1>5. SocketsCounted'
    <2>1. ~Due(h)'
      BY <1>2 DEF Due
    <2> QED
      BY <1>0, <1>2, <2>1, CountedOK
  <1>6. /\ cancel'[h] \in Cancels /\ sent' \subseteq Writes
        /\ request' \in Requests /\ partials' \subseteq Identities /\ partials \subseteq partials'
        /\ UNCHANGED request /\ fence'[h] = fence[h]
        /\ UNCHANGED <<stopping, lease, alive, handoff, faults>>
    BY <1>0, <1>1, SavedIs DEF ModelTypeOK
  <1> QED
    BY <1>2, <1>3, <1>4, <1>5, <1>6, HostStep

LEMMA FailRequestStep ==
  ASSUME ModelInv, NEW h \in ModelHosts, FailRequest(h)
  PROVE  ModelInv'
  <1>0. /\ UNCHANGED <<partials, stopping, lease, alive, handoff, faults, cancel, fence, sent>>
        /\ At(h, "fail") /\ Leaves(h) /\ Fenced(h, fence[h]) /\ lease.holder = h
    BY DEF FailRequest, Fenced
  <1>1. HostOK(h) /\ dispatch[h].step = "fail" /\ UnderLease(h) /\ ModelTypeOK /\ RequestOK
    BY <1>0, AtIs DEF ModelInv, UnderLease
  <1>2. request' = (IF Open THEN Ended("failed") ELSE request)
    BY <1>1 DEF FailRequest, HostOK, DrivesCurrent
  <1>3. Forward /\ request' \in Requests /\ ~Open'
    BY <1>1, <1>2, EndedType DEF Forward, ModelTypeOK, Open, Ended, Requests
  <1>4. dispatch'[h] = NoDispatch /\ Only(h)
    BY <1>0, <1>1, LeavesIs
  <1>5. HostOK(h)'
    <2>1. FenceOK(h)'
      BY <1>0, <1>1 DEF HostOK, FenceOK, Fenced
    <2>2. /\ cancel'[h].step # "idle" => h \in alive' /\ stopping'
          /\ cancel'[h].step = "after" => ~Open'
      BY <1>0, <1>1, <1>3 DEF HostOK, CancelOK
    <2> QED
      BY <1>3, <1>4, <2>1, <2>2, LeftOK
  <1>6. SocketsCounted'
    BY <1>3 DEF SocketsCounted
  <1>7. /\ dispatch'[h] \in Dispatches /\ cancel'[h] \in Cancels /\ sent' \subseteq Writes
        /\ partials' \subseteq Identities /\ partials \subseteq partials' /\ fence'[h] = fence[h]
        /\ UNCHANGED <<stopping, lease, alive, handoff, faults>>
    BY <1>0, <1>1, <1>4, NoneTypes DEF ModelTypeOK
  <1> QED
    BY <1>0, <1>3, <1>4, <1>5, <1>6, <1>7, HostStep

LEMMA OpenSocketStep ==
  ASSUME ModelInv, NEW h \in ModelHosts, OpenSocket(h)
  PROVE  ModelInv'
  <1>0. /\ UNCHANGED <<partials, stopping, lease, alive, handoff, faults, cancel, fence, sent>>
        /\ At(h, "prepare") /\ lease.holder = h /\ h \in alive
    BY DEF OpenSocket, Fenced, At, Drives
  <1>1. /\ HostOK(h) /\ dispatch[h].step = "prepare" /\ ModelTypeOK /\ RequestOK /\ dispatch[h] \in Dispatches
        /\ request.socket \in Nat /\ request.attempt \in Nat /\ faults \in Nat
    BY <1>0, AtIs, ModelAssumption DEF ModelInv, ModelTypeOK, Requests
  <1>2. CASE request' = request /\ Leaves(h)
    BY <1>0, <1>1, <1>2, LeavesStep DEF Stays
  <1>3. CASE /\ Open /\ Current = dispatch[h].id /\ UnderLease(h)
             /\ request' = [request EXCEPT !.status = "streaming", !.socket = @ + 1]
             /\ request' \in Requests /\ Current' \in Identities
             /\ dispatch'[h] = [dispatch[h] EXCEPT !.step = "opened", !.id = Current']
             /\ Only(h)
    <2>1. /\ request'.socket = request.socket + 1 /\ request'.attempt = request.attempt
          /\ request'.outcome = request.outcome
      BY <1>3 DEF Requests, ModelTypeOK
    <2>2. /\ dispatch'[h] \in Dispatches /\ dispatch'[h].step = "opened" /\ dispatch'[h].id = Current'
          /\ dispatch'[h].abort = dispatch[h].abort /\ dispatch'[h].snapshot = dispatch[h].snapshot
          /\ dispatch'[h].callback = dispatch[h].callback
      <3>1. \A id \in Identities : [dispatch[h] EXCEPT !.step = "opened", !.id = id] \in Dispatches
        BY <1>1 DEF Dispatches
      <3>2. dispatch'[h] \in Dispatches
        BY <1>3, <3>1
      <3> QED
        BY <1>1, <1>3, <3>2 DEF Dispatches
    <2>3. Past(Current)' /\ Current'[2] > 0
      BY <1>1, <2>1 DEF Past, Current
    <2>4. dispatch[h].abort = "no" /\ ~dispatch[h].snapshot /\ fence[h] # 0
      BY <1>1 DEF HostOK, ShapeOK
    <2>5. HostOK(h)'
      <3>1. FenceOK(h)'
        BY <1>0, <1>1 DEF HostOK, FenceOK, Fenced
      <3>2. ShapeOK(h)'
        BY <1>0, <1>3, <2>2, <2>3, <2>4 DEF ShapeOK
      <3>3. DrivesCurrent(h)'
        BY <1>0, <1>1, <1>3, <2>2 DEF HostOK, DrivesCurrent
      <3>4. CancelOK(h)'
        BY <1>0, <1>1, <1>3, <2>2 DEF HostOK, CancelOK, UnderLease, Fenced
      <3>5. SavedOK(h)' /\ OutlivesOK(h)'
        BY <1>1, <1>3, <2>1, <2>2, <2>4 DEF SavedOK, OutlivesOK, RequestOK
      <3> QED
        BY <3>1, <3>2, <3>3, <3>4, <3>5 DEF HostOK
    <2>6. SocketsCounted'
      <3>1. MayOpen
        BY <1>0, <1>1, <1>3 DEF MayOpen, Due
      <3>2. ~MayOpen'
        BY <1>0, <2>2 DEF MayOpen, Due
      <3>3. request.socket + 1 <= faults + Count(Held)
        BY <1>3, <3>1 DEF ModelInv, SocketsCounted, Count
      <3>4. Count(Held)' = Count(Held) /\ Count(MayOpen)' = 0
        BY <1>0, <3>2 DEF Held, Count
      <3> QED
        BY <1>0, <1>1, <2>1, <3>3, <3>4 DEF SocketsCounted, Count
    <2>7. /\ cancel'[h] \in Cancels /\ sent' \subseteq Writes /\ Forward
          /\ partials' \subseteq Identities /\ partials \subseteq partials' /\ fence'[h] = fence[h]
          /\ UNCHANGED <<stopping, lease, alive, handoff, faults>>
      BY <1>0, <1>1, <1>3 DEF ModelTypeOK, Forward
    <2> QED
      BY <1>0, <1>3, <2>2, <2>5, <2>6, <2>7, HostStep
  <1> QED
    BY <1>2, <1>3, OpenIs

LEMMA CreateTransientRetryStep ==
  ASSUME ModelInv, NEW h \in ModelHosts, CreateTransientRetry(h)
  PROVE  ModelInv'
  <1>0. /\ UNCHANGED <<partials, stopping, lease, alive, handoff, faults, cancel, fence, sent>>
        /\ At(h, "retry") /\ lease.holder = h /\ h \in alive
    BY DEF CreateTransientRetry, Fenced, At, Drives
  <1>1. /\ HostOK(h) /\ dispatch[h].step = "retry" /\ ModelTypeOK /\ RequestOK
        /\ request.attempt \in Nat /\ faults \in Nat /\ dispatch[h].id[2] > 0
    BY <1>0, AtIs, ModelAssumption DEF ModelInv, ModelTypeOK, Requests, HostOK, ShapeOK
  <1>2. CASE request' = request /\ Leaves(h) /\ ~Streams(dispatch[h].id)
    <2>1. ~(Open /\ UnderLease(h))
      BY <1>1, <1>2 DEF HostOK, DrivesCurrent, RequestOK, Streams, Current
    <2> QED
      BY <1>0, <1>2, <2>1, LeavesStep DEF Stays
  <1>3. CASE /\ Streams(dispatch[h].id) /\ Open /\ UnderLease(h)
             /\ request' = Retrying /\ request' \in Requests
             /\ Current' \in Identities /\ Current' = <<request.attempt + 1, 0>>
             /\ dispatch'[h] = Registers(h, "delay", Current')
             /\ Only(h)
    <2>1. /\ request'.attempt = request.attempt + 1 /\ request'.socket = 0
          /\ request'.outcome = request.outcome
      BY <1>3 DEF Requests, ModelTypeOK, Retrying
    <2>2. /\ dispatch'[h] \in Dispatches /\ dispatch'[h].step = "delay" /\ dispatch'[h].id = Current'
          /\ dispatch'[h].snapshot = FALSE /\ dispatch'[h].callback = "none"
          /\ dispatch'[h].abort = "no" \/ (dispatch'[h].abort = "handoff" /\ h \in handoff)
      BY <1>3 DEF Registers, NoDispatch, Dispatches
    <2>3. Past(Current)' /\ fence[h] # 0
      BY <1>1, <1>3, <2>1 DEF Past, Current, UnderLease
    <2>4. HostOK(h)'
      <3>1. FenceOK(h)'
        BY <1>0, <1>1 DEF HostOK, FenceOK, Fenced
      <3>2. ShapeOK(h)'
        BY <1>0, <1>3, <2>2, <2>3 DEF ShapeOK
      <3>3. DrivesCurrent(h)'
        BY <2>2 DEF DrivesCurrent
      <3>4. CancelOK(h)'
        BY <1>0, <1>1, <1>3, <2>2 DEF HostOK, CancelOK, UnderLease, Fenced
      <3>5. SavedOK(h)' /\ OutlivesOK(h)'
        BY <2>2 DEF SavedOK, OutlivesOK
      <3> QED
        BY <3>1, <3>2, <3>3, <3>4, <3>5 DEF HostOK
    <2>5. SocketsCounted'
      <3>1. LeaseOK
        BY DEF ModelInv
      <3>2. 1 <= faults + Count(Held)
        BY <1>0, <1>1, <3>1 DEF LeaseOK, Held, Count
      <3>3. Count(Held)' = Count(Held)
        BY <1>0 DEF Held, Count
      <3> QED
        BY <1>0, <1>1, <2>1, <3>2, <3>3 DEF SocketsCounted, Count
    <2>6. /\ cancel'[h] \in Cancels /\ sent' \subseteq Writes /\ Forward
          /\ partials' \subseteq Identities /\ partials \subseteq partials' /\ fence'[h] = fence[h]
          /\ UNCHANGED <<stopping, lease, alive, handoff, faults>>
      BY <1>0, <1>1, <1>3 DEF ModelTypeOK, Forward
    <2> QED
      BY <1>0, <1>3, <2>2, <2>4, <2>5, <2>6, HostStep
  <1> QED
    BY <1>2, <1>3, RetryIs

LEMMA StartCancelStep ==
  ASSUME ModelInv, NEW h \in ModelHosts, StartCancel(h)
  PROVE  ModelInv'
  <1> DEFINE c == Cancelling(h, lease.generation)
             d == Aborted(dispatch[h], "stop")
  <1>0. /\ UNCHANGED <<request, partials, stopping, lease, alive, handoff, faults, fence, sent>>
        /\ h \in alive /\ stopping /\ Open /\ lease.holder = h /\ cancel[h].step = "idle"
        /\ dispatch' = [dispatch EXCEPT ![h] = d] /\ cancel' = [cancel EXCEPT ![h] = c]
    BY DEF StartCancel
  <1>1. HostOK(h) /\ ModelTypeOK /\ dispatch[h] \in Dispatches /\ lease.generation \in Generations
    BY DEF ModelInv, ModelTypeOK, Leases
  <1>2. /\ c \in Cancels /\ c.generation = lease.generation
        /\ c.step = IF dispatch[h].step = "stream" THEN "closing" ELSE "commit"
    BY <1>1 DEF Cancelling, NoCancel, Cancels, Closes
  <1>3. /\ d \in Dispatches /\ d.step = dispatch[h].step /\ d.id = dispatch[h].id
        /\ d = dispatch[h] \/ (d.snapshot => dispatch[h].step = "stream")
    BY <1>1, AbortedIs
  <1>4. Only(h) /\ dispatch'[h] = d /\ cancel'[h] = c
    <2> HIDE DEF c, d
    <2> QED
      BY <1>0, <1>1 DEF ModelTypeOK, Only
  <1> HIDE DEF c
  <1>5. CancelOK(h)'
    BY <1>0, <1>1, <1>2, <1>3, <1>4 DEF CancelOK, UnderLease, Fenced
  <1>6. SavedOK(h)'
    <2>1. dispatch[h].abort = "stop" => ~dispatch[h].snapshot \/ dispatch[h].step = "stream"
      BY <1>0, <1>1 DEF HostOK, ShapeOK, CancelOK
    <2> HIDE DEF d
    <2> QED
      BY <1>2, <1>3, <1>4, <2>1 DEF SavedOK
  <1>7. HostOK(h)'
    <2>1. cancel'[h].step # "idle"
      BY <1>2, <1>4
    <2> QED
      BY <1>0, <1>4, <1>5, <1>6, <2>1, AbortedOK
  <1>8. SocketsCounted'
    <2>1. Due(h)' => Due(h)
      <3> HIDE DEF d
      <3> QED
        BY <1>0, <1>3, <1>4 DEF Due, UnderLease, Fenced
    <2> QED
      BY <1>0, <1>4, <2>1, CountedOK
  <1>9. /\ dispatch'[h] \in Dispatches /\ cancel'[h] \in Cancels /\ sent' \subseteq Writes
        /\ request' \in Requests /\ partials' \subseteq Identities /\ partials \subseteq partials'
        /\ UNCHANGED request /\ fence'[h] = fence[h]
        /\ UNCHANGED <<stopping, lease, alive, handoff, faults>>
    BY <1>0, <1>1, <1>2, <1>3, <1>4 DEF ModelTypeOK
  <1> QED
    BY <1>4, <1>7, <1>8, <1>9, HostStep

LEMMA DispatchCancelledStep ==
  ASSUME ModelInv, NEW h \in ModelHosts, DispatchCancelled(h)
  PROVE  ModelInv'
  <1> DEFINE c == Cancelling(h, fence[h])
  <1>0. /\ UNCHANGED <<request, partials, stopping, lease, alive, handoff, faults, fence, sent>>
        /\ h \in alive /\ Go(h, "cancelling") /\ dispatch[h].abort = "stop"
        /\ dispatch[h].step \in {"delay", "stream"}
        /\ cancel' = IF cancel[h].step = "idle" THEN [cancel EXCEPT ![h] = c] ELSE cancel
    BY DEF DispatchCancelled, Drives, Registered
  <1>1. HostOK(h) /\ ModelTypeOK /\ dispatch[h] \in Dispatches /\ fence[h] \in Generations
    BY DEF ModelInv, ModelTypeOK
  <1>2. /\ c \in Cancels /\ c.generation = fence[h]
        /\ c.step = IF dispatch[h].step = "stream" THEN "closing" ELSE "commit"
    BY <1>1 DEF Cancelling, NoCancel, Cancels, Closes
  <1> HIDE DEF c
  <1>3. /\ dispatch'[h] = [dispatch[h] EXCEPT !.step = "cancelling"]
        /\ dispatch'[h].step = "cancelling" /\ dispatch'[h].id = dispatch[h].id
        /\ dispatch'[h].abort = "stop" /\ dispatch'[h].snapshot = dispatch[h].snapshot
        /\ dispatch'[h].callback = dispatch[h].callback
    BY <1>0, <1>1, GoIs
  <1>4. Only(h) /\ cancel'[h] = IF cancel[h].step = "idle" THEN c ELSE cancel[h]
    BY <1>0, <1>1 DEF ModelTypeOK, Only, Go
  <1>5. HostOK(h)'
    <2>0. stopping /\ ~(dispatch[h].step = "delay" /\ dispatch[h].snapshot)
      BY <1>0, <1>1 DEF HostOK, ShapeOK
    <2>1. FenceOK(h)'
      BY <1>0, <1>1 DEF HostOK, FenceOK, Fenced
    <2>2. ShapeOK(h)'
      BY <1>0, <1>1, <1>3, <2>0 DEF HostOK, ShapeOK, Past
    <2>3. DrivesCurrent(h)'
      BY <1>0, <1>1, <1>3 DEF HostOK, DrivesCurrent, UnderLease, Fenced, Open, Current
    <2>4. CancelOK(h)'
      BY <1>0, <1>1, <1>2, <1>3, <1>4, <2>0 DEF HostOK, CancelOK, UnderLease, Fenced, Open
    <2>5. SavedOK(h)'
      BY <1>0, <1>1, <1>2, <1>3, <1>4, <2>0 DEF HostOK, SavedOK, Open, Current
    <2>6. OutlivesOK(h)'
      BY <1>3 DEF OutlivesOK
    <2> QED
      BY <2>1, <2>2, <2>3, <2>4, <2>5, <2>6 DEF HostOK
  <1>6. SocketsCounted'
    <2>1. ~Due(h)'
      BY <1>3 DEF Due
    <2> QED
      BY <1>0, <1>4, <2>1, CountedOK
  <1>7. dispatch'[h] \in Dispatches
    BY <1>1, <1>3 DEF Dispatches
  <1>8. /\ cancel'[h] \in Cancels /\ sent' \subseteq Writes
        /\ request' \in Requests /\ partials' \subseteq Identities /\ partials \subseteq partials'
        /\ UNCHANGED request /\ fence'[h] = fence[h]
        /\ UNCHANGED <<stopping, lease, alive, handoff, faults>>
    BY <1>0, <1>1, <1>2, <1>4 DEF ModelTypeOK
  <1> QED
    BY <1>4, <1>5, <1>6, <1>7, <1>8, HostStep

\* The cancellation goes on, and its dispatch stays.
LEMMA CancelMoves ==
  ASSUME ModelInv, NEW h \in ModelHosts, NEW s \in {"commit", "after"},
         UNCHANGED <<stopping, lease, alive, handoff, faults, fence, dispatch>>,
         cancel' = [cancel EXCEPT ![h] = cancel'[h]], cancel'[h] \in Cancels, sent' \subseteq Writes,
         cancel[h].step # "idle", cancel'[h].step = s, cancel'[h].generation = cancel[h].generation,
         s = "after" => ~Open',
         UNCHANGED request \/ (Forward /\ lease.holder = h /\ request' \in Requests /\ ~Open'),
         partials \subseteq partials', partials' \subseteq Identities,
         SavedOK(h)'
  PROVE  ModelInv'
  <1>0. HostOK(h) /\ ModelTypeOK /\ request \in Requests /\ dispatch[h] \in Dispatches
    BY DEF ModelInv, ModelTypeOK
  <1>1. Only(h)
    BY <1>0 DEF Only, ModelTypeOK
  <1>2. Forward /\ request' \in Requests
    BY <1>0 DEF Forward
  <1>3. Past(dispatch[h].id)' /\ (Open' => Open /\ UNCHANGED request)
    <2>1. dispatch[h].id \in Identities \cup {<<0, 0>>} /\ Past(dispatch[h].id)
      BY <1>0 DEF Dispatches, HostOK, ShapeOK
    <2> QED
      BY <1>0, <1>2, <2>1, ForwardIs DEF Open
  <1>4. HostOK(h)'
    <2>1. FenceOK(h)'
      BY <1>0 DEF HostOK, FenceOK, Fenced
    <2>2. ShapeOK(h)'
      BY <1>0, <1>3 DEF HostOK, ShapeOK, UnderLease, Fenced
    <2>3. DrivesCurrent(h)'
      BY <1>0, <1>3 DEF HostOK, DrivesCurrent, UnderLease, Fenced, Current
    <2>4. CancelOK(h)'
      BY <1>0 DEF HostOK, CancelOK, UnderLease, Fenced
    <2>5. OutlivesOK(h)'
      BY <1>0 DEF HostOK, OutlivesOK
    <2> QED
      BY <2>1, <2>2, <2>3, <2>4, <2>5 DEF HostOK
  <1>5. SocketsCounted'
    <2>1. Due(h)' => Due(h)
      BY DEF Due, UnderLease, Fenced
    <2> QED
      BY <1>1, <1>3, <2>1, CountedOK
  <1>6. /\ dispatch'[h] \in Dispatches /\ fence'[h] = fence[h]
        /\ UNCHANGED <<stopping, lease, alive, handoff, faults>>
    BY <1>0
  <1> QED
    BY <1>1, <1>2, <1>4, <1>5, <1>6, HostStep

LEMMA CloseCancelledPartialStep ==
  ASSUME ModelInv, NEW h \in ModelHosts, CloseCancelledPartial(h)
  PROVE  ModelInv'
  <1>0. /\ UNCHANGED <<request, stopping, lease, alive, handoff, faults, fence, dispatch, sent>>
        /\ cancel[h].step = "closing" /\ cancel' = [cancel EXCEPT ![h].step = "commit"]
        /\ partials' = IF dispatch[h].snapshot THEN Saved(dispatch[h].id) ELSE partials
    BY DEF CloseCancelledPartial, CancelAt
  <1>1. HostOK(h) /\ ModelTypeOK /\ cancel[h] \in Cancels /\ dispatch[h] \in Dispatches
    BY DEF ModelInv, ModelTypeOK
  <1>2. /\ cancel'[h] \in Cancels /\ cancel'[h].step = "commit"
        /\ cancel'[h].generation = cancel[h].generation
        /\ cancel' = [cancel EXCEPT ![h] = cancel'[h]]
    <2>1. cancel'[h] = [cancel[h] EXCEPT !.step = "commit"]
      BY <1>0, <1>1 DEF ModelTypeOK
    <2> QED
      BY <1>0, <1>1, <2>1 DEF ModelTypeOK, Cancels
  <1>3. /\ dispatch[h].snapshot => dispatch[h].id \in Identities /\ dispatch[h].id[2] > 0
        /\ partials \subseteq Identities /\ sent' \subseteq Writes
    BY <1>0, <1>1 DEF HostOK, ShapeOK, NoDispatch, ModelTypeOK
  <1>4. partials \subseteq partials' /\ partials' \subseteq Identities
    BY <1>0, <1>3, SavedIs
  <1>5. SavedOK(h)'
    <2>1. SUFFICES ASSUME Open, dispatch[h].snapshot, dispatch[h].id = Current PROVE Current \in partials'
      BY <1>0 DEF SavedOK, Open, Current
    <2> QED
      BY <1>0, <1>3, <2>1, SavedIs
  <1> QED
    BY <1>0, <1>2, <1>3, <1>4, <1>5, CancelMoves

LEMMA ClosureTimesOutStep ==
  ASSUME ModelInv, NEW h \in ModelHosts, ClosureTimesOut(h)
  PROVE  ModelInv'
  <1>0. /\ UNCHANGED <<request, partials, stopping, lease, alive, handoff, faults, fence, dispatch>>
        /\ cancel[h].step = "closing" /\ dispatch[h].snapshot
        /\ cancel' = [cancel EXCEPT ![h] = [cancel[h] EXCEPT !.step = "commit", !.gaveUp = TRUE]]
        /\ sent' = sent \/ Sends("partial", h)
    BY DEF ClosureTimesOut, CancelAt
  <1>1. /\ HostOK(h) /\ ModelTypeOK /\ cancel[h] \in Cancels /\ dispatch[h] \in Dispatches
        /\ sent \subseteq Writes
    BY DEF ModelInv, ModelTypeOK
  <1>2. /\ cancel'[h] \in Cancels /\ cancel'[h].step = "commit" /\ cancel'[h].gaveUp
        /\ cancel'[h].generation = cancel[h].generation
        /\ cancel' = [cancel EXCEPT ![h] = cancel'[h]]
    <2>1. cancel'[h] = [cancel[h] EXCEPT !.step = "commit", !.gaveUp = TRUE]
      BY <1>0, <1>1 DEF ModelTypeOK
    <2> QED
      BY <1>0, <1>1, <2>1 DEF ModelTypeOK, Cancels
  <1>3. sent' \subseteq Writes
    <2>1. CASE sent' = sent
      BY <1>1, <2>1
    <2>2. CASE Sends("partial", h)
      <3>1. dispatch[h].step # "idle"
        BY <1>0, <1>1 DEF HostOK, ShapeOK, NoDispatch
      <3>2. At(h, dispatch[h].step)
        BY <1>1, <3>1 DEF At, Drives, HostOK, ShapeOK, FenceOK
      <3> QED
        BY <2>2, <3>1, <3>2, SendsType
    <2> QED
      BY <1>0, <2>1, <2>2
  <1>4. SavedOK(h)'
    BY <1>2 DEF SavedOK
  <1>5. partials \subseteq partials' /\ partials' \subseteq Identities
    BY <1>0, <1>1 DEF ModelTypeOK
  <1> QED
    BY <1>0, <1>2, <1>3, <1>4, <1>5, CancelMoves

LEMMA CommitCancelStep ==
  ASSUME ModelInv, NEW h \in ModelHosts, CommitCancel(h)
  PROVE  ModelInv'
  <1>0. /\ UNCHANGED <<partials, stopping, lease, alive, handoff, faults, fence, dispatch, sent>>
        /\ cancel[h].step = "commit" /\ cancel' = [cancel EXCEPT ![h].step = "after"]
        /\ lease.holder = h /\ request' = IF Open THEN Ended("cancelled") ELSE request
    BY DEF CommitCancel, CancelAt, Fenced
  <1>1. HostOK(h) /\ ModelTypeOK /\ cancel[h] \in Cancels /\ request \in Requests /\ sent \subseteq Writes
    BY DEF ModelInv, ModelTypeOK
  <1>2. /\ cancel'[h] \in Cancels /\ cancel'[h].step = "after"
        /\ cancel'[h].generation = cancel[h].generation
        /\ cancel' = [cancel EXCEPT ![h] = cancel'[h]]
    <2>1. cancel'[h] = [cancel[h] EXCEPT !.step = "after"]
      BY <1>0, <1>1 DEF ModelTypeOK
    <2> QED
      BY <1>0, <1>1, <2>1 DEF ModelTypeOK, Cancels
  <1>3. Forward /\ request' \in Requests /\ ~Open'
    BY <1>0, <1>1, EndedType DEF Forward, Open, Ended, Requests
  <1>4. SavedOK(h)'
    BY <1>2 DEF SavedOK
  <1>5. partials \subseteq partials' /\ partials' \subseteq Identities /\ sent' \subseteq Writes
    BY <1>0, <1>1 DEF ModelTypeOK
  <1> QED
    BY <1>0, <1>2, <1>3, <1>4, <1>5, CancelMoves

LEMMA AbortAfterCancelStep ==
  ASSUME ModelInv, NEW h \in ModelHosts, AbortAfterCancel(h)
  PROVE  ModelInv'
  <1> DEFINE d == Aborted(dispatch[h], "stop")
  <1>0. /\ UNCHANGED <<request, partials, stopping, lease, alive, handoff, faults, fence, sent>>
        /\ h \in alive /\ cancel[h].step = "after" /\ dispatch[h].step # "opened"
        /\ dispatch' = [dispatch EXCEPT ![h] = d] /\ cancel' = [cancel EXCEPT ![h] = NoCancel]
    BY DEF AbortAfterCancel, CancelAt
  <1>1. HostOK(h) /\ ModelTypeOK /\ dispatch[h] \in Dispatches /\ stopping /\ ~Open
    BY <1>0 DEF ModelInv, ModelTypeOK, HostOK, CancelOK
  <1>2. d \in Dispatches /\ d.step = dispatch[h].step
    BY <1>1, AbortedIs
  <1>3. Only(h) /\ dispatch'[h] = d /\ cancel'[h] = NoCancel /\ cancel'[h].step = "idle"
    <2> HIDE DEF d
    <2> QED
      BY <1>0, <1>1 DEF ModelTypeOK, Only, NoCancel
  <1>4. CancelOK(h)'
    BY <1>0, <1>1, <1>3 DEF CancelOK, Open
  <1>5. SavedOK(h)'
    BY <1>3 DEF SavedOK
  <1>6. HostOK(h)'
    BY <1>0, <1>1, <1>3, <1>4, <1>5, AbortedOK
  <1>7. SocketsCounted'
    BY <1>0, <1>1 DEF SocketsCounted, Open
  <1>8. /\ dispatch'[h] \in Dispatches /\ cancel'[h] \in Cancels /\ sent' \subseteq Writes
        /\ request' \in Requests /\ partials' \subseteq Identities /\ partials \subseteq partials'
        /\ UNCHANGED request /\ fence'[h] = fence[h]
        /\ UNCHANGED <<stopping, lease, alive, handoff, faults>>
    BY <1>0, <1>1, <1>2, <1>3, NoneTypes DEF ModelTypeOK
  <1> QED
    BY <1>3, <1>6, <1>7, <1>8, HostStep

LEMMA CancelFailsStep ==
  ASSUME ModelInv, NEW h \in ModelHosts, CancelFails(h)
  PROVE  ModelInv'
  <1> DEFINE d == Aborted(dispatch[h], "handoff")
  <1>0. /\ UNCHANGED <<request, partials, stopping, lease, alive, handoff, faults, sent>>
        /\ h \in alive /\ cancel[h].step \in {"closing", "commit"}
        /\ cancel' = [cancel EXCEPT ![h] = NoCancel]
        /\ dispatch[h].snapshot \/ ~Fenced(h, cancel[h].generation)
    BY DEF CancelFails, CancelAt
  <1>1. HostOK(h) /\ ModelTypeOK /\ dispatch[h] \in Dispatches /\ stopping
    BY <1>0 DEF ModelInv, ModelTypeOK, HostOK, CancelOK
  <1>2. cancel'[h] = NoCancel /\ cancel'[h].step = "idle"
    BY <1>0, <1>1 DEF ModelTypeOK, NoCancel
  <1>3. /\ cancel'[h] \in Cancels /\ sent' \subseteq Writes
        /\ request' \in Requests /\ partials' \subseteq Identities /\ partials \subseteq partials'
        /\ UNCHANGED request /\ UNCHANGED <<stopping, lease, alive, handoff, faults>>
    BY <1>0, <1>1, <1>2, NoneTypes DEF ModelTypeOK
  <1>4. CASE dispatch[h].step = "cancelling" /\ Leaves(h) /\ fence' = [fence EXCEPT ![h] = 0]
    <2>1. dispatch'[h] = NoDispatch /\ fence'[h] = 0 /\ Only(h)
      BY <1>0, <1>1, <1>4 DEF ModelTypeOK, Only, Leaves
    <2>2. HostOK(h)'
      <3>1. FenceOK(h)'
        BY <2>1 DEF FenceOK
      <3> QED
        BY <1>2, <1>3, <2>1, <3>1, LeftOK
    <2>3. SocketsCounted'
      <3>1. ~Due(h)'
        BY <2>1 DEF Due, UnderLease
      <3> QED
        BY <1>0, <2>1, <3>1, CountedOK
    <2> QED
      BY <1>1, <1>3, <2>1, <2>2, <2>3, NoneTypes, HostStep
  <1>5. CASE /\ dispatch[h].step # "cancelling" /\ UNCHANGED fence
             /\ dispatch' = [dispatch EXCEPT ![h] = d]
    <2>1. d \in Dispatches /\ d.step = dispatch[h].step
      BY <1>1, AbortedIs
    <2>2. Only(h) /\ dispatch'[h] = d /\ fence'[h] = fence[h]
      <3> HIDE DEF d
      <3> QED
        BY <1>0, <1>1, <1>5 DEF ModelTypeOK, Only
    <2>3. CancelOK(h)'
      BY <1>2, <1>5, <2>1, <2>2 DEF CancelOK
    <2>4. SavedOK(h)'
      BY <1>2 DEF SavedOK
    <2>5. dispatch[h].step = "opened" /\ dispatch[h].abort = "no" => ~UnderLease(h)
      BY <1>0, <1>1 DEF HostOK, ShapeOK, CancelOK, UnderLease
    <2>6. HostOK(h)'
      BY <1>0, <1>1, <2>2, <2>3, <2>4, <2>5, AbortedOK
    <2>7. SocketsCounted'
      <3>1. Due(h)' => Due(h)
        <4> HIDE DEF d
        <4> QED
          BY <1>0, <2>1, <2>2 DEF Due, UnderLease, Fenced
      <3> QED
        BY <1>0, <2>2, <3>1, CountedOK
    <2> QED
      BY <1>3, <2>1, <2>2, <2>6, <2>7, HostStep
  <1> QED
    BY <1>4, <1>5 DEF CancelFails

\* A completed event that is written ends the request whose transport it came from.
LEMMA CompletedIs ==
  ASSUME request \in Requests, NEW id
  PROVE  LET r == IF Streams(id) THEN Ended("completed") ELSE request
         IN  /\ r \in Requests
             /\ r = request \/ (Open /\ Current = id /\ r = Ended("completed")
                                /\ r.status = "terminal" /\ r.outcome = "completed")
  BY DEF Streams, Ended, Requests, Open

LEMMA CommitCompletedStep ==
  ASSUME ModelInv, NEW w \in sent, CommitCompleted(w)
  PROVE  ModelInv'
  <1> DEFINE h == w[2]
             waits == dispatch[h].callback = "sent" /\ fence[h] = w[3] /\ dispatch[h].id = w[4]
             e == [dispatch[h] EXCEPT !.callback = "ended"]
  <1>0. /\ UNCHANGED <<partials, stopping, lease, alive, handoff, faults, cancel, fence>>
        /\ sent' \subseteq sent
        /\ request' = IF Fenced(h, w[3]) THEN Completed(w[4]) ELSE request
        /\ dispatch' = IF waits THEN [dispatch EXCEPT ![h].callback = "ended"] ELSE dispatch
    BY DEF CommitCompleted
  <1>1. h \in ModelHosts /\ ModelTypeOK /\ RequestOK /\ sent \subseteq Writes
    BY DEF ModelInv, ModelTypeOK, Writes
  <1> HIDE DEF h
  <1>2. HostOK(h) /\ dispatch[h] \in Dispatches /\ request \in Requests
    BY <1>1 DEF ModelInv, ModelTypeOK
  <1>3. /\ request' \in Requests
        /\ \/ UNCHANGED request
           \/ /\ lease.holder = h /\ Open /\ request' = Ended("completed")
              /\ ~Open' /\ request'.outcome = "completed"
    BY <1>0, <1>2, CompletedIs DEF Completed, Fenced, Open
  <1>4. Forward /\ (Open' => UNCHANGED request)
    BY <1>3 DEF Forward
  <1>5. /\ dispatch'[h] = dispatch[h] \/ (waits /\ dispatch'[h] = e)
        /\ Only(h)
    BY <1>0, <1>1 DEF ModelTypeOK, Only
  <1>6. /\ e \in Dispatches /\ e.step = dispatch[h].step /\ e.id = dispatch[h].id
        /\ e.abort = dispatch[h].abort /\ e.snapshot = dispatch[h].snapshot /\ e.callback = "ended"
    BY <1>2 DEF Dispatches
  <1>7. HostOK(h)'
    <2>1. CASE dispatch'[h] = dispatch[h]
      <3>1. cancel'[h] = cancel[h] /\ fence'[h] = fence[h] /\ lease' = lease
        BY <1>0
      <3>2. \/ UNCHANGED request
            \/ lease' = lease /\ (UnderLease(h) => ~Open' /\ request'.outcome # "cancelled")
        BY <1>0, <1>3
      <3>3. /\ h \in alive => h \in alive' /\ h \in handoff' <=> h \in handoff
            /\ stopping => stopping' /\ partials \subseteq partials'
        BY <1>0
      <3> QED
        BY <1>0, <1>1, <1>4, <2>1, <3>1, <3>2, <3>3, BystanderOK
    <2>2. CASE waits /\ dispatch'[h] = e
      <3>1. UnderLease(h) => ~Open'
        <4>1. SUFFICES ASSUME UnderLease(h), Open' PROVE FALSE
          OBVIOUS
        <4>2. Open /\ UNCHANGED request
          BY <1>4, <4>1 DEF Open
        <4>3. dispatch[h].step # "idle" /\ dispatch[h].id[2] > 0
          BY <1>2, <2>2 DEF HostOK, ShapeOK, NoDispatch
        <4>4. Streams(w[4])
          BY <1>1, <1>2, <2>2, <4>1, <4>2, <4>3 DEF HostOK, DrivesCurrent, RequestOK, Streams, Current
        <4>5. request' = Ended("completed")
          BY <1>0, <2>2, <4>1, <4>4 DEF Completed, UnderLease
        <4> QED
          BY <1>2, <4>1, <4>5 DEF Open, Ended, Requests
      <3>2. /\ Past(dispatch[h].id)'
            /\ Current' = dispatch'[h].id => Current = dispatch[h].id
        <4>1. dispatch[h].id \in Identities \cup {<<0, 0>>} /\ Past(dispatch[h].id)
          BY <1>2 DEF Dispatches, HostOK, ShapeOK
        <4>2. dispatch'[h].id = dispatch[h].id
          BY <1>6, <2>2
        <4> QED
          BY <1>2, <1>4, <4>1, <4>2, ForwardIs
      <3> HIDE DEF e
      <3>3. FenceOK(h)'
        BY <1>0, <1>2 DEF HostOK, FenceOK, Fenced
      <3>4. ShapeOK(h)'
        <4>1. dispatch[h].step # "idle" /\ dispatch[h].id[2] > 0
          BY <1>2, <2>2 DEF HostOK, ShapeOK, NoDispatch
        <4> QED
          BY <1>0, <1>2, <1>6, <2>2, <3>2, <4>1 DEF HostOK, ShapeOK, UnderLease, Fenced
      <3>5. DrivesCurrent(h)'
        BY <1>0, <3>1 DEF DrivesCurrent, UnderLease, Fenced
      <3>6. CancelOK(h)'
        BY <1>0, <1>2, <1>3, <1>6, <2>2 DEF HostOK, CancelOK, UnderLease, Fenced, Open
      <3>7. SavedOK(h)'
        BY <1>0, <1>2, <1>4, <1>6, <2>2 DEF HostOK, SavedOK, Open, Current
      <3>8. OutlivesOK(h)'
        BY <1>0, <1>2, <1>3, <1>6, <2>2 DEF HostOK, OutlivesOK, UnderLease, Fenced
      <3> QED
        BY <3>3, <3>4, <3>5, <3>6, <3>7, <3>8 DEF HostOK
    <2> QED
      BY <1>5, <2>1, <2>2
  <1>8. SocketsCounted'
    <2>1. Due(h)' => Due(h)
      <3> HIDE DEF e
      <3> QED
        BY <1>0, <1>5, <1>6 DEF Due, UnderLease, Fenced
    <2> QED
      BY <1>0, <1>1, <1>4, <1>5, <2>1, CountedOK
  <1>9. /\ dispatch'[h] \in Dispatches /\ cancel'[h] \in Cancels /\ sent' \subseteq Writes
        /\ partials' \subseteq Identities /\ partials \subseteq partials'
        /\ fence'[h] = fence[h] /\ UNCHANGED <<stopping, lease, alive, handoff, faults>>
    BY <1>0, <1>1, <1>2, <1>5, <1>6 DEF ModelTypeOK
  <1>10. UNCHANGED request \/ (Forward /\ lease.holder = h)
    BY <1>3, <1>4
  <1> QED
    BY <1>1, <1>3, <1>5, <1>7, <1>8, <1>9, <1>10, HostStep

LEMMA CommitLatePartialStep ==
  ASSUME ModelInv, NEW w \in sent, CommitLatePartial(w)
  PROVE  ModelInv'
  <1>0. /\ UNCHANGED <<request, stopping, lease, alive, handoff, faults, fence, dispatch, cancel>>
        /\ sent' \subseteq sent
        /\ partials' = IF Fenced(w[2], w[3]) THEN Saved(w[4]) ELSE partials
    BY DEF CommitLatePartial
  <1>1. /\ w[2] \in ModelHosts /\ w[4] \in Identities /\ ModelTypeOK /\ sent \subseteq Writes
        /\ partials \subseteq Identities
    BY DEF ModelInv, ModelTypeOK, Writes
  <1>2. partials \subseteq partials' /\ partials' \subseteq Identities
    BY <1>0, <1>1 DEF Saved
  <1>3. Only(w[2])
    BY <1>0, <1>1 DEF ModelTypeOK, Only
  <1>4. Forward
    BY <1>0 DEF Forward
  <1>5. HostOK(w[2])'
    BY <1>0, <1>1, <1>2, <1>4, BystanderOK
  <1>6. SocketsCounted'
    <2>1. Due(w[2])' => Due(w[2])
      BY <1>0 DEF Due, UnderLease, Fenced
    <2> QED
      BY <1>0, <1>1, <1>3, <2>1, CountedOK
  <1>7. /\ dispatch'[w[2]] \in Dispatches /\ cancel'[w[2]] \in Cancels /\ sent' \subseteq Writes
        /\ request' \in Requests /\ fence'[w[2]] = fence[w[2]] /\ UNCHANGED request
        /\ UNCHANGED <<stopping, lease, alive, handoff, faults>>
    BY <1>0, <1>1 DEF ModelTypeOK
  <1> QED
    BY <1>1, <1>2, <1>3, <1>5, <1>6, <1>7, HostStep

---------------------------------------------------------------------------
(* Steps that move the lease, the Stop or the Hosts. *)

LEMMA UserStopsStep ==
  ASSUME ModelInv, UserStops
  PROVE  ModelInv'
  <1>0. /\ UNCHANGED <<request, partials, lease, alive, handoff, faults, fence, dispatch, cancel, sent>>
        /\ stopping' = TRUE
    BY DEF UserStops
  <1>1. Forward
    BY <1>0 DEF Forward
  <1>2. ModelTypeOK'
    BY <1>0 DEF ModelInv, ModelTypeOK
  <1>3. LeaseOK' /\ RequestOK'
    BY <1>0 DEF ModelInv, LeaseOK, RequestOK, Held, Open
  <1>4. SocketsCounted'
    <2>1. MayOpen' => MayOpen
      BY <1>0 DEF MayOpen, Due, UnderLease, Fenced
    <2>2. request.socket \in Nat /\ faults \in Nat /\ Held' = Held /\ SocketsCounted
      BY <1>0, ModelAssumption DEF ModelInv, ModelTypeOK, Requests, Held
    <2> QED
      BY <1>0, <2>1, <2>2 DEF SocketsCounted, Open, Count
  <1>5. ASSUME NEW k \in ModelHosts PROVE HostOK(k)'
    BY <1>0, <1>1, BystanderOK
  <1> QED
    BY <1>2, <1>3, <1>4, <1>5 DEF ModelInv

\* A fault: the lease lapses or is released, or a Host leaves; no transport becomes due by that.
LEMMA FaultOK ==
  ASSUME ModelInv, faults < MaxFaults, faults' = faults + 1,
         UNCHANGED <<request, partials, stopping>>, sent' \subseteq sent,
         alive' \subseteq alive, handoff' \subseteq ModelHosts,
         \/ lease' \in Leases /\ lease'.holder = lease.holder /\ lease'.generation = lease.generation
         \/ lease' = [holder |-> NoHost, generation |-> lease.generation + 1, lapsed |-> TRUE],
         dispatch' \in [ModelHosts -> Dispatches], cancel' \in [ModelHosts -> Cancels],
         fence' \in [ModelHosts -> Generations],
         Held' => Held /\ fence'[lease.holder] = fence[lease.holder],
         MayOpen' => MayOpen,
         \A k \in ModelHosts : HostOK(k)'
  PROVE  ModelInv'
  <1>0. /\ ModelTypeOK /\ faults \in Nat /\ faults + 1 \in 0..MaxFaults /\ lease.generation \in Nat
        /\ request.socket \in Nat /\ LeaseOK /\ RequestOK /\ SocketsCounted
        /\ lease.generation <= 2 * faults + 1
    BY ModelAssumption DEF ModelInv, ModelTypeOK, Leases, Generations, Requests, LeaseOK, Count
  <1>1. lease'.generation <= 2 * faults + 2 /\ lease'.generation \in Nat
    BY <1>0
  <1>2. ModelTypeOK'
    <2>1. lease' \in Leases
      <3>1. lease.generation + 1 \in Generations
        BY <1>0, ModelAssumption DEF Generations
      <3>2. [holder |-> NoHost, generation |-> lease.generation + 1, lapsed |-> TRUE] \in Leases
        BY <3>1 DEF Leases
      <3> QED
        BY <3>2
    <2> QED
      BY <1>0, <2>1 DEF ModelTypeOK
  <1>3. LeaseOK'
    <2>1. lease'.holder # NoHost => lease'.generation > 0
      BY <1>0 DEF LeaseOK
    <2>2. Held' /\ ~stopping => fence'[lease'.holder] = lease'.generation
      BY <1>0 DEF LeaseOK, Held, ModelTypeOK
    <2> QED
      BY <1>0, <1>1, <2>1, <2>2 DEF LeaseOK, Count
  <1>4. RequestOK' /\ SocketsCounted'
    BY <1>0 DEF RequestOK, SocketsCounted, Open, Count
  <1> QED
    BY <1>2, <1>3, <1>4 DEF ModelInv

LEMMA LeaseLapsesStep ==
  ASSUME ModelInv, LeaseLapses
  PROVE  ModelInv'
  <1>0. /\ UNCHANGED <<request, partials, stopping, alive, handoff, fence, dispatch, cancel, sent>>
        /\ lease' = [lease EXCEPT !.lapsed = TRUE] /\ faults < MaxFaults /\ faults' = faults + 1
        /\ ModelTypeOK
    BY DEF LeaseLapses, ModelInv
  <1>1. /\ lease'.holder = lease.holder /\ lease'.generation = lease.generation /\ lease'.lapsed
        /\ lease' \in Leases
    BY <1>0 DEF ModelTypeOK, Leases
  <1>2. Forward
    BY <1>0 DEF Forward
  <1>3. ASSUME NEW k \in ModelHosts PROVE HostOK(k)'
    BY <1>0, <1>1, <1>2, BystanderOK
  <1>4. ~Held' /\ (MayOpen' => MayOpen)
    BY <1>0, <1>1 DEF Held, MayOpen, Due, UnderLease, Fenced
  <1> QED
    BY <1>0, <1>1, <1>3, <1>4, FaultOK DEF ModelTypeOK

LEMMA HandBackStep ==
  ASSUME ModelInv, NEW h \in ModelHosts, HandBack(h)
  PROVE  ModelInv'
  <1>0. /\ UNCHANGED <<request, partials, stopping, alive, handoff, dispatch, cancel, sent>>
        /\ lease' = [holder |-> NoHost, generation |-> lease.generation + 1, lapsed |-> TRUE]
        /\ faults < MaxFaults /\ faults' = faults + 1
        /\ fence' = [fence EXCEPT ![h] = 0] /\ dispatch[h].step = "idle"
        /\ ModelTypeOK /\ HostOK(h)
    BY DEF HandBack, ModelInv, At
  <1>1. lease'.holder = NoHost /\ lease'.generation = lease.generation + 1 /\ lease'.lapsed
    BY <1>0
  <1>2. Forward
    BY <1>0 DEF Forward
  <1>3. ASSUME NEW k \in ModelHosts PROVE HostOK(k)'
    <2>1. CASE k = h
      <3>1. fence'[h] = 0 /\ dispatch'[h] = NoDispatch
        BY <1>0 DEF ModelTypeOK, HostOK, ShapeOK
      <3>2. FenceOK(h)'
        BY <3>1 DEF FenceOK
      <3>3. /\ cancel'[h].step # "idle" => h \in alive' /\ stopping'
            /\ cancel'[h].step = "after" => ~Open'
        BY <1>0 DEF HostOK, CancelOK, Open
      <3>4. request' \in Requests
        BY <1>0 DEF ModelTypeOK
      <3> QED
        BY <2>1, <3>1, <3>2, <3>3, <3>4, LeftOK
    <2>2. CASE k # h
      <3>1. /\ fence'[k] = fence[k] /\ dispatch'[k] = dispatch[k] /\ cancel'[k] = cancel[k]
            /\ lease'.holder # k
        BY <1>0, <2>2, ModelAssumption DEF ModelTypeOK
      <3> QED
        BY <1>0, <1>1, <1>2, <3>1, BystanderOK
    <2> QED
      BY <2>1, <2>2
  <1>4. ~Held' /\ ~MayOpen'
    BY <1>0, <1>1, ModelAssumption DEF Held, MayOpen, ModelTypeOK
  <1>5. fence' \in [ModelHosts -> Generations]
    BY <1>0, ModelAssumption DEF ModelTypeOK, Generations
  <1> QED
    BY <1>0, <1>3, <1>4, <1>5, FaultOK DEF ModelTypeOK

LEMMA QuiesceAllStep ==
  ASSUME ModelInv, NEW h \in ModelHosts, QuiesceAll(h)
  PROVE  ModelInv'
  <1> DEFINE d == Aborted(dispatch[h], "handoff")
  <1>0. /\ UNCHANGED <<request, partials, stopping, lease, alive, fence, cancel, sent>>
        /\ handoff' = handoff \cup {h}
        /\ faults < MaxFaults /\ faults' = faults + 1
        /\ dispatch' = [dispatch EXCEPT ![h] = d]
        /\ ModelTypeOK /\ HostOK(h)
    BY DEF QuiesceAll, ModelInv
  <1>1. dispatch[h] \in Dispatches
    BY <1>0 DEF ModelTypeOK
  <1>2. /\ d \in Dispatches /\ d.step = dispatch[h].step /\ d.id = dispatch[h].id
        /\ d = dispatch[h] \/ d.abort = "handoff"
    BY <1>1, AbortedIs
  <1> HIDE DEF d
  <1>3. dispatch'[h] = d /\ dispatch' \in [ModelHosts -> Dispatches]
    BY <1>0, <1>2 DEF ModelTypeOK
  <1>4. Forward
    BY <1>0 DEF Forward
  <1>5. ASSUME NEW k \in ModelHosts PROVE HostOK(k)'
    <2>1. CASE k = h
      <3>1. CancelOK(h)' /\ SavedOK(h)'
        BY <1>0, <1>2, <1>3 DEF HostOK, CancelOK, SavedOK, UnderLease, Fenced, Open, Current
      <3>2. /\ dispatch'[h] = Aborted(dispatch[h], "handoff") /\ fence'[h] = fence[h]
            /\ UNCHANGED <<request, partials, stopping, lease, alive>> /\ h \in handoff'
        BY <1>0, <1>3 DEF d
      <3>3. dispatch[h].step = "opened" /\ dispatch[h].abort = "no"
                /\ request.outcome = "cancelled" /\ UnderLease(h) => cancel'[h].step # "idle"
        BY <1>0 DEF HostOK, OutlivesOK
      <3> QED
        BY <2>1, <3>1, <3>2, <3>3, AbortedOK
    <2>2. CASE k # h
      <3>1. dispatch'[k] = dispatch[k] /\ (k \in handoff' <=> k \in handoff)
        BY <1>0, <2>2 DEF ModelTypeOK
      <3> QED
        BY <1>0, <1>4, <3>1, BystanderOK
    <2> QED
      BY <2>1, <2>2
  <1>6. (Held' => Held) /\ (MayOpen' => MayOpen)
    <2>1. \A k \in ModelHosts : dispatch'[k].step = dispatch[k].step
      BY <1>0, <1>2, <1>3 DEF ModelTypeOK
    <2> QED
      BY <1>0, <2>1 DEF Held, MayOpen, Due, UnderLease, Fenced, ModelTypeOK
  <1> QED
    BY <1>0, <1>3, <1>5, <1>6, FaultOK DEF ModelTypeOK

\* A Host that ends leaves nothing of its own; the others stand by.
LEMMA EndsIs ==
  ASSUME ModelInv, NEW h \in ModelHosts, Ends(h)
  PROVE  /\ UNCHANGED <<request, partials, stopping, lease, handoff>> /\ sent' \subseteq sent
         /\ alive' = alive \ {h}
         /\ dispatch' \in [ModelHosts -> Dispatches] /\ cancel' \in [ModelHosts -> Cancels]
         /\ fence' \in [ModelHosts -> Generations]
         /\ \A k \in ModelHosts \ {h} : dispatch'[k] = dispatch[k] /\ fence'[k] = fence[k]
         /\ MayOpen' => MayOpen
         /\ \A k \in ModelHosts : HostOK(k)'
  <1>0. /\ UNCHANGED <<request, partials, stopping, lease, handoff>> /\ sent' \subseteq sent
        /\ alive' = alive \ {h} /\ ModelTypeOK
        /\ dispatch' = [dispatch EXCEPT ![h] = NoDispatch]
        /\ cancel' = [cancel EXCEPT ![h] = NoCancel] /\ fence' = [fence EXCEPT ![h] = 0]
    BY DEF Ends, ModelInv, Leaves
  <1>1. /\ dispatch' \in [ModelHosts -> Dispatches] /\ cancel' \in [ModelHosts -> Cancels]
        /\ fence' \in [ModelHosts -> Generations]
    BY <1>0, NoneTypes, ModelAssumption DEF ModelTypeOK, Generations
  <1>2. \A k \in ModelHosts \ {h} :
           dispatch'[k] = dispatch[k] /\ fence'[k] = fence[k] /\ cancel'[k] = cancel[k]
    BY <1>0 DEF ModelTypeOK
  <1>3. dispatch'[h] = NoDispatch /\ fence'[h] = 0 /\ cancel'[h].step = "idle" /\ request' \in Requests
    BY <1>0 DEF ModelTypeOK, NoCancel
  <1>4. Forward
    BY <1>0 DEF Forward
  <1>5. ASSUME NEW k \in ModelHosts PROVE HostOK(k)'
    <2>1. CASE k = h
      <3>1. FenceOK(h)'
        BY <1>3 DEF FenceOK
      <3> QED
        BY <1>3, <2>1, <3>1, LeftOK
    <2>2. CASE k # h
      <3>1. /\ dispatch'[k] = dispatch[k] /\ fence'[k] = fence[k] /\ cancel'[k] = cancel[k]
            /\ k \in alive => k \in alive'
        BY <1>0, <1>2, <2>2
      <3> QED
        BY <1>0, <1>4, <3>1, BystanderOK
    <2> QED
      BY <2>1, <2>2
  <1>6. MayOpen' => MayOpen
    BY <1>0, <1>2 DEF MayOpen, Due, UnderLease, Fenced, ModelTypeOK
  <1> QED
    BY <1>0, <1>1, <1>2, <1>5, <1>6

LEMMA HostDiesStep ==
  ASSUME ModelInv, NEW h \in ModelHosts, HostDies(h)
  PROVE  ModelInv'
  <1>0. Ends(h) /\ faults < MaxFaults /\ faults' = faults + 1 /\ ModelTypeOK
    BY DEF HostDies, ModelInv
  <1>1. /\ UNCHANGED <<request, partials, stopping, lease, handoff>> /\ sent' \subseteq sent
        /\ alive' = alive \ {h}
        /\ dispatch' \in [ModelHosts -> Dispatches] /\ cancel' \in [ModelHosts -> Cancels]
        /\ fence' \in [ModelHosts -> Generations]
        /\ \A k \in ModelHosts \ {h} : fence'[k] = fence[k]
        /\ MayOpen' => MayOpen
        /\ \A k \in ModelHosts : HostOK(k)'
    BY <1>0, EndsIs
  <1>2. Held' => Held /\ fence'[lease.holder] = fence[lease.holder]
    BY <1>0, <1>1 DEF Held, ModelTypeOK
  <1>3. /\ alive' \subseteq alive /\ handoff' \subseteq ModelHosts
        /\ lease' \in Leases /\ lease'.holder = lease.holder /\ lease'.generation = lease.generation
    BY <1>0, <1>1 DEF ModelTypeOK
  <1> QED
    BY <1>0, <1>1, <1>2, <1>3, FaultOK

LEMMA HostExitsStep ==
  ASSUME ModelInv, NEW h \in ModelHosts, HostExits(h)
  PROVE  ModelInv'
  <1>0. Ends(h) /\ faults' = faults /\ ModelTypeOK /\ h \in handoff
    BY DEF HostExits, ModelInv
  <1>1. /\ UNCHANGED <<request, partials, stopping, lease, handoff>> /\ sent' \subseteq sent
        /\ alive' = alive \ {h}
        /\ dispatch' \in [ModelHosts -> Dispatches] /\ cancel' \in [ModelHosts -> Cancels]
        /\ fence' \in [ModelHosts -> Generations]
        /\ \A k \in ModelHosts \ {h} : fence'[k] = fence[k]
        /\ MayOpen' => MayOpen
        /\ \A k \in ModelHosts : HostOK(k)'
    BY <1>0, EndsIs
  <1>2. Held' = Held
    BY <1>0, <1>1 DEF Held
  <1>3. ModelTypeOK'
    BY <1>0, <1>1 DEF ModelTypeOK
  <1>4. LeaseOK'
    <2>1. LeaseOK /\ (Held => lease.holder \in ModelHosts \ {h})
      BY <1>0 DEF ModelInv, Held, ModelTypeOK
    <2> QED
      BY <1>0, <1>1, <1>2, <2>1 DEF LeaseOK
  <1>5. RequestOK' /\ SocketsCounted'
    <2>1. RequestOK /\ SocketsCounted /\ request.socket \in Nat /\ faults \in Nat
      BY ModelAssumption DEF ModelInv, ModelTypeOK, Requests
    <2> QED
      BY <1>0, <1>1, <1>2, <2>1 DEF RequestOK, SocketsCounted, Open, Count
  <1> QED
    BY <1>1, <1>3, <1>4, <1>5 DEF ModelInv

LEMMA ClaimStep ==
  ASSUME ModelInv, NEW h \in ModelHosts, Claim(h)
  PROVE  ModelInv'
  <1> DEFINE g == Taken(h).generation
  <1>0. /\ UNCHANGED <<request, partials, stopping, alive, handoff, faults, dispatch, cancel, sent>>
        /\ h \in alive \ handoff /\ Open /\ fence[h] = 0 /\ (lease.holder = h \/ lease.holder \notin alive)
        /\ lease' = Taken(h) /\ fence' = [fence EXCEPT ![h] = g]
    BY DEF Claim
  <1>1. /\ ModelTypeOK /\ LeaseOK /\ RequestOK /\ SocketsCounted /\ HostOK(h) /\ faults \in 0..MaxFaults
        /\ lease.generation \in Nat /\ request.socket \in Nat /\ lease \in Leases
        /\ h # NoHost
    BY ModelAssumption DEF ModelInv, ModelTypeOK, Leases, Generations, Requests
  <1>2. /\ lease'.holder = h /\ ~lease'.lapsed /\ lease'.generation = g
        /\ \/ lease' = lease
           \/ ~Held /\ lease'.generation = lease.generation + 1
    <2>1. CASE lease.holder = h /\ ~lease.lapsed
      BY <1>0, <1>1, <2>1 DEF Taken, Leases
    <2>2. CASE ~(lease.holder = h /\ ~lease.lapsed)
      <3>1. Taken(h) = [holder |-> h, generation |-> lease.generation + 1, lapsed |-> FALSE]
        BY <2>2 DEF Taken
      <3>2. ~Held
        BY <1>0, <2>2 DEF Held
      <3> QED
        BY <1>0, <3>1, <3>2
    <2> QED
      BY <2>1, <2>2
  <1> HIDE DEF g
  <1>3. g \in Nat /\ g > 0 /\ g <= 2 * faults + 1 /\ g \in Generations
    <2>1. lease.generation <= 2 * faults + 1 /\ (~Held => lease.generation <= 2 * faults)
      BY <1>1 DEF LeaseOK, Count
    <2>2. g \in Nat /\ g > 0 /\ g <= 2 * faults + 1
      BY <1>1, <1>2, <2>1 DEF LeaseOK
    <2> QED
      BY <1>1, <2>2, ModelAssumption DEF Generations
  <1>4. Held' /\ fence'[h] = g /\ UnderLease(h)'
    BY <1>0, <1>1, <1>2, <1>3 DEF Held, ModelTypeOK, UnderLease, Fenced
  <1>5. ModelTypeOK'
    <2>1. lease' \in Leases
      <3>1. [holder |-> h, generation |-> lease.generation + 1, lapsed |-> FALSE] \in Leases
               \/ lease' = lease
        BY <1>1, <1>2, <1>3 DEF Leases
      <3> QED
        BY <1>0, <1>1, <1>2, <1>3, <3>1 DEF Taken
    <2> QED
      BY <1>0, <1>1, <1>3, <2>1 DEF ModelTypeOK
  <1>6. LeaseOK'
    BY <1>0, <1>1, <1>2, <1>3, <1>4 DEF LeaseOK, Count
  <1>7. RequestOK'
    BY <1>0, <1>1 DEF RequestOK, Open
  <1>8. SocketsCounted'
    <2>1. dispatch[h].step = "idle" /\ dispatch[h] = NoDispatch
      BY <1>0, <1>1 DEF HostOK, ShapeOK
    <2>2. MayOpen' => ~stopping
      BY <1>0, <1>2, <2>1 DEF MayOpen, Due
    <2>3. Held => stopping
      BY <1>0, <1>1, <1>2, <1>3 DEF LeaseOK, Held
    <2> QED
      BY <1>0, <1>1, <1>4, <2>2, <2>3 DEF SocketsCounted, Count, Open
  <1>9. ASSUME NEW k \in ModelHosts PROVE HostOK(k)'
    <2>0. Forward
      BY <1>0 DEF Forward
    <2>1. CASE k = h
      <3>1. dispatch'[h] = NoDispatch /\ request' \in Requests
        BY <1>0, <1>1 DEF HostOK, ShapeOK, ModelTypeOK
      <3>2. FenceOK(h)'
        BY <1>0, <1>4 DEF FenceOK, UnderLease
      <3>3. /\ cancel'[h].step # "idle" => h \in alive' /\ stopping'
            /\ cancel'[h].step = "after" => ~Open'
        BY <1>0, <1>1 DEF HostOK, CancelOK, Open
      <3> QED
        BY <2>1, <3>1, <3>2, <3>3, LeftOK
    <2>2. CASE k # h
      <3>1. fence'[k] = fence[k] /\ lease'.holder # k
        BY <1>0, <1>1, <1>2, <2>2 DEF ModelTypeOK
      <3> QED
        BY <1>0, <1>2, <2>0, <3>1, BystanderOK
    <2> QED
      BY <2>1, <2>2
  <1> QED
    BY <1>5, <1>6, <1>7, <1>8, <1>9 DEF ModelInv

---------------------------------------------------------------------------
(* The theorems. *)

LEMMA ModelInvInit == ModelInit => ModelInv
  <1> SUFFICES ASSUME ModelInit PROVE ModelInv
    OBVIOUS
  <1>1. ModelTypeOK
    BY TypeInit
  <1>2. /\ request.socket = 0 /\ request.attempt = 1 /\ request.status = "prepared"
        /\ request.outcome = "none" /\ lease.holder = NoHost /\ lease.generation = 0 /\ ~lease.lapsed
        /\ alive = ModelHosts /\ handoff = {} /\ faults = 0
    BY DEF ModelInit
  <1>3. ~Held /\ ~MayOpen
    BY <1>2, ModelAssumption DEF Held, MayOpen
  <1>4. LeaseOK /\ RequestOK /\ SocketsCounted
    BY <1>2, <1>3 DEF LeaseOK, RequestOK, SocketsCounted, Count
  <1>5. ASSUME NEW h \in ModelHosts PROVE HostOK(h)
    <2>1. fence[h] = 0 /\ dispatch[h] = NoDispatch /\ cancel[h] = NoCancel
      BY DEF ModelInit
    <2>2. Past(<<0, 0>>)
      BY <1>2 DEF Past
    <2> QED
      BY <2>1, <2>2 DEF HostOK, FenceOK, ShapeOK, DrivesCurrent, CancelOK, SavedOK, OutlivesOK,
         NoDispatch, NoCancel, UnderLease
  <1> QED
    BY <1>1, <1>4, <1>5 DEF ModelInv

LEMMA ModelInvStays == ModelInv /\ UNCHANGED modelVars => ModelInv'
  <1> SUFFICES ASSUME ModelInv, UNCHANGED modelVars PROVE ModelInv'
    OBVIOUS
  <1>1. ModelTypeOK' /\ LeaseOK' /\ RequestOK' /\ SocketsCounted'
    BY DEF ModelInv, ModelTypeOK, LeaseOK, RequestOK, SocketsCounted, Held, MayOpen, Due, UnderLease,
       Fenced, Open
  <1>2. ASSUME NEW k \in ModelHosts PROVE HostOK(k)'
    BY BystanderOK DEF Forward
  <1> QED
    BY <1>1, <1>2 DEF ModelInv

LEMMA ModelInvStep == ModelInv /\ [ModelNext]_modelVars => ModelInv'
  <1> SUFFICES ASSUME ModelInv, ModelNext PROVE ModelInv'
    BY ModelInvStays
  <1>1. CASE UserStops
    BY <1>1, UserStopsStep
  <1>2. CASE LeaseLapses
    BY <1>2, LeaseLapsesStep
  <1>3. ASSUME NEW w \in sent, CommitCompleted(w) \/ CommitLatePartial(w)
        PROVE  ModelInv'
    BY <1>3, CommitCompletedStep, CommitLatePartialStep
  <1>4. ASSUME NEW h \in ModelHosts,
               \/ Claim(h) \/ HandBack(h) \/ QuiesceTurn(h) \/ QuiesceAll(h) \/ HostDies(h) \/ HostExits(h)
               \/ PreparationFails(h) \/ Delta(h) \/ Done(h) \/ StartCancel(h)
        PROVE  ModelInv'
    BY <1>4, ClaimStep, HandBackStep, QuiesceTurnStep, QuiesceAllStep, HostDiesStep, HostExitsStep,
       PreparationFailsStep, DeltaStep, DoneStep, StartCancelStep
  <1>5. ASSUME NEW h \in ModelHosts, DriveStep(h)
        PROVE  ModelInv'
    BY <1>5, BeginDispatchStep, DelayEndsStep, OpenSocketStep, RegisterActiveSocketStep,
       SubmitCompletedStep, AdapterResolvesStep, TransportFailsStep, FinalizePartialOutputStep,
       FinalizationTimesOutStep, FailRequestStep, CreateTransientRetryStep, HandsOverStep,
       DispatchCancelledStep, CancelReturnsStep, StartCancelStep DEF DriveStep
  <1>6. ASSUME NEW h \in ModelHosts, CancelStep(h)
        PROVE  ModelInv'
    BY <1>6, CloseCancelledPartialStep, ClosureTimesOutStep, CommitCancelStep, AbortAfterCancelStep,
       CancelFailsStep DEF CancelStep
  <1> QED
    BY <1>1, <1>2, <1>3, <1>4, <1>5, <1>6 DEF ModelNext

LEMMA ModelInvHolds == ModelSafe => []ModelInv
  BY ModelInvInit, ModelInvStep, PTL DEF ModelSafe

\* Identities that the request may have, sockets included: the rows and the maps of the Hosts keep
\* their shape, and no attempt opens more transports than the faults account for.
THEOREM ModelTypeCorrect == ModelSafe => []ModelTypeOK
  BY ModelInvHolds, PTL DEF ModelInv

\* No transport outlives the cancellation or the shutdown that ended it
\* (cancelCurrentRequestOnce, registerActiveSocket).
THEOREM TransportsStop == ModelSafe => []NoTransportOutlives
  <1>1. ModelInv => NoTransportOutlives
    <2> SUFFICES ASSUME ModelInv, NEW h \in ModelHosts, At(h, "stream"), dispatch[h].abort = "no"
                 PROVE  /\ h \notin handoff
                        /\ request.outcome = "cancelled" /\ Fenced(h, fence[h]) => cancel[h].step # "idle"
      BY DEF NoTransportOutlives
    <2>1. HostOK(h)
      BY DEF ModelInv
    <2> QED
      BY <2>1 DEF HostOK, OutlivesOK, UnderLease, At, Drives
  <1> QED
    BY <1>1, ModelInvHolds, PTL

\* A step that ends an open request as cancelled follows a Stop; an ended one is not written.
EndStep == IF Open THEN request'.outcome = "cancelled" => stopping
           ELSE UNCHANGED <<request, partials>>

LEMMA EndStepHolds == ModelInv /\ [ModelNext]_modelVars => EndStep
  <1> SUFFICES ASSUME ModelInv, [ModelNext]_modelVars PROVE EndStep
    OBVIOUS
  <1>0. RequestOK /\ ModelTypeOK /\ request \in Requests /\ \A h \in ModelHosts : HostOK(h)
    BY DEF ModelInv, ModelTypeOK
  <1>1. ASSUME UNCHANGED <<request, partials>> PROVE EndStep
    BY <1>0, <1>1 DEF EndStep, RequestOK
  <1>2. ASSUME UNCHANGED request, NEW id, partials' = Saved(id) PROVE EndStep
    BY <1>0, <1>2 DEF EndStep, RequestOK, Saved, Streams, Open
  <1>3. ASSUME UNCHANGED partials, NEW o \in {"completed", "failed"}, Open, request' = Ended(o)
        PROVE  EndStep
    BY <1>0, <1>3 DEF EndStep, Ended, Requests
  <1>4. ASSUME UNCHANGED partials, Open, request'.outcome = request.outcome
        PROVE  EndStep
    BY <1>0, <1>4 DEF EndStep, RequestOK
  <1>5. ASSUME NEW w \in sent, CommitCompleted(w) PROVE EndStep
    <2>1. UNCHANGED partials /\ (request' = Completed(w[4]) \/ UNCHANGED request)
      BY <1>5 DEF CommitCompleted
    <2>2. CASE UNCHANGED request
      BY <1>1, <2>1, <2>2
    <2>3. CASE Streams(w[4]) /\ request' = Ended("completed")
      <3>1. Open
        BY <2>3 DEF Streams, Open
      <3> QED
        BY <1>3, <2>1, <2>3, <3>1
    <2> QED
      BY <2>1, <2>2, <2>3 DEF Completed
  <1>6. ASSUME NEW w \in sent, CommitLatePartial(w) PROVE EndStep
    BY <1>1, <1>2, <1>6 DEF CommitLatePartial
  <1>7. ASSUME NEW h \in ModelHosts, FailRequest(h) PROVE EndStep
    <2>1. UNCHANGED partials /\ (UNCHANGED request \/ (Open /\ request' = Ended("failed")))
      BY <1>7 DEF FailRequest
    <2> QED
      BY <1>1, <1>3, <2>1
  <1>8. ASSUME NEW h \in ModelHosts, OpenSocket(h) PROVE EndStep
    <2>1. /\ UNCHANGED partials
          /\ \/ UNCHANGED request
             \/ Open /\ request' = [request EXCEPT !.status = "streaming", !.socket = @ + 1]
      BY <1>8 DEF OpenSocket
    <2>2. ASSUME request' = [request EXCEPT !.status = "streaming", !.socket = @ + 1]
          PROVE  request'.outcome = request.outcome
      BY <1>0, <2>2 DEF Requests
    <2> QED
      BY <1>1, <1>4, <2>1, <2>2
  <1>9. ASSUME NEW h \in ModelHosts, CreateTransientRetry(h) PROVE EndStep
    <2>1. UNCHANGED partials /\ (UNCHANGED request \/ (Open /\ request' = Retrying))
      BY <1>9 DEF CreateTransientRetry, Streams, Open
    <2>2. ASSUME request' = Retrying PROVE request'.outcome = request.outcome
      BY <1>0, <2>2 DEF Requests, Retrying
    <2> QED
      BY <1>1, <1>4, <2>1, <2>2
  <1>10. ASSUME NEW h \in ModelHosts, CommitCancel(h) PROVE EndStep
    <2>1. UNCHANGED partials /\ request' = (IF Open THEN Ended("cancelled") ELSE request) /\ stopping
      BY <1>0, <1>10 DEF CommitCancel, CancelAt, HostOK, CancelOK
    <2> QED
      BY <2>1 DEF EndStep
  <1>11. ASSUME NEW h \in ModelHosts, FinalizePartialOutput(h) PROVE EndStep
    BY <1>2, <1>11 DEF FinalizePartialOutput
  <1>12. ASSUME NEW h \in ModelHosts, CloseCancelledPartial(h) PROVE EndStep
    BY <1>1, <1>2, <1>12 DEF CloseCancelledPartial
  <1>13. CASE UserStops \/ LeaseLapses \/ UNCHANGED modelVars
    BY <1>1, <1>13 DEF UserStops, LeaseLapses
  <1>14. ASSUME NEW h \in ModelHosts,
                \/ Claim(h) \/ HandBack(h) \/ QuiesceTurn(h) \/ QuiesceAll(h) \/ HostDies(h) \/ HostExits(h)
                \/ PreparationFails(h) \/ Delta(h) \/ Done(h) \/ StartCancel(h)
         PROVE  EndStep
    <2>1. UNCHANGED <<request, partials>>
      BY <1>14 DEF Claim, HandBack, QuiesceTurn, QuiesceAll, HostDies, HostExits, Ends, PreparationFails,
         Delta, Done, StartCancel
    <2> QED
      BY <1>1, <2>1
  <1>15. ASSUME NEW h \in ModelHosts, DriveStep(h) PROVE EndStep
    <2>1. CASE \/ BeginDispatch(h) \/ DelayEnds(h) \/ RegisterActiveSocket(h) \/ SubmitCompleted(h)
               \/ AdapterResolves(h) \/ TransportFails(h) \/ FinalizationTimesOut(h) \/ HandsOver(h)
               \/ DispatchCancelled(h) \/ CancelReturns(h) \/ StartCancel(h)
      <3>1. UNCHANGED <<request, partials>>
        BY <2>1 DEF BeginDispatch, DelayEnds, RegisterActiveSocket, SubmitCompleted, AdapterResolves,
           TransportFails, FinalizationTimesOut, HandsOver, DriveEnds, DispatchCancelled,
           CancelReturns, StartCancel
      <3> QED
        BY <1>1, <3>1
    <2> QED
      BY <1>7, <1>8, <1>9, <1>11, <1>15, <2>1 DEF DriveStep
  <1>16. ASSUME NEW h \in ModelHosts, CancelStep(h) PROVE EndStep
    <2>1. CASE ClosureTimesOut(h) \/ AbortAfterCancel(h) \/ CancelFails(h)
      <3>1. UNCHANGED <<request, partials>>
        BY <2>1 DEF ClosureTimesOut, AbortAfterCancel, CancelFails
      <3> QED
        BY <1>1, <3>1
    <2> QED
      BY <1>10, <1>12, <1>16, <2>1 DEF CancelStep
  <1> QED
    BY <1>5, <1>6, <1>13, <1>14, <1>15, <1>16 DEF ModelNext

\* The first end of a request stands, nothing is written after it, and only a Stop cancels
\* (terminalizeRequest, databaseWorker.ts:1418).
THEOREM FirstEndStands == ModelSafe => EndStands
  <1>1. ModelSafe => [][EndStep]_modelVars
    BY EndStepHolds, ModelInvHolds, PTL DEF ModelSafe
  <1> QED
    BY <1>1, PTL DEF EndStands, EndStep

\* The output a Stop froze is in the transcript when the Stop ends the request
\* (cancelCurrentRequestOnce).
THEOREM StopsKeepOutput == ModelSafe => StopKeepsOutput
  <1> DEFINE Keeps ==
        \A h \in ModelHosts :
           /\ Open /\ request'.outcome = "cancelled"
           /\ cancel[h].step = "commit" /\ cancel'[h].step = "after" /\ ~cancel[h].gaveUp
           /\ dispatch[h].abort = "stop" /\ dispatch[h].snapshot /\ dispatch[h].id = Current
           => Current \in partials
  <1>1. ModelInv /\ [ModelNext]_modelVars => Keeps
    BY DEF ModelInv, HostOK, SavedOK
  <1>2. ModelSafe => [][Keeps]_modelVars
    BY <1>1, ModelInvHolds, PTL DEF ModelSafe
  <1> QED
    BY <1>2, PTL DEF StopKeepsOutput
=============================================================================
