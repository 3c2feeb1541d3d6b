------------------------ MODULE ExecutionLeaseProofs ------------------------
(***************************************************************************)
(* Proofs about ExecutionLease for any Hosts, owners, callers and bounds.  *)
(* IInv is inductive: what a claim judged at its read still holds at its   *)
(* commit (JudgmentStands), because dead Hosts stay dead and the clock     *)
(* never goes back, and commands run only on a Host that keeps serving     *)
(* (PinnedHostsServe).  The action properties follow step by step.         *)
(***************************************************************************)
EXTENDS ExecutionLease, TLAPS

USE DEF vars, lockVars, rows, local

---------------------------------------------------------------------------
(* Operators. *)

LEMMA NoLeaseType == NoLease \in Leases
  BY DEF NoLease, Leases

LEMMA IdleOpType == IdleOp \in Ops
  BY NoLeaseType DEF IdleOp, Ops, OpPcs

\* Changing the fields of an operation one at a time keeps its shape.
LEMMA OpsUpdate ==
  ASSUME NEW o \in Ops, NEW pc \in OpPcs, NEW replay \in BOOLEAN,
         NEW row \in Leases, NEW expired \in BOOLEAN, NEW asked \in Nat
  PROVE  /\ [o EXCEPT !.pc = pc] \in Ops
         /\ [o EXCEPT !.pc = pc, !.row = row] \in Ops
         /\ [o EXCEPT !.pc = pc, !.row = row, !.expired = expired] \in Ops
         /\ [o EXCEPT !.pc = pc, !.replay = replay, !.asked = asked] \in Ops
  BY DEF Ops

LEMMA HostType == ASSUME NEW c \in Callers PROVE Host(c) \in Hosts
  BY OwnersAssumption DEF Host

\* A claimed lease is a lease of the caller, of a generation no lower than
\* that of the row it replaces, and of a higher one unless the row was its own.
LEMMA ClaimedLeaseIs ==
  ASSUME NEW c \in Callers, op[c] \in Ops
  PROVE  /\ ClaimedLease(c) \in Leases
         /\ ClaimedLease(c).holder = OwnerOf[c]
         /\ ClaimedLease(c).gen = NextGen(c)
         /\ NextGen(c) \in Nat
         /\ \/ NextGen(c) = op[c].row.gen + 1
            \/ /\ NextGen(c) = op[c].row.gen
               /\ Keeps(c)
               /\ ClaimedLease(c).expires >= op[c].row.expires
  <1>1. /\ op[c].row \in Leases
        /\ op[c].asked \in Nat
    BY DEF Ops
  <1>2. op[c].row.gen \in Nat /\ op[c].row.expires \in Nat
    BY <1>1 DEF Leases
  <1>3. OwnerOf[c] \in Owners
    BY OwnersAssumption
  <1>4. NextGen(c) \in Nat
    BY <1>2 DEF NextGen
  <1>5. /\ Later(op[c].row.expires, op[c].asked) \in Nat
        /\ Later(op[c].row.expires, op[c].asked) >= op[c].row.expires
    BY <1>1, <1>2 DEF Later
  <1> QED
    BY <1>1, <1>2, <1>3, <1>4, <1>5 DEF ClaimedLease, NextGen, Leases

\* A renewal changes nothing but the expiry, and never brings it forward.
LEMMA RenewedIs ==
  ASSUME TypeOK, NEW c, NEW g, Renewed(c, g)
  PROVE  /\ lease' \in Leases
         /\ lease'.holder = lease.holder
         /\ lease'.gen = lease.gen
         /\ lease'.expires >= lease.expires
         /\ Exists(lease) /\ turn = "active"
         /\ UNCHANGED <<lockVars, now, turn, input, receipts, lastWrite>>
  <1>1. lease \in Leases /\ lease.expires \in Nat /\ now \in Nat
    BY DEF TypeOK, Leases
  <1>2. PICK asked \in now + 1 .. now + Duration :
            lease' = [lease EXCEPT !.expires = Later(@, asked)]
    BY DEF Renewed
  <1>3. asked \in Nat
    BY <1>1, <1>2, BoundsAssumption
  <1>4. Later(lease.expires, asked) \in Nat
        /\ Later(lease.expires, asked) >= lease.expires
    BY <1>1, <1>3 DEF Later
  <1> QED
    BY <1>1, <1>2, <1>4 DEF Leases, Renewed, Renewable, FenceHolds

\* A release either leaves the row alone or hands over the next generation of
\* an active Turn whose lease the caller held.
LEMMA ReleaseRowIs ==
  ASSUME TypeOK, NEW c, NEW g, ReleaseRow(c, g)
  PROVE  /\ lease' \in Leases
         /\ UNCHANGED <<lockVars, now, turn, input, receipts, lastWrite>>
         /\ \/ UNCHANGED lease
            \/ /\ turn = "active"
               /\ FenceHolds(c, g)
               /\ lease' = ReleasedLease
               /\ lease'.holder = Released
               /\ lease'.gen = lease.gen + 1
  <1>1. lease \in Leases /\ lease.gen \in Nat /\ now \in Nat
    BY DEF TypeOK, Leases
  <1>2. ReleasedLease \in Leases /\ ReleasedLease.holder = Released
        /\ ReleasedLease.gen = lease.gen + 1
    BY <1>1 DEF ReleasedLease, Leases
  <1> QED
    BY <1>1, <1>2 DEF ReleaseRow

---------------------------------------------------------------------------
(* Type correctness. *)

LEMMA TypeInit == Init => TypeOK
  <1> SUFFICES ASSUME Init PROVE TypeOK
    OBVIOUS
  <1>1. lease \in Leases
    <2>1. \A o \in Owners : FirstLease(o) \in Leases
      BY BoundsAssumption DEF FirstLease, Leases
    <2> QED BY <2>1, NoLeaseType DEF Init
  <1> QED
    BY <1>1, IdleOpType, OwnersAssumption DEF Init, TypeOK, Works

LEMMA TypeClaimed ==
  ASSUME TypeOK, NEW c \in Callers, NEW g \in Nat, Claimed(c, g)
  PROVE  /\ op' \in [Callers -> Ops]
         /\ work' \in [Callers -> Works]
         /\ fence' \in [Callers -> Nat]
  BY IdleOpType DEF TypeOK, Claimed, Works

LEMMA TypeToOp ==
  ASSUME TypeOK, NEW c \in Callers, NEW o \in Ops, ToOp(c, o)
  PROVE  TypeOK'
  BY DEF TypeOK, ToOp

LEMMA TypeToWork ==
  ASSUME TypeOK, NEW c \in Callers, NEW w \in Works, NEW g \in Nat, ToWork(c, w, g)
  PROVE  work' \in [Callers -> Works] /\ fence' \in [Callers -> Nat]
  BY DEF TypeOK, ToWork

LEMMA TypeHost ==
  ASSUME TypeOK, NEW h \in Hosts, HostStep(h)
  PROVE  TypeOK'
  <1>1. CASE Own(h)
    BY <1>1 DEF TypeOK, Own, Lock!Grant
  <1>2. CASE Disown(h)
    BY <1>2 DEF TypeOK, Disown, Lock!Stop
  <1>3. CASE FreeRecord(h)
    BY <1>3 DEF TypeOK, FreeRecord, Lock!Free
  <1>4. CASE Crash(h)
    BY <1>4, IdleOpType DEF TypeOK, Crash, Lock!Crash, Works
  <1> QED
    BY <1>1, <1>2, <1>3, <1>4 DEF HostStep

LEMMA TypeClaiming ==
  ASSUME TypeOK, NEW c \in Callers, Claiming(c)
  PROVE  TypeOK'
  <1>0. /\ op[c] \in Ops /\ op[c].row \in Leases /\ op[c].row.gen \in Nat
        /\ lease \in Leases /\ now \in Nat
    BY DEF TypeOK, Ops, Leases
  <1>1. CASE ClaimRow(c)
    <2>1. [op[c] EXCEPT !.pc = "judge", !.row = lease, !.expired = Expired(lease)] \in Ops
      <3>1. Expired(lease) \in BOOLEAN /\ "judge" \in OpPcs
        BY DEF Expired, OpPcs
      <3> QED BY <1>0, <3>1, OpsUpdate
    <2> QED BY <1>1, <2>1, IdleOpType, TypeToOp DEF ClaimRow
  <1>2. CASE ClaimJudge(c)
    <2>1. /\ [op[c] EXCEPT !.pc = "renew"] \in Ops
          /\ [op[c] EXCEPT !.pc = "commit"] \in Ops
      BY <1>0 DEF Ops, OpPcs
    <2> QED BY <1>2, <2>1, IdleOpType, TypeToOp DEF ClaimJudge
  <1>3. CASE ClaimCommit(c)
    <2>1. receipts' \subseteq Hosts \X Nat
      <3>1. ReceiptOf(c) \in Hosts \X Nat
        BY <1>0, HostType, ClaimedLeaseIs DEF ReceiptOf, Reclaim, FirstClaim
      <3> QED BY <1>3, <3>1 DEF ClaimCommit, TypeOK
    <2>2. lease' \in Leases
      BY <1>0, <1>3, ClaimedLeaseIs DEF ClaimCommit
    <2> QED
      BY <1>0, <1>3, <2>1, <2>2, TypeClaimed, ClaimedLeaseIs DEF ClaimCommit, TypeOK
  <1>4. CASE ClaimDeduplicated(c)
    BY <1>0, <1>4, TypeClaimed, ClaimedLeaseIs DEF ClaimDeduplicated, TypeOK
  <1>5. CASE ClaimLost(c)
    BY <1>5, IdleOpType, TypeToOp DEF ClaimLost
  <1>6. CASE ClaimRenew(c)
    BY <1>0, <1>6, RenewedIs, TypeClaimed DEF ClaimRenew, TypeOK
  <1>7. CASE ClaimNotRenewed(c)
    BY <1>7, IdleOpType, TypeToOp DEF ClaimNotRenewed
  <1>8. CASE WaitingHandBack(c)
    BY <1>8, ReleaseRowIs, IdleOpType DEF WaitingHandBack, TypeOK
  <1> QED
    BY <1>1, <1>2, <1>3, <1>4, <1>5, <1>6, <1>7, <1>8 DEF Claiming

LEMMA TypeExecuting ==
  ASSUME TypeOK, NEW c \in Callers, Executing(c)
  PROVE  TypeOK'
  <1>0. fence[c] \in Nat /\ 0 \in Nat /\ {"none", "captured", "driving", "late"} \subseteq Works
    BY DEF TypeOK, Works
  <1>1. CASE Renew(c)
    BY <1>0, <1>1, RenewedIs DEF Renew, TypeOK
  <1>2. CASE RenewalLost(c)
    BY <1>0, <1>2, TypeToWork DEF RenewalLost, TypeOK
  <1>3. CASE Write(c)
    BY <1>0, <1>3, OwnersAssumption DEF Write, TypeOK
  <1>4. CASE WriteRejected(c)
    BY <1>0, <1>4, TypeToWork DEF WriteRejected, TypeOK
  <1>5. CASE Wait(c)
    BY <1>0, <1>5, TypeToWork DEF Wait, TypeOK
  <1>6. CASE LastCallback(c)
    BY <1>0, <1>6, TypeToWork DEF LastCallback, TypeOK
  <1>7. CASE Terminate(c)
    BY <1>0, <1>7, TypeToWork, NoLeaseType DEF Terminate, TypeOK
  <1>8. CASE HandBack(c)
    BY <1>0, <1>8, TypeToWork, ReleaseRowIs DEF HandBack, TypeOK
  <1> QED
    BY <1>1, <1>2, <1>3, <1>4, <1>5, <1>6, <1>7, <1>8 DEF Executing

LEMMA TypeStep == TypeOK /\ [Next]_vars => TypeOK'
  <1> SUFFICES ASSUME TypeOK, [Next]_vars PROVE TypeOK'
    OBVIOUS
  <1>1. CASE UNCHANGED vars
    BY <1>1 DEF TypeOK
  <1>2. ASSUME NEW h \in Hosts, HostStep(h) PROVE TypeOK'
    BY <1>2, TypeHost
  <1>3. ASSUME NEW c \in Callers, CallerStep(c) PROVE TypeOK'
    <2>0. now \in Nat /\ lease \in Leases /\ op[c] \in Ops
      BY DEF TypeOK
    <2>1. CASE ClaimBegin(c)
      <3>1. [IdleOp EXCEPT !.pc = "row", !.replay = FirstClaim(Host(c)) \in receipts,
                           !.asked = Asks] \in Ops
        <4>1. /\ (FirstClaim(Host(c)) \in receipts) \in BOOLEAN
              /\ "row" \in OpPcs
              /\ Asks \in Nat
          BY <2>0, BoundsAssumption DEF Asks, OpPcs
        <4> QED BY <4>1, NoLeaseType, IdleOpType, OpsUpdate
      <3> QED BY <2>1, <3>1, TypeToOp DEF ClaimBegin
    <2>2. CASE Claiming(c)
      BY <2>2, TypeClaiming
    <2>3. CASE Capture(c)
      BY <2>0, <2>3, TypeToWork DEF Capture, TypeOK, Works, Leases
    <2>4. CASE Executing(c)
      BY <2>4, TypeExecuting
    <2>5. CASE WaitingRead(c)
      <3>1. [IdleOp EXCEPT !.pc = "release", !.row = lease] \in Ops
        BY <2>0, IdleOpType DEF Ops, OpPcs
      <3> QED BY <2>5, <3>1, TypeToOp DEF WaitingRead
    <2>6. CASE Finalize(c)
      BY <2>6 DEF Finalize, TypeOK
    <2> QED
      BY <1>3, <2>1, <2>2, <2>3, <2>4, <2>5, <2>6 DEF CallerStep
  <1>4. CASE Tick
    BY <1>4 DEF Tick, TypeOK
  <1>5. CASE InputArrives
    BY <1>5 DEF InputArrives, TypeOK
  <1> QED
    BY <1>1, <1>2, <1>3, <1>4, <1>5 DEF Next

\* Every variable of the lease model keeps its shape.
THEOREM TypeCorrect == Spec => []TypeOK
  BY TypeInit, TypeStep, PTL DEF Spec
---------------------------------------------------------------------------
(* The Conversation owner and its pins. *)

\* A step is a step of the lock or leaves it alone.
LEMMA LockStep ==
  ASSUME TypeOK, [Next]_vars
  PROVE  \/ UNCHANGED lockVars
         \/ \E h \in Hosts : Own(h) \/ Disown(h) \/ FreeRecord(h) \/ Crash(h)
  <1>1. CASE UNCHANGED vars
    BY <1>1
  <1>2. ASSUME NEW h \in Hosts, HostStep(h)
        PROVE  Own(h) \/ Disown(h) \/ FreeRecord(h) \/ Crash(h)
    BY <1>2 DEF HostStep
  <1>3. ASSUME NEW c \in Callers, CallerStep(c) PROVE UNCHANGED lockVars
    <2>1. CASE Claiming(c)
      BY <2>1, RenewedIs, ReleaseRowIs DEF Claiming, ClaimRow, ClaimJudge,
         ClaimCommit, ClaimDeduplicated, ClaimLost, ClaimRenew, ClaimNotRenewed,
         WaitingHandBack, ToOp
    <2>2. CASE Executing(c)
      BY <2>2, RenewedIs, ReleaseRowIs DEF Executing, Renew, RenewalLost, Write,
         WriteRejected, Wait, LastCallback, Terminate, HandBack
    <2>3. CASE ClaimBegin(c) \/ Capture(c) \/ WaitingRead(c) \/ Finalize(c)
      BY <2>3 DEF ClaimBegin, Capture, WaitingRead, Finalize, ToOp
    <2> QED
      BY <1>3, <2>1, <2>2, <2>3 DEF CallerStep
  <1>4. CASE Tick \/ InputArrives
    BY <1>4 DEF Tick, InputArrives
  <1> QED
    BY <1>1, <1>2, <1>3, <1>4 DEF Next

LEMMA OwnerStep ==
  ASSUME TypeOK, OwnerIsSingle, [Next]_vars
  PROVE  OwnerIsSingle'
  <1>1. CASE UNCHANGED lockVars
    BY <1>1 DEF OwnerIsSingle, Lock!OnlyHolderServes
  <1>2. ASSUME NEW h \in Hosts, Own(h) PROVE OwnerIsSingle'
    BY <1>2, OwnersAssumption DEF TypeOK, OwnerIsSingle, Lock!OnlyHolderServes, Own, Lock!Grant
  <1>3. ASSUME NEW h \in Hosts, Disown(h) PROVE OwnerIsSingle'
    BY <1>3 DEF OwnerIsSingle, Lock!OnlyHolderServes, Disown, Lock!Stop
  <1>4. ASSUME NEW h \in Hosts, FreeRecord(h) PROVE OwnerIsSingle'
    BY <1>4 DEF OwnerIsSingle, Lock!OnlyHolderServes, FreeRecord, Lock!Free
  <1>5. ASSUME NEW h \in Hosts, Crash(h) PROVE OwnerIsSingle'
    BY <1>5 DEF OwnerIsSingle, Lock!OnlyHolderServes, Crash, Lock!Crash
  <1> QED
    BY <1>1, <1>2, <1>3, <1>4, <1>5, LockStep

\* Only a Host that serves starts an activity, and every activity ends
\* before its Host stops serving.
LEMMA PinnedClaiming ==
  ASSUME TypeOK, PinnedHostsServe, NEW c \in Callers, Claiming(c)
  PROVE  PinnedHostsServe'
  <1>1. /\ op[c].pc # "idle"
        /\ \A d \in Callers \ {c} : /\ op'[d] = op[d]
                                    /\ work'[d] = work[d]
        /\ UNCHANGED lockVars
    BY RenewedIs, ReleaseRowIs DEF TypeOK, Claiming, ClaimRow, ClaimJudge,
       ClaimCommit, ClaimDeduplicated, ClaimLost, ClaimRenew, ClaimNotRenewed,
       WaitingHandBack, ToOp, Claimed, At
  <1> QED
    BY <1>1 DEF PinnedHostsServe

LEMMA PinnedExecuting ==
  ASSUME TypeOK, PinnedHostsServe, NEW c \in Callers, Executing(c)
  PROVE  PinnedHostsServe'
  <1>1. /\ \A d \in Callers : op'[d] = op[d]
        /\ \A d \in Callers \ {c} : work'[d] = work[d]
        /\ \/ work[c] \in {"captured", "driving", "control"}
           \/ work'[c] = work[c]
           \/ work'[c] = "none"
        /\ UNCHANGED lockVars
    BY RenewedIs, ReleaseRowIs DEF TypeOK, Executing, Renew, RenewalLost, Write,
       WriteRejected, Wait, LastCallback, Terminate, HandBack, ToWork
  <1> QED
    BY <1>1 DEF PinnedHostsServe

LEMMA PinnedHost ==
  ASSUME TypeOK, PinnedHostsServe, NEW h \in Hosts, HostStep(h)
  PROVE  PinnedHostsServe'
  <1>1. CASE Own(h)
    BY <1>1 DEF PinnedHostsServe, Own, Lock!Grant
  <1>2. CASE Disown(h)
    BY <1>2 DEF PinnedHostsServe, Disown, MayDisown, Pinned, Lock!Stop
  <1>3. CASE FreeRecord(h)
    BY <1>3 DEF PinnedHostsServe, FreeRecord, Lock!Free
  <1>4. CASE Crash(h)
    <2>1. ASSUME NEW c \in Callers, op'[c].pc # "idle" \/ work'[c] # "none"
          PROVE  Host(c) # h /\ op'[c] = op[c] /\ work'[c] = work[c]
      BY <1>4, <2>1 DEF Crash, IdleOp
    <2> QED
      BY <1>4, <2>1 DEF PinnedHostsServe, Crash, Lock!Crash
  <1> QED
    BY <1>1, <1>2, <1>3, <1>4 DEF HostStep

LEMMA PinnedStep ==
  ASSUME TypeOK, PinnedHostsServe, [Next]_vars
  PROVE  PinnedHostsServe'
  <1>1. CASE UNCHANGED vars
    BY <1>1 DEF PinnedHostsServe
  <1>2. ASSUME NEW h \in Hosts, HostStep(h) PROVE PinnedHostsServe'
    BY <1>2, PinnedHost
  <1>3. ASSUME NEW c \in Callers, CallerStep(c) PROVE PinnedHostsServe'
    <2>1. CASE Claiming(c)
      BY <2>1, PinnedClaiming
    <2>2. CASE Executing(c)
      BY <2>2, PinnedExecuting
    <2>3. CASE ClaimBegin(c) \/ Capture(c) \/ WaitingRead(c) \/ Finalize(c)
      <3>1. /\ \A d \in Callers \ {c} : op'[d] = op[d] /\ work'[d] = work[d]
            /\ Host(c) \in serving
            /\ UNCHANGED lockVars
        BY <2>3 DEF TypeOK, ClaimBegin, Capture, WaitingRead, Finalize, ToOp, ToWork
      <3> QED
        BY <3>1 DEF PinnedHostsServe
    <2> QED
      BY <1>3, <2>1, <2>2, <2>3 DEF CallerStep
  <1>4. CASE Tick \/ InputArrives
    BY <1>4 DEF Tick, InputArrives, PinnedHostsServe
  <1> QED
    BY <1>1, <1>2, <1>3, <1>4 DEF Next

---------------------------------------------------------------------------
(* What a claim judged still holds when it commits. *)

LEMMA JudgmentClaiming ==
  ASSUME TypeOK, JudgmentStands, NEW c \in Callers, Claiming(c)
  PROVE  JudgmentStands'
  <1>0. /\ alive' = alive /\ now' = now
        /\ \A d \in Callers \ {c} : op'[d] = op[d]
        /\ \/ op'[c] = IdleOp
           \/ op'[c] = [op[c] EXCEPT !.pc = "judge", !.row = lease,
                                     !.expired = Expired(lease)]
           \/ op'[c] = [op[c] EXCEPT !.pc = "renew"]
           \/ op'[c] = [op[c] EXCEPT !.pc = "commit"] /\ ~StandsDown(c)
    BY RenewedIs, ReleaseRowIs DEF TypeOK, Claiming, ClaimRow, ClaimJudge,
       ClaimCommit, ClaimDeduplicated, ClaimLost, ClaimRenew, ClaimNotRenewed,
       WaitingHandBack, ToOp, Claimed
  <1>1. ASSUME NEW d \in Callers \ {c}
        PROVE  /\ op'[d].expired => op'[d].row.expires <= now'
               /\ op'[d].pc = "commit" => ~StandsDown(d)'
    BY <1>0, <1>1 DEF JudgmentStands, StandsDown, SameHost, HostAlive, Exists
  <1>2. /\ op'[c].expired => op'[c].row.expires <= now'
        /\ op'[c].pc = "commit" => ~StandsDown(c)'
    <2>0. op[c] \in Ops
      BY DEF TypeOK
    <2>1. CASE op'[c] = IdleOp
      BY <2>1 DEF IdleOp
    <2>2. CASE op'[c] = [op[c] EXCEPT !.pc = "judge", !.row = lease,
                                      !.expired = Expired(lease)]
      BY <1>0, <2>0, <2>2 DEF Ops, Expired
    <2>3. CASE op'[c] = [op[c] EXCEPT !.pc = "renew"]
      BY <1>0, <2>0, <2>3 DEF Ops, JudgmentStands
    <2>4. CASE op'[c] = [op[c] EXCEPT !.pc = "commit"] /\ ~StandsDown(c)
      <3>1. op'[c].row = op[c].row /\ op'[c].expired = op[c].expired
        BY <2>0, <2>4 DEF Ops
      <3> QED
        BY <1>0, <2>4, <3>1
        DEF JudgmentStands, StandsDown, SameHost, HostAlive, Exists
    <2> QED
      BY <1>0, <2>1, <2>2, <2>3, <2>4
  <1> QED
    BY <1>1, <1>2 DEF JudgmentStands

LEMMA JudgmentStep ==
  ASSUME TypeOK, JudgmentStands, [Next]_vars
  PROVE  JudgmentStands'
  \* Operations as they were, no more live Hosts and no earlier clock.
  <1>0. ASSUME UNCHANGED op, alive' \subseteq alive, now' \in Nat, now' >= now
        PROVE  JudgmentStands'
    <2> SUFFICES ASSUME NEW c \in Callers
                 PROVE  /\ op[c].expired => op[c].row.expires <= now'
                        /\ op[c].pc = "commit" => ~StandsDown(c)'
      BY <1>0 DEF JudgmentStands
    <2>1. op[c].row.expires \in Nat /\ now \in Nat
      BY DEF TypeOK, Ops, Leases
    <2>2. op[c].expired => op[c].row.expires <= now'
      BY <1>0, <2>1 DEF JudgmentStands
    <2>3. StandsDown(c)' => StandsDown(c)
      BY <1>0 DEF StandsDown, SameHost, HostAlive, Exists
    <2> QED
      BY <2>2, <2>3 DEF JudgmentStands
  <1>1. CASE UNCHANGED vars
    BY <1>0, <1>1 DEF TypeOK
  <1>2. ASSUME NEW h \in Hosts, HostStep(h) PROVE JudgmentStands'
    <2>1. CASE Own(h) \/ Disown(h) \/ FreeRecord(h)
      BY <1>0, <2>1 DEF TypeOK, Own, Disown, FreeRecord, Lock!Grant, Lock!Stop, Lock!Free
    <2>2. CASE Crash(h)
      <3> SUFFICES ASSUME NEW c \in Callers
                   PROVE  /\ op'[c].expired => op'[c].row.expires <= now'
                          /\ op'[c].pc = "commit" => ~StandsDown(c)'
        BY DEF JudgmentStands
      <3>1. CASE Host(c) = h
        BY <2>2, <3>1 DEF Crash, IdleOp
      <3>2. CASE Host(c) # h
        <4>1. op'[c] = op[c] /\ now' = now /\ alive' \subseteq alive
          BY <2>2, <3>2 DEF Crash, Lock!Crash
        <4>2. StandsDown(c)' => StandsDown(c)
          BY <4>1 DEF StandsDown, SameHost, HostAlive, Exists
        <4> QED
          BY <4>1, <4>2 DEF JudgmentStands
      <3> QED
        BY <3>1, <3>2
    <2> QED
      BY <1>2, <2>1, <2>2 DEF HostStep
  <1>3. ASSUME NEW c \in Callers, CallerStep(c) PROVE JudgmentStands'
    <2>1. CASE Claiming(c)
      BY <2>1, JudgmentClaiming
    <2>2. CASE Executing(c) \/ Capture(c) \/ Finalize(c)
      <3>1. UNCHANGED <<op, alive, now>>
        BY <2>2, RenewedIs, ReleaseRowIs DEF Executing, Renew, RenewalLost, Write,
           WriteRejected, Wait, LastCallback, Terminate, HandBack, Capture, Finalize
      <3> QED
        BY <1>0, <3>1 DEF TypeOK
    <2>3. CASE ClaimBegin(c) \/ WaitingRead(c)
      <3>1. /\ UNCHANGED <<alive, now>>
            /\ \A d \in Callers \ {c} : op'[d] = op[d]
            /\ ~op'[c].expired /\ op'[c].pc # "commit"
        BY <2>3 DEF TypeOK, ClaimBegin, WaitingRead, ToOp, IdleOp
      <3> QED
        BY <3>1 DEF JudgmentStands, StandsDown, SameHost, HostAlive, Exists
    <2> QED
      BY <1>3, <2>1, <2>2, <2>3 DEF CallerStep
  <1>4. CASE Tick
    BY <1>0, <1>4 DEF Tick, TypeOK
  <1>5. CASE InputArrives
    BY <1>0, <1>5 DEF InputArrives, TypeOK
  <1> QED
    BY <1>1, <1>2, <1>3, <1>4, <1>5 DEF Next

---------------------------------------------------------------------------
(* How the lease row changes. *)

\* A commit replaces the very row it judged, in favour of its caller.
LEMMA CommitIs ==
  ASSUME IInv, NEW c \in Callers, ClaimCommit(c)
  PROVE  /\ Host(c) \in serving
         /\ lease = op[c].row
         /\ ~StandsDown(c)
         /\ lease' \in Leases
         /\ lease'.holder = OwnerOf[c]
         /\ \/ lease'.gen = lease.gen + 1
            \/ /\ lease'.gen = lease.gen
               /\ lease'.holder = lease.holder
               /\ lease'.expires >= lease.expires
               /\ Exists(lease)
         /\ turn = "active" /\ UNCHANGED <<lockVars, now, turn, lastWrite>>
  <1>1. op[c] \in Ops
    BY DEF IInv, TypeOK
  <1>2. op[c].pc # "idle" /\ op[c].pc = "commit"
    BY DEF ClaimCommit, At
  <1> QED
    BY <1>1, <1>2, ClaimedLeaseIs
    DEF IInv, PinnedHostsServe, JudgmentStands, ClaimCommit, RowUnchanged, Keeps

\* The holder gives its lease up, or ends the Turn and the lease with it.
GivenUp(c) ==
  /\ Host(c) \in serving
  /\ Exists(lease)
  /\ lease.holder = OwnerOf[c]
  /\ lease'.holder = Released
  /\ \/ lease'.gen = lease.gen + 1
     \/ ~Exists(lease') /\ turn' = "terminated"

SameOrLonger ==
  /\ lease'.gen = lease.gen
  /\ lease'.holder = lease.holder
  /\ lease'.expires >= lease.expires

LEMMA LeaseStep ==
  ASSUME IInv, [Next]_vars
  PROVE  \/ SameOrLonger
         \/ \E c \in Callers : ClaimCommit(c) \/ GivenUp(c)
  <1>0. TypeOK /\ lease.expires \in Nat /\ lease.gen \in Nat
    BY DEF IInv, TypeOK, Leases
  <1>a. ASSUME UNCHANGED lease PROVE SameOrLonger
    BY <1>0, <1>a DEF SameOrLonger
  <1>1. CASE UNCHANGED vars
    BY <1>1, <1>a
  <1>2. ASSUME NEW h \in Hosts, HostStep(h) PROVE UNCHANGED lease
    BY <1>2 DEF HostStep, Own, Disown, FreeRecord, Crash
  <1>3. ASSUME NEW c \in Callers, CallerStep(c)
        PROVE  SameOrLonger \/ ClaimCommit(c) \/ GivenUp(c)
    <2>0. ASSUME NEW g, ReleaseRow(c, g), Host(c) \in serving
          PROVE  SameOrLonger \/ GivenUp(c)
      BY <1>0, <1>a, <2>0, ReleaseRowIs DEF GivenUp, FenceHolds
    <2>1. CASE ClaimRenew(c) \/ Renew(c)
      BY <1>0, <2>1, RenewedIs DEF ClaimRenew, Renew, SameOrLonger
    <2>2. CASE WaitingHandBack(c)
      BY <2>0, <2>2 DEF WaitingHandBack, At, IInv, PinnedHostsServe
    <2>3. CASE HandBack(c)
      BY <2>0, <2>3 DEF HandBack, IInv, PinnedHostsServe
    <2>4. CASE Terminate(c)
      BY <2>4 DEF Terminate, FenceHolds, IInv, PinnedHostsServe, GivenUp, NoLease, Exists
    <2>5. CASE \/ ClaimBegin(c) \/ ClaimRow(c) \/ ClaimJudge(c)
               \/ ClaimDeduplicated(c) \/ ClaimLost(c) \/ ClaimNotRenewed(c)
               \/ WaitingRead(c)
      BY <1>a, <2>5 DEF ClaimBegin, ClaimRow, ClaimJudge, ClaimDeduplicated,
         ClaimLost, ClaimNotRenewed, WaitingRead, ToOp
    <2>6. CASE \/ Capture(c) \/ RenewalLost(c) \/ Write(c) \/ WriteRejected(c)
               \/ Wait(c) \/ LastCallback(c) \/ Finalize(c)
      BY <1>a, <2>6 DEF Capture, RenewalLost, Write, WriteRejected, Wait,
         LastCallback, Finalize
    <2> QED
      BY <1>3, <2>1, <2>2, <2>3, <2>4, <2>5, <2>6 DEF CallerStep, Claiming, Executing
  <1>4. CASE Tick \/ InputArrives
    BY <1>4, <1>a DEF Tick, InputArrives
  <1> QED
    BY <1>1, <1>2, <1>3, <1>4, <1>a DEF Next

---------------------------------------------------------------------------
(* Fenced writes follow the lease. *)

\* Who else may touch the last write, the Turn or a lease that is missing.
LEMMA OtherRowsStep ==
  ASSUME IInv, [Next]_vars
  PROVE  /\ \/ UNCHANGED lastWrite
            \/ \E c \in Callers : Write(c)
         /\ \/ UNCHANGED turn
            \/ turn' = "terminated" /\ ~Exists(lease')
  <1>0. TypeOK
    BY DEF IInv
  <1>1. CASE UNCHANGED vars
    BY <1>1
  <1>2. ASSUME NEW h \in Hosts, HostStep(h) PROVE UNCHANGED <<lastWrite, turn>>
    BY <1>2 DEF HostStep, Own, Disown, FreeRecord, Crash
  <1>3. ASSUME NEW c \in Callers, CallerStep(c)
        PROVE  /\ UNCHANGED lastWrite \/ Write(c)
               /\ \/ UNCHANGED turn
                  \/ turn' = "terminated" /\ ~Exists(lease')
    <2>1. CASE Claiming(c)
      BY <1>0, <2>1, RenewedIs, ReleaseRowIs DEF Claiming, ClaimRow, ClaimJudge,
         ClaimCommit, ClaimDeduplicated, ClaimLost, ClaimRenew, ClaimNotRenewed,
         WaitingHandBack, ToOp
    <2>2. CASE Terminate(c) \/ Finalize(c)
      BY <2>2 DEF Terminate, Finalize, NoLease, Exists
    <2>3. CASE \/ Renew(c) \/ RenewalLost(c) \/ Write(c) \/ WriteRejected(c)
               \/ Wait(c) \/ LastCallback(c) \/ HandBack(c)
      BY <1>0, <2>3, RenewedIs, ReleaseRowIs DEF Renew, RenewalLost, Write,
         WriteRejected, Wait, LastCallback, HandBack
    <2>4. CASE ClaimBegin(c) \/ Capture(c) \/ WaitingRead(c)
      BY <2>4 DEF ClaimBegin, Capture, WaitingRead, ToOp
    <2> QED
      BY <1>3, <2>1, <2>2, <2>3, <2>4 DEF CallerStep, Executing
  <1>4. CASE Tick \/ InputArrives
    BY <1>4 DEF Tick, InputArrives
  <1> QED
    BY <1>1, <1>2, <1>3, <1>4 DEF Next

LEMMA WritesStep ==
  ASSUME IInv, [Next]_vars
  PROVE  WritesFollowLease'
  <1>0. /\ WritesFollowLease /\ TypeOK /\ TypeOK'
        /\ lease.gen \in Nat /\ lease'.gen \in Nat /\ lastWrite.gen \in Nat
        /\ turn' \in {"active", "terminated"}
    BY TypeStep DEF IInv, TypeOK, Leases
  <1>1. CASE \E c \in Callers : Write(c)
    <2> PICK c \in Callers : Write(c)
      BY <1>1
    <2>1. /\ UNCHANGED <<lease, turn>>
          /\ Exists(lease)
          /\ lastWrite'.gen = lease.gen
          /\ lastWrite'.by = lease.holder
      BY DEF Write, FenceHolds
    <2> QED
      BY <1>0, <2>1 DEF WritesFollowLease, Exists
  <1>2. CASE UNCHANGED lastWrite /\ \E c \in Callers : ClaimCommit(c)
    <2> PICK c \in Callers : ClaimCommit(c)
      BY <1>2
    <2> QED
      BY <1>0, <1>2, CommitIs DEF WritesFollowLease, Exists
  <1>3. CASE UNCHANGED lastWrite /\ \E c \in Callers : GivenUp(c)
    BY <1>0, <1>3, OtherRowsStep DEF WritesFollowLease, Exists, GivenUp
  <1>4. CASE UNCHANGED lastWrite /\ SameOrLonger
    BY <1>0, <1>4, OtherRowsStep DEF WritesFollowLease, Exists, SameOrLonger
  <1> QED
    BY <1>1, <1>2, <1>3, <1>4, OtherRowsStep, LeaseStep

---------------------------------------------------------------------------
(* The invariant, and what follows from it. *)

LEMMA InvInit == Init => IInv
  <1> SUFFICES ASSUME Init PROVE IInv
    OBVIOUS
  <1>1. TypeOK
    BY TypeInit
  <1>2. OwnerIsSingle
    BY OwnersAssumption DEF Init, OwnerIsSingle, Lock!OnlyHolderServes
  <1>3. PinnedHostsServe /\ JudgmentStands
    BY DEF Init, PinnedHostsServe, JudgmentStands, IdleOp
  <1>4. WritesFollowLease
    BY DEF Init, WritesFollowLease, Exists, FirstLease, NoLease
  <1> QED
    BY <1>1, <1>2, <1>3, <1>4 DEF IInv

LEMMA InvStep == IInv /\ [Next]_vars => IInv'
  BY TypeStep, OwnerStep, PinnedStep, JudgmentStep, WritesStep DEF IInv

LEMMA Invariant == Spec => []IInv
  BY InvInit, InvStep, PTL DEF Spec

\* At most the Host the durable record names works on the Conversation.
THEOREM SingleOwner == Spec => []OwnerIsSingle
  BY Invariant, PTL DEF IInv

\* No claim takes the lease of a live Host, however old its reads are.
THEOREM LiveHostSafe == Spec => LiveHostKeepsLease
  <1>1. ASSUME IInv, [Next]_vars, Exists(lease), HostAlive(lease),
               lease'.holder # lease.holder
        PROVE  \/ lease'.holder = Released /\ HostOf[lease.holder] \in serving
               \/ /\ lease'.holder # Released
                  /\ HostOf[lease'.holder] = HostOf[lease.holder]
                  /\ Expired(lease)
    <2>1. CASE \E c \in Callers : ClaimCommit(c)
      <3> PICK c \in Callers : ClaimCommit(c)
        BY <2>1
      <3>1. lease.holder # OwnerOf[c] /\ ~StandsDown(c) /\ lease = op[c].row
        BY <1>1, CommitIs
      <3>2. SameHost(c, lease) /\ op[c].expired
        BY <1>1, <3>1 DEF StandsDown, SameHost, HostAlive
      <3>3. Expired(lease)
        BY <1>1, <3>1, <3>2 DEF IInv, JudgmentStands, Expired
      <3>4. lease'.holder = OwnerOf[c] /\ OwnerOf[c] # Released
        BY <1>1, CommitIs, OwnersAssumption
      <3> QED
        BY <3>2, <3>3, <3>4 DEF SameHost, Host
    <2>2. CASE \E c \in Callers : GivenUp(c)
      BY <2>2 DEF GivenUp, Host
    <2> QED
      BY <1>1, <2>1, <2>2, LeaseStep DEF SameOrLonger
  <1>2. IInv /\ [Next]_vars => [KeepsLiveHost]_vars
    BY <1>1 DEF KeepsLiveHost
  <1> QED
    BY <1>2, Invariant, PTL DEF Spec, LiveHostKeepsLease

\* A generation names one holder, and its expiry never shrinks.
THEOREM GenerationsOfOneHolder == Spec => GenerationHasOneHolder
  <1>1. ASSUME IInv, [Next]_vars, Exists(lease), Exists(lease')
        PROVE  lease'.gen > lease.gen \/ SameOrLonger
    <2>1. lease.gen \in Nat
      BY <1>1 DEF IInv, TypeOK, Leases
    <2>2. ASSUME NEW c \in Callers, ClaimCommit(c)
          PROVE  lease'.gen > lease.gen \/ SameOrLonger
      BY <1>1, <2>1, <2>2, CommitIs DEF SameOrLonger
    <2>3. ASSUME NEW c \in Callers, GivenUp(c)
          PROVE  lease'.gen > lease.gen
      BY <1>1, <2>1, <2>3 DEF GivenUp
    <2> QED
      BY <1>1, <2>2, <2>3, LeaseStep
  <1>2. IInv /\ [Next]_vars => [KeepsGeneration]_vars
    BY <1>1 DEF KeepsGeneration, SameOrLonger
  <1> QED
    BY <1>2, Invariant, PTL DEF Spec, GenerationHasOneHolder

\* The fenced writes of a Turn come in the order of its generations.
THEOREM WritesInOrder == Spec => WritesNeverGoBack
  <1>1. ASSUME IInv, [Next]_vars, lastWrite' # lastWrite
        PROVE  \/ lastWrite'.gen > lastWrite.gen
               \/ lastWrite'.gen = lastWrite.gen /\ lastWrite'.by = lastWrite.by
    <2>1. PICK c \in Callers : Write(c)
      BY <1>1, OtherRowsStep
    <2>2. /\ Exists(lease)
          /\ lastWrite'.gen = lease.gen
          /\ lastWrite'.by = lease.holder
          /\ lease.gen \in Nat /\ lastWrite.gen \in Nat
      BY <1>1, <2>1 DEF Write, FenceHolds, IInv, TypeOK, Leases
    <2> QED
      BY <1>1, <2>2 DEF IInv, WritesFollowLease
  <1>2. IInv /\ [Next]_vars => [WritesForward]_vars
    BY <1>1 DEF WritesForward
  <1> QED
    BY <1>2, Invariant, PTL DEF Spec, WritesNeverGoBack

\* Whoever takes the lease owns the Conversation at that very step.
THEOREM TakeoverOwned == Spec => TakenByConversationOwner
  <1>1. ASSUME IInv, [Next]_vars, lease'.holder # lease.holder,
               lease'.holder # Released
        PROVE  HostOf[lease'.holder] \in serving
    <2>1. ASSUME NEW c \in Callers, ClaimCommit(c)
          PROVE  HostOf[lease'.holder] \in serving
      BY <1>1, <2>1, CommitIs DEF Host
    <2> QED
      BY <1>1, <2>1, LeaseStep DEF GivenUp, SameOrLonger
  <1>2. IInv /\ [Next]_vars => [TakenByOwner]_vars
    BY <1>1 DEF TakenByOwner
  <1> QED
    BY <1>2, Invariant, PTL DEF Spec, TakenByConversationOwner
=============================================================================
