--------------------- MODULE ConversationOwnershipProofs ---------------------
(***************************************************************************)
(* What holds of the owner record for every set of Hosts, callers and      *)
(* tokens, and whatever the probes answer and the file system fails to do. *)
(***************************************************************************)
EXTENDS ConversationOwnership, TLAPS

LEMMA HeadIsItem ==
    ASSUME TypeOK, NEW h \in Hosts, chain[h] # <<>>
    PROVE  /\ Waiting(h).call \in Calls
           /\ Waiting(h).kind \in Kinds
           /\ Tail(chain[h]) \in Seq(ChainItems)
<1>1. chain[h] \in Seq(ChainItems)
  BY DEF TypeOK
<1>2. Head(chain[h]) \in ChainItems /\ Tail(chain[h]) \in Seq(ChainItems)
  BY <1>1
<1> QED BY <1>2 DEF Waiting, ChainItems

LEMMA FreeOpType == FreeOp \in Ops
BY DEF FreeOp, Ops, OpPcs, Kinds

LEMMA QueueCallType ==
    ASSUME TypeOK, NEW h \in Hosts, NEW c \in Calls, NEW from,
           NEW to \in CallPcs, NEW kind \in Kinds,
           QueueCall(h, c, from, to, kind)
    PROVE  TypeOK'
<1>1. chain' \in [Hosts -> Seq(ChainItems)]
  <2>1. [call |-> c, kind |-> kind] \in ChainItems
    BY DEF ChainItems
  <2>2. Append(chain[h], [call |-> c, kind |-> kind]) \in Seq(ChainItems)
    BY <2>1 DEF TypeOK
  <2> QED BY <2>2 DEF TypeOK, QueueCall, Enqueue
<1>2. call' \in [Hosts -> [Calls -> CallPcs]]
  BY DEF TypeOK, QueueCall, CallStep
<1> QED BY <1>1, <1>2 DEF TypeOK, QueueCall, files, memory

LEMMA SettleType ==
    ASSUME TypeOK, NEW h \in Hosts, NEW c \in Calls \cup {None},
           NEW to \in CallPcs, Settle(h, c, to)
    PROVE  /\ op' \in [Hosts -> Ops]
           /\ call' \in [Hosts -> [Calls -> CallPcs]]
<1>1. op' \in [Hosts -> Ops]
  BY FreeOpType DEF TypeOK, Settle
<1>2. call' \in [Hosts -> [Calls -> CallPcs]]
  BY DEF TypeOK, Settle
<1> QED BY <1>1, <1>2

LEMMA AcquireType ==
    ASSUME TypeOK, NEW h \in Hosts, NEW c \in Calls \cup {None},
           NEW kind \in Kinds, Acquire(h, c, kind)
    PROVE  op' \in [Hosts -> Ops]
<1>1. PICK s \in Slots : op' = [op EXCEPT ![h] =
          [FreeOp EXCEPT !.pc = "stat", !.call = c, !.kind = kind,
                         !.token = <<h, s>>]]
  BY DEF Acquire
<1>2. [FreeOp EXCEPT !.pc = "stat", !.call = c, !.kind = kind,
                     !.token = <<h, s>>] \in Ops
  BY DEF FreeOp, Ops, OpPcs, Tokens
<1> QED BY <1>1, <1>2 DEF TypeOK

\* An operation that starts a release of token t.
LEMMA RelReadType ==
    ASSUME TypeOK, NEW h \in Hosts, NEW c \in Calls \cup {None},
           NEW kind \in Kinds, NEW t \in Tokens \cup {None},
           op' = [op EXCEPT ![h] = ReleaseOp(c, kind, t)]
    PROVE  op' \in [Hosts -> Ops]
<1>1. ReleaseOp(c, kind, t) \in Ops
  BY DEF ReleaseOp, FreeOp, Ops, OpPcs
<1> QED BY <1>1 DEF TypeOK

LEMMA GrantedType == \A h, c : Granted(h, c) \in CallPcs
BY DEF Granted, CallPcs

LEMMA OpType ==
    ASSUME TypeOK, NEW h \in Hosts
    PROVE  op[h] \in Ops
BY DEF TypeOK

LEMMA UpdatedType ==
    ASSUME TypeOK, NEW h \in Hosts
    PROVE  Updated(h) \in Claims
<1>1. claim[h] \in Claims
  BY DEF TypeOK
<1>2. [claim[h] EXCEPT !.handBack = TRUE] \in Claims
  BY <1>1 DEF Claims
<1>3. claim[h].pins \in Nat
  BY <1>1 DEF Claims
<1>4. ASSUME NEW n \in Nat
      PROVE  [claim[h] EXCEPT !.pins = n] \in Claims
  BY <1>1 DEF Claims
<1>5. [claim[h] EXCEPT !.pins = IF @ > 0 THEN @ - 1 ELSE @] \in Claims
  <2>1. CASE claim[h].pins > 0
    <3>1. claim[h].pins - 1 \in Nat
      BY <1>3, <2>1
    <3> QED BY <1>4, <2>1, <3>1
  <2>2. CASE ~(claim[h].pins > 0)
    BY <1>3, <1>4, <2>2
  <2> QED BY <2>1, <2>2
<1> QED BY <1>1, <1>2, <1>5 DEF Updated

LEMMA GotoType ==
    ASSUME TypeOK, NEW h \in Hosts, NEW pc \in OpPcs, Goto(h, pc)
    PROVE  op' \in [Hosts -> Ops]
<1>1. [op[h] EXCEPT !.pc = pc] \in Ops
  BY OpType DEF Ops
<1> QED BY <1>1 DEF TypeOK, Goto

LEMMA RetryType ==
    ASSUME TypeOK, NEW h \in Hosts, Retry(h)
    PROVE  op' \in [Hosts -> Ops]
<1>1. [op[h] EXCEPT !.pc = "stat", !.seen = None] \in Ops
  BY OpType DEF Ops, OpPcs
<1> QED BY <1>1 DEF TypeOK, Retry

LEMMA ForgetType ==
    ASSUME TypeOK, NEW h \in Hosts, Forget(h)
    PROVE  /\ owned' \in [Hosts -> Tokens \cup {None}]
           /\ claim' \in [Hosts -> Claims]
           /\ pendingRelease' \in [Hosts -> Tokens \cup {None}]
BY DEF TypeOK, Forget, NoClaim, Claims

LEMMA DropType ==
    ASSUME TypeOK, NEW h \in Hosts, NEW c \in Calls \cup {None},
           NEW kind \in Kinds, Drop(h, c, kind)
    PROVE  /\ owned' \in [Hosts -> Tokens \cup {None}]
           /\ claim' \in [Hosts -> Claims]
           /\ pendingRelease' \in [Hosts -> Tokens \cup {None}]
           /\ op' \in [Hosts -> Ops]
<1>1. owned[h] \in Tokens \cup {None}
  BY DEF TypeOK
<1> QED BY <1>1, ForgetType, RelReadType DEF Drop

LEMMA ReleasedType ==
    ASSUME TypeOK, NEW h \in Hosts, Released(h)
    PROVE  /\ pendingRelease' \in [Hosts -> Tokens \cup {None}]
           /\ op' \in [Hosts -> Ops]
           /\ call' \in [Hosts -> [Calls -> CallPcs]]
<1>1. pendingRelease' \in [Hosts -> Tokens \cup {None}]
  BY DEF TypeOK, Released
<1>2. op[h].call \in Calls \cup {None} /\ op[h].kind \in Kinds
  BY OpType DEF Ops
<1>3. CASE op[h].kind \in ClaimKinds /\ ~closed[h]
  BY <1>1, <1>2, <1>3, AcquireType DEF Released, TypeOK
<1>4. CASE ~(op[h].kind \in ClaimKinds /\ ~closed[h])
  BY <1>1, <1>2, <1>4, SettleType DEF Released, CallPcs
<1> QED BY <1>3, <1>4

---------------------------------------------------------------------------
(* Type correctness *)

LEMMA BeginType ==
    ASSUME TypeOK, NEW h \in Hosts, NEW kinds, Begin(h, kinds)
    PROVE  /\ chain' \in [Hosts -> Seq(ChainItems)]
           /\ Waiting(h).call \in Calls
           /\ Waiting(h).kind \in Kinds
BY HeadIsItem DEF TypeOK, Begin

LEMMA CallerStepType ==
    ASSUME TypeOK, NEW h \in Hosts, NEW c \in Calls, CallerStep(h, c)
    PROVE  TypeOK'
<1> USE DEF CallPcs, Kinds, NewCall
<1>1. CASE BeginRun(h, c)
  BY <1>1, QueueCallType DEF BeginRun
<1>2. CASE EndBody(h, c)
  BY <1>2, QueueCallType DEF EndBody
<1>3. CASE BeginExecute(h, c)
  BY <1>3, QueueCallType DEF BeginExecute
<1>4. CASE Recheck(h, c)
  BY <1>4, QueueCallType DEF Recheck
<1>5. CASE KeepFirstCheck(h, c)
  BY <1>5, QueueCallType DEF KeepFirstCheck
<1>6. CASE BeginRelease(h, c)
  BY <1>6, QueueCallType DEF BeginRelease
<1>7. CASE BeginHandBack(h, c)
  BY <1>7, QueueCallType DEF BeginHandBack
<1> QED
  BY <1>1, <1>2, <1>3, <1>4, <1>5, <1>6, <1>7 DEF CallerStep

LEMMA ChainStepType ==
    ASSUME TypeOK, NEW h \in Hosts, ChainStep(h)
    PROVE  TypeOK'
<1> USE DEF files, memory
<1>1. CASE Refuse(h)
  BY <1>1, HeadIsItem DEF TypeOK, Refuse, CallPcs
<1>2. CASE ClaimOwned(h)
  <2>1. claim' \in [Hosts -> Claims]
    <3>1. claim[h] \in Claims
      BY DEF TypeOK
    <3>2. [claim[h] EXCEPT !.pins =
             IF Waiting(h).kind = "claimRun" THEN @ + 1 ELSE @] \in Claims
      BY <3>1 DEF Claims
    <3> QED BY <1>2, <3>2 DEF TypeOK, ClaimOwned
  <2> QED BY <1>2, <2>1, BeginType, SettleType, GrantedType
          DEF TypeOK, ClaimOwned
<1>3. CASE ClaimAnew(h)
  <2>1. op' \in [Hosts -> Ops]
    <3>1. pendingRelease[h] \in Tokens \cup {None}
      BY DEF TypeOK
    <3> QED BY <1>3, <3>1, BeginType, AcquireType, RelReadType DEF ClaimAnew
  <2> QED BY <1>3, <2>1, BeginType DEF TypeOK, ClaimAnew
<1>4. CASE AcceptClaim(h)
  <2>1. claim' \in [Hosts -> Claims]
    <3>1. claim[h] \in Claims
      BY DEF TypeOK
    <3>2. [claim[h] EXCEPT !.commandClaim = FALSE, !.handBack = FALSE]
             \in Claims
      BY <3>1 DEF Claims
    <3> QED BY <1>4, <3>2 DEF TypeOK, AcceptClaim
  <2> QED BY <1>4, <2>1, BeginType, SettleType DEF TypeOK, AcceptClaim, CallPcs
<1>5. CASE ReleaseUnowned(h)
  <2>1. /\ op' \in [Hosts -> Ops]
        /\ call' \in [Hosts -> [Calls -> CallPcs]]
    <3>1. pendingRelease[h] \in Tokens \cup {None}
      BY DEF TypeOK
    <3>2. CASE pendingRelease[h] = None \/ Waiting(h).kind = "handBack"
      BY <1>5, <3>2, BeginType, SettleType DEF ReleaseUnowned, CallPcs
    <3>3. CASE ~(pendingRelease[h] = None \/ Waiting(h).kind = "handBack")
      BY <1>5, <3>1, <3>3, BeginType, RelReadType DEF ReleaseUnowned, TypeOK
    <3> QED BY <3>2, <3>3
  <2> QED BY <1>5, <2>1, BeginType DEF TypeOK, ReleaseUnowned
<1>6. CASE KeepPinned(h)
  BY <1>6, BeginType, SettleType, UpdatedType DEF TypeOK, KeepPinned, CallPcs
<1>7. CASE ReleaseHandedBack(h)
  BY <1>7, BeginType, DropType DEF TypeOK, ReleaseHandedBack
<1>8. CASE StartProbe(h)
  <2>1. [FreeOp EXCEPT !.pc = "probe", !.call = Waiting(h).call,
                       !.kind = Waiting(h).kind] \in Ops
    BY <1>8, BeginType DEF StartProbe, FreeOp, Ops, OpPcs
  <2> QED BY <1>8, <2>1, BeginType, UpdatedType DEF TypeOK, StartProbe
<1>9. CASE Probe(h)
  <2>1. ASSUME NEW b \in BOOLEAN
        PROVE  [op[h] EXCEPT !.pc = "judge", !.work = b] \in Ops
    BY OpType DEF Ops, OpPcs
  <2> QED BY <1>9, <2>1 DEF TypeOK, Probe
<1>10. CASE Judge(h)
  <2>1. op[h].call \in Calls \cup {None} /\ op[h].kind \in Kinds
    BY OpType DEF Ops
  <2>2. PICK answer \in Answers[h] :
           IF Keeps(h, answer)
           THEN Settle(h, op[h].call, "idle") /\ UNCHANGED memory
           ELSE Drop(h, op[h].call, op[h].kind) /\ UNCHANGED call
    BY <1>10 DEF Judge
  <2>3. CASE Keeps(h, answer)
    BY <1>10, <2>1, <2>2, <2>3, SettleType DEF TypeOK, Judge, CallPcs
  <2>4. CASE ~Keeps(h, answer)
    BY <1>10, <2>1, <2>2, <2>4, DropType DEF TypeOK, Judge
  <2> QED BY <2>3, <2>4
<1> QED
  BY <1>1, <1>2, <1>3, <1>4, <1>5, <1>6, <1>7, <1>8, <1>9, <1>10 DEF ChainStep

LEMMA FileStepType ==
    ASSUME TypeOK, NEW h \in Hosts, FileStep(h)
    PROVE  TypeOK'
<1> USE DEF files, memory
<1>0. /\ op[h].call \in Calls \cup {None}
      /\ op[h].token \in Tokens \cup {None}
      /\ op[h].seen \in Tokens \cup {None}
  BY OpType DEF Ops
<1>1. CASE Stat(h)
  BY <1>0, <1>1, SettleType, GotoType DEF TypeOK, Stat, CallPcs, OpPcs
<1>2. CASE PublishWon(h)
  <2>1. CASE closed[h]
    BY <1>0, <1>2, <2>1, GotoType DEF TypeOK, PublishWon, OpPcs
  <2>2. CASE ~closed[h]
    <3>1. claim' \in [Hosts -> Claims]
      <4>1. /\ NoClaim \in Claims
            /\ [pins |-> 1, commandClaim |-> TRUE, handBack |-> FALSE]
                  \in Claims
        BY DEF NoClaim, Claims
      <4> QED BY <1>2, <2>2, <4>1 DEF TypeOK, PublishWon
    <3>2. Settle(h, op[h].call, Granted(h, op[h].call))
      BY <1>2, <2>2 DEF PublishWon
    <3>3. /\ op' \in [Hosts -> Ops]
          /\ call' \in [Hosts -> [Calls -> CallPcs]]
      BY <1>0, <3>2, SettleType, GrantedType
    <3> QED BY <1>0, <1>2, <2>2, <3>1, <3>3 DEF TypeOK, PublishWon
  <2> QED BY <2>1, <2>2
<1>3. CASE PublishLost(h)
  BY <1>3, GotoType DEF TypeOK, PublishLost, OpPcs
<1>4. CASE Read(h)
  <2>1. record \in Tokens \cup {None}
    BY DEF TypeOK
  <2>2. ASSUME NEW pc \in {"stat", "classify"}
        PROVE  [op[h] EXCEPT !.seen = record, !.pc = pc] \in Ops
    BY <2>1, OpType DEF Ops, OpPcs
  <2> QED BY <1>4, <2>2 DEF TypeOK, Read
<1>5. CASE Busy(h)
  BY <1>0, <1>5, SettleType DEF TypeOK, Busy, CallPcs
<1>6. CASE ProvenDead(h)
  BY <1>6, GotoType DEF TypeOK, ProvenDead, OpPcs
<1>7. CASE IsolateRead(h)
  BY <1>7, GotoType, RetryType DEF TypeOK, IsolateRead, OpPcs
<1>8. CASE IsolateRename(h)
  <2>1. CASE NothingToMove(h)
    BY <1>8, <2>1, RetryType DEF TypeOK, IsolateRename
  <2>2. CASE ~NothingToMove(h)
    <3>1. tombstone' \in [Tokens -> Tokens \cup {None}]
      BY <1>8, <2>2 DEF TypeOK, IsolateRename
    <3> QED BY <1>0, <1>8, <2>2, <3>1, RetryType, SettleType
            DEF TypeOK, IsolateRename, CallPcs
  <2> QED BY <2>1, <2>2
<1>9. CASE ReleaseRead(h)
  BY <1>9, GotoType, ReleasedType DEF TypeOK, ReleaseRead, OpPcs, Released
<1>10. CASE ReleaseRename(h)
  BY <1>10, ReleasedType DEF TypeOK, ReleaseRename, Released
<1> QED
  BY <1>1, <1>2, <1>3, <1>4, <1>5, <1>6, <1>7, <1>8, <1>9, <1>10 DEF FileStep

LEMMA OtherStepType ==
    ASSUME TypeOK, NEW h \in Hosts,
           IOError(h) \/ Close(h) \/ CloseRelease(h) \/ Crash(h)
    PROVE  TypeOK'
<1> USE DEF files, memory
<1>1. CASE IOError(h)
  <2>1. op[h].call \in Calls \cup {None}
    BY OpType DEF Ops
  <2> QED BY <1>1, <2>1, SettleType DEF TypeOK, IOError, CallPcs
<1>2. CASE Close(h)
  BY <1>2 DEF TypeOK, Close
<1>3. CASE CloseRelease(h)
  <2> DEFINE leftover == IF owned[h] # None THEN owned[h] ELSE pendingRelease[h]
  <2>1. leftover \in Tokens \cup {None}
    BY DEF TypeOK
  <2>2. op' = [op EXCEPT ![h] = ReleaseOp(None, "release", leftover)]
    BY <1>3 DEF CloseRelease
  <2> HIDE DEF leftover
  <2>3. op' \in [Hosts -> Ops]
    BY <2>1, <2>2, RelReadType DEF Kinds
  <2>4. /\ pendingRelease' \in [Hosts -> Tokens \cup {None}]
        /\ owned' \in [Hosts -> Tokens \cup {None}]
        /\ claim' \in [Hosts -> Claims]
    BY <1>3, <2>1 DEF TypeOK, CloseRelease, leftover, NoClaim, Claims
  <2> QED BY <1>3, <2>3, <2>4 DEF TypeOK, CloseRelease
<1>4. CASE Crash(h)
  <2>1. <<>> \in Seq(ChainItems)
    OBVIOUS
  <2>2. claim' \in [Hosts -> Claims]
    BY <1>4 DEF TypeOK, Crash, NoClaim, Claims
  <2>3. call' \in [Hosts -> [Calls -> CallPcs]]
    BY <1>4 DEF TypeOK, Crash, CallPcs
  <2> QED BY <1>4, <2>1, <2>2, <2>3, FreeOpType DEF TypeOK, Crash
<1> QED BY <1>1, <1>2, <1>3, <1>4

LEMMA TypeInit == Init => TypeOK
<1> SUFFICES ASSUME Init PROVE TypeOK
  OBVIOUS
<1>1. NoClaim \in Claims
  BY DEF NoClaim, Claims
<1>2. <<>> \in Seq(ChainItems)
  OBVIOUS
<1>3. "idle" \in CallPcs
  BY DEF CallPcs
<1> QED BY <1>1, <1>2, <1>3, FreeOpType DEF Init, TypeOK

LEMMA TypeStep == TypeOK /\ [Next]_vars => TypeOK'
<1> SUFFICES ASSUME TypeOK, [Next]_vars PROVE TypeOK'
  OBVIOUS
<1>1. CASE UNCHANGED vars
  BY <1>1 DEF TypeOK, vars, files, memory
<1>2. ASSUME NEW h \in Hosts, HostStep(h) PROVE TypeOK'
  BY <1>2, ChainStepType, FileStepType, OtherStepType, CallerStepType
     DEF HostStep
<1> QED BY <1>1, <1>2 DEF Next

\* Every variable keeps its shape, for every number of Hosts, callers, tokens.
THEOREM TypeCorrect == Spec => []TypeOK
BY TypeInit, TypeStep, PTL DEF Spec

---------------------------------------------------------------------------
(* The inductive invariant *)

\* What IInv says of the operation Host h is in the middle of.
OpFits(h) ==
    /\ op[h].pc \in AcquirePcs => /\ op[h].token # None
                                  /\ HostOf(op[h].token) = h
                                  /\ owned[h] = None
                                  /\ pendingRelease[h] = None
    /\ op[h].pc \in {"probe", "judge"} => owned[h] # None
    /\ op[h].pc \in ReleasePcs => /\ op[h].token # None
                                  /\ pendingRelease[h] = op[h].token
                                  /\ owned[h] = None
    /\ op[h].pc = "relRename" => record = op[h].token
    /\ op[h].pc \in {"classify", "isoRead", "isoRename"} => op[h].seen # None
    /\ op[h].pc \in {"isoRead", "isoRename"} => HostOf(op[h].seen) \notin alive
    /\ op[h].pc = "isoRename"
          => record = op[h].seen \/ tombstone[op[h].seen] # None

\* ... and of its memory.
MemoryFits(h) ==
    /\ h \notin alive => /\ owned[h] = None
                         /\ pendingRelease[h] = None
                         /\ op[h].pc = "free"
    /\ owned[h] # None => /\ record = owned[h]
                         /\ HostOf(owned[h]) = h
                         /\ pendingRelease[h] = None
    /\ pendingRelease[h] # None => HostOf(pendingRelease[h]) = h
    /\ h \in alive /\ record # None /\ HostOf(record) = h
          => record \in {owned[h], pendingRelease[h]}

LEMMA IInvPerHost ==
    IInv <=> /\ TypeOK
             /\ TombstonesAreDead
             /\ \A h \in Hosts : OpFits(h) /\ MemoryFits(h)
<1>1. TypeOK => alive \subseteq Hosts
  BY DEF TypeOK
<1> QED
  BY <1>1 DEF IInv, OpFits, MemoryFits, DeadHostsHoldNothing,
     OwnershipIsExclusive, CleanupIsOwn, AcquiringIsClean, ProbingIsOwned,
     ReleasingIsExact, IsolationIsExact, NoOrphanRecord, ReleasePcs

LEMMA IInvFromHosts ==
    ASSUME TypeOK', TombstonesAreDead',
           \A h \in Hosts : OpFits(h)' /\ MemoryFits(h)'
    PROVE  IInv'
<1>1. alive' \subseteq Hosts
  BY DEF TypeOK
<1> QED
  BY <1>1 DEF IInv, OpFits, MemoryFits, DeadHostsHoldNothing,
     OwnershipIsExclusive, CleanupIsOwn, AcquiringIsClean, ProbingIsOwned,
     ReleasingIsExact, IsolationIsExact, NoOrphanRecord, ReleasePcs

\* A step of h that leaves the files and every other Host alone keeps the
\* invariant when it keeps what is said of h.
LEMMA LocalStep ==
    ASSUME IInv, TypeOK', NEW h \in Hosts,
           UNCHANGED <<alive, files>>,
           \A g \in Hosts \ {h} : /\ op'[g] = op[g]
                                  /\ owned'[g] = owned[g]
                                  /\ pendingRelease'[g] = pendingRelease[g],
           OpFits(h)', MemoryFits(h)'
    PROVE  IInv'
<1>1. TombstonesAreDead'
  BY IInvPerHost DEF TombstonesAreDead, files
<1>2. ASSUME NEW g \in Hosts \ {h}
      PROVE  OpFits(g)' /\ MemoryFits(g)'
  BY IInvPerHost DEF OpFits, MemoryFits, files
<1> QED BY <1>1, <1>2, IInvFromHosts

\* ... in particular when it only ends its operation.
LEMMA FreeStep ==
    ASSUME IInv, TypeOK', NEW h \in Hosts, NEW c, NEW to,
           UNCHANGED <<alive, files, owned, pendingRelease>>,
           Settle(h, c, to)
    PROVE  IInv'
<1>1. op'[h] = FreeOp /\ \A g \in Hosts \ {h} : op'[g] = op[g]
  BY IInvPerHost DEF Settle, TypeOK
<1>2. OpFits(h)'
  BY <1>1 DEF OpFits, FreeOp, AcquirePcs, ReleasePcs
<1>3. MemoryFits(h)'
  BY <1>1, IInvPerHost DEF MemoryFits, FreeOp, files
<1> QED BY <1>1, <1>2, <1>3, LocalStep

\* ... or leaves operations and memory alone altogether.
LEMMA QuietStep ==
    ASSUME IInv, TypeOK',
           UNCHANGED <<alive, files, owned, pendingRelease, op>>
    PROVE  IInv'
<1>1. \A g \in Hosts : OpFits(g)' /\ MemoryFits(g)'
  BY IInvPerHost DEF OpFits, MemoryFits, files
<1>2. TombstonesAreDead'
  BY IInvPerHost DEF TombstonesAreDead, files
<1> QED BY <1>1, <1>2, IInvFromHosts

LEMMA AliveFacts ==
    ASSUME IInv, NEW h \in Hosts
    PROVE  OpFits(h) /\ MemoryFits(h) /\ TypeOK /\ TombstonesAreDead
BY IInvPerHost

\* A Host that owns nothing and has no record left begins to acquire.
LEMMA AcquireStep ==
    ASSUME IInv, TypeOK', NEW h \in Hosts, h \in alive, NEW c, NEW kind,
           UNCHANGED <<alive, files, owned>>,
           owned[h] = None, pendingRelease'[h] = None,
           \A g \in Hosts \ {h} : pendingRelease'[g] = pendingRelease[g],
           record # None => HostOf(record) # h,
           Acquire(h, c, kind)
    PROVE  IInv'
<1>1. PICK s \in Slots : op' = [op EXCEPT ![h] =
          [FreeOp EXCEPT !.pc = "stat", !.call = c, !.kind = kind,
                         !.token = <<h, s>>]]
  BY DEF Acquire
<1>2. /\ op'[h].pc = "stat"
      /\ op'[h].token = <<h, s>>
      /\ \A g \in Hosts \ {h} : op'[g] = op[g]
  BY <1>1, AliveFacts DEF TypeOK, FreeOp
<1>3. <<h, s>> # None /\ HostOf(<<h, s>>) = h
  BY NoneAssumption DEF Tokens, HostOf
<1>4. OpFits(h)'
  BY <1>2, <1>3 DEF OpFits, AcquirePcs, ReleasePcs
<1>5. MemoryFits(h)'
  BY AliveFacts DEF MemoryFits, files
<1> QED BY <1>2, <1>4, <1>5, LocalStep

\* Releasing starts from a token the Host keeps in pendingReleases.
LEMMA RelReadStep ==
    ASSUME IInv, TypeOK', NEW h \in Hosts, h \in alive, NEW c, NEW kind,
           UNCHANGED <<alive, files>>,
           NEW t \in Tokens, HostOf(t) = h,
           owned'[h] = None, pendingRelease'[h] = t,
           record # None /\ HostOf(record) = h => record = t,
           \A g \in Hosts \ {h} : /\ owned'[g] = owned[g]
                                  /\ pendingRelease'[g] = pendingRelease[g],
           op' = [op EXCEPT ![h] = ReleaseOp(c, kind, t)]
    PROVE  IInv'
<1>1. /\ op'[h].pc = "relRead"
      /\ op'[h].token = t
      /\ \A g \in Hosts \ {h} : op'[g] = op[g]
  BY AliveFacts DEF TypeOK, FreeOp, ReleaseOp
<1>2. t # None
  BY NoneAssumption
<1>3. OpFits(h)'
  BY <1>1, <1>2 DEF OpFits, AcquirePcs, ReleasePcs
<1>4. MemoryFits(h)'
  BY <1>2 DEF MemoryFits, files
<1> QED BY <1>1, <1>3, <1>4, LocalStep

LEMMA DropStep ==
    ASSUME IInv, TypeOK', NEW h \in Hosts, h \in alive, NEW c, NEW kind,
           UNCHANGED <<alive, files>>, owned[h] # None, Drop(h, c, kind)
    PROVE  IInv'
<1>1. /\ owned[h] \in Tokens
      /\ HostOf(owned[h]) = h
      /\ record = owned[h]
  BY AliveFacts DEF TypeOK, MemoryFits
<1>2. /\ owned'[h] = None
      /\ pendingRelease'[h] = owned[h]
      /\ \A g \in Hosts \ {h} : /\ owned'[g] = owned[g]
                                /\ pendingRelease'[g] = pendingRelease[g]
  BY AliveFacts DEF Drop, Forget, TypeOK
<1> QED BY <1>1, <1>2, RelReadStep DEF Drop

\* Another pc for h that claims no more than the present one.
LEMMA GotoStep ==
    ASSUME IInv, TypeOK', NEW h \in Hosts, NEW pc, Goto(h, pc),
           UNCHANGED <<alive, files, owned, pendingRelease>>,
           op[h].pc # "free",
           [op EXCEPT ![h].pc = pc] = op' => OpFits(h)'
    PROVE  IInv'
<1>1. op' = [op EXCEPT ![h].pc = pc]
  BY DEF Goto
<1>2. \A g \in Hosts \ {h} : op'[g] = op[g]
  BY <1>1, AliveFacts DEF TypeOK
<1>3. MemoryFits(h)'
  BY AliveFacts DEF MemoryFits, files
<1> QED BY <1>1, <1>2, <1>3, LocalStep

LEMMA RetryStep ==
    ASSUME IInv, TypeOK', NEW h \in Hosts, Retry(h),
           op[h].pc \in AcquirePcs,
           UNCHANGED <<alive, files, owned, pendingRelease>>
    PROVE  IInv'
<1>1. /\ op'[h] = [op[h] EXCEPT !.pc = "stat", !.seen = None]
      /\ op[h] \in Ops
      /\ \A g \in Hosts \ {h} : op'[g] = op[g]
  BY AliveFacts DEF TypeOK, Retry
<1>2. op'[h].pc = "stat" /\ op'[h].token = op[h].token
  BY <1>1 DEF Ops
<1>3. OpFits(h)'
  BY <1>2, AliveFacts DEF OpFits, AcquirePcs, ReleasePcs
<1>4. MemoryFits(h)'
  BY <1>2, AliveFacts DEF MemoryFits, files, AcquirePcs
<1> QED BY <1>1, <1>3, <1>4, LocalStep

LEMMA ChainStepInv ==
    ASSUME IInv, TypeOK', NEW h \in Hosts, ChainStep(h)
    PROVE  IInv'
<1>0. TypeOK /\ MemoryFits(h) /\ OpFits(h)
  BY AliveFacts
<1>1. CASE Refuse(h)
  BY <1>1, QuietStep DEF Refuse, memory
<1>2. CASE ClaimOwned(h)
  BY <1>2, FreeStep DEF ClaimOwned
<1>3. CASE ClaimAnew(h)
  <2>1. h \in alive /\ owned[h] = None
    BY <1>3 DEF ClaimAnew, Begin
  <2>2. CASE pendingRelease[h] = None
    BY <1>0, <1>3, <2>1, <2>2, AcquireStep DEF ClaimAnew, MemoryFits, memory
  <2>3. CASE pendingRelease[h] # None
    <3>1. pendingRelease[h] \in Tokens /\ HostOf(pendingRelease[h]) = h
      BY <1>0, <2>3 DEF TypeOK, MemoryFits
    <3> QED
      BY <1>0, <1>3, <2>1, <2>3, <3>1, RelReadStep
         DEF ClaimAnew, MemoryFits, memory
  <2> QED BY <2>2, <2>3
<1>4. CASE AcceptClaim(h)
  BY <1>4, FreeStep DEF AcceptClaim
<1>5. CASE ReleaseUnowned(h)
  <2>1. h \in alive /\ owned[h] = None
    BY <1>5 DEF ReleaseUnowned, Begin
  <2>2. CASE pendingRelease[h] = None \/ Waiting(h).kind = "handBack"
    BY <1>5, <2>2, FreeStep DEF ReleaseUnowned, memory
  <2>3. CASE ~(pendingRelease[h] = None \/ Waiting(h).kind = "handBack")
    <3>1. pendingRelease[h] \in Tokens /\ HostOf(pendingRelease[h]) = h
      BY <1>0, <2>3 DEF TypeOK, MemoryFits
    <3> QED
      BY <1>0, <1>5, <2>1, <2>3, <3>1, RelReadStep
         DEF ReleaseUnowned, MemoryFits, memory
  <2> QED BY <2>2, <2>3
<1>6. CASE KeepPinned(h)
  BY <1>6, FreeStep DEF KeepPinned
<1>7. CASE ReleaseHandedBack(h)
  BY <1>7, DropStep DEF ReleaseHandedBack, Begin
<1>8. CASE StartProbe(h)
  <2>1. /\ op'[h].pc = "probe"
        /\ \A g \in Hosts \ {h} : op'[g] = op[g]
    BY <1>0, <1>8 DEF StartProbe, TypeOK, FreeOp
  <2>2. OpFits(h)'
    BY <1>8, <2>1 DEF OpFits, AcquirePcs, ReleasePcs, StartProbe
  <2>3. MemoryFits(h)'
    BY <1>0, <1>8 DEF MemoryFits, StartProbe, Begin, files
  <2> QED BY <1>8, <2>1, <2>2, <2>3, LocalStep DEF StartProbe
<1>9. CASE Probe(h)
  <2>1. /\ op'[h].pc = "judge"
        /\ \A g \in Hosts \ {h} : op'[g] = op[g]
    BY <1>0, <1>9, OpType DEF Probe, TypeOK, Ops
  <2>2. OpFits(h)'
    BY <1>0, <1>9, <2>1 DEF OpFits, AcquirePcs, ReleasePcs, Probe, At, memory
  <2>3. MemoryFits(h)'
    BY <1>0, <1>9 DEF MemoryFits, Probe, At, files, memory
  <2> QED BY <1>9, <2>1, <2>2, <2>3, LocalStep DEF Probe, memory
<1>10. CASE Judge(h)
  <2>1. h \in alive /\ owned[h] # None
    BY <1>0, <1>10 DEF Judge, At, OpFits
  <2>2. PICK answer \in Answers[h] :
           IF Keeps(h, answer)
           THEN Settle(h, op[h].call, "idle") /\ UNCHANGED memory
           ELSE Drop(h, op[h].call, op[h].kind) /\ UNCHANGED call
    BY <1>10 DEF Judge
  <2>3. CASE Keeps(h, answer)
    BY <1>10, <2>2, <2>3, FreeStep DEF Judge, memory
  <2>4. CASE ~Keeps(h, answer)
    BY <1>10, <2>1, <2>2, <2>4, DropStep DEF Judge
  <2> QED BY <2>3, <2>4
<1> QED
  BY <1>1, <1>2, <1>3, <1>4, <1>5, <1>6, <1>7, <1>8, <1>9, <1>10 DEF ChainStep

\* The record of a live Host h is known to nobody else: no other Host owns
\* it, releases it, or is about to isolate it.
LEMMA RecordIsPrivate ==
    ASSUME IInv, NEW h \in Hosts, h \in alive,
           record # None, HostOf(record) = h,
           NEW g \in Hosts \ {h}
    PROVE  /\ owned[g] = None
           /\ op[g].pc # "relRename"
           /\ op[g].pc = "isoRename" => tombstone[op[g].seen] # None
<1>1. OpFits(g) /\ MemoryFits(g)
  BY IInvPerHost
<1>2. owned[g] = None
  BY <1>1 DEF MemoryFits
<1>3. op[g].pc # "relRename"
  BY <1>1 DEF OpFits, MemoryFits, ReleasePcs
<1>4. op[g].pc = "isoRename" => tombstone[op[g].seen] # None
  BY <1>1 DEF OpFits
<1> QED BY <1>2, <1>3, <1>4

LEMMA PublishWonInv ==
    ASSUME IInv, TypeOK', NEW h \in Hosts, PublishWon(h)
    PROVE  IInv'
<1>0. TypeOK /\ MemoryFits(h) /\ OpFits(h) /\ TombstonesAreDead
  BY AliveFacts
<1>1. /\ h \in alive
      /\ record = None
      /\ record' = op[h].token
      /\ op[h].token # None
      /\ HostOf(op[h].token) = h
      /\ owned[h] = None
      /\ pendingRelease[h] = None
      /\ UNCHANGED <<alive, tombstone>>
  BY <1>0 DEF PublishWon, At, OpFits, AcquirePcs
<1>2. TombstonesAreDead'
  BY <1>0, <1>1 DEF TombstonesAreDead
<1>3. ASSUME NEW g \in Hosts \ {h}
      PROVE  OpFits(g)' /\ MemoryFits(g)'
  <2>1. OpFits(g) /\ MemoryFits(g)
    BY IInvPerHost
  <2>2. /\ op'[g] = op[g]
        /\ owned'[g] = owned[g]
        /\ pendingRelease'[g] = pendingRelease[g]
    BY <1>0, <1>3 DEF PublishWon, Goto, Settle, TypeOK
  <2>3. OpFits(g)'
    BY <1>1, <2>1, <2>2 DEF OpFits, ReleasePcs
  <2>4. MemoryFits(g)'
    BY <1>1, <2>1, <2>2 DEF MemoryFits
  <2> QED BY <2>3, <2>4
<1>4. OpFits(h)' /\ MemoryFits(h)'
  <2>1. CASE closed[h]
    <3>1. /\ op'[h] = [op[h] EXCEPT !.pc = "relRead"]
          /\ owned'[h] = None
          /\ pendingRelease'[h] = op[h].token
      BY <1>0, <1>1, <2>1 DEF PublishWon, Goto, TypeOK
    <3>2. op'[h].pc = "relRead" /\ op'[h].token = op[h].token
      BY <1>0, <3>1, OpType DEF Ops
    <3> QED BY <1>1, <3>1, <3>2 DEF OpFits, MemoryFits, AcquirePcs, ReleasePcs
  <2>2. CASE ~closed[h]
    <3>1. /\ op'[h].pc = "free"
          /\ owned'[h] = op[h].token
          /\ pendingRelease'[h] = None
      BY <1>0, <1>1, <2>2 DEF PublishWon, Settle, TypeOK, FreeOp
    <3> QED BY <1>1, <3>1 DEF OpFits, MemoryFits, AcquirePcs, ReleasePcs
  <2> QED BY <2>1, <2>2
<1> QED BY <1>2, <1>3, <1>4, IInvFromHosts

LEMMA IsolateRenameInv ==
    ASSUME IInv, TypeOK', NEW h \in Hosts, IsolateRename(h)
    PROVE  IInv'
<1>0. TypeOK /\ MemoryFits(h) /\ OpFits(h) /\ TombstonesAreDead
  BY AliveFacts
<1>1. op[h].pc = "isoRename" /\ h \in alive
  BY DEF IsolateRename, At
<1>2. CASE NothingToMove(h)
  BY <1>1, <1>2, RetryStep DEF IsolateRename, memory, files, AcquirePcs
<1>3. CASE ~NothingToMove(h)
  <2>1. /\ record = op[h].seen
        /\ record \in Tokens
        /\ HostOf(record) \notin alive
        /\ record' = None
        /\ tombstone' = [tombstone EXCEPT ![record] = record]
        /\ Retry(h)
        /\ UNCHANGED <<alive, owned, pendingRelease>>
    BY <1>0, <1>1, <1>3
       DEF IsolateRename, NothingToMove, OpFits, TypeOK, memory
  <2>2. TombstonesAreDead'
    BY <1>0, <2>1 DEF TombstonesAreDead, TypeOK
  <2>3. ASSUME NEW g \in Hosts
        PROVE  /\ owned[g] = None
               /\ op[g].pc # "relRename"
    <3>1. OpFits(g) /\ MemoryFits(g)
      BY IInvPerHost
    <3> QED BY <2>1, <3>1 DEF OpFits, MemoryFits, ReleasePcs
  <2>4. \A t \in Tokens : tombstone[t] # None => tombstone'[t] # None
    BY <1>0, <2>1, NoneAssumption DEF TypeOK
  <2>5. tombstone'[record] # None
    BY <1>0, <2>1, NoneAssumption DEF TypeOK
  <2>6. ASSUME NEW g \in Hosts \ {h}
        PROVE  OpFits(g)' /\ MemoryFits(g)'
    <3>1. OpFits(g) /\ MemoryFits(g) /\ op[g] \in Ops
      BY IInvPerHost, OpType
    <3>2. op'[g] = op[g]
      BY <1>0, <2>1 DEF Retry, TypeOK
    <3>3. op[g].pc = "isoRename" => op[g].seen \in Tokens
      BY <3>1 DEF OpFits, Ops
    <3>4. OpFits(g)'
      BY <2>1, <2>3, <2>4, <2>5, <3>1, <3>2, <3>3 DEF OpFits
    <3>5. MemoryFits(g)'
      BY <2>1, <2>3, <3>1, <3>2 DEF MemoryFits
    <3> QED BY <3>4, <3>5
  <2>7. op'[h].pc = "stat" /\ op'[h].token = op[h].token
    BY <1>0, <2>1, OpType DEF Retry, TypeOK, Ops
  <2>8. OpFits(h)' /\ MemoryFits(h)'
    BY <1>0, <1>1, <2>1, <2>3, <2>7
       DEF OpFits, MemoryFits, AcquirePcs, ReleasePcs
  <2> QED BY <2>2, <2>6, <2>8, IInvFromHosts
<1> QED BY <1>2, <1>3

\* The end of a release: the record is not (or no longer) this Host's.
LEMMA ReleasedStep ==
    ASSUME IInv, TypeOK', NEW h \in Hosts, h \in alive, Released(h),
           op[h].pc \in ReleasePcs, UNCHANGED <<alive, files>>,
           record # None => HostOf(record) # h
    PROVE  IInv'
<1>0. TypeOK /\ MemoryFits(h) /\ OpFits(h)
  BY AliveFacts
<1>1. /\ owned[h] = None
      /\ owned' = owned
      /\ pendingRelease'[h] = None
      /\ \A g \in Hosts \ {h} : pendingRelease'[g] = pendingRelease[g]
  BY <1>0 DEF Released, OpFits, TypeOK
<1>2. CASE op[h].kind \in ClaimKinds /\ ~closed[h]
  BY <1>1, <1>2, AcquireStep DEF Released
<1>3. CASE ~(op[h].kind \in ClaimKinds /\ ~closed[h])
  <2>1. op'[h] = FreeOp /\ \A g \in Hosts \ {h} : op'[g] = op[g]
    BY <1>0, <1>3 DEF Released, Settle, TypeOK
  <2>2. OpFits(h)' /\ MemoryFits(h)'
    BY <1>0, <1>1, <2>1
       DEF OpFits, MemoryFits, FreeOp, AcquirePcs, ReleasePcs, files
  <2> QED BY <1>1, <2>1, <2>2, LocalStep
<1> QED BY <1>2, <1>3

LEMMA ReleaseRenameInv ==
    ASSUME IInv, TypeOK', NEW h \in Hosts, ReleaseRename(h)
    PROVE  IInv'
<1>0. TypeOK /\ MemoryFits(h) /\ OpFits(h) /\ TombstonesAreDead
  BY AliveFacts
<1>1. /\ h \in alive
      /\ op[h].pc = "relRename"
      /\ record = op[h].token
      /\ op[h].token # None
      /\ HostOf(record) = h
      /\ owned[h] = None
      /\ owned' = owned
      /\ record' = None
      /\ pendingRelease'[h] = None
      /\ \A g \in Hosts \ {h} : pendingRelease'[g] = pendingRelease[g]
      /\ UNCHANGED <<alive, tombstone>>
  BY <1>0 DEF ReleaseRename, Released, At, OpFits, MemoryFits, ReleasePcs, TypeOK
<1>2. TombstonesAreDead'
  BY <1>0, <1>1 DEF TombstonesAreDead
<1>3. /\ \A g \in Hosts \ {h} : op'[g] = op[g]
      /\ \/ op'[h].pc = "free"
         \/ /\ op'[h].pc = "stat"
            /\ op'[h].token # None
            /\ HostOf(op'[h].token) = h
  <2>1. CASE op[h].kind \in ClaimKinds /\ ~closed[h]
    <3>1. PICK s \in Slots : op' = [op EXCEPT ![h] =
              [FreeOp EXCEPT !.pc = "stat", !.call = op[h].call,
                             !.kind = op[h].kind, !.token = <<h, s>>]]
      BY <2>1 DEF ReleaseRename, Released, Acquire
    <3>2. <<h, s>> # None /\ HostOf(<<h, s>>) = h
      BY NoneAssumption DEF Tokens, HostOf
    <3>3. op'[h].pc = "stat" /\ op'[h].token = <<h, s>>
      BY <1>0, <3>1 DEF TypeOK, FreeOp
    <3> QED BY <1>0, <3>1, <3>2, <3>3 DEF TypeOK
  <2>2. CASE ~(op[h].kind \in ClaimKinds /\ ~closed[h])
    BY <1>0, <2>2 DEF ReleaseRename, Released, Settle, FreeOp, TypeOK
  <2> QED BY <2>1, <2>2
<1>4. OpFits(h)' /\ MemoryFits(h)'
  BY <1>1, <1>3 DEF OpFits, MemoryFits, AcquirePcs, ReleasePcs
<1>5. ASSUME NEW g \in Hosts \ {h}
      PROVE  OpFits(g)' /\ MemoryFits(g)'
  <2>1. OpFits(g) /\ MemoryFits(g)
    BY IInvPerHost
  <2>2. /\ owned[g] = None
        /\ op[g].pc # "relRename"
        /\ op[g].pc = "isoRename" => tombstone[op[g].seen] # None
    BY <1>1, RecordIsPrivate
  <2> QED BY <1>1, <1>3, <2>1, <2>2 DEF OpFits, MemoryFits
<1> QED BY <1>2, <1>4, <1>5, IInvFromHosts

LEMMA FileStepInv ==
    ASSUME IInv, TypeOK', NEW h \in Hosts, FileStep(h)
    PROVE  IInv'
<1>0. TypeOK /\ MemoryFits(h) /\ OpFits(h) /\ op[h] \in Ops
  BY AliveFacts, OpType
\* A Goto among the pcs of an acquisition that reads nothing new.
<1>a. ASSUME NEW pc \in {"publish", "read"}, op[h].pc \in AcquirePcs,
             Goto(h, pc), UNCHANGED <<alive, files, memory>>
      PROVE  IInv'
  <2>1. op'[h] = [op[h] EXCEPT !.pc = pc]
    BY <1>0, <1>a DEF Goto, TypeOK
  <2>2. op'[h].pc = pc /\ op'[h].token = op[h].token
    BY <1>0, <2>1 DEF Ops
  <2>3. OpFits(h)'
    BY <1>0, <1>a, <2>2 DEF OpFits, AcquirePcs, ReleasePcs, memory
  <2> QED BY <1>a, <2>3, GotoStep DEF memory, AcquirePcs
<1>1. CASE Stat(h)
  <2>1. CASE closed[h]
    BY <1>1, <2>1, FreeStep DEF Stat, memory
  <2>2. CASE ~closed[h]
    BY <1>1, <2>2, <1>a DEF Stat, At, AcquirePcs
  <2> QED BY <2>1, <2>2
<1>2. CASE PublishWon(h)
  BY <1>2, PublishWonInv
<1>3. CASE PublishLost(h)
  BY <1>3, <1>a DEF PublishLost, At, AcquirePcs
<1>4. CASE Read(h)
  <2>1. /\ op'[h] = [op[h] EXCEPT !.seen = record,
                      !.pc = IF record = None THEN "stat" ELSE "classify"]
        /\ \A g \in Hosts \ {h} : op'[g] = op[g]
    BY <1>0, <1>4 DEF Read, TypeOK
  <2>2. /\ op'[h].token = op[h].token
        /\ op'[h].seen = record
        /\ op'[h].pc = IF record = None THEN "stat" ELSE "classify"
    BY <1>0, <2>1 DEF Ops
  <2>3. OpFits(h)'
    BY <1>0, <1>4, <2>2 DEF OpFits, Read, At, AcquirePcs, ReleasePcs, memory
  <2>4. MemoryFits(h)'
    BY <1>0, <1>4 DEF MemoryFits, Read, At, memory, files
  <2> QED BY <1>4, <2>1, <2>3, <2>4, LocalStep DEF Read, memory
<1>5. CASE Busy(h)
  BY <1>5, FreeStep DEF Busy, memory
<1>6. CASE ProvenDead(h)
  <2>1. op'[h] = [op[h] EXCEPT !.pc = "isoRead"]
    BY <1>0, <1>6 DEF ProvenDead, Goto, TypeOK
  <2>2. /\ op'[h].pc = "isoRead"
        /\ op'[h].token = op[h].token
        /\ op'[h].seen = op[h].seen
    BY <1>0, <2>1 DEF Ops
  <2>3. OpFits(h)'
    BY <1>0, <1>6, <2>2 DEF OpFits, ProvenDead, DefinitelyDead, At,
       AcquirePcs, ReleasePcs, memory
  <2> QED BY <1>6, <2>3, GotoStep DEF ProvenDead, At, memory
<1>7. CASE IsolateRead(h)
  <2>1. CASE record = op[h].seen
    <3>1. op'[h] = [op[h] EXCEPT !.pc = "isoRename"]
      BY <1>0, <1>7, <2>1 DEF IsolateRead, Goto, TypeOK
    <3>2. /\ op'[h].pc = "isoRename"
          /\ op'[h].token = op[h].token
          /\ op'[h].seen = op[h].seen
      BY <1>0, <3>1 DEF Ops
    <3>3. OpFits(h)'
      BY <1>0, <1>7, <2>1, <3>2 DEF OpFits, IsolateRead, At,
         AcquirePcs, ReleasePcs, memory, files
    <3> QED BY <1>7, <2>1, <3>3, GotoStep DEF IsolateRead, At, memory
  <2>2. CASE record # op[h].seen
    BY <1>7, <2>2, RetryStep DEF IsolateRead, At, memory, AcquirePcs
  <2> QED BY <2>1, <2>2
<1>8. CASE IsolateRename(h)
  BY <1>8, IsolateRenameInv
<1>9. CASE ReleaseRead(h)
  <2>1. CASE record = op[h].token
    <3>1. op'[h] = [op[h] EXCEPT !.pc = "relRename"]
      BY <1>0, <1>9, <2>1 DEF ReleaseRead, Goto, TypeOK
    <3>2. op'[h].pc = "relRename" /\ op'[h].token = op[h].token
      BY <1>0, <3>1 DEF Ops
    <3>3. OpFits(h)'
      BY <1>0, <1>9, <2>1, <3>2 DEF OpFits, ReleaseRead, At,
         AcquirePcs, ReleasePcs, memory, files
    <3> QED BY <1>9, <2>1, <3>3, GotoStep DEF ReleaseRead, At, memory
  <2>2. CASE record # op[h].token
    <3>1. record # None => HostOf(record) # h
      BY <1>0, <1>9, <2>2 DEF ReleaseRead, At, OpFits, MemoryFits, ReleasePcs
    <3> QED
      BY <1>9, <2>2, <3>1, ReleasedStep DEF ReleaseRead, At, ReleasePcs
  <2> QED BY <2>1, <2>2
<1>10. CASE ReleaseRename(h)
  BY <1>10, ReleaseRenameInv
<1> QED
  BY <1>1, <1>2, <1>3, <1>4, <1>5, <1>6, <1>7, <1>8, <1>9, <1>10 DEF FileStep

LEMMA OtherStepInv ==
    ASSUME IInv, TypeOK', NEW h \in Hosts,
           IOError(h) \/ Close(h) \/ CloseRelease(h) \/ Crash(h)
    PROVE  IInv'
<1>0. TypeOK /\ MemoryFits(h) /\ OpFits(h) /\ TombstonesAreDead
  BY AliveFacts
<1>1. CASE IOError(h)
  BY <1>1, FreeStep DEF IOError, memory
<1>2. CASE Close(h)
  BY <1>2, QuietStep DEF Close, memory
<1>3. CASE CloseRelease(h)
  <2> DEFINE leftover == IF owned[h] # None THEN owned[h] ELSE pendingRelease[h]
  <2>1. leftover \in Tokens /\ HostOf(leftover) = h
    BY <1>0, <1>3 DEF CloseRelease, TypeOK, MemoryFits
  <2>2. record # None /\ HostOf(record) = h => record = leftover
    BY <1>0, <1>3 DEF CloseRelease, MemoryFits
  <2>3. /\ owned'[h] = None
        /\ pendingRelease'[h] = leftover
        /\ \A g \in Hosts \ {h} : /\ owned'[g] = owned[g]
                                  /\ pendingRelease'[g] = pendingRelease[g]
    BY <1>0, <1>3 DEF CloseRelease, TypeOK
  <2>4. op' = [op EXCEPT ![h] = ReleaseOp(None, "release", leftover)]
    BY <1>3 DEF CloseRelease
  <2> HIDE DEF leftover
  <2>5. h \in alive /\ UNCHANGED <<alive, files>>
    BY <1>3 DEF CloseRelease
  <2> QED BY <2>1, <2>2, <2>3, <2>4, <2>5, RelReadStep
<1>4. CASE Crash(h)
  <2>1. /\ alive' = alive \ {h}
        /\ UNCHANGED files
        /\ owned'[h] = None /\ pendingRelease'[h] = None
        /\ op'[h] = FreeOp
        /\ \A g \in Hosts \ {h} : /\ op'[g] = op[g]
                                  /\ owned'[g] = owned[g]
                                  /\ pendingRelease'[g] = pendingRelease[g]
    BY <1>0, <1>4 DEF Crash, TypeOK
  <2>2. TombstonesAreDead'
    BY <1>0, <2>1 DEF TombstonesAreDead, files
  <2>3. OpFits(h)' /\ MemoryFits(h)'
    BY <2>1 DEF OpFits, MemoryFits, FreeOp, AcquirePcs, ReleasePcs
  <2>4. ASSUME NEW g \in Hosts \ {h}
        PROVE  OpFits(g)' /\ MemoryFits(g)'
    BY <2>1, IInvPerHost DEF OpFits, MemoryFits, files
  <2> QED BY <2>2, <2>3, <2>4, IInvFromHosts
<1> QED BY <1>1, <1>2, <1>3, <1>4

LEMMA CallerStepInv ==
    ASSUME IInv, TypeOK', NEW h \in Hosts, NEW c \in Calls, CallerStep(h, c)
    PROVE  IInv'
<1>1. UNCHANGED <<alive, files, owned, pendingRelease, op>>
  BY DEF CallerStep, BeginRun, EndBody, BeginExecute, Recheck, KeepFirstCheck,
     BeginRelease, BeginHandBack, NewCall, QueueCall, memory
<1> QED BY <1>1, QuietStep

LEMMA InvInit == Init => IInv
<1> SUFFICES ASSUME Init PROVE IInv
  OBVIOUS
<1>1. TypeOK
  BY TypeInit
<1>2. TombstonesAreDead
  BY DEF Init, TombstonesAreDead
<1>3. ASSUME NEW h \in Hosts
      PROVE  OpFits(h) /\ MemoryFits(h)
  BY DEF Init, OpFits, MemoryFits, FreeOp, AcquirePcs, ReleasePcs
<1> QED BY <1>1, <1>2, <1>3, IInvPerHost

LEMMA InvStep == IInv /\ [Next]_vars => IInv'
<1> SUFFICES ASSUME IInv, [Next]_vars PROVE IInv'
  OBVIOUS
<1>1. TypeOK'
  BY TypeStep, IInvPerHost
<1>2. CASE UNCHANGED vars
  BY <1>1, <1>2, QuietStep DEF vars, memory
<1>3. ASSUME NEW h \in Hosts, HostStep(h) PROVE IInv'
  BY <1>1, <1>3, ChainStepInv, FileStepInv, OtherStepInv, CallerStepInv
     DEF HostStep
<1> QED BY <1>2, <1>3 DEF Next

\* The inductive invariant holds in every reachable state.
THEOREM Invariance == Spec => []IInv
BY InvInit, InvStep, PTL DEF Spec

\* A Host that believes it owns the Conversation has its record on disk.
THEOREM OwnerHoldsItsRecord == Spec => []OwnerHoldsRecord
<1>1. IInv => OwnerHoldsRecord
  BY DEF IInv, OwnershipIsExclusive, OwnerHoldsRecord
<1> QED BY <1>1, Invariance, PTL

\* Isolation never moves a record other than the dead one it observed.
THEOREM TombstonesHoldTheDead == Spec => []TombstonesExact
<1>1. IInv => TombstonesExact
  BY DEF IInv, TombstonesAreDead, TombstonesExact
<1> QED BY <1>1, Invariance, PTL

\* A live Host accounts for every record it has at the canonical path.
THEOREM NoRecordIsOrphaned == Spec => []NoOrphanRecord
<1>1. IInv => NoOrphanRecord
  BY DEF IInv
<1> QED BY <1>1, Invariance, PTL

---------------------------------------------------------------------------
(* How the record changes, and the abstract lock *)

\* Every step is one of these as far as the lock can tell.
LEMMA RecordSteps ==
    ASSUME IInv, NEW h \in Hosts, HostStep(h)
    PROVE  \/ record' = record
           \/ PublishWon(h)
           \/ IsolateRename(h)
           \/ ReleaseRename(h)
<1>1. \A c \in Calls : CallerStep(h, c) => record' = record
  BY DEF CallerStep, BeginRun, EndBody, BeginExecute, Recheck, KeepFirstCheck,
     BeginRelease, BeginHandBack, NewCall, QueueCall, files
<1>2. ChainStep(h) => record' = record
  BY DEF ChainStep, Refuse, ClaimOwned, ClaimAnew, AcceptClaim, ReleaseUnowned,
     KeepPinned, ReleaseHandedBack, StartProbe, Probe, Judge, files
<1>3. FileStep(h) => \/ record' = record
                     \/ PublishWon(h) \/ IsolateRename(h) \/ ReleaseRename(h)
  BY DEF FileStep, Stat, PublishLost, Read, Busy, ProvenDead, IsolateRead,
     ReleaseRead, files
<1> QED
  BY <1>1, <1>2, <1>3 DEF HostStep, IOError, Close, CloseRelease, Crash, files

\* An isolation that does move a record moves that of a dead process.
LEMMA IsolationMovesTheDead ==
    ASSUME IInv, NEW h \in Hosts, IsolateRename(h), record' # record
    PROVE  /\ record \in Tokens
           /\ HostOf(record) \notin alive
           /\ record' = None
<1>1. TypeOK /\ OpFits(h)
  BY AliveFacts
<1> QED
  BY <1>1 DEF IsolateRename, NothingToMove, At, OpFits, TypeOK, files

\* The record of a live Host goes away only through its own exact-token
\* release, after the Host dropped local ownership.
THEOREM LocalDropIsFirst == Spec => LocalDropComesFirst
<1> DEFINE Drops ==
      \A h \in alive : record # None /\ HostOf(record) = h /\ record' # record
          => /\ owned[h] = None
             /\ pendingRelease[h] = record
             /\ op[h].pc = "relRename"
<1>1. ASSUME IInv, [Next]_vars, NEW h \in alive,
             record # None, HostOf(record) = h, record' # record
      PROVE  /\ owned[h] = None
             /\ pendingRelease[h] = record
             /\ op[h].pc = "relRename"
  <2>1. PICK g \in Hosts : HostStep(g)
    BY <1>1 DEF Next, vars, files
  <2>2. ~PublishWon(g)
    BY <1>1 DEF PublishWon
  <2>3. ~IsolateRename(g)
    BY <1>1, IsolationMovesTheDead
  <2>4. ReleaseRename(g)
    BY <1>1, <2>1, <2>2, <2>3, RecordSteps
  <2>5. OpFits(g) /\ MemoryFits(g) /\ op[g].pc = "relRename"
    BY <1>1, <2>4, IInvPerHost DEF ReleaseRename, At
  <2>6. g = h
    BY <1>1, <2>5 DEF OpFits, MemoryFits, ReleasePcs
  <2> QED BY <2>5, <2>6 DEF OpFits, ReleasePcs
<1>2. IInv /\ [Next]_vars => [Drops]_vars
  BY <1>1
<1> QED BY <1>2, Invariance, PTL DEF Spec, LocalDropComesFirst

\* The mapped variables of the lock.
holderBar  == IF record = None THEN None ELSE HostOf(record)
servingBar == {h \in Hosts : owned[h] # None}

LEMMA LockInit == Init => Lock!Init
BY DEF Init, Lock!Init

LEMMA HolderType == IInv => holderBar \in Hosts \cup {None}
BY DEF IInv, TypeOK, holderBar, Tokens, HostOf

\* `owned` changes through Forget, a won publication, close or a crash only.
LEMMA StopStep ==
    ASSUME IInv, NEW h \in Hosts, UNCHANGED <<alive, record>>,
           owned' = [owned EXCEPT ![h] = None]
    PROVE  [Lock!Next]_(Lock!vars)
<1>1. TypeOK
  BY IInvPerHost
<1>2. CASE owned[h] = None
  BY <1>1, <1>2 DEF TypeOK, Lock!vars
<1>3. CASE owned[h] # None
  <2>1. servingBar' = servingBar \ {h} /\ h \in servingBar
    BY <1>1, <1>3 DEF TypeOK, servingBar
  <2> QED BY <2>1 DEF Lock!Next, Lock!Stop, servingBar
<1> QED BY <1>2, <1>3

LEMMA LockFileSteps ==
    ASSUME IInv, NEW h \in Hosts,
           PublishWon(h) \/ IsolateRename(h) \/ ReleaseRename(h)
    PROVE  [Lock!Next]_(Lock!vars)
<1>0. TypeOK /\ OpFits(h) /\ MemoryFits(h)
  BY AliveFacts
<1>1. CASE PublishWon(h)
  <2>1. /\ record = None /\ record' = op[h].token /\ op[h].token # None
        /\ HostOf(op[h].token) = h /\ h \in alive /\ alive' = alive
    BY <1>0, <1>1 DEF PublishWon, At, OpFits, AcquirePcs
  <2>2. servingBar' \in {servingBar, servingBar \cup {h}}
    <3>1. owned' = owned \/ owned' = [owned EXCEPT ![h] = op[h].token]
      BY <1>1 DEF PublishWon
    <3> QED BY <1>0, <2>1, <3>1 DEF servingBar, TypeOK
  <2> QED BY <2>1, <2>2 DEF Lock!Next, Lock!Grant, servingBar
<1>2. CASE IsolateRename(h)
  <2>1. owned' = owned /\ alive' = alive
    BY <1>2 DEF IsolateRename, memory
  <2>2. CASE record' = record
    BY <2>1, <2>2 DEF Lock!vars
  <2>3. CASE record' # record
    <3> DEFINE d == HostOf(record)
    <3>1. record \in Tokens /\ d \notin alive /\ record' = None
      BY <1>2, <2>3, IsolationMovesTheDead
    <3>2. d \in Hosts
      BY <3>1 DEF Tokens, HostOf
    <3>3. d \notin servingBar
      BY <3>1, <3>2, IInvPerHost DEF MemoryFits, servingBar
    <3>4. record # None
      BY <3>1, NoneAssumption
    <3> QED
      BY <2>1, <3>1, <3>2, <3>3, <3>4 DEF Lock!Next, Lock!Free, servingBar
  <2> QED BY <2>2, <2>3
<1>3. CASE ReleaseRename(h)
  <2>1. /\ record # None /\ HostOf(record) = h /\ record' = None
        /\ owned[h] = None /\ owned' = owned /\ alive' = alive
    BY <1>0, <1>3 DEF ReleaseRename, Released, At, OpFits, MemoryFits,
       ReleasePcs
  <2>2. h \notin servingBar
    BY <2>1 DEF servingBar
  <2> QED BY <2>1, <2>2 DEF Lock!Next, Lock!Free, servingBar
<1> QED BY <1>1, <1>2, <1>3

LEMMA LockOtherSteps ==
    ASSUME IInv, NEW h \in Hosts, HostStep(h), record' = record
    PROVE  [Lock!Next]_(Lock!vars)
<1>0. TypeOK
  BY IInvPerHost
<1>1. CASE Crash(h)
  <2>1. servingBar' = servingBar \ {h}
    BY <1>0, <1>1 DEF Crash, TypeOK, servingBar
  <2> QED BY <1>1, <2>1 DEF Crash, Lock!Next, Lock!Crash, servingBar, files
<1>2. CASE PublishWon(h) \/ IsolateRename(h) \/ ReleaseRename(h)
  BY <1>2, LockFileSteps
<1>3. CASE owned' = owned /\ alive' = alive
  BY <1>3 DEF Lock!vars
<1>4. CASE owned' = [owned EXCEPT ![h] = None] /\ alive' = alive
  BY <1>4, StopStep
<1>5. \/ Crash(h)
      \/ PublishWon(h) \/ IsolateRename(h) \/ ReleaseRename(h)
      \/ owned' = owned /\ alive' = alive
      \/ owned' = [owned EXCEPT ![h] = None] /\ alive' = alive
  <2>1. \A c \in Calls : CallerStep(h, c) => owned' = owned /\ alive' = alive
    BY DEF CallerStep, BeginRun, EndBody, BeginExecute, Recheck,
       KeepFirstCheck, BeginRelease, BeginHandBack, NewCall, QueueCall, memory
  <2>2. ChainStep(h) => \/ owned' = owned /\ alive' = alive
                        \/ /\ owned' = [owned EXCEPT ![h] = None]
                           /\ alive' = alive
    BY DEF ChainStep, Refuse, ClaimOwned, ClaimAnew, AcceptClaim,
       ReleaseUnowned, KeepPinned, ReleaseHandedBack, StartProbe, Probe, Judge,
       Drop, Forget, memory
  <2>3. FileStep(h) => \/ owned' = owned /\ alive' = alive
                       \/ PublishWon(h)
    BY DEF FileStep, Stat, PublishLost, Read, Busy, ProvenDead, IsolateRead,
       IsolateRename, ReleaseRead, ReleaseRename, Released, memory
  <2> QED
    BY <2>1, <2>2, <2>3 DEF HostStep, IOError, Close, CloseRelease, memory
<1> QED BY <1>1, <1>2, <1>3, <1>4, <1>5

LEMMA LockStep == IInv /\ [Next]_vars => [Lock!Next]_(Lock!vars)
<1> SUFFICES ASSUME IInv, [Next]_vars PROVE [Lock!Next]_(Lock!vars)
  OBVIOUS
<1>1. CASE UNCHANGED vars
  BY <1>1 DEF vars, files, memory, Lock!vars
<1>2. ASSUME NEW h \in Hosts, HostStep(h) PROVE [Lock!Next]_(Lock!vars)
  BY <1>2, RecordSteps, LockFileSteps, LockOtherSteps
<1> QED BY <1>1, <1>2 DEF Next

\* The managers and their files implement the abstract single-owner lock.
THEOREM Refinement == Spec => ImplementsLock
<1>1. Spec => Lock!Init /\ [][Lock!Next]_(Lock!vars)
  BY LockInit, LockStep, Invariance, PTL DEF Spec
<1> QED BY <1>1 DEF ImplementsLock, Lock!Spec
=============================================================================
