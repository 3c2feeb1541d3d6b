--------------------------- MODULE ExecutionLease ---------------------------
(***************************************************************************)
(* The execution authority of one active Turn: its ExecutionLease row, the *)
(* recovery claims that move the row between Hosts and between the runners *)
(* of a Host, its renewal and hand-back, and the executors that carry a    *)
(* captured fence through every write they make.                           *)
(*                                                                         *)
(* A transaction of the database worker is one step; a command that reads  *)
(* before it commits is several, and anything may happen in between.  The  *)
(* Conversation owner above the lease is the lock of module OwnerLock.     *)
(***************************************************************************)
EXTENDS Naturals

CONSTANTS
    Hosts,    \* Runtime Host processes; a dead one never returns
    Owners,   \* leaseOwnerId values: the runner, child driver, ... of a Host
    HostOf,   \* the Host of an owner
    Callers,  \* concurrent activities of the owners
    OwnerOf,  \* the owner a caller acts for
    Duration, \* lifetime a claim or a renewal asks for
    MaxTime,  \* bound of the clock
    MaxGen,   \* bound of the lease generation
    Released, \* RELEASED_EXECUTION_LEASE_HOLDER
    None

ASSUME OwnersAssumption == /\ HostOf \in [Owners -> Hosts]
                           /\ OwnerOf \in [Callers -> Owners]
                           /\ Released \notin Owners
                           /\ None \notin Hosts
ASSUME BoundsAssumption == /\ Duration \in Nat
                           /\ MaxTime \in Nat
                           /\ MaxGen \in Nat

VARIABLES
    alive,     \* Hosts that run and are registered as live
    owner,     \* Host named by the durable Conversation owner record
    serving,   \* Hosts whose manager owns the Conversation
    now,       \* the clock all Hosts read
    turn,      \* status of the Turn
    input,     \* the Turn has a PendingTurnInput row
    lease,     \* the ExecutionLease row
    receipts,  \* CommandReceipts of recovery claims
    op,        \* per caller, the claim or hand-back it is in
    work,      \* per caller, what it does with a fence
    fence,     \* per caller, the generation of that fence
    lastWrite  \* generation and owner of the last fenced write

lockVars == <<alive, owner, serving>>
rows     == <<turn, input, lease, receipts, lastWrite>>
local    == <<op, work, fence>>
vars     == <<lockVars, now, rows, local>>

Host(c) == HostOf[OwnerOf[c]]

Leases == [holder : Owners \cup {Released}, gen : Nat, expires : Nat]
NoLease == [holder |-> Released, gen |-> 0, expires |-> 0]

Exists(l) == l.gen > 0
Expired(l) == l.expires <= now

\* The receipt of a Host's first claim, and of its claim of generation g.
FirstClaim(h) == <<h, 0>>
Reclaim(h, g) == <<h, g>>

OpPcs == {"idle", "row", "judge", "renew", "commit", "release"}
Works == {"none", "captured", "driving", "control", "late"}

\* `replay`: the Host had claimed the Turn before; `row` and `expired` what
\* was read of the lease, `asked` the expiry the caller asks for.
IdleOp == [pc |-> "idle", replay |-> FALSE, row |-> NoLease,
           expired |-> FALSE, asked |-> 0]

Ops == [pc : OpPcs, replay : BOOLEAN, row : Leases, expired : BOOLEAN,
        asked : Nat]

TypeOK ==
    /\ alive \subseteq Hosts
    /\ owner \in Hosts \cup {None}
    /\ serving \subseteq Hosts
    /\ now \in Nat
    /\ turn \in {"active", "terminated"}
    /\ input \in BOOLEAN
    /\ lease \in Leases
    /\ receipts \subseteq Hosts \X Nat
    /\ op \in [Callers -> Ops]
    /\ work \in [Callers -> Works]
    /\ fence \in [Callers -> Nat]
    /\ lastWrite \in [gen : Nat, by : Owners \cup {Released}]

Lock == INSTANCE OwnerLock WITH holder <- owner

\* An admission has just inserted the Turn and its first lease, or the Turn
\* is an orphan without a lease, with or without an input.
FirstLease(o) == [holder |-> o, gen |-> 1, expires |-> Duration]

Init ==
    /\ alive = Hosts
    /\ now = 0
    /\ turn = "active"
    /\ input \in BOOLEAN
    /\ \/ \E o \in Owners : /\ lease = FirstLease(o)
                            /\ owner = HostOf[o]
                            /\ serving = {HostOf[o]}
       \/ /\ lease = NoLease
          /\ owner = None
          /\ serving = {}
    /\ receipts = {}
    /\ op = [c \in Callers |-> IdleOp]
    /\ work = [c \in Callers |-> "none"]
    /\ fence = [c \in Callers |-> 0]
    /\ lastWrite = [gen |-> 0, by |-> Released]

---------------------------------------------------------------------------
(* Hosts, the owner of the Conversation, time and inputs. *)

\* Activities that run under ConversationRuntimeOwnerManager.run().
Pinned(h) == \E c \in Callers :
    /\ Host(c) = h
    /\ op[c].pc # "idle" \/ work[c] \in {"captured", "driving", "control"}

\* Mutant: ownership ends under a running claim.
MutMayDisown(h) == \A c \in Callers : Host(c) = h => work[c] # "driving"

MayDisown(h) == ~Pinned(h)

Own(h) == Lock!Grant(h) /\ UNCHANGED <<now, rows, local>>

Disown(h) == /\ MayDisown(h)
             /\ Lock!Stop(h)
             /\ UNCHANGED <<now, rows, local>>

FreeRecord(h) == Lock!Free(h) /\ UNCHANGED <<now, rows, local>>

\* The process dies, or it closes: the worker ends before anything else.
Crash(h) ==
    /\ Lock!Crash(h)
    /\ op' = [c \in Callers |-> IF Host(c) = h THEN IdleOp ELSE op[c]]
    /\ work' = [c \in Callers |-> IF Host(c) = h THEN "none" ELSE work[c]]
    /\ fence' = [c \in Callers |-> IF Host(c) = h THEN 0 ELSE fence[c]]
    /\ UNCHANGED <<now, rows>>

Tick == /\ now < MaxTime
        /\ now' = now + 1
        /\ UNCHANGED <<lockVars, rows, local>>

\* Any Host may leave an input (an interrupt request crosses owners).
InputArrives == /\ turn = "active"
                /\ input' = TRUE
                /\ UNCHANGED <<lockVars, now, turn, lease, receipts, lastWrite, local>>

---------------------------------------------------------------------------
(* claimRecoveryExecution() *)

At(c, pc) == op[c].pc = pc

Idle(c) == At(c, "idle") /\ work[c] \in {"none", "late"}

ToOp(c, o) == /\ op' = [op EXCEPT ![c] = o]
              /\ UNCHANGED <<lockVars, now, rows, work, fence>>

Asks == now + Duration

\* findReceipt() decides between the first claim and a reclaim.
ClaimBegin(c) ==
    /\ Host(c) \in serving
    /\ Idle(c)
    /\ ToOp(c, [IdleOp EXCEPT !.pc = "row",
                              !.replay = FirstClaim(Host(c)) \in receipts,
                              !.asked = Asks])

\* judgeTurnRecovery() says resume.
Resumable == turn = "active" /\ (Exists(lease) \/ input)

ClaimRow(c) ==
    /\ At(c, "row")
    /\ ToOp(c, IF IF op[c].replay THEN Exists(lease) ELSE Resumable
               THEN [op[c] EXCEPT !.pc = "judge", !.row = lease,
                                  !.expired = Expired(lease)]
               ELSE IdleOp)

\* The row read is this caller's own and had not expired.
Keeps(c) == /\ Exists(op[c].row)
            /\ op[c].row.holder = OwnerOf[c]
            /\ ~op[c].expired

SameHost(c, l) == l.holder # Released /\ HostOf[l.holder] = Host(c)
HostAlive(l) == l.holder # Released /\ HostOf[l.holder] \in alive

\* Mutant: an expired lease is free for every Host.
MutStandsDown(c) ==
    /\ Exists(op[c].row)
    /\ op[c].row.holder # OwnerOf[c]
    /\ HostAlive(op[c].row)
    /\ ~op[c].expired

\* Another live Host keeps the Turn whatever the clock says, another runner
\* of this Host until its lease expires.
StandsDown(c) ==
    /\ Exists(op[c].row)
    /\ op[c].row.holder # OwnerOf[c]
    /\ IF SameHost(c, op[c].row) THEN ~op[c].expired ELSE HostAlive(op[c].row)

ClaimJudge(c) ==
    /\ At(c, "judge")
    /\ ToOp(c, IF StandsDown(c) THEN IdleOp
               ELSE IF op[c].replay /\ Keeps(c)
                    THEN [op[c] EXCEPT !.pc = "renew"]
                    ELSE [op[c] EXCEPT !.pc = "commit"])

\* A claim that succeeded: the Turn is scheduled for a drive, which captures
\* a fence of its own, or the caller settles it under the generation claimed.
Claimed(c, g) ==
    /\ op' = [op EXCEPT ![c] = IdleOp]
    /\ \/ UNCHANGED <<work, fence>>
       \/ /\ work' = [work EXCEPT ![c] = "control"]
          /\ fence' = [fence EXCEPT ![c] = g]

Later(s, t) == IF s > t THEN s ELSE t

\* Mutant: a claim keeps its generation as long as the Host stays the same.
MutNextGen(c) == IF Exists(op[c].row) /\ SameHost(c, op[c].row)
                 THEN op[c].row.gen ELSE op[c].row.gen + 1

NextGen(c) == op[c].row.gen + (IF ~op[c].replay /\ Keeps(c) THEN 0 ELSE 1)

ClaimedLease(c) ==
    [holder |-> OwnerOf[c], gen |-> NextGen(c),
     expires |-> IF ~op[c].replay /\ Keeps(c)
                 THEN Later(op[c].row.expires, op[c].asked)
                 ELSE op[c].asked]

\* Mutant: one receipt per Host, whatever became of its first claim.
MutReceiptOf(c) == FirstClaim(Host(c))

ReceiptOf(c) ==
    IF op[c].replay THEN Reclaim(Host(c), NextGen(c)) ELSE FirstClaim(Host(c))

\* The exact row that was read, or the input that permits a first lease.
RowUnchanged(c) == /\ turn = "active"
                   /\ lease = op[c].row
                   /\ Exists(lease) \/ input

ClaimCommit(c) ==
    /\ At(c, "commit")
    /\ ReceiptOf(c) \notin receipts
    /\ RowUnchanged(c)
    /\ NextGen(c) <= MaxGen
    /\ lease' = ClaimedLease(c)
    /\ receipts' = receipts \cup {ReceiptOf(c)}
    /\ Claimed(c, NextGen(c))
    /\ UNCHANGED <<lockVars, now, turn, input, lastWrite>>

\* commitWithReceipt() finds the receipt of an overlapping claim: a first
\* claim counts as done, a reclaim looks at the row once more.
ClaimDeduplicated(c) ==
    /\ At(c, "commit")
    /\ ReceiptOf(c) \in receipts
    /\ ~op[c].replay \/ (lease.holder = OwnerOf[c] /\ lease.gen = NextGen(c))
    /\ Claimed(c, NextGen(c))
    /\ UNCHANGED <<lockVars, now, rows>>

\* The receipt or the rows name another winner: the caller stands down.
ClaimLost(c) ==
    /\ At(c, "commit")
    /\ IF ReceiptOf(c) \in receipts
       THEN op[c].replay /\ ~(lease.holder = OwnerOf[c] /\ lease.gen = NextGen(c))
       ELSE ~RowUnchanged(c)
    /\ ToOp(c, IdleOp)

---------------------------------------------------------------------------
(* The executors and their fences. *)

\* Mutant: the row id alone is the fence.
MutFenceHolds(c, g) == Exists(lease)

\* The tuple of fence generation g is still the lease row.
FenceHolds(c, g) == Exists(lease) /\ lease.holder = OwnerOf[c] /\ lease.gen = g

\* decideExecutionLeaseRenewal(), in the transaction that renews.
Renewable(c, g) == turn = "active" /\ FenceHolds(c, g) /\ ~Expired(lease)

\* A request asks for an expiry at most Duration ahead; delayed past that it
\* is refused.  An expiry never shrinks.
Renewed(c, g) ==
    /\ Renewable(c, g)
    /\ \E asked \in now + 1 .. now + Duration :
          lease' = [lease EXCEPT !.expires = Later(@, asked)]
    /\ UNCHANGED <<lockVars, now, turn, input, receipts, lastWrite>>

\* The replay of a first claim renews the lease it still holds.
ClaimRenew(c) ==
    /\ At(c, "renew")
    /\ Renewed(c, op[c].row.gen)
    /\ Claimed(c, op[c].row.gen)

ClaimNotRenewed(c) == At(c, "renew") /\ ToOp(c, IdleOp)

ToWork(c, w, g) == /\ work' = [work EXCEPT ![c] = w]
                   /\ fence' = [fence EXCEPT ![c] = g]

\* executionLeaseFence(): the drive reads its own unexpired row.
Capture(c) ==
    /\ Host(c) \in serving
    /\ Idle(c)
    /\ turn = "active"
    /\ Exists(lease) /\ lease.holder = OwnerOf[c] /\ ~Expired(lease)
    /\ ToWork(c, "captured", lease.gen)
    /\ UNCHANGED <<lockVars, now, rows, op>>

\* The renewal before the drive, and those while it runs.
Renew(c) ==
    /\ work[c] \in {"captured", "driving"}
    /\ Renewed(c, fence[c])
    /\ work' = [work EXCEPT ![c] = "driving"]
    /\ UNCHANGED <<op, fence>>

\* It failed: the drive does not start, or is told to hand over, and late
\* callbacks keep the fence they were started with.
RenewalLost(c) ==
    \/ /\ work[c] = "captured"
       /\ ToWork(c, "none", 0)
       /\ UNCHANGED <<lockVars, now, rows, op>>
    \/ /\ work[c] = "driving"
       /\ ToWork(c, "late", fence[c])
       /\ UNCHANGED <<lockVars, now, rows, op>>

\* A fenced transaction, submitted at any time after the fence was captured.
\* Its Host owned the Conversation when it submitted; that may be over by now.
Write(c) ==
    /\ work[c] \in {"driving", "control", "late"}
    /\ FenceHolds(c, fence[c])
    /\ lastWrite' = [gen |-> fence[c], by |-> OwnerOf[c]]
    /\ UNCHANGED <<lockVars, now, turn, input, lease, receipts, local>>

\* ExecutionHandoffError: the executor stands down.
WriteRejected(c) ==
    /\ work[c] \in {"driving", "control", "late"}
    /\ ~FenceHolds(c, fence[c])
    /\ ToWork(c, "none", 0)
    /\ UNCHANGED <<lockVars, now, rows, op>>

\* The drive waits for an answer or ends; the lease stays with its owner.
Wait(c) ==
    /\ work[c] \in {"driving", "control"}
    /\ ToWork(c, "late", fence[c])
    /\ UNCHANGED <<lockVars, now, rows, op>>

LastCallback(c) ==
    /\ work[c] = "late"
    /\ ToWork(c, "none", 0)
    /\ UNCHANGED <<lockVars, now, rows, op>>

\* The Turn ends and its lease with it.
Terminate(c) ==
    /\ work[c] \in {"driving", "control"}
    /\ FenceHolds(c, fence[c])
    /\ turn' = "terminated"
    /\ lease' = NoLease
    /\ ToWork(c, "late", fence[c])
    /\ UNCHANGED <<lockVars, now, input, receipts, lastWrite, op>>

\* finalizeRecovery() ends an orphan.
Finalize(c) ==
    /\ Host(c) \in serving
    /\ Idle(c)
    /\ turn = "active" /\ ~Exists(lease) /\ ~input
    /\ turn' = "terminated"
    /\ UNCHANGED <<lockVars, now, input, lease, receipts, lastWrite, local>>

---------------------------------------------------------------------------
(* releaseExecutionLease() *)

ReleasedLease == [holder |-> Released, gen |-> lease.gen + 1, expires |-> now]

ReleaseRow(c, g) ==
    /\ IF turn = "active" /\ FenceHolds(c, g)
       THEN lease' = ReleasedLease /\ lease.gen < MaxGen
       ELSE UNCHANGED lease
    /\ UNCHANGED <<lockVars, now, turn, input, receipts, lastWrite>>

\* An executor gives its own fence back: control-only settlement failed, or
\* this Host no longer serves the Conversation.
HandBack(c) ==
    /\ work[c] \in {"driving", "control"}
    /\ ReleaseRow(c, fence[c])
    /\ ToWork(c, "late", fence[c])
    /\ UNCHANGED op

Driven(o) == \E c \in Callers : OwnerOf[c] = o /\ work[c] \in {"captured", "driving"}

\* releaseWaitingTurn() hands back what nobody drives, expired or not.
WaitingRead(c) ==
    /\ Host(c) \in serving
    /\ Idle(c)
    /\ ~Driven(OwnerOf[c])
    /\ turn = "active"
    /\ Exists(lease) /\ lease.holder = OwnerOf[c]
    /\ ToOp(c, [IdleOp EXCEPT !.pc = "release", !.row = lease])

WaitingHandBack(c) ==
    /\ At(c, "release")
    /\ ReleaseRow(c, op[c].row.gen)
    /\ op' = [op EXCEPT ![c] = IdleOp]
    /\ UNCHANGED <<work, fence>>

---------------------------------------------------------------------------
Claiming(c) ==
    \/ ClaimRow(c) \/ ClaimJudge(c) \/ ClaimCommit(c) \/ ClaimDeduplicated(c)
    \/ ClaimLost(c) \/ ClaimRenew(c) \/ ClaimNotRenewed(c) \/ WaitingHandBack(c)

Executing(c) ==
    \/ Renew(c) \/ RenewalLost(c) \/ Write(c) \/ WriteRejected(c) \/ Wait(c)
    \/ LastCallback(c) \/ Terminate(c) \/ HandBack(c)

CallerStep(c) ==
    \/ ClaimBegin(c) \/ Claiming(c) \/ Capture(c) \/ Executing(c)
    \/ WaitingRead(c) \/ Finalize(c)

HostStep(h) == Own(h) \/ Disown(h) \/ FreeRecord(h) \/ Crash(h)

Next == \/ \E h \in Hosts : HostStep(h)
        \/ \E c \in Callers : CallerStep(c)
        \/ Tick
        \/ InputArrives

Spec == Init /\ [][Next]_vars

\* Every command comes to its end; recovery scans, wake polls and owner
\* sweeps come back to a Turn that waits, and a scan that got hold of the
\* Conversation goes on to the claim.
Fairness ==
    /\ \A h \in Hosts : SF_vars(Own(h) /\ h \in serving') /\ WF_vars(FreeRecord(h))
    /\ \A c \in Callers : /\ WF_vars(Claiming(c))
                           /\ SF_vars(ClaimBegin(c))
                           /\ SF_vars(Finalize(c))
                           /\ WF_vars(RenewalLost(c) \/ Wait(c) \/ WriteRejected(c))

FairSpec == Spec /\ Fairness

---------------------------------------------------------------------------
(* Correctness *)

\* A live Host keeps the Turn past every expiry ("elapsed time never justifies
\* displacing it"): its lease changes hands only through a Host's own runners,
\* and between two of them only once it has expired.
KeepsLiveHost ==
    Exists(lease) /\ HostAlive(lease) /\ lease'.holder # lease.holder
       => \/ lease'.holder = Released /\ HostOf[lease.holder] \in serving
          \/ /\ lease'.holder # Released
             /\ HostOf[lease'.holder] = HostOf[lease.holder]
             /\ Expired(lease)

LiveHostKeepsLease == [][KeepsLiveHost]_vars

\* The generation is the fence: two owners never share one, and within one
\* the expiry never shrinks.
KeepsGeneration ==
    Exists(lease) /\ Exists(lease')
       => \/ lease'.gen > lease.gen
          \/ /\ lease'.gen = lease.gen
             /\ lease'.holder = lease.holder
             /\ lease'.expires >= lease.expires

GenerationHasOneHolder == [][KeepsGeneration]_vars

\* Delayed callbacks of a replaced executor never write again: the fenced
\* writes of a Turn come in the order of its generations, and each generation
\* has one writer.
WritesForward ==
    lastWrite' # lastWrite
       => \/ lastWrite'.gen > lastWrite.gen
          \/ lastWrite'.gen = lastWrite.gen /\ lastWrite'.by = lastWrite.by

WritesNeverGoBack == [][WritesForward]_vars

\* Execution moves to a Host only while that Host owns the Conversation,
\* although reads and the commit of a claim are far apart.
TakenByOwner ==
    lease'.holder # lease.holder /\ lease'.holder # Released
       => HostOf[lease'.holder] \in serving

TakenByConversationOwner == [][TakenByOwner]_vars

\* Recovery reaches every Turn whose holder died or handed it back, also when
\* the lease returns to a Host that claimed it before: it ends up with a live
\* Host or terminated, unless no Host is left or the bound is reached.
DeadHolderReplaced ==
    (\E h \in Hosts : <>[](h \in alive)) /\ []<>(lease.gen < MaxGen)
        => []<>(HostAlive(lease) \/ turn = "terminated")

\* At most the Host the durable record names works on the Conversation.
OwnerIsSingle == Lock!OnlyHolderServes

PinnedHostsServe == \A c \in Callers :
    op[c].pc # "idle" \/ work[c] \in {"captured", "driving", "control"}
        => Host(c) \in serving

\* What a claim judged stays true until it commits: a dead Host never
\* returns, and what had expired stays expired.
JudgmentStands == \A c \in Callers :
    /\ op[c].expired => op[c].row.expires <= now
    /\ op[c].pc = "commit" => ~StandsDown(c)

\* The last write is not ahead of the lease and shares its generation only
\* with its holder; nothing has written before there is a lease.
WritesFollowLease ==
    /\ Exists(lease) => \/ lastWrite.gen < lease.gen
                        \/ /\ lastWrite.gen = lease.gen
                           /\ lastWrite.by = lease.holder
    /\ Exists(lease) => turn = "active"
    /\ ~Exists(lease) /\ turn = "active" => lastWrite.gen = 0

IInv == /\ TypeOK
        /\ OwnerIsSingle
        /\ PinnedHostsServe
        /\ JudgmentStands
        /\ WritesFollowLease
=============================================================================
