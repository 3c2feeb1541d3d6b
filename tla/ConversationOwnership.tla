----------------------- MODULE ConversationOwnership -----------------------
(***************************************************************************)
(* The durable single owner of one Conversation: every Runtime Host        *)
(* (VS Code extension-host process) on a shared data root runs one         *)
(* ConversationRuntimeOwnerManager, and the managers meet only in the      *)
(* owner record, a directory renamed onto and away from one canonical path.*)
(*                                                                         *)
(* A Host here is one process incarnation: it may die and never returns.   *)
(* Conversations are independent (every operation is chained and recorded  *)
(* per conversation), so the module follows one of them.                   *)
(*                                                                         *)
(* A file-system call is one step, and anything may happen between two of  *)
(* them; the synchronous code between two awaits is one step as well.      *)
(***************************************************************************)
EXTENDS Naturals, Sequences, FiniteSets

CONSTANTS
    Hosts,   \* Runtime Host processes sharing the root
    Calls,   \* concurrent invocations of one Host's manager
    Slots,   \* owner tokens (random UUIDs) a Host can have in use at a time
    Answers, \* per Host, what its claim-eligibility probe may answer: the
             \* window's folders change at any time, the probe may fail
    Faults,  \* TRUE when file operations may fail
    None

\* ownerToken, paired with the process the record names.
Tokens == Hosts \X Slots
HostOf(t) == t[1]

ASSUME NoneAssumption == /\ None \notin Tokens
                         /\ None \notin Calls

Eligibilities == {"eligible", "ineligible", "unknown"}

ASSUME AnswersAssumption == Answers \in [Hosts -> SUBSET Eligibilities]
ASSUME FaultsAssumption == Faults \in BOOLEAN

VARIABLES
    alive,          \* Hosts whose process still runs
    record,         \* token of the record at the canonical path
    tombstone,      \* per token t, the token inside the directory dead-t
    owned,          \* per Host, the token of its entry in the `owned` map
    claim,          \* per Host, the mutable fields of that entry
    pendingRelease, \* per Host, the token of its entry in `pendingReleases`
    closed,         \* per Host, close() has been called
    chain,          \* per Host, operations queued behind the running one
    op,             \* per Host, the running operation of the chain
    call            \* per Host and invocation, how far the caller has come

files  == <<record, tombstone>>
memory == <<owned, claim, pendingRelease>>
vars   == <<alive, files, memory, closed, chain, op, call>>

Kinds == {"claimRun", "endRun", "claimExec", "accept", "return",
          "release", "handBack"}
OpPcs == {"free", "stat", "publish", "read", "classify", "isoRead",
          "isoRename", "probe", "judge", "relRead", "relRename"}
CallPcs == {"idle", "run", "body", "end", "exec", "execOwned", "recheck",
            "reclaimed", "accept", "return", "release", "handBack"}

NoClaim == [pins |-> 0, commandClaim |-> FALSE, handBack |-> FALSE]

\* `call` and `kind` name the queued operation, `token` the record being
\* acquired or released, `seen` the token of the foreign record last read,
\* `work` the probe's answer.
FreeOp == [pc |-> "free", call |-> None, kind |-> "release", token |-> None,
           seen |-> None, work |-> TRUE]

\* An operation about to release the record of token t.
ReleaseOp(c, kind, t) == [FreeOp EXCEPT !.pc = "relRead", !.call = c,
                                        !.kind = kind, !.token = t]

ChainItems == [call : Calls, kind : Kinds]
Claims == [pins : Nat, commandClaim : BOOLEAN, handBack : BOOLEAN]
Ops == [pc : OpPcs, call : Calls \cup {None}, kind : Kinds,
        token : Tokens \cup {None}, seen : Tokens \cup {None}, work : BOOLEAN]

TypeOK ==
    /\ alive \subseteq Hosts
    /\ record \in Tokens \cup {None}
    /\ tombstone \in [Tokens -> Tokens \cup {None}]
    /\ owned \in [Hosts -> Tokens \cup {None}]
    /\ claim \in [Hosts -> Claims]
    /\ pendingRelease \in [Hosts -> Tokens \cup {None}]
    /\ closed \in [Hosts -> BOOLEAN]
    /\ chain \in [Hosts -> Seq(ChainItems)]
    /\ op \in [Hosts -> Ops]
    /\ call \in [Hosts -> [Calls -> CallPcs]]

Init ==
    /\ alive = Hosts
    /\ record = None
    /\ tombstone = [t \in Tokens |-> None]
    /\ owned = [h \in Hosts |-> None]
    /\ claim = [h \in Hosts |-> NoClaim]
    /\ pendingRelease = [h \in Hosts |-> None]
    /\ closed = [h \in Hosts |-> FALSE]
    /\ chain = [h \in Hosts |-> <<>>]
    /\ op = [h \in Hosts |-> FreeOp]
    /\ call = [h \in Hosts |-> [c \in Calls |-> "idle"]]

---------------------------------------------------------------------------
(* The world around the managers. *)

\* The process dies between any two steps: its memory is gone, the files stay.
Crash(h) ==
    /\ h \in alive
    /\ alive' = alive \ {h}
    /\ owned' = [owned EXCEPT ![h] = None]
    /\ claim' = [claim EXCEPT ![h] = NoClaim]
    /\ pendingRelease' = [pendingRelease EXCEPT ![h] = None]
    /\ chain' = [chain EXCEPT ![h] = <<>>]
    /\ op' = [op EXCEPT ![h] = FreeOp]
    /\ call' = [call EXCEPT ![h] = [c \in Calls |-> "idle"]]
    /\ UNCHANGED <<files, closed>>

---------------------------------------------------------------------------
(* Callers.  An invocation queues its chain operations one after the other. *)

Enqueue(h, c, kind) ==
    chain' = [chain EXCEPT ![h] = Append(@, [call |-> c, kind |-> kind])]

CallStep(h, c, from, to) ==
    /\ h \in alive
    /\ call[h][c] = from
    /\ call' = [call EXCEPT ![h][c] = to]

QueueCall(h, c, from, to, kind) ==
    /\ CallStep(h, c, from, to)
    /\ Enqueue(h, c, kind)
    /\ UNCHANGED <<alive, files, memory, closed, op>>

\* A caller that comes after close() is refused without any effect.
NewCall(h, c, to, kind) == ~closed[h] /\ QueueCall(h, c, "idle", to, kind)

BeginRun(h, c)  == NewCall(h, c, "run", "claimRun")
EndBody(h, c)   == QueueCall(h, c, "body", "end", "endRun")

\* releaseIfIdle(), and one conversation of a sweepIdle() pass.
BeginRelease(h, c)  == NewCall(h, c, "release", "release")
BeginHandBack(h, c) == NewCall(h, c, "handBack", "handBack")

\* tryClaimEligible(): the probe and `wasOwned` are read outside the chain.
BeginExecute(h, c) ==
    /\ "eligible" \in Answers[h]
    /\ NewCall(h, c, IF owned[h] # None THEN "execOwned" ELSE "exec", "claimExec")

\* The second probe, after a claim the caller believes is fresh.
Recheck(h, c) ==
    \E answer \in Answers[h] :
        IF answer = "eligible"
        THEN QueueCall(h, c, "recheck", "accept", "accept")
        ELSE QueueCall(h, c, "recheck", "return", "return")

\* A caller that saw the Conversation owned relies on the first probe.
KeepFirstCheck(h, c) == QueueCall(h, c, "reclaimed", "accept", "accept")

\* close(): refuses every later operation at once.
Close(h) ==
    /\ h \in alive
    /\ ~closed[h]
    /\ closed' = [closed EXCEPT ![h] = TRUE]
    /\ UNCHANGED <<alive, files, memory, chain, op, call>>

\* Mutant: a command that was cut off keeps its pin and so the record.
MutSettledUnpinned(h) ==
    op[h].pc = "free" /\ chain[h] = <<>> /\ claim[h].pins = 0

\* Pins of operations that can no longer commit do not count.
Settled(h) == op[h].pc = "free" /\ chain[h] = <<>>

\* ... and, once the chains have settled, gives every record back; a failed
\* close is retried by a later one.
CloseRelease(h) ==
    LET leftover == IF owned[h] # None THEN owned[h] ELSE pendingRelease[h] IN
    /\ h \in alive
    /\ closed[h]
    /\ Settled(h)
    /\ leftover # None
    /\ pendingRelease' = [pendingRelease EXCEPT ![h] = leftover]
    /\ owned' = [owned EXCEPT ![h] = None]
    /\ claim' = [claim EXCEPT ![h] = NoClaim]
    /\ op' = [op EXCEPT ![h] = ReleaseOp(None, "release", leftover)]
    /\ UNCHANGED <<alive, files, closed, chain, call>>

---------------------------------------------------------------------------
(* The chain: one operation at a time, in the order they were queued. *)

ClaimKinds   == {"claimRun", "claimExec"}
ReleaseKinds == {"endRun", "release", "return", "handBack"}

Waiting(h) == Head(chain[h])

\* The next queued operation, of one of `kinds`, begins.
Begin(h, kinds) ==
    /\ h \in alive
    /\ ~closed[h]
    /\ op[h].pc = "free"
    /\ chain[h] # <<>>
    /\ Waiting(h).kind \in kinds
    /\ chain' = [chain EXCEPT ![h] = Tail(@)]

At(h, pc) == h \in alive /\ op[h].pc = pc

Goto(h, pc) == op' = [op EXCEPT ![h].pc = pc]

\* The operation settles; its caller, if it still has one, goes on at `to`.
Settle(h, c, to) ==
    /\ op' = [op EXCEPT ![h] = FreeOp]
    /\ call' = IF c = None THEN call ELSE [call EXCEPT ![h][c] = to]

Granted(h, c) == CASE call[h][c] = "run"  -> "body"
                   [] call[h][c] = "exec" -> "recheck"
                   [] OTHER               -> "reclaimed"

InUse == {record} \cup {tombstone[t] : t \in Tokens}
         \cup {op[h].token : h \in Hosts} \cup {op[h].seen : h \in Hosts}
         \cup {owned[h] : h \in Hosts} \cup {pendingRelease[h] : h \in Hosts}

\* acquireRecord() begins with a random token that is nowhere in use.
Acquire(h, c, kind) ==
    \E s \in Slots :
        /\ <<h, s>> \notin InUse
        /\ op' = [op EXCEPT ![h] = [FreeOp EXCEPT !.pc = "stat", !.call = c,
                                      !.kind = kind, !.token = <<h, s>>]]

\* After close() an operation that waited its turn only reports the refusal.
Refuse(h) ==
    /\ h \in alive
    /\ closed[h]
    /\ op[h].pc = "free"
    /\ chain[h] # <<>>
    /\ chain' = [chain EXCEPT ![h] = Tail(@)]
    /\ call' = [call EXCEPT ![h][Waiting(h).call] = "idle"]
    /\ UNCHANGED <<alive, files, memory, closed, op>>

\* claimLocked() on a Host that owns the Conversation already.
ClaimOwned(h) ==
    /\ Begin(h, ClaimKinds)
    /\ owned[h] # None
    /\ claim' = [claim EXCEPT ![h].pins =
                     IF Waiting(h).kind = "claimRun" THEN @ + 1 ELSE @]
    /\ Settle(h, Waiting(h).call, Granted(h, Waiting(h).call))
    /\ UNCHANGED <<alive, files, owned, pendingRelease, closed>>

\* ... on one that does not: an unfinished release comes first.
ClaimAnew(h) ==
    /\ Begin(h, ClaimKinds)
    /\ owned[h] = None
    /\ IF pendingRelease[h] = None
       THEN Acquire(h, Waiting(h).call, Waiting(h).kind)
       ELSE op' = [op EXCEPT ![h] = ReleaseOp(Waiting(h).call, Waiting(h).kind,
                                              pendingRelease[h])]
    /\ UNCHANGED <<alive, files, memory, closed, call>>

\* The last operation of tryClaimEligible() makes it an execution claim.
AcceptClaim(h) ==
    /\ Begin(h, {"accept"})
    /\ claim' = [claim EXCEPT ![h].commandClaim = FALSE, ![h].handBack = FALSE]
    /\ Settle(h, Waiting(h).call, "idle")
    /\ UNCHANGED <<alive, files, owned, pendingRelease, closed>>

---------------------------------------------------------------------------
(* acquireRecord(): publish the candidate, or look at who is in the way. *)

\* tryPublishClaimRecord() sees whether anything is at the canonical path.
Stat(h) ==
    /\ At(h, "stat")
    /\ IF closed[h] THEN Settle(h, op[h].call, "idle")
       ELSE /\ Goto(h, IF record = None THEN "publish" ELSE "read")
            /\ UNCHANGED call
    /\ UNCHANGED <<alive, files, memory, closed, chain>>

\* The rename of the candidate onto the canonical path wins or loses.
PublishWon(h) ==
    /\ At(h, "publish")
    /\ record = None
    /\ record' = op[h].token
    /\ IF closed[h]
       THEN /\ pendingRelease' = [pendingRelease EXCEPT ![h] = op[h].token]
            /\ Goto(h, "relRead")
            /\ UNCHANGED <<owned, claim, call>>
       ELSE /\ owned' = [owned EXCEPT ![h] = op[h].token]
            /\ claim' = [claim EXCEPT ![h] =
                   IF op[h].kind = "claimRun"
                   THEN [pins |-> 1, commandClaim |-> TRUE, handBack |-> FALSE]
                   ELSE NoClaim]
            /\ Settle(h, op[h].call, Granted(h, op[h].call))
            /\ UNCHANGED pendingRelease
    /\ UNCHANGED <<alive, tombstone, closed, chain>>

PublishLost(h) ==
    /\ At(h, "publish")
    /\ record # None
    /\ Goto(h, "read")
    /\ UNCHANGED <<alive, files, memory, closed, chain, call>>

Read(h) ==
    /\ At(h, "read")
    /\ op' = [op EXCEPT ![h].seen = record,
                        ![h].pc = IF record = None THEN "stat" ELSE "classify"]
    /\ UNCHANGED <<alive, files, memory, closed, chain, call>>

\* The recorded process lives, or nothing is known for certain.
Busy(h) ==
    /\ At(h, "classify")
    /\ Settle(h, op[h].call, "idle")
    /\ UNCHANGED <<alive, files, memory, closed, chain>>

\* Mutants: a takeover by age, and one that waits for a graceful close.
MutDeadByAge(t) == TRUE
MutDeadAfterClose(t) == HostOf(t) \notin alive /\ closed[HostOf(t)]

\* No such process, or another one under the recorded process id.
DefinitelyDead(t) == HostOf(t) \notin alive

ProvenDead(h) ==
    /\ At(h, "classify")
    /\ DefinitelyDead(op[h].seen)
    /\ Goto(h, "isoRead")
    /\ UNCHANGED <<alive, files, memory, closed, chain, call>>

Retry(h) == op' = [op EXCEPT ![h].pc = "stat", ![h].seen = None]

\* isolateDeadClaimRecord() reads the token again ...
IsolateRead(h) ==
    /\ At(h, "isoRead")
    /\ IF record = op[h].seen THEN Goto(h, "isoRename") ELSE Retry(h)
    /\ UNCHANGED <<alive, files, memory, closed, chain, call>>

\* The rename fails on a missing source and on a standing tombstone.
NothingToMove(h) == record = None \/ tombstone[op[h].seen] # None

\* ... and renames whatever is at the canonical path by then, unless nothing
\* is or the tombstone stands; it fails when it moved another record.
IsolateRename(h) ==
    /\ At(h, "isoRename")
    /\ IF NothingToMove(h)
       THEN /\ Retry(h)
            /\ UNCHANGED <<files, call>>
       ELSE /\ tombstone' = [tombstone EXCEPT ![op[h].seen] = record]
            /\ record' = None
            /\ IF record = op[h].seen THEN Retry(h) /\ UNCHANGED call
                                      ELSE Settle(h, op[h].call, "idle")
    /\ UNCHANGED <<alive, memory, closed, chain>>

---------------------------------------------------------------------------
(* releaseIfIdleLocked() *)

\* Mutant: the end of one run drops every pin.
MutUpdatedUnpins(h) ==
    CASE Waiting(h).kind = "endRun" -> [claim[h] EXCEPT !.pins = 0]
      [] Waiting(h).kind = "handBack" -> [claim[h] EXCEPT !.handBack = TRUE]
      [] OTHER -> claim[h]

\* endRun drops its pin and handBack sets its flag in the same operation.
Updated(h) ==
    CASE Waiting(h).kind = "endRun" ->
            [claim[h] EXCEPT !.pins = IF @ > 0 THEN @ - 1 ELSE @]
      [] Waiting(h).kind = "handBack" -> [claim[h] EXCEPT !.handBack = TRUE]
      [] OTHER -> claim[h]

\* Mutant: the retry is not remembered.
MutForgetWithoutRetry(h) ==
    /\ owned' = [owned EXCEPT ![h] = None]
    /\ claim' = [claim EXCEPT ![h] = NoClaim]
    /\ UNCHANGED pendingRelease

\* Local ownership ends before the record does.
Forget(h) ==
    /\ pendingRelease' = [pendingRelease EXCEPT ![h] = owned[h]]
    /\ owned' = [owned EXCEPT ![h] = None]
    /\ claim' = [claim EXCEPT ![h] = NoClaim]

Drop(h, c, kind) ==
    /\ Forget(h)
    /\ op' = [op EXCEPT ![h] = ReleaseOp(c, kind, owned[h])]

ReleaseUnowned(h) ==
    /\ Begin(h, ReleaseKinds)
    /\ owned[h] = None
    /\ IF pendingRelease[h] = None \/ Waiting(h).kind = "handBack"
       THEN Settle(h, Waiting(h).call, "idle")
       ELSE /\ op' = [op EXCEPT ![h] =
                  ReleaseOp(Waiting(h).call, Waiting(h).kind,
                            pendingRelease[h])]
            /\ UNCHANGED call
    /\ UNCHANGED <<alive, files, memory, closed>>

KeepPinned(h) ==
    /\ Begin(h, ReleaseKinds)
    /\ owned[h] # None
    /\ Updated(h).pins > 0
    /\ claim' = [claim EXCEPT ![h] = Updated(h)]
    /\ Settle(h, Waiting(h).call, "idle")
    /\ UNCHANGED <<alive, files, owned, pendingRelease, closed>>

\* Mutant: pending work vetoes the hand-back as well.
MutSkipsProbe(h) == FALSE

SkipsProbe(h) == Updated(h).handBack

ReleaseHandedBack(h) ==
    /\ Begin(h, ReleaseKinds)
    /\ owned[h] # None
    /\ Updated(h).pins = 0
    /\ SkipsProbe(h)
    /\ Drop(h, Waiting(h).call, Waiting(h).kind)
    /\ UNCHANGED <<alive, files, closed, call>>

StartProbe(h) ==
    /\ Begin(h, ReleaseKinds)
    /\ owned[h] # None
    /\ Updated(h).pins = 0
    /\ ~SkipsProbe(h)
    /\ claim' = [claim EXCEPT ![h] = Updated(h)]
    /\ op' = [op EXCEPT ![h] = [FreeOp EXCEPT !.pc = "probe",
                                   !.call = Waiting(h).call,
                                   !.kind = Waiting(h).kind]]
    /\ UNCHANGED <<alive, files, owned, pendingRelease, closed, call>>

\* Commits of any Host open and settle work at any time, so the probe may
\* answer either way; one that fails counts as pending work.
Probe(h) ==
    /\ At(h, "probe")
    /\ \E answer \in BOOLEAN :
          op' = [op EXCEPT ![h].pc = "judge", ![h].work = answer]
    /\ UNCHANGED <<alive, files, memory, closed, chain, call>>

\* Mutant: only tryClaimEligible() counts as a claim of the caller.
MutClaimedByCaller(h) == op[h].kind = "return"

\* releaseIfIdleLocked(conversationId, claimedByCaller)
ClaimedByCaller(h) == \/ op[h].kind = "return"
                      \/ op[h].kind = "endRun" /\ claim[h].commandClaim

Keeps(h, answer) ==
    /\ op[h].work
    /\ \/ answer = "eligible"
       \/ answer = "unknown" /\ ~ClaimedByCaller(h)

Judge(h) ==
    /\ At(h, "judge")
    /\ \E answer \in Answers[h] :
          IF Keeps(h, answer)
          THEN Settle(h, op[h].call, "idle") /\ UNCHANGED memory
          ELSE Drop(h, op[h].call, op[h].kind) /\ UNCHANGED call
    /\ UNCHANGED <<alive, files, closed, chain>>

---------------------------------------------------------------------------
(* releaseClaimRecord(), under releasePendingRecord() *)

\* The record is gone or is somebody else's: the cleanup is over.  A claim
\* goes on to acquire, every other operation settles.
Released(h) ==
    /\ pendingRelease' = [pendingRelease EXCEPT ![h] = None]
    /\ IF op[h].kind \in ClaimKinds /\ ~closed[h]
       THEN Acquire(h, op[h].call, op[h].kind) /\ UNCHANGED call
       ELSE Settle(h, op[h].call, "idle")
    /\ UNCHANGED <<owned, claim>>

ReleaseRead(h) ==
    /\ At(h, "relRead")
    /\ IF record = op[h].token
       THEN Goto(h, "relRename") /\ UNCHANGED <<memory, call>>
       ELSE Released(h)
    /\ UNCHANGED <<alive, files, closed, chain>>

\* The rename takes whatever is at the canonical path by now.
ReleaseRename(h) ==
    /\ At(h, "relRename")
    /\ record' = None
    /\ Released(h)
    /\ UNCHANGED <<alive, tombstone, closed, chain>>

\* Any file operation may fail: the operation rejects, what was dropped
\* stays in pendingReleases for the next one.
IOError(h) ==
    /\ Faults
    /\ h \in alive
    /\ op[h].pc \notin {"free", "classify", "probe", "judge"}
    /\ Settle(h, op[h].call, "idle")
    /\ UNCHANGED <<alive, files, memory, closed, chain>>

---------------------------------------------------------------------------
ChainStep(h) ==
    \/ Refuse(h) \/ ClaimOwned(h) \/ ClaimAnew(h) \/ AcceptClaim(h)
    \/ ReleaseUnowned(h) \/ KeepPinned(h) \/ ReleaseHandedBack(h)
    \/ StartProbe(h) \/ Probe(h) \/ Judge(h)

FileStep(h) ==
    \/ Stat(h) \/ PublishWon(h) \/ PublishLost(h) \/ Read(h)
    \/ Busy(h) \/ ProvenDead(h) \/ IsolateRead(h) \/ IsolateRename(h)
    \/ ReleaseRead(h) \/ ReleaseRename(h)

CallerStep(h, c) ==
    \/ BeginRun(h, c) \/ EndBody(h, c) \/ BeginExecute(h, c)
    \/ Recheck(h, c) \/ KeepFirstCheck(h, c)
    \/ BeginRelease(h, c) \/ BeginHandBack(h, c)

HostStep(h) ==
    \/ ChainStep(h) \/ FileStep(h) \/ IOError(h)
    \/ Close(h) \/ CloseRelease(h)
    \/ Crash(h)
    \/ \E c \in Calls : CallerStep(h, c)

Next == \E h \in Hosts : HostStep(h)

Spec == Init /\ [][Next]_vars

\* The event loop runs what is queued and every file call returns; a command
\* body ends (the worker answers or fails it); background passes come back
\* to a Conversation whose work waits, so that a process inspection which is
\* possible again and again is made and gives its answer.
Fairness ==
    \A h \in Hosts :
        /\ WF_vars(ChainStep(h))
        /\ WF_vars(FileStep(h))
        /\ WF_vars(CloseRelease(h))
        /\ SF_vars(ProvenDead(h))
        /\ \A c \in Calls : /\ WF_vars(EndBody(h, c))
                             /\ WF_vars(Recheck(h, c))
                             /\ WF_vars(KeepFirstCheck(h, c))

FairSpec == Spec /\ Fairness

---------------------------------------------------------------------------
(* Correctness *)

\* Whoever believes it owns the Conversation has its own record at the
\* canonical path, whatever contenders with stale reads are doing to it; so
\* two Hosts never own it together (the `owned` map gates every fenced write).
OwnerHoldsRecord == \A h \in Hosts : owned[h] # None => record = owned[h]

\* isolateDeadClaimRecord: the rename never moves a record other than the one
\* that was observed dead ("impossible while every writer follows this
\* protocol", the check after the rename).
TombstonesExact == \A t \in Tokens : tombstone[t] \in {None, t}

\* A live Host never forgets a record it published: whatever failed, closed
\* or raced, the record is owned or queued for cleanup, else it would block
\* the Conversation for every other Host until the process ends.
NoOrphanRecord ==
    \A h \in alive : record # None /\ HostOf(record) = h
        => record \in {owned[h], pendingRelease[h]}

\* run(): nested or overlapping runs, releases, hand-backs and sweeps never
\* end ownership while a command body runs; only close() does.
RunBodyIsOwned ==
    \A h \in Hosts, c \in Calls :
        call[h][c] = "body" /\ owned[h] = None => closed[h]

\* The record of a live Host disappears only after that Host dropped local
\* ownership, and through its own exact-token release.
LocalDropComesFirst ==
    [][\A h \in alive : record # None /\ HostOf(record) = h /\ record' # record
          => /\ owned[h] = None
             /\ pendingRelease[h] = record
             /\ op[h].pc = "relRename"]_vars

AcquirePcs == {"stat", "publish", "read", "classify", "isoRead", "isoRename"}
ReleasePcs == {"relRead", "relRename"}

DeadHostsHoldNothing ==
    \A h \in Hosts \ alive : /\ owned[h] = None
                             /\ pendingRelease[h] = None
                             /\ op[h].pc = "free"

OwnershipIsExclusive ==
    \A h \in Hosts : owned[h] # None => /\ record = owned[h]
                                        /\ HostOf(owned[h]) = h
                                        /\ pendingRelease[h] = None

CleanupIsOwn ==
    \A h \in Hosts : pendingRelease[h] # None => HostOf(pendingRelease[h]) = h

AcquiringIsClean ==
    \A h \in Hosts : op[h].pc \in AcquirePcs => /\ op[h].token # None
                                                /\ HostOf(op[h].token) = h
                                                /\ owned[h] = None
                                                /\ pendingRelease[h] = None

ProbingIsOwned ==
    \A h \in Hosts : op[h].pc \in {"probe", "judge"} => owned[h] # None

ReleasingIsExact ==
    \A h \in Hosts : op[h].pc \in ReleasePcs =>
        /\ op[h].token # None
        /\ pendingRelease[h] = op[h].token
        /\ owned[h] = None
        /\ op[h].pc = "relRename" => record = op[h].token

\* A contender about to rename either still looks at the dead record it read
\* or will collide with the tombstone another contender left.
IsolationIsExact ==
    \A h \in Hosts :
        /\ op[h].pc \in {"classify", "isoRead", "isoRename"}
              => op[h].seen # None
        /\ op[h].pc \in {"isoRead", "isoRename"}
              => HostOf(op[h].seen) \notin alive
        /\ op[h].pc = "isoRename"
              => record = op[h].seen \/ tombstone[op[h].seen] # None

TombstonesAreDead ==
    \A t \in Tokens : tombstone[t] # None => /\ tombstone[t] = t
                                            /\ HostOf(t) \notin alive
                                            /\ record # t

\* The inductive invariant behind the properties above: which record a Host
\* may be looking at in the middle of each operation.
IInv == /\ TypeOK
        /\ DeadHostsHoldNothing
        /\ OwnershipIsExclusive
        /\ CleanupIsOwn
        /\ AcquiringIsClean
        /\ ProbingIsOwned
        /\ ReleasingIsExact
        /\ IsolationIsExact
        /\ TombstonesAreDead
        /\ NoOrphanRecord

\* No caller, queued operation or running operation of the manager is left.
Quiet(h) == /\ op[h].pc = "free"
            /\ chain[h] = <<>>
            /\ \A c \in Calls : call[h][c] = "idle"

\* run(): on a Host that never serves the Conversation pending work never
\* keeps a command's claim, whichever of several overlapping commands ends last.
CommandsHandBack ==
    \A h \in Hosts :
        "eligible" \notin Answers[h] /\ Quiet(h) /\ ~closed[h]
            => owned[h] = None

\* What a caller waits for while its operation of a kind is queued or runs.
WaitsAs(kind) == CASE kind = "claimRun"  -> {"run"}
                   [] kind = "endRun"    -> {"end"}
                   [] kind = "claimExec" -> {"exec", "execOwned"}
                   [] OTHER              -> {kind}

CallersWait ==
    \A h \in Hosts : \A i \in DOMAIN chain[h] :
        call[h][chain[h][i].call] \in WaitsAs(chain[h][i].kind)

\* A caller has one operation in the chain at a time.
CallersWaitOnce ==
    \A h \in Hosts : \A i, j \in DOMAIN chain[h] :
        i # j => chain[h][i].call # chain[h][j].call

RunningWaits ==
    \A h \in Hosts : op[h].call # None =>
        /\ op[h].pc # "free"
        /\ call[h][op[h].call] \in WaitsAs(op[h].kind)
        /\ \A i \in DOMAIN chain[h] : chain[h][i].call # op[h].call

\* Only close() releases without a caller.
RunningFits ==
    \A h \in Hosts :
        /\ op[h].pc # "free" /\ ~closed[h] => op[h].call # None
        /\ op[h].pc \in AcquirePcs => op[h].kind \in ClaimKinds
        /\ op[h].pc \in {"probe", "judge"} => op[h].kind \in ReleaseKinds

\* The commands whose pin is set: endRun takes it off when it begins.
Pinning(h) ==
    {c \in Calls : call[h][c] = "body" \/ (call[h][c] = "end" /\ op[h].call # c)}

PinsCounted ==
    \A h \in Hosts : ~closed[h] => /\ IsFiniteSet(Pinning(h))
                                   /\ claim[h].pins = Cardinality(Pinning(h))

PinsAreOwned ==
    \A h \in Hosts : /\ owned[h] = None => claim[h].pins = 0
                     /\ op[h].pc \in {"probe", "judge"} => claim[h].pins = 0

\* A Host that never serves the Conversation is in nothing but commands, and
\* its claim lasts no longer than they do.
CommandsOnly ==
    \A h \in Hosts : "eligible" \notin Answers[h] =>
        /\ \A c \in Calls : call[h][c] \in {"idle", "run", "body", "end",
                                            "release", "handBack"}
        /\ ~closed[h] /\ owned[h] # None =>
               /\ claim[h].commandClaim
               /\ claim[h].pins = 0 => /\ op[h].pc \in {"probe", "judge"}
                                       /\ op[h].kind = "endRun"

\* The inductive invariant of the callers: which of them the chain still
\* serves, and that a claim's pins are the commands they belong to.
CallsInv == /\ CallersWait
            /\ CallersWaitOnce
            /\ RunningWaits
            /\ RunningFits
            /\ PinsCounted
            /\ PinsAreOwned
            /\ CommandsOnly

\* Only a command pins a claim that is to be handed back.
HandBackPinned == \A h \in Hosts : claim[h].handBack => claim[h].pins > 0

\* handBack(): one that comes while commands pin the claim stands for as long
\* as one of them runs and gives the claim back with the last, however they
\* overlap and whatever pending work says; only an execution claim that is
\* accepted meanwhile takes it off.
HandBackStands ==
    [][\A h \in Hosts : claim[h].handBack =>
          \/ claim'[h].handBack /\ (closed'[h] \/ Pinning(h)' # {})
          \/ owned'[h] = None
          \/ \E c \in Calls : call[h][c] = "accept" /\ call'[h][c] = "idle"]_vars

\* The record of a dead process does not outlive it while some Host that
\* serves the Conversation keeps trying to execute it.
DeadOwnerIsReplaced ==
    \A h \in Hosts :
        /\ <>[](h \in alive /\ ~closed[h])
        /\ []<>(op[h].pc \in {"stat", "read"})
        => []<>(record = None \/ HostOf(record) \in alive)

\* close(): nothing of a closed Host stays at the canonical path while its
\* process lives on.
CloseFreesRecord ==
    \A h \in Hosts :
        closed[h] ~> (record = None \/ HostOf(record) # h \/ h \notin alive)

\* The managers and their files implement the lock.
Lock == INSTANCE OwnerLock WITH
            holder  <- IF record = None THEN None ELSE HostOf(record),
            serving <- {h \in Hosts : owned[h] # None}

ImplementsLock == Lock!Spec
=============================================================================
