# Verification of the reliable kernel

The repository is a VS Code extension for conversations with language models. Its core is the
*reliable kernel* (`src/backend/reliableKernel`, `src/backend/application/reliableKernel`): every
fact of a Conversation is a row of a SQLite data root, several extension hosts may share that root,
and each of them may die at any moment. The specifications here model how the kernel keeps
Conversations, Turns, the input queue, tool effects, runtime deliveries and model requests
consistent, and what a panel shows of them current, while that happens. They are translated from the
TypeScript source; `PROJECT.json` names the lines each definition stands for.

The sections: the system and its parts; the plan; the modules and how they follow the code; what the
runs check and within which bounds; what is assumed to be fair; what is proved; what is not modelled.

## 1. The system

### Parts

| Part | State | Operations | Meets the others through |
|---|---|---|---|
| Conversation ownership (`ConversationRuntimeOwnerManager`, `runtimeClaimPrimitives`) | a record directory per Conversation; in memory: owned entries with pins, pending releases, a chain of calls | run, tryClaimEligible, releaseIfIdle, handBack, sweepIdle, close | the record on disk; `owns()` is the local fence of every write |
| Execution lease (`turnControlPlane` 928-1500, `executionLeaseRenewal`, `executionLeaseFence`) | one `ExecutionLease` row per active Turn: holder, generation, expiry; recovery receipts | claim, renew, hand back, finalize, fence | needs the Conversation owner; its generation is asserted in the worker's transactions |
| Input queue (`turnControlPlane`, `turnGuidanceQueue`, `ReliableConversationRunner`) | `TurnIntent` and `TurnIntentRevision` rows, `CommandReceipt`s, `Turn`s; in memory: one admission slot and one drive slot | input, continuation, retry; edit, hold, cancel, reorder; admitNextQueued; recordTerminal; recoverStartup | wakes between commands, slot and drives; the lease row |
| Agent loop (`agentLoop`) | rounds of a Turn, rebuilt from rows | drive, absorb deliveries, hand off, terminate | reads stop requests and the queue, commits terminals |
| Database worker (`runtimeDatabase`, `databaseWorker`, `databaseWorkerRequestQueue`) | SQLite, a request queue | transactions of assertions and writes; fences | serves every other part |
| Runtime deliveries and answers (`processCompletionDelivery`, `automaticRuntimeDelivery`, `answerDelivery`) | outbox of ended processes, inbox, deliveries with a phase and a target Turn, wake outbox, final-output fences | claim, decide, create, wake, inject, retarget, notify, continue, acknowledge | start Turns or add inputs to the active one |
| Effects, files, MCP (`effectControlPlane`, `mcpEffects`, `phaseDRecovery`) | effect intents with a dispatch fence, operations, receipts | prepare, claim, record, reconcile, cancel, recover | tool calls of a Turn; an external tool |
| Processes | process rows, a protocol of files with a wrapper | start, stop, observe, complete | effects, deliveries |
| Model requests (`modelProviderControlPlane`, provider adapter) | request, attempt and checkpoint rows, stream statistics with the socket generation; in memory: registered transports, display closures, running cancellations | dispatch, open, record events, retry, finalize, fail, cancel, quiesce | agent loop, Context; the fence of the lease |
| Tools and interactions (`toolDispatcher`) | tool calls, approvals, waits; in memory: executions with their AbortControllers | admit, register, dispatch, abort, settle | agent loop, effects, children |
| Child executions | executions, links, subtrees | spawn, continue, interrupt, answer | queue (child Turns), deliveries |
| Context and compression | a head, segments, roots | append, compress, repair | every Turn that starts or ends |
| Client feed (`clientFeed`, `webviewFeedBridge`, `externalClientCommits`, the panel's store) | sessions with a frame in flight, a bounded queue and a pending snapshot; a client per panel with its generation; notices of the commits of other Hosts; records of the panel | connect, snapshot, increment, acknowledge, poll, resend, pause, recover; accept, refuse | commit messages and reads of the worker; `postMessage` |
| Conversation lifecycle, host control, content store, recovery phases, data roots and merges | see `PROJECT.json` | | |

### What is hard

* **Several Hosts.** Ownership is decided by renames of directories; every read is old when it is
  used, and tombstones of the dead are made by competing Hosts.
* **Crashes.** Nothing in memory survives: wakes, slots and pins are rebuilt from rows. Commands
  are repeated afterwards, and must not have effect twice.
* **Reads before a fenced transaction.** A command reads rows, one await after the other, and then
  commits assertions and writes atomically. What it did not assert may have changed.
* **Time.** A lease expires while its holder lives; a timer may race the answer it waits for.
* **Effects outside.** A tool may have run although nobody has recorded it, and may never answer.
  A Host that takes over must neither repeat the call nor guess while its caller lives.
* **Frames.** A panel may be slow, hidden or gone; snapshots are read while commits go on, and a frame
  is sent again when its acknowledgement is late.
* **Wakes.** The slots work from level-triggered wakes; one wake too few and a queue stands still.

The hazards, each at its line and with the properties that would catch it, are in `PROJECT.json`;
those without a property say why.

### What makes each part correct

* Ownership: one Host at a time, never displaced while it lives; nothing left behind when a claim,
  a body or a release fails; a dead owner is replaced.
* Lease: one executor at a time; a live one is not displaced by elapsed time; late writes of an
  earlier executor have no effect; a Turn without a live executor gets one.
* Queue: a command has effect once; one Turn at a time; served in order, except what is paused;
  a Turn gets the text last committed; nothing accepted by a Turn is left when it ends; no wake lost.
* Deliveries: every end of a process reaches the Conversation once, as input of one Turn or as a
  notice, also across crashes; it opens at most one Turn, which has something to do.
* Model requests: ended once, and as cancelled only by a Stop; no transport runs on for a request that
  has ended or on a Host that ends; what the user has seen stays; a request is resumed and ends.
* Effects: dispatched at most once, reconciled with what happened outside; what is reported as
  cancelled did not run; a stop reaches every execution, and ends the Turn.
* Context: one head, whose appends and compressions never lose an item.
* Feed: a panel never shows an older version of a row than before, gets no gap, and ends up with all
  that was committed; no session is left over.

## 2. Plan

In the order of importance; 1 to 6 and 10 are done.

1. `ConversationOwnership` implements `OwnerLock`. Proved.
2. `ExecutionLease`, on top of the steps of `OwnerLock`. Proved.
3. `TurnQueue` implements `ConversationQueue`. Proved.
4. `ToolEffects`: intent, claim, receipt, reconciliation, stop and recovery. Proved.
5. `RuntimeDelivery`: outbox, inbox, delivery, wake, continuation. Proved.
6. `ModelRequest`: dispatch, retries, cancellation, reconnection. Proved.
7. `TurnQueue`, extended: rewinding edits, retries and deletions, the cancellation of guidance by a
   deletion, local-error backoffs.
8. `ChildExecution`, composed from 3 to 5: interrupts of subtrees, waits, answers.
9. `ContextHead`: appends, compressions, repair against a moving head.
10. `ClientFeed`: snapshots and increments from several Hosts, up to the store of a panel. Proved.
11. The safety core of `CatchesUp`: an open session that has nothing queued, on the wire, being read or still
    to be noticed shows exactly the committed rows. It needs, for every row, who still carries it (queue,
    hand-over, answer, frame in flight) or which read is still owed, and that coalescing a queue loses no row.

"Proved" is said of all safety and action properties of the module; what stays with TLC is in section 6.

Every module is written with its bounds as constants and without recursive operators, so that its
invariants can be proved for all values.

## 3. The modules

### ConversationOwnership (and OwnerLock)

One Conversation, several Hosts; a Host is one process and never returns once dead. A file-system
call is one step; so is the synchronous code between two awaits.

* `record` is the directory at the canonical path, `tombstone[t]` what was renamed to the name for
  the dead token `t`. `Stat`, `PublishWon`, `PublishLost`, `Read`, `IsolateRead`, `IsolateRename`,
  `ReleaseRead` and `ReleaseRename` are the calls of `runtimeClaimPrimitives.ts`.
* `owned`, `claim`, `pendingRelease`, `chain` and `op` are the fields of the manager of a Host;
  `call` is how far each caller of `run`, `tryClaimEligible`, `releaseIfIdle` and `handBack` is.
* `Answers` is what the eligibility probe of each Host may say, `Faults` whether file operations
  fail.
* `DefinitelyDead` is external in effect (the operating system): a process is taken for dead only
  when it is.

`OwnerLock` says what this amounts to: one Host holds the Conversation, executes only while it does,
and loses it only by its own release or after its death.

### ExecutionLease

One active Turn; above it the lock (`Own`, `FreeRecord`, crashes: steps of `OwnerLock`). `lease` is
the row, `receipts` the recovery receipts with their generation, `op` a claim or hand-back between
its reads and its commit, `work` and `fence` an activity that has captured a fence. `Write` and
`WriteRejected` are the fenced transactions: the local check when the write is submitted, the assertion
of the row when the worker runs it. What is written is not kept, only by whom and in which generation.

### TurnQueue (and ConversationQueue)

The queue of one Conversation at the Host that serves it. That one Host serves it is the subject of
`ConversationOwnership`; of the lease, only the Turn that holds it is kept.

| Code | Module |
|---|---|
| `startIntentPrepared`, `commitWithReceipt`, `startIntent` | `StartBegin` (receipt, refusal or plan), `StartLook` (is the queue empty), `StartCommit`, `StartRaced`, `StartRejected` (plan again, at most `MaxRetries` times), `StartWake` |
| `editGuidance`, `setGuidanceHold`, `cancelGuidance`, `reorderGuidance` | `ControlRead`, `ReorderRead`, `ControlCommit` (fence of revisions, for a reorder of the queue), `ControlConflict`, `ControlWake` |
| `runAdmissionSlot`, `admitNextQueued`, `admitQueuedIntents` | `AdmitLook`, `AdmitList`, `AdmitRead` (one per intent), `AdmitCommit` (`Members`: the prefix), `AdmitNull`, `AdmitFinish` |
| `drive` and its ends, `recordTerminal`, `runDriveSlot` | `Absorb`, `EndInterrupted`, `EndOwn`, `EndHandoff`, `EndCommit`, `EndConflict`, `DriveEnded` |
| `requestInterrupt`, deliveries to the active Turn | `Interrupt`, `DeliveryArrives` |
| `recoverStartup` | `RecoverTurn` (reads the active Turn), `RecoverQueue` (then the queue) |

Abstractions, beside the part left out (section 7):

* A command is a number, the order of ids; `KindOf` and `GroupOf` say what it is and with which
  others its frozen settings are compatible. Texts are revision numbers, positions are numbers: the
  time of acceptance, or 1, 2, ... after a reorder, as in `reorderedGuidancePosition`.
* A Turn is named by the command that is first in it.
* A control whose expected revision is no longer the current one changes nothing and is not a step.
  Requests to interrupt that coalesce with an earlier one are none either.
* `EndHandoff` reads stop requests and queue in one step; both are looked at again in the commit.
* A reorder moves one input to the front and keeps the rest; which permutation it is makes no
  difference to the fences.
* The drive of an admitted Turn is not scheduled by a step of its own: a Turn with the lease is driven
  while the Host is up.

`ConversationQueue` promises that a command is accepted once, waits, and is taken by one Turn or
withdrawn, that one Turn runs at a time, and that it takes commands only when it starts.

### ToolEffects

The tool calls of one Turn on several Hosts; of the lease only who holds it, in which generation.
The external tool is an MCP server: it may be called, answers, or never does.

| Code | Module |
|---|---|
| `dispatchInternal`, `beginActiveExecution` | `BeginCall` (what is settled or stopped is not taken up), `Register`, `AbortIfStopped` (the second look) |
| `McpEffectDispatcher.prepare`, `dispatch`, `claimEffectDispatch` | `Prepare`, `DispatchAborted`, `ClaimRead`, `ClaimCommit`, `ClaimLost` |
| `executeDispatched`, `recordEffectReceipt`, `reconcileEffectReceipt` | `CallTool`, `Answered` (the tool's), `GaveUp`, `RecordReceipt`, `Reconcile`; `FinalizeNext` makes outcomes in the order of the calls |
| `requestInterrupt`, `cancelActive`, `terminateIfRequested`, `closeTerminalToolContext` | `RequestStop`, `CancelActive`, `CloseRead`, `CloseCommit`, `EndTurn` |
| `phaseDRecovery`: receipts | `ResumeReceipt` |
| `runAll` at startup, in `conversationTakeover`, and at a stop (`recoverDeadHostEffectsByInspection`) | `RecoverUnheld`, `RecoverStopped`: the effects that are dispatched by then go into `recovering` |
| `scanHangingEffects`, `recoverHangingEffectIntent` | `FindHanging` (each of `recovering` once: given up, or passed over for good if its dispatcher lives), `RecordUnknown` |
| lease hand-over, deaths | `HandBack`, `TakeOver`, `HostDies` |

Abstractions:

* An attempt and its operation are one; contents of results are their status.
* A Host owns the Conversation while it has the lease (`ConversationOwnership`, `ExecutionLease` say why).
* A recovery may come before the takeover of the Turn or not at all, since a Host that has waited for the
  holder (`deferredRecovery`) takes the Turn over without it. None looks at what a later death leaves.
* `settleDeadHostExecution`, by which a repeated stop also ends a Turn at once, is a recovery, a takeover and the
  end of the Turn. That a Host which drives the Turn itself (`active`) passes the stop to its drive is
  left out.

### RuntimeDelivery

Background processes of one Conversation, by the receipt of their end. `rows[r]` joins the rows that
exist once per receipt: `ProcessCompletionDispatch`, inbox item, delivery, wake, `PendingTurnInput`
and the intent of its continuation. `reached` counts the Context segments and notices.

| Code | Module |
|---|---|
| `scanOnce`, `claimOutbox`, `reconcileDispatch` | `FenceClaim`, `ClaimDispatch`, `EnsureInbox`, `FindDelivery`, `CreateDelivery`, `EnsureWake`, `CompleteDispatch`, `DispatchFails`, `RecoverWake` |
| `AutomaticRuntimeDeliveryRouter.resolve` | `Decision` (what it reads), `Authority` (what the transaction asserts of that) |
| `dispatchWake`, `invokeWakeHandler`, `failClaim` | `ClaimWake`, `DecideWake`, `ApplyDecision`, `DecisionLost`, `Act`, `Notify`, `Resume`, `PrepareContinuation`, `Continue`, `ContinueFails`, `AcknowledgeWake`; `WakeTimesOut`, after which `LateNotify`, `LatePrepare` and `LateContinue` are what the handler still does |
| `prepareNextTurnDeliverySteps`, `admitQueuedIntents`, `cancelSupersededContinuation` | `Prepared` (read), `MayOpen`, `StartHolds` (asserted), `OpensTurn`; `PrepareInput`, `PrepareQueued`, `CommitAdmission`, `CancelSuperseded` |
| `absorbRuntimeDeliveryInputs`, `advance` | `ReadDeliveries`, `Advance`, `ReadInputs`, `AppendInput`, `Absorbed` |
| `establishFinalOutputFence`, `recordTerminal`, `failActiveTurn` | `FinalOutput`, `CompleteTurn`, `Leave`, `EndTurnEarly`, `Passed` (routed deliveries go on to the next Turn) |

Abstractions:

* A transaction that asserts all it has read is one step with its reading. Where less is asserted, the
  two are apart: a decision and its authority, what a new Turn takes in and its commit.
* Only claims of dead Hosts expire. A live Host whose claim would run out is the handler that times
  out: the wake has failed, and its handler goes on beside the next attempt.
* Failed and interrupted Turns are both "stopped". A decision for the source Turn does not depend
  on which, as no child answer is among the receipts.
* The repetitions inside one call (`WAKE_RECONCILE_ATTEMPTS`, `FINAL_FENCE_ATTEMPTS`) have no bound.
* The user's input comes when nothing is queued; what happens to a queue is `TurnQueue`.
* `Room` bounds the Turns: the user starts none that an end of a process may still need.

### ModelRequest

One model request of an active Turn on several Hosts. `request` joins the rows of request, operation,
attempt and terminal fence; an identity is the pair of attempt and socket generation that
`stream_stats_json` carries. `dispatch[h]` is the dispatch loop of a Host with its transport, `cancel[h]`
its entry in `requestCancellations`, `sent` what has passed its last check of authority
(`beforeSubmit`) and may reach the database after its transport, timer or Host has given up.

| Code | Module |
|---|---|
| `claimRecoveryExecution`, `releaseExecutionLease`, `startLeaseRenewal`, shutdown | `Claim` (`Taken`), `HandBack`, `LeaseLapses`, `QuiesceTurn`, `QuiesceAll`, `HostExits`, `HostDies` |
| `dispatchAndCapture`, `dispatchRequest` | `Reconnect`, `BeginDispatch`, `DelayEnds`, `PreparationFails`, `OpenSocket`, `RegisterActiveSocket`, `AdapterResolves`, `TransportFails` (failure or deadline), `HandsOver` |
| provider adapter, `onEvent`, `commitModelStreamEvent` | `Delta`, `Done`, `Aborted` (what an abort freezes), `SubmitCompleted`, `CommitCompleted` |
| `finalizeFailedPartialOutput`, `failRequest`, `createTransientRetry` | `FinalizePartialOutput`, `FinalizationTimesOut`, `CommitLatePartial`, `FailRequest`, `CreateTransientRetry` |
| `cancelLocalExecution`, `cancel`, `cancelCurrentRequest(Once)`, `finishCancelledDispatch` | `StartCancel`, `DispatchCancelled` (joins), `CloseCancelledPartial`, `ClosureTimesOut`, `CommitCancel`, `AbortAfterCancel`, `CancelFails`, `CancelReturns` |

Abstractions:

* A write that the loop awaits is one step with its transaction. What passes nobody's wait is in `sent`,
  and takes effect at any later moment, also behind writes that the worker's queue would put after it.
* Output is whether there is any; a delta that is recorded as a checkpoint of its own is not kept.
* Which failures are retried is a choice, as is whether the delay of a retry has passed.
* A Host owns the Conversation while it has the lease. A second runner of the same Host that takes over
  an expired lease of the first is in `ExecutionLease` (`GenerationHasOneHolder`), not here.

### ClientFeed

One panel, opened with one Conversation. `db` are the rows in its scope, by the number of times they were
written; `mail` is the one channel of the worker to the extension host's thread, in the order of what
it has done; `sess` are the sessions of the feed, one per connection; `gen`, `ready`, `view`, `conn`, `rec` and
`post` are the bridge's client; `page` is the store of the panel.

| Code | Module |
|---|---|
| worker transactions and projections, `onMessage` | `CommitLocal`, `CommitExternal`, `WorkerReads`, `WorkerFails`, `TakeCommit`, `TakeAnswer` |
| `ReliableKernelClientFeed.connect`, `onCommit`, `enqueueCommit`, `compactPendingQueue`, `enterSnapshotRequired`, `refreshSnapshot`, `acknowledge`, `closeFailedSession` | `Connect`, `Opened`, `Observe`, `Enqueue`, `Compacted`, `Queued`, `Require`, `RefreshReturns`, `HandOver`, `RefreshFails`, `RefreshForgotten`, `TakeAck` |
| `ensureExternalCommitPolling`, `pollExternalCommits`, `ExternalClientCommitNotices` | `BaselineVersion`, `BaselinePeers`, `PollVersion`, `PollPeers` |
| `WebviewFeedBridge`: `connect`, `waitForConnectRecovery`, `reconnectClient`, `pauseClient`, `setVisible`, `detach`, `scheduleRecovery` | `ConnectReturns`, `ConnectSuperseded`, `ConnectFails`, `RetryConnect`, `Reconnect`, `Pause`, `Hide`, `Reveal`, `Detach`, `RecoveryTimer`; `PanelReady` and `Resync` are the router's |
| `post`, `armDataPostAckTimer`, `retryOrSuspendDataPost`, `handleControl` | `Post`, `AckTimesOut`, `AckIsLate`, `TakeAck`, `TakeRequest`, `TakeIgnored` |
| `observeData`, `applyReliableKernelDataMessage` | `DropFrame`, `AcceptFrame`, `RefuseFrame` |

Abstractions:

* The continuation of an await is a step of its own, some time after what it awaited.
* Rows are numbers, a batch is a function from rows to them, sizes are the number of rows. A commit
  outside the scope has no rows; one that changes what the scope is (`requiresSnapshot`) is "structural".
* A Host that is asked for its notices awaits its own worker first (`externalClientCommits.ts`, `start`), so its
  answer has the notices of all commits before the question: asking is one step. That it is not reached,
  has thrown notices away or has changed its membership are one case, in which every session is refreshed.
* A snapshot read that two sessions share is one per session: as the worker answers in order, a later
  reader sees no less than it would have seen of the shared one after its own handoff.
* `LoseFrame` is a frame that the panel never gets, or that `postMessage` rejects; what the panel posts
  arrives in order. `Reload` takes what was on its way with it.

## 4. The runs

Every run is exhaustive within its bounds. Deadlock is not checked where a bound of the model (the
clock, revisions, crashes, Turns, or Hosts that are all dead) or the end of a Turn lets it end;
`QueueEnds` checks it.

| Run | Asks | Instance |
|---|---|---|
| `OwnershipCalls` | Do racing Hosts displace a live owner, do overlapping calls and failing files orphan a record or end a body's ownership, does a Host that never serves the Conversation keep it after its commands, and does a hand-back get lost among them? (`OwnerHoldsRecord`, `NoOrphanRecord`, `RunBodyIsOwned`, `CommandsHandBack`, `HandBackStands`, `ImplementsLock`) | 2 Hosts, one of which never serves; 2 calls, 1 token, faults |
| `OwnershipLive` | Do takeovers and `close()` come to their end? (`DeadOwnerIsReplaced`, `CloseFreesRecord`) | 2 Hosts, 1 call, 2 tokens, fair |
| `LeaseHosts` | Does a live Host keep the Turn, does only the owner of the Conversation take it, and can runners of one Host share a generation or write out of order? (`LiveHostKeepsLease`, `TakenByConversationOwner`, `GenerationHasOneHolder`, `WritesNeverGoBack`) | 2 Hosts, 2 runners on one of them, 3 generations, one expiry |
| `LeaseLive` | Does every Turn get a live executor again? | 2 Hosts, 3 generations, fair |
| `QueueRaces` | Do repeated and racing starts have effect once and keep the order, and does an admission whose reads interleave with controls take the right prefix with the right text? (`QueueImplemented`, `NoOvertaking`, `LastEditIsSent`, `HandoffIsWanted`) | an input, a continuation and a retry with 2 activities; or 2 inputs and a continuation, compatible, with 1 controller, 3 revisions and 1 Turn |
| `QueueEnds` | Does a Turn end with nothing left open, does every stop request end one, and is a wake ever lost? (`NothingLeftOpen`, `InterruptTakesEffect`, `QueueDrains`) | 2 inputs, 2 arrivals, 1 crash; or 2 inputs and 1 controller with 3 revisions (`Apart` in `MCTurnQueue`); fair |
| `ToolStops` | Do dispatches, stops, hand-overs and recoveries run an effect twice, or one that is reported as cancelled, overwrite what a live Host has seen, miss an execution, or leave the Turn open? (`CancelledNeverRan`, `ObservationKept`, `StopReachesCalls`, `SettledStands`, `StopEndsTurn`) | 2 Hosts, 2 calls side by side or the second after the first with 3 generations; fair |
| `ProcessEndings` | Does an end of a process reach the Conversation twice, stay with a Turn that is over, open two Turns, or get lost? (`ReachesOnce`, `NothingLeftBehind`, `OpensOnce`, `FirstEndSettles`) | 2 processes, 2 Hosts, 3 Turns, 2 failures per outbox row; fair |
| `EmptyTurn` | *Violated*: does a continuation open a Turn only for a delivery that this Turn takes in? (`TurnHasWork`) | 1 process, 2 Hosts, 3 Turns |
| `ModelRequests` | Do completion, failure, retry, Stop, late writes and Hosts that come and go end a request twice, cancel it without a Stop, lose what a Stop froze, leave a transport running or the request open? (`EndStands`, `StopKeepsOutput`, `NoTransportOutlives`, `RequestSettles`) | 2 Hosts, 2 attempts, 2 faults (lapses, hand-backs, shutdowns, deaths); fair |
| `LostOutput` | *Violated*: does a Stop wait for the display closure of a transport that has already unregistered? (`SealedAfterDisplay`) | 1 Host, 1 attempt, no faults, a Stop during the closure |
| `ClientFeeds` | Does the feed leave a gap or repeat a commit, does a row of the panel ever go back, does the panel end up with what is committed, and does a session outlive its client? (`RefusesOnlyCopies`, `RowsNeverGoBack`, `CatchesUp`, `SupersededSessionsEnd`) | 1 panel, 2 rows, 2 Hosts; up to 3 commits and disruptions in all, of those at most 1 foreign commit and 2 disruptions; batches of 1 row, a queue of 2, 1 resend; fair |

Why the bounds are enough: an admission is disturbed by a change to an intent it has read and to one
that it has not, hence three intents; three revisions let an input be paused and resumed while an
admission reads, and `QueueEnds` has the incompatible input that ends a prefix. There controls and the other
disturbances come apart (`Apart`): a control begins when no command is under way and no stop, delivery or crash
has come, and none of those begins after it, so that controls and their wakes meet the slot, the drive and its end; only
steps without fairness are held back. A race of starts needs two activities; a start that overtakes
needs a tick between two acceptances. A lease that returns to its first Host takes three
generations. Three Hosts are needed for an isolation to bury a third one's
record: `TombstonesExact` is proved (section 6), and no run asks for it. A hand-over that comes back to a Host takes three generations of the lease, too; two calls
are one whose outcome waits for another's. Three Turns are the source of a process, one that its
end is routed into or that the user starts, and one of its own; two failures are a retry and the dead
letter. A model request needs two attempts for a retry that somebody still writes for, and two faults for a
Turn that is handed back or loses its lease and whose next Host ends as well (the instance with three
faults, 718 thousand states, holds too, and adds no case). In `ProcessEndings` the faults are split (`Small` in `MCRuntimeDelivery`): one process meets a
dead Host or failing rows, two meet each other without faults; the rows of different processes
interact only in the Turns that take them in. In `ClientFeeds`, three commits behind a frame in flight fill
and overflow a queue of two batches whose rows differ; a foreign commit and two disruptions (a reconnection, a lost or
repeated frame, a failed read, a hidden or reloaded panel) meet during a connection, a refresh or
each other; each disruption can make one new session. The one foreign commit is in the scope of the
panel; one out of it, whose poll refreshes nobody, is left to the proofs (with it the run passes, on 700 thousand states). The properties that are proved hold for every bound anyway.

Each property is also checked against a mutant (in the modules, under "Mutant"): a change of one
mapped definition as a plausible error of the code would make it. TLC finds the property violated.

### What the runs found

* `EmptyTurn`: the final output of a Turn is fenced, so the end of its process is to go to the next
  one, and its wake queues a continuation. The wake is not acknowledged (its handler times out, or the
  Host dies), and the Turn is stopped after its fence (`agentLoop.ts:915`). The wake is replayed and,
  as the source was stopped, turns the delivery into a notice; the queued intent stays. Its admission
  only asserts that the delivery is pending (`turnControlPlane.ts:1718`), and opens a Turn that has
  nothing to do. The comments there say that it opens one only while the delivery waits for it.
* Beside that, `EndSettles` states an exception: a late handler lists what waits for a Turn while its
  delivery is routed into another one, which ends and passes it back; the commit then asserts
  what is true again, and the continuation opens a Turn without its delivery. The replayed wake
  finds the command done, and the delivery waits, without a wake, for whichever Turn comes next.
* `LostOutput`: a failed transport unregisters its controller (`modelProviderControlPlane.ts:1749`) before
  its frozen output is written (:1802, :1836, :1857), outside any cancellation. A Stop in between collects
  the closures of registered controllers only (:2634), ends the request at once, and the write is
  ignored as terminal: what the user saw is not in the transcript. The comment at :2616 asks that
  a Stop which arrives while a display closure writes after the socket unregistered joins and does not seal the
  request ahead of it; it does so only for the closure of another cancellation. Likewise, a Stop
  after the provider is done and before its completed event is submitted loses the output, as the adapter freezes
  nothing any more.
* While modelling the feed, outside of what is modelled or of what a property states: a panel that has been suspended
  (`retryOrSuspendDataPost`, `webviewFeedBridge.ts:1227`) is not ready any more, so revealing it does not
  connect it, although the comment at :353 speaks of a fresh generation; it has to ask for one (`Resync`).
  A poll of an earlier session that fails while the next one connects closes that one as well
  (`clientFeed.ts:1034`) and resets the data version that it has just read.
* While modelling: `tryClaimEligible()` reads `wasOwned` before its claim is queued, so a claim that
  publishes a new record may skip the second eligibility check, which the comment at
  `ConversationRuntimeOwnerManager.ts:256` takes to be unnecessary only when nothing changed hands. The claim lasts until the
  next release or sweep. No property catches it: the folders of a window may change right after a check, so
  a skipped check looks like one that was outdated at once.
* While modelling: a Host hands the Turn back with an effect under way, another takes it over and passes the
  effect by, as its dispatcher lives, and the dispatcher dies before its receipt. No later recovery looks at
  the effect while the new Host serves, so a Turn that is then stopped waits for it until the user
  stops it again (`recoverDeadHostEffectsByInspection`). `StopEndsTurn` therefore has the premise `StopIsRepeated`; TLC finds
  it violated without.
* While modelling: a first recovery claim retains its generation by an expiry that it computed two awaits earlier; the
  assertion of the whole row keeps this harmless to other Hosts.

## 5. Fairness

* Ownership: queued calls run and file-system calls return; a body ends and a caller goes on after its
  claim; `close()` releases what it collected; and a Host that often finds the process of a record dead
  acts on it. No call has to be made.
* Lease: a claim that began ends; recovery scans are repeated (`scheduleRecovery` is periodic), so a
  Host claims a Turn that it can claim again and again, and takes a Conversation that stays free; an
  activity notices that its lease is lost. Renewals need not come.
* Queue: a command, a control and the slot go on; a drive ends (model and tools answer or fail, with
  their own timeouts) and absorbs what was delivered; a Host that is down is started again. `QueueDrains`
  and `InterruptTakesEffect` assume that it stays up from some moment on.

* Effects: an execution goes on, except that the tool need not answer; the serving Host converges
  (every commit asks for it, `runtimeApplication.ts` 344-360 and 531-640); some Host takes the Turn over; and
  a recovery that has begun passes every effect it has found. That a recovery begins is not assumed:
  the code starts one at startup, before a takeover and at a stop only. `StopIsRepeated` is a premise of
  `StopEndsTurn` about the user, and its recovery is enabled only while all that is dispatched belongs to dead Hosts.
* Model requests: a Host that may claim the Turn does (`deferExecutionRecovery`); the loop, its timers and a
  cancellation go on; a provider need not answer, as two deadlines end a transport (`TransportFails`); a Host
  that shuts down exits once its drive has ended. Faults are bounded; the user need not stop the Turn.
* Client feed: the system does not stop while it can go on (`WF_vars(System)`): promises settle, the worker
  answers, messages are read, timers fire, and the panel processes its frames. Its steps form no loop, as each
  uses up a message, a read or a timer, so weak fairness of their disjunction starves none.
  No commit has to be made, and no hidden panel to be revealed.
* Deliveries: somebody serves the Conversation; a dispatch that began goes on; the scans, repeated
  while rows are outstanding (`hasOutstandingOutboxWork`), pass every row; the loop goes on and the
  model does not ask for tools forever; the queue admits. Handlers need not time out, nor the user send.

`Absorb`, `Claims`, `Queue`, `FinalOutput` and the claims of a lease are strongly fair because they are
attempted in every round, while other steps may disable them in between.

## 6. What is proved

Every safety invariant and every action property that a run checks is also a theorem of its
specification, for any Hosts, callers, commands, kinds, groups, calls, processes, Turns, attempts, rows
and bounds; the two refinements are, too. The type invariants of all seven modules are among them
(`TypeOK` of the first three modules and `EffectTypeOK` are part of no run any more).

The only assumptions are the named `ASSUME`s of the modules: the types of the constants and of the
bounds, that `None`, `Released` and `NoHost` are none of the values beside them, that `Commands` is
finite, and that the scope of a panel has finitely many rows (`RowsAssumption`: the bounds of a batch
count them). What is external in effect is part of the specifications: a process is taken for dead only
when it is, and a transaction of the worker is atomic.

Every proof goes the same way: a conjunction of named parts holds initially and is preserved by each
step, with one lemma per action or per conjunct, and what is claimed follows from it. The properties
alone are not inductive: each speaks of a result, and what leads to it is in the reads, claims,
timers and messages that are under way. The conjunctions say what those may still rely on.

* `ConversationOwnershipProofs`, `IInv`: tokens occur in one place (record, tombstone or still unused), a Host
  that owns has its token in the record, and what an operation has read of a dead process stays dead.
  From it `OwnerHoldsRecord`, `NoOrphanRecord`, and that the managers implement `OwnerLock`; and, of
  which no run asks any more, `TombstonesExact` (isolating a dead owner never moves the record of a
  replacement) and `LocalDropComesFirst` (a live Host's record goes only after its ownership).
* `OwnershipCallsProofs`, `CallsInv`: the account of the pins by their callers. Every caller that waits is in
  the chain or the running operation exactly once and with the right kind, the pins of a claim are as
  many as the callers that hold one, whose set is finite although the callers are not bounded, and a
  Host that never serves has only command claims. From it `RunBodyIsOwned` and `CommandsHandBack`; and, with
  `HandBackPinned` (only a claim with pins remembers a hand-back), `HandBackStands`.
* `ExecutionLeaseProofs`: a claim that comes to its commit has judged something that stays true
  (`JudgmentStands`: the dead do not return, what has expired stays expired), a pinned Host serves
  (`PinnedHostsServe`), and the last write is not ahead of the lease (`WritesFollowLease`). From it
  `LiveHostKeepsLease`, `GenerationHasOneHolder`, `WritesNeverGoBack`, `TakenByConversationOwner`.
* `TurnQueueProofs`: the rows are written by four commits only (`RowStep`). The core is
  `SeenIsCurrent`: an intent that is queued with the revision the slot has read still has the position
  and the hold it has read, since every control writes a new revision (`RevisionFences`). So a
  transaction that asserts the set of the queue and all revisions, those of skipped intents too, acts
  on the queue as it is (`CommitSees`), and the prefix of what was read is the prefix of the queue
  (`MembersComeFirst`). `HandoffIsCurrent` is the same for the intent a handoff is about. `OneTurn` ties
  Turns, intents and lease together, and gives the refinement; `StopsAreOpen` gives `NothingLeftOpen`.
  From it `QueueImplemented`, `NoOvertaking`, `LastEditIsSent`, `HandoffIsWanted`, `NothingLeftOpen`, and
  `PausedStaysQueued` (a paused input stays in the queue, of which no run asks any more).
* `ToolEffectsProofs`, `EffectInv`: a dispatched effect belongs to the Host of its dispatch for ever
  (`ExecutionsOwnRows`), so every other execution of the call stops at its claim; a recovery gives up only an
  effect whose dispatcher is dead and stays dead (`HangingIsDead`); and an execution that may go on to the
  tool unaware of a stop runs in the current generation of the lease (`DrivenByLease`), so the scan of
  the one Host that has the lease reaches every call. From it `CancelledNeverRan`, `ObservationKept`,
  `StopReachesCalls` and `SettledStands`.
* `RuntimeDeliveryProofs`, `DeliveryInv`: a claim belongs to one living Host (`Working`), so what it is about to
  create is not there yet; a row counts what has reached the Conversation (`Fits`); a Turn that is over has
  nothing left (`TurnOK`), because a decision is applied under the authority of a Turn that is open. From
  it `ReachesOnce`, `NothingLeftBehind` and `OpensOnce`.
* `ModelRequestProofs`, `ModelInv`: whoever drives under the lease of the Turn drives the current identity of the
  request (`DrivesCurrent`), and identities only go forward, so an output that was frozen and saved stays that of the
  request (`SavedOK`); a transport that is not aborted runs where nobody has ended it (`OutlivesOK`).
  `SocketsCounted` charges every transport of an attempt but the first to the fault that made it necessary, which bounds
  the sockets in `ModelTypeOK`. From it `EndStands`, `StopKeepsOutput` and `NoTransportOutlives`.
* `ClientFeedProofs`, `FeedInv`: the messages of the worker come in the order of its commits (`MailFits`). Therefore
  everything a session queues, has collected during a read or has read lies, row by row, between what the panel is
  shown or sent (`Shown`) and what is still to come (`Future`), and its commit number between those the thread has
  seen and those it has not (`Between`, `ContentFits`, `WireFits`); a handed-over commit that is newer than the
  snapshot also has newer rows. The frames of a session are numbered without a gap (`NumbersFit`), since the next
  one is built only when the panel has taken the last (`AcksFit`, `FlightFits`: an acknowledgement under way, or
  `inflight` = 0, means that the panel is there and nothing older is on the wire), and a repeated frame is the one
  in flight. Only one session sends, the one the client's connection promise resolved to, because no two that live are of the client's
  generation (`GenerationsFit`). `CreditFits` charges every session to the first load or to a disruption that was
  counted, which is why `Sessions` are enough. From it `RefusesOnlyCopies` and `RowsNeverGoBack`.
  The proof is by the two ways a step can go, `Quiet` (nothing new is sent) and `Sent` (a frame is put on the wire);
  the lemmas about `Merged`, `Compacted`, `Replayed` and `HandOver` say what the queue operations make of a session.

Only model-checked, within the bounds of section 4:

* every liveness property, which needs fairness and ENABLED: `DeadOwnerIsReplaced`,
  `CloseFreesRecord`, `DeadHolderReplaced`, `QueueDrains`, `InterruptTakesEffect`, `StopEndsTurn`,
  `FirstEndSettles`, `RequestSettles`, `CatchesUp` and `SupersededSessionsEnd`;
* the two violations, which are counterexamples and nothing to prove.

## 7. What is not modelled

* In the queue: child memberships, `runtime_continuation` intents (in `RuntimeDelivery`), edits
  and deletions that rewind, the deletion of a Conversation, the hand-over of the owner claim inside
  `runOwnedAdmissionSlot`, `termination_request` inputs, `interrupt_current_turn`, local errors with
  their backoff, contents and their storage.
* In the lease: what a recovery settles before it finalizes a Turn.
* In ownership: several Conversations (they are independent), the recorded process start identity (its
  comparison is taken to be exact).
* In the effects: file mutations, transfers and processes beyond their intent and receipt, approvals
  and questions, batch controllers, attachments.
* In the model requests: native chains with their anchors, controls and rebases, compression requests,
  heartbeats (which rewrite the statistics column, `modelProviderControlPlane.ts:2263`, but not the identity of
  the socket in it), checkpoints of single items and their limits, transient replay, a Turn that ends below its
  request, and failures of the local database with their own retries.
* In the deliveries: answers of children and collaboration messages, which have other destinations;
  redelivery, abandonment, a target that is gone and the deletion of a Conversation.
* In the client feed: the content and the scope of the projections, the navigation list (its deltas, and the branch of a poll at
  `clientFeed.ts:1000` that refreshes it), a poll that fails (:1033), transient events and their replay, requests for details and history, panels that change their
  Conversation, diagnostics, LAN clients.
* The parts of section 1 without a module: planned in section 2, or, for data roots, cutovers and
  merges of data sets, provider adapters, VS Code wiring and the rest of the webview, left out for good: they are
  long sequential transformations of whole data sets, wire formats or user interface, in which TLC
  would see little beside the data.
