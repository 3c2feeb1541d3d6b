------------------------------ MODULE ClientFeed ------------------------------
(***************************************************************************)
(* What a panel shows of the Runtime database: the commits of this Host    *)
(* and of others, the bounded feed that keeps one frame in flight per      *)
(* session, the bridge that connects, resends, pauses and recovers, and    *)
(* the store of the panel that applies the frames and acknowledges them.   *)
(*                                                                         *)
(* Rows carry the number of times they were written.  A callback of the    *)
(* extension host's thread is one step, and so is a transaction or a read  *)
(* of the database worker; whatever the thread awaits lies between steps.  *)
(* There is one panel: it keeps the Conversation it was opened with.       *)
(***************************************************************************)
EXTENDS Naturals, FiniteSets, SequencesExt

CONSTANTS
    Rows,           \* rows in the scope of the panel
    LocalWrites,    \* what one commit of this Host can change
    ForeignWrites,  \* what one commit of another Host can: a row, or None out of scope
    MaxCommits,     \* bound of the commits of this Host
    MaxExternal,    \* bound of the commits of other Hosts
    MaxBatchRows,   \* CLIENT_CHANGE_BATCH_MAX_RECORDS
    MaxQueued,      \* CLIENT_MAX_QUEUED_BATCHES
    MaxResends,     \* FEED_MAX_FRAME_RESENDS
    MaxDisruptions, \* bound of what the user, the network and the worker do to the feed
    MaxEvents,      \* bound of all three together
    None

ASSUME RowsAssumption == IsFiniteSet(Rows)
ASSUME WritesAssumption == LocalWrites \subseteq [rows : SUBSET Rows, structural : BOOLEAN]
ASSUME BoundsAssumption == {MaxCommits, MaxExternal, MaxBatchRows, MaxQueued, MaxResends,
                            MaxDisruptions, MaxEvents} \subseteq Nat

VARIABLES
    db,      \* the rows as committed
    commits, \* commitSeq of the worker of this Host
    ext,     \* what the commits of other Hosts wrote: a row, or None out of scope
    mail,    \* messages of the worker to the extension host's thread
    sess,    \* sessions of the feed, by their number
    used,    \* sessions made so far
    timer,   \* the poll for external commits is scheduled
    known,   \* externalDataVersion
    cursor,  \* how far the notices of the other Hosts have been read
    init,    \* where the initialization of the poll is
    poll,    \* where a poll is
    gen,     \* navigationGeneration of the bridge's client
    ready,   \* the client's panel has declared itself ready
    view,    \* the panel is shown, hidden or gone
    conn,    \* the session its connection promise resolved to
    rec,     \* the recovery timer and who waits for it
    post,    \* lastDataPost
    page,    \* the store of the panel
    toPanel, \* frames on their way to the panel
    toHost,  \* control messages on their way back
    budget   \* disruptions left

dbVars     == <<db, commits, ext>>
pollVars   == <<timer, known, cursor, init, poll>>
feedVars   == <<sess, used, pollVars>>
bridgeVars == <<gen, ready, view, conn, rec, post>>
panelVars  == <<page, toPanel, toHost>>
vars       == <<dbVars, mail, feedVars, bridgeVars, panelVars, budget>>

Sessions == 1..(MaxDisruptions + 1)

NoRows == [r \in {} |-> 0]

Unused == [gen |-> 0, phase |-> "unused", next |-> 1, inflight |-> 0, queue |-> <<>>,
           required |-> FALSE, again |-> FALSE, read |-> "none",
           answer |-> [commit |-> 0, rows |-> NoRows], handoff |-> <<>>]

EmptyPage == [loading |-> TRUE, retired |-> {}, sess |-> 0, gen |-> 0, seq |-> 0, commit |-> 0,
              rows |-> [r \in Rows |-> 0]]

Init ==
    /\ db = [r \in Rows |-> 0] /\ commits = 0 /\ ext = <<>> /\ mail = <<>>
    /\ sess = [i \in Sessions |-> Unused] /\ used = 0
    /\ timer = FALSE /\ known = None /\ cursor = None /\ init = "none" /\ poll = "idle"
    /\ gen = 1 /\ ready = FALSE /\ view = "shown" /\ conn = 0 /\ rec = "none" /\ post = None
    /\ page = EmptyPage /\ toPanel = <<>> /\ toHost = <<>> /\ budget = MaxDisruptions

Live(s) == s.phase \in {"polling", "opening", "open"}

EventsLeft == commits + Len(ext) + (MaxDisruptions - budget) < MaxEvents

Spend == budget > 0 /\ EventsLeft /\ budget' = budget - 1

-----------------------------------------------------------------------------
(* The database and its worker. *)

Written(w) == [r \in Rows |-> IF r \in w THEN db[r] + 1 ELSE db[r]]

\* A transaction of this Host, and the commit message of its worker.
CommitLocal ==
    /\ commits < MaxCommits /\ EventsLeft
    /\ \E w \in LocalWrites :
          /\ db' = Written(w.rows)
          /\ mail' = Append(mail, [kind |-> "commit", commit |-> commits + 1,
                                   rows |-> [r \in w.rows |-> db'[r]],
                                   structural |-> w.structural])
    /\ commits' = commits + 1
    /\ UNCHANGED <<ext, feedVars, bridgeVars, panelVars, budget>>

\* A transaction of another Host: it moves the data version and leaves a notice with its writer.
CommitExternal ==
    /\ Len(ext) < MaxExternal /\ EventsLeft
    /\ \E r \in ForeignWrites : /\ db' = Written({r})
                               /\ ext' = Append(ext, r)
    /\ UNCHANGED <<commits, mail, feedVars, bridgeVars, panelVars, budget>>

\* Mutant: the commit number is read before the transaction of the projection.
MutSnapshot(i) == [kind |-> "answer", to |-> i, failed |-> FALSE,
                   commit |-> IF commits = 0 THEN 0 ELSE commits - 1, rows |-> db]

Snapshot(i) == [kind |-> "answer", to |-> i, failed |-> FALSE, commit |-> commits, rows |-> db]

\* The projection is read in one transaction and answered after every commit before it.
WorkerReads(i) ==
    /\ sess[i].read = "asked"
    /\ sess' = [sess EXCEPT ![i].read = "served"]
    /\ mail' = Append(mail, Snapshot(i))
    /\ UNCHANGED <<dbVars, used, pollVars, bridgeVars, panelVars, budget>>

WorkerFails(i) ==
    /\ sess[i].read = "asked"
    /\ Spend
    /\ sess' = [sess EXCEPT ![i].read = "served"]
    /\ mail' = Append(mail, [Snapshot(i) EXCEPT !.failed = TRUE])
    /\ UNCHANGED <<dbVars, used, pollVars, bridgeVars, panelVars>>

-----------------------------------------------------------------------------
(* The feed: a session, and the frame it hands out, if any. *)

Kept(s) == [s |-> s, out |-> <<>>]

Frame(kind, s, commit, rows) ==
    [kind |-> kind, seq |-> s.next, commit |-> commit, rows |-> rows, copy |-> FALSE]

Send(kind, s, commit, rows) ==
    [s   |-> [s EXCEPT !.inflight = s.next, !.next = @ + 1],
     out |-> <<Frame(kind, s, commit, rows)>>]

\* refreshSnapshot up to its read.
BeginRefresh(s) == [s EXCEPT !.read = "asked", !.handoff = <<>>, !.again = FALSE]

\* enterSnapshotRequired: what is not sent is dropped, a refresh that runs is followed by another.
Require(s) ==
    LET needs == [s EXCEPT !.queue = <<>>, !.required = TRUE, !.again = TRUE]
    IN  IF s.phase = "open" /\ s.inflight = 0 /\ s.read = "none" THEN BeginRefresh(needs) ELSE needs

\* compactClientChanges: of several changes of a row the last one is left.
Merged(batches) ==
    LET Changing(r) == {k \in DOMAIN batches : r \in DOMAIN batches[k].rows}
    IN  [r \in UNION {DOMAIN batches[k].rows : k \in DOMAIN batches} |->
            batches[Max(Changing(r))].rows[r]]

\* compactPendingQueue: one batch of everything, or of the last one.
Compacted(queue, c) ==
    LET Batch(batches) == [commit |-> c.commit, rows |-> Merged(Append(batches, c))]
        all            == Batch(queue)
        tail           == Batch(<<Last(queue)>>)
        Fits(b)        == Cardinality(DOMAIN b.rows) <= MaxBatchRows
    IN  IF queue = <<>> THEN None
        ELSE IF Fits(all) THEN <<all>>
        ELSE IF Fits(tail) THEN Append(Front(queue), tail)
        ELSE None

\* Mutant: one batch more than the bound.
MutQueued(s, c) ==
    LET short == Compacted(s.queue, c)
    IN  IF short # None THEN [s EXCEPT !.queue = short]
        ELSE IF Len(s.queue) > MaxQueued THEN Require(s)
        ELSE [s EXCEPT !.queue = Append(@, [commit |-> c.commit, rows |-> c.rows])]

Queued(s, c) ==
    LET short == Compacted(s.queue, c)
    IN  IF short # None THEN [s EXCEPT !.queue = short]
        ELSE IF Len(s.queue) >= MaxQueued THEN Require(s)
        ELSE [s EXCEPT !.queue = Append(@, [commit |-> c.commit, rows |-> c.rows])]

\* enqueueCommit
Enqueue(s, c) ==
    IF s.phase = "closed" \/ s.required THEN Kept(s)
    ELSE IF c.structural \/ Cardinality(DOMAIN c.rows) > MaxBatchRows THEN Kept(Require(s))
    ELSE IF DOMAIN c.rows = {} THEN Kept(s)
    ELSE IF s.inflight = 0 /\ s.queue = <<>> /\ s.read = "none"
         THEN Send("changes", s, c.commit, c.rows)
    ELSE Kept(Queued(s, c))

Collects(s) == s.phase = "opening" \/ s.read # "none"

\* onCommit
Observe(s, c) ==
    IF s.phase \notin {"opening", "open"} THEN Kept(s)
    ELSE IF Collects(s) THEN Kept([s EXCEPT !.handoff = Append(@, c)])
    ELSE Enqueue(s, c)

\* Mutant: the commit the snapshot was read at is replayed as well.
MutHanded(s, c) == c.commit >= s.answer.commit

\* A commit that came during a read and is not in what it read.
Handed(s, c) == c.commit > s.answer.commit

\* What becomes of session `first` when the commits handed over by s are queued one by one.
Replayed(first, s) ==
    LET run[k \in 0..Len(s.handoff)] ==
            IF k = 0 THEN first
            ELSE IF Handed(s, s.handoff[k]) THEN Enqueue(run[k - 1], s.handoff[k]).s
            ELSE run[k - 1]
    IN  run[Len(s.handoff)]

\* The snapshot goes out first, the commits after it are queued behind it.
HandOver(s, required) ==
    LET sent == Send("snapshot", [s EXCEPT !.required = required, !.handoff = <<>>],
                     s.answer.commit, s.answer.rows)
    IN  [s   |-> [Replayed(sent.s, s) EXCEPT !.read = "none", !.answer = Unused.answer],
         out |-> sent.out]

\* Mutant: the snapshot answers the requests that came while it was read.
MutStillRequired(s) == FALSE

StillRequired(s) == s.again

Closed(s) == [s EXCEPT !.phase = "closed", !.queue = <<>>, !.inflight = 0]

\* stopExternalCommitPollingIfIdle, given the sessions that are left.
StopIfIdle(left) ==
    IF \E i \in Sessions : Live(left[i])
    THEN UNCHANGED <<timer, known, cursor>>
    ELSE timer' = FALSE /\ known' = None /\ cursor' = None

-----------------------------------------------------------------------------
(* The bridge: its client, and the session of the client. *)

\* The message of the bridge around a frame of session i.
OnWire(f, i) == [kind |-> f.kind, seq |-> f.seq, commit |-> f.commit, rows |-> f.rows,
                 copy |-> f.copy, sess |-> i, gen |-> gen]

\* What the sessions hand out is posted while their generation is the client's.
Post(outs) ==
    LET posted == {i \in Sessions : outs[i] # <<>> /\ sess[i].gen = gen /\ view # "gone"}
    IN  IF posted = {} THEN UNCHANGED <<post, toPanel>>
        ELSE LET i == CHOOSE i \in posted : TRUE
                 f == OnWire(outs[i][1], i)
             IN  post' = [frame |-> f, resends |-> 0] /\ toPanel' = Append(toPanel, f)

OutOf(i, out) == [j \in Sessions |-> IF j = i THEN out ELSE <<>>]

\* connect and, in it, ensureExternalCommitPolling, for generation g beside the sessions ss.
Connect(g, ss) ==
    /\ sess' = [ss EXCEPT ![used + 1] = [Unused EXCEPT
                   !.gen = g, !.phase = IF timer THEN "opening" ELSE "polling",
                   !.read = IF timer THEN "asked" ELSE "none"]]
    /\ used' = used + 1
    /\ init' = IF timer \/ init # "none" THEN init ELSE "version"
    /\ UNCHANGED <<timer, known, cursor, poll>>

WithoutConnected == IF conn = 0 THEN sess ELSE [sess EXCEPT ![conn] = Closed(@)]

\* reconnectClient: the connected session goes; one still connecting finds out when it has connected.
Reconnect ==
    /\ gen' = gen + 1 /\ conn' = 0 /\ rec' = "none" /\ post' = None
    /\ Connect(gen + 1, WithoutConnected)

\* pauseClient
Pause ==
    /\ gen' = gen + 1 /\ conn' = 0 /\ rec' = "none" /\ post' = None
    /\ sess' = WithoutConnected
    /\ StopIfIdle(sess')
    /\ UNCHANGED <<used, init, poll>>

\* Mutant: a connection is kept although its client has moved on meanwhile.
MutWanted(i) == TRUE

Wanted(i) == sess[i].gen = gen /\ view = "shown" /\ ready

-----------------------------------------------------------------------------
(* The extension host's thread: what the worker sends, and what its awaits go on with. *)

TakeCommit ==
    /\ mail # <<>> /\ Head(mail).kind = "commit"
    /\ LET took == [i \in Sessions |-> Observe(sess[i], Head(mail))]
       IN  /\ sess' = [i \in Sessions |-> took[i].s]
           /\ Post([i \in Sessions |-> took[i].out])
    /\ mail' = Tail(mail)
    /\ UNCHANGED <<dbVars, used, pollVars, gen, ready, view, conn, rec, page, toHost, budget>>

TakeAnswer ==
    /\ mail # <<>> /\ Head(mail).kind = "answer"
    /\ LET a == Head(mail)
       IN  sess' = [sess EXCEPT ![a.to].read = IF a.failed THEN "failed" ELSE "answered",
                                ![a.to].answer = [commit |-> a.commit, rows |-> a.rows]]
    /\ mail' = Tail(mail)
    /\ UNCHANGED <<dbVars, used, pollVars, bridgeVars, panelVars, budget>>

Opened(i) == HandOver([sess[i] EXCEPT !.phase = "open"], sess[i].required)

\* The connection of a client that still wants it: the snapshot, and the commits after it.
ConnectReturns(i) ==
    /\ sess[i].phase = "opening" /\ sess[i].read = "answered"
    /\ Wanted(i)
    /\ sess' = [sess EXCEPT ![i] = Opened(i).s]
    /\ Post(OutOf(i, Opened(i).out))
    /\ conn' = i
    /\ UNCHANGED <<dbVars, mail, used, pollVars, gen, ready, view, rec, page, toHost, budget>>

ConnectSuperseded(i) ==
    /\ sess[i].phase = "opening" /\ sess[i].read = "answered"
    /\ ~Wanted(i)
    /\ sess' = [sess EXCEPT ![i] = Closed(Opened(i).s)]
    /\ StopIfIdle(sess')
    /\ UNCHANGED <<dbVars, mail, used, init, poll, bridgeVars, panelVars, budget>>

ConnectFails(i) ==
    /\ sess[i].phase = "opening" /\ sess[i].read = "failed"
    /\ sess' = [sess EXCEPT ![i] = Closed([@ EXCEPT !.read = "none"])]
    /\ StopIfIdle(sess')
    /\ rec' = IF Wanted(i) THEN "wait" ELSE rec
    /\ UNCHANGED <<dbVars, mail, used, init, poll, gen, ready, view, conn, post, panelVars, budget>>

\* A request that came after the refresh had begun waits for the acknowledgement of its snapshot.
RefreshReturns(i) ==
    /\ sess[i].phase \in {"open", "closed"} /\ sess[i].read = "answered"
    /\ LET done == HandOver(sess[i], StillRequired(sess[i]))
       IN  /\ sess' = [sess EXCEPT ![i] = done.s]
           /\ Post(OutOf(i, done.out))
    /\ UNCHANGED <<dbVars, mail, used, pollVars, gen, ready, view, conn, rec, page, toHost, budget>>

\* closeFailedSession, and the bridge's onFailure.
RefreshFails(i) ==
    /\ sess[i].phase = "open" /\ sess[i].read = "failed"
    /\ sess' = [sess EXCEPT ![i] = Closed([@ EXCEPT !.read = "none"])]
    /\ StopIfIdle(sess')
    /\ rec' = IF Wanted(i) /\ rec = "none" THEN "timer" ELSE rec
    /\ UNCHANGED <<dbVars, mail, used, init, poll, gen, ready, view, conn, post, panelVars, budget>>

RefreshForgotten(i) ==
    /\ sess[i].phase = "closed" /\ sess[i].read = "failed"
    /\ sess' = [sess EXCEPT ![i].read = "none"]
    /\ UNCHANGED <<dbVars, mail, used, pollVars, bridgeVars, panelVars, budget>>

-----------------------------------------------------------------------------
(* The poll for the commits of other Hosts.  A Host asked for its notices answers with all those *)
(* of the commits that precede the question.                                                     *)

BaselineVersion ==
    /\ init = "version"
    /\ init' = "peers" /\ known' = Len(ext)
    /\ UNCHANGED <<dbVars, mail, sess, used, timer, cursor, poll, bridgeVars, panelVars, budget>>

\* Every session that waits for the initialization goes on to its snapshot.
BaselinePeers ==
    /\ init = "peers"
    /\ init' = "none" /\ timer' = TRUE
    /\ \E reached \in BOOLEAN : cursor' = IF reached THEN Len(ext) ELSE cursor
    /\ sess' = [i \in Sessions |-> IF sess[i].phase = "polling"
                                   THEN [sess[i] EXCEPT !.phase = "opening", !.read = "asked"]
                                   ELSE sess[i]]
    /\ UNCHANGED <<dbVars, mail, used, known, poll, bridgeVars, panelVars, budget>>

PollVersion ==
    /\ timer /\ poll = "idle" /\ known # Len(ext)
    /\ known' = Len(ext) /\ poll' = IF known = None THEN "idle" ELSE "peers"
    /\ UNCHANGED <<dbVars, mail, sess, used, timer, cursor, init, bridgeVars, panelVars, budget>>

Busy(s) == s.phase # "open" \/ s.read # "none" \/ s.required

\* Notices select the sessions to refresh; without all of them every session is.
PollPeers ==
    /\ poll = "peers"
    /\ poll' = "idle"
    /\ \E reached \in BOOLEAN :
          LET explained == reached /\ cursor # None /\ Len(ext) > cursor
              inScope   == \E n \in cursor + 1..Len(ext) : ext[n] # None
              Concerns(s) == explained => Busy(s) \/ inScope
          IN  /\ cursor' = IF reached THEN Len(ext) ELSE cursor
              /\ sess' = [i \in Sessions |-> IF Live(sess[i]) /\ Concerns(sess[i])
                                             THEN Require(sess[i]) ELSE sess[i]]
    /\ UNCHANGED <<dbVars, mail, used, timer, known, init, bridgeVars, panelVars, budget>>

-----------------------------------------------------------------------------
(* What the user and the network do to the panel, and what the bridge makes of it. *)

\* The script of the panel has loaded and says so.
PanelReady ==
    /\ page.loading /\ view # "gone"
    /\ page' = [page EXCEPT !.loading = FALSE]
    /\ ready' = TRUE
    /\ IF view = "shown" THEN Reconnect
                         ELSE UNCHANGED <<feedVars, gen, conn, rec, post>>
    /\ UNCHANGED <<dbVars, mail, view, toPanel, toHost, budget>>

\* The panel asks for a new connection.
Resync ==
    /\ ~page.loading /\ view = "shown"
    /\ Spend
    /\ ready' = TRUE
    /\ Reconnect
    /\ UNCHANGED <<dbVars, mail, view, panelVars>>

Hide ==
    /\ view = "shown"
    /\ Spend
    /\ view' = "hidden"
    /\ Pause
    /\ UNCHANGED <<dbVars, mail, ready, panelVars>>

Reveal ==
    /\ view = "hidden"
    /\ view' = "shown"
    /\ IF ready THEN Reconnect ELSE UNCHANGED <<feedVars, gen, conn, rec, post>>
    /\ UNCHANGED <<dbVars, mail, ready, panelVars, budget>>

Detach ==
    /\ view # "gone"
    /\ Spend
    /\ view' = "gone" /\ rec' = "none" /\ post' = None
    /\ sess' = WithoutConnected
    /\ StopIfIdle(sess')
    /\ UNCHANGED <<dbVars, mail, used, init, poll, gen, ready, conn, panelVars>>

\* The panel loads anew: what it showed, and what was on its way to it, is gone.
Reload ==
    /\ ~page.loading /\ view # "gone"
    /\ Spend
    /\ page' = EmptyPage /\ toPanel' = <<>>
    /\ UNCHANGED <<dbVars, mail, feedVars, bridgeVars, toHost>>

LoseFrame ==
    /\ toPanel # <<>>
    /\ Spend
    /\ toPanel' = Tail(toPanel)
    /\ UNCHANGED <<dbVars, mail, feedVars, bridgeVars, page, toHost>>

\* The recovery timer of a session that failed, and that of a connection that did.
RecoveryTimer ==
    /\ rec = "timer"
    /\ Reconnect
    /\ UNCHANGED <<dbVars, mail, ready, view, panelVars, budget>>

RetryConnect ==
    /\ rec = "wait"
    /\ rec' = "none"
    /\ Connect(gen, sess)
    /\ UNCHANGED <<dbVars, mail, gen, ready, view, conn, post, panelVars, budget>>

\* retryOrSuspendDataPost: the same frame once more, or no frames until the panel is ready again.
Resend ==
    /\ post # None /\ ready /\ view = "shown"
    /\ IF post.resends >= MaxResends
       THEN ready' = FALSE /\ Pause /\ UNCHANGED toPanel
       ELSE /\ post' = [post EXCEPT !.resends = @ + 1]
            /\ toPanel' = Append(toPanel, [post.frame EXCEPT !.copy = TRUE])
            /\ UNCHANGED <<feedVars, gen, ready, conn, rec>>
    /\ UNCHANGED <<dbVars, mail, view, page, toHost>>

\* The frame, or its acknowledgement, is still on its way.
Underway(f) ==
    \/ ~page.loading /\ \E k \in DOMAIN toPanel : toPanel[k].sess = f.sess /\ toPanel[k].seq = f.seq
    \/ [kind |-> "ack", sess |-> f.sess, seq |-> f.seq] \in Range(toHost)

\* The timer of a frame that will not be acknowledged, and that of one that is acknowledged late.
AckTimesOut == Resend /\ ~Underway(post.frame) /\ UNCHANGED budget
AckIsLate   == Resend /\ Underway(post.frame) /\ Spend

-----------------------------------------------------------------------------
(* The store of the panel. *)

Superseded(f) ==
    \/ f.sess \in page.retired
    \/ f.kind = "changes" /\ f.sess # page.sess
    \/ f.gen < page.gen

Follows(f) == f.seq = page.seq + 1 /\ f.commit > page.commit

\* The records of a frame replace those of the same rows.
Newest(new, old) == [r \in DOMAIN new \cup DOMAIN old |-> IF r \in DOMAIN new THEN new[r] ELSE old[r]]

Accepts(f) == f.kind = "snapshot" \/ Follows(f)

NextFrame == ~page.loading /\ view # "gone" /\ toPanel # <<>>

DropFrame ==
    /\ NextFrame /\ Superseded(Head(toPanel))
    /\ toPanel' = Tail(toPanel)
    /\ UNCHANGED <<dbVars, mail, feedVars, bridgeVars, page, toHost, budget>>

AcceptFrame ==
    /\ NextFrame /\ ~Superseded(Head(toPanel)) /\ Accepts(Head(toPanel))
    /\ LET f == Head(toPanel)
       IN  /\ page' = [page EXCEPT !.sess = f.sess, !.gen = f.gen, !.seq = f.seq, !.commit = f.commit,
                                   !.rows = Newest(f.rows, @),
                                   !.retired = IF page.sess \in {0, f.sess} THEN @ ELSE @ \cup {page.sess}]
           /\ toHost' = Append(toHost, [kind |-> "ack", sess |-> f.sess, seq |-> f.seq])
    /\ toPanel' = Tail(toPanel)
    /\ UNCHANGED <<dbVars, mail, feedVars, bridgeVars, budget>>

Request == [kind |-> "request", sess |-> page.sess, seq |-> 0]

\* A gap or a repetition: the records stay and a snapshot is asked for.
RefuseFrame ==
    /\ NextFrame /\ ~Superseded(Head(toPanel)) /\ ~Accepts(Head(toPanel))
    /\ toHost' = Append(toHost, Request)
    /\ toPanel' = Tail(toPanel)
    /\ UNCHANGED <<dbVars, mail, feedVars, bridgeVars, page, budget>>

-----------------------------------------------------------------------------
(* handleControl *)

Heard(m) == ready /\ view = "shown" /\ conn # 0 /\ m.sess = conn /\ sess[conn].phase = "open"

Acks(m) == Heard(m) /\ m.kind = "ack" /\ sess[conn].inflight = m.seq

\* acknowledge: the refresh that is due, or the next batch; then observeAck.
TakeAck ==
    /\ toHost # <<>> /\ Acks(Head(toHost))
    /\ LET free == [sess[conn] EXCEPT !.inflight = 0]
           more == ~free.required /\ free.read = "none" /\ free.queue # <<>>
           next == IF free.required THEN Kept(BeginRefresh(free))
                   ELSE IF more THEN Send("changes", [free EXCEPT !.queue = Tail(@)],
                                          Head(free.queue).commit, Head(free.queue).rows)
                   ELSE Kept(free)
       IN  /\ sess' = [sess EXCEPT ![conn] = next.s]
           /\ IF more THEN Post(OutOf(conn, next.out)) ELSE post' = None /\ UNCHANGED toPanel
    /\ rec' = "none"
    /\ toHost' = Tail(toHost)
    /\ UNCHANGED <<dbVars, mail, used, pollVars, gen, ready, view, conn, page, budget>>

TakeRequest ==
    /\ toHost # <<>> /\ Heard(Head(toHost)) /\ Head(toHost).kind = "request"
    /\ sess' = [sess EXCEPT ![conn] = Require(@)]
    /\ toHost' = Tail(toHost)
    /\ UNCHANGED <<dbVars, mail, used, pollVars, bridgeVars, page, toPanel, budget>>

\* Of another session, of a client that is paused, or for a frame that is not in flight.
TakeIgnored ==
    /\ toHost # <<>>
    /\ ~Acks(Head(toHost)) /\ ~(Heard(Head(toHost)) /\ Head(toHost).kind = "request")
    /\ toHost' = Tail(toHost)
    /\ UNCHANGED <<dbVars, mail, feedVars, bridgeVars, page, toPanel, budget>>

-----------------------------------------------------------------------------
\* What the code does by itself: promises settle, messages are read, timers fire.
System ==
    \/ TakeCommit \/ TakeAnswer
    \/ \E i \in Sessions : \/ WorkerReads(i)
                           \/ ConnectReturns(i) \/ ConnectSuperseded(i) \/ ConnectFails(i)
                           \/ RefreshReturns(i) \/ RefreshFails(i) \/ RefreshForgotten(i)
    \/ BaselineVersion \/ BaselinePeers \/ PollVersion \/ PollPeers
    \/ RecoveryTimer \/ RetryConnect \/ AckTimesOut
    \/ PanelReady \/ DropFrame \/ AcceptFrame \/ RefuseFrame
    \/ TakeAck \/ TakeRequest \/ TakeIgnored

Environment ==
    \/ CommitLocal \/ CommitExternal
    \/ \E i \in Sessions : WorkerFails(i)
    \/ AckIsLate \/ Resync \/ Hide \/ Reveal \/ Detach \/ Reload \/ LoseFrame

Next == System \/ Environment

\* Every step of the system is over after finitely many others: no loop starves one, so it is
\* enough that the system does not stop while it can go on.
Fairness == WF_vars(System)

Spec == Init /\ [][Next]_vars /\ Fairness

-----------------------------------------------------------------------------
(* Properties. *)

\* The shape of the variables: of a session, only the last frame handed out can be in flight, and
\* what waits behind it keeps to the bounds of the queue and its batches.
FeedTypeOK ==
    /\ db \in [Rows -> Nat] /\ commits \in 0..MaxCommits /\ budget \in 0..MaxDisruptions
    /\ gen \in Nat /\ ready \in BOOLEAN /\ timer \in BOOLEAN
    /\ view \in {"shown", "hidden", "gone"} /\ rec \in {"none", "timer", "wait"}
    /\ init \in {"none", "version", "peers"} /\ poll \in {"idle", "peers"}
    /\ {known, cursor} \subseteq 0..Len(ext) \cup {None}
    /\ conn \in 0..used /\ used \in 0..Cardinality(Sessions)
    /\ page.retired \subseteq 1..used /\ page.sess \in (0..used) \ page.retired
    /\ post # None => post.resends \in 0..MaxResends /\ post.frame.sess = conn
    /\ \A i \in Sessions : LET s == sess[i] IN
          /\ s.phase \in {"unused", "polling", "opening", "open", "closed"}
          /\ s.read \in {"none", "asked", "served", "answered", "failed"}
          /\ s.inflight \in {0, s.next - 1}
          /\ Len(s.queue) <= MaxQueued /\ (s.required => s.queue = <<>>)
          /\ \A b \in Range(s.queue) : /\ DOMAIN b.rows \in (SUBSET Rows) \ {{}}
                                       /\ Cardinality(DOMAIN b.rows) <= MaxBatchRows

\* What the panel shows of a row is never replaced by an older version of it, across the batches,
\* the snapshots, the copies and the sessions that follow one another, unless the panel reloads.
RowsNeverGoBack ==
    [][\A r \in Rows : page.rows[r] <= page'.rows[r] \/ page'.loading]_vars

\* A frame of the current session that the panel refuses is a copy the bridge sent again: the feed
\* itself never leaves a gap, repeats a number, or sends a batch the snapshot before it contains.
RefusesOnlyCopies ==
    NextFrame /\ ~Superseded(Head(toPanel)) /\ ~Accepts(Head(toPanel)) => Head(toPanel).copy

\* A panel that stays shown, loaded and heard ends up showing the database, whichever commits of
\* this Host and of others came during its connection, a refresh or a recovery.
CatchesUp ==
    <>[](view = "shown" /\ ready /\ ~page.loading => page.rows = db)

\* A session that is not the client's any more, or a client that is not shown, does not keep reading
\* commits for good: it is closed, also when it was still connecting.
SupersededSessionsEnd ==
    <>[](\A i \in Sessions : Live(sess[i]) => sess[i].gen = gen /\ view = "shown")
=============================================================================
