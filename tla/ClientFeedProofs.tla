--------------------------- MODULE ClientFeedProofs ---------------------------
(***************************************************************************)
(* What a panel may rely on, for every set of rows, every bound and every  *)
(* order of commits, reads, connections, losses and repetitions.           *)
(*                                                                         *)
(* FeedInv is inductive.  What a session queues, collects or has read lies *)
(* between what the panel is shown and what is still to come to the thread *)
(* (Between), because the worker answers in the order of its commits       *)
(* (MailFits); so a frame may replace whatever was sent before it.  The    *)
(* frames on the wire are numbered without a gap, as the next batch goes   *)
(* out only when the last one was acknowledged (FlightFits, AcksFit); and  *)
(* only the session of the connection may send in the generation of the    *)
(* client (GenerationsFit).                                                *)
(***************************************************************************)
EXTENDS ClientFeed, WellFoundedInduction, FiniteSetTheorems, TLAPS

---------------------------------------------------------------------------
(* The inductive invariant *)

RowMaps == UNION {[S -> Nat] : S \in SUBSET Rows}

CommitMsgs == [kind : {"commit"}, commit : Nat, rows : RowMaps, structural : BOOLEAN]
AnswerMsgs == [kind : {"answer"}, to : Sessions, failed : BOOLEAN, commit : Nat,
               rows : [Rows -> Nat]]
Batches    == [commit : Nat, rows : RowMaps]
WireFrames == [kind : {"snapshot", "changes"}, seq : Nat, commit : Nat, rows : RowMaps,
               copy : BOOLEAN, sess : Nat, gen : Nat]
Msgs       == CommitMsgs \cup AnswerMsgs
Posts      == [frame : WireFrames, resends : Nat]
Controls   == [kind : {"ack", "request"}, sess : Nat, seq : Nat]
Pages      == [loading : BOOLEAN, retired : SUBSET Nat, sess : Nat, gen : Nat, seq : Nat,
               commit : Nat, rows : [Rows -> Nat]]
SessionStates ==
    [gen : Nat, phase : {"unused", "polling", "opening", "open", "closed"},
     next : Nat \ {0}, inflight : Nat, queue : Seq(Batches), required : BOOLEAN,
     again : BOOLEAN, read : {"none", "asked", "served", "answered", "failed"},
     answer : Batches, handoff : Seq(CommitMsgs)]

Types ==
    /\ db \in [Rows -> Nat] /\ commits \in Nat /\ ext \in Seq(ForeignWrites)
    /\ mail \in Seq(Msgs)
    /\ sess \in [Sessions -> SessionStates] /\ used \in Nat /\ gen \in Nat \ {0}
    /\ ready \in BOOLEAN /\ timer \in BOOLEAN /\ budget \in Nat
    /\ view \in {"shown", "hidden", "gone"} /\ rec \in {"none", "timer", "wait"}
    /\ conn \in Nat /\ page \in Pages
    /\ post # None => post \in Posts
    /\ toPanel \in Seq(WireFrames) /\ toHost \in Seq(Controls)

\* What waits in a session for the frame in flight.
QueueFits(s) ==
    /\ Len(s.queue) <= MaxQueued
    /\ s.required => s.queue = <<>>
    /\ \A k \in DOMAIN s.queue : /\ DOMAIN s.queue[k].rows # {}
                                 /\ Cardinality(DOMAIN s.queue[k].rows) <= MaxBatchRows

\* What one session is at between the steps of the thread.
SessionFits(s) ==
    /\ QueueFits(s)
    /\ s.inflight \in {0, s.next - 1}
    /\ s.read # "none" => s.queue = <<>> /\ s.inflight = 0
    /\ s.phase \in {"unused", "polling"} => s.read = "none"
    /\ s.phase \in {"unused", "polling", "opening"} => s.next = 1 /\ s.queue = <<>>
    /\ s.phase = "opening" => s.read # "none"
    /\ s.read = "answered" => DOMAIN s.answer.rows = Rows

\* The session whose frames the bridge posts.
Current(i) == Live(sess[i]) /\ sess[i].gen = gen

GenerationsFit ==
    /\ \A i \in Sessions : /\ i > used => sess[i] = Unused
                           /\ i <= used => sess[i].phase # "unused" /\ sess[i].gen <= gen
                           /\ sess[i].gen = gen /\ sess[i].phase = "closed" /\ view # "gone"
                                 => sess[i].read = "none"
                           /\ Current(i) /\ sess[i].phase = "open" => i = conn /\ view # "gone"
    /\ \A i, j \in Sessions : Current(i) /\ Current(j) => i = j
    /\ rec = "wait" => \A i \in Sessions : ~Current(i)
    /\ conn # 0 => conn \in Sessions /\ conn <= used /\ sess[conn].gen = gen

\* y has no older version of a row than x.
Over(x, y) == \A r \in DOMAIN x \cap DOMAIN y : x[r] <= y[r]

\* Batch, commit or frame x comes before y.
Precedes(x, y) == x.commit < y.commit /\ Over(x.rows, y.rows)

Ordered(q) == \A j, k \in DOMAIN q : j < k => Precedes(q[j], q[k])

\* The commits the thread has seen, and the rows that are still to come to it.
BeforeOf(n, m) == {x \in Nat : /\ x <= n
                               /\ \A k \in DOMAIN m : /\ x <= m[k].commit
                                                      /\ m[k].kind = "commit" => x < m[k].commit}
FutureOf(d, m) == {d} \cup {m[k].rows : k \in DOMAIN m}
Before == BeforeOf(commits, mail)
Future == FutureOf(db, mail)

\* What the panel shows, is sent, or may be sent again.
ShownOf(pg, wire, p) == {pg.rows} \cup {wire[k].rows : k \in DOMAIN wire}
                          \cup (IF p = None THEN {} ELSE {p.frame.rows})
Shown == ShownOf(page, toPanel, post)

ShownTo(i) == IF Current(i) THEN Shown ELSE {}

\* x is a commit of B or contains no more, and its rows lie between those of Y and of Z.
Between(x, Y, B, Z) ==
    /\ x.commit \in B
    /\ \A y \in Y : Over(y, x.rows)
    /\ \A z \in Z : Over(x.rows, z)

\* What a session has queued, collected and read, and in which order.
ContentFits(s, Y, B, Z) ==
    /\ \A k \in DOMAIN s.queue : Between(s.queue[k], Y, B, Z)
    /\ Ordered(s.queue)
    /\ \A k \in DOMAIN s.handoff : Between(s.handoff[k], {}, B, Z)
    /\ Ordered(s.handoff)
    /\ s.read = "answered" =>
          /\ Between(s.answer, Y, B, Z)
          /\ \A k \in DOMAIN s.handoff :
                Handed(s, s.handoff[k]) => Over(s.answer.rows, s.handoff[k].rows)

SessionsFit == \A i \in Sessions : /\ SessionFits(sess[i])
                                  /\ ContentFits(sess[i], ShownTo(i), Before, Future)

MailFits ==
    /\ \A k \in DOMAIN mail :
          /\ mail[k].commit <= commits
          /\ Over(mail[k].rows, db)
          /\ mail[k].kind = "answer" => sess[mail[k].to].read = "served"
    /\ \A j, k \in DOMAIN mail : j < k =>
          /\ Over(mail[j].rows, mail[k].rows)
          /\ mail[j].commit <= mail[k].commit
          /\ mail[k].kind = "commit" => mail[j].commit < mail[k].commit
          /\ mail[j].kind = "answer" /\ mail[k].kind = "answer" => mail[j].to # mail[k].to

WireFits ==
    /\ Between(page, {}, Before, Future)
    /\ \A k \in DOMAIN toPanel : Between(toPanel[k], {page.rows}, Before, Future)
    /\ \A j, k \in DOMAIN toPanel : j < k => Over(toPanel[j].rows, toPanel[k].rows)
    /\ post # None => /\ Between(post.frame, {page.rows}, Before, Future)
                      /\ \A k \in DOMAIN toPanel : Over(toPanel[k].rows, post.frame.rows)

\* The numbers of the frames on their way w to page pg: rising, and without a gap before changes
\* that are no copy.
FramesFit(pg, w) ==
    \A k \in DOMAIN w :
        /\ pg.sess = w[k].sess => pg.seq <= w[k].seq
        /\ \A j \in DOMAIN w : j < k /\ w[j].sess = w[k].sess => w[j].seq <= w[k].seq
        /\ w[k].kind = "changes" /\ ~w[k].copy =>
              /\ \A j \in DOMAIN w : j < k /\ w[j].sess = w[k].sess
                    => w[j].seq = w[k].seq - 1 /\ w[j].commit < w[k].commit
              /\ pg.sess = w[k].sess => pg.seq = w[k].seq - 1 /\ pg.commit < w[k].commit

\* Session i of ss has handed out a frame with number n.
Given(ss, u, i, n) == i \in Sessions /\ i <= u /\ n \in 1..ss[i].next - 1

NumbersFit ==
    /\ FramesFit(page, toPanel)
    /\ \A k \in DOMAIN toPanel : Given(sess, used, toPanel[k].sess, toPanel[k].seq)
    /\ page.sess # 0 => Given(sess, used, page.sess, page.seq)
    /\ page.retired \subseteq 1..used /\ page.sess \notin page.retired

\* Of session i nothing before number n is on its way, and the panel has come as far.
CaughtUp(pg, w, i, n) ==
    /\ \A k \in DOMAIN w : w[k].sess = i => w[k].seq >= n
    /\ pg.sess = i => pg.seq >= n

AcksFit ==
    \A k \in DOMAIN toHost : toHost[k].kind = "ack" =>
        /\ Given(sess, used, toHost[k].sess, toHost[k].seq)
        /\ CaughtUp(page, toPanel, toHost[k].sess, toHost[k].seq)

\* Frame n of session i has an older commit than x.
LastPrecedes(pg, w, i, n, x) ==
    /\ \A k \in DOMAIN w : w[k].sess = i /\ w[k].seq = n => w[k].commit < x.commit
    /\ pg.sess = i /\ pg.seq = n => pg.commit < x.commit

\* The last frame of session s, which is the i-th, is acknowledged or in flight, and what the
\* session queues is newer.
Flies(pg, w, i, s) ==
    /\ s.inflight = 0 => CaughtUp(pg, w, i, s.next - 1)
    /\ \A k \in DOMAIN s.queue : LastPrecedes(pg, w, i, s.next - 1, s.queue[k])

\* The frame that may be sent again is the one in flight in session s, which is the i-th.
Resends(p, i, s) ==
    /\ s.phase = "open" /\ s.inflight = s.next - 1 /\ s.inflight >= 1
    /\ p.frame.sess = i /\ p.frame.seq = s.next - 1 /\ p.resends <= MaxResends
    /\ \A k \in DOMAIN s.queue : p.frame.commit < s.queue[k].commit

FlightFits ==
    /\ \A i \in Sessions : Current(i) => Flies(page, toPanel, i, sess[i])
    /\ post # None => conn # 0 /\ Current(conn) /\ Resends(post, conn, sess[conn])

\* Reads that failed, also those whose answer is not taken yet.
FailingOf(ss, m) ==
    {i \in Sessions : \/ ss[i].read = "failed"
                      \/ \E k \in DOMAIN m : m[k].kind = "answer" /\ m[k].to = i /\ m[k].failed}
Failing == FailingOf(sess, mail)

\* Every connection answers the first load or a disruption that was counted.
Bit(p) == IF p THEN 1 ELSE 0
CreditFits == used + Bit(page.loading) + Bit(view = "hidden") + Bit(rec # "none")
                 + Cardinality(Failing) + budget <= MaxDisruptions + 1

PollsFit ==
    /\ commits <= MaxCommits /\ budget <= MaxDisruptions
    /\ init \in {"none", "version", "peers"} /\ poll \in {"idle", "peers"}
    /\ {known, cursor} \subseteq 0..Len(ext) \cup {None}

FeedInv ==
    /\ Types /\ PollsFit /\ CreditFits /\ SessionsFit /\ GenerationsFit
    /\ MailFits /\ WireFits /\ NumbersFit /\ AcksFit /\ FlightFits

---------------------------------------------------------------------------
(* Numbers, sequences and maps *)

\* Every nonempty set of numbers has a least one.
LEMMA Least ==
    ASSUME NEW T \in SUBSET Nat, T # {}
    PROVE  \E n \in T : \A m \in T : n <= m
<1>1. PICK n \in T : \A y \in T : ~(<<y, n>> \in OpToRel(<, Nat))
  BY NatLessThanWellFounded, WFMin
<1>2. \A y \in T : ~(y < n)
  BY <1>1, Zenon DEF OpToRel
<1> QED BY <1>2

\* Of finitely many positions one is the last.
LEMMA LastOfSome ==
    ASSUME NEW n \in Nat, NEW S \in SUBSET (1..n), S # {}
    PROVE  Max(S) \in S
<1> DEFINE T == {n - x : x \in S}
<1>0. \A x \in S : x \in Nat /\ n - x \in Nat
  OBVIOUS
<1>1. T \in SUBSET Nat /\ T # {}
  BY <1>0
<1>2. PICK d \in T : \A m \in T : d <= m
  BY <1>1, Least
<1>3. PICK x \in S : d = n - x
  BY <1>2
<1>4. \A y \in S : x >= y
  <2> TAKE y \in S
  <2>1. n - x <= n - y
    BY <1>2, <1>3
  <2> QED BY <1>0, <2>1
<1> QED BY <1>4 DEF Max

LEMMA AppendIs ==
    ASSUME NEW S, NEW q \in Seq(S), NEW e \in S
    PROVE  /\ Append(q, e) \in Seq(S) /\ Len(Append(q, e)) = Len(q) + 1
           /\ DOMAIN Append(q, e) = 1..Len(q) + 1 /\ DOMAIN q = 1..Len(q) /\ Len(q) \in Nat
           /\ \A k \in 1..Len(q) : Append(q, e)[k] = q[k] /\ q[k] \in S
           /\ Append(q, e)[Len(q) + 1] = e
OBVIOUS

LEMMA TailIs ==
    ASSUME NEW S, NEW q \in Seq(S), q # <<>>
    PROVE  /\ Tail(q) \in Seq(S) /\ Len(Tail(q)) = Len(q) - 1 /\ Len(q) \in Nat /\ Len(q) >= 1
           /\ DOMAIN Tail(q) = 1..Len(q) - 1 /\ DOMAIN q = 1..Len(q)
           /\ \A k \in 1..Len(q) - 1 : Tail(q)[k] = q[k + 1]
           /\ \A k \in 1..Len(q) : q[k] \in S
           /\ Head(q) = q[1] /\ Head(q) \in S
OBVIOUS

LEMMA FrontIs ==
    ASSUME NEW S, NEW q \in Seq(S), q # <<>>
    PROVE  /\ Front(q) \in Seq(S) /\ Len(Front(q)) = Len(q) - 1 /\ Len(q) \in Nat /\ Len(q) >= 1
           /\ DOMAIN Front(q) = 1..Len(q) - 1 /\ DOMAIN q = 1..Len(q)
           /\ \A k \in 1..Len(q) - 1 : Front(q)[k] = q[k]
           /\ \A k \in 1..Len(q) : q[k] \in S
           /\ Last(q) = q[Len(q)] /\ Last(q) \in S
<1>1. Len(q) \in Nat /\ Len(q) >= 1 /\ DOMAIN q = 1..Len(q) /\ \A k \in 1..Len(q) : q[k] \in S
  OBVIOUS
<1> DEFINE n == Len(q) - 1
<1>2. n \in Nat /\ n <= Len(q)
  BY <1>1
<1>3. /\ SubSeq(q, 1, n) \in Seq(S) /\ Len(SubSeq(q, 1, n)) = n
      /\ \A k \in 1..n : SubSeq(q, 1, n)[k] = q[k]
  BY <1>1, <1>2
<1>4. DOMAIN SubSeq(q, 1, n) = 1..n
  BY <1>3
<1> QED BY <1>1, <1>2, <1>3, <1>4 DEF Front, Last

LEMMA ElementsOf ==
    ASSUME NEW S, NEW q \in Seq(S)
    PROVE  DOMAIN q = 1..Len(q) /\ Len(q) \in Nat /\ \A k \in DOMAIN q : q[k] \in S
OBVIOUS

LEMMA RowMapIs ==
    ASSUME NEW m
    PROVE  m \in RowMaps <=> /\ m = [r \in DOMAIN m |-> m[r]]
                             /\ DOMAIN m \subseteq Rows
                             /\ \A r \in DOMAIN m : m[r] \in Nat
<1>1. m \in RowMaps <=> \E S \in SUBSET Rows : m \in [S -> Nat]
  BY DEF RowMaps
<1> QED BY <1>1

\* The rows of one or more batches, each as the last of them has it.
LEMMA MergedIs ==
    ASSUME NEW S, NEW q \in Seq(S), \A k \in DOMAIN q : q[k].rows \in RowMaps
    PROVE  /\ Merged(q) \in RowMaps
           /\ DOMAIN Merged(q) = UNION {DOMAIN q[k].rows : k \in DOMAIN q}
           /\ \A r \in DOMAIN Merged(q) :
                 \E k \in DOMAIN q : r \in DOMAIN q[k].rows /\ Merged(q)[r] = q[k].rows[r]
<1> DEFINE Changing(r) == {k \in DOMAIN q : r \in DOMAIN q[k].rows}
           D == UNION {DOMAIN q[k].rows : k \in DOMAIN q}
<1>1. Merged(q) = [r \in D |-> q[Max(Changing(r))].rows[r]]
  BY DEF Merged
<1>2. \A r \in D : Max(Changing(r)) \in Changing(r)
  <2> TAKE r \in D
  <2>1. Changing(r) \in SUBSET (1..Len(q)) /\ Changing(r) # {} /\ Len(q) \in Nat
    OBVIOUS
  <2> HIDE DEF Changing
  <2> QED BY <2>1, LastOfSome
<1>4. DOMAIN Merged(q) = D
  BY <1>1
<1>5. \A r \in D : /\ Max(Changing(r)) \in DOMAIN q /\ r \in DOMAIN q[Max(Changing(r))].rows
                   /\ Merged(q)[r] = q[Max(Changing(r))].rows[r]
  BY <1>1, <1>2
<1>6. D \subseteq Rows /\ \A r \in D : Merged(q)[r] \in Nat
  BY <1>5, RowMapIs
<1>7. Merged(q) = [r \in DOMAIN Merged(q) |-> Merged(q)[r]]
  BY <1>1
<1>8. Merged(q) \in RowMaps
  BY <1>4, <1>6, <1>7, RowMapIs
<1> QED BY <1>4, <1>5, <1>8
---------------------------------------------------------------------------
(* What the operations of the feed make of a session *)

\* Batch b is made of commit c and batches of queue q.
MadeOf(b, q, c) ==
    /\ b.commit = c.commit \/ \E j \in DOMAIN q : b.commit = q[j].commit
    /\ \A r \in DOMAIN b.rows :
          \/ r \in DOMAIN c.rows /\ b.rows[r] = c.rows[r]
          \/ \E j \in DOMAIN q : r \in DOMAIN q[j].rows /\ b.rows[r] = q[j].rows[r]

\* Session t is s with a commit more, or with less that waits.
Grows(s, t) ==
    /\ t \in SessionStates
    /\ t.gen = s.gen /\ t.phase = s.phase /\ t.next = s.next /\ t.inflight = s.inflight
    /\ t.answer = s.answer
    /\ \/ t.read = s.read /\ t.handoff = s.handoff
       \/ /\ s.phase = "open" /\ s.read = "none" /\ s.inflight = 0
          /\ t.read = "asked" /\ t.handoff = <<>> /\ t.queue = <<>>
    /\ QueueFits(s) => QueueFits(t)

LEMMA SessionFields ==
    ASSUME NEW s \in SessionStates
    PROVE  /\ s.gen \in Nat /\ s.next \in Nat \ {0} /\ s.inflight \in Nat
           /\ s.phase \in {"unused", "polling", "opening", "open", "closed"}
           /\ s.read \in {"none", "asked", "served", "answered", "failed"}
           /\ s.queue \in Seq(Batches) /\ s.handoff \in Seq(CommitMsgs)
           /\ s.required \in BOOLEAN /\ s.again \in BOOLEAN /\ s.answer \in Batches
BY DEF SessionStates

LEMMA BatchIs ==
    ASSUME NEW commit, NEW rows
    PROVE  /\ [commit |-> commit, rows |-> rows] \in Batches <=> commit \in Nat /\ rows \in RowMaps
           /\ [commit |-> commit, rows |-> rows].commit = commit
           /\ [commit |-> commit, rows |-> rows].rows = rows
BY DEF Batches

LEMMA BatchFields ==
    ASSUME NEW b \in Batches
    PROVE  /\ b.commit \in Nat /\ b.rows \in RowMaps
           /\ DOMAIN b.rows \subseteq Rows /\ \A r \in DOMAIN b.rows : b.rows[r] \in Nat
<1>1. b.commit \in Nat /\ b.rows \in RowMaps
  BY DEF Batches
<1> QED BY <1>1, RowMapIs

LEMMA CommitFields ==
    ASSUME NEW c \in CommitMsgs
    PROVE  /\ c.commit \in Nat /\ c.rows \in RowMaps /\ c.kind = "commit"
           /\ DOMAIN c.rows \subseteq Rows /\ \A r \in DOMAIN c.rows : c.rows[r] \in Nat
           /\ [commit |-> c.commit, rows |-> c.rows] \in Batches
<1>1. c.commit \in Nat /\ c.rows \in RowMaps /\ c.kind = "commit"
  BY DEF CommitMsgs
<1> QED BY <1>1, RowMapIs, BatchIs

LEMMA RequireIs ==
    ASSUME NEW s \in SessionStates
    PROVE  Grows(s, Require(s)) /\ Require(s).queue = <<>>
<1> DEFINE n == [s EXCEPT !.queue = <<>>, !.required = TRUE, !.again = TRUE]
           b == BeginRefresh(n)
<1>0. <<>> \in Seq(Batches) /\ <<>> \in Seq(CommitMsgs) /\ TRUE \in BOOLEAN /\ FALSE \in BOOLEAN
  OBVIOUS
<1>1a. n \in SessionStates
  BY <1>0 DEF SessionStates
<1>1. /\ n \in SessionStates /\ n.queue = <<>> /\ n.gen = s.gen /\ n.phase = s.phase
      /\ n.next = s.next /\ n.inflight = s.inflight /\ n.answer = s.answer /\ n.read = s.read
      /\ n.handoff = s.handoff
  BY <1>1a DEF SessionStates
<1>2a. b \in SessionStates
  BY <1>0, <1>1a DEF SessionStates, BeginRefresh
<1>2. /\ b \in SessionStates /\ b.queue = <<>> /\ b.gen = s.gen /\ b.phase = s.phase
      /\ b.next = s.next /\ b.inflight = s.inflight /\ b.answer = s.answer /\ b.read = "asked"
      /\ b.handoff = <<>>
  BY <1>1, <1>2a DEF SessionStates, BeginRefresh
<1>3. Require(s) = IF s.phase = "open" /\ s.inflight = 0 /\ s.read = "none" THEN b ELSE n
  BY <1>1 DEF Require
<1>4. MaxQueued \in Nat
  BY BoundsAssumption
<1>5. QueueFits(n) /\ QueueFits(b)
  BY <1>1, <1>2, <1>4 DEF QueueFits
<1> HIDE DEF n, b
<1> QED BY <1>1, <1>2, <1>3, <1>5 DEF Grows

\* The queue of session s with another one in its place.
LEMMA Requeued ==
    ASSUME NEW s \in SessionStates, NEW q \in Seq(Batches), ~s.required,
           Len(q) <= MaxQueued,
           \A k \in DOMAIN q : /\ DOMAIN q[k].rows # {}
                               /\ Cardinality(DOMAIN q[k].rows) <= MaxBatchRows
    PROVE  Grows(s, [s EXCEPT !.queue = q]) /\ [s EXCEPT !.queue = q].queue = q
<1> DEFINE t == [s EXCEPT !.queue = q]
<1>1. /\ t \in SessionStates /\ t.queue = q /\ t.gen = s.gen /\ t.phase = s.phase
      /\ t.next = s.next /\ t.inflight = s.inflight /\ t.answer = s.answer /\ t.read = s.read
      /\ t.handoff = s.handoff /\ t.required = s.required
  BY DEF SessionStates
<1> HIDE DEF t
<1>2. QueueFits(t)
  BY <1>1 DEF QueueFits
<1>3. Grows(s, t) /\ t.queue = q
  BY <1>1, <1>2 DEF Grows
<1> QED BY <1>3 DEF t
\* Queue p is q with commit c in it.
Grown(p, q, c) ==
    /\ \A k \in DOMAIN p : MadeOf(p[k], q, c)
    /\ Ordered(q) /\ (\A k \in DOMAIN q : Precedes(q[k], c)) => Ordered(p)

LEMMA MergedBatch ==
    ASSUME NEW q \in Seq(Batches), NEW c \in CommitMsgs,
           NEW b, b = [commit |-> c.commit, rows |-> Merged(Append(q, c))]
    PROVE  b \in Batches /\ b.commit = c.commit /\ MadeOf(b, q, c)
           /\ DOMAIN c.rows \subseteq DOMAIN b.rows
<1> DEFINE S == Batches \cup CommitMsgs
           a == Append(q, c)
<1>1. q \in Seq(S) /\ c \in S
  OBVIOUS
<1>2. /\ a \in Seq(S) /\ DOMAIN a = 1..Len(q) + 1 /\ DOMAIN q = 1..Len(q) /\ Len(q) \in Nat
      /\ \A k \in 1..Len(q) : a[k] = q[k]
      /\ a[Len(q) + 1] = c
  <2> HIDE DEF S
  <2> QED BY <1>1, AppendIs
<1>3. \A k \in DOMAIN a : a[k].rows \in RowMaps
  <2>1. \A k \in DOMAIN q : q[k] \in Batches
    BY ElementsOf
  <2> HIDE DEF a
  <2>2. \A k \in DOMAIN a : k \in DOMAIN q \/ k = Len(q) + 1
    BY <1>2
  <2> QED BY <1>2, <2>1, <2>2, BatchFields, CommitFields
<1> HIDE DEF S, a
<1>4. /\ Merged(a) \in RowMaps
      /\ DOMAIN Merged(a) = UNION {DOMAIN a[k].rows : k \in DOMAIN a}
      /\ \A r \in DOMAIN Merged(a) :
            \E k \in DOMAIN a : r \in DOMAIN a[k].rows /\ Merged(a)[r] = a[k].rows[r]
  BY <1>2, <1>3, MergedIs
<1>5. b \in Batches /\ b.commit = c.commit /\ b.rows = Merged(a)
  BY <1>4, CommitFields, BatchIs DEF a
<1>6. DOMAIN c.rows \subseteq DOMAIN b.rows
  <2>1. Len(q) + 1 \in DOMAIN a
    BY <1>2
  <2> QED BY <1>2, <1>4, <1>5, <2>1
<1>7. MadeOf(b, q, c)
  <2>1. ASSUME NEW r \in DOMAIN b.rows
        PROVE  \/ r \in DOMAIN c.rows /\ b.rows[r] = c.rows[r]
               \/ \E j \in DOMAIN q : r \in DOMAIN q[j].rows /\ b.rows[r] = q[j].rows[r]
    <3>1. PICK k \in DOMAIN a : r \in DOMAIN a[k].rows /\ b.rows[r] = a[k].rows[r]
      BY <1>4, <1>5
    <3>2. k \in DOMAIN q \/ k = Len(q) + 1
      BY <1>2
    <3> QED BY <1>2, <3>1, <3>2
  <2> QED BY <1>5, <2>1 DEF MadeOf
<1> QED BY <1>5, <1>6, <1>7

\* A batch of the queue is made of it.
LEMMA MadeOfItself ==
    ASSUME NEW q, NEW k \in DOMAIN q, NEW c
    PROVE  MadeOf(q[k], q, c)
BY DEF MadeOf

\* What comes after all a batch is made of comes after the batch, and likewise before.
LEMMA MadeInOrder ==
    ASSUME NEW b \in Batches, NEW q \in Seq(Batches), NEW c \in CommitMsgs, MadeOf(b, q, c)
    PROVE  /\ \A x : (\A k \in DOMAIN q : Precedes(q[k], x)) /\ Precedes(c, x) => Precedes(b, x)
           /\ \A Y, B, Z : (\A k \in DOMAIN q : Between(q[k], Y, B, Z)) /\ Between(c, Y, B, Z)
                 => Between(b, Y, B, Z)
<1>1. \A r \in DOMAIN b.rows :
          \/ r \in DOMAIN c.rows /\ b.rows[r] = c.rows[r]
          \/ \E j \in DOMAIN q : r \in DOMAIN q[j].rows /\ b.rows[r] = q[j].rows[r]
  BY DEF MadeOf
<1>2. ASSUME NEW x, Over(c.rows, x), \A k \in DOMAIN q : Over(q[k].rows, x)
      PROVE  Over(b.rows, x)
  BY <1>1, <1>2 DEF Over
<1>3. ASSUME NEW y, Over(y, c.rows), \A k \in DOMAIN q : Over(y, q[k].rows)
      PROVE  Over(y, b.rows)
  BY <1>1, <1>3 DEF Over
<1>4. ASSUME NEW x, \A k \in DOMAIN q : Precedes(q[k], x), Precedes(c, x)
      PROVE  Precedes(b, x)
  <2>1. b.commit < x.commit
    BY <1>4 DEF MadeOf, Precedes
  <2>2. Over(b.rows, x.rows)
    BY <1>2, <1>4 DEF Precedes
  <2> QED BY <2>1, <2>2 DEF Precedes
<1>5. ASSUME NEW Y, NEW B, NEW Z, \A k \in DOMAIN q : Between(q[k], Y, B, Z),
             Between(c, Y, B, Z)
      PROVE  Between(b, Y, B, Z)
  <2>1. b.commit \in B
    BY <1>5 DEF MadeOf, Between
  <2>2. \A y \in Y : Over(y, b.rows)
    BY <1>3, <1>5 DEF Between
  <2>3. \A z \in Z : Over(b.rows, z)
    BY <1>2, <1>5 DEF Between
  <2> QED BY <2>1, <2>2, <2>3 DEF Between
<1> QED BY <1>4, <1>5

\* A queue that is appended to.
LEMMA AppendGrows ==
    ASSUME NEW q \in Seq(Batches), NEW c \in CommitMsgs, NEW p \in Seq(Batches),
           NEW b \in Batches, Len(p) <= Len(q), \A k \in DOMAIN p : p[k] = q[k],
           MadeOf(b, q, c),
           \A x : /\ Ordered(q) /\ \A k \in DOMAIN q : Precedes(q[k], c)
                  /\ x \in DOMAIN p
                  => Precedes(p[x], b)
    PROVE  Grown(Append(p, b), q, c)
<1> DEFINE a == Append(p, b)
<1>1. /\ DOMAIN a = 1..Len(p) + 1 /\ DOMAIN p = 1..Len(p) /\ Len(p) \in Nat
      /\ \A k \in 1..Len(p) : a[k] = p[k]
      /\ a[Len(p) + 1] = b
  BY AppendIs
<1>2. DOMAIN q = 1..Len(q) /\ Len(q) \in Nat /\ DOMAIN p \subseteq DOMAIN q
  BY <1>1
<1> HIDE DEF a
<1>3. \A k \in DOMAIN a : k \in DOMAIN p \/ k = Len(p) + 1
  BY <1>1
<1>4. ASSUME NEW k \in DOMAIN a
      PROVE  MadeOf(a[k], q, c)
  <2>1. CASE k \in DOMAIN p
    <3>1. a[k] = q[k] /\ k \in DOMAIN q
      BY <1>1, <1>2, <2>1
    <3> QED BY <3>1, MadeOfItself
  <2>2. CASE k = Len(p) + 1
    BY <1>1, <2>2
  <2> QED BY <1>3, <2>1, <2>2
<1>5. ASSUME Ordered(q), \A k \in DOMAIN q : Precedes(q[k], c)
      PROVE  Ordered(a)
  <2>1. \A x \in DOMAIN p : Precedes(p[x], b)
    BY <1>5
  <2>2. ASSUME NEW j \in DOMAIN a, NEW k \in DOMAIN a, j < k
        PROVE  Precedes(a[j], a[k])
    <3>1. j \in DOMAIN p /\ a[j] = p[j]
      BY <1>1, <2>2
    <3>2. CASE k \in DOMAIN p
      <4>1. a[k] = q[k] /\ a[j] = q[j] /\ j \in DOMAIN q /\ k \in DOMAIN q
        BY <1>1, <1>2, <3>1, <3>2
      <4> QED BY <1>5, <2>2, <4>1 DEF Ordered
    <3>3. CASE k = Len(p) + 1
      BY <1>1, <2>1, <3>1, <3>3
    <3> QED BY <1>3, <3>2, <3>3
  <2> QED BY <2>2 DEF Ordered
<1>6. Grown(a, q, c)
  BY <1>4, <1>5 DEF Grown
<1> QED BY <1>6 DEF a
\* A batch keeps to its bounds.
Sized(b) == DOMAIN b.rows # {} /\ Cardinality(DOMAIN b.rows) <= MaxBatchRows

LEMMA CompactedIs ==
    ASSUME NEW q \in Seq(Batches), Len(q) <= MaxQueued, \A k \in DOMAIN q : Sized(q[k]),
           NEW c \in CommitMsgs, DOMAIN c.rows # {}, Compacted(q, c) # None
    PROVE  /\ Compacted(q, c) \in Seq(Batches) /\ Len(Compacted(q, c)) <= MaxQueued
           /\ \A k \in DOMAIN Compacted(q, c) : Sized(Compacted(q, c)[k])
           /\ Grown(Compacted(q, c), q, c)
<1> DEFINE all  == [commit |-> c.commit, rows |-> Merged(Append(q, c))]
           tail == [commit |-> c.commit, rows |-> Merged(Append(<<Last(q)>>, c))]
           f    == Front(q)
<1>1. /\ q # <<>>
      /\ Compacted(q, c) = IF Cardinality(DOMAIN all.rows) <= MaxBatchRows THEN <<all>>
                           ELSE IF Cardinality(DOMAIN tail.rows) <= MaxBatchRows
                           THEN Append(f, tail) ELSE None
  BY DEF Compacted
<1>2. /\ f \in Seq(Batches) /\ Len(f) = Len(q) - 1 /\ Len(q) \in Nat /\ Len(q) >= 1
      /\ DOMAIN f = 1..Len(q) - 1 /\ DOMAIN q = 1..Len(q)
      /\ \A k \in 1..Len(q) - 1 : f[k] = q[k]
      /\ Last(q) = q[Len(q)] /\ Last(q) \in Batches
  BY <1>1, FrontIs
<1>3. MaxQueued \in Nat
  BY BoundsAssumption
<1>4. CASE Cardinality(DOMAIN all.rows) <= MaxBatchRows
  <2>1. all \in Batches /\ MadeOf(all, q, c) /\ DOMAIN c.rows \subseteq DOMAIN all.rows
    BY MergedBatch
  <2>2. Compacted(q, c) = <<all>>
    BY <1>1, <1>4
  <2> HIDE DEF all
  <2>3. <<all>> \in Seq(Batches) /\ Len(<<all>>) = 1 /\ \A k \in DOMAIN <<all>> : k = 1 /\ <<all>>[k] = all
    BY <2>1
  <2>4. Ordered(<<all>>)
    BY <2>3 DEF Ordered
  <2> QED BY <1>2, <1>3, <1>4, <2>1, <2>2, <2>3, <2>4 DEF Sized, Grown
<1>5. CASE /\ ~(Cardinality(DOMAIN all.rows) <= MaxBatchRows)
           /\ Cardinality(DOMAIN tail.rows) <= MaxBatchRows
  <2> DEFINE l == <<Last(q)>>
  <2>1. l \in Seq(Batches) /\ DOMAIN l = 1..1 /\ l[1] = q[Len(q)]
    BY <1>2
  <2>2. Compacted(q, c) = Append(f, tail)
    BY <1>1, <1>5
  <2>3. tail \in Batches /\ tail.commit = c.commit /\ MadeOf(tail, l, c)
        /\ DOMAIN c.rows \subseteq DOMAIN tail.rows
    <3>1. tail = [commit |-> c.commit, rows |-> Merged(Append(l, c))]
      OBVIOUS
    <3> HIDE DEF tail, l
    <3>2. tail \in Batches /\ tail.commit = c.commit /\ MadeOf(tail, l, c)
          /\ DOMAIN c.rows \subseteq DOMAIN tail.rows
      BY <2>1, <3>1, MergedBatch
    <3> QED BY <3>2
  <2>4. Sized(tail)
    BY <1>5, <2>3 DEF Sized
  <2> HIDE DEF tail, f, l
  <2>5. MadeOf(tail, q, c)
    <3>1. \A j \in DOMAIN l : l[j] = q[Len(q)] /\ Len(q) \in DOMAIN q
      BY <1>2, <2>1
    <3> QED BY <2>3, <3>1 DEF MadeOf
  <2>6. ASSUME NEW x \in DOMAIN f, Ordered(q), \A k \in DOMAIN q : Precedes(q[k], c)
        PROVE  Precedes(f[x], tail)
    <3>1. x \in DOMAIN q /\ Len(q) \in DOMAIN q /\ x < Len(q) /\ f[x] = q[x] /\ q[x] \in Batches
      BY <1>2, ElementsOf
    <3>2. Precedes(q[x], q[Len(q)]) /\ Precedes(q[x], c)
      BY <2>6, <3>1 DEF Ordered
    <3>3. Over(q[x].rows, tail.rows)
      <4>1. ASSUME NEW r \in DOMAIN q[x].rows \cap DOMAIN tail.rows
            PROVE  q[x].rows[r] <= tail.rows[r]
        <5>1. \/ r \in DOMAIN c.rows /\ tail.rows[r] = c.rows[r]
              \/ r \in DOMAIN q[Len(q)].rows /\ tail.rows[r] = q[Len(q)].rows[r]
          BY <2>1, <2>3 DEF MadeOf
        <5> QED BY <3>2, <5>1 DEF Precedes, Over
      <4> QED BY <4>1 DEF Over
    <3> QED BY <2>3, <3>1, <3>2, <3>3 DEF Precedes
  <2>7. \A k \in DOMAIN f : f[k] = q[k]
    BY <1>2
  <2>8. Grown(Append(f, tail), q, c)
    <3>1. Len(f) <= Len(q)
      BY <1>2
    <3> QED BY <1>2, <2>3, <2>5, <2>6, <2>7, <3>1, AppendGrows
  <2>9. /\ Append(f, tail) \in Seq(Batches) /\ Len(Append(f, tail)) = Len(q)
        /\ \A k \in DOMAIN Append(f, tail) : Sized(Append(f, tail)[k])
    <3>1. /\ Append(f, tail) \in Seq(Batches) /\ Len(Append(f, tail)) = Len(f) + 1
          /\ DOMAIN Append(f, tail) = 1..Len(f) + 1 /\ DOMAIN f = 1..Len(f) /\ Len(f) \in Nat
          /\ \A k \in 1..Len(f) : Append(f, tail)[k] = f[k]
          /\ Append(f, tail)[Len(f) + 1] = tail
      BY <1>2, <2>3, AppendIs
    <3>2. \A k \in 1..Len(f) + 1 : k \in 1..Len(f) \/ k = Len(f) + 1
      BY <3>1
    <3>3. \A k \in 1..Len(f) : k \in DOMAIN q
      BY <1>2
    <3> QED BY <1>2, <2>4, <2>7, <3>1, <3>2, <3>3
  <2> QED BY <2>2, <2>8, <2>9
<1> QED BY <1>1, <1>4, <1>5

LEMMA QueuedIs ==
    ASSUME NEW s \in SessionStates, QueueFits(s), ~s.required, NEW c \in CommitMsgs,
           DOMAIN c.rows # {}, Cardinality(DOMAIN c.rows) <= MaxBatchRows
    PROVE  Grows(s, Queued(s, c)) /\ Grown(Queued(s, c).queue, s.queue, c)
<1> DEFINE q == s.queue
           short == Compacted(q, c)
           b == [commit |-> c.commit, rows |-> c.rows]
<1>1. /\ q \in Seq(Batches) /\ Len(q) <= MaxQueued /\ \A k \in DOMAIN q : Sized(q[k])
      /\ Len(q) \in Nat /\ MaxQueued \in Nat
  BY SessionFields, BoundsAssumption DEF QueueFits, Sized
<1>2. CASE short # None
  <2>1. Queued(s, c) = [s EXCEPT !.queue = short]
    BY <1>2 DEF Queued
  <2>2. /\ short \in Seq(Batches) /\ Len(short) <= MaxQueued
        /\ \A k \in DOMAIN short : Sized(short[k])
        /\ Grown(short, q, c)
    BY <1>1, <1>2, CompactedIs
  <2> HIDE DEF short, q
  <2>3. Grows(s, [s EXCEPT !.queue = short]) /\ [s EXCEPT !.queue = short].queue = short
    BY <2>2, Requeued DEF Sized
  <2> QED BY <2>1, <2>2, <2>3 DEF q
<1>3. CASE ~(short # None) /\ Len(s.queue) >= MaxQueued
  <2>1. Queued(s, c) = Require(s)
    BY <1>3 DEF Queued
  <2>2. Grown(<<>>, q, c)
    BY DEF Grown, Ordered
  <2> QED BY <2>1, <2>2, RequireIs
<1>4. CASE ~(short # None) /\ ~(Len(s.queue) >= MaxQueued)
  <2>1. Queued(s, c) = [s EXCEPT !.queue = Append(q, b)]
    BY <1>4 DEF Queued
  <2>2. b \in Batches /\ b.commit = c.commit /\ b.rows = c.rows
    BY CommitFields
  <2>3. MadeOf(b, q, c) /\ Sized(b)
    BY <2>2 DEF MadeOf, Sized
  <2>4. \A k \in DOMAIN q : Precedes(q[k], c) => Precedes(q[k], b)
    BY <2>2 DEF Precedes
  <2> HIDE DEF b, q
  <2>5. Grown(Append(q, b), q, c)
    BY <1>1, <2>2, <2>3, <2>4, AppendGrows
  <2>6. /\ Append(q, b) \in Seq(Batches) /\ Len(Append(q, b)) = Len(q) + 1
        /\ DOMAIN Append(q, b) = 1..Len(q) + 1 /\ DOMAIN q = 1..Len(q)
        /\ \A k \in 1..Len(q) : Append(q, b)[k] = q[k]
        /\ Append(q, b)[Len(q) + 1] = b
    BY <1>1, <2>2, AppendIs
  <2>7. \A k \in 1..Len(q) + 1 : k \in 1..Len(q) \/ k = Len(q) + 1
    BY <1>1
  <2>8. Len(Append(q, b)) <= MaxQueued /\ \A k \in DOMAIN Append(q, b) : Sized(Append(q, b)[k])
    BY <1>1, <1>4, <2>3, <2>6, <2>7 DEF q
  <2>9. /\ Grows(s, [s EXCEPT !.queue = Append(q, b)])
        /\ [s EXCEPT !.queue = Append(q, b)].queue = Append(q, b)
    BY <2>6, <2>8, Requeued DEF Sized
  <2> QED BY <2>1, <2>5, <2>9 DEF q
<1> QED BY <1>2, <1>3, <1>4
LEMMA GrowsItself ==
    ASSUME NEW s \in SessionStates, NEW c
    PROVE  Grows(s, s) /\ Grown(s.queue, s.queue, c)
BY MadeOfItself DEF Grows, Grown

LEMMA SendIs ==
    ASSUME NEW kind, NEW s \in SessionStates, NEW commit, NEW rows,
           NEW r, r = Send(kind, s, commit, rows)
    PROVE  /\ r.s \in SessionStates /\ r.s.next = s.next + 1 /\ r.s.inflight = s.next
           /\ r.s.gen = s.gen /\ r.s.phase = s.phase /\ r.s.read = s.read
           /\ r.s.queue = s.queue /\ r.s.handoff = s.handoff /\ r.s.answer = s.answer
           /\ r.s.required = s.required
           /\ r.out # <<>> /\ r.out[1] = Frame(kind, s, commit, rows)
<1> DEFINE t == [s EXCEPT !.inflight = s.next, !.next = @ + 1]
<1>1. r = [s |-> t, out |-> <<Frame(kind, s, commit, rows)>>]
  BY DEF Send
<1>2. s.next \in Nat /\ s.next # 0 /\ s.next + 1 \in Nat \ {0}
  BY SessionFields
<1>3. t \in SessionStates
  BY <1>2 DEF SessionStates
<1>4. /\ t.next = s.next + 1 /\ t.inflight = s.next
      /\ t.gen = s.gen /\ t.phase = s.phase /\ t.read = s.read
      /\ t.queue = s.queue /\ t.handoff = s.handoff /\ t.answer = s.answer
      /\ t.required = s.required
  BY DEF SessionStates
<1> HIDE DEF t
<1>5. r.s = t /\ r.out = <<Frame(kind, s, commit, rows)>>
  BY <1>1
<1> QED BY <1>3, <1>4, <1>5

\* A commit is taken in, unless nothing is in flight: then it is sent.
LEMMA EnqueueIs ==
    ASSUME NEW s \in SessionStates, QueueFits(s), NEW c \in CommitMsgs,
           NEW r, r = Enqueue(s, c)
    PROVE  \/ r.out = <<>> /\ Grows(s, r.s) /\ Grown(r.s.queue, s.queue, c)
           \/ /\ r = Send("changes", s, c.commit, c.rows)
              /\ s.phase # "closed" /\ ~s.required /\ s.inflight = 0 /\ s.queue = <<>>
              /\ s.read = "none"
<1>1. \A t : Kept(t).s = t /\ Kept(t).out = <<>>
  BY DEF Kept
<1>2. Grown(<<>>, s.queue, c)
  BY DEF Grown, Ordered
<1>3. CASE s.phase = "closed" \/ s.required
  BY <1>1, <1>3, GrowsItself DEF Enqueue
<1>4. CASE ~(s.phase = "closed" \/ s.required)
  <2>1. CASE c.structural \/ Cardinality(DOMAIN c.rows) > MaxBatchRows
    <3>1. r = Kept(Require(s))
      BY <1>4, <2>1 DEF Enqueue
    <3> QED BY <1>1, <1>2, <3>1, RequireIs
  <2>2. CASE ~(c.structural \/ Cardinality(DOMAIN c.rows) > MaxBatchRows) /\ DOMAIN c.rows = {}
    <3>1. r = Kept(s)
      BY <1>4, <2>2 DEF Enqueue
    <3> QED BY <1>1, <3>1, GrowsItself
  <2>3. CASE /\ ~(c.structural \/ Cardinality(DOMAIN c.rows) > MaxBatchRows) /\ DOMAIN c.rows # {}
             /\ s.inflight = 0 /\ s.queue = <<>> /\ s.read = "none"
    <3>1. r = Send("changes", s, c.commit, c.rows)
      BY <1>4, <2>3 DEF Enqueue
    <3> QED BY <1>4, <2>3, <3>1, SessionFields
  <2>4. CASE /\ ~(c.structural \/ Cardinality(DOMAIN c.rows) > MaxBatchRows) /\ DOMAIN c.rows # {}
             /\ ~(s.inflight = 0 /\ s.queue = <<>> /\ s.read = "none")
    <3>1. r = Kept(Queued(s, c))
      BY <1>4, <2>4 DEF Enqueue
    <3>2. Grows(s, Queued(s, c)) /\ Grown(Queued(s, c).queue, s.queue, c)
      <4>1. Cardinality(DOMAIN c.rows) <= MaxBatchRows
        <5>1. Cardinality(DOMAIN c.rows) \in Nat /\ MaxBatchRows \in Nat
          BY CommitFields, RowsAssumption, BoundsAssumption, FS_Subset, FS_CardinalityType
        <5> QED BY <2>4, <5>1
      <4> QED BY <1>4, <2>4, <4>1, QueuedIs
    <3> QED BY <1>1, <3>1, <3>2
  <2> QED BY <2>1, <2>2, <2>3, <2>4
<1> QED BY <1>3, <1>4

\* A commit that the thread hears of.
LEMMA ObserveIs ==
    ASSUME NEW s \in SessionStates, SessionFits(s), NEW c \in CommitMsgs,
           NEW r, r = Observe(s, c)
    PROVE  \/ /\ r.out = <<>> /\ Grows(s, r.s) /\ Grown(r.s.queue, s.queue, c)
              /\ r.s = s \/ (s.phase = "open" /\ s.read = "none")
           \/ /\ r.out = <<>> /\ r.s = [s EXCEPT !.handoff = Append(@, c)]
              /\ s.phase = "opening" \/ s.read # "none"
           \/ /\ r = Send("changes", s, c.commit, c.rows)
              /\ s.phase = "open" /\ ~s.required /\ s.inflight = 0 /\ s.queue = <<>>
              /\ s.read = "none"
<1>1. \A t : Kept(t).s = t /\ Kept(t).out = <<>>
  BY DEF Kept
<1>2. CASE s.phase \notin {"opening", "open"}
  BY <1>1, <1>2, GrowsItself DEF Observe
<1>3. CASE s.phase \in {"opening", "open"} /\ Collects(s)
  <2>1. r = Kept([s EXCEPT !.handoff = Append(@, c)])
    BY <1>3 DEF Observe
  <2> QED BY <1>1, <1>3, <2>1 DEF Collects
<1>4. CASE s.phase \in {"opening", "open"} /\ ~Collects(s)
  <2>1. r = Enqueue(s, c) /\ QueueFits(s)
    BY <1>4 DEF Observe, SessionFits
  <2> QED BY <1>4, <2>1, EnqueueIs DEF Collects
<1> QED BY <1>2, <1>3, <1>4

\* While a snapshot is handed over, the commits after it only queue up behind it.
RunFits(first, s, k, t) ==
    /\ t \in SessionStates /\ QueueFits(t)
    /\ t.gen = first.gen /\ t.phase = first.phase /\ t.next = first.next
    /\ t.inflight = first.inflight /\ t.read = first.read /\ t.handoff = first.handoff
    /\ Ordered(t.queue)
    /\ \A j \in DOMAIN t.queue :
          /\ t.queue[j].commit > s.answer.commit
          /\ \A h \in DOMAIN s.handoff : h > k => Precedes(t.queue[j], s.handoff[h])
          /\ \A Y, B, Z : (\A h \in DOMAIN s.handoff : Handed(s, s.handoff[h])
                                                       => Between(s.handoff[h], Y, B, Z))
                          => Between(t.queue[j], Y, B, Z)

LEMMA RunFitsNext ==
    ASSUME NEW first, first.read # "none", NEW s \in SessionStates, Ordered(s.handoff),
           NEW k \in DOMAIN s.handoff, NEW t, RunFits(first, s, k - 1, t)
    PROVE  RunFits(first, s, k, IF Handed(s, s.handoff[k]) THEN Enqueue(t, s.handoff[k]).s ELSE t)
<1> DEFINE c == s.handoff[k]
<1>1. c \in CommitMsgs /\ k \in Nat /\ DOMAIN s.handoff \subseteq Nat
  BY SessionFields, ElementsOf
<1>2. CASE ~Handed(s, c)
  <2>1. \A h \in DOMAIN s.handoff : h > k => h > k - 1
    BY <1>1
  <2> QED BY <1>2, <2>1 DEF RunFits
<1>3. CASE Handed(s, c)
  <2> DEFINE u == Enqueue(t, c).s
  <2>1. t \in SessionStates /\ QueueFits(t) /\ t.read # "none"
    BY DEF RunFits
  <2>2. Grows(t, u) /\ Grown(u.queue, t.queue, c)
    <3> HIDE DEF c
    <3> QED BY <1>1, <2>1, EnqueueIs
  <2> HIDE DEF u
  <2>3. u \in SessionStates /\ QueueFits(u) /\ t.queue \in Seq(Batches) /\ u.queue \in Seq(Batches)
    BY <2>1, <2>2, SessionFields DEF Grows
  <2>4. /\ u.gen = first.gen /\ u.phase = first.phase /\ u.next = first.next
        /\ u.inflight = first.inflight /\ u.read = first.read /\ u.handoff = first.handoff
    BY <2>1, <2>2 DEF Grows, RunFits
  <2>5. \A j \in DOMAIN t.queue : Precedes(t.queue[j], c)
    <3>1. k > k - 1
      BY <1>1
    <3> QED BY <3>1 DEF RunFits
  <2>6. Ordered(u.queue)
    BY <2>2, <2>5 DEF Grown, RunFits
  <2>7. ASSUME NEW j \in DOMAIN u.queue
        PROVE  /\ u.queue[j].commit > s.answer.commit
               /\ \A h \in DOMAIN s.handoff : h > k => Precedes(u.queue[j], s.handoff[h])
               /\ \A Y, B, Z : (\A h \in DOMAIN s.handoff : Handed(s, s.handoff[h])
                                                            => Between(s.handoff[h], Y, B, Z))
                               => Between(u.queue[j], Y, B, Z)
    <3>1. MadeOf(u.queue[j], t.queue, c) /\ u.queue[j] \in Batches
      BY <2>2, <2>3, ElementsOf DEF Grown
    <3>2. u.queue[j].commit > s.answer.commit
      BY <1>3, <3>1 DEF MadeOf, Handed, RunFits
    <3>3. ASSUME NEW h \in DOMAIN s.handoff, h > k
          PROVE  Precedes(u.queue[j], s.handoff[h])
      <4>1. h > k - 1 /\ k < h
        BY <1>1, <3>3
      <4>2. \A i \in DOMAIN t.queue : Precedes(t.queue[i], s.handoff[h])
        BY <4>1 DEF RunFits
      <4>3. Precedes(c, s.handoff[h])
        BY <4>1 DEF Ordered
      <4> QED BY <1>1, <2>3, <3>1, <4>2, <4>3, MadeInOrder
    <3>4. ASSUME NEW Y, NEW B, NEW Z, \A h \in DOMAIN s.handoff :
                     Handed(s, s.handoff[h]) => Between(s.handoff[h], Y, B, Z)
          PROVE  Between(u.queue[j], Y, B, Z)
      <4>1. \A i \in DOMAIN t.queue : Between(t.queue[i], Y, B, Z)
        BY <3>4 DEF RunFits
      <4>2. Between(c, Y, B, Z)
        BY <1>3, <3>4
      <4> QED BY <1>1, <2>3, <3>1, <4>1, <4>2, MadeInOrder
    <3> QED BY <3>2, <3>3, <3>4
  <2>8. RunFits(first, s, k, u)
    BY <2>3, <2>4, <2>6, <2>7 DEF RunFits
  <2> QED BY <1>3, <2>8 DEF u
<1> QED BY <1>2, <1>3
IsRun(run, first, s, n) ==
    run = [k \in 0..n |-> IF k = 0 THEN first
                          ELSE IF Handed(s, s.handoff[k]) THEN Enqueue(run[k - 1], s.handoff[k]).s
                          ELSE run[k - 1]]

\* The recursive function that Replayed chooses exists.
LEMMA RunsExist ==
    ASSUME NEW first, NEW s, NEW n \in Nat
    PROVE  \E run : IsRun(run, first, s, n)
<1> DEFINE Step(t, k) == IF Handed(s, s.handoff[k]) THEN Enqueue(t, s.handoff[k]).s ELSE t
           T == {m \in Nat : ~ \E run : IsRun(run, first, s, m)}
<1>0. \A run, m : IsRun(run, first, s, m) <=>
         run = [k \in 0..m |-> IF k = 0 THEN first ELSE Step(run[k - 1], k)]
  BY DEF IsRun
<1> SUFFICES ASSUME T # {} PROVE FALSE
  OBVIOUS
<1>1. PICK m \in T : \A k \in T : m <= k
  BY Least
<1> HIDE DEF Step
<1>2. CASE m = 0
  <2>1. [k \in 0..0 |-> first] = [k \in 0..0 |-> IF k = 0 THEN first
                                                ELSE Step([j \in 0..0 |-> first][k - 1], k)]
    OBVIOUS
  <2> QED BY <1>0, <1>1, <1>2, <2>1
<1>3. CASE m # 0
  <2>1. m - 1 \in Nat /\ m - 1 \notin T
    BY <1>1, <1>3
  <2>2. PICK run : IsRun(run, first, s, m - 1)
    BY <2>1
  <2> DEFINE more == [k \in 0..m |-> IF k = m THEN Step(run[m - 1], m) ELSE run[k]]
  <2>3. \A k \in 0..m-1 : run[k] = IF k = 0 THEN first ELSE Step(run[k - 1], k)
    BY <1>0, <2>2
  <2>4. \A k \in 0..m : more[k] = IF k = 0 THEN first ELSE Step(more[k - 1], k)
    BY <1>1, <1>3, <2>1, <2>3
  <2> HIDE DEF more
  <2>5. more = [k \in 0..m |-> more[k]]
    BY DEF more
  <2>6. [k \in 0..m |-> more[k]] = [k \in 0..m |-> IF k = 0 THEN first ELSE Step(more[k - 1], k)]
    BY <2>4
  <2>7. IsRun(more, first, s, m)
    BY <1>0, <2>5, <2>6, Zenon
  <2> QED BY <1>1, <2>7
<1> QED BY <1>2, <1>3

LEMMA ReplayedRun ==
    ASSUME NEW first, NEW s, Len(s.handoff) \in Nat
    PROVE  \E run : IsRun(run, first, s, Len(s.handoff)) /\ Replayed(first, s) = run[Len(s.handoff)]
<1> DEFINE P(r) == r = [k \in 0..Len(s.handoff) |->
                           IF k = 0 THEN first
                           ELSE IF Handed(s, s.handoff[k]) THEN Enqueue(r[k - 1], s.handoff[k]).s
                           ELSE r[k - 1]]
<1>0. PICK q : IsRun(q, first, s, Len(s.handoff))
  BY RunsExist
<1>1. \E r : P(r)
  BY <1>0 DEF IsRun
<1>2. P(CHOOSE r : P(r))
  BY <1>1
<1> QED BY <1>2 DEF Replayed, IsRun

LEMMA ReplayedIs ==
    ASSUME NEW s \in SessionStates, Ordered(s.handoff),
           NEW first \in SessionStates, first.queue = <<>>, QueueFits(first), first.read # "none"
    PROVE  RunFits(first, s, Len(s.handoff), Replayed(first, s))
<1>1. s.handoff \in Seq(CommitMsgs) /\ Len(s.handoff) \in Nat
      /\ DOMAIN s.handoff = 1..Len(s.handoff)
  BY SessionFields, ElementsOf
<1>2. PICK run : IsRun(run, first, s, Len(s.handoff)) /\ Replayed(first, s) = run[Len(s.handoff)]
  BY <1>1, ReplayedRun
<1> DEFINE n == Len(s.handoff)
           T == {k \in 0..n : ~RunFits(first, s, k, run[k])}
<1>3. \A k \in 0..n : run[k] = IF k = 0 THEN first
                               ELSE IF Handed(s, s.handoff[k]) THEN Enqueue(run[k - 1], s.handoff[k]).s
                               ELSE run[k - 1]
  BY <1>2 DEF IsRun
<1>4. RunFits(first, s, 0, first)
  BY DEF RunFits, Ordered
<1>5. T = {}
  <2> SUFFICES ASSUME T # {} PROVE FALSE
    OBVIOUS
  <2>1. T \in SUBSET Nat
    BY <1>1
  <2>2. PICK k \in T : \A m \in T : k <= m
    <3> HIDE DEF T
    <3> QED BY <2>1, Least
  <2>3. k \in 0..n /\ k # 0
    BY <1>1, <1>3, <1>4, <2>2
  <2>4. k - 1 \in 0..n /\ k - 1 \notin T /\ k \in DOMAIN s.handoff
    BY <1>1, <2>2, <2>3
  <2>5. RunFits(first, s, k - 1, run[k - 1])
    BY <2>4
  <2>6. RunFits(first, s, k, IF Handed(s, s.handoff[k]) THEN Enqueue(run[k - 1], s.handoff[k]).s
                             ELSE run[k - 1])
    BY <2>4, <2>5, RunFitsNext
  <2> QED BY <1>3, <2>2, <2>3, <2>6
<1> QED BY <1>1, <1>2, <1>5

\* The session after its snapshot is handed out.
LEMMA HandOverIs ==
    ASSUME NEW s \in SessionStates, s.queue = <<>>, s.read = "answered", Ordered(s.handoff),
           NEW req \in BOOLEAN, NEW r, r = HandOver(s, req)
    PROVE  /\ r.s \in SessionStates /\ QueueFits(r.s)
           /\ r.s.gen = s.gen /\ r.s.phase = s.phase /\ r.s.next = s.next + 1
           /\ r.s.inflight = s.next /\ r.s.read = "none" /\ r.s.handoff = <<>>
           /\ Ordered(r.s.queue)
           /\ \A j \in DOMAIN r.s.queue :
                 /\ r.s.queue[j].commit > s.answer.commit
                 /\ \A Y, B, Z : (\A h \in DOMAIN s.handoff : Handed(s, s.handoff[h])
                                                              => Between(s.handoff[h], Y, B, Z))
                                 => Between(r.s.queue[j], Y, B, Z)
           /\ r.out # <<>>
           /\ r.out[1] = Frame("snapshot", s, s.answer.commit, s.answer.rows)
<1> DEFINE s0   == [s EXCEPT !.required = req, !.handoff = <<>>]
           sent == Send("snapshot", s0, s.answer.commit, s.answer.rows)
           t    == Replayed(sent.s, s)
           u    == [t EXCEPT !.read = "none", !.answer = Unused.answer]
<1>1. r = [s |-> u, out |-> sent.out]
  BY DEF HandOver
<1>2. <<>> \in Seq(CommitMsgs)
  OBVIOUS
<1>3. s0 \in SessionStates
  BY <1>2 DEF SessionStates
<1>4. /\ s0.queue = <<>> /\ s0.read = "answered" /\ s0.handoff = <<>> /\ s0.gen = s.gen
      /\ s0.phase = s.phase /\ s0.next = s.next
  BY DEF SessionStates
<1> HIDE DEF s0
<1>5. /\ sent.s \in SessionStates /\ sent.s.next = s.next + 1 /\ sent.s.inflight = s.next
      /\ sent.s.gen = s.gen /\ sent.s.phase = s.phase /\ sent.s.read = "answered"
      /\ sent.s.queue = <<>> /\ sent.s.handoff = <<>>
      /\ sent.out # <<>> /\ sent.out[1] = Frame("snapshot", s0, s.answer.commit, s.answer.rows)
  BY <1>3, <1>4, SendIs
<1>6. sent.out[1] = Frame("snapshot", s, s.answer.commit, s.answer.rows)
  BY <1>4, <1>5 DEF Frame
<1> HIDE DEF sent
<1>7. MaxQueued \in Nat
  BY BoundsAssumption
<1>8. QueueFits(sent.s)
  BY <1>5, <1>7 DEF QueueFits
<1>9. RunFits(sent.s, s, Len(s.handoff), t)
  BY <1>5, <1>8, ReplayedIs
<1> HIDE DEF t
<1>10. t \in SessionStates
  BY <1>9 DEF RunFits
<1>11. Unused.answer \in Batches
  <2>1. NoRows \in RowMaps
    <3>1. NoRows = [x \in {} |-> 0]
      BY DEF NoRows
    <3>2. DOMAIN NoRows = {}
      BY <3>1
    <3>3. NoRows = [x \in DOMAIN NoRows |-> NoRows[x]]
      BY <3>1
    <3> QED BY <3>2, <3>3, RowMapIs
  <2>2. Unused.answer = [commit |-> 0, rows |-> NoRows]
    BY DEF Unused
  <2> QED BY <2>1, <2>2, BatchIs
<1>12. u \in SessionStates
  <2> DEFINE e == Unused.answer
  <2> HIDE DEF e
  <2>1. [t EXCEPT !.read = "none", !.answer = e] \in SessionStates
    BY <1>10, <1>11 DEF SessionStates, e
  <2> QED BY <2>1 DEF e
<1>13. /\ u.gen = t.gen /\ u.phase = t.phase /\ u.next = t.next /\ u.inflight = t.inflight
       /\ u.read = "none" /\ u.handoff = t.handoff /\ u.queue = t.queue /\ u.required = t.required
  BY <1>10 DEF SessionStates
<1> HIDE DEF u
<1>14. r.s = u /\ r.out = sent.out
  BY <1>1
<1>15. QueueFits(u)
  BY <1>9, <1>13 DEF RunFits, QueueFits
<1> QED BY <1>5, <1>6, <1>9, <1>12, <1>13, <1>14, <1>15 DEF RunFits
---------------------------------------------------------------------------
(* What a session has queued, collected and read *)

\* Whatever is not older than Y is not older than X, and whatever is not newer than Z is not
\* newer than W.
Moves(Y, B, Z, X, A, W) ==
    /\ Y \cup Z \cup X \cup W \subseteq RowMaps
    /\ \A x \in X : \A r \in DOMAIN x : \E y \in Y : r \in DOMAIN y /\ x[r] <= y[r]
    /\ B \subseteq A
    /\ \A w \in W : \A r \in DOMAIN w : \E z \in Z : r \in DOMAIN z /\ z[r] <= w[r]

LEMMA BetweenKept ==
    ASSUME NEW Y, NEW B, NEW Z, NEW X, NEW A, NEW W, Moves(Y, B, Z, X, A, W),
           NEW x, x.rows \in RowMaps, Between(x, Y, B, Z)
    PROVE  Between(x, X, A, W)
<1>0. DOMAIN x.rows \subseteq Rows /\ \A r \in DOMAIN x.rows : x.rows[r] \in Nat
  BY RowMapIs
<1>1. x.commit \in A
  BY DEF Between, Moves
<1>2. ASSUME NEW y \in X, NEW r \in DOMAIN y \cap DOMAIN x.rows
      PROVE  y[r] <= x.rows[r]
  <2>1. PICK z \in Y : r \in DOMAIN z /\ y[r] <= z[r]
    BY DEF Moves
  <2>2. z[r] <= x.rows[r]
    BY <2>1 DEF Between, Over
  <2>3. y[r] \in Nat /\ z[r] \in Nat
    BY <2>1, RowMapIs DEF Moves
  <2> QED BY <1>0, <2>1, <2>2, <2>3
<1>3. ASSUME NEW w \in W, NEW r \in DOMAIN x.rows \cap DOMAIN w
      PROVE  x.rows[r] <= w[r]
  <2>1. PICK z \in Z : r \in DOMAIN z /\ z[r] <= w[r]
    BY DEF Moves
  <2>2. x.rows[r] <= z[r]
    BY <2>1 DEF Between, Over
  <2>3. w[r] \in Nat /\ z[r] \in Nat
    BY <2>1, RowMapIs DEF Moves
  <2> QED BY <1>0, <2>1, <2>2, <2>3
<1> QED BY <1>1, <1>2, <1>3 DEF Between, Over

LEMMA ContentKept ==
    ASSUME NEW Y, NEW B, NEW Z, NEW X, NEW A, NEW W, Moves(Y, B, Z, X, A, W),
           NEW s \in SessionStates, ContentFits(s, Y, B, Z)
    PROVE  ContentFits(s, X, A, W)
<1>1. /\ \A k \in DOMAIN s.queue : s.queue[k].rows \in RowMaps
      /\ \A k \in DOMAIN s.handoff : s.handoff[k].rows \in RowMaps
      /\ s.answer.rows \in RowMaps
  <2>1. s.queue \in Seq(Batches) /\ s.handoff \in Seq(CommitMsgs) /\ s.answer \in Batches
    BY SessionFields
  <2>2. /\ \A k \in DOMAIN s.queue : s.queue[k] \in Batches
        /\ \A k \in DOMAIN s.handoff : s.handoff[k] \in CommitMsgs
    BY <2>1, ElementsOf
  <2> QED BY <2>1, <2>2, BatchFields, CommitFields
<1>2. Moves({}, B, Z, {}, A, W)
  BY DEF Moves
<1>3. \A k \in DOMAIN s.queue : Between(s.queue[k], X, A, W)
  BY <1>1, BetweenKept DEF ContentFits
<1>4. \A k \in DOMAIN s.handoff : Between(s.handoff[k], {}, A, W)
  BY <1>1, <1>2, BetweenKept DEF ContentFits
<1>5. s.read = "answered" => Between(s.answer, X, A, W)
  BY <1>1, BetweenKept DEF ContentFits
<1> QED BY <1>3, <1>4, <1>5 DEF ContentFits

\* A session that is sent nothing needs nothing to be older.
LEMMA ContentUnseen ==
    ASSUME NEW Y, NEW B, NEW Z, NEW s, ContentFits(s, Y, B, Z), NEW X, X \subseteq Y
    PROVE  ContentFits(s, X, B, Z)
<1>1. \A x : Between(x, Y, B, Z) => Between(x, X, B, Z)
  BY DEF Between
<1> QED BY <1>1 DEF ContentFits

\* Of a session that neither queues nor has an answer, only what it collects matters.
LEMMA ContentOfIdle ==
    ASSUME NEW s, NEW t, NEW Y, NEW X, NEW B, NEW Z, ContentFits(s, Y, B, Z),
           t.queue = <<>>, t.read # "answered", t.handoff = s.handoff \/ t.handoff = <<>>
    PROVE  ContentFits(t, X, B, Z)
BY DEF ContentFits, Ordered

LEMMA ContentGrows ==
    ASSUME NEW Y, NEW B, NEW Z, NEW s \in SessionStates, ContentFits(s, Y, B, Z),
           NEW c \in CommitMsgs, NEW t, Grows(s, t), Grown(t.queue, s.queue, c),
           Between(c, Y, B, Z), \A k \in DOMAIN s.queue : Precedes(s.queue[k], c)
    PROVE  ContentFits(t, Y, B, Z)
<1>1. s.queue \in Seq(Batches) /\ t.queue \in Seq(Batches)
  BY SessionFields DEF Grows
<1>2. \A k \in DOMAIN t.queue : t.queue[k] \in Batches /\ MadeOf(t.queue[k], s.queue, c)
  BY <1>1, ElementsOf DEF Grown
<1>3. \A k \in DOMAIN t.queue : Between(t.queue[k], Y, B, Z)
  BY <1>1, <1>2, MadeInOrder DEF ContentFits
<1>4. Ordered(t.queue)
  BY DEF Grown, ContentFits
<1>5. t.answer = s.answer /\ (t.handoff = s.handoff \/ t.handoff = <<>>)
      /\ (t.read = "answered" => s.read = "answered" /\ t.handoff = s.handoff)
  BY DEF Grows
<1>6. Ordered(<<>>)
  BY DEF Ordered
<1> QED BY <1>3, <1>4, <1>5, <1>6 DEF ContentFits, Handed

\* What is handed over comes after the snapshot that goes first.
LEMMA ContentHandedOver ==
    ASSUME NEW Y, NEW B, NEW Z, Y \subseteq RowMaps, NEW s \in SessionStates,
           ContentFits(s, Y, B, Z), s.read = "answered", DOMAIN s.answer.rows = Rows,
           s.queue = <<>>, NEW req \in BOOLEAN, NEW r, r = HandOver(s, req)
    PROVE  ContentFits(r.s, Y \cup {s.answer.rows}, B, Z)
<1>1. Ordered(s.handoff)
  BY DEF ContentFits
<1>2. /\ r.s.read = "none" /\ r.s.handoff = <<>> /\ Ordered(r.s.queue)
      /\ \A j \in DOMAIN r.s.queue :
            \A X, A, W : (\A h \in DOMAIN s.handoff : Handed(s, s.handoff[h])
                                                      => Between(s.handoff[h], X, A, W))
                         => Between(r.s.queue[j], X, A, W)
  BY <1>1, HandOverIs
<1>3. ASSUME NEW h \in DOMAIN s.handoff, Handed(s, s.handoff[h])
      PROVE  Between(s.handoff[h], Y \cup {s.answer.rows}, B, Z)
  <2>1. Over(s.answer.rows, s.handoff[h].rows) /\ Between(s.handoff[h], {}, B, Z)
        /\ Between(s.answer, Y, B, Z)
    BY <1>3 DEF ContentFits
  <2>2. ASSUME NEW y \in Y, NEW x \in DOMAIN y \cap DOMAIN s.handoff[h].rows
        PROVE  y[x] <= s.handoff[h].rows[x]
    <3>1. s.handoff[h] \in CommitMsgs /\ s.answer \in Batches
      BY SessionFields, ElementsOf
    <3>2. x \in Rows /\ y[x] \in Nat /\ s.handoff[h].rows[x] \in Nat
      BY <3>1, CommitFields, RowMapIs
    <3>3. s.answer.rows[x] \in Nat
      BY <3>1, <3>2, BatchFields
    <3>4. y[x] <= s.answer.rows[x] /\ s.answer.rows[x] <= s.handoff[h].rows[x]
      BY <2>1, <3>2 DEF Between, Over
    <3> QED BY <3>2, <3>3, <3>4
  <2> QED BY <2>1, <2>2 DEF Between, Over
<1>4. \A j \in DOMAIN r.s.queue : Between(r.s.queue[j], Y \cup {s.answer.rows}, B, Z)
  <2> DEFINE X == Y \cup {s.answer.rows}
  <2>1. \A h \in DOMAIN s.handoff : Handed(s, s.handoff[h]) => Between(s.handoff[h], X, B, Z)
    BY <1>3
  <2> HIDE DEF X
  <2>2. \A j \in DOMAIN r.s.queue : Between(r.s.queue[j], X, B, Z)
    BY <1>2, <2>1
  <2> QED BY <2>2 DEF X
<1>5. DOMAIN r.s.handoff = {} /\ Ordered(r.s.handoff) /\ ~(r.s.read = "answered")
  BY <1>2 DEF Ordered
<1>6. Ordered(r.s.queue)
  BY <1>2
<1> HIDE <1>2
<1> QED BY <1>4, <1>5, <1>6 DEF ContentFits

\* A session after a commit: without the commit in its queue, with it, or with it sent.
LEMMA FitsGrown ==
    ASSUME NEW s \in SessionStates, SessionFits(s), NEW t, Grows(s, t),
           t.queue = <<>> \/ (s.phase = "open" /\ s.read = "none")
    PROVE  SessionFits(t)
<1>1. s.read = t.read \/ (s.phase = "open" /\ s.read = "none" /\ s.inflight = 0 /\ t.read = "asked"
                          /\ t.queue = <<>>)
  BY DEF Grows
<1> QED BY <1>1 DEF Grows, SessionFits

LEMMA FitsSent ==
    ASSUME NEW s \in SessionStates, QueueFits(s), s.phase = "open" \/ s.phase = "closed",
           s.read = "none", NEW kind, NEW commit, NEW rows, NEW r, r = Send(kind, s, commit, rows)
    PROVE  SessionFits(r.s)
<1>1. /\ r.s.next = s.next + 1 /\ r.s.inflight = s.next /\ r.s.phase = s.phase
      /\ r.s.read = s.read /\ r.s.queue = s.queue /\ r.s.required = s.required
  BY SendIs
<1>2. s.next \in Nat
  BY SessionFields
<1>3. QueueFits(r.s)
  BY <1>1 DEF QueueFits
<1> QED BY <1>1, <1>2, <1>3 DEF SessionFits
---------------------------------------------------------------------------
(* What is still to come to the thread, and what has been sent *)

LEMMA MsgFields ==
    ASSUME NEW m \in Msgs
    PROVE  /\ m.commit \in Nat /\ m.rows \in RowMaps /\ m.kind \in {"commit", "answer"}
           /\ m.kind = "commit" <=> m \in CommitMsgs
           /\ m.kind = "answer" <=> m \in AnswerMsgs
           /\ m.kind = "answer" => /\ m.to \in Sessions /\ m.failed \in BOOLEAN
                                   /\ m.rows \in [Rows -> Nat]
<1>1. CASE m \in CommitMsgs
  <2>1. m.kind = "commit"
    BY <1>1, CommitFields
  <2>2. m \notin AnswerMsgs
    BY <2>1 DEF AnswerMsgs
  <2> QED BY <1>1, <2>1, <2>2, CommitFields
<1>2. CASE m \in AnswerMsgs
  <2>1. /\ m.commit \in Nat /\ m.rows \in [Rows -> Nat] /\ m.kind = "answer" /\ m.to \in Sessions
        /\ m.failed \in BOOLEAN
    BY <1>2 DEF AnswerMsgs
  <2>2. m.rows \in RowMaps
    BY <2>1 DEF RowMaps
  <2>3. m \notin CommitMsgs
    BY <2>1 DEF CommitMsgs
  <2> QED BY <1>2, <2>1, <2>2, <2>3
<1> QED BY <1>1, <1>2 DEF Msgs

LEMMA FutureIs ==
    ASSUME NEW d \in [Rows -> Nat], NEW m \in Seq(Msgs), NEW n \in Nat
    PROVE  FutureOf(d, m) \subseteq RowMaps /\ BeforeOf(n, m) \subseteq Nat
<1>1. d \in RowMaps
  BY DEF RowMaps
<1>2. \A k \in DOMAIN m : m[k].rows \in RowMaps
  BY ElementsOf, MsgFields
<1> QED BY <1>1, <1>2 DEF FutureOf, BeforeOf

LEMMA FrameFields ==
    ASSUME NEW f \in WireFrames
    PROVE  /\ f.commit \in Nat /\ f.rows \in RowMaps /\ f.seq \in Nat /\ f.sess \in Nat
           /\ f.gen \in Nat /\ f.copy \in BOOLEAN /\ f.kind \in {"snapshot", "changes"}
BY DEF WireFrames

LEMMA PageFields ==
    ASSUME NEW p \in Pages
    PROVE  /\ p.commit \in Nat /\ p.rows \in [Rows -> Nat] /\ p.rows \in RowMaps
           /\ p.seq \in Nat /\ p.sess \in Nat
           /\ p.gen \in Nat /\ p.loading \in BOOLEAN /\ p.retired \in SUBSET Nat
BY DEF Pages, RowMaps

LEMMA ShownIs ==
    ASSUME NEW pg \in Pages, NEW w \in Seq(WireFrames), NEW p, p # None => p \in Posts
    PROVE  ShownOf(pg, w, p) \subseteq RowMaps
<1>1. pg.rows \in RowMaps
  BY PageFields
<1>2. \A k \in DOMAIN w : w[k].rows \in RowMaps
  BY ElementsOf, FrameFields
<1>3. p # None => p.frame.rows \in RowMaps
  BY FrameFields DEF Posts
<1> QED BY <1>1, <1>2, <1>3 DEF ShownOf

\* A message whose rows are the database's, or a commit of another Host.
LEMMA FutureGrows ==
    ASSUME NEW d \in [Rows -> Nat], NEW e \in [Rows -> Nat], \A r \in Rows : d[r] <= e[r],
           NEW m \in Seq(Msgs), NEW n \in Nat, NEW k \in Nat, n <= k,
           NEW p \in Seq(Msgs),
           \/ p = m
           \/ \E x \in Msgs : /\ p = Append(m, x)
                              /\ x.commit >= n
                              /\ x.kind = "commit" => x.commit > n
                              /\ \A r \in DOMAIN x.rows : d[r] <= x.rows[r],
           NEW Y \in SUBSET RowMaps
    PROVE  Moves(Y, BeforeOf(n, m), FutureOf(d, m), Y, BeforeOf(k, p), FutureOf(e, p))
<1>1. FutureOf(d, m) \subseteq RowMaps /\ FutureOf(e, p) \subseteq RowMaps
  BY FutureIs
<1>2. \A y \in Y : \A r \in DOMAIN y : y[r] <= y[r]
  BY RowMapIs
<1>3. CASE p = m
  <2>1. BeforeOf(n, m) \subseteq BeforeOf(k, p)
    BY <1>3 DEF BeforeOf
  <2>2. ASSUME NEW w \in FutureOf(e, p), NEW r \in DOMAIN w
        PROVE  \E z \in FutureOf(d, m) : r \in DOMAIN z /\ z[r] <= w[r]
    <3>1. CASE w = e
      BY <3>1 DEF FutureOf
    <3>2. CASE w # e
      <4>1. w \in FutureOf(d, m) /\ w[r] \in Nat
        BY <1>1, <1>3, <3>2, RowMapIs DEF FutureOf
      <4> QED BY <4>1
    <3> QED BY <3>1, <3>2
  <2> QED BY <1>1, <1>2, <2>1, <2>2 DEF Moves
<1>4. ASSUME NEW x \in Msgs, p = Append(m, x), x.commit >= n,
             x.kind = "commit" => x.commit > n, \A r \in DOMAIN x.rows : d[r] <= x.rows[r]
      PROVE  Moves(Y, BeforeOf(n, m), FutureOf(d, m), Y, BeforeOf(k, p), FutureOf(e, p))
  <2>0. /\ DOMAIN p = 1..Len(m) + 1 /\ DOMAIN m = 1..Len(m) /\ Len(m) \in Nat
        /\ \A j \in 1..Len(m) : p[j] = m[j]
        /\ p[Len(m) + 1] = x
    BY <1>4, AppendIs
  <2>1. \A j \in DOMAIN p : (j \in DOMAIN m /\ p[j] = m[j]) \/ p[j] = x
    BY <2>0
  <2>2. BeforeOf(n, m) \subseteq BeforeOf(k, p)
    BY <1>4, <2>1, MsgFields DEF BeforeOf
  <2>3. ASSUME NEW w \in FutureOf(e, p), NEW r \in DOMAIN w
        PROVE  \E z \in FutureOf(d, m) : r \in DOMAIN z /\ z[r] <= w[r]
    <3>0. d \in FutureOf(d, m) /\ DOMAIN d = Rows
      BY DEF FutureOf
    <3>1. CASE w = e
      BY <3>0, <3>1
    <3>2. CASE w = x.rows
      <4>1. r \in Rows
        BY <3>2, MsgFields, RowMapIs
      <4> QED BY <1>4, <3>0, <3>2, <4>1
    <3>3. CASE w # e /\ w # x.rows
      <4>1. w \in FutureOf(d, m)
        BY <2>1, <3>3 DEF FutureOf
      <4>2. w[r] \in Nat
        BY <1>1, RowMapIs
      <4> QED BY <4>1, <4>2
    <3> QED BY <3>1, <3>2, <3>3
  <2> QED BY <1>1, <1>2, <2>2, <2>3 DEF Moves
<1> QED BY <1>3, <1>4

\* The thread takes a message.
LEMMA FutureShrinks ==
    ASSUME NEW d \in [Rows -> Nat], NEW m \in Seq(Msgs), m # <<>>, NEW n \in Nat,
           NEW Y \in SUBSET RowMaps
    PROVE  Moves(Y, BeforeOf(n, m), FutureOf(d, m), Y, BeforeOf(n, Tail(m)), FutureOf(d, Tail(m)))
<1>1. /\ Tail(m) \in Seq(Msgs) /\ DOMAIN Tail(m) = 1..Len(m) - 1 /\ DOMAIN m = 1..Len(m)
      /\ Len(m) \in Nat /\ \A k \in 1..Len(m) - 1 : Tail(m)[k] = m[k + 1]
  BY TailIs
<1>2. \A k \in DOMAIN Tail(m) : k + 1 \in DOMAIN m /\ Tail(m)[k] = m[k + 1]
  BY <1>1
<1>3. FutureOf(d, Tail(m)) \subseteq FutureOf(d, m) /\ BeforeOf(n, m) \subseteq BeforeOf(n, Tail(m))
  BY <1>2 DEF FutureOf, BeforeOf
<1>4. FutureOf(d, m) \subseteq RowMaps
  BY FutureIs
<1>5. \A y \in RowMaps : \A r \in DOMAIN y : y[r] <= y[r]
  BY RowMapIs
<1> QED BY <1>3, <1>4, <1>5 DEF Moves

LEMMA MovesItself ==
    ASSUME NEW Y \in SUBSET RowMaps, NEW Z \in SUBSET RowMaps, NEW B, NEW X \in SUBSET Y
    PROVE  Moves(Y, B, Z, X, B, Z)
<1>1. \A y \in RowMaps : \A r \in DOMAIN y : y[r] <= y[r]
  BY RowMapIs
<1> QED BY <1>1 DEF Moves
---------------------------------------------------------------------------
(* What a step leaves as it is *)

\* Nothing of what is still to come to the thread becomes older.
Onward == \A Y \in SUBSET RowMaps : Moves(Y, Before, Future, Y, Before', Future')

\* Sequence p is q, or q without its first element.
Shortened(q, p) == p = q \/ (q # <<>> /\ p = Tail(q))

LEMMA SameOrTail ==
    ASSUME NEW S, NEW q \in Seq(S), NEW p, Shortened(q, p)
    PROVE  /\ p \in Seq(S)
           /\ \E d \in {0, 1} : \A k \in DOMAIN p : k \in Nat /\ k + d \in DOMAIN q /\ p[k] = q[k + d]
<1>0. DOMAIN q = 1..Len(q) /\ Len(q) \in Nat
  BY ElementsOf
<1>1. CASE p = q
  <2>1. \A k \in DOMAIN p : k \in Nat /\ k + 0 \in DOMAIN q /\ p[k] = q[k + 0]
    BY <1>0, <1>1
  <2> QED BY <1>1, <2>1
<1>2. CASE q # <<>> /\ p = Tail(q)
  <2>0. /\ p \in Seq(S) /\ DOMAIN p = 1..Len(q) - 1 /\ \A k \in 1..Len(q) - 1 : p[k] = q[k + 1]
    BY <1>2, TailIs
  <2>1. \A k \in DOMAIN p : k \in Nat /\ k + 1 \in DOMAIN q /\ p[k] = q[k + 1]
    BY <1>0, <2>0
  <2> QED BY <2>0, <2>1
<1> QED BY <1>1, <1>2 DEF Shortened

LEMMA Basics ==
    ASSUME Types
    PROVE  /\ Future \subseteq RowMaps /\ Shown \subseteq RowMaps /\ Before \subseteq Nat
           /\ \A k \in DOMAIN mail : mail[k] \in Msgs
           /\ \A k \in DOMAIN toPanel : toPanel[k] \in WireFrames
           /\ \A k \in DOMAIN toHost : toHost[k] \in Controls
           /\ post # None => post.frame \in WireFrames /\ post.resends \in Nat
           /\ \A i \in Sessions : sess[i] \in SessionStates
           /\ \A i \in Sessions : ShownTo(i) \subseteq RowMaps
<1>1. Future \subseteq RowMaps /\ Before \subseteq Nat
  BY FutureIs DEF Types, Future, Before
<1>2. Shown \subseteq RowMaps
  BY ShownIs DEF Types, Shown
<1> QED BY <1>1, <1>2, ElementsOf DEF Types, Posts, ShownTo

LEMMA OnwardItself ==
    ASSUME Types, UNCHANGED <<db, commits, mail>>
    PROVE  Onward
<1>1. Before' = Before /\ Future' = Future
  BY DEF Before, Future
<1> QED BY <1>1, Basics, MovesItself DEF Onward

\* Session t is session s, or what is left of it.
Stays(s, t) ==
    /\ t.gen = s.gen
    /\ Live(t) => Live(s)
    /\ t.phase = "open" => s.phase = "open"
    /\ s = Unused => t = Unused
    /\ s.phase # "unused" => t.phase # "unused"
    /\ t.phase = "closed" => \/ t.read = "none"
                             \/ s.phase = "closed" /\ (s.read = "none" => t.read = "none")

LEMMA GenerationsKept ==
    ASSUME GenerationsFit, UNCHANGED <<gen, used, conn, view>>,
           \A i \in Sessions : Stays(sess[i], sess'[i]),
           rec' = "wait" => rec = "wait" \/ \A i \in Sessions : ~Current(i)'
    PROVE  GenerationsFit'
<1>1. \A i \in Sessions : Current(i)' => Current(i)
  BY DEF Stays, Current
<1> USE DEF GenerationsFit
<1>2. ASSUME NEW i \in Sessions
      PROVE  /\ i > used' => sess'[i] = Unused
             /\ i <= used' => sess'[i].phase # "unused" /\ sess'[i].gen <= gen'
             /\ sess'[i].gen = gen' /\ sess'[i].phase = "closed" /\ view' # "gone"
                   => sess'[i].read = "none"
             /\ Current(i)' /\ sess'[i].phase = "open" => i = conn' /\ view' # "gone"
  BY <1>1 DEF Stays
<1>3. \A i, j \in Sessions : Current(i)' /\ Current(j)' => i = j
  BY <1>1
<1>4. rec' = "wait" => \A i \in Sessions : ~Current(i)'
  BY <1>1
<1>5. conn' # 0 => conn' \in Sessions /\ conn' <= used' /\ sess'[conn'].gen = gen'
  BY DEF Stays
<1> QED BY <1>2, <1>3, <1>4, <1>5

LEMMA MailKept ==
    ASSUME Types, MailFits, UNCHANGED <<db, commits>>,
           Shortened(mail, mail'),
           \A k \in DOMAIN mail' : mail'[k].kind = "answer" => sess'[mail'[k].to].read = "served"
    PROVE  MailFits'
<1>0. mail \in Seq(Msgs)
  BY DEF Types
<1>1. PICK d \in {0, 1} : \A k \in DOMAIN mail' : k \in Nat /\ k + d \in DOMAIN mail
                                                  /\ mail'[k] = mail[k + d]
  BY <1>0, SameOrTail
<1>2. \A j, k \in DOMAIN mail' : j < k => j + d < k + d
  BY <1>1
<1> QED BY <1>1, <1>2 DEF MailFits

\* Page q shows what page p does.
SamePage(p, q) == /\ q.sess = p.sess /\ q.seq = p.seq /\ q.commit = p.commit /\ q.rows = p.rows
                  /\ q.retired = p.retired

LEMMA SamePageFits ==
    ASSUME NEW p, NEW q, SamePage(p, q)
    PROVE  /\ \A w : FramesFit(p, w) => FramesFit(q, w)
           /\ \A w, i, n : CaughtUp(p, w, i, n) => CaughtUp(q, w, i, n)
           /\ \A w, i, s : Flies(p, w, i, s) => Flies(q, w, i, s)
           /\ \A Y, B, Z : Between(p, Y, B, Z) => Between(q, Y, B, Z)
           /\ \A w, c : ShownOf(q, w, c) = ShownOf(p, w, c)
<1>1. \A w : FramesFit(p, w) => FramesFit(q, w)
  BY DEF FramesFit, SamePage
<1>2. \A w, i, n : CaughtUp(p, w, i, n) => CaughtUp(q, w, i, n)
  BY DEF CaughtUp, SamePage
<1>3. \A w, i, n, x : LastPrecedes(p, w, i, n, x) => LastPrecedes(q, w, i, n, x)
  BY DEF LastPrecedes, SamePage
<1>4. \A w, i, s : Flies(p, w, i, s) => Flies(q, w, i, s)
  BY <1>2, <1>3 DEF Flies
<1>5. \A Y, B, Z : Between(p, Y, B, Z) => Between(q, Y, B, Z)
  BY DEF Between, SamePage
<1>6. \A w, c : ShownOf(q, w, c) = ShownOf(p, w, c)
  BY DEF ShownOf, SamePage
<1> QED BY <1>1, <1>2, <1>4, <1>5, <1>6

LEMMA WireKept ==
    ASSUME Types, WireFits, Onward, SamePage(page, page'),
           Shortened(toPanel, toPanel'),
           post' = post \/ post' = None
    PROVE  WireFits' /\ Shown' \subseteq Shown
<1>0. toPanel \in Seq(WireFrames)
  BY DEF Types
<1>1. PICK d \in {0, 1} : \A k \in DOMAIN toPanel' : k \in Nat /\ k + d \in DOMAIN toPanel
                                                     /\ toPanel'[k] = toPanel[k + d]
  BY <1>0, SameOrTail
<1>2. \A j, k \in DOMAIN toPanel' : j < k => j + d < k + d
  BY <1>1
<1>3. page.rows \in RowMaps /\ {} \in SUBSET RowMaps
  BY PageFields DEF Types
<1>4. /\ Moves({}, Before, Future, {}, Before', Future')
      /\ Moves({page.rows}, Before, Future, {page.rows}, Before', Future')
  BY <1>3 DEF Onward
<1>5. Between(page, {}, Before', Future')
  BY <1>3, <1>4, BetweenKept DEF WireFits
<1>6. \A k \in DOMAIN toPanel : Between(toPanel[k], {page.rows}, Before', Future')
  BY <1>4, Basics, FrameFields, BetweenKept DEF WireFits
<1>7. post # None => Between(post.frame, {page.rows}, Before', Future')
  BY <1>4, Basics, FrameFields, BetweenKept DEF WireFits
<1>8. page'.rows = page.rows /\ Between(page', {}, Before', Future')
  BY <1>5, SamePageFits DEF SamePage
<1>9. WireFits'
  BY <1>1, <1>2, <1>6, <1>7, <1>8 DEF WireFits
<1>10. Shown' \subseteq Shown
  BY <1>1, <1>8 DEF Shown, ShownOf
<1> QED BY <1>9, <1>10

LEMMA SessionKept ==
    ASSUME NEW i \in Sessions, Types, Onward, sess'[i] \in SessionStates,
           Shown' \subseteq Shown, Current(i)' => Current(i),
           ContentFits(sess'[i], ShownTo(i), Before, Future)
    PROVE  ContentFits(sess'[i], ShownTo(i)', Before', Future')
<1>1. ShownTo(i)' \subseteq ShownTo(i)
  BY DEF ShownTo
<1>2. Moves(ShownTo(i), Before, Future, ShownTo(i), Before', Future')
  BY Basics DEF Onward
<1>3. ContentFits(sess'[i], ShownTo(i), Before', Future')
  BY <1>2, ContentKept
<1> QED BY <1>1, <1>3, ContentUnseen

\* Frames that are left keep their numbers.
LEMMA FramesLeft ==
    ASSUME NEW pg, NEW w \in Seq(WireFrames), NEW v, Shortened(w, v)
    PROVE  /\ v \in Seq(WireFrames)
           /\ \A k \in DOMAIN v : \E j \in DOMAIN w : v[k] = w[j]
           /\ FramesFit(pg, w) => FramesFit(pg, v)
           /\ \A i, n : CaughtUp(pg, w, i, n) => CaughtUp(pg, v, i, n)
           /\ \A i, n, x : LastPrecedes(pg, w, i, n, x) => LastPrecedes(pg, v, i, n, x)
<1>1. v \in Seq(WireFrames)
  BY SameOrTail
<1>2. PICK d \in {0, 1} : \A k \in DOMAIN v : k \in Nat /\ k + d \in DOMAIN w /\ v[k] = w[k + d]
  BY SameOrTail
<1>3. \A j, k \in DOMAIN v : j < k => j + d < k + d
  BY <1>2
<1>4. ASSUME FramesFit(pg, w)
      PROVE  FramesFit(pg, v)
  <2>1. ASSUME NEW k \in DOMAIN v
        PROVE  /\ pg.sess = v[k].sess => pg.seq <= v[k].seq
               /\ \A j \in DOMAIN v : j < k /\ v[j].sess = v[k].sess => v[j].seq <= v[k].seq
               /\ v[k].kind = "changes" /\ ~v[k].copy =>
                     /\ \A j \in DOMAIN v : j < k /\ v[j].sess = v[k].sess
                           => v[j].seq = v[k].seq - 1 /\ v[j].commit < v[k].commit
                     /\ pg.sess = v[k].sess => pg.seq = v[k].seq - 1 /\ pg.commit < v[k].commit
    <3>1. k + d \in DOMAIN w /\ v[k] = w[k + d]
      BY <1>2
    <3>2. \A j \in DOMAIN v : j < k => j + d \in DOMAIN w /\ j + d < k + d /\ v[j] = w[j + d]
      BY <1>2, <1>3
    <3> QED BY <1>4, <3>1, <3>2 DEF FramesFit
  <2> QED BY <2>1 DEF FramesFit
<1> QED BY <1>1, <1>2, <1>4 DEF CaughtUp, LastPrecedes

LEMMA GivenKept ==
    ASSUME NEW ss, NEW tt, NEW u \in Nat, NEW v \in Nat, u <= v,
           \A i \in Sessions : ss[i].next \in Nat /\ tt[i].next \in Nat /\ ss[i].next <= tt[i].next
    PROVE  \A i, n : Given(ss, u, i, n) => Given(tt, v, i, n)
BY DEF Given, Sessions

\* No session takes back what it has handed out.
Numbering == used <= used' /\ \A i \in Sessions : sess[i].next <= sess'[i].next

LEMMA GivenOn ==
    ASSUME Types, Types', Numbering
    PROVE  \A i, n : Given(sess, used, i, n) => Given(sess', used', i, n)
<1>1. used \in Nat /\ used' \in Nat
  BY DEF Types
<1>2. \A i \in Sessions : sess[i] \in SessionStates /\ sess'[i] \in SessionStates
  BY DEF Types
<1>3. \A i \in Sessions : sess[i].next \in Nat /\ sess'[i].next \in Nat
  BY <1>2, SessionFields
<1> QED BY <1>1, <1>3, GivenKept DEF Numbering

\* The frames keep their numbers while the panel takes none.
LEMMA NumbersKept ==
    ASSUME Types, Types', NumbersFit, SamePage(page, page'), Shortened(toPanel, toPanel'), Numbering
    PROVE  NumbersFit'
<1>1. toPanel \in Seq(WireFrames) /\ used \in Nat /\ used' \in Nat
  BY DEF Types
<1>2. /\ \A k \in DOMAIN toPanel' : \E j \in DOMAIN toPanel : toPanel'[k] = toPanel[j]
      /\ FramesFit(page', toPanel')
  BY <1>1, FramesLeft, SamePageFits DEF NumbersFit
<1>3. \A k \in DOMAIN toPanel' : Given(sess', used', toPanel'[k].sess, toPanel'[k].seq)
  BY <1>2, GivenOn DEF NumbersFit
<1>4. page.sess # 0 => Given(sess', used', page.sess, page.seq)
  BY GivenOn DEF NumbersFit
<1>5. page.retired \subseteq 1..used' /\ page.sess \notin page.retired
  <2>1. page.retired \subseteq 1..used /\ page.sess \notin page.retired
    BY DEF NumbersFit
  <2>2. 1..used \subseteq 1..used'
    BY <1>1 DEF Numbering
  <2> QED BY <2>1, <2>2
<1> QED BY <1>2, <1>3, <1>4, <1>5 DEF NumbersFit, SamePage

\* No acknowledgement comes, although one may be taken.
NoAckComes ==
    \/ Shortened(toHost, toHost')
    \/ \E m \in Controls : m.kind # "ack" /\ toHost' = Append(toHost, m)

LEMMA AcksLeft ==
    ASSUME Types, NoAckComes
    PROVE  \A k \in DOMAIN toHost' : toHost'[k].kind = "ack" =>
              \E j \in DOMAIN toHost : toHost'[k] = toHost[j]
<1>1. toHost \in Seq(Controls)
  BY DEF Types
<1>2. CASE Shortened(toHost, toHost')
  BY <1>1, <1>2, SameOrTail
<1>3. ASSUME NEW m \in Controls, m.kind # "ack", toHost' = Append(toHost, m)
      PROVE  \A k \in DOMAIN toHost' : toHost'[k].kind = "ack" =>
                \E j \in DOMAIN toHost : toHost'[k] = toHost[j]
  <2>1. /\ DOMAIN toHost' = 1..Len(toHost) + 1 /\ DOMAIN toHost = 1..Len(toHost)
        /\ Len(toHost) \in Nat
        /\ \A k \in 1..Len(toHost) : toHost'[k] = toHost[k]
        /\ toHost'[Len(toHost) + 1] = m
    BY <1>1, <1>3, AppendIs
  <2>2. \A k \in DOMAIN toHost' : k \in DOMAIN toHost \/ k = Len(toHost) + 1
    BY <2>1
  <2> QED BY <1>3, <2>1, <2>2
<1> QED BY <1>2, <1>3 DEF NoAckComes

\* The acknowledgements stay good while the panel takes none.
LEMMA AcksKept ==
    ASSUME Types, Types', AcksFit, SamePage(page, page'), Shortened(toPanel, toPanel'),
           NoAckComes, Numbering
    PROVE  AcksFit'
<1>1. toPanel \in Seq(WireFrames)
  BY DEF Types
<1>2. \A i, n : CaughtUp(page, toPanel, i, n) => CaughtUp(page', toPanel', i, n)
  BY <1>1, FramesLeft, SamePageFits
<1>3. \A k \in DOMAIN toHost' : toHost'[k].kind = "ack" =>
          /\ Given(sess', used', toHost'[k].sess, toHost'[k].seq)
          /\ CaughtUp(page', toPanel', toHost'[k].sess, toHost'[k].seq)
  BY <1>2, GivenOn, AcksLeft DEF AcksFit
<1> QED BY <1>3 DEF AcksFit

\* Session t has handed out what s has, and queues the same commits or new ones.
Rides(s, t) ==
    /\ t.next = s.next
    /\ t.inflight = 0 => s.inflight = 0
    /\ \A k \in DOMAIN t.queue :
          \/ \E j \in DOMAIN s.queue : t.queue[k].commit = s.queue[j].commit
          \/ \A x \in Before : x < t.queue[k].commit

Fresh(t) == t.next = 1 /\ t.queue = <<>>

LEMMA FliesKept ==
    ASSUME NEW pg, NEW w \in Seq(WireFrames), NEW v, Shortened(w, v), NEW i, NEW s, NEW t,
           Flies(pg, w, i, s), Rides(s, t), pg.commit \in Before,
           \A k \in DOMAIN w : w[k].commit \in Before
    PROVE  Flies(pg, v, i, t)
<1>0. /\ \A h, n : CaughtUp(pg, w, h, n) => CaughtUp(pg, v, h, n)
      /\ \A h, n, x : LastPrecedes(pg, w, h, n, x) => LastPrecedes(pg, v, h, n, x)
  BY FramesLeft
<1>1. t.inflight = 0 => CaughtUp(pg, v, i, t.next - 1)
  BY <1>0 DEF Flies, Rides
<1>2. ASSUME NEW k \in DOMAIN t.queue
      PROVE  LastPrecedes(pg, v, i, t.next - 1, t.queue[k])
  <2>1. ASSUME NEW j \in DOMAIN s.queue, t.queue[k].commit = s.queue[j].commit
        PROVE  LastPrecedes(pg, v, i, t.next - 1, t.queue[k])
    <3>1. LastPrecedes(pg, v, i, t.next - 1, s.queue[j])
      BY <1>0 DEF Flies, Rides
    <3> QED BY <2>1, <3>1 DEF LastPrecedes
  <2>2. ASSUME \A x \in Before : x < t.queue[k].commit
        PROVE  LastPrecedes(pg, v, i, t.next - 1, t.queue[k])
    <3>1. LastPrecedes(pg, w, i, t.next - 1, t.queue[k])
      BY <2>2 DEF LastPrecedes
    <3> QED BY <1>0, <3>1
  <2> QED BY <2>1, <2>2 DEF Rides
<1> QED BY <1>1, <1>2 DEF Flies

LEMMA FreshFlies ==
    ASSUME NEW pg \in Pages, NEW w \in Seq(WireFrames), NEW i, NEW t, Fresh(t)
    PROVE  Flies(pg, w, i, t)
<1>1. pg.seq \in Nat /\ \A k \in DOMAIN w : w[k].seq \in Nat
  BY PageFields, ElementsOf, FrameFields
<1> QED BY <1>1 DEF Flies, Fresh, CaughtUp

LEMMA FlightKept ==
    ASSUME Types, WireFits, FlightFits, SamePage(page, page'), Shortened(toPanel, toPanel'),
           \A i \in Sessions : Current(i)' => \/ Fresh(sess'[i])
                                              \/ Current(i) /\ Rides(sess[i], sess'[i])
                                              \/ Flies(page, toPanel', i, sess'[i]),
           post' # None => /\ post' = post /\ conn' = conn /\ Current(conn)'
                           /\ sess'[conn].phase = "open" /\ Rides(sess[conn], sess'[conn])
                           /\ sess'[conn].inflight = sess[conn].inflight
    PROVE  FlightFits'
<1>1. toPanel \in Seq(WireFrames) /\ toPanel' \in Seq(WireFrames) /\ page \in Pages
  BY SameOrTail DEF Types
<1>2. ASSUME NEW i \in Sessions, Current(i)'
      PROVE  Flies(page', toPanel', i, sess'[i])
  <2>1. page.commit \in Before /\ \A k \in DOMAIN toPanel : toPanel[k].commit \in Before
    BY DEF WireFits, Between
  <2>2. Flies(page, toPanel', i, sess'[i])
    BY <1>1, <1>2, <2>1, FreshFlies, FliesKept DEF FlightFits
  <2> QED BY <2>2, SamePageFits
<1>3. ASSUME post' # None
      PROVE  conn' # 0 /\ Current(conn)' /\ Resends(post', conn', sess'[conn'])
  <2>1. post.frame.commit \in Before
    BY <1>3 DEF WireFits, Between
  <2> QED BY <1>3, <2>1 DEF FlightFits, Resends, Rides
<1> QED BY <1>2, <1>3 DEF FlightFits
---------------------------------------------------------------------------
(* What the connections are owed to *)

LEMMA SessionsAre == MaxDisruptions \in Nat /\ Sessions \subseteq Nat \ {0} /\ IsFiniteSet(Sessions)
<1>1. MaxDisruptions \in Nat
  BY BoundsAssumption
<1>2. IsFiniteSet(1..MaxDisruptions + 1)
  BY <1>1, FS_Interval
<1> QED BY <1>1, <1>2 DEF Sessions

LEMMA CreditCounts ==
    ASSUME NEW S \in SUBSET Sessions, NEW T \in SUBSET Sessions
    PROVE  /\ Cardinality(S) \in Nat /\ Cardinality(T) \in Nat
           /\ T \subseteq S => Cardinality(T) <= Cardinality(S)
           /\ \A i \in S : T \subseteq S \ {i} => Cardinality(T) + 1 <= Cardinality(S)
           /\ \A i \in Sessions : T \subseteq S \cup {i} => Cardinality(T) <= Cardinality(S) + 1
<1>1. IsFiniteSet(S) /\ IsFiniteSet(T)
  BY SessionsAre, FS_Subset
<1>2. Cardinality(S) \in Nat /\ Cardinality(T) \in Nat
  BY <1>1, FS_CardinalityType
<1>3. T \subseteq S => Cardinality(T) <= Cardinality(S)
  BY <1>1, FS_Subset
<1>4. ASSUME NEW i \in S, T \subseteq S \ {i}
      PROVE  Cardinality(T) + 1 <= Cardinality(S)
  <2>1. IsFiniteSet(S \ {i}) /\ Cardinality(S \ {i}) = Cardinality(S) - 1
    BY <1>1, FS_RemoveElement
  <2>2. Cardinality(T) <= Cardinality(S \ {i})
    BY <1>4, <2>1, FS_Subset
  <2> QED BY <1>2, <2>1, <2>2
<1>5. ASSUME NEW i \in Sessions, T \subseteq S \cup {i}
      PROVE  Cardinality(T) <= Cardinality(S) + 1
  <2>1. IsFiniteSet(S \cup {i}) /\ Cardinality(S \cup {i}) <= Cardinality(S) + 1
    <3>1. CASE i \in S
      <4>1. S \cup {i} = S
        BY <3>1
      <4> QED BY <1>1, <1>2, <4>1
    <3>2. CASE i \notin S
      <4>1. IsFiniteSet(S \cup {i}) /\ Cardinality(S \cup {i}) = Cardinality(S) + 1
        BY <1>1, <3>2, FS_AddElement
      <4> QED BY <1>2, <4>1
    <3> QED BY <3>1, <3>2
  <2>2. Cardinality(T) <= Cardinality(S \cup {i})
    BY <1>5, <2>1, FS_Subset
  <2>3. Cardinality(S \cup {i}) \in Nat
    BY <2>1, FS_CardinalityType
  <2> QED BY <1>2, <2>1, <2>2, <2>3
<1> QED BY <1>2, <1>3, <1>4, <1>5

\* Everything that was paid for or will be, but the reads that failed.
Paid == used + Bit(page.loading) + Bit(view = "hidden") + Bit(rec # "none") + budget

LEMMA CreditKept ==
    ASSUME Types, Types', CreditFits,
           \/ Failing' \subseteq Failing /\ Paid' <= Paid
           \/ \E i \in Failing : Failing' \subseteq Failing \ {i} /\ Paid' <= Paid + 1
           \/ \E i \in Sessions : Failing' \subseteq Failing \cup {i} /\ Paid' + 1 <= Paid
    PROVE  CreditFits'
<1>0. \A p : Bit(p) \in Nat
  BY DEF Bit
<1>1. Failing \in SUBSET Sessions /\ Failing' \in SUBSET Sessions
  BY DEF Failing, FailingOf, Sessions
<1>2. Paid \in Nat /\ Paid' \in Nat
  <2>1. used \in Nat /\ budget \in Nat /\ used' \in Nat /\ budget' \in Nat
    BY DEF Types
  <2> QED BY <1>0, <2>1 DEF Paid
<1>3. Cardinality(Failing) \in Nat /\ Cardinality(Failing') \in Nat
  BY <1>1, CreditCounts
<1>4. CreditFits <=> Paid + Cardinality(Failing) <= MaxDisruptions + 1
  <2>1. used \in Nat /\ budget \in Nat
    BY DEF Types
  <2> HIDE DEF Failing
  <2> QED BY <1>0, <1>3, <2>1 DEF Paid, CreditFits
<1>5. CreditFits' <=> Paid' + Cardinality(Failing') <= MaxDisruptions + 1
  <2>1. used' \in Nat /\ budget' \in Nat
    BY DEF Types
  <2> HIDE DEF Failing
  <2> QED BY <1>0, <1>3, <2>1 DEF Paid, CreditFits, Sessions
<1>6. Paid' + Cardinality(Failing') <= Paid + Cardinality(Failing)
  <2>1. CASE Failing' \subseteq Failing /\ Paid' <= Paid
    <3>1. Cardinality(Failing') <= Cardinality(Failing)
      BY <1>1, <2>1, CreditCounts
    <3> QED BY <1>2, <1>3, <2>1, <3>1
  <2>2. ASSUME NEW i \in Failing, Failing' \subseteq Failing \ {i}, Paid' <= Paid + 1
        PROVE  Paid' + Cardinality(Failing') <= Paid + Cardinality(Failing)
    <3>1. Cardinality(Failing') + 1 <= Cardinality(Failing)
      BY <1>1, <2>2, CreditCounts
    <3> QED BY <1>2, <1>3, <2>2, <3>1
  <2>3. ASSUME NEW i \in Sessions, Failing' \subseteq Failing \cup {i}, Paid' + 1 <= Paid
        PROVE  Paid' + Cardinality(Failing') <= Paid + Cardinality(Failing)
    <3>1. Cardinality(Failing') <= Cardinality(Failing) + 1
      BY <1>1, <2>3, CreditCounts
    <3>2. Paid' + 1 <= Paid
      BY <2>3
    <3>3. \A a, b, p, q \in Nat : a <= b + 1 /\ p + 1 <= q => p + a <= q + b
      OBVIOUS
    <3> HIDE DEF Failing, Paid
    <3> QED BY <1>2, <1>3, <3>1, <3>2, <3>3
  <2> QED BY <2>1, <2>2, <2>3
<1> QED BY <1>2, <1>3, <1>4, <1>5, <1>6, SessionsAre

\* No read fails that had not failed, whatever becomes of the others.
LEMMA NoMoreFail ==
    ASSUME Types, Shortened(mail, mail'),
           \A i \in Sessions : sess'[i].read = "failed" => i \in Failing
    PROVE  Failing' \subseteq Failing
<1>0. mail \in Seq(Msgs)
  BY DEF Types
<1>1. \A k \in DOMAIN mail' : \E j \in DOMAIN mail : mail'[k] = mail[j]
  BY <1>0, SameOrTail
<1> QED BY <1>1 DEF Failing, FailingOf

\* What is left of the credit pays for one connection more.
LEMMA CreditLeft ==
    ASSUME Types, CreditFits
    PROVE  /\ used <= MaxDisruptions + 1
           /\ page.loading \/ view = "hidden" \/ rec # "none" \/ budget > 0 => used + 1 \in Sessions
<1>0. Failing \in SUBSET Sessions
  BY DEF Failing, FailingOf
<1>1. Cardinality(Failing) \in Nat
  BY <1>0, CreditCounts
<1>2. used \in Nat /\ budget \in Nat /\ MaxDisruptions \in Nat
  BY SessionsAre DEF Types
<1>3. PICK n \in Nat : n = Cardinality(Failing)
  BY <1>1
<1>4. used + Bit(page.loading) + Bit(view = "hidden") + Bit(rec # "none") + n + budget
         <= MaxDisruptions + 1
  BY <1>3 DEF CreditFits
<1>5. used + n + budget <= MaxDisruptions + 1
  BY <1>2, <1>4 DEF Bit
<1>6. page.loading \/ view = "hidden" \/ rec # "none" => used + 1 <= MaxDisruptions + 1
  BY <1>2, <1>4 DEF Bit
<1>7. budget > 0 => used + 1 <= MaxDisruptions + 1
  BY <1>2, <1>5
<1>8. used <= MaxDisruptions + 1 /\ budget <= MaxDisruptions + 1
  BY <1>2, <1>5
<1>9. used + 1 <= MaxDisruptions + 1 => used + 1 \in Sessions
  BY <1>2 DEF Sessions
<1> QED BY <1>6, <1>7, <1>8, <1>9
---------------------------------------------------------------------------
(* A step that sends the panel nothing *)

\* Nothing of the commits is left in session t.
Blank(t) == t.queue = <<>> /\ t.handoff = <<>> /\ t.read # "answered"

\* Session i goes on without sending.
Settles(i) ==
    /\ SessionFits(sess'[i])
    /\ \/ Blank(sess'[i])
       \/ /\ Current(i)' => Current(i)
          /\ \/ ContentFits(sess'[i], ShownTo(i), Before, Future)
             \/ ContentFits(sess'[i], ShownTo(i), Before', Future')
    /\ Current(i)' => \/ Fresh(sess'[i])
                      \/ Current(i) /\ Rides(sess[i], sess'[i])
                      \/ Flies(page, toPanel', i, sess'[i])

\* A frame that may be sent again is still the one in flight.
PostStays ==
    /\ post' = post \/ post' = None
    /\ post' # None => /\ post' = post /\ conn' = conn /\ Current(conn)'
                       /\ sess'[conn].phase = "open" /\ Rides(sess[conn], sess'[conn])
                       /\ sess'[conn].inflight = sess[conn].inflight

LEMMA Quiet ==
    ASSUME FeedInv, Types', PollsFit', CreditFits', GenerationsFit', MailFits', Onward,
           SamePage(page, page'), Shortened(toPanel, toPanel'), NoAckComes, Numbering,
           \A i \in Sessions : Settles(i), PostStays
    PROVE  FeedInv'
<1> USE DEF FeedInv
<1>1. WireFits' /\ Shown' \subseteq Shown
  BY WireKept DEF PostStays
<1>2. NumbersFit'
  BY NumbersKept
<1>3. AcksFit'
  BY AcksKept
<1>4. FlightFits'
  BY FlightKept DEF Settles, PostStays
<1>5. ASSUME NEW i \in Sessions
      PROVE  SessionFits(sess'[i]) /\ ContentFits(sess'[i], ShownTo(i)', Before', Future')
  <2>1. sess'[i] \in SessionStates
    BY DEF Types
  <2>2. CASE Blank(sess'[i])
    <3>1. ContentFits(sess'[i], ShownTo(i)', Before', Future')
      BY <2>2 DEF Blank, ContentFits, Ordered
    <3> QED BY <3>1 DEF Settles
  <2>3. CASE (Current(i)' => Current(i)) /\ ContentFits(sess'[i], ShownTo(i), Before, Future)
    <3>1. ContentFits(sess'[i], ShownTo(i)', Before', Future')
      BY <1>1, <2>1, <2>3, SessionKept
    <3> QED BY <3>1 DEF Settles
  <2>4. CASE (Current(i)' => Current(i)) /\ ContentFits(sess'[i], ShownTo(i), Before', Future')
    <3>1. ShownTo(i)' \subseteq ShownTo(i)
      BY <1>1, <2>4 DEF ShownTo
    <3>2. ContentFits(sess'[i], ShownTo(i)', Before', Future')
      BY <2>4, <3>1, ContentUnseen
    <3> QED BY <3>2 DEF Settles
  <2> QED BY <2>2, <2>3, <2>4 DEF Settles
<1>6. SessionsFit'
  <2>1. Sessions' = Sessions
    BY DEF Sessions
  <2> QED BY <1>5, <2>1 DEF SessionsFit
<1> QED BY <1>1, <1>2, <1>3, <1>4, <1>6

LEMMA SessionSame ==
    ASSUME FeedInv, NEW i \in Sessions, sess'[i] = sess[i], Current(i)' => Current(i)
    PROVE  Settles(i)
<1>1. SessionFits(sess[i]) /\ ContentFits(sess[i], ShownTo(i), Before, Future)
  BY DEF FeedInv, SessionsFit
<1>2. Rides(sess[i], sess[i])
  BY DEF Rides
<1> QED BY <1>1, <1>2 DEF Settles

LEMMA PostSame ==
    ASSUME FeedInv, post' = post, conn' = conn, gen' = gen, post # None => sess'[conn] = sess[conn]
    PROVE  PostStays
<1>1. ASSUME post # None
      PROVE  Current(conn)' /\ sess'[conn].phase = "open" /\ Rides(sess[conn], sess'[conn])
             /\ sess'[conn].inflight = sess[conn].inflight
  BY <1>1 DEF FeedInv, FlightFits, Current, Resends, Rides
<1> QED BY <1>1 DEF PostStays

\* A session that stays as it is, and a client that does.
LEMMA StaysItself == \A s : Stays(s, s)
BY DEF Stays

\* The worker sends a message after all others.
LEMMA MailGrows ==
    ASSUME Types, MailFits, db' \in [Rows -> Nat], \A r \in Rows : db[r] <= db'[r],
           commits' \in Nat, commits <= commits',
           NEW x \in Msgs, mail' = Append(mail, x), commits <= x.commit, x.commit <= commits',
           x.kind = "commit" => commits < x.commit,
           \A r \in DOMAIN x.rows : db[r] <= x.rows[r] /\ x.rows[r] <= db'[r],
           x.kind = "answer" => sess'[x.to].read = "served" /\ sess[x.to].read # "served",
           \A i \in Sessions : sess[i].read = "served" => sess'[i].read = "served"
    PROVE  MailFits' /\ Onward
<1>0. mail \in Seq(Msgs) /\ db \in [Rows -> Nat] /\ commits \in Nat
  BY DEF Types
<1>1. /\ DOMAIN mail' = 1..Len(mail) + 1 /\ DOMAIN mail = 1..Len(mail) /\ Len(mail) \in Nat
      /\ \A k \in 1..Len(mail) : mail'[k] = mail[k] /\ mail[k] \in Msgs
      /\ mail'[Len(mail) + 1] = x /\ mail' \in Seq(Msgs)
  BY <1>0, AppendIs
<1>2. \A k \in DOMAIN mail' : k \in DOMAIN mail \/ k = Len(mail) + 1
  BY <1>1
<1>3. /\ DOMAIN x.rows \subseteq Rows /\ \A r \in DOMAIN x.rows : x.rows[r] \in Nat
      /\ x.commit \in Nat
  BY MsgFields, RowMapIs
<1>4. ASSUME NEW k \in DOMAIN mail
      PROVE  /\ DOMAIN mail[k].rows \subseteq Rows /\ mail[k].commit \in Nat
             /\ \A r \in DOMAIN mail[k].rows : mail[k].rows[r] \in Nat
             /\ mail[k].kind = "answer" => mail[k].to \in Sessions
  BY <1>1, MsgFields, RowMapIs
<1>5. ASSUME NEW k \in DOMAIN mail
      PROVE  Over(mail[k].rows, db') /\ Over(mail[k].rows, x.rows)
  <2>1. Over(mail[k].rows, db)
    BY DEF MailFits
  <2>2. ASSUME NEW r \in DOMAIN mail[k].rows
        PROVE  r \in Rows /\ mail[k].rows[r] <= db[r]
    BY <1>0, <1>4, <2>1 DEF Over
  <2>3. ASSUME NEW r \in DOMAIN mail[k].rows \cap DOMAIN db'
        PROVE  mail[k].rows[r] <= db'[r]
    BY <1>0, <1>4, <2>2
  <2>4. ASSUME NEW r \in DOMAIN mail[k].rows \cap DOMAIN x.rows
        PROVE  mail[k].rows[r] <= x.rows[r]
    BY <1>0, <1>3, <1>4, <2>2
  <2> QED BY <2>3, <2>4 DEF Over
<1>6. ASSUME NEW k \in DOMAIN mail'
      PROVE  /\ mail'[k].commit <= commits' /\ Over(mail'[k].rows, db')
             /\ mail'[k].kind = "answer" => sess'[mail'[k].to].read = "served"
  <2>1. CASE k \in DOMAIN mail
    <3>1. mail[k].commit <= commits /\ (mail[k].kind = "answer" => sess[mail[k].to].read = "served")
      BY <2>1 DEF MailFits
    <3> QED BY <1>0, <1>1, <1>4, <1>5, <2>1, <3>1
  <2>2. CASE k = Len(mail) + 1
    BY <1>1, <2>2 DEF Over
  <2> QED BY <1>2, <2>1, <2>2
<1>7. ASSUME NEW j \in DOMAIN mail', NEW k \in DOMAIN mail', j < k
      PROVE  /\ Over(mail'[j].rows, mail'[k].rows)
             /\ mail'[j].commit <= mail'[k].commit
             /\ mail'[k].kind = "commit" => mail'[j].commit < mail'[k].commit
             /\ mail'[j].kind = "answer" /\ mail'[k].kind = "answer" => mail'[j].to # mail'[k].to
  <2>1. j \in DOMAIN mail /\ mail'[j] = mail[j]
    BY <1>1, <1>7
  <2>2. CASE k \in DOMAIN mail
    <3>1. mail'[k] = mail[k]
      BY <1>1, <2>2
    <3> QED BY <1>7, <2>1, <2>2, <3>1 DEF MailFits
  <2>3. CASE k = Len(mail) + 1
    <3>1. mail[j].commit <= commits /\ (mail[j].kind = "answer" => sess[mail[j].to].read = "served")
      BY <2>1 DEF MailFits
    <3>2. mail'[k] = x
      BY <1>1, <2>3
    <3>3. mail[j].commit <= x.commit /\ (x.kind = "commit" => mail[j].commit < x.commit)
      BY <1>0, <1>3, <1>4, <2>1, <3>1
    <3> QED BY <1>5, <2>1, <3>1, <3>2, <3>3
  <2> QED BY <1>2, <2>2, <2>3
<1>8. MailFits'
  BY <1>6, <1>7 DEF MailFits
<1>9. Onward
  <2>1. ASSUME NEW Y \in SUBSET RowMaps
        PROVE  Moves(Y, Before, Future, Y, Before', Future')
    <3>1. \A r \in DOMAIN x.rows : db[r] <= x.rows[r]
      OBVIOUS
    <3>2. Moves(Y, BeforeOf(commits, mail), FutureOf(db, mail), Y, BeforeOf(commits', mail'),
                FutureOf(db', mail'))
      BY <1>0, <1>1, <1>3, <3>1, FutureGrows
    <3> QED BY <3>2 DEF Before, Future
  <2> QED BY <2>1 DEF Onward
<1> QED BY <1>8, <1>9
\* A step that touches neither the sessions nor the bridge.
LEMMA Untouched ==
    ASSUME FeedInv, Types', PollsFit', CreditFits', MailFits', Onward,
           UNCHANGED <<sess, used, gen, view, conn, rec, post>>,
           SamePage(page, page'), Shortened(toPanel, toPanel'), NoAckComes
    PROVE  FeedInv'
<1>1. \A i \in Sessions : Current(i)' <=> Current(i)
  BY DEF Current
<1>2. \A i \in Sessions : Settles(i)
  BY <1>1, SessionSame
<1>3. PostStays
  BY PostSame
<1>4. GenerationsFit'
  BY StaysItself, GenerationsKept DEF FeedInv
<1>5. Numbering
  BY SessionFields DEF Numbering, FeedInv, Types
<1> QED BY <1>2, <1>3, <1>4, <1>5, Quiet

LEMMA ShortenedItself == \A q : Shortened(q, q)
BY DEF Shortened

LEMMA SamePageItself == \A p : SamePage(p, p)
BY DEF SamePage

---------------------------------------------------------------------------
(* The database and its worker *)

LEMMA WrittenIs ==
    ASSUME db \in [Rows -> Nat], NEW w \in SUBSET Rows, db' = Written(w)
    PROVE  db' \in [Rows -> Nat] /\ \A r \in Rows : db[r] <= db'[r]
BY DEF Written

LEMMA CommitLocalKeeps ==
    ASSUME FeedInv, CommitLocal
    PROVE  FeedInv'
<1> USE DEF FeedInv
<1>0. Types
  OBVIOUS
<1>1. UNCHANGED <<ext, sess, used, timer, known, cursor, init, poll, gen, ready, view, conn, rec,
                  post, page, toPanel, toHost, budget>> /\ commits' = commits + 1
      /\ commits < MaxCommits
  BY DEF CommitLocal, feedVars, pollVars, bridgeVars, panelVars
<1>2. commits \in Nat /\ db \in [Rows -> Nat] /\ mail \in Seq(Msgs) /\ MaxCommits \in Nat
  BY <1>0, BoundsAssumption DEF Types
<1>3. PICK w \in LocalWrites :
        /\ db' = Written(w.rows)
        /\ mail' = Append(mail, [kind |-> "commit", commit |-> commits + 1,
                                 rows |-> [r \in w.rows |-> db'[r]], structural |-> w.structural])
  BY DEF CommitLocal
<1>4. w.rows \in SUBSET Rows /\ w.structural \in BOOLEAN
  BY WritesAssumption
<1>5. db' \in [Rows -> Nat] /\ \A r \in Rows : db[r] <= db'[r]
  BY <1>2, <1>3, <1>4, WrittenIs
<1>6. PICK rows : rows = [r \in w.rows |-> db'[r]]
  OBVIOUS
<1>7. rows \in RowMaps /\ DOMAIN rows = w.rows /\ \A r \in w.rows : rows[r] = db'[r]
  BY <1>4, <1>5, <1>6 DEF RowMaps
<1>8. PICK x : x = [kind |-> "commit", commit |-> commits + 1, rows |-> rows,
                    structural |-> w.structural]
  OBVIOUS
<1>9. x \in CommitMsgs /\ x.kind = "commit" /\ x.commit = commits + 1 /\ x.rows = rows
  BY <1>2, <1>4, <1>7, <1>8 DEF CommitMsgs
<1>10. x \in Msgs /\ mail' = Append(mail, x)
  BY <1>3, <1>6, <1>8, <1>9 DEF Msgs
<1>11. mail' \in Seq(Msgs)
  BY <1>2, <1>10, AppendIs
<1>12. Types'
  BY <1>0, <1>1, <1>2, <1>5, <1>11 DEF Types
<1>13. \A r \in DOMAIN x.rows : db[r] <= x.rows[r] /\ x.rows[r] <= db'[r]
  BY <1>4, <1>5, <1>7, <1>9
<1>14. MailFits' /\ Onward
  <2>1. commits' \in Nat /\ commits <= commits' /\ commits <= x.commit /\ x.commit <= commits'
        /\ commits < x.commit /\ x.kind # "answer"
    BY <1>1, <1>2, <1>9
  <2> QED BY <1>0, <1>1, <1>5, <1>10, <1>13, <2>1, MailGrows
<1>15. PollsFit'
  BY <1>1, <1>2 DEF PollsFit
<1>16. CreditFits'
  <2>1. Failing' \subseteq Failing
    <3>1. /\ DOMAIN mail' = 1..Len(mail) + 1 /\ DOMAIN mail = 1..Len(mail) /\ Len(mail) \in Nat
          /\ \A k \in 1..Len(mail) : mail'[k] = mail[k]
          /\ mail'[Len(mail) + 1] = x
      BY <1>2, <1>10, AppendIs
    <3>2. \A k \in DOMAIN mail' : mail'[k].kind = "answer" => k \in DOMAIN mail /\ mail'[k] = mail[k]
      BY <1>9, <3>1
    <3> QED BY <1>1, <3>2 DEF Failing, FailingOf
  <2>2. Paid' = Paid /\ Paid \in Nat
    BY <1>0, <1>1 DEF Paid, Types, Bit
  <2> QED BY <1>0, <1>12, <2>1, <2>2, CreditKept
<1> HIDE DEF FeedInv
<1> QED BY <1>1, <1>12, <1>14, <1>15, <1>16, Untouched, ShortenedItself, SamePageItself
        DEF NoAckComes

LEMMA CommitExternalKeeps ==
    ASSUME FeedInv, CommitExternal
    PROVE  FeedInv'
<1>0. Types /\ PollsFit /\ CreditFits /\ MailFits
  BY DEF FeedInv
<1>1. UNCHANGED <<commits, mail, sess, used, timer, known, cursor, init, poll, gen, ready, view,
                  conn, rec, post, page, toPanel, toHost, budget>>
  BY DEF CommitExternal, feedVars, pollVars, bridgeVars, panelVars
<1>2. PICK w \in ForeignWrites : db' = Written({w}) /\ ext' = Append(ext, w)
  BY DEF CommitExternal
<1>3. /\ db \in [Rows -> Nat] /\ ext \in Seq(ForeignWrites) /\ mail \in Seq(Msgs)
      /\ commits \in Nat
  BY <1>0 DEF Types
<1>4. db' \in [Rows -> Nat] /\ \A r \in Rows : db[r] <= db'[r]
  BY <1>2, <1>3 DEF Written
<1>5. ext' \in Seq(ForeignWrites) /\ Len(ext') = Len(ext) + 1 /\ Len(ext) \in Nat
  BY <1>2, <1>3, AppendIs
<1>6. Types'
  BY <1>0, <1>1, <1>4, <1>5 DEF Types
<1>7. PollsFit'
  <2>1. 0..Len(ext) \subseteq 0..Len(ext')
    BY <1>5
  <2> QED BY <1>0, <1>1, <2>1 DEF PollsFit
<1>8. CreditFits'
  BY <1>0, <1>1 DEF CreditFits, Failing, FailingOf, Bit
<1>9. MailFits'
  <2>1. \A k \in DOMAIN mail : mail[k].rows \in RowMaps /\ Over(mail[k].rows, db)
    BY <1>0, Basics, MsgFields DEF MailFits
  <2>2. ASSUME NEW k \in DOMAIN mail
        PROVE  Over(mail[k].rows, db')
    <3>1. ASSUME NEW r \in DOMAIN mail[k].rows
          PROVE  mail[k].rows[r] <= db'[r]
      <4>1. r \in Rows /\ mail[k].rows[r] \in Nat
        BY <2>1, RowMapIs
      <4>2. mail[k].rows[r] <= db[r]
        BY <1>3, <2>1, <4>1 DEF Over
      <4> QED BY <1>3, <1>4, <4>1, <4>2
    <3> QED BY <3>1 DEF Over
  <2> QED BY <1>0, <1>1, <2>2 DEF MailFits
<1>10. Onward
  <2>1. ASSUME NEW Y \in SUBSET RowMaps
        PROVE  Moves(Y, Before, Future, Y, Before', Future')
    <3>0. PICK e \in [Rows -> Nat] : e = db' /\ \A r \in Rows : db[r] <= e[r]
      BY <1>4
    <3>1. Moves(Y, BeforeOf(commits, mail), FutureOf(db, mail), Y, BeforeOf(commits, mail),
                FutureOf(e, mail))
      <4>1. commits <= commits
        BY <1>3
      <4> QED BY <1>3, <3>0, <4>1, FutureGrows
    <3> QED BY <1>1, <3>0, <3>1 DEF Before, Future
  <2> QED BY <2>1 DEF Onward
<1> QED BY <1>1, <1>6, <1>7, <1>8, <1>9, <1>10, Untouched, ShortenedItself, SamePageItself
        DEF NoAckComes
---------------------------------------------------------------------------
(* A step of one session *)

LEMMA OneChanges ==
    ASSUME Types, NEW i \in Sessions, NEW t \in SessionStates, sess' = [sess EXCEPT ![i] = t]
    PROVE  /\ sess' \in [Sessions -> SessionStates] /\ sess'[i] = t
           /\ \A j \in Sessions : j # i => sess'[j] = sess[j]
BY DEF Types

LEMMA OneSession ==
    ASSUME FeedInv, Types', PollsFit', CreditFits', MailFits', Onward,
           NEW i \in Sessions, NEW t \in SessionStates, sess' = [sess EXCEPT ![i] = t],
           UNCHANGED <<used, gen, conn, view, post>>,
           rec' = "wait" => rec = "wait" \/ \A j \in Sessions : ~Current(j)',
           SamePage(page, page'), Shortened(toPanel, toPanel'), NoAckComes,
           Stays(sess[i], t), SessionFits(t),
           Blank(t) \/ ContentFits(t, ShownTo(i), Before, Future),
           sess[i].next <= t.next, Current(i) /\ Live(t) => Rides(sess[i], t),
           post # None /\ conn = i => /\ t.phase = "open" /\ Rides(sess[i], t)
                                      /\ t.inflight = sess[i].inflight
    PROVE  FeedInv'
<1>0. Types
  BY DEF FeedInv
<1>1. sess'[i] = t /\ \A j \in Sessions : j # i => sess'[j] = sess[j]
  BY <1>0, OneChanges
<1>2. Current(i)' => Current(i) /\ Live(t)
  BY <1>1 DEF Current, Stays
<1>3. \A j \in Sessions : j # i => (Current(j)' <=> Current(j))
  BY <1>1 DEF Current
<1>4. \A j \in Sessions : Settles(j)
  <2>1. Settles(i)
    BY <1>1, <1>2 DEF Settles
  <2>2. ASSUME NEW j \in Sessions, j # i
        PROVE  Settles(j)
    BY <1>1, <1>3, <2>2, SessionSame
  <2> QED BY <2>1, <2>2
<1>5. GenerationsFit'
  <2>1. \A j \in Sessions : Stays(sess[j], sess'[j])
    BY <1>1, StaysItself
  <2> QED BY <2>1, GenerationsKept DEF FeedInv
<1>6. Numbering
  <2>1. \A j \in Sessions : sess[j].next \in Nat
    BY <1>0, Basics, SessionFields
  <2>2. used \in Nat
    BY <1>0 DEF Types
  <2> QED BY <1>1, <2>1, <2>2 DEF Numbering
<1>7. PostStays
  <2>1. CASE post # None /\ conn = i
    <3>1. Current(conn) /\ Resends(post, conn, sess[conn])
      BY <2>1 DEF FeedInv, FlightFits
    <3>2. Current(conn)'
      BY <1>1, <2>1, <3>1 DEF Current, Live, Stays
    <3> QED BY <1>1, <2>1, <3>2 DEF PostStays
  <2>2. CASE post # None /\ conn # i
    <3>1. conn \in Sessions
      BY <2>2 DEF FeedInv, FlightFits, GenerationsFit
    <3> QED BY <1>1, <2>2, <3>1, PostSame
  <2>3. CASE post = None
    BY <2>3 DEF PostStays
  <2> QED BY <2>1, <2>2, <2>3
<1> QED BY <1>4, <1>5, <1>6, <1>7, Quiet

LEMMA SessionIs ==
    ASSUME FeedInv, NEW i \in Sessions
    PROVE  /\ sess[i] \in SessionStates /\ SessionFits(sess[i])
           /\ ContentFits(sess[i], ShownTo(i), Before, Future)
           /\ sess[i].read # "none" => /\ sess[i].queue = <<>> /\ sess[i].inflight = 0
                                       /\ post # None => conn # i
<1>1. sess[i] \in SessionStates
  BY DEF FeedInv, Types
<1>2. SessionFits(sess[i]) /\ ContentFits(sess[i], ShownTo(i), Before, Future)
  BY DEF FeedInv, SessionsFit
<1>3. ASSUME sess[i].read # "none"
      PROVE  sess[i].queue = <<>> /\ sess[i].inflight = 0
  BY <1>2, <1>3 DEF SessionFits
<1>4. ASSUME post # None, conn = i
      PROVE  sess[i].inflight # 0
  BY <1>4 DEF FeedInv, FlightFits, Resends
<1> QED BY <1>1, <1>2, <1>3, <1>4

LEMMA ReadOnlyIs ==
    ASSUME NEW s \in SessionStates, NEW r \in {"none", "asked", "served", "answered", "failed"},
           NEW t, t = [s EXCEPT !.read = r]
    PROVE  /\ t \in SessionStates /\ t.gen = s.gen /\ t.phase = s.phase /\ t.next = s.next
           /\ t.inflight = s.inflight /\ t.queue = s.queue /\ t.required = s.required
           /\ t.read = r /\ t.answer = s.answer /\ t.handoff = s.handoff
BY DEF SessionStates

\* A read goes on from one state to another.
LEMMA ReadGoesOn ==
    ASSUME NEW s \in SessionStates, SessionFits(s), s.read # "none", NEW t,
           t.gen = s.gen, t.phase = s.phase, t.next = s.next, t.inflight = s.inflight,
           t.queue = s.queue, t.required = s.required, t.read # "none",
           t.read = "answered" => DOMAIN t.answer.rows = Rows
    PROVE  Stays(s, t) /\ SessionFits(t) /\ Rides(s, t) /\ s.next <= t.next
<1>1. s.phase \notin {"unused", "polling"} /\ s # Unused
  BY DEF SessionFits, Unused
<1>2. s.next \in Nat
  BY SessionFields
<1>3. Stays(s, t)
  BY <1>1 DEF Stays, Live
<1>4. SessionFits(t)
  BY <1>1 DEF SessionFits, QueueFits
<1>5. Rides(s, t)
  BY DEF Rides
<1> QED BY <1>2, <1>3, <1>4, <1>5

LEMMA Serves ==
    ASSUME FeedInv, NEW i \in Sessions, sess[i].read = "asked",
           sess' = [sess EXCEPT ![i].read = "served"],
           NEW x, x = Snapshot(i) \/ x = [Snapshot(i) EXCEPT !.failed = TRUE],
           mail' = Append(mail, x), budget' = budget \/ (budget > 0 /\ budget' = budget - 1),
           x.failed => budget > 0 /\ budget' = budget - 1,
           UNCHANGED <<dbVars, used, pollVars, bridgeVars, panelVars>>
    PROVE  FeedInv'
<1>0. Types /\ PollsFit /\ CreditFits /\ MailFits
  BY DEF FeedInv
<1>1. UNCHANGED <<db, commits, ext, used, timer, known, cursor, init, poll, gen, ready, view, conn,
                  rec, post, page, toPanel, toHost>>
  BY DEF dbVars, pollVars, bridgeVars, panelVars
<1>2. /\ db \in [Rows -> Nat] /\ commits \in Nat /\ mail \in Seq(Msgs) /\ budget \in Nat
      /\ budget' \in Nat /\ budget' <= budget
  BY <1>0 DEF Types
<1>3. x \in AnswerMsgs /\ x.kind = "answer" /\ x.to = i /\ x.commit = commits /\ x.rows = db
  <2>1. PICK failed \in BOOLEAN : x = [kind |-> "answer", to |-> i, failed |-> failed,
                                      commit |-> commits, rows |-> db]
    <3>1. CASE x = Snapshot(i)
      BY <3>1 DEF Snapshot
    <3>2. CASE x = [Snapshot(i) EXCEPT !.failed = TRUE]
      BY <3>2 DEF Snapshot
    <3> QED BY <3>1, <3>2
  <2> QED BY <1>2, <2>1 DEF AnswerMsgs
<1>4. x \in Msgs /\ mail' \in Seq(Msgs)
  BY <1>2, <1>3, AppendIs DEF Msgs
<1>5. /\ sess[i] \in SessionStates /\ SessionFits(sess[i])
      /\ ContentFits(sess[i], ShownTo(i), Before, Future)
      /\ sess[i].queue = <<>> /\ sess[i].inflight = 0 /\ (post # None => conn # i)
  BY SessionIs
<1>6. PICK t : t = [sess[i] EXCEPT !.read = "served"]
  OBVIOUS
<1>7. /\ t \in SessionStates /\ t.gen = sess[i].gen /\ t.phase = sess[i].phase
      /\ t.next = sess[i].next /\ t.inflight = sess[i].inflight /\ t.queue = sess[i].queue
      /\ t.required = sess[i].required /\ t.read = "served" /\ t.handoff = sess[i].handoff
  BY <1>5, <1>6, ReadOnlyIs
<1>8. sess' = [sess EXCEPT ![i] = t]
  BY <1>0, <1>6 DEF Types
<1>9. /\ sess' \in [Sessions -> SessionStates] /\ sess'[i] = t
      /\ \A j \in Sessions : j # i => sess'[j] = sess[j]
  BY <1>0, <1>7, <1>8, OneChanges
<1>10. Types'
  BY <1>0, <1>1, <1>2, <1>4, <1>9 DEF Types
<1>11. PollsFit'
  BY <1>0, <1>1, <1>2, SessionsAre DEF PollsFit
<1>12. MailFits' /\ Onward
  <2>1. \A r \in DOMAIN x.rows : db[r] <= x.rows[r] /\ x.rows[r] <= db'[r]
    BY <1>1, <1>2, <1>3
  <2>2. \A j \in Sessions : sess[j].read = "served" => sess'[j].read = "served"
    BY <1>9
  <2>3. db' \in [Rows -> Nat] /\ (\A r \in Rows : db[r] <= db'[r]) /\ commits' \in Nat
        /\ commits <= commits' /\ commits <= x.commit /\ x.commit <= commits' /\ x.kind # "commit"
    BY <1>1, <1>2, <1>3
  <2>4. sess'[x.to].read = "served" /\ sess[x.to].read # "served"
    BY <1>3, <1>7, <1>9
  <2> QED BY <1>0, <1>4, <2>1, <2>2, <2>3, <2>4, MailGrows
<1>13. CreditFits'
  <2>1. /\ DOMAIN mail' = 1..Len(mail) + 1 /\ DOMAIN mail = 1..Len(mail) /\ Len(mail) \in Nat
        /\ \A k \in 1..Len(mail) : mail'[k] = mail[k]
        /\ mail'[Len(mail) + 1] = x
    BY <1>2, <1>4, AppendIs
  <2>2. \A k \in DOMAIN mail' : (k \in DOMAIN mail /\ mail'[k] = mail[k]) \/ mail'[k] = x
    BY <2>1
  <2>3. \A j \in Sessions : sess'[j].read = "failed" => sess[j].read = "failed"
    BY <1>7, <1>9
  <2>4. Failing' \subseteq Failing \cup {i} /\ (~x.failed => Failing' \subseteq Failing)
    BY <1>3, <2>2, <2>3 DEF Failing, FailingOf
  <2>5. Paid' <= Paid /\ (x.failed => Paid' + 1 <= Paid)
    <3>1. used \in Nat
      BY <1>0 DEF Types
    <3> QED BY <1>1, <1>2, <3>1 DEF Paid, Bit
  <2>6. x.failed \/ ~x.failed
    OBVIOUS
  <2> QED BY <1>0, <1>10, <2>4, <2>5, <2>6, CreditKept
<1>14. ContentFits(t, ShownTo(i), Before, Future)
  BY <1>5, <1>7, ContentOfIdle
<1>15. Stays(sess[i], t) /\ SessionFits(t) /\ Rides(sess[i], t) /\ sess[i].next <= t.next
  BY <1>5, <1>7, ReadGoesOn
<1> QED BY <1>1, <1>5, <1>7, <1>8, <1>10, <1>11, <1>12, <1>13, <1>14, <1>15, OneSession,
           ShortenedItself, SamePageItself DEF NoAckComes

LEMMA WorkerReadsKeeps ==
    ASSUME FeedInv, NEW i \in Sessions, WorkerReads(i)
    PROVE  FeedInv'
<1>1. ~Snapshot(i).failed
  BY DEF Snapshot
<1> QED BY <1>1, Serves DEF WorkerReads

LEMMA WorkerFailsKeeps ==
    ASSUME FeedInv, NEW i \in Sessions, WorkerFails(i)
    PROVE  FeedInv'
<1>1. PICK x : x = [Snapshot(i) EXCEPT !.failed = TRUE]
  OBVIOUS
<1> QED BY <1>1, Serves DEF WorkerFails, Spend
---------------------------------------------------------------------------
(* What the thread takes from the worker *)

LEMMA HeadIs ==
    ASSUME FeedInv, mail # <<>>, NEW a, a = Head(mail)
    PROVE  /\ a \in Msgs /\ a.rows \in Future /\ a.commit <= commits
           /\ \A x \in Before : x <= a.commit /\ (a.kind = "commit" => x < a.commit)
           /\ a.kind = "answer" => a.commit \in Before
           /\ a.commit \in BeforeOf(commits, Tail(mail))
           /\ \A z \in Future : Over(a.rows, z)
           /\ a.kind = "answer" => sess[a.to].read = "served"
           /\ \A k \in DOMAIN Tail(mail) : a.kind = "answer" /\ Tail(mail)[k].kind = "answer"
                 => Tail(mail)[k].to # a.to
<1>0. Types /\ MailFits
  BY DEF FeedInv
<1>1. mail \in Seq(Msgs) /\ commits \in Nat
  BY <1>0 DEF Types
<1>2. /\ DOMAIN Tail(mail) = 1..Len(mail) - 1 /\ DOMAIN mail = 1..Len(mail)
      /\ Len(mail) \in Nat /\ Len(mail) >= 1
      /\ \A k \in 1..Len(mail) - 1 : Tail(mail)[k] = mail[k + 1]
      /\ a = mail[1] /\ a \in Msgs
  BY <1>1, TailIs
<1>3. 1 \in DOMAIN mail /\ \A k \in DOMAIN Tail(mail) : /\ k + 1 \in DOMAIN mail /\ 1 < k + 1
                                                       /\ Tail(mail)[k] = mail[k + 1]
  BY <1>2
<1>4. a.rows \in Future /\ a.commit <= commits /\ a.commit \in Nat
      /\ (a.kind = "answer" => sess[a.to].read = "served")
  BY <1>0, <1>2, <1>3, MsgFields DEF MailFits, Future, FutureOf
<1>5. \A x \in Before : x <= a.commit /\ (a.kind = "commit" => x < a.commit)
  BY <1>2, <1>3 DEF Before, BeforeOf
<1>6. \A k \in DOMAIN mail : 1 < k => /\ a.commit <= mail[k].commit
                                      /\ mail[k].kind = "commit" => a.commit < mail[k].commit
                                      /\ Over(a.rows, mail[k].rows)
                                      /\ a.kind = "answer" /\ mail[k].kind = "answer"
                                            => mail[k].to # a.to
  BY <1>0, <1>2, <1>3 DEF MailFits
<1>7. a.commit \in BeforeOf(commits, Tail(mail))
  BY <1>3, <1>4, <1>6 DEF BeforeOf
<1>8. \A k \in DOMAIN mail : k = 1 \/ 1 < k
  BY <1>2
<1>9. a.kind = "answer" => a.commit \in Before
  BY <1>2, <1>4, <1>6, <1>8 DEF Before, BeforeOf
<1>10. ASSUME NEW z \in Future
       PROVE  Over(a.rows, z)
  <2>1. Over(a.rows, db) /\ Over(a.rows, a.rows)
    <3>1. \A r \in DOMAIN a.rows : a.rows[r] \in Nat
      BY <1>2, MsgFields, RowMapIs
    <3> QED BY <1>0, <1>2, <1>3, <3>1 DEF MailFits, Over
  <2>2. z = db \/ \E k \in DOMAIN mail : z = mail[k].rows
    BY DEF Future, FutureOf
  <2> QED BY <1>2, <1>6, <1>8, <2>1, <2>2
<1> QED BY <1>2, <1>3, <1>4, <1>5, <1>6, <1>7, <1>9, <1>10

\* Whatever the panel shows or may be sent is older than what is still to come.
LEMMA ShownIsOlder ==
    ASSUME FeedInv, NEW y \in Shown, NEW z \in Future
    PROVE  Over(y, z)
BY DEF FeedInv, WireFits, Between, Shown, ShownOf

LEMMA TakenIs ==
    ASSUME FeedInv, mail # <<>>, mail' = Tail(mail), UNCHANGED <<db, commits>>,
           \A i \in Sessions : sess[i].read = "served" => \/ sess'[i].read = "served"
                                                          \/ /\ Head(mail).kind = "answer"
                                                             /\ i = Head(mail).to
    PROVE  MailFits' /\ Onward /\ mail' \in Seq(Msgs) /\ Shortened(mail, mail')
<1>0. Types /\ MailFits
  BY DEF FeedInv
<1>1. mail \in Seq(Msgs) /\ db \in [Rows -> Nat] /\ commits \in Nat
  BY <1>0 DEF Types
<1>2. PICK a : a = Head(mail)
  OBVIOUS
<1>3. /\ \A k \in DOMAIN mail' : \E j \in DOMAIN mail : mail'[k] = mail[j]
      /\ \A k \in DOMAIN mail' : a.kind = "answer" /\ mail'[k].kind = "answer" => mail'[k].to # a.to
      /\ Shortened(mail, mail')
      /\ mail' \in Seq(Msgs)
  <2>1. Shortened(mail, mail')
    BY DEF Shortened
  <2> QED BY <1>1, <1>2, <2>1, HeadIs, SameOrTail
<1>4. ASSUME NEW k \in DOMAIN mail', mail'[k].kind = "answer"
      PROVE  sess'[mail'[k].to].read = "served"
  <2>1. mail'[k].to \in Sessions /\ sess[mail'[k].to].read = "served"
    BY <1>0, <1>1, <1>3, <1>4, ElementsOf, MsgFields DEF MailFits
  <2> QED BY <1>2, <1>3, <1>4, <2>1
<1>5. MailFits'
  BY <1>0, <1>3, <1>4, MailKept
<1>6. Onward
  <2>1. ASSUME NEW Y \in SUBSET RowMaps
        PROVE  Moves(Y, Before, Future, Y, Before', Future')
    <3>1. Moves(Y, BeforeOf(commits, mail), FutureOf(db, mail), Y, BeforeOf(commits, Tail(mail)),
                FutureOf(db, Tail(mail)))
      BY <1>1, FutureShrinks
    <3> QED BY <3>1 DEF Before, Future
  <2> QED BY <2>1 DEF Onward
<1> QED BY <1>3, <1>5, <1>6

LEMMA TakeAnswerKeeps ==
    ASSUME FeedInv, TakeAnswer
    PROVE  FeedInv'
<1>0. Types /\ PollsFit /\ CreditFits /\ MailFits
  BY DEF FeedInv
<1>1. UNCHANGED <<db, commits, ext, used, timer, known, cursor, init, poll, gen, ready, view, conn,
                  rec, post, page, toPanel, toHost, budget>> /\ mail' = Tail(mail) /\ mail # <<>>
  BY DEF TakeAnswer, dbVars, pollVars, bridgeVars, panelVars
<1>2. PICK a : a = Head(mail)
  OBVIOUS
<1>3. PICK i : i = a.to
  OBVIOUS
<1>4. PICK r : r = IF a.failed THEN "failed" ELSE "answered"
  OBVIOUS
<1>5. PICK b : b = [commit |-> a.commit, rows |-> a.rows]
  OBVIOUS
<1>6. a.kind = "answer" /\ sess' = [sess EXCEPT ![i].read = r, ![i].answer = b]
  BY <1>2, <1>3, <1>4, <1>5 DEF TakeAnswer
<1>7. /\ a \in Msgs /\ a.rows \in Future
      /\ \A x \in Before : x <= a.commit
      /\ a.commit \in Before
      /\ \A z \in Future : Over(a.rows, z)
      /\ sess[i].read = "served"
  BY <1>1, <1>2, <1>3, <1>6, HeadIs
<1>8. /\ i \in Sessions /\ a.rows \in RowMaps /\ a.rows \in [Rows -> Nat] /\ a.commit \in Nat
      /\ b \in Batches /\ b.commit = a.commit /\ b.rows = a.rows
  BY <1>3, <1>5, <1>6, <1>7, MsgFields, BatchIs
<1>9. /\ sess[i] \in SessionStates /\ SessionFits(sess[i])
      /\ ContentFits(sess[i], ShownTo(i), Before, Future)
      /\ sess[i].queue = <<>> /\ sess[i].inflight = 0 /\ (post # None => conn # i)
  BY <1>7, <1>8, SessionIs
<1>10. PICK t : t = [sess[i] EXCEPT !.read = r, !.answer = b]
  OBVIOUS
<1>11. /\ t \in SessionStates /\ t.gen = sess[i].gen /\ t.phase = sess[i].phase
       /\ t.next = sess[i].next /\ t.inflight = sess[i].inflight /\ t.queue = sess[i].queue
       /\ t.required = sess[i].required /\ t.read = r /\ t.handoff = sess[i].handoff /\ t.answer = b
  <2>1. r \in {"none", "asked", "served", "answered", "failed"}
    BY <1>4
  <2>2. PICK s \in SessionStates : s = sess[i]
    BY <1>9
  <2>3. b \in Batches /\ t = [s EXCEPT !.read = r, !.answer = b]
    BY <1>8, <1>10, <2>2
  <2> HIDE <1>10
  <2>4. /\ t \in SessionStates /\ t.gen = s.gen /\ t.phase = s.phase /\ t.next = s.next
        /\ t.inflight = s.inflight /\ t.queue = s.queue /\ t.required = s.required
        /\ t.read = r /\ t.answer = b /\ t.handoff = s.handoff
    BY <2>1, <2>3 DEF SessionStates
  <2> QED BY <2>2, <2>4
<1>12. sess' = [sess EXCEPT ![i] = t]
  BY <1>0, <1>6, <1>10 DEF Types
<1>13. /\ sess' \in [Sessions -> SessionStates] /\ sess'[i] = t
       /\ \A j \in Sessions : j # i => sess'[j] = sess[j]
  BY <1>0, <1>8, <1>11, <1>12, OneChanges
<1>14. MailFits' /\ Onward /\ mail' \in Seq(Msgs) /\ Shortened(mail, mail')
  BY <1>1, <1>2, <1>3, <1>6, <1>13, TakenIs
<1>15. Types'
  BY <1>0, <1>1, <1>13, <1>14 DEF Types
<1>16. PollsFit'
  BY <1>0, <1>1 DEF PollsFit
<1>17. CreditFits'
  <2>1. ASSUME NEW j \in Sessions, sess'[j].read = "failed"
        PROVE  j \in Failing
    <3>1. CASE j = i
      <4>1. a.failed
        BY <1>4, <1>11, <1>13, <2>1, <3>1
      <4>2. 1 \in DOMAIN mail /\ a = mail[1]
        BY <1>0, <1>1, <1>2, TailIs DEF Types
      <4> QED BY <1>3, <1>6, <1>8, <3>1, <4>1, <4>2 DEF Failing, FailingOf
    <3>2. CASE j # i
      BY <1>13, <2>1, <3>2 DEF Failing, FailingOf
    <3> QED BY <3>1, <3>2
  <2>2. Failing' \subseteq Failing
    BY <1>0, <1>14, <2>1, NoMoreFail
  <2>3. Paid' <= Paid
    BY <1>0, <1>1 DEF Paid, Bit, Types
  <2> QED BY <1>0, <1>15, <2>2, <2>3, CreditKept
<1>18. ContentFits(t, ShownTo(i), Before, Future)
  <2>1. Between(b, ShownTo(i), Before, Future)
    BY <1>7, <1>8, ShownIsOlder DEF Between, ShownTo
  <2>2. ASSUME NEW k \in DOMAIN sess[i].handoff
        PROVE  ~(sess[i].handoff[k].commit > a.commit)
    <3>1. sess[i].handoff[k].commit \in Before
      BY <1>9 DEF ContentFits, Between
    <3>2. sess[i].handoff[k].commit <= a.commit /\ sess[i].handoff[k].commit \in Nat
      BY <1>7, <3>1 DEF Before, BeforeOf
    <3> QED BY <1>8, <3>2
  <2> QED BY <1>8, <1>9, <1>11, <2>1, <2>2 DEF ContentFits, Handed
<1>19. Stays(sess[i], t) /\ SessionFits(t) /\ Rides(sess[i], t) /\ sess[i].next <= t.next
  <2>1. t.read # "none" /\ DOMAIN t.answer.rows = Rows
    BY <1>4, <1>8, <1>11
  <2> QED BY <1>7, <1>9, <1>11, <2>1, ReadGoesOn
<1> QED BY <1>1, <1>8, <1>9, <1>11, <1>12, <1>14, <1>15, <1>16, <1>17, <1>18, <1>19, OneSession,
           ShortenedItself, SamePageItself DEF NoAckComes
---------------------------------------------------------------------------
(* Sessions that end *)

LEMMA ClosedIs ==
    ASSUME NEW s \in SessionStates, NEW t, t = Closed(s)
    PROVE  /\ t \in SessionStates /\ t.gen = s.gen /\ t.phase = "closed" /\ t.next = s.next
           /\ t.inflight = 0 /\ t.queue = <<>> /\ t.required = s.required /\ t.read = s.read
           /\ t.handoff = s.handoff /\ t.answer = s.answer
<1>1. <<>> \in Seq(Batches)
  OBVIOUS
<1> QED BY <1>1 DEF SessionStates, Closed

LEMMA EmptyQueueFits ==
    ASSUME NEW t, t.queue = <<>>
    PROVE  QueueFits(t)
<1>1. MaxQueued \in Nat
  BY BoundsAssumption
<1> QED BY <1>1 DEF QueueFits

LEMMA PollsStop ==
    ASSUME PollsFit, NEW left, StopIfIdle(left), UNCHANGED <<commits, budget, init, poll, ext>>,
           timer \in BOOLEAN
    PROVE  PollsFit' /\ timer' \in BOOLEAN
<1>1. CASE \E i \in Sessions : Live(left[i])
  BY <1>1 DEF StopIfIdle, PollsFit
<1>2. CASE ~ \E i \in Sessions : Live(left[i])
  BY <1>2 DEF StopIfIdle, PollsFit
<1> QED BY <1>1, <1>2

LEMMA PollsSpent ==
    ASSUME PollsFit, NEW left, StopIfIdle(left), UNCHANGED <<commits, init, poll, ext>>,
           timer \in BOOLEAN, budget \in Nat, budget' \in Nat, budget' <= budget
    PROVE  PollsFit' /\ timer' \in BOOLEAN
<1>1. {known', cursor'} \subseteq 0..Len(ext') \cup {None} /\ timer' \in BOOLEAN
  <2>1. CASE \E i \in Sessions : Live(left[i])
    BY <2>1 DEF StopIfIdle, PollsFit
  <2>2. CASE ~ \E i \in Sessions : Live(left[i])
    BY <2>2 DEF StopIfIdle
  <2> QED BY <2>1, <2>2
<1>2. budget' <= MaxDisruptions
  BY SessionsAre DEF PollsFit
<1> QED BY <1>1, <1>2 DEF PollsFit

\* The answer of a read that failed is taken.
LEMMA FailedIs ==
    ASSUME FeedInv, NEW i \in Sessions, sess[i].read = "failed"
    PROVE  i \in Failing /\ \A k \in DOMAIN mail : mail[k].kind = "answer" => mail[k].to # i
<1>1. \A k \in DOMAIN mail : mail[k].kind = "answer" => sess[mail[k].to].read = "served"
  BY DEF FeedInv, MailFits
<1> QED BY <1>1 DEF Failing, FailingOf

LEMMA FailureEnds ==
    ASSUME FeedInv, NEW i \in Sessions, sess[i].read = "failed",
           NEW t \in SessionStates, sess' = [sess EXCEPT ![i] = t],
           t.gen = sess[i].gen, t.phase = "closed", t.next = sess[i].next, t.inflight = 0,
           t.queue = <<>>, t.read = "none", t.handoff = sess[i].handoff,
           timer' \in BOOLEAN, PollsFit',
           UNCHANGED <<dbVars, mail, used, gen, ready, view, conn, post, panelVars, budget>>,
           rec' \in {"none", "timer", "wait"}, rec' = "wait" => rec = "wait" \/ Current(i)
    PROVE  FeedInv'
<1>0. Types /\ PollsFit /\ CreditFits /\ MailFits /\ GenerationsFit
  BY DEF FeedInv
<1>1. UNCHANGED <<db, commits, ext, page, toPanel, toHost>>
  BY DEF dbVars, panelVars
<1>2. /\ sess[i] \in SessionStates /\ SessionFits(sess[i])
      /\ ContentFits(sess[i], ShownTo(i), Before, Future)
      /\ sess[i].queue = <<>> /\ sess[i].inflight = 0 /\ (post # None => conn # i)
  BY SessionIs
<1>3. /\ sess' \in [Sessions -> SessionStates] /\ sess'[i] = t
      /\ \A j \in Sessions : j # i => sess'[j] = sess[j]
  BY <1>0, OneChanges
<1>4. Types'
  BY <1>0, <1>1, <1>3 DEF Types
<1>5. i \in Failing /\ \A k \in DOMAIN mail : mail[k].kind = "answer" => mail[k].to # i
  BY FailedIs
<1>6. CreditFits'
  <2>1. Failing' \subseteq Failing \ {i}
    BY <1>3, <1>5 DEF Failing, FailingOf
  <2>2. Paid' <= Paid + 1
    BY <1>0, <1>1 DEF Paid, Bit, Types
  <2> QED BY <1>0, <1>4, <1>5, <2>1, <2>2, CreditKept
<1>7. MailFits' /\ Onward
  <2>1. \A k \in DOMAIN mail : mail[k].kind = "answer" =>
            mail[k].to \in Sessions /\ sess[mail[k].to].read = "served"
    BY <1>0, Basics, MsgFields DEF MailFits
  <2>2. \A k \in DOMAIN mail' : mail'[k].kind = "answer" => sess'[mail'[k].to].read = "served"
    BY <1>3, <1>5, <2>1
  <2> QED BY <1>0, <1>1, <2>2, MailKept, OnwardItself, ShortenedItself
<1>8. ContentFits(t, ShownTo(i), Before, Future)
  BY <1>2, ContentOfIdle
<1>9. sess[i] # Unused /\ sess[i].next \in Nat
  BY <1>2, SessionFields DEF Unused
<1>10. Stays(sess[i], t) /\ Rides(sess[i], t) /\ sess[i].next <= t.next /\ ~Live(t)
  BY <1>2, <1>9 DEF Stays, Rides, Live
<1>11. SessionFits(t)
  BY EmptyQueueFits DEF SessionFits
<1>12. rec' = "wait" => rec = "wait" \/ \A j \in Sessions : ~Current(j)'
  <2>1. ASSUME rec' = "wait", rec # "wait", NEW j \in Sessions
        PROVE  ~Current(j)'
    BY <1>0, <1>3, <1>10, <2>1 DEF Current, GenerationsFit
  <2> QED BY <2>1
<1> QED BY <1>1, <1>2, <1>4, <1>6, <1>7, <1>8, <1>10, <1>11, <1>12, OneSession,
           ShortenedItself, SamePageItself DEF NoAckComes

LEMMA FailedSession ==
    ASSUME FeedInv, NEW i \in Sessions, sess[i].read = "failed", NEW t,
           t = Closed([sess[i] EXCEPT !.read = "none"])
    PROVE  /\ t \in SessionStates
           /\ t.gen = sess[i].gen /\ t.phase = "closed" /\ t.next = sess[i].next
           /\ t.inflight = 0 /\ t.queue = <<>> /\ t.read = "none" /\ t.handoff = sess[i].handoff
<1>1. PICK u : u = [sess[i] EXCEPT !.read = "none"]
  OBVIOUS
<1>2. u \in SessionStates /\ u.gen = sess[i].gen /\ u.next = sess[i].next /\ u.read = "none"
      /\ u.handoff = sess[i].handoff
  BY <1>1, SessionIs, ReadOnlyIs
<1> QED BY <1>1, <1>2, ClosedIs

LEMMA ConnectFailsKeeps ==
    ASSUME FeedInv, NEW i \in Sessions, ConnectFails(i)
    PROVE  FeedInv'
<1>0. PollsFit /\ timer \in BOOLEAN /\ rec \in {"none", "timer", "wait"}
  BY DEF FeedInv, Types
<1>1. PICK t : t = Closed([sess[i] EXCEPT !.read = "none"])
  OBVIOUS
<1>2. sess' = [sess EXCEPT ![i] = t] /\ sess[i].read = "failed" /\ sess[i].phase = "opening"
      /\ StopIfIdle(sess')
  BY <1>1 DEF ConnectFails
<1>3. PollsFit' /\ timer' \in BOOLEAN
  BY <1>0, <1>2, PollsStop DEF ConnectFails, dbVars
<1>4. /\ t \in SessionStates /\ t.gen = sess[i].gen /\ t.phase = "closed" /\ t.next = sess[i].next
      /\ t.inflight = 0 /\ t.queue = <<>> /\ t.read = "none" /\ t.handoff = sess[i].handoff
  BY <1>1, <1>2, FailedSession
<1>5. rec' = IF Wanted(i) THEN "wait" ELSE rec
  BY DEF ConnectFails
<1>6. rec' \in {"none", "timer", "wait"} /\ (rec' = "wait" => rec = "wait" \/ Current(i))
  BY <1>0, <1>2, <1>5 DEF Wanted, Current, Live
<1> QED BY <1>2, <1>3, <1>4, <1>6, FailureEnds DEF ConnectFails

LEMMA RefreshFailsKeeps ==
    ASSUME FeedInv, NEW i \in Sessions, RefreshFails(i)
    PROVE  FeedInv'
<1>0. PollsFit /\ timer \in BOOLEAN /\ rec \in {"none", "timer", "wait"}
  BY DEF FeedInv, Types
<1>1. PICK t : t = Closed([sess[i] EXCEPT !.read = "none"])
  OBVIOUS
<1>2. sess' = [sess EXCEPT ![i] = t] /\ sess[i].read = "failed" /\ StopIfIdle(sess')
  BY <1>1 DEF RefreshFails
<1>3. PollsFit' /\ timer' \in BOOLEAN
  BY <1>0, <1>2, PollsStop DEF RefreshFails, dbVars
<1>4. /\ t \in SessionStates /\ t.gen = sess[i].gen /\ t.phase = "closed" /\ t.next = sess[i].next
      /\ t.inflight = 0 /\ t.queue = <<>> /\ t.read = "none" /\ t.handoff = sess[i].handoff
  BY <1>1, <1>2, FailedSession
<1>5. rec' = IF Wanted(i) /\ rec = "none" THEN "timer" ELSE rec
  BY DEF RefreshFails
<1>6. rec' \in {"none", "timer", "wait"} /\ (rec' = "wait" => rec = "wait" \/ Current(i))
  BY <1>0, <1>5
<1> QED BY <1>2, <1>3, <1>4, <1>6, FailureEnds DEF RefreshFails

LEMMA RefreshForgottenKeeps ==
    ASSUME FeedInv, NEW i \in Sessions, RefreshForgotten(i)
    PROVE  FeedInv'
<1>0. PollsFit /\ timer \in BOOLEAN /\ rec \in {"none", "timer", "wait"} /\ Types
  BY DEF FeedInv, Types
<1>1. PICK t : t = [sess[i] EXCEPT !.read = "none"]
  OBVIOUS
<1>2. sess[i].read = "failed" /\ sess[i].phase = "closed"
  BY DEF RefreshForgotten
<1>3. sess' = [sess EXCEPT ![i] = t]
  BY <1>0, <1>1 DEF RefreshForgotten, Types
<1>4. /\ sess[i] \in SessionStates /\ sess[i].queue = <<>> /\ sess[i].inflight = 0
  BY <1>2, SessionIs
<1>5. /\ t \in SessionStates /\ t.gen = sess[i].gen /\ t.phase = "closed" /\ t.next = sess[i].next
      /\ t.inflight = 0 /\ t.queue = <<>> /\ t.read = "none" /\ t.handoff = sess[i].handoff
  BY <1>1, <1>2, <1>4, ReadOnlyIs
<1>6. PollsFit' /\ timer' \in BOOLEAN
  BY <1>0 DEF RefreshForgotten, dbVars, pollVars, PollsFit
<1> QED BY <1>0, <1>2, <1>3, <1>5, <1>6, FailureEnds DEF RefreshForgotten, bridgeVars

LEMMA ConnectSupersededKeeps ==
    ASSUME FeedInv, NEW i \in Sessions, ConnectSuperseded(i)
    PROVE  FeedInv'
<1>0. Types /\ PollsFit /\ CreditFits /\ MailFits
  BY DEF FeedInv
<1>1. /\ UNCHANGED <<db, commits, ext, mail, used, init, poll, gen, ready, view, conn, rec, post,
                     page, toPanel, toHost, budget>>
      /\ StopIfIdle(sess') /\ sess[i].read = "answered" /\ sess[i].phase = "opening"
  BY DEF ConnectSuperseded, dbVars, bridgeVars, panelVars
<1>2. /\ sess[i] \in SessionStates /\ SessionFits(sess[i])
      /\ ContentFits(sess[i], ShownTo(i), Before, Future)
      /\ sess[i].queue = <<>> /\ sess[i].inflight = 0 /\ (post # None => conn # i)
  BY <1>1, SessionIs
<1>3. PICK o : o = [sess[i] EXCEPT !.phase = "open"]
  OBVIOUS
<1>4. /\ o \in SessionStates /\ o.gen = sess[i].gen /\ o.next = sess[i].next /\ o.queue = <<>>
      /\ o.read = "answered" /\ o.handoff = sess[i].handoff
  BY <1>1, <1>2, <1>3 DEF SessionStates
<1>5. PICK r : r = HandOver(o, sess[i].required)
  OBVIOUS
<1>6. /\ r.s \in SessionStates /\ r.s.gen = sess[i].gen /\ r.s.next = sess[i].next + 1
      /\ r.s.read = "none" /\ r.s.handoff = <<>>
  <2>1. Ordered(o.handoff) /\ sess[i].required \in BOOLEAN
    BY <1>2, <1>4, SessionFields DEF ContentFits
  <2> QED BY <1>4, <1>5, <2>1, HandOverIs
<1>7. PICK t : t = Closed(r.s)
  OBVIOUS
<1>8. /\ t \in SessionStates /\ t.gen = sess[i].gen /\ t.next = sess[i].next + 1
      /\ t.read = "none" /\ t.handoff = <<>> /\ t.phase = "closed" /\ t.queue = <<>>
      /\ t.inflight = 0
  BY <1>6, <1>7, ClosedIs
<1>9. sess' = [sess EXCEPT ![i] = t]
  BY <1>3, <1>5, <1>7 DEF ConnectSuperseded, Opened
<1>10. /\ sess' \in [Sessions -> SessionStates] /\ sess'[i] = t
       /\ \A j \in Sessions : j # i => sess'[j] = sess[j]
  BY <1>0, <1>8, <1>9, OneChanges
<1>11. PollsFit' /\ timer' \in BOOLEAN
  <2>1. timer \in BOOLEAN
    BY <1>0 DEF Types
  <2> QED BY <1>0, <1>1, <2>1, PollsStop
<1>12. Types'
  BY <1>0, <1>1, <1>10, <1>11 DEF Types
<1>13. CreditFits'
  <2>1. \A j \in Sessions : sess'[j].read = "failed" => j \in Failing
    BY <1>8, <1>10 DEF Failing, FailingOf
  <2>2. Failing' \subseteq Failing
    BY <1>0, <1>1, <2>1, NoMoreFail, ShortenedItself
  <2>3. Paid' <= Paid
    BY <1>0, <1>1 DEF Paid, Bit, Types
  <2> QED BY <1>0, <1>12, <2>2, <2>3, CreditKept
<1>14. MailFits' /\ Onward
  <2>1. \A k \in DOMAIN mail : mail[k].kind = "answer" =>
            mail[k].to \in Sessions /\ sess[mail[k].to].read = "served"
    BY <1>0, Basics, MsgFields DEF MailFits
  <2>2. \A k \in DOMAIN mail' : mail'[k].kind = "answer" => sess'[mail'[k].to].read = "served"
    BY <1>1, <1>10, <2>1
  <2> QED BY <1>0, <1>1, <2>2, MailKept, OnwardItself, ShortenedItself
<1>15. sess[i] # Unused /\ sess[i].next \in Nat
  BY <1>1, <1>2, SessionFields DEF Unused
<1>16. Stays(sess[i], t) /\ sess[i].next <= t.next /\ ~Live(t) /\ Blank(t)
  BY <1>8, <1>15 DEF Stays, Live, Blank
<1>17. SessionFits(t)
  BY <1>8, EmptyQueueFits DEF SessionFits
<1> QED BY <1>1, <1>2, <1>8, <1>9, <1>11, <1>12, <1>13, <1>14, <1>16, <1>17, OneSession,
           ShortenedItself, SamePageItself DEF NoAckComes
---------------------------------------------------------------------------
(* The polls, and what sessions are asked for *)

\* Session t, which is the i-th, is what s goes on to with nothing sent.
GoesOn(i, s, t) ==
    /\ t \in SessionStates /\ Stays(s, t) /\ SessionFits(t)
    /\ ContentFits(t, ShownTo(i), Before, Future)
    /\ Rides(s, t) /\ t.inflight = s.inflight /\ (s.phase = "open" => t.phase = "open")
    /\ t.read = "failed" => s.read = "failed"
    /\ s.read = "served" => t.read = "served"

LEMMA GoesOnItself ==
    ASSUME FeedInv, NEW i \in Sessions
    PROVE  GoesOn(i, sess[i], sess[i])
BY SessionIs, StaysItself DEF GoesOn, Rides

LEMMA RequireGoesOn ==
    ASSUME FeedInv, NEW i \in Sessions, sess[i].phase # "unused"
    PROVE  GoesOn(i, sess[i], Require(sess[i]))
<1>1. PICK s : s = sess[i]
  OBVIOUS
<1>2. s \in SessionStates /\ SessionFits(s) /\ ContentFits(s, ShownTo(i), Before, Future)
  BY <1>1, SessionIs
<1>3. PICK t : t = Require(s)
  OBVIOUS
<1>4. Grows(s, t) /\ t.queue = <<>>
  BY <1>2, <1>3, RequireIs
<1>5. s # Unused /\ t.phase = s.phase /\ t.gen = s.gen
  BY <1>1, <1>4 DEF Unused, Grows
<1>6. Stays(s, t)
  BY <1>1, <1>4, <1>5 DEF Stays, Grows, Live
<1>7. SessionFits(t)
  BY <1>2, <1>4, FitsGrown
<1>8. ContentFits(t, ShownTo(i), Before, Future)
  <2>1. CASE t.read = s.read /\ t.handoff = s.handoff
    <3>1. t.answer = s.answer
      BY <1>4 DEF Grows
    <3> QED BY <1>2, <1>4, <2>1, <3>1 DEF ContentFits, Ordered, Handed
  <2>2. CASE t.read = "asked" /\ t.handoff = <<>>
    BY <1>2, <1>4, <2>2, ContentOfIdle
  <2> QED BY <1>4, <2>1, <2>2 DEF Grows
<1>9. Rides(s, t) /\ t.inflight = s.inflight /\ t \in SessionStates
      /\ (t.read = "failed" => s.read = "failed") /\ (s.read = "served" => t.read = "served")
  BY <1>4 DEF Rides, Grows
<1> QED BY <1>1, <1>3, <1>5, <1>6, <1>7, <1>8, <1>9 DEF GoesOn

LEMMA AllSessions ==
    ASSUME FeedInv, Types', PollsFit',
           \A i \in Sessions : GoesOn(i, sess[i], sess'[i]),
           UNCHANGED <<db, commits, mail, used, gen, conn, view, rec, post, budget>>,
           SamePage(page, page'), page'.loading = page.loading,
           Shortened(toPanel, toPanel'), NoAckComes
    PROVE  FeedInv'
<1>0. Types /\ PollsFit /\ CreditFits /\ MailFits /\ FlightFits
  BY DEF FeedInv
<1>1. \A i \in Sessions : Current(i)' => Current(i)
  BY DEF GoesOn, Stays, Current
<1>2. \A i \in Sessions : Settles(i)
  BY <1>1 DEF GoesOn, Settles
<1>3. GenerationsFit'
  BY GenerationsKept DEF GoesOn, FeedInv
<1>4. Numbering
  <2>1. \A i \in Sessions : sess[i].next \in Nat
    BY <1>0, Basics, SessionFields
  <2>2. used \in Nat
    BY <1>0 DEF Types
  <2> QED BY <2>1, <2>2 DEF Numbering, GoesOn, Rides
<1>5. PostStays
  <2>1. ASSUME post # None
        PROVE  /\ Current(conn)' /\ sess'[conn].phase = "open" /\ Rides(sess[conn], sess'[conn])
               /\ sess'[conn].inflight = sess[conn].inflight
    <3>1. conn \in Sessions /\ Current(conn) /\ sess[conn].phase = "open"
      BY <2>1 DEF FeedInv, FlightFits, Resends, GenerationsFit
    <3>2. GoesOn(conn, sess[conn], sess'[conn])
      BY <3>1
    <3>3. Current(conn)'
      BY <3>1, <3>2 DEF Current, GoesOn, Stays, Live
    <3> QED BY <3>1, <3>2, <3>3 DEF GoesOn
  <2> QED BY <2>1 DEF PostStays
<1>6. MailFits' /\ Onward
  <2>1. \A k \in DOMAIN mail : mail[k].kind = "answer" =>
            mail[k].to \in Sessions /\ sess[mail[k].to].read = "served"
    BY <1>0, Basics, MsgFields DEF MailFits
  <2>2. \A k \in DOMAIN mail' : mail'[k].kind = "answer" => sess'[mail'[k].to].read = "served"
    BY <2>1 DEF GoesOn
  <2> QED BY <1>0, <2>2, MailKept, OnwardItself, ShortenedItself
<1>7. CreditFits'
  <2>1. \A j \in Sessions : sess'[j].read = "failed" => j \in Failing
    BY DEF GoesOn, Failing, FailingOf
  <2>2. Failing' \subseteq Failing
    BY <1>0, <2>1, NoMoreFail, ShortenedItself
  <2>3. Paid' <= Paid
    BY <1>0 DEF Paid, Bit, Types
  <2> QED BY <1>0, <2>2, <2>3, CreditKept
<1> QED BY <1>2, <1>3, <1>4, <1>5, <1>6, <1>7, Quiet

LEMMA SessOfAll ==
    ASSUME FeedInv, \A i \in Sessions : GoesOn(i, sess[i], sess'[i]),
           sess' = [i \in Sessions |-> sess'[i]]
    PROVE  sess' \in [Sessions -> SessionStates]
<1>1. \A i \in Sessions : sess'[i] \in SessionStates
  BY DEF GoesOn
<1> QED BY <1>1

LEMMA BaselineVersionKeeps ==
    ASSUME FeedInv, BaselineVersion
    PROVE  FeedInv'
<1>0. Types /\ PollsFit /\ CreditFits /\ MailFits
  BY DEF FeedInv
<1>1. UNCHANGED <<db, commits, ext, mail, sess, used, timer, cursor, poll, gen, ready, view,
                  conn, rec, post, page, toPanel, toHost, budget>>
      /\ init' = "peers" /\ known' = Len(ext)
  BY DEF BaselineVersion, dbVars, bridgeVars, panelVars
<1>2. Types'
  BY <1>0, <1>1 DEF Types
<1>3. PollsFit'
  <2>1. Len(ext) \in Nat
    BY <1>0, ElementsOf DEF Types
  <2> QED BY <1>0, <1>1, <2>1 DEF PollsFit
<1>4. \A i \in Sessions : GoesOn(i, sess[i], sess'[i])
  BY <1>1, GoesOnItself
<1> QED BY <1>1, <1>2, <1>3, <1>4, AllSessions, ShortenedItself, SamePageItself DEF NoAckComes

LEMMA PollVersionKeeps ==
    ASSUME FeedInv, PollVersion
    PROVE  FeedInv'
<1>0. Types /\ PollsFit /\ CreditFits /\ MailFits
  BY DEF FeedInv
<1>1. UNCHANGED <<db, commits, ext, mail, sess, used, timer, cursor, init, gen, ready, view,
                  conn, rec, post, page, toPanel, toHost, budget>>
      /\ poll' \in {"idle", "peers"} /\ known' = Len(ext)
  BY DEF PollVersion, dbVars, bridgeVars, panelVars
<1>2. Types'
  BY <1>0, <1>1 DEF Types
<1>3. PollsFit'
  <2>1. Len(ext) \in Nat
    BY <1>0, ElementsOf DEF Types
  <2> QED BY <1>0, <1>1, <2>1 DEF PollsFit
<1>4. \A i \in Sessions : GoesOn(i, sess[i], sess'[i])
  BY <1>1, GoesOnItself
<1> QED BY <1>1, <1>2, <1>3, <1>4, AllSessions, ShortenedItself, SamePageItself DEF NoAckComes

LEMMA BaselinePeersKeeps ==
    ASSUME FeedInv, BaselinePeers
    PROVE  FeedInv'
<1>0. Types /\ PollsFit /\ CreditFits /\ MailFits
  BY DEF FeedInv
<1>1. /\ UNCHANGED <<db, commits, ext, mail, used, known, poll, gen, ready, view,
                     conn, rec, post, page, toPanel, toHost, budget>>
      /\ init' = "none" /\ timer' = TRUE
      /\ cursor' = Len(ext) \/ cursor' = cursor
      /\ sess' = [i \in Sessions |-> IF sess[i].phase = "polling"
                                     THEN [sess[i] EXCEPT !.phase = "opening", !.read = "asked"]
                                     ELSE sess[i]]
  BY DEF BaselinePeers, dbVars, bridgeVars, panelVars
<1>2. ASSUME NEW i \in Sessions
      PROVE  GoesOn(i, sess[i], sess'[i])
  <2>1. CASE sess[i].phase # "polling"
    BY <1>1, <2>1, GoesOnItself
  <2>2. CASE sess[i].phase = "polling"
    <3>1. PICK s : s = sess[i]
      OBVIOUS
    <3>2. PICK t : t = [s EXCEPT !.phase = "opening", !.read = "asked"]
      OBVIOUS
    <3>3. sess'[i] = t
      BY <1>1, <2>2, <3>1, <3>2
    <3>4. s \in SessionStates /\ SessionFits(s) /\ ContentFits(s, ShownTo(i), Before, Future)
          /\ s.phase = "polling"
      BY <2>2, <3>1, SessionIs
    <3>5. t \in SessionStates
      BY <3>2, <3>4 DEF SessionStates
    <3>6. /\ t.gen = s.gen /\ t.phase = "opening" /\ t.next = s.next
          /\ t.inflight = s.inflight /\ t.queue = s.queue /\ t.required = s.required
          /\ t.read = "asked" /\ t.handoff = s.handoff
      BY <3>2, <3>4 DEF SessionStates
    <3>7. s.read = "none" /\ s.next = 1 /\ s.queue = <<>> /\ s.inflight = 0 /\ s # Unused
      BY <3>4 DEF SessionFits, Unused
    <3>8. Stays(s, t) /\ SessionFits(t) /\ Rides(s, t)
      BY <3>4, <3>6, <3>7, EmptyQueueFits DEF Stays, Live, SessionFits, Rides
    <3>9. ContentFits(t, ShownTo(i), Before, Future)
      BY <3>4, <3>6, <3>7, ContentOfIdle
    <3> QED BY <3>1, <3>3, <3>4, <3>5, <3>6, <3>7, <3>8, <3>9 DEF GoesOn
  <2> QED BY <2>1, <2>2
<1>3. sess' \in [Sessions -> SessionStates]
  <2>1. sess' = [i \in Sessions |-> sess'[i]]
    BY <1>1
  <2> QED BY <1>2, <2>1, SessOfAll
<1>4. Types'
  BY <1>0, <1>1, <1>3 DEF Types
<1>5. PollsFit'
  <2>1. Len(ext) \in Nat
    BY <1>0, ElementsOf DEF Types
  <2>2. cursor' \in 0..Len(ext) \cup {None}
    <3>1. cursor \in 0..Len(ext) \cup {None} /\ Len(ext) \in 0..Len(ext)
      BY <1>0, <2>1 DEF PollsFit
    <3>2. cursor' = Len(ext) \/ cursor' = cursor
      BY <1>1
    <3> QED BY <3>1, <3>2
  <2>3. {known', cursor'} \subseteq 0..Len(ext') \cup {None}
    BY <1>0, <1>1, <2>2 DEF PollsFit
  <2> QED BY <1>0, <1>1, <2>3 DEF PollsFit
<1> QED BY <1>1, <1>2, <1>4, <1>5, AllSessions, ShortenedItself, SamePageItself DEF NoAckComes

LEMMA PollPeersKeeps ==
    ASSUME FeedInv, PollPeers
    PROVE  FeedInv'
<1>0. Types /\ PollsFit /\ CreditFits /\ MailFits
  BY DEF FeedInv
<1>1. /\ UNCHANGED <<db, commits, ext, mail, used, timer, known, init, gen, ready, view,
                     conn, rec, post, page, toPanel, toHost, budget>>
      /\ poll' = "idle" /\ (cursor' = Len(ext) \/ cursor' = cursor)
      /\ sess' = [i \in Sessions |-> sess'[i]]
      /\ \A i \in Sessions : sess'[i] = sess[i] \/ (Live(sess[i]) /\ sess'[i] = Require(sess[i]))
  BY DEF PollPeers, dbVars, bridgeVars, panelVars
<1>2. ASSUME NEW i \in Sessions
      PROVE  GoesOn(i, sess[i], sess'[i])
  BY <1>1, GoesOnItself, RequireGoesOn DEF Live
<1>3. sess' \in [Sessions -> SessionStates]
  BY <1>1, <1>2, SessOfAll
<1>4. Types'
  BY <1>0, <1>1, <1>3 DEF Types
<1>5. PollsFit'
  <2>1. Len(ext) \in Nat
    BY <1>0, ElementsOf DEF Types
  <2> QED BY <1>0, <1>1, <2>1 DEF PollsFit
<1> QED BY <1>1, <1>2, <1>4, <1>5, AllSessions, ShortenedItself, SamePageItself DEF NoAckComes

LEMMA TakeRequestKeeps ==
    ASSUME FeedInv, TakeRequest
    PROVE  FeedInv'
<1>0. Types /\ PollsFit /\ CreditFits /\ MailFits
  BY DEF FeedInv
<1>1. /\ UNCHANGED <<db, commits, ext, mail, used, timer, known, cursor, init, poll, gen, ready, view,
                     conn, rec, post, page, toPanel, budget>>
      /\ toHost # <<>> /\ toHost' = Tail(toHost)
      /\ sess' = [sess EXCEPT ![conn] = Require(@)] /\ Heard(Head(toHost))
  BY DEF TakeRequest, dbVars, pollVars, bridgeVars
<1>2. conn \in Sessions /\ sess[conn].phase = "open"
  BY <1>1 DEF Heard, FeedInv, GenerationsFit
<1>3. GoesOn(conn, sess[conn], Require(sess[conn]))
  BY <1>2, RequireGoesOn
<1>4. sess \in [Sessions -> SessionStates]
  BY <1>0 DEF Types
<1>5. \A i \in Sessions : GoesOn(i, sess[i], sess'[i])
  BY <1>1, <1>2, <1>3, <1>4, GoesOnItself
<1>6. sess' \in [Sessions -> SessionStates]
  BY <1>1, <1>4, <1>5, SessOfAll
<1>7. toHost' \in Seq(Controls) /\ Shortened(toHost, toHost')
  BY <1>0, <1>1, TailIs DEF Types, Shortened
<1>8. Types'
  BY <1>0, <1>1, <1>6, <1>7 DEF Types
<1>9. PollsFit'
  BY <1>0, <1>1 DEF PollsFit
<1> QED BY <1>1, <1>5, <1>7, <1>8, <1>9, AllSessions, ShortenedItself, SamePageItself
        DEF NoAckComes
---------------------------------------------------------------------------
(* The panel *)

\* A step of the panel, or of the network between it and the bridge.
LEMMA PanelStep ==
    ASSUME FeedInv, UNCHANGED <<dbVars, mail, feedVars, bridgeVars>>,
           budget' \in Nat, budget' <= budget, page' \in Pages, toPanel' \in Seq(WireFrames),
           toHost' \in Seq(Controls),
           Bit(page'.loading) + budget' <= Bit(page.loading) + budget
    PROVE  /\ Types' /\ PollsFit' /\ CreditFits' /\ MailFits' /\ GenerationsFit' /\ Onward
           /\ Before' = Before /\ Future' = Future /\ \A i \in Sessions : Current(i)' = Current(i)
           /\ UNCHANGED <<db, commits, mail, sess, used, gen, ready, view, conn, rec, post>>
<1>0. Types /\ PollsFit /\ CreditFits /\ MailFits /\ GenerationsFit
  BY DEF FeedInv
<1>1. UNCHANGED <<db, commits, ext, mail, sess, used, timer, known, cursor, init, poll, gen, ready,
                  view, conn, rec, post>>
  BY DEF dbVars, feedVars, pollVars, bridgeVars
<1>2. Types'
  BY <1>0, <1>1 DEF Types
<1>3. PollsFit'
  <2>1. budget \in Nat
    BY <1>0 DEF Types
  <2> QED BY <1>0, <1>1, <2>1, SessionsAre DEF PollsFit
<1>4. CreditFits'
  <2>1. Failing' \subseteq Failing
    BY <1>1 DEF Failing, FailingOf
  <2>2. Paid' <= Paid
    <3>1. used \in Nat /\ budget \in Nat
      BY <1>0 DEF Types
    <3>2. \A p : Bit(p) \in Nat
      BY DEF Bit
    <3> HIDE DEF Bit
    <3> QED BY <1>1, <3>1, <3>2 DEF Paid
  <2> QED BY <1>0, <1>2, <2>1, <2>2, CreditKept
<1>5. MailFits' /\ Before' = Before /\ Future' = Future
  BY <1>0, <1>1 DEF MailFits, Before, Future
<1>6. Onward
  BY <1>0, <1>1, OnwardItself
<1>7. \A i \in Sessions : Current(i)' = Current(i)
  BY <1>1 DEF Current
<1>8. GenerationsFit'
  BY <1>0, <1>1, <1>7 DEF GenerationsFit
<1> QED BY <1>1, <1>2, <1>3, <1>4, <1>5, <1>6, <1>7, <1>8

LEMMA LoseFrameKeeps ==
    ASSUME FeedInv, LoseFrame
    PROVE  FeedInv'
<1>0. Types
  BY DEF FeedInv
<1>1. /\ UNCHANGED <<dbVars, mail, feedVars, bridgeVars>> /\ page' = page /\ toHost' = toHost
      /\ toPanel # <<>> /\ toPanel' = Tail(toPanel) /\ budget > 0 /\ budget' = budget - 1
  BY DEF LoseFrame, Spend
<1>2. /\ budget \in Nat /\ page \in Pages /\ toHost \in Seq(Controls)
      /\ toPanel' \in Seq(WireFrames) /\ Shortened(toPanel, toPanel')
  BY <1>0, <1>1, TailIs DEF Types, Shortened
<1>3. /\ budget' \in Nat /\ budget' <= budget
      /\ Bit(page'.loading) + budget' <= Bit(page.loading) + budget
  BY <1>1, <1>2 DEF Bit
<1> QED BY <1>1, <1>2, <1>3, PanelStep, Untouched, ShortenedItself, SamePageItself DEF NoAckComes

LEMMA DropFrameKeeps ==
    ASSUME FeedInv, DropFrame
    PROVE  FeedInv'
<1>0. Types
  BY DEF FeedInv
<1>1. /\ UNCHANGED <<dbVars, mail, feedVars, bridgeVars>> /\ page' = page /\ toHost' = toHost
      /\ toPanel # <<>> /\ toPanel' = Tail(toPanel) /\ budget' = budget
  BY DEF DropFrame, NextFrame
<1>2. /\ budget \in Nat /\ page \in Pages /\ toHost \in Seq(Controls)
      /\ toPanel' \in Seq(WireFrames) /\ Shortened(toPanel, toPanel')
  BY <1>0, <1>1, TailIs DEF Types, Shortened
<1>3. /\ budget' \in Nat /\ budget' <= budget
      /\ Bit(page'.loading) + budget' <= Bit(page.loading) + budget
  BY <1>1, <1>2 DEF Bit
<1> QED BY <1>1, <1>2, <1>3, PanelStep, Untouched, ShortenedItself, SamePageItself DEF NoAckComes

LEMMA RefuseFrameKeeps ==
    ASSUME FeedInv, RefuseFrame
    PROVE  FeedInv'
<1>0. Types
  BY DEF FeedInv
<1>1. /\ UNCHANGED <<dbVars, mail, feedVars, bridgeVars>> /\ page' = page
      /\ toHost' = Append(toHost, Request)
      /\ toPanel # <<>> /\ toPanel' = Tail(toPanel) /\ budget' = budget
  BY DEF RefuseFrame, NextFrame
<1>2. /\ budget \in Nat /\ page \in Pages /\ toHost \in Seq(Controls)
      /\ toPanel' \in Seq(WireFrames) /\ Shortened(toPanel, toPanel')
  BY <1>0, <1>1, TailIs DEF Types, Shortened
<1>3. /\ budget' \in Nat /\ budget' <= budget
      /\ Bit(page'.loading) + budget' <= Bit(page.loading) + budget
  BY <1>1, <1>2 DEF Bit
<1>4. Request \in Controls /\ Request.kind # "ack"
  BY <1>2, PageFields DEF Request, Controls
<1>5. toHost' \in Seq(Controls) /\ NoAckComes
  BY <1>1, <1>2, <1>4, AppendIs DEF NoAckComes
<1> QED BY <1>1, <1>2, <1>3, <1>5, PanelStep, Untouched, SamePageItself

LEMMA TakeIgnoredKeeps ==
    ASSUME FeedInv, TakeIgnored
    PROVE  FeedInv'
<1>0. Types
  BY DEF FeedInv
<1>1. /\ UNCHANGED <<dbVars, mail, feedVars, bridgeVars>> /\ page' = page /\ toPanel' = toPanel
      /\ toHost # <<>> /\ toHost' = Tail(toHost) /\ budget' = budget
  BY DEF TakeIgnored
<1>2. /\ budget \in Nat /\ page \in Pages /\ toPanel \in Seq(WireFrames)
      /\ toHost' \in Seq(Controls) /\ Shortened(toHost, toHost')
  BY <1>0, <1>1, TailIs DEF Types, Shortened
<1>3. /\ budget' \in Nat /\ budget' <= budget
      /\ Bit(page'.loading) + budget' <= Bit(page.loading) + budget
  BY <1>1, <1>2 DEF Bit
<1> QED BY <1>1, <1>2, <1>3, PanelStep, Untouched, ShortenedItself, SamePageItself DEF NoAckComes

\* The panel shows something else, and nothing older.
LEMMA PageTurns ==
    ASSUME FeedInv, UNCHANGED <<dbVars, mail, feedVars, bridgeVars>>,
           budget' \in Nat, budget' <= budget, page' \in Pages, toPanel' \in Seq(WireFrames),
           toHost' \in Seq(Controls),
           Bit(page'.loading) + budget' <= Bit(page.loading) + budget,
           WireFits', NumbersFit', AcksFit',
           \A x \in Shown' : \A r \in DOMAIN x : \E y \in Shown : r \in DOMAIN y /\ x[r] <= y[r],
           \A i \in Sessions : Flies(page, toPanel, i, sess[i]) => Flies(page', toPanel', i, sess[i])
    PROVE  FeedInv'
<1>0. Types
  BY DEF FeedInv
<1>1. /\ Types' /\ PollsFit' /\ CreditFits' /\ MailFits' /\ GenerationsFit' /\ Onward
      /\ Before' = Before /\ Future' = Future /\ \A i \in Sessions : Current(i)' = Current(i)
      /\ UNCHANGED <<db, commits, mail, sess, used, gen, ready, view, conn, rec, post>>
  BY PanelStep
<1>2. Shown \subseteq RowMaps /\ Shown' \subseteq RowMaps /\ Future \subseteq RowMaps
  <2>1. page' \in Pages /\ toPanel' \in Seq(WireFrames) /\ (post' # None => post' \in Posts)
    BY <1>0, <1>1 DEF Types
  <2>2. ShownOf(page', toPanel', post') \subseteq RowMaps
    BY <2>1, ShownIs
  <2> QED BY <1>0, <2>2, Basics DEF Shown
<1>3. \A i \in Sessions : Moves(ShownTo(i), Before, Future, ShownTo(i)', Before, Future)
  <2>1. Moves(Shown, Before, Future, Shown', Before, Future)
    <3>1. \A w \in Future : \A r \in DOMAIN w : \E z \in Future : r \in DOMAIN z /\ z[r] <= w[r]
      <4>1. \A w \in Future : \A r \in DOMAIN w : w[r] <= w[r]
        BY <1>2, RowMapIs
      <4> QED BY <4>1
    <3> HIDE DEF Shown, Future, Before
    <3> QED BY <1>2, <3>1 DEF Moves
  <2>2. Moves({}, Before, Future, {}, Before, Future)
    BY <1>2, MovesItself
  <2>3. \A i \in Sessions : (ShownTo(i) = Shown /\ ShownTo(i)' = Shown')
                            \/ (ShownTo(i) = {} /\ ShownTo(i)' = {})
    BY <1>1 DEF ShownTo
  <2> HIDE DEF Shown, Future, Before
  <2> QED BY <2>1, <2>2, <2>3
<1>4. SessionsFit'
  <2>1. ASSUME NEW i \in Sessions
        PROVE  SessionFits(sess'[i]) /\ ContentFits(sess'[i], ShownTo(i)', Before', Future')
    <3>1. sess[i] \in SessionStates /\ SessionFits(sess[i])
          /\ ContentFits(sess[i], ShownTo(i), Before, Future)
      BY SessionIs
    <3>2. ContentFits(sess[i], ShownTo(i)', Before, Future)
      BY <1>3, <3>1, ContentKept
    <3> QED BY <1>1, <3>1, <3>2
  <2> QED BY <2>1 DEF SessionsFit, Sessions
<1>5. FlightFits'
  <2>1. \A i \in Sessions : Current(i)' => Flies(page', toPanel', i, sess'[i])
    BY <1>1 DEF FeedInv, FlightFits
  <2>2. post' # None => conn' # 0 /\ Current(conn)' /\ Resends(post', conn', sess'[conn'])
    <3>1. post # None => conn \in Sessions
      BY DEF FeedInv, FlightFits, GenerationsFit
    <3> QED BY <1>1, <3>1 DEF FeedInv, FlightFits
  <2> QED BY <2>1, <2>2 DEF FlightFits, Sessions
<1> QED BY <1>1, <1>4, <1>5 DEF FeedInv
LEMMA ReloadKeeps ==
    ASSUME FeedInv, Reload
    PROVE  FeedInv'
<1>0. Types /\ WireFits /\ AcksFit /\ CreditFits
  BY DEF FeedInv
<1>1. /\ UNCHANGED <<dbVars, mail, feedVars, bridgeVars>> /\ page' = EmptyPage
      /\ toHost' = toHost /\ toPanel' = <<>> /\ budget > 0 /\ budget' = budget - 1
      /\ ~page.loading
  BY DEF Reload, Spend
<1>2. /\ budget \in Nat /\ page \in Pages /\ toHost \in Seq(Controls)
      /\ toPanel' \in Seq(WireFrames)
      /\ \A k \in DOMAIN toPanel' : FALSE
  BY <1>0, <1>1 DEF Types
<1>3. PICK z : z = [r \in Rows |-> 0]
  OBVIOUS
<1>4. z \in [Rows -> Nat] /\ DOMAIN z = Rows /\ \A r \in Rows : z[r] = 0
  BY <1>3
<1>5. EmptyPage = [loading |-> TRUE, retired |-> {}, sess |-> 0, gen |-> 0, seq |-> 0,
                   commit |-> 0, rows |-> z]
  BY <1>3 DEF EmptyPage
<1>6. /\ page' \in Pages /\ page'.rows = z /\ page'.commit = 0 /\ page'.sess = 0 /\ page'.seq = 0
      /\ page'.retired = {} /\ page'.loading
  BY <1>1, <1>4, <1>5 DEF Pages
<1>7. /\ budget' \in Nat /\ budget' <= budget
      /\ Bit(page'.loading) + budget' <= Bit(page.loading) + budget
  BY <1>1, <1>2, <1>6 DEF Bit
<1>8. /\ Before' = Before /\ Future' = Future
      /\ UNCHANGED <<db, commits, mail, sess, used, gen, ready, view, conn, rec, post>>
  BY <1>1, <1>2, <1>6, <1>7, PanelStep
<1>9. ASSUME NEW x \in RowMaps
      PROVE  Over(z, x)
  BY <1>4, RowMapIs DEF Over
<1>10. Between(page', {}, Before, Future)
  <2>1. 0 \in Before
    <3>1. page.commit \in Before
      BY <1>0 DEF WireFits, Between
    <3>2. page.commit \in Nat /\ commits \in Nat /\ \A k \in DOMAIN mail : mail[k].commit \in Nat
      BY <1>0, <1>2, Basics, MsgFields, PageFields DEF Types
    <3> QED BY <3>1, <3>2 DEF Before, BeforeOf
  <2>2. \A w \in Future : Over(z, w)
    BY <1>0, <1>9, Basics
  <2> QED BY <1>6, <2>1, <2>2 DEF Between
<1>11. WireFits'
  <2>1. post # None => Between(post.frame, {page'.rows}, Before, Future)
    <3>1. post # None => post.frame.rows \in RowMaps
      BY <1>0, Basics, FrameFields
    <3>2. post # None => Over(z, post.frame.rows)
      BY <1>9, <3>1
    <3> QED BY <1>0, <1>6, <3>2 DEF WireFits, Between
  <2> QED BY <1>2, <1>8, <1>10, <2>1 DEF WireFits
<1>12. NumbersFit'
  BY <1>2, <1>6 DEF NumbersFit, FramesFit
<1>13. AcksFit'
  <2>1. \A k \in DOMAIN toHost : toHost[k].kind = "ack" =>
            Given(sess, used, toHost[k].sess, toHost[k].seq) /\ toHost[k].sess # 0
    BY <1>0, SessionsAre DEF AcksFit, Given
  <2> QED BY <1>1, <1>2, <1>6, <1>8, <2>1 DEF AcksFit, CaughtUp
<1>14. \A x \in Shown' : \A r \in DOMAIN x : \E y \in Shown : r \in DOMAIN y /\ x[r] <= y[r]
  <2>1. ASSUME NEW x \in Shown', NEW r \in DOMAIN x
        PROVE  \E y \in Shown : r \in DOMAIN y /\ x[r] <= y[r]
    <3>1. CASE x = page'.rows
      <4>1. page.rows \in Shown /\ r \in DOMAIN page.rows /\ x[r] <= page.rows[r]
        BY <1>2, <1>4, <1>6, <3>1, PageFields DEF Shown, ShownOf
      <4> QED BY <4>1
    <3>2. CASE x # page'.rows
      <4>1. x \in Shown
        BY <1>2, <1>8, <3>2 DEF Shown, ShownOf
      <4>2. x \in RowMaps
        BY <1>0, <4>1, Basics
      <4>3. x[r] <= x[r]
        BY <4>2, RowMapIs
      <4> QED BY <4>1, <4>3
    <3> QED BY <3>1, <3>2
  <2> QED BY <2>1
<1>15. \A i \in Sessions : Flies(page', toPanel', i, sess[i])
  BY <1>2, <1>6, SessionsAre DEF Flies, CaughtUp, LastPrecedes
<1> QED BY <1>1, <1>2, <1>6, <1>7, <1>11, <1>12, <1>13, <1>14, <1>15, PageTurns

\* The rows of a frame come over those that are shown.
LEMMA NewestIs ==
    ASSUME NEW f \in RowMaps, NEW o \in [Rows -> Nat], NEW n, n = Newest(f, o)
    PROVE  /\ n \in [Rows -> Nat]
           /\ \A r \in DOMAIN f : n[r] = f[r]
           /\ \A r \in Rows : n[r] = o[r] \/ (r \in DOMAIN f /\ n[r] = f[r])
<1>1. DOMAIN f \subseteq Rows /\ \A r \in DOMAIN f : f[r] \in Nat
  BY RowMapIs
<1>2. n = [r \in Rows |-> IF r \in DOMAIN f THEN f[r] ELSE o[r]]
  <2>1. DOMAIN f \cup DOMAIN o = Rows
    BY <1>1
  <2> QED BY <2>1 DEF Newest
<1> QED BY <1>1, <1>2

LEMMA AcceptFrameKeeps ==
    ASSUME FeedInv, AcceptFrame
    PROVE  FeedInv' /\ Over(page.rows, page'.rows)
<1>0. Types /\ WireFits /\ NumbersFit /\ AcksFit /\ CreditFits
  BY DEF FeedInv
<1>1. PICK f : f = Head(toPanel)
  OBVIOUS
<1>2. PICK retired : retired = IF page.sess \in {0, f.sess} THEN page.retired
                               ELSE page.retired \cup {page.sess}
  OBVIOUS
<1>3. PICK n : n = Newest(f.rows, page.rows)
  OBVIOUS
<1>4. PICK a : a = [kind |-> "ack", sess |-> f.sess, seq |-> f.seq]
  OBVIOUS
<1>5. /\ UNCHANGED <<dbVars, mail, feedVars, bridgeVars, budget>>
      /\ toPanel # <<>> /\ toPanel' = Tail(toPanel) /\ toHost' = Append(toHost, a)
      /\ f.sess \notin page.retired
      /\ page' = [page EXCEPT !.sess = f.sess, !.gen = f.gen, !.seq = f.seq, !.commit = f.commit,
                              !.rows = n, !.retired = retired]
  BY <1>1, <1>2, <1>3, <1>4 DEF AcceptFrame, NextFrame, Superseded
<1>6. /\ budget \in Nat /\ page \in Pages /\ toHost \in Seq(Controls)
      /\ toPanel \in Seq(WireFrames)
  BY <1>0 DEF Types
<1>7. /\ toPanel' \in Seq(WireFrames) /\ DOMAIN toPanel' = 1..Len(toPanel) - 1
      /\ DOMAIN toPanel = 1..Len(toPanel) /\ Len(toPanel) \in Nat /\ Len(toPanel) >= 1
      /\ \A k \in 1..Len(toPanel) - 1 : toPanel'[k] = toPanel[k + 1]
      /\ f = toPanel[1] /\ f \in WireFrames
  BY <1>1, <1>5, <1>6, TailIs
<1>8. /\ 1 \in DOMAIN toPanel
      /\ \A k \in DOMAIN toPanel' : /\ k + 1 \in DOMAIN toPanel /\ 1 < k + 1
                                    /\ toPanel'[k] = toPanel[k + 1]
      /\ \A j, k \in DOMAIN toPanel' : j < k => j + 1 < k + 1
  BY <1>7
<1>9. /\ f.commit \in Nat /\ f.rows \in RowMaps /\ f.seq \in Nat /\ f.sess \in Nat /\ f.gen \in Nat
      /\ page.rows \in [Rows -> Nat] /\ page.rows \in RowMaps /\ page.sess \in Nat
      /\ page.retired \in SUBSET Nat /\ page.loading \in BOOLEAN
  BY <1>6, <1>7, FrameFields, PageFields
<1>10. /\ n \in [Rows -> Nat]
       /\ \A r \in DOMAIN f.rows : n[r] = f.rows[r]
       /\ \A r \in Rows : n[r] = page.rows[r] \/ (r \in DOMAIN f.rows /\ n[r] = f.rows[r])
  BY <1>3, <1>9, NewestIs
<1>11. retired \in SUBSET Nat
  BY <1>2, <1>9
<1>12a. page' \in Pages
  BY <1>5, <1>6, <1>9, <1>10, <1>11 DEF Pages
<1>12. /\ page' \in Pages /\ page'.rows = n /\ page'.commit = f.commit /\ page'.sess = f.sess
       /\ page'.seq = f.seq /\ page'.retired = retired /\ page'.loading = page.loading
  BY <1>5, <1>6, <1>12a DEF Pages
<1>13. /\ budget' \in Nat /\ budget' <= budget
       /\ Bit(page'.loading) + budget' <= Bit(page.loading) + budget
  BY <1>5, <1>6, <1>12 DEF Bit
<1>14. a \in Controls /\ a.kind = "ack" /\ a.sess = f.sess /\ a.seq = f.seq
  BY <1>4, <1>9 DEF Controls
<1>15. /\ toHost' \in Seq(Controls) /\ DOMAIN toHost' = 1..Len(toHost) + 1
       /\ DOMAIN toHost = 1..Len(toHost) /\ Len(toHost) \in Nat
       /\ \A k \in 1..Len(toHost) : toHost'[k] = toHost[k]
       /\ toHost'[Len(toHost) + 1] = a
  BY <1>5, <1>6, <1>14, AppendIs
<1>16. /\ Before' = Before /\ Future' = Future
       /\ UNCHANGED <<db, commits, mail, sess, used, gen, ready, view, conn, rec, post>>
  <2>1. UNCHANGED <<dbVars, mail, feedVars, bridgeVars>>
    BY <1>5
  <2> QED BY <1>7, <1>12, <1>13, <1>15, <2>1, PanelStep
<1>17. Over(n, f.rows) /\ Over(page.rows, f.rows) /\ f.commit \in Before
  <2>1. Between(f, {page.rows}, Before, Future)
    BY <1>0, <1>7, <1>8 DEF WireFits
  <2>2. \A r \in DOMAIN f.rows : f.rows[r] \in Nat
    BY <1>9, RowMapIs
  <2> QED BY <1>10, <2>1, <2>2 DEF Between, Over
<1>18. Over(page.rows, n)
  <2>1. ASSUME NEW r \in Rows
        PROVE  page.rows[r] <= n[r]
    <3>1. page.rows[r] \in Nat
      BY <1>9
    <3>2. CASE n[r] = page.rows[r]
      BY <3>1, <3>2
    <3>3. CASE r \in DOMAIN f.rows /\ n[r] = f.rows[r]
      BY <1>9, <1>17, <3>3 DEF Over
    <3> QED BY <1>10, <3>2, <3>3
  <2> QED BY <1>9, <1>10, <2>1 DEF Over
<1>19. \A x : Over(page.rows, x) /\ Over(f.rows, x) /\ DOMAIN x \subseteq Rows => Over(n, x)
  BY <1>9, <1>10 DEF Over
<1>20. /\ \A w \in Future : DOMAIN w \subseteq Rows
       /\ \A k \in DOMAIN toPanel : toPanel[k] \in WireFrames /\ DOMAIN toPanel[k].rows \subseteq Rows
       /\ post # None => DOMAIN post.frame.rows \subseteq Rows
  BY <1>0, Basics, FrameFields, RowMapIs
<1>21. Between(page', {}, Before, Future)
  <2>1. \A w \in Future : Over(page.rows, w) /\ Over(f.rows, w)
    BY <1>0, <1>7, <1>8 DEF WireFits, Between
  <2>2. \A w \in Future : Over(n, w)
    BY <1>19, <1>20, <2>1
  <2> QED BY <1>12, <1>17, <2>2 DEF Between
<1>22. ASSUME NEW k \in DOMAIN toPanel'
       PROVE  Between(toPanel'[k], {n}, Before, Future)
  <2>1. /\ Between(toPanel'[k], {page.rows}, Before, Future) /\ Over(f.rows, toPanel'[k].rows)
        /\ DOMAIN toPanel'[k].rows \subseteq Rows
    BY <1>0, <1>7, <1>8, <1>20 DEF WireFits
  <2>2. Over(n, toPanel'[k].rows)
    BY <1>19, <2>1 DEF Between
  <2> QED BY <2>1, <2>2 DEF Between
<1>23. ASSUME post # None
       PROVE  Between(post.frame, {n}, Before, Future)
  <2>1. /\ Between(post.frame, {page.rows}, Before, Future) /\ Over(f.rows, post.frame.rows)
    BY <1>0, <1>7, <1>8, <1>23 DEF WireFits
  <2>2. Over(n, post.frame.rows)
    BY <1>19, <1>20, <1>23, <2>1 DEF Between
  <2> QED BY <2>1, <2>2 DEF Between
<1>24. WireFits'
  <2>1. \A j, k \in DOMAIN toPanel' : j < k => Over(toPanel'[j].rows, toPanel'[k].rows)
    BY <1>0, <1>8 DEF WireFits
  <2>2. post # None => \A k \in DOMAIN toPanel' : Over(toPanel'[k].rows, post.frame.rows)
    BY <1>0, <1>8 DEF WireFits
  <2> QED BY <1>12, <1>16, <1>21, <1>22, <1>23, <2>1, <2>2 DEF WireFits
<1>25. /\ \A k \in DOMAIN toPanel : Given(sess, used, toPanel[k].sess, toPanel[k].seq)
       /\ Given(sess, used, f.sess, f.seq)
  BY <1>0, <1>7, <1>8 DEF NumbersFit
<1>26. ASSUME NEW k \in DOMAIN toPanel'
       PROVE  /\ f.sess = toPanel'[k].sess => f.seq <= toPanel'[k].seq
              /\ toPanel'[k].kind = "changes" /\ ~toPanel'[k].copy =>
                    (f.sess = toPanel'[k].sess => /\ f.seq = toPanel'[k].seq - 1
                                                  /\ f.commit < toPanel'[k].commit)
  BY <1>0, <1>7, <1>8 DEF NumbersFit, FramesFit
<1>27. NumbersFit'
  <2>1. FramesFit(page, toPanel')
    <3>1. Shortened(toPanel, toPanel')
      BY <1>5 DEF Shortened
    <3> QED BY <1>0, <1>6, <3>1, FramesLeft DEF NumbersFit
  <2>2. FramesFit(page', toPanel')
    BY <1>12, <1>26, <2>1 DEF FramesFit
  <2>3. \A k \in DOMAIN toPanel' : Given(sess, used, toPanel'[k].sess, toPanel'[k].seq)
    BY <1>8, <1>25
  <2>4. retired \subseteq 1..used /\ f.sess \notin retired
    <3>1. page.sess # 0 => page.sess \in 1..used
      <4>1. page.sess # 0 => page.sess \in Sessions /\ page.sess <= used
        BY <1>0 DEF NumbersFit, Given
      <4>2. used \in Nat
        BY <1>0 DEF Types
      <4> QED BY <1>9, <4>1, <4>2
    <3> QED BY <1>0, <1>2, <1>5, <3>1 DEF NumbersFit
  <2> QED BY <1>12, <1>16, <1>25, <2>2, <2>3, <2>4 DEF NumbersFit
<1>28. ASSUME NEW i, NEW m, CaughtUp(page, toPanel, i, m)
       PROVE  CaughtUp(page', toPanel', i, m)
  BY <1>7, <1>8, <1>12, <1>28 DEF CaughtUp
<1>29. AcksFit'
  <2>1. CaughtUp(page', toPanel', f.sess, f.seq)
    BY <1>9, <1>12, <1>26 DEF CaughtUp
  <2>2. ASSUME NEW k \in DOMAIN toHost', toHost'[k].kind = "ack"
        PROVE  /\ Given(sess, used, toHost'[k].sess, toHost'[k].seq)
               /\ CaughtUp(page', toPanel', toHost'[k].sess, toHost'[k].seq)
    <3>1. CASE k \in DOMAIN toHost
      BY <1>0, <1>15, <1>28, <2>2, <3>1 DEF AcksFit
    <3>2. CASE k = Len(toHost) + 1
      BY <1>14, <1>15, <1>25, <2>1, <3>2
    <3> QED BY <1>15, <3>1, <3>2
  <2> QED BY <1>16, <2>2 DEF AcksFit
<1>30. \A x \in Shown' : \A r \in DOMAIN x : \E y \in Shown : r \in DOMAIN y /\ x[r] <= y[r]
  <2>1. ASSUME NEW x \in Shown', NEW r \in DOMAIN x
        PROVE  \E y \in Shown : r \in DOMAIN y /\ x[r] <= y[r]
    <3>1. CASE x = n
      <4>1. page.rows \in Shown /\ f.rows \in Shown
        BY <1>7, <1>8 DEF Shown, ShownOf
      <4>2. r \in Rows /\ n[r] <= n[r]
        BY <1>10, <3>1
      <4>3. DOMAIN page.rows = Rows
        BY <1>9
      <4> QED BY <1>10, <3>1, <4>1, <4>2, <4>3
    <3>2. CASE x # n
      <4>1. x \in Shown
        BY <1>8, <1>12, <1>16, <3>2 DEF Shown, ShownOf
      <4>2. x \in RowMaps
        BY <1>0, <4>1, Basics
      <4>3. x[r] <= x[r]
        BY <4>2, RowMapIs
      <4> QED BY <4>1, <4>3
    <3> QED BY <3>1, <3>2
  <2> QED BY <2>1
<1>31. ASSUME NEW i, NEW m, NEW x, LastPrecedes(page, toPanel, i, m, x)
       PROVE  LastPrecedes(page', toPanel', i, m, x)
  BY <1>7, <1>8, <1>12, <1>31 DEF LastPrecedes
<1>32. \A i \in Sessions : Flies(page, toPanel, i, sess[i]) => Flies(page', toPanel', i, sess[i])
  BY <1>28, <1>31 DEF Flies
<1>33. FeedInv'
  <2>1. UNCHANGED <<dbVars, mail, feedVars, bridgeVars>>
    BY <1>5
  <2> QED BY <1>7, <1>12, <1>13, <1>15, <1>24, <1>27, <1>29, <1>30, <1>32, <2>1, PageTurns
<1> QED BY <1>12, <1>18, <1>33
---------------------------------------------------------------------------
(* The bridge connects, pauses and lets go *)

IsNew(t, g) ==
    /\ t \in SessionStates /\ t.gen = g /\ t.next = 1 /\ t.inflight = 0 /\ t.queue = <<>>
    /\ t.handoff = <<>> /\ t.required = FALSE
    /\ \/ t.phase = "opening" /\ t.read = "asked"
       \/ t.phase = "polling" /\ t.read = "none"

\* Session t is s or what is left of s when it is closed.
Lets(s, t) == t = s \/ t = Closed(s)

LEMMA LetsGo ==
    ASSUME FeedInv, NEW j \in Sessions, NEW t, Lets(sess[j], t)
    PROVE  /\ t \in SessionStates /\ SessionFits(t) /\ ContentFits(t, ShownTo(j), Before, Future)
           /\ t.gen = sess[j].gen /\ t.next = sess[j].next /\ t.read = sess[j].read
           /\ t = sess[j] \/ t.phase = "closed"
<1>1. PICK s : s = sess[j]
  OBVIOUS
<1>2. s \in SessionStates /\ SessionFits(s) /\ ContentFits(s, ShownTo(j), Before, Future)
  BY <1>1, SessionIs
<1>3. CASE t = s
  BY <1>1, <1>2, <1>3
<1>4. CASE t = Closed(s)
  <2>1. /\ t \in SessionStates /\ t.gen = s.gen /\ t.phase = "closed" /\ t.next = s.next
        /\ t.inflight = 0 /\ t.queue = <<>> /\ t.required = s.required /\ t.read = s.read
        /\ t.handoff = s.handoff /\ t.answer = s.answer
    BY <1>2, <1>4, ClosedIs
  <2>2. SessionFits(t)
    BY <1>2, <2>1, EmptyQueueFits DEF SessionFits
  <2>3. ContentFits(t, ShownTo(j), Before, Future)
    BY <1>2, <2>1 DEF ContentFits, Ordered, Handed
  <2> QED BY <1>1, <2>1, <2>2, <2>3
<1> QED BY <1>1, <1>3, <1>4 DEF Lets

LEMMA WithoutConnectedIs ==
    ASSUME FeedInv, NEW ss, ss = WithoutConnected
    PROVE  /\ ss \in [Sessions -> SessionStates]
           /\ \A j \in Sessions : Lets(sess[j], ss[j]) /\ (j # conn => ss[j] = sess[j])
           /\ conn # 0 => ss[conn].phase = "closed"
<1>1. sess \in [Sessions -> SessionStates]
  BY DEF FeedInv, Types
<1>2. CASE conn = 0
  <2>1. ss = sess
    BY <1>2 DEF WithoutConnected
  <2> QED BY <1>1, <1>2, <2>1 DEF Lets
<1>3. CASE conn # 0
  <2>1. conn \in Sessions
    BY <1>3 DEF FeedInv, GenerationsFit
  <2>2. PICK t : t = Closed(sess[conn])
    OBVIOUS
  <2>3. ss = [sess EXCEPT ![conn] = t]
    BY <1>3, <2>2 DEF WithoutConnected
  <2>4. t \in SessionStates /\ t.phase = "closed"
    BY <1>1, <2>1, <2>2, ClosedIs
  <2> QED BY <1>1, <2>1, <2>2, <2>3, <2>4 DEF Lets
<1> QED BY <1>2, <1>3

\* Of the sessions some are closed, and there may be a new one.
LEMMA Turned ==
    ASSUME FeedInv, Types', PollsFit', GenerationsFit', PostStays, Paid' <= Paid,
           UNCHANGED <<db, commits, mail>>,
           used' = used \/ (used' = used + 1 /\ used + 1 \in Sessions),
           \A j \in Sessions : \/ Lets(sess[j], sess'[j]) /\ (Current(j)' => sess'[j] = sess[j]
                                                                             /\ Current(j))
                               \/ j = used + 1 /\ used' = used + 1 /\ IsNew(sess'[j], gen'),
           SamePage(page, page'), Shortened(toPanel, toPanel'), NoAckComes
    PROVE  FeedInv'
<1>0. Types /\ PollsFit /\ CreditFits /\ MailFits /\ FlightFits /\ used \in Nat
  BY DEF FeedInv, Types
<1>1. ASSUME NEW j \in Sessions, IsNew(sess'[j], gen'), j = used + 1
      PROVE  /\ sess[j] = Unused /\ sess[j].read = "none" /\ sess[j].next = 1
             /\ SessionFits(sess'[j]) /\ Blank(sess'[j]) /\ Fresh(sess'[j])
             /\ sess'[j].next = 1 /\ sess'[j].read # "failed"
  <2>1. sess[j] = Unused
    BY <1>0, <1>1 DEF FeedInv, GenerationsFit
  <2>2. SessionFits(sess'[j])
    BY <1>1, EmptyQueueFits DEF IsNew, SessionFits
  <2> QED BY <1>1, <2>1, <2>2 DEF IsNew, Blank, Fresh, Unused
<1>2. ASSUME NEW j \in Sessions
      PROVE  /\ Settles(j) /\ sess'[j].next = sess[j].next
             /\ sess'[j].read = "failed" => sess[j].read = "failed"
             /\ sess[j].read = "served" => sess'[j].read = "served"
  <2>1. CASE Lets(sess[j], sess'[j]) /\ (Current(j)' => sess'[j] = sess[j] /\ Current(j))
    <3>1. /\ SessionFits(sess'[j]) /\ ContentFits(sess'[j], ShownTo(j), Before, Future)
          /\ sess'[j].next = sess[j].next /\ sess'[j].read = sess[j].read
      BY <2>1, LetsGo
    <3>2. Current(j)' => Rides(sess[j], sess'[j])
      BY <2>1 DEF Rides
    <3> QED BY <2>1, <3>1, <3>2 DEF Settles
  <2>2. CASE j = used + 1 /\ used' = used + 1 /\ IsNew(sess'[j], gen')
    BY <1>1, <2>2 DEF Settles
  <2> QED BY <2>1, <2>2
<1>3. Numbering
  <2>1. \A j \in Sessions : sess[j].next \in Nat
    BY <1>0, Basics, SessionFields
  <2> QED BY <1>0, <1>2, <2>1 DEF Numbering
<1>4. MailFits' /\ Onward
  <2>1. \A k \in DOMAIN mail : mail[k].kind = "answer" =>
            mail[k].to \in Sessions /\ sess[mail[k].to].read = "served"
    BY <1>0, Basics, MsgFields DEF MailFits
  <2>2. \A k \in DOMAIN mail' : mail'[k].kind = "answer" => sess'[mail'[k].to].read = "served"
    BY <1>2, <2>1
  <2> QED BY <1>0, <2>2, MailKept, OnwardItself, ShortenedItself
<1>5. CreditFits'
  <2>1. \A j \in Sessions : sess'[j].read = "failed" => j \in Failing
    BY <1>2 DEF Failing, FailingOf
  <2>2. Failing' \subseteq Failing
    BY <1>0, <2>1, NoMoreFail, ShortenedItself
  <2> QED BY <1>0, <2>2, CreditKept
<1> QED BY <1>2, <1>3, <1>4, <1>5, Quiet

\* Connect adds the session that is current from then on.
LEMMA ConnectIs ==
    ASSUME FeedInv, NEW g \in Nat, NEW ss \in [Sessions -> SessionStates], Connect(g, ss),
           used + 1 \in Sessions, timer \in BOOLEAN
    PROVE  /\ sess' \in [Sessions -> SessionStates] /\ used' = used + 1
           /\ IsNew(sess'[used + 1], g)
           /\ \A j \in Sessions : j # used + 1 => sess'[j] = ss[j]
           /\ UNCHANGED <<timer, known, cursor, poll>>
           /\ init' = init \/ init' = "version"
<1>1. PICK phase : phase = IF timer THEN "opening" ELSE "polling"
  OBVIOUS
<1>2. PICK read : read = IF timer THEN "asked" ELSE "none"
  OBVIOUS
<1>3. PICK e \in Batches : e = Unused.answer
  <2>1. NoRows \in RowMaps
    <3>1. NoRows = [x \in {} |-> 0]
      BY DEF NoRows
    <3>2. DOMAIN NoRows = {}
      BY <3>1
    <3>3. NoRows = [x \in DOMAIN NoRows |-> NoRows[x]]
      BY <3>1
    <3> QED BY <3>2, <3>3, RowMapIs
  <2>2. Unused.answer = [commit |-> 0, rows |-> NoRows]
    BY DEF Unused
  <2>3. [commit |-> 0, rows |-> NoRows] \in Batches
    BY <2>1, BatchIs
  <2> QED BY <2>2, <2>3
<1>4. Unused = [gen |-> 0, phase |-> "unused", next |-> 1, inflight |-> 0, queue |-> <<>>,
                required |-> FALSE, again |-> FALSE, read |-> "none", answer |-> e,
                handoff |-> <<>>]
  BY <1>3 DEF Unused
<1>5. PICK t : t = [Unused EXCEPT !.gen = g, !.phase = phase, !.read = read]
  OBVIOUS
<1>6. t = [gen |-> g, phase |-> phase, next |-> 1, inflight |-> 0, queue |-> <<>>,
           required |-> FALSE, again |-> FALSE, read |-> read, answer |-> e, handoff |-> <<>>]
  BY <1>4, <1>5
<1>7. (phase = "opening" /\ read = "asked") \/ (phase = "polling" /\ read = "none")
  BY <1>1, <1>2
<1>8. <<>> \in Seq(Batches) /\ <<>> \in Seq(CommitMsgs) /\ FALSE \in BOOLEAN /\ 1 \in Nat \ {0}
  OBVIOUS
<1>9. t \in SessionStates
  BY <1>3, <1>6, <1>7, <1>8 DEF SessionStates
<1>10. IsNew(t, g)
  BY <1>6, <1>7, <1>9 DEF IsNew
<1>11. sess' = [ss EXCEPT ![used + 1] = t] /\ used' = used + 1
  BY <1>1, <1>2, <1>5 DEF Connect
<1>12. UNCHANGED <<timer, known, cursor, poll>> /\ (init' = init \/ init' = "version")
  BY DEF Connect
<1> QED BY <1>9, <1>10, <1>11, <1>12

LEMMA ReconnectKeeps ==
    ASSUME FeedInv, Reconnect, used + 1 \in Sessions,
           UNCHANGED <<db, commits, ext, mail>>, Paid' <= Paid,
           ready' \in BOOLEAN, view' \in {"shown", "hidden", "gone"},
           page' \in Pages, toPanel' = toPanel, toHost' = toHost,
           budget' \in Nat, budget' <= budget, SamePage(page, page')
    PROVE  FeedInv'
<1>0. Types /\ PollsFit /\ GenerationsFit
  BY DEF FeedInv
<1>1. /\ gen \in Nat \ {0} /\ used \in Nat /\ timer \in BOOLEAN /\ conn \in Nat /\ budget \in Nat
      /\ gen + 1 \in Nat \ {0}
  BY <1>0 DEF Types
<1>2. PICK ss : ss = WithoutConnected
  OBVIOUS
<1>3. /\ ss \in [Sessions -> SessionStates]
      /\ \A j \in Sessions : Lets(sess[j], ss[j]) /\ (j # conn => ss[j] = sess[j])
  BY <1>2, WithoutConnectedIs
<1>4. /\ gen' = gen + 1 /\ conn' = 0 /\ rec' = "none" /\ post' = None /\ Connect(gen + 1, ss)
  BY <1>2 DEF Reconnect
<1>5. /\ sess' \in [Sessions -> SessionStates] /\ used' = used + 1
      /\ IsNew(sess'[used + 1], gen + 1)
      /\ \A j \in Sessions : j # used + 1 => sess'[j] = ss[j]
      /\ UNCHANGED <<timer, known, cursor, poll>>
      /\ init' = init \/ init' = "version"
  BY <1>1, <1>3, <1>4, ConnectIs
<1>6. Types'
  BY <1>0, <1>1, <1>4, <1>5 DEF Types
<1>7. PollsFit'
  BY <1>0, <1>1, <1>5, SessionsAre DEF PollsFit
<1>8. ASSUME NEW j \in Sessions, j # used + 1
      PROVE  /\ Lets(sess[j], sess'[j]) /\ sess'[j].gen = sess[j].gen
             /\ sess'[j] = sess[j] \/ sess'[j].phase = "closed"
             /\ sess'[j].gen # gen' /\ sess'[j].gen <= gen' /\ ~Current(j)'
  <2>1. Lets(sess[j], sess'[j])
    BY <1>3, <1>5, <1>8
  <2>2. sess'[j].gen = sess[j].gen /\ (sess'[j] = sess[j] \/ sess'[j].phase = "closed")
    BY <2>1, LetsGo
  <2>3. sess[j].gen <= gen /\ sess[j].gen \in Nat
    <3>1. j \in Nat /\ sess[j] \in SessionStates
      BY SessionsAre, SessionIs
    <3>2. CASE j <= used
      BY <1>0, <3>1, <3>2, SessionFields DEF GenerationsFit
    <3>3. CASE j > used
      <4>1. sess[j].gen = 0
        BY <1>0, <3>3 DEF GenerationsFit, Unused
      <4> QED BY <1>1, <4>1
    <3> QED BY <1>1, <3>1, <3>2, <3>3
  <2> QED BY <1>1, <1>4, <2>1, <2>2, <2>3 DEF Current
<1>9. GenerationsFit'
  <2>1. ASSUME NEW i \in Sessions
        PROVE  /\ i > used' => sess'[i] = Unused
               /\ i <= used' => sess'[i].phase # "unused" /\ sess'[i].gen <= gen'
               /\ sess'[i].gen = gen' /\ sess'[i].phase = "closed" /\ view' # "gone"
                     => sess'[i].read = "none"
               /\ Current(i)' /\ sess'[i].phase = "open" => i = conn' /\ view' # "gone"
               /\ Current(i)' => i = used + 1
    <3>1. CASE i = used + 1
      BY <1>1, <1>4, <1>5, <3>1 DEF IsNew
    <3>2. CASE i # used + 1
      <4>1. i \in Nat
        BY SessionsAre
      <4>2. i > used' => i > used /\ i # conn
        <5>1. conn # 0 => conn <= used
          BY <1>0 DEF GenerationsFit
        <5> QED BY <1>1, <1>5, <4>1, <5>1, SessionsAre
      <4>3. i > used' => sess'[i] = Unused
        BY <1>0, <1>3, <1>5, <3>2, <4>2 DEF GenerationsFit
      <4>4. i <= used' => sess'[i].phase # "unused"
        <5>1. i <= used' => i <= used
          BY <1>1, <1>5, <3>2, <4>1
        <5> QED BY <1>0, <1>8, <3>2, <5>1 DEF GenerationsFit
      <4> QED BY <1>8, <3>2, <4>3, <4>4
    <3> QED BY <3>1, <3>2
  <2>2. \A i, j \in Sessions : Current(i)' /\ Current(j)' => i = j
    BY <2>1
  <2> QED BY <1>4, <2>1, <2>2 DEF GenerationsFit, Sessions
<1>10. PostStays
  BY <1>4 DEF PostStays
<1>11. ASSUME NEW j \in Sessions
       PROVE  \/ Lets(sess[j], sess'[j]) /\ (Current(j)' => sess'[j] = sess[j] /\ Current(j))
              \/ j = used + 1 /\ used' = used + 1 /\ IsNew(sess'[j], gen')
  BY <1>4, <1>5, <1>8
<1> QED BY <1>5, <1>6, <1>7, <1>9, <1>10, <1>11, Turned, ShortenedItself DEF NoAckComes
LEMMA PanelReadyKeeps ==
    ASSUME FeedInv, PanelReady
    PROVE  FeedInv'
<1>0. Types /\ PollsFit /\ GenerationsFit /\ CreditFits /\ MailFits
  BY DEF FeedInv
<1>1. /\ UNCHANGED <<db, commits, ext, mail, view, toPanel, toHost, budget>> /\ ready' = TRUE
      /\ page.loading /\ page' = [page EXCEPT !.loading = FALSE]
  BY DEF PanelReady, dbVars
<1>2. page \in Pages /\ budget \in Nat /\ view \in {"shown", "hidden", "gone"} /\ used \in Nat
      /\ toPanel \in Seq(WireFrames) /\ toHost \in Seq(Controls)
  BY <1>0 DEF Types
<1>3a. page' \in Pages
  BY <1>1, <1>2 DEF Pages
<1>3. page' \in Pages /\ SamePage(page, page') /\ ~page'.loading
  BY <1>1, <1>2, <1>3a DEF Pages, SamePage
<1>4. CASE view = "shown"
  <2>1. Reconnect
    BY <1>4 DEF PanelReady
  <2>2. used + 1 \in Sessions
    BY <1>0, <1>1, CreditLeft
  <2>3. used' = used + 1 /\ rec' = "none"
    BY <2>1 DEF Reconnect, Connect
  <2>4. Paid' <= Paid
    BY <1>1, <1>2, <1>3, <2>3 DEF Paid, Bit
  <2>5. ready' \in BOOLEAN /\ view' \in {"shown", "hidden", "gone"} /\ budget' \in Nat
        /\ budget' <= budget
    BY <1>1, <1>2
  <2> QED BY <1>1, <1>2, <1>3, <2>1, <2>2, <2>4, <2>5, ReconnectKeeps
<1>5. CASE view # "shown"
  <2>1. UNCHANGED <<sess, used, timer, known, cursor, init, poll, gen, conn, rec, post>>
    BY <1>5 DEF PanelReady, feedVars, pollVars
  <2>2. Types'
    BY <1>0, <1>1, <1>3, <2>1 DEF Types
  <2>3. PollsFit'
    BY <1>0, <1>1, <2>1 DEF PollsFit
  <2>4. CreditFits'
    <3>1. Failing' \subseteq Failing
      BY <1>1, <2>1 DEF Failing, FailingOf
    <3>2. Paid' <= Paid
      BY <1>1, <1>2, <1>3, <2>1 DEF Paid, Bit
    <3> QED BY <1>0, <2>2, <3>1, <3>2, CreditKept
  <2>5. MailFits' /\ Onward
    BY <1>0, <1>1, <2>1, OnwardItself DEF MailFits
  <2> QED BY <1>1, <1>3, <2>1, <2>2, <2>3, <2>4, <2>5, Untouched, ShortenedItself DEF NoAckComes
<1> QED BY <1>4, <1>5

LEMMA ResyncKeeps ==
    ASSUME FeedInv, Resync
    PROVE  FeedInv'
<1>0. Types /\ CreditFits
  BY DEF FeedInv
<1>1. /\ UNCHANGED <<db, commits, ext, mail, view, page, toPanel, toHost>> /\ ready' = TRUE
      /\ budget > 0 /\ budget' = budget - 1 /\ Reconnect
  BY DEF Resync, Spend, dbVars, panelVars
<1>2. page \in Pages /\ budget \in Nat /\ view \in {"shown", "hidden", "gone"} /\ used \in Nat
  BY <1>0 DEF Types
<1>3. used + 1 \in Sessions
  BY <1>0, <1>1, CreditLeft
<1>4. used' = used + 1 /\ rec' = "none"
  BY <1>1 DEF Reconnect, Connect
<1>5. Paid' <= Paid
  BY <1>1, <1>2, <1>4 DEF Paid, Bit
<1>6. ready' \in BOOLEAN /\ view' \in {"shown", "hidden", "gone"} /\ budget' \in Nat
      /\ budget' <= budget /\ page' \in Pages
  BY <1>1, <1>2
<1> QED BY <1>1, <1>3, <1>5, <1>6, ReconnectKeeps, SamePageItself

LEMMA RecoveryTimerKeeps ==
    ASSUME FeedInv, RecoveryTimer
    PROVE  FeedInv'
<1>0. Types /\ CreditFits
  BY DEF FeedInv
<1>1. /\ UNCHANGED <<db, commits, ext, mail, ready, view, page, toPanel, toHost, budget>>
      /\ rec = "timer" /\ Reconnect
  BY DEF RecoveryTimer, dbVars, panelVars
<1>2. page \in Pages /\ budget \in Nat /\ view \in {"shown", "hidden", "gone"} /\ used \in Nat
      /\ ready \in BOOLEAN
  BY <1>0 DEF Types
<1>3. used + 1 \in Sessions
  BY <1>0, <1>1, CreditLeft
<1>4. used' = used + 1 /\ rec' = "none"
  BY <1>1 DEF Reconnect, Connect
<1>5. Paid' <= Paid
  BY <1>1, <1>2, <1>4 DEF Paid, Bit
<1>6. ready' \in BOOLEAN /\ view' \in {"shown", "hidden", "gone"} /\ budget' \in Nat
      /\ budget' <= budget /\ page' \in Pages
  BY <1>1, <1>2
<1> QED BY <1>1, <1>3, <1>5, <1>6, ReconnectKeeps, SamePageItself

\* A connection that failed is tried again for the same client.
LEMMA RetryConnectKeeps ==
    ASSUME FeedInv, RetryConnect
    PROVE  FeedInv'
<1>0. Types /\ PollsFit /\ GenerationsFit /\ CreditFits /\ FlightFits
  BY DEF FeedInv
<1>1. /\ UNCHANGED <<db, commits, ext, mail, gen, ready, view, conn, post, page, toPanel, toHost,
                     budget>>
      /\ rec = "wait" /\ rec' = "none" /\ Connect(gen, sess)
  BY DEF RetryConnect, dbVars, panelVars
<1>2. /\ page \in Pages /\ budget \in Nat /\ used \in Nat /\ timer \in BOOLEAN
      /\ gen \in Nat /\ sess \in [Sessions -> SessionStates]
  BY <1>0 DEF Types
<1>3. used + 1 \in Sessions
  BY <1>0, <1>1, CreditLeft
<1>4. /\ sess' \in [Sessions -> SessionStates] /\ used' = used + 1
      /\ IsNew(sess'[used + 1], gen)
      /\ \A j \in Sessions : j # used + 1 => sess'[j] = sess[j]
      /\ UNCHANGED <<timer, known, cursor, poll>>
      /\ init' = init \/ init' = "version"
  BY <1>1, <1>2, <1>3, ConnectIs
<1>5. \A j \in Sessions : ~Current(j)
  BY <1>0, <1>1 DEF GenerationsFit
<1>6. post = None
  <2>1. conn # 0 => conn \in Sessions
    BY <1>0 DEF GenerationsFit
  <2> QED BY <1>0, <1>5, <2>1 DEF FlightFits
<1>7. Types'
  BY <1>0, <1>1, <1>2, <1>4 DEF Types
<1>8. PollsFit'
  BY <1>0, <1>1, <1>4 DEF PollsFit
<1>9. Paid' <= Paid
  BY <1>1, <1>2, <1>4 DEF Paid, Bit
<1>10. \A j \in Sessions : j # used + 1 => ~Current(j)'
  BY <1>1, <1>4, <1>5 DEF Current
<1>11. GenerationsFit'
  <2>1. ASSUME NEW i \in Sessions
        PROVE  /\ i > used' => sess'[i] = Unused
               /\ i <= used' => sess'[i].phase # "unused" /\ sess'[i].gen <= gen'
               /\ sess'[i].gen = gen' /\ sess'[i].phase = "closed" /\ view' # "gone"
                     => sess'[i].read = "none"
               /\ Current(i)' /\ sess'[i].phase = "open" => i = conn' /\ view' # "gone"
               /\ Current(i)' => i = used + 1
    <3>1. CASE i = used + 1
      BY <1>1, <1>2, <1>4, <3>1 DEF IsNew
    <3>2. CASE i # used + 1
      <4>1. i \in Nat
        BY SessionsAre
      <4>2. (i > used' => i > used) /\ (i <= used' => i <= used)
        BY <1>2, <1>4, <3>2, <4>1
      <4> QED BY <1>0, <1>1, <1>4, <1>10, <3>2, <4>2 DEF GenerationsFit
    <3> QED BY <3>1, <3>2
  <2>2. \A i, j \in Sessions : Current(i)' /\ Current(j)' => i = j
    BY <2>1
  <2>3. conn' # 0 => conn' \in Sessions /\ conn' <= used' /\ sess'[conn'].gen = gen'
    <3>1. conn # 0 => conn \in Sessions /\ conn <= used /\ sess[conn].gen = gen /\ conn \in Nat
      BY <1>0, SessionsAre DEF GenerationsFit
    <3> QED BY <1>1, <1>2, <1>4, <3>1
  <2> QED BY <1>1, <2>1, <2>2, <2>3 DEF GenerationsFit, Sessions
<1>12. PostStays
  BY <1>1, <1>6 DEF PostStays
<1>13. ASSUME NEW j \in Sessions
       PROVE  \/ Lets(sess[j], sess'[j]) /\ (Current(j)' => sess'[j] = sess[j] /\ Current(j))
              \/ j = used + 1 /\ used' = used + 1 /\ IsNew(sess'[j], gen')
  BY <1>1, <1>4, <1>10 DEF Lets
<1> QED BY <1>1, <1>3, <1>4, <1>7, <1>8, <1>9, <1>11, <1>12, <1>13, Turned, ShortenedItself,
           SamePageItself DEF NoAckComes

LEMMA PauseKeeps ==
    ASSUME FeedInv, Pause,
           UNCHANGED <<db, commits, ext, mail, page, toPanel, toHost>>, Paid' <= Paid,
           ready' \in BOOLEAN, view' \in {"shown", "hidden", "gone"},
           budget' \in Nat, budget' <= budget
    PROVE  FeedInv'
<1>0. Types /\ PollsFit /\ GenerationsFit
  BY DEF FeedInv
<1>1. /\ gen \in Nat \ {0} /\ used \in Nat /\ timer \in BOOLEAN /\ budget \in Nat
      /\ gen + 1 \in Nat \ {0}
  BY <1>0 DEF Types
<1>2. /\ gen' = gen + 1 /\ conn' = 0 /\ rec' = "none" /\ post' = None /\ sess' = WithoutConnected
      /\ StopIfIdle(sess') /\ UNCHANGED <<used, init, poll>>
  BY DEF Pause
<1>3. /\ sess' \in [Sessions -> SessionStates]
      /\ \A j \in Sessions : Lets(sess[j], sess'[j]) /\ (j # conn => sess'[j] = sess[j])
  BY <1>2, WithoutConnectedIs
<1>4. PollsFit' /\ timer' \in BOOLEAN
  BY <1>0, <1>1, <1>2, PollsSpent
<1>5. Types'
  BY <1>0, <1>1, <1>2, <1>3, <1>4 DEF Types
<1>6. ASSUME NEW j \in Sessions
      PROVE  /\ sess'[j] = sess[j] \/ sess'[j].phase = "closed"
             /\ sess'[j].gen # gen' /\ sess'[j].gen <= gen' /\ ~Current(j)'
  <2>1. sess'[j].gen = sess[j].gen /\ (sess'[j] = sess[j] \/ sess'[j].phase = "closed")
    BY <1>3, LetsGo
  <2>2. sess[j].gen <= gen /\ sess[j].gen \in Nat
    <3>1. j \in Nat /\ sess[j] \in SessionStates
      BY SessionsAre, SessionIs
    <3>2. CASE j <= used
      BY <1>0, <3>1, <3>2, SessionFields DEF GenerationsFit
    <3>3. CASE j > used
      <4>1. sess[j].gen = 0
        BY <1>0, <3>3 DEF GenerationsFit, Unused
      <4> QED BY <1>1, <4>1
    <3> QED BY <1>1, <3>1, <3>2, <3>3
  <2> QED BY <1>1, <1>2, <2>1, <2>2 DEF Current
<1>7. GenerationsFit'
  <2>1. ASSUME NEW i \in Sessions, i > used'
        PROVE  sess'[i] = Unused
    <3>1. i > used /\ i # conn
      <4>1. conn # 0 => conn <= used
        BY <1>0 DEF GenerationsFit
      <4>2. i \in Nat \ {0}
        BY SessionsAre
      <4>3. CASE conn = 0
        BY <1>2, <2>1, <4>2, <4>3
      <4>4. CASE conn # 0
        BY <1>1, <1>2, <2>1, <4>1, <4>2, <4>4
      <4> QED BY <4>3, <4>4
    <3> QED BY <1>0, <1>3, <3>1 DEF GenerationsFit
  <2>2. \A i \in Sessions : i <= used' => sess'[i].phase # "unused"
    BY <1>0, <1>2, <1>6 DEF GenerationsFit
  <2> QED BY <1>2, <1>6, <2>1, <2>2 DEF GenerationsFit, Sessions
<1>8. PostStays
  BY <1>2 DEF PostStays
<1> QED BY <1>2, <1>3, <1>4, <1>5, <1>6, <1>7, <1>8, Turned, ShortenedItself, SamePageItself
        DEF NoAckComes

LEMMA HideKeeps ==
    ASSUME FeedInv, Hide
    PROVE  FeedInv'
<1>0. Types
  BY DEF FeedInv
<1>1. /\ UNCHANGED <<db, commits, ext, mail, ready, page, toPanel, toHost>>
      /\ budget > 0 /\ budget' = budget - 1 /\ view' = "hidden" /\ Pause /\ view = "shown"
  BY DEF Hide, Spend, dbVars, panelVars
<1>2. used' = used /\ rec' = "none" /\ used \in Nat /\ budget \in Nat /\ ready \in BOOLEAN
  BY <1>0, <1>1 DEF Pause, Types
<1>3. Paid' <= Paid
  BY <1>1, <1>2 DEF Paid, Bit
<1>4. ready' \in BOOLEAN /\ view' \in {"shown", "hidden", "gone"} /\ budget' \in Nat
      /\ budget' <= budget
  BY <1>1, <1>2
<1> QED BY <1>1, <1>3, <1>4, PauseKeeps

LEMMA RevealKeeps ==
    ASSUME FeedInv, Reveal
    PROVE  FeedInv'
<1>0. Types /\ PollsFit /\ GenerationsFit /\ CreditFits /\ MailFits
  BY DEF FeedInv
<1>1. /\ UNCHANGED <<db, commits, ext, mail, ready, page, toPanel, toHost, budget>>
      /\ view = "hidden" /\ view' = "shown"
  BY DEF Reveal, dbVars, panelVars
<1>2. page \in Pages /\ budget \in Nat /\ used \in Nat /\ ready \in BOOLEAN
  BY <1>0 DEF Types
<1>3. CASE ready
  <2>1. Reconnect
    BY <1>3 DEF Reveal
  <2>2. used + 1 \in Sessions
    BY <1>0, <1>1, CreditLeft
  <2>3. used' = used + 1 /\ rec' = "none"
    BY <2>1 DEF Reconnect, Connect
  <2>4. Paid' <= Paid
    BY <1>1, <1>2, <2>3 DEF Paid, Bit
  <2>5. ready' \in BOOLEAN /\ view' \in {"shown", "hidden", "gone"} /\ budget' \in Nat
        /\ budget' <= budget /\ page' \in Pages
    BY <1>1, <1>2
  <2> QED BY <1>1, <2>1, <2>2, <2>4, <2>5, ReconnectKeeps, SamePageItself
<1>4. CASE ~ready
  <2>1. UNCHANGED <<sess, used, timer, known, cursor, init, poll, gen, conn, rec, post>>
    BY <1>4 DEF Reveal, feedVars, pollVars
  <2>2. Types'
    BY <1>0, <1>1, <2>1 DEF Types
  <2>3. PollsFit'
    BY <1>0, <1>1, <2>1 DEF PollsFit
  <2>4. Paid' <= Paid
    BY <1>1, <1>2, <2>1 DEF Paid, Bit
  <2>5. \A i \in Sessions : Current(i)' = Current(i)
    BY <2>1 DEF Current
  <2>6. GenerationsFit'
    BY <1>0, <1>1, <2>1, <2>5 DEF GenerationsFit
  <2>7. PostStays
    <3>1. post # None => sess'[conn] = sess[conn]
      BY <2>1
    <3> QED BY <2>1, <3>1, PostSame
  <2>8. \A j \in Sessions : Lets(sess[j], sess'[j])
                            /\ (Current(j)' => sess'[j] = sess[j] /\ Current(j))
    BY <2>1, <2>5 DEF Lets
  <2> QED BY <1>1, <2>1, <2>2, <2>3, <2>4, <2>6, <2>7, <2>8, Turned, ShortenedItself,
             SamePageItself DEF NoAckComes
<1> QED BY <1>2, <1>3, <1>4

LEMMA DetachKeeps ==
    ASSUME FeedInv, Detach
    PROVE  FeedInv'
<1>0. Types /\ PollsFit /\ GenerationsFit
  BY DEF FeedInv
<1>1. /\ UNCHANGED <<db, commits, ext, mail, used, init, poll, gen, ready, conn, page, toPanel,
                     toHost>>
      /\ budget > 0 /\ budget' = budget - 1 /\ view' = "gone" /\ rec' = "none" /\ post' = None
      /\ sess' = WithoutConnected /\ StopIfIdle(sess')
  BY DEF Detach, Spend, dbVars, panelVars
<1>2. /\ used \in Nat /\ timer \in BOOLEAN /\ budget \in Nat
  BY <1>0 DEF Types
<1>3. /\ sess' \in [Sessions -> SessionStates]
      /\ \A j \in Sessions : Lets(sess[j], sess'[j]) /\ (j # conn => sess'[j] = sess[j])
      /\ conn # 0 => sess'[conn].phase = "closed"
  BY <1>1, WithoutConnectedIs
<1>4. PollsFit' /\ timer' \in BOOLEAN
  BY <1>0, <1>1, <1>2, PollsSpent
<1>5. Types'
  BY <1>0, <1>1, <1>2, <1>3, <1>4 DEF Types
<1>6. ASSUME NEW j \in Sessions
      PROVE  /\ sess'[j].gen = sess[j].gen
             /\ sess'[j] = sess[j] \/ sess'[j].phase = "closed"
             /\ Current(j)' => sess'[j] = sess[j] /\ Current(j) /\ sess'[j].phase # "open"
  <2>1. sess'[j].gen = sess[j].gen /\ (sess'[j] = sess[j] \/ sess'[j].phase = "closed")
    BY <1>3, LetsGo
  <2>2. Current(j)' => sess'[j] = sess[j] /\ Current(j)
    BY <1>1, <2>1 DEF Current, Live
  <2>3. Current(j)' => sess'[j].phase # "open"
    <3>1. Current(j) /\ sess[j].phase = "open" => j = conn
      BY <1>0 DEF GenerationsFit
    <3>2. j # 0
      BY SessionsAre
    <3> QED BY <1>3, <2>2, <3>1, <3>2
  <2> QED BY <2>1, <2>2, <2>3
<1>7. GenerationsFit'
  <2>1. ASSUME NEW i \in Sessions, i > used'
        PROVE  sess'[i] = Unused
    <3>1. i > used /\ i # conn
      <4>1. conn # 0 => conn <= used
        BY <1>0 DEF GenerationsFit
      <4>2. i \in Nat \ {0}
        BY SessionsAre
      <4>3. CASE conn = 0
        BY <1>1, <2>1, <4>2, <4>3
      <4>4. CASE conn # 0
        <5>1. conn \in Nat /\ conn <= used /\ i > used
          BY <1>0, <1>1, <2>1, <4>1, <4>4 DEF Types
        <5> QED BY <1>2, <4>2, <5>1
      <4> QED BY <4>3, <4>4
    <3> QED BY <1>0, <1>3, <3>1 DEF GenerationsFit
  <2>2. \A i \in Sessions : i <= used' => sess'[i].phase # "unused" /\ sess'[i].gen <= gen'
    BY <1>0, <1>1, <1>6 DEF GenerationsFit
  <2>3. conn' # 0 => conn' \in Sessions /\ conn' <= used' /\ sess'[conn'].gen = gen'
    BY <1>0, <1>1, <1>6 DEF GenerationsFit
  <2>4. \A i, j \in Sessions : Current(i)' /\ Current(j)' => i = j
    BY <1>0, <1>6 DEF GenerationsFit
  <2>5. \A i \in Sessions : ~(Current(i)' /\ sess'[i].phase = "open")
    BY <1>6
  <2> QED BY <1>1, <2>1, <2>2, <2>3, <2>4, <2>5 DEF GenerationsFit, Sessions
<1>8. PostStays
  BY <1>1 DEF PostStays
<1>9. Paid' <= Paid
  BY <1>1, <1>2 DEF Paid, Bit
<1> QED BY <1>1, <1>3, <1>4, <1>5, <1>6, <1>7, <1>8, <1>9, Turned, ShortenedItself,
           SamePageItself DEF NoAckComes
---------------------------------------------------------------------------
(* A step that puts a frame on the wire *)

\* Frame f of session c follows whatever the session sent before it.
InTurn(f, c) ==
    \/ f.copy
    \/ f.kind = "snapshot"
    \/ /\ f.seq = sess[c].next
       /\ CaughtUp(page, toPanel, c, f.seq - 1)
       /\ LastPrecedes(page, toPanel, c, f.seq - 1, f)

LEMMA NumberedBefore ==
    ASSUME FeedInv, NEW c \in Sessions, NEW n \in Nat, sess[c].next - 1 <= n
    PROVE  /\ page.sess = c => page.seq <= n
           /\ \A k \in DOMAIN toPanel : toPanel[k].sess = c => toPanel[k].seq <= n
           /\ \A m : Given(sess, used, c, m) => m \in Nat /\ m <= n
<1>1. sess[c].next \in Nat \ {0} /\ c # 0
  BY SessionFields, SessionsAre DEF FeedInv, Types
<1>2. \A m : Given(sess, used, c, m) => m \in Nat /\ m <= n
  BY <1>1 DEF Given
<1> QED BY <1>1, <1>2 DEF FeedInv, NumbersFit

LEMMA Appended ==
    ASSUME FeedInv, Types', page' = page, Onward, NoAckComes, Numbering,
           NEW c \in Sessions, c <= used', NEW f \in WireFrames, toPanel' = Append(toPanel, f),
           f.sess = c, f.seq \in 1..sess'[c].next - 1, sess[c].next - 1 <= f.seq,
           Between(f, Shown, Before', Future'), InTurn(f, c),
           post'.frame.rows = f.rows, post'.frame.commit = f.commit
    PROVE  WireFits' /\ NumbersFit' /\ AcksFit' /\ Shown' \subseteq Shown \cup {f.rows}
<1>0. Types /\ WireFits /\ NumbersFit /\ AcksFit
  BY DEF FeedInv
<1>1. /\ toPanel \in Seq(WireFrames) /\ page \in Pages /\ used \in Nat /\ used' \in Nat
      /\ sess[c].next \in Nat \ {0} /\ f.seq \in Nat
  BY <1>0, SessionIs, SessionFields, FrameFields DEF Types
<1>2. /\ DOMAIN toPanel' = 1..Len(toPanel) + 1 /\ DOMAIN toPanel = 1..Len(toPanel)
      /\ Len(toPanel) \in Nat
      /\ \A k \in 1..Len(toPanel) : toPanel'[k] = toPanel[k]
      /\ toPanel'[Len(toPanel) + 1] = f
  BY <1>1, AppendIs
<1>3. \A k \in DOMAIN toPanel' : (k \in DOMAIN toPanel /\ toPanel'[k] = toPanel[k])
                                 \/ (k = Len(toPanel) + 1 /\ toPanel'[k] = f)
  BY <1>2
<1>4. \A j, k \in DOMAIN toPanel' : j < k => j \in DOMAIN toPanel /\ toPanel'[j] = toPanel[j]
  BY <1>2
<1>5. page.rows \in Shown /\ \A k \in DOMAIN toPanel : toPanel[k].rows \in Shown
  BY DEF Shown, ShownOf
<1>6. page.rows \in RowMaps /\ {} \in SUBSET RowMaps /\ f.rows \in RowMaps
  BY <1>1, PageFields, FrameFields
<1>7. /\ Moves({}, Before, Future, {}, Before', Future')
      /\ Moves({page.rows}, Before, Future, {page.rows}, Before', Future')
  BY <1>6 DEF Onward
<1>8. Between(page', {}, Before', Future')
  BY <1>0, <1>6, <1>7, BetweenKept DEF WireFits
<1>9. \A k \in DOMAIN toPanel : Between(toPanel[k], {page.rows}, Before', Future')
  BY <1>0, <1>7, Basics, FrameFields, BetweenKept DEF WireFits
<1>10. Between(f, {page.rows}, Before', Future')
       /\ \A k \in DOMAIN toPanel : Over(toPanel[k].rows, f.rows)
  BY <1>5 DEF Between
<1>11. Over(f.rows, f.rows)
  BY <1>6, RowMapIs DEF Over
<1>12. Between(post'.frame, {page.rows}, Before', Future')
  BY <1>10 DEF Between
<1>13. WireFits'
  <2>1. \A k \in DOMAIN toPanel' : Between(toPanel'[k], {page'.rows}, Before', Future')
    BY <1>3, <1>9, <1>10
  <2>2. \A j, k \in DOMAIN toPanel' : j < k => Over(toPanel'[j].rows, toPanel'[k].rows)
    BY <1>0, <1>3, <1>4, <1>10 DEF WireFits
  <2>3. \A k \in DOMAIN toPanel' : Over(toPanel'[k].rows, post'.frame.rows)
    BY <1>3, <1>10, <1>11
  <2> QED BY <1>8, <1>12, <2>1, <2>2, <2>3 DEF WireFits
<1>14. /\ page.sess = c => page.seq <= f.seq
       /\ \A k \in DOMAIN toPanel : toPanel[k].sess = c => toPanel[k].seq <= f.seq
       /\ \A m : Given(sess, used, c, m) => m \in Nat /\ m <= f.seq
  BY <1>1, NumberedBefore
<1>15. FramesFit(page, toPanel')
  <2>1. ASSUME NEW k \in DOMAIN toPanel'
        PROVE  /\ page.sess = toPanel'[k].sess => page.seq <= toPanel'[k].seq
               /\ \A j \in DOMAIN toPanel' : j < k /\ toPanel'[j].sess = toPanel'[k].sess
                     => toPanel'[j].seq <= toPanel'[k].seq
               /\ toPanel'[k].kind = "changes" /\ ~toPanel'[k].copy =>
                     /\ \A j \in DOMAIN toPanel' : j < k /\ toPanel'[j].sess = toPanel'[k].sess
                           => toPanel'[j].seq = toPanel'[k].seq - 1
                              /\ toPanel'[j].commit < toPanel'[k].commit
                     /\ page.sess = toPanel'[k].sess
                           => page.seq = toPanel'[k].seq - 1 /\ page.commit < toPanel'[k].commit
    <3>1. CASE k \in DOMAIN toPanel /\ toPanel'[k] = toPanel[k]
      BY <1>0, <1>4, <3>1 DEF NumbersFit, FramesFit
    <3>2. CASE k = Len(toPanel) + 1 /\ toPanel'[k] = f
      <4>1. page.sess = c => page.seq <= f.seq
        BY <1>14
      <4>2. \A j \in DOMAIN toPanel' : j < k /\ toPanel'[j].sess = c => toPanel'[j].seq <= f.seq
        BY <1>4, <1>14
      <4>3. ASSUME f.kind = "changes", ~f.copy
            PROVE  /\ \A j \in DOMAIN toPanel : toPanel[j].sess = c
                         => toPanel[j].seq = f.seq - 1 /\ toPanel[j].commit < f.commit
                   /\ page.sess = c => page.seq = f.seq - 1 /\ page.commit < f.commit
        <5>1. /\ f.seq = sess[c].next
              /\ CaughtUp(page, toPanel, c, f.seq - 1)
              /\ LastPrecedes(page, toPanel, c, f.seq - 1, f)
          BY <4>3 DEF InTurn
        <5>2. PICK n \in Nat : n = f.seq - 1
          BY <1>1, <5>1
        <5>3. /\ page.sess = c => page.seq <= n
              /\ \A j \in DOMAIN toPanel : toPanel[j].sess = c => toPanel[j].seq <= n
          BY <5>1, <5>2, NumberedBefore
        <5>4. /\ page.seq \in Nat /\ \A j \in DOMAIN toPanel : toPanel[j].seq \in Nat
          BY <1>1, PageFields, ElementsOf, FrameFields
        <5>5. /\ page.sess = c => page.seq = n
              /\ \A j \in DOMAIN toPanel : toPanel[j].sess = c => toPanel[j].seq = n
          BY <5>1, <5>2, <5>3, <5>4 DEF CaughtUp
        <5> QED BY <5>1, <5>2, <5>5 DEF LastPrecedes
      <4> QED BY <1>4, <3>2, <4>1, <4>2, <4>3
    <3> QED BY <1>3, <2>1, <3>1, <3>2
  <2> QED BY <2>1 DEF FramesFit
<1>16. NumbersFit'
  <2>1. \A k \in DOMAIN toPanel' : Given(sess', used', toPanel'[k].sess, toPanel'[k].seq)
    <3>1. \A k \in DOMAIN toPanel : Given(sess', used', toPanel[k].sess, toPanel[k].seq)
      BY <1>0, GivenOn DEF NumbersFit
    <3>2. Given(sess', used', c, f.seq)
      BY DEF Given
    <3> QED BY <1>3, <3>1, <3>2
  <2>2. page.sess # 0 => Given(sess', used', page.sess, page.seq)
    BY <1>0, GivenOn DEF NumbersFit
  <2>3. page.retired \subseteq 1..used' /\ page.sess \notin page.retired
    <3>1. 1..used \subseteq 1..used'
      BY <1>1 DEF Numbering
    <3> QED BY <1>0, <3>1 DEF NumbersFit
  <2> QED BY <1>15, <2>1, <2>2, <2>3 DEF NumbersFit
<1>17. AcksFit'
  <2>1. ASSUME NEW i, NEW n, Given(sess, used, i, n), CaughtUp(page, toPanel, i, n)
        PROVE  CaughtUp(page, toPanel', i, n)
    <3>1. i = c => n \in Nat /\ n <= f.seq
      BY <1>14, <2>1
    <3>2. i = c => f.seq >= n
      BY <1>1, <3>1
    <3> QED BY <1>3, <2>1, <3>2 DEF CaughtUp
  <2>2. \A k \in DOMAIN toHost' : toHost'[k].kind = "ack" =>
            /\ Given(sess', used', toHost'[k].sess, toHost'[k].seq)
            /\ CaughtUp(page', toPanel', toHost'[k].sess, toHost'[k].seq)
    BY <1>0, <2>1, GivenOn, AcksLeft DEF AcksFit
  <2> QED BY <2>2 DEF AcksFit
<1>18. Shown' \subseteq Shown \cup {f.rows}
  BY <1>3 DEF Shown, ShownOf
<1> QED BY <1>13, <1>16, <1>17, <1>18

\* The client's session sends f, or sends it again.
LEMMA Sent ==
    ASSUME FeedInv, Types', PollsFit', CreditFits', GenerationsFit', MailFits', Onward,
           page' = page, NoAckComes, Numbering,
           NEW c \in Sessions, Current(c)', conn' = c,
           NEW f \in WireFrames, toPanel' = Append(toPanel, f),
           f.sess = c, f.seq = sess'[c].next - 1, f.seq >= 1, sess[c].next - 1 <= f.seq,
           Between(f, Shown, Before', Future'), InTurn(f, c),
           post'.frame.rows = f.rows, post'.frame.commit = f.commit,
           post'.frame.sess = c, post'.frame.seq = f.seq, post'.resends <= MaxResends,
           sess'[c].phase = "open", sess'[c].inflight = sess'[c].next - 1,
           SessionFits(sess'[c]), ContentFits(sess'[c], Shown \cup {f.rows}, Before', Future'),
           \A k \in DOMAIN sess'[c].queue :
              /\ f.commit < sess'[c].queue[k].commit
              /\ f.seq = sess[c].next \/ LastPrecedes(page, toPanel, c, f.seq, sess'[c].queue[k]),
           \A i \in Sessions \ {c} : SessionFits(sess'[i])
                                     /\ ContentFits(sess'[i], {}, Before', Future')
    PROVE  FeedInv'
<1>1. sess'[c].next \in Nat \ {0} /\ sess[c].next \in Nat \ {0} /\ f.seq \in Nat /\ c # 0
  BY SessionIs, SessionFields, FrameFields, SessionsAre DEF FeedInv, Types
<1>2. f.seq \in 1..sess'[c].next - 1
  BY <1>1
<1>3. c <= used'
  <2>1. c > used' => sess'[c] = Unused
    BY DEF GenerationsFit
  <2>2. sess'[c] # Unused
    BY DEF Unused
  <2>3. used' \in Nat /\ c \in Nat
    BY SessionsAre DEF Types
  <2> QED BY <2>1, <2>2, <2>3
<1>4. WireFits' /\ NumbersFit' /\ AcksFit' /\ Shown' \subseteq Shown \cup {f.rows}
  BY <1>2, <1>3, Appended
<1>5. \A i \in Sessions : Current(i)' => i = c
  BY DEF GenerationsFit, Sessions
<1>6. ASSUME NEW i \in Sessions
      PROVE  SessionFits(sess'[i]) /\ ContentFits(sess'[i], ShownTo(i)', Before', Future')
  <2>1. CASE i = c
    <3>1. ShownTo(i)' \subseteq Shown \cup {f.rows}
      BY <1>4 DEF ShownTo
    <3> QED BY <2>1, <3>1, ContentUnseen
  <2>2. CASE i # c
    <3>1. ShownTo(i)' = {}
      BY <1>5, <2>2 DEF ShownTo
    <3> QED BY <2>2, <3>1
  <2> QED BY <2>1, <2>2
<1>7. SessionsFit'
  BY <1>6 DEF SessionsFit, Sessions
<1>8. Flies(page, toPanel', c, sess'[c])
  <2>1. sess'[c].inflight # 0
    BY <1>1
  <2>2. ASSUME NEW k \in DOMAIN sess'[c].queue
        PROVE  LastPrecedes(page, toPanel', c, f.seq, sess'[c].queue[k])
    <3>1. LastPrecedes(page, toPanel, c, f.seq, sess'[c].queue[k])
      <4>1. CASE f.seq = sess[c].next
        <5>1. PICK n \in Nat : n = f.seq - 1
          BY <1>1
        <5>2. /\ page.sess = c => page.seq <= n
              /\ \A j \in DOMAIN toPanel : toPanel[j].sess = c => toPanel[j].seq <= n
          BY <4>1, <5>1, NumberedBefore
        <5>3. page.seq \in Nat /\ \A j \in DOMAIN toPanel : toPanel[j].seq \in Nat
          BY PageFields, ElementsOf, FrameFields DEF FeedInv, Types
        <5> QED BY <1>1, <5>1, <5>2, <5>3 DEF LastPrecedes
      <4> QED BY <2>2, <4>1
    <3>2. toPanel \in Seq(WireFrames)
      BY DEF FeedInv, Types
    <3>3. \A j \in DOMAIN toPanel' : (j \in DOMAIN toPanel /\ toPanel'[j] = toPanel[j])
                                     \/ toPanel'[j] = f
      BY <3>2, AppendIs
    <3> QED BY <2>2, <3>1, <3>3 DEF LastPrecedes
  <2> QED BY <2>1, <2>2 DEF Flies
<1>9. FlightFits'
  <2>1. \A i \in Sessions : Current(i)' => Flies(page', toPanel', i, sess'[i])
    BY <1>5, <1>8
  <2>2. Resends(post', c, sess'[c])
    BY <1>1 DEF Resends
  <2> QED BY <1>1, <2>1, <2>2 DEF FlightFits, Sessions
<1> QED BY <1>4, <1>7, <1>9 DEF FeedInv
---------------------------------------------------------------------------
(* What the sessions hand out *)

LEMMA WireIs ==
    ASSUME NEW kind \in {"snapshot", "changes"}, NEW s \in SessionStates, NEW commit \in Nat,
           NEW rows \in RowMaps, gen \in Nat, NEW i \in Nat,
           NEW f, f = OnWire(Frame(kind, s, commit, rows), i)
    PROVE  /\ f \in WireFrames /\ f.kind = kind /\ f.seq = s.next /\ f.commit = commit
           /\ f.rows = rows /\ ~f.copy /\ f.sess = i
<1>1. s.next \in Nat
  BY SessionFields
<1>2. f = [kind |-> kind, seq |-> s.next, commit |-> commit, rows |-> rows, copy |-> FALSE,
           sess |-> i, gen |-> gen]
  BY DEF OnWire, Frame
<1> QED BY <1>1, <1>2 DEF WireFrames

LEMMA FirstPost ==
    ASSUME NEW f \in WireFrames, post' = [frame |-> f, resends |-> 0]
    PROVE  post' \in Posts /\ post'.frame = f /\ post'.resends = 0
BY DEF Posts

\* At most session c has something to post.
LEMMA PostIs ==
    ASSUME NEW outs, Post(outs), NEW c \in Sessions,
           \A i \in Sessions : i # c => ~(outs[i] # <<>> /\ sess[i].gen = gen /\ view # "gone")
    PROVE  /\ outs[c] # <<>> /\ sess[c].gen = gen /\ view # "gone" =>
                  /\ post' = [frame |-> OnWire(outs[c][1], c), resends |-> 0]
                  /\ toPanel' = Append(toPanel, OnWire(outs[c][1], c))
           /\ ~(outs[c] # <<>> /\ sess[c].gen = gen /\ view # "gone") =>
                  post' = post /\ toPanel' = toPanel
<1> DEFINE posted == {i \in Sessions : outs[i] # <<>> /\ sess[i].gen = gen /\ view # "gone"}
<1>1. CASE outs[c] # <<>> /\ sess[c].gen = gen /\ view # "gone"
  <2>1. posted = {c}
    BY <1>1
  <2>2. (CHOOSE i \in posted : TRUE) = c
    BY <2>1
  <2>3. posted # {}
    BY <2>1
  <2> QED BY <1>1, <2>2, <2>3 DEF Post
<1>2. CASE ~(outs[c] # <<>> /\ sess[c].gen = gen /\ view # "gone")
  <2>1. posted = {}
    BY <1>2
  <2> QED BY <1>2, <2>1 DEF Post
<1> QED BY <1>1, <1>2

\* A session that is open from now on hands out what it has read, and the bridge posts it.
LEMMA SnapshotSent ==
    ASSUME FeedInv, UNCHANGED <<db, commits, ext, mail, used, pollVars, gen, ready, view, page, toHost,
                                budget>>,
           NEW i \in Sessions, sess[i].read = "answered", Current(i), conn' = i, rec' = rec,
           view # "gone",
           \A j \in Sessions : j # i => ~(Current(j) /\ sess[j].phase = "open"),
           NEW s \in SessionStates, s.phase = "open", s.gen = sess[i].gen, s.next = sess[i].next,
           s.queue = sess[i].queue, s.read = sess[i].read, s.answer = sess[i].answer,
           s.handoff = sess[i].handoff,
           NEW req \in BOOLEAN, NEW r, r = HandOver(s, req), sess' = [sess EXCEPT ![i] = r.s],
           Post(OutOf(i, r.out))
    PROVE  FeedInv'
<1>0. Types /\ PollsFit /\ CreditFits /\ GenerationsFit /\ MailFits
  BY DEF FeedInv
<1>1. /\ sess[i] \in SessionStates /\ SessionFits(sess[i])
      /\ ContentFits(sess[i], ShownTo(i), Before, Future)
      /\ sess[i].queue = <<>> /\ sess[i].inflight = 0
  BY SessionIs
<1>2. DOMAIN s.answer.rows = Rows /\ s.answer \in Batches /\ s.queue = <<>>
  BY <1>1, SessionFields DEF SessionFits
<1>3. s.answer.commit \in Nat /\ s.answer.rows \in RowMaps
  BY <1>2, BatchFields
<1>4. ContentFits(s, Shown, Before, Future)
  BY <1>1 DEF ContentFits, ShownTo, Handed
<1>5. Ordered(s.handoff) /\ Between(s.answer, Shown, Before, Future)
  BY <1>4 DEF ContentFits
<1>6. /\ r.s \in SessionStates /\ QueueFits(r.s)
      /\ r.s.gen = s.gen /\ r.s.phase = "open" /\ r.s.next = s.next + 1
      /\ r.s.inflight = s.next /\ r.s.read = "none"
      /\ r.out # <<>> /\ r.out[1] = Frame("snapshot", s, s.answer.commit, s.answer.rows)
  BY <1>2, <1>5, HandOverIs
<1>7. \A j \in DOMAIN r.s.queue : r.s.queue[j].commit > s.answer.commit
  BY <1>2, <1>5, HandOverIs
<1>8. ContentFits(r.s, Shown \cup {s.answer.rows}, Before, Future)
  BY <1>0, <1>2, <1>4, Basics, ContentHandedOver
<1>9. gen \in Nat /\ i \in Nat /\ s.next \in Nat \ {0} /\ page \in Pages /\ i # 0
  BY <1>0, SessionFields, SessionsAre DEF Types
<1>10. PICK f : f = OnWire(r.out[1], i)
  OBVIOUS
<1>11. /\ f \in WireFrames /\ f.kind = "snapshot" /\ f.seq = s.next /\ f.commit = s.answer.commit
       /\ f.rows = s.answer.rows /\ f.sess = i
  BY <1>3, <1>6, <1>9, <1>10, WireIs
<1>12. post' = [frame |-> f, resends |-> 0] /\ toPanel' = Append(toPanel, f)
  <2>1. OutOf(i, r.out)[i] = r.out /\ \A j \in Sessions : j # i => OutOf(i, r.out)[j] = <<>>
    BY DEF OutOf
  <2>2. sess[i].gen = gen
    BY DEF Current
  <2> QED BY <1>6, <1>10, <2>1, <2>2, PostIs
<1>13. post' \in Posts /\ post'.frame = f /\ post'.resends = 0
  BY <1>11, <1>12, FirstPost
<1>14. /\ sess' \in [Sessions -> SessionStates] /\ sess'[i] = r.s
       /\ \A j \in Sessions : j # i => sess'[j] = sess[j]
  BY <1>0, <1>6, OneChanges
<1>15. toPanel' \in Seq(WireFrames)
  BY <1>0, <1>11, <1>12, AppendIs DEF Types
<1>16. Types'
  BY <1>0, <1>9, <1>13, <1>14, <1>15 DEF Types, pollVars
<1>17. PollsFit'
  BY <1>0 DEF PollsFit, pollVars
<1>18. CreditFits'
  <2>1. \A j \in Sessions : sess'[j].read = "failed" => j \in Failing
    BY <1>6, <1>14 DEF Failing, FailingOf
  <2>2. Failing' \subseteq Failing
    BY <1>0, <2>1, NoMoreFail, ShortenedItself
  <2>3. Paid' <= Paid
    BY <1>0 DEF Paid, Bit, Types
  <2> QED BY <1>0, <1>16, <2>2, <2>3, CreditKept
<1>19. Onward /\ MailFits' /\ Before' = Before /\ Future' = Future
  <2>1. \A k \in DOMAIN mail : mail[k].kind = "answer" =>
            mail[k].to \in Sessions /\ sess[mail[k].to].read = "served"
    BY <1>0, Basics, MsgFields DEF MailFits
  <2>2. \A k \in DOMAIN mail' : mail'[k].kind = "answer" => sess'[mail'[k].to].read = "served"
    BY <1>14, <2>1
  <2> QED BY <1>0, <2>2, MailKept, OnwardItself, ShortenedItself DEF Before, Future
<1>20. Current(i)' /\ \A j \in Sessions : j # i => (Current(j)' <=> Current(j))
  BY <1>6, <1>14 DEF Current, Live
<1>21. GenerationsFit'
  <2>1. sess[i] # Unused /\ i <= used
    <3>1. sess[i] # Unused
      BY DEF Unused
    <3>2. used \in Nat
      BY <1>0 DEF Types
    <3> QED BY <1>0, <1>9, <3>1, <3>2 DEF GenerationsFit
  <2>2. ASSUME NEW j \in Sessions
        PROVE  /\ j > used' => sess'[j] = Unused
               /\ j <= used' => sess'[j].phase # "unused" /\ sess'[j].gen <= gen'
               /\ sess'[j].gen = gen' /\ sess'[j].phase = "closed" /\ view' # "gone"
                     => sess'[j].read = "none"
               /\ Current(j)' /\ sess'[j].phase = "open" => j = conn' /\ view' # "gone"
    <3>1. CASE j = i
      <4>1. ~(i > used) /\ sess[i].gen <= gen
        <5>1. used \in Nat
          BY <1>0 DEF Types
        <5> QED BY <1>0, <1>9, <2>1, <5>1 DEF GenerationsFit
      <4> QED BY <1>6, <1>14, <3>1, <4>1
    <3>2. CASE j # i
      BY <1>0, <1>14, <1>20, <3>2 DEF GenerationsFit
    <3> QED BY <3>1, <3>2
  <2>3. \A j, k \in Sessions : Current(j)' /\ Current(k)' => j = k
    BY <1>0, <1>20 DEF GenerationsFit
  <2>4. rec' # "wait"
    BY <1>0 DEF GenerationsFit
  <2>5. sess'[i].gen = gen'
    BY <1>6, <1>14 DEF Current
  <2> QED BY <2>1, <2>2, <2>3, <2>4, <2>5 DEF GenerationsFit, Sessions
<1>22. Numbering
  <2>1. \A j \in Sessions : sess[j].next \in Nat
    BY <1>0, Basics, SessionFields
  <2>2. used \in Nat
    BY <1>0 DEF Types
  <2> QED BY <1>6, <1>14, <2>1, <2>2 DEF Numbering
<1>23. Between(f, Shown, Before', Future') /\ InTurn(f, i)
  BY <1>5, <1>11, <1>19 DEF Between, InTurn
<1>24. SessionFits(r.s) /\ f.seq = r.s.next - 1 /\ f.seq >= 1 /\ sess[i].next - 1 <= f.seq
       /\ r.s.inflight = r.s.next - 1
  BY <1>6, <1>9, <1>11 DEF SessionFits
<1>25. \A j \in Sessions \ {i} : SessionFits(sess'[j]) /\ ContentFits(sess'[j], {}, Before', Future')
  <2>1. ASSUME NEW j \in Sessions, j # i
        PROVE  SessionFits(sess[j]) /\ ContentFits(sess[j], {}, Before, Future)
    BY SessionIs, ContentUnseen
  <2> QED BY <1>14, <1>19, <2>1
<1>26. MaxResends \in Nat
  BY BoundsAssumption
<1>27. \A k \in DOMAIN r.s.queue : f.commit < r.s.queue[k].commit
  <2>1. \A k \in DOMAIN r.s.queue : r.s.queue[k].commit \in Nat
    BY <1>6, SessionFields, ElementsOf, BatchFields
  <2> QED BY <1>3, <1>7, <1>11, <2>1
<1>28. /\ post'.frame.rows = f.rows /\ post'.frame.commit = f.commit /\ post'.frame.sess = i
       /\ post'.frame.seq = f.seq /\ post'.resends <= MaxResends /\ f.sess = i
  BY <1>11, <1>13, <1>26
<1>29. /\ sess'[i].phase = "open" /\ sess'[i].inflight = sess'[i].next - 1
       /\ f.seq = sess'[i].next - 1 /\ SessionFits(sess'[i])
       /\ ContentFits(sess'[i], Shown \cup {f.rows}, Before', Future')
  BY <1>6, <1>8, <1>11, <1>14, <1>19, <1>24
<1>30. \A k \in DOMAIN sess'[i].queue : /\ f.commit < sess'[i].queue[k].commit
                                        /\ f.seq = sess[i].next
  BY <1>11, <1>14, <1>27
<1>31. NoAckComes
  BY ShortenedItself DEF NoAckComes
<1> QED BY <1>11, <1>12, <1>16, <1>17, <1>18, <1>19, <1>20, <1>21, <1>22, <1>23, <1>24, <1>25,
           <1>28, <1>29, <1>30, <1>31, Sent

LEMMA ConnectReturnsKeeps ==
    ASSUME FeedInv, NEW i \in Sessions, ConnectReturns(i)
    PROVE  FeedInv'
<1>0. Types /\ GenerationsFit
  BY DEF FeedInv
<1>1. /\ UNCHANGED <<db, commits, ext, mail, used, pollVars, gen, ready, view, page, toHost, budget>>
      /\ rec' = rec /\ conn' = i /\ sess[i].phase = "opening" /\ sess[i].read = "answered"
      /\ sess[i].gen = gen /\ view = "shown"
      /\ sess' = [sess EXCEPT ![i] = Opened(i).s] /\ Post(OutOf(i, Opened(i).out))
  BY DEF ConnectReturns, Wanted, dbVars
<1>2. Current(i) /\ \A j \in Sessions : j # i => ~Current(j)
  <2>1. Current(i)
    BY <1>1 DEF Current, Live
  <2> QED BY <1>0, <2>1 DEF GenerationsFit
<1>3. sess[i] \in SessionStates
  BY SessionIs
<1>4. PICK s : s = [sess[i] EXCEPT !.phase = "open"]
  OBVIOUS
<1>5. /\ s \in SessionStates /\ s.phase = "open" /\ s.gen = sess[i].gen /\ s.next = sess[i].next
      /\ s.queue = sess[i].queue /\ s.read = sess[i].read /\ s.answer = sess[i].answer
      /\ s.handoff = sess[i].handoff
  BY <1>3, <1>4 DEF SessionStates
<1>6. PICK req \in BOOLEAN : req = sess[i].required
  BY <1>3, SessionFields
<1>7. PICK r : r = HandOver(s, req)
  OBVIOUS
<1>8. Opened(i) = r
  BY <1>4, <1>6, <1>7 DEF Opened
<1> QED BY <1>1, <1>2, <1>5, <1>7, <1>8, SnapshotSent

LEMMA RefreshReturnsKeeps ==
    ASSUME FeedInv, NEW i \in Sessions, RefreshReturns(i)
    PROVE  FeedInv'
<1>0. Types /\ PollsFit /\ CreditFits /\ GenerationsFit /\ MailFits
  BY DEF FeedInv
<1>1. PICK s : s = sess[i]
  OBVIOUS
<1>2. /\ s \in SessionStates /\ SessionFits(s) /\ ContentFits(s, ShownTo(i), Before, Future)
      /\ s.queue = <<>> /\ s.inflight = 0 /\ s.read = "answered" /\ s.phase \in {"open", "closed"}
  BY <1>1, SessionIs DEF RefreshReturns
<1>3. PICK req \in BOOLEAN : req = StillRequired(s)
  BY <1>2, SessionFields DEF StillRequired
<1>4. PICK r : r = HandOver(s, req)
  OBVIOUS
<1>5. /\ UNCHANGED <<db, commits, ext, mail, used, pollVars, gen, ready, view, page, toHost, budget>>
      /\ conn' = conn /\ rec' = rec
      /\ sess' = [sess EXCEPT ![i] = r.s] /\ Post(OutOf(i, r.out))
  BY <1>1, <1>3, <1>4 DEF RefreshReturns, dbVars
<1>6. s.phase = "closed" => ~(s.gen = gen /\ view # "gone")
  BY <1>0, <1>1, <1>2 DEF GenerationsFit
<1>7. CASE s.gen = gen /\ view # "gone"
  <2>1. s.phase = "open" /\ Current(i)
    BY <1>1, <1>2, <1>6, <1>7 DEF Current, Live
  <2>2. i = conn /\ \A j \in Sessions : j # i => ~(Current(j) /\ sess[j].phase = "open")
    BY <1>0, <1>1, <2>1 DEF GenerationsFit
  <2> QED BY <1>1, <1>2, <1>4, <1>5, <1>7, <2>1, <2>2, SnapshotSent
<1>8. CASE ~(s.gen = gen /\ view # "gone")
  <2>1. ~Current(i)
    <3>1. Current(i) /\ s.phase = "open" => view # "gone"
      BY <1>0, <1>1 DEF GenerationsFit
    <3> QED BY <1>1, <1>2, <1>8, <3>1 DEF Current, Live
  <2>2. post' = post /\ toPanel' = toPanel
    <3>1. \A j \in Sessions : j # i => OutOf(i, r.out)[j] = <<>>
      BY DEF OutOf
    <3> QED BY <1>1, <1>5, <1>8, <3>1, PostIs
  <2>3. DOMAIN s.answer.rows = Rows /\ ContentFits(s, {}, Before, Future)
    BY <1>2, ContentUnseen DEF SessionFits
  <2>4. Ordered(s.handoff)
    BY <2>3 DEF ContentFits
  <2>5. /\ r.s \in SessionStates /\ QueueFits(r.s)
        /\ r.s.gen = s.gen /\ r.s.phase = s.phase /\ r.s.next = s.next + 1
        /\ r.s.inflight = s.next /\ r.s.read = "none"
    BY <1>2, <1>4, <2>4, HandOverIs
  <2>6. ContentFits(r.s, ShownTo(i), Before, Future)
    <3>1. ContentFits(r.s, {} \cup {s.answer.rows}, Before, Future)
      BY <1>2, <1>4, <2>3, ContentHandedOver
    <3>2. ShownTo(i) = {}
      BY <2>1 DEF ShownTo
    <3> QED BY <3>1, <3>2, ContentUnseen
  <2>7. s.next \in Nat /\ s.next <= r.s.next /\ SessionFits(r.s)
    <3>1. s.next \in Nat
      BY <1>2, SessionFields
    <3> QED BY <1>2, <2>5, <3>1 DEF SessionFits
  <2>8. Stays(s, r.s)
    BY <1>2, <2>5 DEF Stays, Live, Unused
  <2>9. /\ sess' \in [Sessions -> SessionStates] /\ sess'[i] = r.s
        /\ \A j \in Sessions : j # i => sess'[j] = sess[j]
    BY <1>0, <1>5, <2>5, OneChanges
  <2>10. Types'
    BY <1>0, <1>5, <2>2, <2>9 DEF Types, pollVars
  <2>11. PollsFit'
    BY <1>0, <1>5 DEF PollsFit, pollVars
  <2>12. CreditFits'
    <3>1. \A j \in Sessions : sess'[j].read = "failed" => j \in Failing
      BY <2>5, <2>9 DEF Failing, FailingOf
    <3>2. Failing' \subseteq Failing
      BY <1>0, <1>5, <3>1, NoMoreFail, ShortenedItself
    <3>3. Paid' <= Paid
      BY <1>0, <1>5 DEF Paid, Bit, Types
    <3> QED BY <1>0, <2>10, <3>2, <3>3, CreditKept
  <2>13. Onward /\ MailFits'
    <3>1. \A k \in DOMAIN mail : mail[k].kind = "answer" =>
              mail[k].to \in Sessions /\ sess[mail[k].to].read = "served"
      BY <1>0, Basics, MsgFields DEF MailFits
    <3>2. \A k \in DOMAIN mail' : mail'[k].kind = "answer" => sess'[mail'[k].to].read = "served"
      BY <1>1, <1>2, <1>5, <2>9, <3>1
    <3> QED BY <1>0, <1>5, <3>2, MailKept, OnwardItself, ShortenedItself
  <2>14. ~(post # None /\ conn = i)
    BY <1>1, <1>2, SessionIs
  <2>15. UNCHANGED <<used, gen, conn, view, post, page, toPanel, toHost>> /\ rec' = rec
    BY <1>5, <2>2
  <2> QED BY <1>1, <1>5, <2>1, <2>5, <2>6, <2>7, <2>8, <2>10, <2>11, <2>12, <2>13, <2>14, <2>15,
             OneSession, ShortenedItself, SamePageItself DEF NoAckComes
<1> QED BY <1>7, <1>8
---------------------------------------------------------------------------
(* Acknowledgements and repetitions *)

\* What an acknowledgement that is good tells of the session.
LEMMA AckedIs ==
    ASSUME FeedInv, toHost # <<>>, Acks(Head(toHost))
    PROVE  /\ conn \in Sessions /\ Current(conn) /\ sess[conn].phase = "open" /\ view = "shown"
           /\ sess[conn].inflight = sess[conn].next - 1 /\ sess[conn].inflight # 0
           /\ sess[conn].read = "none"
           /\ CaughtUp(page, toPanel, conn, sess[conn].next - 1)
<1>0. Types /\ AcksFit /\ GenerationsFit
  BY DEF FeedInv
<1>1. PICK m : m = Head(toHost)
  OBVIOUS
<1>2. /\ view = "shown" /\ conn # 0 /\ m.sess = conn /\ sess[conn].phase = "open"
      /\ m.kind = "ack" /\ sess[conn].inflight = m.seq
  BY <1>1 DEF Acks, Heard
<1>3. conn \in Sessions /\ Current(conn)
  BY <1>0, <1>2 DEF GenerationsFit, Current, Live
<1>4. 1 \in DOMAIN toHost /\ toHost[1] = m
  BY <1>0, <1>1, TailIs DEF Types
<1>5. Given(sess, used, conn, m.seq) /\ CaughtUp(page, toPanel, conn, m.seq)
  BY <1>0, <1>2, <1>4 DEF AcksFit
<1>6. sess[conn].inflight # 0
  BY <1>2, <1>5 DEF Given
<1>7. SessionFits(sess[conn])
  BY <1>3, SessionIs
<1>8. sess[conn].inflight = sess[conn].next - 1 /\ sess[conn].read = "none"
  BY <1>6, <1>7 DEF SessionFits
<1> QED BY <1>2, <1>3, <1>5, <1>6, <1>8

\* The session of the bridge after an acknowledgement that lets nothing out.
LEMMA AckEnds ==
    ASSUME FeedInv, toHost # <<>>, Acks(Head(toHost)), toHost' = Tail(toHost),
           UNCHANGED <<db, commits, ext, mail, used, pollVars, gen, ready, view, conn, page, toPanel,
                       budget>>,
           rec' = "none", post' = None,
           NEW t \in SessionStates, sess' = [sess EXCEPT ![conn] = t],
           t.gen = sess[conn].gen, t.phase = sess[conn].phase, t.next = sess[conn].next,
           t.inflight = 0, t.queue = <<>>, t.read \in {"none", "asked"},
           t.handoff = <<>> \/ t.handoff = sess[conn].handoff
    PROVE  FeedInv'
<1>0. Types /\ PollsFit /\ CreditFits /\ GenerationsFit /\ MailFits
  BY DEF FeedInv
<1>1. /\ conn \in Sessions /\ Current(conn) /\ sess[conn].phase = "open"
      /\ sess[conn].read = "none" /\ CaughtUp(page, toPanel, conn, sess[conn].next - 1)
  BY AckedIs
<1>2. /\ sess' \in [Sessions -> SessionStates] /\ sess'[conn] = t
      /\ \A j \in Sessions : j # conn => sess'[j] = sess[j]
  BY <1>0, <1>1, OneChanges
<1>3. SessionFits(t)
  BY <1>1, EmptyQueueFits DEF SessionFits
<1>4. toHost' \in Seq(Controls) /\ Shortened(toHost, toHost')
  BY <1>0, TailIs DEF Types, Shortened
<1>5. Types'
  BY <1>0, <1>2, <1>4 DEF Types, pollVars
<1>6. PollsFit'
  BY <1>0 DEF PollsFit, pollVars
<1>7. CreditFits'
  <2>1. \A j \in Sessions : sess'[j].read = "failed" => j \in Failing
    BY <1>2 DEF Failing, FailingOf
  <2>2. Failing' \subseteq Failing
    BY <1>0, <2>1, NoMoreFail, ShortenedItself
  <2>3. Paid' <= Paid
    BY <1>0 DEF Paid, Bit, Types
  <2> QED BY <1>0, <1>5, <2>2, <2>3, CreditKept
<1>8. Onward /\ MailFits'
  <2>1. \A k \in DOMAIN mail : mail[k].kind = "answer" =>
            mail[k].to \in Sessions /\ sess[mail[k].to].read = "served"
    BY <1>0, Basics, MsgFields DEF MailFits
  <2>2. \A k \in DOMAIN mail' : mail'[k].kind = "answer" => sess'[mail'[k].to].read = "served"
    BY <1>1, <1>2, <2>1
  <2> QED BY <1>0, <2>2, MailKept, OnwardItself, ShortenedItself
<1>9. Current(conn)' /\ \A j \in Sessions : j # conn => (Current(j)' <=> Current(j))
  BY <1>1, <1>2 DEF Current, Live
<1>10. \A j \in Sessions : Stays(sess[j], sess'[j])
  <2>1. Stays(sess[conn], t)
    BY <1>1 DEF Stays, Live, Unused
  <2> QED BY <1>2, <2>1, StaysItself
<1>11. GenerationsFit'
  BY <1>0, <1>10, GenerationsKept
<1>12. Numbering
  <2>1. \A j \in Sessions : sess[j].next \in Nat
    BY <1>0, Basics, SessionFields
  <2>2. used \in Nat
    BY <1>0 DEF Types
  <2> QED BY <1>2, <2>1, <2>2 DEF Numbering
<1>13. ASSUME NEW j \in Sessions
       PROVE  Settles(j)
  <2>1. CASE j = conn
    <3>1. ContentFits(t, ShownTo(conn), Before, Future)
      <4>1. ContentFits(sess[conn], ShownTo(conn), Before, Future)
        BY <1>1, SessionIs
      <4> QED BY <4>1, ContentOfIdle
    <3>2. Flies(page, toPanel', conn, t)
      BY <1>1 DEF Flies
    <3> QED BY <1>1, <1>2, <1>3, <2>1, <3>1, <3>2 DEF Settles
  <2>2. CASE j # conn
    BY <1>2, <1>9, <2>2, SessionSame
  <2> QED BY <2>1, <2>2
<1>14. PostStays
  BY DEF PostStays
<1> QED BY <1>4, <1>5, <1>6, <1>7, <1>8, <1>11, <1>12, <1>13, <1>14, Quiet, ShortenedItself,
           SamePageItself DEF NoAckComes

\* The next batch of a queue that is in order leaves.
LEMMA NextBatch ==
    ASSUME NEW s \in SessionStates, s.queue # <<>>, s.read = "none",
           NEW Y, NEW B, NEW Z, ContentFits(s, Y, B, Z),
           NEW t, t.queue = Tail(s.queue), t.read = "none", t.handoff = s.handoff
    PROVE  /\ Head(s.queue) \in Batches /\ Between(Head(s.queue), Y, B, Z)
           /\ 1 \in DOMAIN s.queue /\ Head(s.queue) = s.queue[1]
           /\ ContentFits(t, Y \cup {Head(s.queue).rows}, B, Z)
           /\ \A k \in DOMAIN t.queue : Head(s.queue).commit < t.queue[k].commit
<1>1. /\ DOMAIN Tail(s.queue) = 1..Len(s.queue) - 1 /\ DOMAIN s.queue = 1..Len(s.queue)
      /\ Len(s.queue) \in Nat /\ Len(s.queue) >= 1
      /\ \A k \in 1..Len(s.queue) - 1 : Tail(s.queue)[k] = s.queue[k + 1]
      /\ Head(s.queue) = s.queue[1] /\ Head(s.queue) \in Batches
  BY SessionFields, TailIs
<1>2. 1 \in DOMAIN s.queue
  BY <1>1
<1>3. ASSUME NEW k \in DOMAIN t.queue
      PROVE  k + 1 \in DOMAIN s.queue /\ 1 < k + 1 /\ t.queue[k] = s.queue[k + 1]
             /\ \A j \in DOMAIN t.queue : j < k => j + 1 < k + 1
  BY <1>1
<1>4. \A k \in DOMAIN t.queue : Precedes(Head(s.queue), t.queue[k])
  BY <1>1, <1>2, <1>3 DEF ContentFits, Ordered
<1>5. \A k \in DOMAIN t.queue : Between(t.queue[k], Y \cup {Head(s.queue).rows}, B, Z)
  <2>1. \A k \in DOMAIN t.queue : Between(t.queue[k], Y, B, Z)
    BY <1>3 DEF ContentFits
  <2> QED BY <1>4, <2>1 DEF Between, Precedes
<1>6. Ordered(t.queue)
  BY <1>3 DEF ContentFits, Ordered
<1>7. ContentFits(t, Y \cup {Head(s.queue).rows}, B, Z)
  BY <1>5, <1>6 DEF ContentFits
<1> QED BY <1>1, <1>2, <1>4, <1>7 DEF ContentFits, Precedes

\* What is left of a queue keeps to its bounds.
LEMMA TailFits ==
    ASSUME NEW s \in SessionStates, QueueFits(s), s.queue # <<>>, NEW q, q = Tail(s.queue)
    PROVE  /\ q \in Seq(Batches) /\ Len(q) <= MaxQueued /\ ~s.required
           /\ \A k \in DOMAIN q : /\ DOMAIN q[k].rows # {}
                                  /\ Cardinality(DOMAIN q[k].rows) <= MaxBatchRows
<1>1. /\ q \in Seq(Batches) /\ Len(q) = Len(s.queue) - 1 /\ Len(s.queue) \in Nat
      /\ DOMAIN q = 1..Len(s.queue) - 1 /\ DOMAIN s.queue = 1..Len(s.queue)
      /\ \A k \in 1..Len(s.queue) - 1 : q[k] = s.queue[k + 1]
  BY SessionFields, TailIs
<1>2. \A k \in DOMAIN q : k + 1 \in DOMAIN s.queue /\ q[k] = s.queue[k + 1]
  BY <1>1
<1>3. Len(q) <= MaxQueued /\ ~s.required
  BY <1>1, BoundsAssumption DEF QueueFits
<1> QED BY <1>1, <1>2, <1>3 DEF QueueFits

LEMMA ChangesLeave ==
    ASSUME NEW s \in SessionStates, QueueFits(s), s.phase = "open", s.read = "none",
           NEW n, NEW rows, NEW r, r = Send("changes", s, n, rows)
    PROVE  /\ r.s \in SessionStates /\ SessionFits(r.s)
           /\ r.s.gen = s.gen /\ r.s.phase = "open" /\ r.s.next = s.next + 1
           /\ r.s.inflight = s.next /\ r.s.read = "none" /\ r.s.handoff = s.handoff
           /\ r.s.queue = s.queue
           /\ r.out # <<>> /\ r.out[1] = Frame("changes", s, n, rows)
<1>1. /\ r.s \in SessionStates /\ r.s.next = s.next + 1 /\ r.s.inflight = s.next
      /\ r.s.gen = s.gen /\ r.s.phase = s.phase /\ r.s.read = s.read
      /\ r.s.queue = s.queue /\ r.s.handoff = s.handoff
      /\ r.out # <<>> /\ r.out[1] = Frame("changes", s, n, rows)
  BY SendIs
<1>2. SessionFits(r.s)
  BY FitsSent
<1> QED BY <1>1, <1>2

LEMMA AckSends ==
    ASSUME FeedInv, toHost' \in Seq(Controls), NoAckComes,
           UNCHANGED <<db, commits, ext, mail, used, pollVars, gen, ready, view, conn, page, budget>>,
           rec' = "none",
           NEW c \in Sessions, c = conn, Current(c), sess[c].phase = "open", sess[c].read = "none",
           CaughtUp(page, toPanel, c, sess[c].next - 1),
           NEW b \in Batches, LastPrecedes(page, toPanel, c, sess[c].next - 1, b),
           Between(b, Shown, Before, Future),
           NEW t \in SessionStates, sess' = [sess EXCEPT ![c] = t], SessionFits(t),
           t.gen = sess[c].gen, t.phase = "open", t.next = sess[c].next + 1,
           t.inflight = sess[c].next, t.read = "none",
           ContentFits(t, Shown \cup {b.rows}, Before, Future),
           \A k \in DOMAIN t.queue : b.commit < t.queue[k].commit,
           NEW f \in WireFrames, f.seq = sess[c].next, f.commit = b.commit,
           f.rows = b.rows, f.sess = c,
           post' = [frame |-> f, resends |-> 0], toPanel' = Append(toPanel, f)
    PROVE  FeedInv'
<1>0. Types /\ PollsFit /\ CreditFits /\ GenerationsFit /\ MailFits /\ FlightFits
  BY DEF FeedInv
<1>1. sess[c].next \in Nat \ {0} /\ f.seq \in Nat
  BY SessionIs, SessionFields
<1>12. post' \in Posts /\ post'.frame = f /\ post'.resends = 0
  BY FirstPost
<1>13. /\ sess' \in [Sessions -> SessionStates] /\ sess'[c] = t
       /\ \A j \in Sessions : j # c => sess'[j] = sess[j]
  BY <1>0, OneChanges
<1>14. toPanel' \in Seq(WireFrames)
  BY <1>0, AppendIs DEF Types
<1>16. Types'
  BY <1>0, <1>12, <1>13, <1>14 DEF Types, pollVars
<1>17. PollsFit'
  BY <1>0 DEF PollsFit, pollVars
<1>18. CreditFits'
  <2>1. \A j \in Sessions : sess'[j].read = "failed" => j \in Failing
    BY <1>13 DEF Failing, FailingOf
  <2>2. Failing' \subseteq Failing
    BY <1>0, <2>1, NoMoreFail, ShortenedItself
  <2>3. Paid' <= Paid
    BY <1>0 DEF Paid, Bit, Types
  <2> QED BY <1>0, <1>16, <2>2, <2>3, CreditKept
<1>19. Onward /\ MailFits' /\ Before' = Before /\ Future' = Future
  <2>1. \A k \in DOMAIN mail : mail[k].kind = "answer" =>
            mail[k].to \in Sessions /\ sess[mail[k].to].read = "served"
    BY <1>0, Basics, MsgFields DEF MailFits
  <2>2. \A k \in DOMAIN mail' : mail'[k].kind = "answer" => sess'[mail'[k].to].read = "served"
    BY <1>13, <2>1
  <2> QED BY <1>0, <2>2, MailKept, OnwardItself, ShortenedItself DEF Before, Future
<1>20. Current(c)' /\ conn' = c
  BY <1>13 DEF Current, Live
<1>21. GenerationsFit'
  <2>1. Stays(sess[c], t)
    BY DEF Stays, Live, Unused
  <2>2. \A j \in Sessions : Stays(sess[j], sess'[j])
    BY <1>13, <2>1, StaysItself
  <2> QED BY <1>0, <2>2, GenerationsKept
<1>22. Numbering
  <2>1. \A j \in Sessions : sess[j].next \in Nat
    BY <1>0, Basics, SessionFields
  <2>2. used \in Nat
    BY <1>0 DEF Types
  <2> QED BY <1>1, <1>13, <2>1, <2>2 DEF Numbering
<1>23. Between(f, Shown, Before', Future') /\ InTurn(f, c)
  BY <1>19 DEF Between, InTurn, LastPrecedes
<1>26. \A j \in Sessions \ {c} : SessionFits(sess'[j]) /\ ContentFits(sess'[j], {}, Before', Future')
  <2>1. ASSUME NEW j \in Sessions, j # c
        PROVE  SessionFits(sess[j]) /\ ContentFits(sess[j], {}, Before, Future)
    BY SessionIs, ContentUnseen
  <2> QED BY <1>13, <1>19, <2>1
<1>27. MaxResends \in Nat
  BY BoundsAssumption
<1>28. /\ post'.frame.rows = f.rows /\ post'.frame.commit = f.commit /\ post'.frame.sess = c
       /\ post'.frame.seq = f.seq /\ post'.resends <= MaxResends
  BY <1>12, <1>27
<1>29. /\ sess'[c].phase = "open" /\ sess'[c].inflight = sess'[c].next - 1
       /\ f.seq = sess'[c].next - 1 /\ SessionFits(sess'[c])
       /\ ContentFits(sess'[c], Shown \cup {f.rows}, Before', Future')
       /\ f.seq >= 1 /\ sess[c].next - 1 <= f.seq
  BY <1>1, <1>13, <1>19
<1>30. \A k \in DOMAIN sess'[c].queue : /\ f.commit < sess'[c].queue[k].commit
                                        /\ f.seq = sess[c].next
  BY <1>13
<1> QED BY <1>16, <1>17, <1>18, <1>19, <1>20, <1>21, <1>22, <1>23, <1>26, <1>28, <1>29, <1>30, Sent

LEMMA TakeAckKeeps ==
    ASSUME FeedInv, TakeAck
    PROVE  FeedInv'
<1>1. /\ toHost # <<>> /\ Acks(Head(toHost)) /\ toHost' = Tail(toHost) /\ rec' = "none"
      /\ UNCHANGED <<db, commits, ext, mail, used, pollVars, gen, ready, view, conn, page, budget>>
  BY DEF TakeAck, dbVars
<1>2. /\ conn \in Sessions /\ sess[conn].read = "none" /\ sess[conn].inflight # 0
  BY <1>1, AckedIs
<1>3. PICK s : s = sess[conn]
  OBVIOUS
<1>4. s \in SessionStates /\ SessionFits(s) /\ s.read = "none"
  BY <1>2, <1>3, SessionIs
<1>5. PICK free : free = [s EXCEPT !.inflight = 0]
  OBVIOUS
<1>6. /\ free \in SessionStates /\ free.gen = s.gen /\ free.phase = s.phase /\ free.next = s.next
      /\ free.inflight = 0 /\ free.queue = s.queue /\ free.required = s.required
      /\ free.read = s.read /\ free.handoff = s.handoff
  BY <1>4, <1>5 DEF SessionStates
<1>7. \A x : Kept(x).s = x
  BY DEF Kept
<1>8. PICK b : b = Head(free.queue)
  OBVIOUS
<1>9. CASE free.required
  <2>1. PICK t : t = BeginRefresh(free)
    OBVIOUS
  <2>2. sess' = [sess EXCEPT ![conn] = t] /\ post' = None /\ toPanel' = toPanel
    BY <1>3, <1>5, <1>7, <1>9, <2>1 DEF TakeAck
  <2>3. <<>> \in Seq(CommitMsgs)
    OBVIOUS
  <2>4. t \in SessionStates
    BY <1>6, <2>1, <2>3 DEF SessionStates, BeginRefresh
  <2>5. /\ t.gen = s.gen /\ t.phase = s.phase /\ t.next = s.next /\ t.inflight = 0
        /\ t.queue = s.queue /\ t.read = "asked" /\ t.handoff = <<>>
    BY <1>6, <2>1 DEF SessionStates, BeginRefresh
  <2>6. s.queue = <<>>
    BY <1>4, <1>6, <1>9 DEF SessionFits, QueueFits
  <2> QED BY <1>1, <1>3, <2>2, <2>4, <2>5, <2>6, AckEnds
<1>10. CASE ~free.required /\ free.queue # <<>>
  <2>0. PICK q : q = Tail(free.queue)
    OBVIOUS
  <2>1. PICK u : u = [free EXCEPT !.queue = q]
    OBVIOUS
  <2>2. PICK r : r = Send("changes", u, b.commit, b.rows)
    OBVIOUS
  <2>3. ~free.required /\ free.read = "none" /\ free.queue # <<>>
    BY <1>4, <1>6, <1>10
  <2>4. sess' = [sess EXCEPT ![conn] = r.s] /\ Post(OutOf(conn, r.out))
    BY <1>3, <1>5, <1>8, <2>0, <2>1, <2>2, <2>3 DEF TakeAck
  <2>5. /\ u \in SessionStates /\ r.s \in SessionStates /\ SessionFits(r.s)
        /\ r.s.gen = s.gen /\ r.s.phase = "open" /\ r.s.next = s.next + 1
        /\ r.s.inflight = s.next /\ r.s.read = "none" /\ r.s.handoff = free.handoff
        /\ r.s.queue = q /\ u.next = s.next
        /\ r.out # <<>> /\ r.out[1] = Frame("changes", u, b.commit, b.rows)
    <3>1. QueueFits(free) /\ free.phase = "open"
      BY <1>1, <1>3, <1>4, <1>6, AckedIs DEF SessionFits, QueueFits
    <3>2. /\ q \in Seq(Batches) /\ Len(q) <= MaxQueued /\ ~free.required
          /\ \A k \in DOMAIN q : /\ DOMAIN q[k].rows # {}
                                 /\ Cardinality(DOMAIN q[k].rows) <= MaxBatchRows
      BY <1>6, <2>0, <2>3, <3>1, TailFits
    <3>3. /\ u \in SessionStates /\ u.gen = free.gen /\ u.phase = free.phase
          /\ u.next = free.next /\ u.queue = q /\ u.read = free.read /\ u.handoff = free.handoff
          /\ QueueFits(u)
      <4>1. free \in SessionStates /\ q \in Seq(Batches)
        BY <1>6, <3>2
      <4>2. /\ u \in SessionStates /\ u.gen = free.gen /\ u.phase = free.phase
            /\ u.next = free.next /\ u.queue = q /\ u.read = free.read
            /\ u.handoff = free.handoff /\ u.required = free.required
        BY <2>1, <4>1 DEF SessionStates
      <4>3. QueueFits(u)
        BY <3>2, <4>2 DEF QueueFits
      <4> QED BY <4>2, <4>3
    <3>4. u.phase = "open" /\ u.read = "none"
      BY <2>3, <3>1, <3>3
    <3>5. /\ r.s \in SessionStates /\ SessionFits(r.s)
          /\ r.s.gen = u.gen /\ r.s.phase = "open" /\ r.s.next = u.next + 1
          /\ r.s.inflight = u.next /\ r.s.read = "none" /\ r.s.handoff = u.handoff
          /\ r.s.queue = u.queue
          /\ r.out # <<>> /\ r.out[1] = Frame("changes", u, b.commit, b.rows)
      BY <2>2, <3>3, <3>4, ChangesLeave
    <3> QED BY <1>6, <3>3, <3>5
  <2>6. PICK c \in Sessions : c = conn
    BY <1>2
  <2>7. /\ Current(c) /\ s.phase = "open" /\ view = "shown"
        /\ CaughtUp(page, toPanel, c, s.next - 1)
    BY <1>1, <1>3, <2>6, AckedIs
  <2>8. ContentFits(free, Shown, Before, Future)
    <3>1. ContentFits(s, Shown, Before, Future)
      BY <1>3, <2>6, <2>7, SessionIs DEF ShownTo
    <3> QED BY <1>4, <1>6, <3>1 DEF ContentFits
  <2>9. /\ b \in Batches /\ Between(b, Shown, Before, Future) /\ 1 \in DOMAIN s.queue
        /\ b = s.queue[1] /\ ContentFits(r.s, Shown \cup {b.rows}, Before, Future)
        /\ \A k \in DOMAIN r.s.queue : b.commit < r.s.queue[k].commit
    BY <1>6, <1>8, <2>0, <2>3, <2>5, <2>8, NextBatch
  <2>10. LastPrecedes(page, toPanel, c, s.next - 1, b)
    <3>1. Flies(page, toPanel, c, s)
      BY <1>3, <2>6, <2>7 DEF FeedInv, FlightFits
    <3> QED BY <2>9, <3>1 DEF Flies
  <2>11. PICK f : f = OnWire(r.out[1], c)
    OBVIOUS
  <2>12. f \in WireFrames /\ f.seq = s.next /\ f.commit = b.commit /\ f.rows = b.rows /\ f.sess = c
    <3>1. gen \in Nat /\ c \in Nat /\ b.commit \in Nat /\ b.rows \in RowMaps
      BY <2>9, SessionsAre, BatchFields DEF FeedInv, Types
    <3> QED BY <2>5, <2>11, <3>1, WireIs
  <2>13. post' = [frame |-> f, resends |-> 0] /\ toPanel' = Append(toPanel, f)
    <3>1. OutOf(c, r.out)[c] = r.out /\ \A j \in Sessions : j # c => OutOf(c, r.out)[j] = <<>>
      BY DEF OutOf
    <3>2. sess[c].gen = gen /\ view # "gone" /\ Post(OutOf(c, r.out))
      BY <2>4, <2>6, <2>7 DEF Current
    <3> QED BY <2>5, <2>11, <3>1, <3>2, PostIs
  <2>14. toHost' \in Seq(Controls) /\ NoAckComes
    BY <1>1, TailIs DEF FeedInv, Types, NoAckComes, Shortened
  <2>15. sess' = [sess EXCEPT ![c] = r.s] /\ sess[c] = s
    BY <1>3, <2>4, <2>6
  <2> QED BY <1>1, <1>4, <2>5, <2>6, <2>7, <2>9, <2>10, <2>12, <2>13, <2>14, <2>15, AckSends
<1>11. CASE ~free.required /\ free.queue = <<>>
  <2>1. sess' = [sess EXCEPT ![conn] = free] /\ post' = None /\ toPanel' = toPanel
    BY <1>3, <1>5, <1>7, <1>11 DEF TakeAck
  <2> QED BY <1>1, <1>3, <1>4, <1>6, <1>11, <2>1, AckEnds
<1> QED BY <1>9, <1>10, <1>11

\* What may be sent again is not older than anything the panel has been sent.
LEMMA CopyIs ==
    ASSUME FeedInv, post # None
    PROVE  /\ post \in Posts /\ Between(post.frame, Shown, Before, Future)
           /\ post.frame.rows \in Shown
<1>1. post \in Posts /\ WireFits
  BY DEF FeedInv, Types
<1>2. post.frame \in WireFrames
  BY <1>1 DEF Posts
<1>3. Over(post.frame.rows, post.frame.rows)
  BY <1>2, FrameFields, RowMapIs DEF Over
<1>4. Between(post.frame, {page.rows}, Before, Future)
      /\ \A k \in DOMAIN toPanel : Over(toPanel[k].rows, post.frame.rows)
  BY <1>1 DEF WireFits
<1>5. \A y \in Shown : Over(y, post.frame.rows)
  BY <1>3, <1>4 DEF Shown, ShownOf, Between
<1> QED BY <1>1, <1>4, <1>5 DEF Between, Shown, ShownOf

LEMMA ResendKeeps ==
    ASSUME FeedInv, Resend, budget' \in Nat, budget' <= budget
    PROVE  FeedInv'
<1>0. Types /\ PollsFit /\ CreditFits /\ GenerationsFit /\ MailFits /\ FlightFits
  BY DEF FeedInv
<1>1. /\ UNCHANGED <<db, commits, ext, mail, view, page, toHost>> /\ post # None /\ view = "shown"
  BY DEF Resend, dbVars
<1>2. budget \in Nat /\ used \in Nat
  BY <1>0 DEF Types
<1>3. CASE post.resends >= MaxResends
  <2>1. ready' = FALSE /\ Pause /\ toPanel' = toPanel
    BY <1>3 DEF Resend
  <2>2. used' = used /\ rec' = "none"
    BY <2>1 DEF Pause
  <2>3. Paid' <= Paid
    <3>1. Bit(page.loading) \in Nat /\ Bit(view = "hidden") \in Nat /\ Bit(rec # "none") \in Nat
          /\ Bit(rec' # "none") = 0
      BY <2>2 DEF Bit
    <3>2. Bit(page'.loading) = Bit(page.loading) /\ Bit(view' = "hidden") = Bit(view = "hidden")
      BY <1>1
    <3> HIDE DEF Bit
    <3> QED BY <1>2, <2>2, <3>1, <3>2 DEF Paid
  <2>4. ready' \in BOOLEAN /\ view' \in {"shown", "hidden", "gone"}
    BY <1>1, <2>1
  <2> QED BY <1>1, <2>1, <2>3, <2>4, PauseKeeps
<1>4. CASE ~(post.resends >= MaxResends)
  <2>1. /\ UNCHANGED <<sess, used, timer, known, cursor, init, poll, gen, ready, conn, rec>>
        /\ post' = [post EXCEPT !.resends = @ + 1]
        /\ toPanel' = Append(toPanel, [post.frame EXCEPT !.copy = TRUE])
    BY <1>4 DEF Resend, feedVars, pollVars
  <2>2. post \in Posts /\ Between(post.frame, Shown, Before, Future) /\ post.frame.rows \in Shown
    BY <1>1, CopyIs
  <2>3. PICK p \in Posts : p = post
    BY <2>2
  <2>4. p.frame \in WireFrames /\ p.resends \in Nat /\ MaxResends \in Nat
    BY BoundsAssumption DEF Posts
  <2>5. PICK f : f = [p.frame EXCEPT !.copy = TRUE]
    OBVIOUS
  <2>6. /\ f \in WireFrames /\ f.kind = p.frame.kind /\ f.seq = p.frame.seq /\ f.sess = p.frame.sess
        /\ f.commit = p.frame.commit /\ f.rows = p.frame.rows /\ f.copy
    BY <2>4, <2>5 DEF WireFrames
  <2>7. /\ post' \in Posts /\ post'.frame = p.frame /\ post'.resends = p.resends + 1
        /\ post'.resends <= MaxResends
    <3>1. post' = [p EXCEPT !.resends = p.resends + 1]
      BY <2>1, <2>3
    <3>2. p.resends + 1 \in Nat /\ p.resends + 1 <= MaxResends
      BY <1>4, <2>3, <2>4
    <3>3. post' \in Posts /\ post'.frame = p.frame /\ post'.resends = p.resends + 1
      BY <3>1, <3>2 DEF Posts
    <3> QED BY <3>2, <3>3
  <2>8. toPanel' = Append(toPanel, f) /\ toPanel' \in Seq(WireFrames)
    BY <1>0, <2>1, <2>3, <2>5, <2>6, AppendIs DEF Types
  <2>9. PICK c \in Sessions : c = conn
    BY <1>0, <1>1 DEF FlightFits, GenerationsFit
  <2>10. Current(c) /\ Resends(p, c, sess[c]) /\ Flies(page, toPanel, c, sess[c])
    BY <1>0, <1>1, <2>3, <2>9 DEF FlightFits
  <2>11. Types'
    BY <1>0, <1>1, <2>1, <2>7, <2>8 DEF Types
  <2>12. PollsFit'
    BY <1>0, <1>1, <1>2, <2>1, SessionsAre DEF PollsFit
  <2>13. CreditFits'
    <3>1. Failing' \subseteq Failing
      BY <1>1, <2>1 DEF Failing, FailingOf
    <3>2. Paid' <= Paid
      BY <1>1, <1>2, <2>1 DEF Paid, Bit
    <3> QED BY <1>0, <2>11, <3>1, <3>2, CreditKept
  <2>14. \A i \in Sessions : Current(i)' <=> Current(i)
    BY <2>1 DEF Current
  <2>15. GenerationsFit'
    BY <1>0, <1>1, <2>1, StaysItself, GenerationsKept
  <2>16. MailFits' /\ Onward /\ Before' = Before /\ Future' = Future
    BY <1>0, <1>1, <2>1, OnwardItself DEF MailFits, Before, Future
  <2>17. Numbering
    BY <1>2, <2>1, Basics, SessionFields DEF Numbering, FeedInv
  <2>18. Between(f, Shown, Before', Future') /\ InTurn(f, c) /\ f.rows \in Shown
    BY <2>2, <2>3, <2>6, <2>16 DEF Between, InTurn
  <2>19. SessionFits(sess[c]) /\ ContentFits(sess[c], Shown, Before, Future)
    BY <2>10, SessionIs DEF ShownTo
  <2>20. Shown \cup {f.rows} = Shown
    BY <2>18
  <2>21. /\ sess'[c].phase = "open" /\ sess'[c].inflight = sess'[c].next - 1
         /\ f.seq = sess'[c].next - 1 /\ SessionFits(sess'[c])
         /\ ContentFits(sess'[c], Shown \cup {f.rows}, Before', Future')
         /\ f.seq >= 1 /\ sess[c].next - 1 <= f.seq /\ f.sess = c
    <3>1. sess[c].next - 1 <= f.seq
      <4>1. f.seq = sess[c].next - 1 /\ f.seq \in Nat
        BY <2>6, <2>10, FrameFields DEF Resends
      <4> QED BY <4>1
    <3> QED BY <2>1, <2>6, <2>10, <2>16, <2>19, <2>20, <3>1 DEF Resends
  <2>22. \A k \in DOMAIN sess'[c].queue :
            /\ f.commit < sess'[c].queue[k].commit
            /\ LastPrecedes(page, toPanel, c, f.seq, sess'[c].queue[k])
    BY <2>1, <2>6, <2>10 DEF Resends, Flies
  <2>23. \A j \in Sessions \ {c} : SessionFits(sess'[j])
                                   /\ ContentFits(sess'[j], {}, Before', Future')
    <3>1. ASSUME NEW j \in Sessions
          PROVE  SessionFits(sess[j]) /\ ContentFits(sess[j], {}, Before, Future)
      BY SessionIs, ContentUnseen
    <3> QED BY <2>1, <2>16, <3>1
  <2>24. /\ post'.frame.rows = f.rows /\ post'.frame.commit = f.commit /\ post'.frame.sess = c
         /\ post'.frame.seq = f.seq
    BY <2>6, <2>7, <2>21
  <2>25. conn' = c /\ Current(c)' /\ page' = page /\ NoAckComes
    BY <1>1, <2>1, <2>9, <2>10, <2>14, ShortenedItself DEF NoAckComes
  <2> QED BY <2>6, <2>7, <2>8, <2>11, <2>12, <2>13, <2>15, <2>16, <2>17, <2>18, <2>21, <2>22,
             <2>23, <2>24, <2>25, Sent
<1> QED BY <1>3, <1>4

LEMMA AckTimesOutKeeps ==
    ASSUME FeedInv, AckTimesOut
    PROVE  FeedInv'
<1>1. Resend /\ budget' = budget /\ budget \in Nat
  BY DEF AckTimesOut, FeedInv, Types
<1> QED BY <1>1, ResendKeeps

LEMMA AckIsLateKeeps ==
    ASSUME FeedInv, AckIsLate
    PROVE  FeedInv'
<1>1. Resend /\ budget' = budget - 1 /\ budget > 0 /\ budget \in Nat
  BY DEF AckIsLate, Spend, FeedInv, Types
<1>2. budget' \in Nat /\ budget' <= budget
  BY <1>1
<1> QED BY <1>1, <1>2, ResendKeeps
---------------------------------------------------------------------------
(* A commit of this Host reaches the sessions *)

\* The session after a commit it has observed.
LEMMA ObservedFits ==
    ASSUME NEW s \in SessionStates, SessionFits(s), NEW c \in CommitMsgs,
           NEW r, r = Observe(s, c)
    PROVE  /\ r.s \in SessionStates /\ SessionFits(r.s) /\ Stays(s, r.s) /\ s.next <= r.s.next
           /\ r.s.read = "failed" => s.read = "failed"
           /\ s.read = "served" => r.s.read = "served"
           /\ s.phase = "open" => r.s.phase = "open"
<1>1. s.next \in Nat /\ s.handoff \in Seq(CommitMsgs)
  BY SessionFields
<1>2. CASE Grows(s, r.s) /\ (r.s = s \/ (s.phase = "open" /\ s.read = "none"))
  <2>1. CASE r.s = s
    BY <1>1, <2>1, StaysItself
  <2>2. CASE s.phase = "open" /\ s.read = "none"
    <3>1. SessionFits(r.s)
      BY <1>2, <2>2, FitsGrown
    <3> QED BY <1>1, <1>2, <2>2, <3>1 DEF Grows, Stays, Live, Unused
  <2> QED BY <1>2, <2>1, <2>2
<1>3. CASE /\ r.s = [s EXCEPT !.handoff = Append(@, c)]
           /\ s.phase = "opening" \/ s.read # "none"
  <2>1. PICK h \in Seq(CommitMsgs) : h = Append(s.handoff, c)
    BY <1>1, AppendIs
  <2>2. PICK t : t = [s EXCEPT !.handoff = h]
    OBVIOUS
  <2>3. r.s = t
    BY <1>3, <2>1, <2>2
  <2>4. /\ t \in SessionStates /\ t.gen = s.gen /\ t.phase = s.phase /\ t.next = s.next
        /\ t.inflight = s.inflight /\ t.queue = s.queue /\ t.required = s.required
        /\ t.read = s.read /\ t.answer = s.answer
    BY <2>2 DEF SessionStates
  <2>5. SessionFits(t)
    BY <2>4 DEF SessionFits, QueueFits
  <2>6. s # Unused
    BY <1>3 DEF Unused
  <2> QED BY <1>1, <2>3, <2>4, <2>5, <2>6 DEF Stays, Live
<1>4. CASE /\ r = Send("changes", s, c.commit, c.rows)
           /\ s.phase = "open" /\ s.read = "none"
  <2>1. QueueFits(s)
    BY DEF SessionFits
  <2>2. /\ r.s \in SessionStates /\ SessionFits(r.s)
        /\ r.s.gen = s.gen /\ r.s.phase = "open" /\ r.s.next = s.next + 1 /\ r.s.read = "none"
    BY <1>4, <2>1, ChangesLeave
  <2> QED BY <1>1, <1>4, <2>2 DEF Stays, Live, Unused
<1> QED BY <1>2, <1>3, <1>4, ObserveIs

\* What has been seen of the commits comes before one that has not.
LEMMA SeenBefore ==
    ASSUME NEW X, NEW c, c.rows \in Future, \A x \in Before : x < c.commit,
           NEW x, Between(x, X, Before, Future)
    PROVE  Precedes(x, c)
BY DEF Between, Precedes

LEMMA ObservedContent ==
    ASSUME FeedInv, Onward, NEW c \in CommitMsgs, c.rows \in Future,
           \A x \in Before : x < c.commit, Between(c, Shown, Before', Future'),
           NEW i \in Sessions, NEW s \in SessionStates, s = sess[i], NEW r, r = Observe(s, c)
    PROVE  \/ /\ r.out = <<>> /\ ContentFits(r.s, ShownTo(i), Before', Future')
              /\ Rides(s, r.s) /\ r.s.inflight = s.inflight
           \/ /\ r = Send("changes", s, c.commit, c.rows)
              /\ s.phase = "open" /\ s.inflight = 0 /\ s.read = "none" /\ r.out # <<>>
              /\ r.out[1] = Frame("changes", s, c.commit, c.rows)
              /\ r.s.next = s.next + 1 /\ r.s.inflight = s.next /\ r.s.queue = <<>>
              /\ \A X : ContentFits(r.s, X, Before', Future')
<1>1. SessionFits(s) /\ ContentFits(s, ShownTo(i), Before, Future)
  BY SessionIs
<1>2. ContentFits(s, ShownTo(i), Before', Future')
  <2>1. Moves(ShownTo(i), Before, Future, ShownTo(i), Before', Future')
    BY Basics DEF Onward, FeedInv
  <2> QED BY <1>1, <2>1, ContentKept
<1>3. Between(c, ShownTo(i), Before', Future') /\ Between(c, {}, Before', Future')
  BY DEF Between, ShownTo
<1>4. /\ \A k \in DOMAIN s.queue : Precedes(s.queue[k], c)
      /\ \A k \in DOMAIN s.handoff : Precedes(s.handoff[k], c)
      /\ s.read = "answered" => Over(s.answer.rows, c.rows)
  <2>1. \A k \in DOMAIN s.queue : Precedes(s.queue[k], c)
    BY <1>1, SeenBefore DEF ContentFits
  <2>2. \A k \in DOMAIN s.handoff : Precedes(s.handoff[k], c)
    BY <1>1, SeenBefore DEF ContentFits
  <2>3. s.read = "answered" => Over(s.answer.rows, c.rows)
    BY <1>1 DEF ContentFits, Between
  <2> QED BY <2>1, <2>2, <2>3
<1>5. CASE r.out = <<>> /\ Grows(s, r.s) /\ Grown(r.s.queue, s.queue, c)
  <2>1. ContentFits(r.s, ShownTo(i), Before', Future')
    BY <1>2, <1>3, <1>4, <1>5, ContentGrows
  <2>2. Rides(s, r.s) /\ r.s.inflight = s.inflight
    BY <1>5 DEF Grows, Grown, MadeOf, Rides
  <2> QED BY <1>5, <2>1, <2>2
<1>6. CASE r.out = <<>> /\ r.s = [s EXCEPT !.handoff = Append(@, c)]
  <2>1. s.handoff \in Seq(CommitMsgs)
    BY SessionFields
  <2>2. PICK h : h = Append(s.handoff, c)
    OBVIOUS
  <2>3. /\ DOMAIN h = 1..Len(s.handoff) + 1 /\ DOMAIN s.handoff = 1..Len(s.handoff)
        /\ Len(s.handoff) \in Nat /\ h \in Seq(CommitMsgs)
        /\ \A k \in 1..Len(s.handoff) : h[k] = s.handoff[k]
        /\ h[Len(s.handoff) + 1] = c
    BY <2>1, <2>2, AppendIs
  <2>4. \A k \in DOMAIN h : (k \in DOMAIN s.handoff /\ h[k] = s.handoff[k])
                            \/ (k = Len(s.handoff) + 1 /\ h[k] = c)
    BY <2>3
  <2>5. \A j, k \in DOMAIN h : j < k => j \in DOMAIN s.handoff /\ h[j] = s.handoff[j]
    BY <2>3
  <2>6. PICK t : t = [s EXCEPT !.handoff = h]
    OBVIOUS
  <2>7. r.s = t
    BY <1>6, <2>2, <2>6
  <2>8. /\ t.next = s.next /\ t.inflight = s.inflight /\ t.queue = s.queue
        /\ t.read = s.read /\ t.answer = s.answer /\ t.handoff = h
    BY <2>6 DEF SessionStates
  <2>9. \A k \in DOMAIN h : Between(h[k], {}, Before', Future')
    BY <1>2, <1>3, <2>4 DEF ContentFits
  <2>10. Ordered(h)
    <3>1. ASSUME NEW j \in DOMAIN h, NEW k \in DOMAIN h, j < k
          PROVE  Precedes(h[j], h[k])
      <4>1. j \in DOMAIN s.handoff /\ h[j] = s.handoff[j]
        BY <2>5, <3>1
      <4>2. CASE h[k] = c
        BY <1>4, <4>1, <4>2
      <4>3. CASE k \in DOMAIN s.handoff /\ h[k] = s.handoff[k]
        BY <1>2, <3>1, <4>1, <4>3 DEF ContentFits, Ordered
      <4> QED BY <2>4, <4>2, <4>3
    <3> QED BY <3>1 DEF Ordered
  <2>11. s.read = "answered" => \A k \in DOMAIN h : Handed(t, h[k]) => Over(s.answer.rows, h[k].rows)
    BY <1>2, <1>4, <2>4, <2>8 DEF ContentFits, Handed
  <2>12. ContentFits(t, ShownTo(i), Before', Future')
    BY <1>2, <2>8, <2>9, <2>10, <2>11 DEF ContentFits
  <2>13. Rides(s, t)
    BY <2>8 DEF Rides
  <2> QED BY <1>6, <2>7, <2>8, <2>12, <2>13
<1>7. CASE /\ r = Send("changes", s, c.commit, c.rows)
           /\ s.phase = "open" /\ s.inflight = 0 /\ s.queue = <<>> /\ s.read = "none"
  <2>1. QueueFits(s)
    BY <1>1 DEF SessionFits
  <2>2. /\ r.s.next = s.next + 1 /\ r.s.inflight = s.next /\ r.s.read = "none"
        /\ r.s.handoff = s.handoff /\ r.s.queue = s.queue /\ r.out # <<>>
        /\ r.out[1] = Frame("changes", s, c.commit, c.rows)
    BY <1>7, <2>1, ChangesLeave
  <2>3. \A X : ContentFits(r.s, X, Before', Future')
    BY <1>2, <1>7, <2>2, ContentOfIdle
  <2> QED BY <1>7, <2>2, <2>3
<1> QED BY <1>1, <1>5, <1>6, <1>7, ObserveIs

\* A commit taken by the thread comes after all it has seen, and before all that is to come.
LEMMA CommitTaken ==
    ASSUME FeedInv, mail # <<>>, mail' = Tail(mail), UNCHANGED <<db, commits>>,
           NEW c, c = Head(mail), c.kind = "commit", Onward
    PROVE  /\ c \in CommitMsgs /\ c.rows \in Future /\ \A x \in Before : x < c.commit
           /\ Between(c, Shown, Before', Future')
<1>1. /\ c \in Msgs /\ c.rows \in Future /\ \A x \in Before : x < c.commit
      /\ c.commit \in BeforeOf(commits, Tail(mail)) /\ \A z \in Future : Over(c.rows, z)
  BY HeadIs
<1>2. c \in CommitMsgs
  BY <1>1 DEF Msgs, AnswerMsgs
<1>3. c.commit \in Before'
  BY <1>1 DEF Before
<1>4. \A y \in Shown : Over(y, c.rows)
  BY <1>1, ShownIsOlder
<1>5. Future' \subseteq Future
  <2>1. mail \in Seq(Msgs)
    BY DEF FeedInv, Types
  <2>2. \A k \in DOMAIN mail' : \E j \in DOMAIN mail : mail'[k] = mail[j]
    BY <2>1, SameOrTail DEF Shortened
  <2> QED BY <2>2 DEF Future, FutureOf
<1> QED BY <1>1, <1>2, <1>3, <1>4, <1>5 DEF Between

\* A session that sends the commit it observes, as its own and as the client's.
LEMMA CommitSent ==
    ASSUME FeedInv, Types', PollsFit', CreditFits', GenerationsFit', MailFits', Onward, Numbering,
           UNCHANGED <<gen, conn, page, toHost>>,
           NEW c \in CommitMsgs, \A x \in Before : x < c.commit,
           Between(c, Shown, Before', Future'),
           NEW d \in Sessions, d = conn, Current(d), sess[d].inflight = 0,
           NEW t \in SessionStates, sess'[d] = t, SessionFits(t), t.gen = sess[d].gen,
           t.phase = "open", t.next = sess[d].next + 1, t.inflight = sess[d].next,
           t.queue = <<>>, \A X : ContentFits(t, X, Before', Future'),
           \A j \in Sessions \ {d} : SessionFits(sess'[j])
                                     /\ ContentFits(sess'[j], {}, Before', Future'),
           NEW f, f = OnWire(Frame("changes", sess[d], c.commit, c.rows), d),
           post' = [frame |-> f, resends |-> 0], toPanel' = Append(toPanel, f)
    PROVE  FeedInv'
<1>1. sess[d] \in SessionStates /\ sess[d].next \in Nat \ {0} /\ gen \in Nat /\ d \in Nat
  BY SessionIs, SessionFields, SessionsAre DEF FeedInv, Types
<1>2. /\ f \in WireFrames /\ f.seq = sess[d].next /\ f.commit = c.commit /\ f.rows = c.rows
      /\ f.sess = d
  <2>1. PICK s \in SessionStates : s = sess[d]
    BY <1>1
  <2>2. f = OnWire(Frame("changes", s, c.commit, c.rows), d)
    BY <2>1
  <2>3. c.commit \in Nat /\ c.rows \in RowMaps
    BY CommitFields
  <2> QED BY <1>1, <2>1, <2>2, <2>3, WireIs
<1>3. MaxResends \in Nat
  BY BoundsAssumption
<1>4. post'.frame = f /\ post'.resends <= MaxResends
  BY <1>2, <1>3, FirstPost
<1>5. Between(f, Shown, Before', Future')
  BY <1>2 DEF Between
<1>6. InTurn(f, d)
  <2>1. CaughtUp(page, toPanel, d, sess[d].next - 1)
    BY DEF FeedInv, FlightFits, Flies
  <2>2. page.commit < f.commit /\ \A k \in DOMAIN toPanel : toPanel[k].commit < f.commit
    BY <1>2 DEF FeedInv, WireFits, Between
  <2> QED BY <1>2, <2>1, <2>2 DEF InTurn, LastPrecedes
<1>7. Current(d)' /\ conn' = d /\ NoAckComes
  BY ShortenedItself DEF Current, Live, NoAckComes
<1>8. /\ sess'[d].phase = "open" /\ sess'[d].inflight = sess'[d].next - 1
      /\ f.seq = sess'[d].next - 1 /\ SessionFits(sess'[d])
      /\ ContentFits(sess'[d], Shown \cup {f.rows}, Before', Future')
      /\ f.seq >= 1 /\ sess[d].next - 1 <= f.seq
  BY <1>1, <1>2
<1>9. \A k \in DOMAIN sess'[d].queue :
         /\ f.commit < sess'[d].queue[k].commit
         /\ f.seq = sess[d].next \/ LastPrecedes(page, toPanel, d, f.seq, sess'[d].queue[k])
  OBVIOUS
<1>10. /\ post'.frame.rows = f.rows /\ post'.frame.commit = f.commit /\ post'.frame.sess = d
       /\ post'.frame.seq = f.seq
  BY <1>2, <1>4
<1> QED BY <1>2, <1>4, <1>5, <1>6, <1>7, <1>8, <1>9, <1>10, Sent

LEMMA TakeCommitKeeps ==
    ASSUME FeedInv, TakeCommit
    PROVE  FeedInv'
<1>0. Types /\ PollsFit /\ CreditFits /\ GenerationsFit /\ FlightFits
  BY DEF FeedInv
<1>1. /\ mail # <<>> /\ mail' = Tail(mail)
      /\ UNCHANGED <<db, commits, ext, used, timer, known, cursor, init, poll, gen, ready, view,
                     conn, rec, page, toHost, budget>>
  BY DEF TakeCommit, dbVars, pollVars
<1>2. PICK c : c = Head(mail)
  OBVIOUS
<1>3. c.kind = "commit"
  BY <1>2 DEF TakeCommit
<1>4. PICK took : took = [i \in Sessions |-> Observe(sess[i], c)]
  OBVIOUS
<1>5. PICK outs : outs = [i \in Sessions |-> took[i].out]
  OBVIOUS
<1>6. sess' = [i \in Sessions |-> took[i].s] /\ Post(outs)
  BY <1>2, <1>4, <1>5 DEF TakeCommit
<1>7. \A i \in Sessions : /\ took[i] = Observe(sess[i], c)
                          /\ sess'[i] = took[i].s /\ outs[i] = took[i].out
  BY <1>4, <1>5, <1>6
<1>8. c \in CommitMsgs
  BY <1>1, <1>2, <1>3, HeadIs DEF Msgs, AnswerMsgs
<1>9. ASSUME NEW i \in Sessions
      PROVE  /\ sess'[i] \in SessionStates /\ SessionFits(sess'[i]) /\ Stays(sess[i], sess'[i])
             /\ sess[i].next <= sess'[i].next
             /\ sess'[i].read = "failed" => sess[i].read = "failed"
             /\ sess[i].read = "served" => sess'[i].read = "served"
             /\ sess[i].phase = "open" => sess'[i].phase = "open"
  <2>1. PICK s \in SessionStates : s = sess[i] /\ SessionFits(s)
    BY SessionIs
  <2>2. PICK r : r = Observe(s, c)
    OBVIOUS
  <2>3. /\ r.s \in SessionStates /\ SessionFits(r.s) /\ Stays(s, r.s) /\ s.next <= r.s.next
        /\ r.s.read = "failed" => s.read = "failed"
        /\ s.read = "served" => r.s.read = "served"
        /\ s.phase = "open" => r.s.phase = "open"
    BY <1>8, <2>1, <2>2, ObservedFits
  <2>4. sess'[i] = r.s
    BY <1>7, <2>1, <2>2
  <2> QED BY <2>1, <2>3, <2>4
<1>10. MailFits' /\ Onward /\ mail' \in Seq(Msgs) /\ Shortened(mail, mail')
  BY <1>1, <1>9, TakenIs
<1>11. /\ c.rows \in Future /\ \A x \in Before : x < c.commit
       /\ Between(c, Shown, Before', Future')
  BY <1>1, <1>2, <1>3, <1>10, CommitTaken
<1>12. ASSUME NEW i \in Sessions
       PROVE  \/ /\ outs[i] = <<>> /\ ContentFits(sess'[i], ShownTo(i), Before', Future')
                 /\ Rides(sess[i], sess'[i]) /\ sess'[i].inflight = sess[i].inflight
              \/ /\ outs[i] # <<>> /\ outs[i][1] = Frame("changes", sess[i], c.commit, c.rows)
                 /\ sess[i].phase = "open" /\ sess[i].inflight = 0
                 /\ sess'[i].next = sess[i].next + 1 /\ sess'[i].inflight = sess[i].next
                 /\ sess'[i].queue = <<>>
                 /\ \A X : ContentFits(sess'[i], X, Before', Future')
  <2>1. PICK s \in SessionStates : s = sess[i]
    BY SessionIs
  <2>2. PICK r : r = Observe(s, c)
    OBVIOUS
  <2>3. sess'[i] = r.s /\ outs[i] = r.out
    BY <1>7, <2>1, <2>2
  <2>4. \/ /\ r.out = <<>> /\ ContentFits(r.s, ShownTo(i), Before', Future')
           /\ Rides(s, r.s) /\ r.s.inflight = s.inflight
        \/ /\ r = Send("changes", s, c.commit, c.rows)
           /\ s.phase = "open" /\ s.inflight = 0 /\ s.read = "none" /\ r.out # <<>>
           /\ r.out[1] = Frame("changes", s, c.commit, c.rows)
           /\ r.s.next = s.next + 1 /\ r.s.inflight = s.next /\ r.s.queue = <<>>
           /\ \A X : ContentFits(r.s, X, Before', Future')
    BY <1>8, <1>10, <1>11, <2>1, <2>2, ObservedContent
  <2> QED BY <2>1, <2>3, <2>4
<1>13. sess' \in [Sessions -> SessionStates]
  BY <1>6, <1>9
<1>14. PollsFit'
  BY <1>0, <1>1 DEF PollsFit
<1>15. GenerationsFit'
  BY <1>0, <1>1, <1>9, GenerationsKept
<1>16. Numbering
  BY <1>0, <1>1, <1>9 DEF Numbering, Types
<1>17. ASSUME Types'
       PROVE  CreditFits'
  <2>1. Failing' \subseteq Failing
    <3>1. \A i \in Sessions : sess'[i].read = "failed" => i \in Failing
      BY <1>9 DEF Failing, FailingOf
    <3> QED BY <1>0, <1>10, <3>1, NoMoreFail
  <2>2. Paid' <= Paid
    BY <1>0, <1>1 DEF Paid, Bit, Types
  <2> QED BY <1>0, <1>17, <2>1, <2>2, CreditKept
<1>18. \A i \in Sessions : Current(i)' => Current(i)
  BY <1>1, <1>9 DEF Stays, Current
<1> DEFINE Posts1(i) == outs[i] # <<>> /\ sess[i].gen = gen /\ view # "gone"
<1>19. \A i \in Sessions : Posts1(i) => i = conn /\ Current(i)
  BY <1>0, <1>12 DEF GenerationsFit, Current, Live
<1>20. CASE \E i \in Sessions : Posts1(i)
  <2>1. PICK d \in Sessions : Posts1(d)
    BY <1>20
  <2>2. d = conn /\ Current(d)
    BY <1>19, <2>1
  <2>3. \A i \in Sessions : i # d => ~(outs[i] # <<>> /\ sess[i].gen = gen /\ view # "gone")
    BY <1>19, <2>2
  <2>4. PICK f : f = OnWire(outs[d][1], d)
    OBVIOUS
  <2>5. post' = [frame |-> f, resends |-> 0] /\ toPanel' = Append(toPanel, f)
    BY <1>6, <2>1, <2>3, <2>4, PostIs
  <2>6. /\ outs[d][1] = Frame("changes", sess[d], c.commit, c.rows)
        /\ sess[d].phase = "open" /\ sess[d].inflight = 0
        /\ sess'[d].next = sess[d].next + 1 /\ sess'[d].inflight = sess[d].next
        /\ sess'[d].queue = <<>> /\ \A X : ContentFits(sess'[d], X, Before', Future')
    BY <1>12, <2>1
  <2>7. f \in WireFrames
    <3>1. gen \in Nat /\ d \in Nat /\ c.commit \in Nat /\ c.rows \in RowMaps
      BY <1>0, <1>8, SessionsAre, CommitFields DEF Types
    <3>2. PICK s \in SessionStates : s = sess[d]
      BY SessionIs
    <3>3. f = OnWire(Frame("changes", s, c.commit, c.rows), d)
      BY <2>4, <2>6, <3>2
    <3> QED BY <3>1, <3>3, WireIs
  <2>8. post' \in Posts /\ toPanel' \in Seq(WireFrames)
    BY <1>0, <2>5, <2>7, FirstPost, AppendIs DEF Types
  <2>9. Types'
    BY <1>0, <1>1, <1>10, <1>13, <2>8 DEF Types
  <2>10. PICK t \in SessionStates : t = sess'[d]
    BY <1>9
  <2>11. SessionFits(t) /\ t.gen = sess[d].gen /\ t.phase = "open"
    BY <1>9, <2>6, <2>10 DEF Stays
  <2>12. \A j \in Sessions \ {d} : SessionFits(sess'[j])
                                   /\ ContentFits(sess'[j], {}, Before', Future')
    BY <1>9, <1>12, ContentUnseen
  <2>13. f = OnWire(Frame("changes", sess[d], c.commit, c.rows), d)
    BY <2>4, <2>6
  <2>14. CreditFits'
    BY <1>17, <2>9
  <2>15. UNCHANGED <<gen, conn, page, toHost>>
    BY <1>1
  <2>16. /\ t = sess'[d] /\ t.next = sess[d].next + 1 /\ t.inflight = sess[d].next
         /\ t.queue = <<>> /\ \A X : ContentFits(t, X, Before', Future')
    BY <2>6, <2>10
  <2> HIDE DEF Posts1
  <2> QED BY <1>8, <1>10, <1>11, <1>14, <1>15, <1>16, <2>2, <2>5, <2>6, <2>9, <2>11, <2>12, <2>13,
             <2>14, <2>15, <2>16, CommitSent
<1>21. CASE ~\E i \in Sessions : Posts1(i)
  <2>1. post' = post /\ toPanel' = toPanel
    <3>1. 1 \in Sessions
      BY SessionsAre DEF Sessions
    <3> QED BY <1>6, <1>21, <3>1, PostIs
  <2>2. Types'
    BY <1>0, <1>1, <1>10, <1>13, <2>1 DEF Types
  <2>3. ASSUME NEW i \in Sessions
        PROVE  Settles(i)
    <3>1. SessionFits(sess'[i]) /\ (Current(i)' => Current(i))
      BY <1>9, <1>18
    <3>2. CASE outs[i] = <<>>
      BY <1>12, <3>1, <3>2 DEF Settles
    <3>3. CASE outs[i] # <<>>
      <4>1. ContentFits(sess'[i], ShownTo(i), Before', Future') /\ sess[i].phase = "open"
        BY <1>12, <3>3
      <4>2. ~Current(i)
        BY <1>0, <1>21, <3>3, <4>1 DEF GenerationsFit, Current
      <4> QED BY <3>1, <4>1, <4>2 DEF Settles
    <3> QED BY <3>2, <3>3
  <2>4. PostStays
    <3>1. ASSUME post' # None
          PROVE  /\ conn' = conn /\ Current(conn)' /\ sess'[conn].phase = "open"
                 /\ Rides(sess[conn], sess'[conn]) /\ sess'[conn].inflight = sess[conn].inflight
      <4>1. /\ conn # 0 /\ Current(conn) /\ sess[conn].phase = "open" /\ sess[conn].inflight >= 1
        BY <1>0, <2>1, <3>1 DEF FlightFits, Resends
      <4>2. conn \in Sessions
        BY <1>0, <4>1 DEF GenerationsFit
      <4>3. sess[conn].inflight # 0
        BY <4>1
      <4>4. Rides(sess[conn], sess'[conn]) /\ sess'[conn].inflight = sess[conn].inflight
        BY <1>12, <4>2, <4>3
      <4>5. sess'[conn].phase = "open" /\ sess'[conn].gen = sess[conn].gen
        BY <1>9, <4>1, <4>2 DEF Stays
      <4> QED BY <1>1, <4>1, <4>4, <4>5 DEF Current, Live
    <3> QED BY <2>1, <3>1 DEF PostStays
  <2>5. CreditFits'
    BY <1>17, <2>2
  <2>6. SamePage(page, page') /\ Shortened(toPanel, toPanel') /\ NoAckComes
    BY <1>1, <2>1, SamePageItself, ShortenedItself DEF NoAckComes
  <2> HIDE DEF Posts1
  <2> QED BY <1>10, <1>14, <1>15, <1>16, <2>2, <2>3, <2>4, <2>5, <2>6, Quiet
<1> QED BY <1>20, <1>21
---------------------------------------------------------------------------
(* The invariant *)

LEMMA FeedStarts == Init => FeedInv
<1> SUFFICES ASSUME Init PROVE FeedInv
  OBVIOUS
<1>0. MaxDisruptions \in Nat /\ MaxCommits \in Nat /\ MaxQueued \in Nat
  BY BoundsAssumption
<1>1. /\ db = [r \in Rows |-> 0] /\ commits = 0 /\ ext = <<>> /\ mail = <<>>
      /\ sess = [i \in Sessions |-> Unused] /\ used = 0
      /\ timer = FALSE /\ known = None /\ cursor = None /\ init = "none" /\ poll = "idle"
      /\ gen = 1 /\ ready = FALSE /\ view = "shown" /\ conn = 0 /\ rec = "none" /\ post = None
      /\ toPanel = <<>> /\ toHost = <<>> /\ budget = MaxDisruptions
  BY DEF Init
<1>2. /\ page.loading /\ page.retired = {} /\ page.sess = 0 /\ page.gen = 0 /\ page.seq = 0
      /\ page.commit = 0 /\ page.rows = [r \in Rows |-> 0]
  BY DEF Init, EmptyPage
<1>3. page \in Pages
  BY DEF Init, EmptyPage, Pages
<1>4. Unused \in SessionStates
  <2>1. NoRows \in RowMaps
    <3>1. NoRows \in [{} -> Nat] /\ {} \in SUBSET Rows
      BY DEF NoRows
    <3> QED BY <3>1 DEF RowMaps
  <2>2. [commit |-> 0, rows |-> NoRows] \in Batches
    BY <2>1, BatchIs
  <2>3. <<>> \in Seq(Batches) /\ <<>> \in Seq(CommitMsgs)
    OBVIOUS
  <2> QED BY <2>2, <2>3 DEF Unused, SessionStates
<1>5. /\ Unused.gen = 0 /\ Unused.phase = "unused" /\ Unused.next = 1 /\ Unused.inflight = 0
      /\ Unused.queue = <<>> /\ Unused.required = FALSE /\ Unused.read = "none"
      /\ Unused.handoff = <<>>
  BY DEF Unused
<1>6. \A i \in Sessions : sess[i] = Unused
  BY <1>1
<1>7. Types
  <2>1. sess \in [Sessions -> SessionStates]
    BY <1>1, <1>4
  <2>2. ext \in Seq(ForeignWrites) /\ mail \in Seq(Msgs)
    BY <1>1
  <2>3. toPanel \in Seq(WireFrames) /\ toHost \in Seq(Controls)
    BY <1>1
  <2>4. db \in [Rows -> Nat]
    BY <1>1
  <2>5. /\ commits \in Nat /\ used \in Nat /\ conn \in Nat /\ gen \in Nat \ {0}
        /\ ready \in BOOLEAN /\ timer \in BOOLEAN /\ budget \in Nat /\ post = None
        /\ view \in {"shown", "hidden", "gone"} /\ rec \in {"none", "timer", "wait"}
    <3>1. 0 \in Nat /\ 1 \in Nat \ {0}
      OBVIOUS
    <3>2. FALSE \in BOOLEAN
      OBVIOUS
    <3>3. ready \in BOOLEAN /\ timer \in BOOLEAN
      BY <1>1, <3>2, Zenon
    <3> HIDE DEF Init
    <3> QED BY <1>0, <1>1, <3>1, <3>3, Zenon
  <2> QED BY <1>3, <2>1, <2>2, <2>3, <2>4, <2>5 DEF Types
<1>8. PollsFit
  BY <1>0, <1>1 DEF PollsFit
<1>9. CreditFits
  <2>1. Failing = {}
    BY <1>1, <1>5, <1>6 DEF Failing, FailingOf
  <2>2. Cardinality(Failing) = 0
    BY <2>1, FS_EmptySet
  <2> QED BY <1>0, <1>1, <1>2, <2>2 DEF CreditFits, Bit
<1>10. SessionsFit
  <2>1. SessionFits(Unused)
    BY <1>0, <1>5 DEF SessionFits, QueueFits
  <2>2. \A Y, B, Z : ContentFits(Unused, Y, B, Z)
    BY <1>5 DEF ContentFits, Ordered
  <2> QED BY <1>6, <2>1, <2>2 DEF SessionsFit
<1>11. GenerationsFit
  <2>1. \A i \in Sessions : i \in Nat /\ i > 0
    BY SessionsAre
  <2>2. \A i \in Sessions : ~Current(i)
    BY <1>5, <1>6 DEF Current, Live
  <2>3. \A i \in Sessions : ~(i <= used)
    BY <1>1, <2>1
  <2>4. conn = 0
    BY <1>1
  <2> HIDE <1>1
  <2> QED BY <1>5, <1>6, <2>2, <2>3, <2>4 DEF GenerationsFit
<1>12. MailFits
  BY <1>1 DEF MailFits
<1>13. WireFits
  <2>1. page.commit \in Before
    BY <1>1, <1>2 DEF Before, BeforeOf
  <2>2. \A z \in Future : Over(page.rows, z)
    BY <1>1, <1>2 DEF Future, FutureOf, Over
  <2> QED BY <1>1, <2>1, <2>2 DEF WireFits, Between
<1>14. NumbersFit /\ AcksFit
  BY <1>1, <1>2 DEF NumbersFit, FramesFit, AcksFit
<1>15. FlightFits
  BY <1>1, <1>5, <1>6 DEF FlightFits, Current, Live
<1> QED BY <1>7, <1>8, <1>9, <1>10, <1>11, <1>12, <1>13, <1>14, <1>15 DEF FeedInv

LEMMA FeedStutters ==
    ASSUME FeedInv, UNCHANGED vars
    PROVE  FeedInv'
<1>1. UNCHANGED <<db, commits, ext, mail, sess, used, timer, known, cursor, init, poll, gen, ready,
                  view, conn, rec, post, page, toPanel, toHost, budget>>
  BY DEF vars, dbVars, feedVars, pollVars, bridgeVars, panelVars
<1>2. Types' /\ PollsFit'
  BY <1>1 DEF FeedInv, Types, PollsFit
<1>3. CreditFits'
  <2>1. Failing' = Failing
    BY <1>1 DEF Failing, FailingOf
  <2> QED BY <1>1, <2>1 DEF FeedInv, CreditFits, Bit
<1>4. GenerationsFit' /\ MailFits' /\ (\A i \in Sessions : Current(i)' <=> Current(i))
  BY <1>1 DEF FeedInv, GenerationsFit, MailFits, Current
<1>5. Onward
  BY <1>1, OnwardItself DEF FeedInv
<1>6. Numbering
  <2>1. used <= used /\ \A i \in Sessions : sess[i].next <= sess[i].next
    BY Basics, SessionFields DEF FeedInv, Types
  <2> QED BY <1>1, <2>1 DEF Numbering
<1>7. \A i \in Sessions : Settles(i)
  BY <1>1, <1>4, SessionSame
<1>8. PostStays
  BY <1>1, PostSame
<1>9. SamePage(page, page') /\ Shortened(toPanel, toPanel') /\ NoAckComes
  BY <1>1, SamePageItself, ShortenedItself DEF NoAckComes
<1> QED BY <1>2, <1>3, <1>4, <1>5, <1>6, <1>7, <1>8, <1>9, Quiet

LEMMA FeedSteps == FeedInv /\ [Next]_vars => FeedInv'
<1> SUFFICES ASSUME FeedInv, [Next]_vars PROVE FeedInv'
  OBVIOUS
<1>1. CASE TakeCommit \/ TakeAnswer
  BY <1>1, TakeCommitKeeps, TakeAnswerKeeps
<1>2. ASSUME NEW i \in Sessions,
             WorkerReads(i) \/ WorkerFails(i) \/ ConnectReturns(i) \/ ConnectSuperseded(i)
             \/ ConnectFails(i) \/ RefreshReturns(i) \/ RefreshFails(i) \/ RefreshForgotten(i)
      PROVE  FeedInv'
  BY <1>2, WorkerReadsKeeps, WorkerFailsKeeps, ConnectReturnsKeeps, ConnectSupersededKeeps,
     ConnectFailsKeeps, RefreshReturnsKeeps, RefreshFailsKeeps, RefreshForgottenKeeps
<1>3. CASE BaselineVersion \/ BaselinePeers \/ PollVersion \/ PollPeers
  BY <1>3, BaselineVersionKeeps, BaselinePeersKeeps, PollVersionKeeps, PollPeersKeeps
<1>4. CASE RecoveryTimer \/ RetryConnect \/ AckTimesOut \/ AckIsLate
  BY <1>4, RecoveryTimerKeeps, RetryConnectKeeps, AckTimesOutKeeps, AckIsLateKeeps
<1>5. CASE PanelReady \/ DropFrame \/ AcceptFrame \/ RefuseFrame
  BY <1>5, PanelReadyKeeps, DropFrameKeeps, AcceptFrameKeeps, RefuseFrameKeeps
<1>6. CASE TakeAck \/ TakeRequest \/ TakeIgnored
  BY <1>6, TakeAckKeeps, TakeRequestKeeps, TakeIgnoredKeeps
<1>7. CASE CommitLocal \/ CommitExternal
  BY <1>7, CommitLocalKeeps, CommitExternalKeeps
<1>8. CASE Resync \/ Hide \/ Reveal \/ Detach \/ Reload \/ LoseFrame
  BY <1>8, ResyncKeeps, HideKeeps, RevealKeeps, DetachKeeps, ReloadKeeps, LoseFrameKeeps
<1>9. CASE UNCHANGED vars
  BY <1>9, FeedStutters
<1> QED BY <1>1, <1>2, <1>3, <1>4, <1>5, <1>6, <1>7, <1>8, <1>9 DEF Next, System, Environment

LEMMA FeedInvariant == Spec => []FeedInv
<1> QED BY FeedStarts, FeedSteps, PTL DEF Spec

---------------------------------------------------------------------------
(* The theorems *)

\* The variables keep their shape: only the last frame of a session can be in flight, what waits
\* behind it keeps to the bounds of the queue and its batches, and there are sessions enough for
\* every connection (ReliableKernelClientFeed, ReliableKernelVscodeBridge).
THEOREM FeedTypeCorrect == Spec => []FeedTypeOK
<1>1. FeedInv => FeedTypeOK
  <2> SUFFICES ASSUME FeedInv PROVE FeedTypeOK
    OBVIOUS
  <2>1. Types /\ PollsFit /\ CreditFits /\ GenerationsFit /\ NumbersFit /\ FlightFits
    BY DEF FeedInv
  <2>2. MaxDisruptions \in Nat /\ MaxCommits \in Nat /\ MaxResends \in Nat
    BY BoundsAssumption
  <2>3. /\ db \in [Rows -> Nat] /\ commits \in 0..MaxCommits /\ budget \in 0..MaxDisruptions
        /\ gen \in Nat /\ ready \in BOOLEAN /\ timer \in BOOLEAN
        /\ view \in {"shown", "hidden", "gone"} /\ rec \in {"none", "timer", "wait"}
        /\ init \in {"none", "version", "peers"} /\ poll \in {"idle", "peers"}
        /\ {known, cursor} \subseteq 0..Len(ext) \cup {None}
    BY <2>1, <2>2 DEF Types, PollsFit
  <2>4. conn \in 0..used
    BY <2>1 DEF Types, GenerationsFit
  <2>5. used \in 0..Cardinality(Sessions)
    <3>1. Cardinality(1..MaxDisruptions + 1) = MaxDisruptions + 1
      BY <2>2, FS_Interval
    <3>2. used \in Nat /\ used <= MaxDisruptions + 1
      BY <2>1, CreditLeft DEF Types
    <3> QED BY <2>2, <3>1, <3>2 DEF Sessions
  <2>6. page.retired \subseteq 1..used /\ page.sess \in (0..used) \ page.retired
    <3>1. page.sess \in Nat /\ used \in Nat
      BY <2>1, PageFields DEF Types
    <3> QED BY <2>1, <3>1 DEF NumbersFit, Given
  <2>7. post # None => post.resends \in 0..MaxResends /\ post.frame.sess = conn
    BY <2>1, <2>2, Basics DEF FlightFits, Resends
  <2>8. ASSUME NEW i \in Sessions, NEW s, s = sess[i]
        PROVE  /\ s.phase \in {"unused", "polling", "opening", "open", "closed"}
               /\ s.read \in {"none", "asked", "served", "answered", "failed"}
               /\ s.inflight \in {0, s.next - 1}
               /\ Len(s.queue) <= MaxQueued /\ (s.required => s.queue = <<>>)
               /\ \A b \in Range(s.queue) : /\ DOMAIN b.rows \in (SUBSET Rows) \ {{}}
                                            /\ Cardinality(DOMAIN b.rows) <= MaxBatchRows
    <3>1. s \in SessionStates /\ SessionFits(s)
      BY <2>8, SessionIs
    <3>2. s.queue \in Seq(Batches)
      BY <3>1, SessionFields
    <3>3. \A k \in DOMAIN s.queue : DOMAIN s.queue[k].rows \subseteq Rows
      BY <3>2, ElementsOf, BatchFields
    <3>4. \A b \in Range(s.queue) : \E k \in DOMAIN s.queue : b = s.queue[k]
      BY DEF Range
    <3>5. QueueFits(s) /\ s.inflight \in {0, s.next - 1}
      BY <3>1 DEF SessionFits
    <3>6. \A b \in Range(s.queue) : /\ DOMAIN b.rows \in (SUBSET Rows) \ {{}}
                                    /\ Cardinality(DOMAIN b.rows) <= MaxBatchRows
      BY <3>3, <3>4, <3>5 DEF QueueFits
    <3>7. Len(s.queue) <= MaxQueued /\ (s.required => s.queue = <<>>)
      BY <3>5 DEF QueueFits
    <3> QED BY <3>1, <3>5, <3>6, <3>7, SessionFields
  <2> QED BY <2>3, <2>4, <2>5, <2>6, <2>7, <2>8 DEF FeedTypeOK
<1> QED BY <1>1, FeedInvariant, PTL

\* The feed leaves no gap, repeats no number and sends no batch that a snapshot before it contains:
\* what the panel refuses of its session is a copy sent again (acknowledge, onCommit, replay of the
\* commits collected during a read, retryOrSuspendDataPost).
THEOREM OnlyCopiesAreRefused == Spec => []RefusesOnlyCopies
<1>1. FeedInv => RefusesOnlyCopies
  <2> SUFFICES ASSUME FeedInv, toPanel # <<>>, ~Superseded(Head(toPanel)), ~Accepts(Head(toPanel))
               PROVE  Head(toPanel).copy
    BY DEF RefusesOnlyCopies, NextFrame
  <2>1. toPanel \in Seq(WireFrames) /\ FramesFit(page, toPanel)
    BY DEF FeedInv, Types, NumbersFit
  <2>2. PICK f \in WireFrames : f = Head(toPanel) /\ 1 \in DOMAIN toPanel /\ f = toPanel[1]
    BY <2>1, TailIs
  <2>3. f.kind = "changes" /\ f.seq \in Nat /\ f.copy \in BOOLEAN
    BY <2>2, FrameFields DEF Accepts
  <2>4. f.sess = page.sess /\ ~Follows(f)
    BY <2>2, <2>3 DEF Superseded, Accepts
  <2>5. ~f.copy => page.seq = f.seq - 1 /\ page.commit < f.commit
    BY <2>1, <2>2, <2>3, <2>4 DEF FramesFit
  <2>6. page.commit \in Nat /\ page.seq \in Nat /\ f.commit \in Nat
    BY <2>2, FrameFields, PageFields DEF FeedInv, Types
  <2>7. ~f.copy => Follows(f)
    BY <2>3, <2>5, <2>6 DEF Follows
  <2> QED BY <2>2, <2>4, <2>7
<1> QED BY <1>1, FeedInvariant, PTL

\* A row the panel shows is never replaced by an older version of it, whatever is lost, repeated
\* or superseded on the way, until the panel loads anew (the panel's applyFrame).
THEOREM ShownRowsOnlyGrow == Spec => RowsNeverGoBack
<1>1. FeedInv /\ [Next]_vars =>
         \A r \in Rows : page.rows[r] <= page'.rows[r] \/ page'.loading
  <2> SUFFICES ASSUME FeedInv, [Next]_vars, NEW r \in Rows
               PROVE  page.rows[r] <= page'.rows[r] \/ page'.loading
    OBVIOUS
  <2>1. /\ page.rows \in [Rows -> Nat] /\ page'.rows \in [Rows -> Nat]
    <3>1. page \in Pages /\ page' \in Pages
      BY FeedSteps DEF FeedInv, Types
    <3> QED BY <3>1 DEF Pages
  <2>2. CASE page'.rows = page.rows
    BY <2>1, <2>2
  <2>3. CASE AcceptFrame
    <3>1. Over(page.rows, page'.rows)
      BY <2>3, AcceptFrameKeeps
    <3> QED BY <2>1, <3>1 DEF Over
  <2>4. CASE Reload
    BY <2>4 DEF Reload, EmptyPage
  <2>5. CASE PanelReady
    <3>1. page \in Pages /\ page' = [page EXCEPT !.loading = FALSE]
      BY <2>5 DEF FeedInv, Types, PanelReady
    <3>2. page'.rows = page.rows
      BY <3>1 DEF Pages
    <3> QED BY <2>2, <3>2
  <2>6. CASE ~(AcceptFrame \/ Reload \/ PanelReady)
    <3>1. CASE UNCHANGED vars
      BY <2>2, <3>1 DEF vars, panelVars
    <3>2. CASE \/ TakeCommit \/ TakeAnswer
               \/ \E i \in Sessions : \/ WorkerReads(i) \/ WorkerFails(i)
                                      \/ ConnectReturns(i) \/ ConnectSuperseded(i)
                                      \/ ConnectFails(i)
                                      \/ RefreshReturns(i) \/ RefreshFails(i)
                                      \/ RefreshForgotten(i)
      BY <2>2, <3>2 DEF panelVars, TakeCommit, TakeAnswer, WorkerReads, WorkerFails,
            ConnectReturns, ConnectSuperseded, ConnectFails, RefreshReturns, RefreshFails,
            RefreshForgotten
    <3>3. CASE \/ BaselineVersion \/ BaselinePeers \/ PollVersion \/ PollPeers
               \/ RecoveryTimer \/ RetryConnect \/ AckTimesOut \/ AckIsLate
      BY <2>2, <3>3 DEF panelVars, BaselineVersion, BaselinePeers, PollVersion, PollPeers,
            RecoveryTimer, RetryConnect, AckTimesOut, AckIsLate, Resend
    <3>4. CASE \/ DropFrame \/ RefuseFrame \/ TakeAck \/ TakeRequest \/ TakeIgnored
               \/ CommitLocal \/ CommitExternal
               \/ Resync \/ Hide \/ Reveal \/ Detach \/ LoseFrame
      BY <2>2, <3>4 DEF panelVars, DropFrame, RefuseFrame, TakeAck, TakeRequest, TakeIgnored,
            CommitLocal, CommitExternal, Resync, Hide, Reveal, Detach, LoseFrame
    <3> QED BY <2>6, <3>1, <3>2, <3>3, <3>4 DEF Next, System, Environment
  <2> QED BY <2>3, <2>4, <2>5, <2>6
<1>2. Spec => [][\A r \in Rows : page.rows[r] <= page'.rows[r] \/ page'.loading]_vars
  BY <1>1, FeedInvariant, PTL DEF Spec
<1> QED BY <1>2 DEF RowsNeverGoBack
===============================================================================
