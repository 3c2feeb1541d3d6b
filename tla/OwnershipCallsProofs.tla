------------------------ MODULE OwnershipCallsProofs ------------------------
(***************************************************************************)
(* What the manager promises its callers, for every number of Hosts and of *)
(* overlapping invocations: a claim's pins are exactly the commands that   *)
(* still need it, so the claim outlives every one of them and, on a Host   *)
(* that never serves the Conversation, none of its own.                    *)
(***************************************************************************)
EXTENDS ConversationOwnershipProofs, FiniteSetTheorems

\* CallsInv for one Host: its queue and running operation ...
QueueFits(h) ==
    /\ \A i \in DOMAIN chain[h] :
          call[h][chain[h][i].call] \in WaitsAs(chain[h][i].kind)
    /\ \A i, j \in DOMAIN chain[h] :
          i # j => chain[h][i].call # chain[h][j].call
    /\ op[h].call # None =>
          /\ op[h].pc # "free"
          /\ call[h][op[h].call] \in WaitsAs(op[h].kind)
          /\ \A i \in DOMAIN chain[h] : chain[h][i].call # op[h].call

RunningFitsAt(h) ==
    /\ op[h].pc # "free" /\ ~closed[h] => op[h].call # None
    /\ op[h].pc \in AcquirePcs => op[h].kind \in ClaimKinds
    /\ op[h].pc \in {"probe", "judge"} => op[h].kind \in ReleaseKinds

\* ... its pins ...
PinsFit(h) ==
    /\ ~closed[h] => /\ IsFiniteSet(Pinning(h))
                     /\ claim[h].pins = Cardinality(Pinning(h))
    /\ owned[h] = None => claim[h].pins = 0
    /\ op[h].pc \in {"probe", "judge"} => claim[h].pins = 0

\* ... and its commands.
Commanding == {"idle", "run", "body", "end", "release", "handBack"}

CommandsFit(h) ==
    "eligible" \notin Answers[h] =>
        /\ \A c \in Calls : call[h][c] \in Commanding
        /\ ~closed[h] /\ owned[h] # None =>
               /\ claim[h].commandClaim
               /\ claim[h].pins = 0 => /\ op[h].pc \in {"probe", "judge"}
                                       /\ op[h].kind = "endRun"

HostFits(h) ==
    QueueFits(h) /\ RunningFitsAt(h) /\ PinsFit(h) /\ CommandsFit(h)

LEMMA CallsInvPerHost == CallsInv <=> \A h \in Hosts : HostFits(h)
<1>1. CallersWait /\ CallersWaitOnce /\ RunningWaits
         <=> \A h \in Hosts : QueueFits(h)
  BY DEF CallersWait, CallersWaitOnce, RunningWaits, QueueFits
<1>2. RunningFits <=> \A h \in Hosts : RunningFitsAt(h)
  BY DEF RunningFits, RunningFitsAt
<1>3. PinsCounted /\ PinsAreOwned <=> \A h \in Hosts : PinsFit(h)
  BY DEF PinsCounted, PinsAreOwned, PinsFit
<1>4. CommandsOnly <=> \A h \in Hosts : CommandsFit(h)
  BY DEF CommandsOnly, CommandsFit, Commanding
<1> QED BY <1>1, <1>2, <1>3, <1>4 DEF CallsInv, HostFits

---------------------------------------------------------------------------
(* The queue of one Host *)

\* A caller that is not waiting has no place in the chain.
LEMMA WaitsApart ==
    /\ \A k \in Kinds, p \in {"idle", "body", "recheck", "reclaimed"} :
          p \notin WaitsAs(k)
    /\ \A k \in Kinds : "end" \in WaitsAs(k) <=> k = "endRun"
    /\ \A k \in Kinds : "run" \in WaitsAs(k) <=> k = "claimRun"
BY DEF WaitsAs, Kinds

LEMMA ChainItem ==
    ASSUME TypeOK, NEW h \in Hosts, NEW i \in DOMAIN chain[h]
    PROVE  chain[h][i].call \in Calls /\ chain[h][i].kind \in Kinds
<1>1. chain[h] \in Seq(ChainItems)
  BY DEF TypeOK
<1>2. chain[h][i] \in ChainItems
  BY <1>1
<1> QED BY <1>2 DEF ChainItems

LEMMA HeadFacts ==
    ASSUME TypeOK, NEW h \in Hosts, chain[h] # <<>>
    PROVE  /\ 1 \in DOMAIN chain[h]
           /\ Waiting(h) = chain[h][1]
           /\ \A i \in DOMAIN Tail(chain[h]) :
                 /\ i \in Nat \ {0}
                 /\ i + 1 \in DOMAIN chain[h]
                 /\ Tail(chain[h])[i] = chain[h][i + 1]
<1>1. chain[h] \in Seq(ChainItems)
  BY DEF TypeOK
<1> QED BY <1>1 DEF Waiting

LEMMA AppendFacts ==
    ASSUME TypeOK, NEW h \in Hosts, NEW x \in ChainItems
    PROVE  LET s == Append(chain[h], x) IN
           \A i \in DOMAIN s : \/ i \in DOMAIN chain[h] /\ s[i] = chain[h][i]
                               \/ i = Len(chain[h]) + 1 /\ s[i] = x
<1>1. chain[h] \in Seq(ChainItems)
  BY DEF TypeOK
<1> QED BY <1>1

\* Five ways an operation touches the queue: a caller queues one ...
Queues(h, c, kind, to) ==
    /\ chain'[h] = Append(chain[h], [call |-> c, kind |-> kind])
    /\ op'[h] = op[h]
    /\ call'[h] = [call[h] EXCEPT ![c] = to]

\* ... the next one begins, or is over at once ...
Starts(h) ==
    /\ op[h].pc = "free"
    /\ chain[h] # <<>>
    /\ chain'[h] = Tail(chain[h])
    /\ op'[h].pc # "free"
    /\ op'[h].call = Waiting(h).call
    /\ op'[h].kind = Waiting(h).kind
    /\ call'[h] = call[h]

Serves(h, to) ==
    /\ op[h].pc = "free"
    /\ chain[h] # <<>>
    /\ chain'[h] = Tail(chain[h])
    /\ op'[h].pc = "free"
    /\ op'[h].call = None
    /\ call'[h] = [call[h] EXCEPT ![Waiting(h).call] = to]

\* ... and the running one goes on or settles.
Moves(h) ==
    /\ op[h].pc # "free"
    /\ op'[h].pc # "free"
    /\ op'[h].call = op[h].call
    /\ op'[h].kind = op[h].kind
    /\ chain'[h] = chain[h]
    /\ call'[h] = call[h]

Settles(h, to) ==
    /\ op[h].pc # "free"
    /\ op'[h].pc = "free"
    /\ op'[h].call = None
    /\ chain'[h] = chain[h]
    /\ call'[h] = IF op[h].call = None THEN call[h]
                  ELSE [call[h] EXCEPT ![op[h].call] = to]

LEMMA QueuesFits ==
    ASSUME TypeOK, NEW h \in Hosts, QueueFits(h), NEW c \in Calls,
           NEW kind \in Kinds, NEW to \in WaitsAs(kind),
           call[h][c] \in {"idle", "body", "recheck", "reclaimed"},
           call[h][c] = "body" <=> kind = "endRun",
           Queues(h, c, kind, to)
    PROVE  QueueFits(h)' /\ Pinning(h)' = Pinning(h)
<1>1. call[h] \in [Calls -> CallPcs] /\ op[h] \in Ops
  BY DEF TypeOK
<1>2. \A i \in DOMAIN chain[h] : chain[h][i].call # c
  BY ChainItem, WaitsApart DEF QueueFits
<1>3. op[h].call # c
  BY <1>1, WaitsApart, NoneAssumption DEF QueueFits, Ops
<1>4. call'[h][c] = to /\ \A d \in Calls \ {c} : call'[h][d] = call[h][d]
  BY <1>1 DEF Queues
<1>5. \A i \in DOMAIN chain'[h] :
         \/ i \in DOMAIN chain[h] /\ chain'[h][i] = chain[h][i]
         \/ i = Len(chain[h]) + 1
            /\ chain'[h][i] = [call |-> c, kind |-> kind]
  <2>1. [call |-> c, kind |-> kind] \in ChainItems
    BY DEF ChainItems
  <2> QED BY <2>1, AppendFacts DEF Queues
<1>6. \A i \in DOMAIN chain'[h] :
         call'[h][chain'[h][i].call] \in WaitsAs(chain'[h][i].kind)
  BY <1>2, <1>4, <1>5, ChainItem DEF QueueFits
<1>7. \A i, j \in DOMAIN chain'[h] :
         i # j => chain'[h][i].call # chain'[h][j].call
  BY <1>2, <1>5 DEF QueueFits
<1>8. op'[h].call # None =>
         /\ op'[h].pc # "free"
         /\ call'[h][op'[h].call] \in WaitsAs(op'[h].kind)
         /\ \A i \in DOMAIN chain'[h] : chain'[h][i].call # op'[h].call
  BY <1>1, <1>3, <1>4, <1>5 DEF QueueFits, Queues, Ops
<1>9. Pinning(h)' = Pinning(h)
  <2>1. to = "end" <=> kind = "endRun"
    BY WaitsApart DEF WaitsAs, Kinds
  <2>2. to # "body"
    BY WaitsApart
  <2> QED BY <1>3, <1>4, <2>1, <2>2 DEF Pinning, Queues
<1> QED BY <1>6, <1>7, <1>8, <1>9 DEF QueueFits

\* The operation at the head of a free chain.
LEMMA WaitingFacts ==
    ASSUME TypeOK, NEW h \in Hosts, QueueFits(h), op[h].pc = "free",
           chain[h] # <<>>
    PROVE  /\ Waiting(h).call \in Calls
           /\ Waiting(h).kind \in Kinds
           /\ call[h][Waiting(h).call] \in WaitsAs(Waiting(h).kind)
           /\ op[h].call = None
           /\ \A i \in DOMAIN Tail(chain[h]) :
                 /\ Tail(chain[h])[i].call \in Calls
                 /\ Tail(chain[h])[i].call # Waiting(h).call
                 /\ call[h][Tail(chain[h])[i].call]
                       \in WaitsAs(Tail(chain[h])[i].kind)
           /\ \A i, j \in DOMAIN Tail(chain[h]) :
                 i # j => Tail(chain[h])[i].call # Tail(chain[h])[j].call
<1>1. /\ 1 \in DOMAIN chain[h]
      /\ Waiting(h) = chain[h][1]
      /\ \A i \in DOMAIN Tail(chain[h]) :
            /\ i \in Nat \ {0}
            /\ i + 1 \in DOMAIN chain[h]
            /\ Tail(chain[h])[i] = chain[h][i + 1]
  BY HeadFacts
<1>2. \A i \in DOMAIN chain[h] :
         chain[h][i].call \in Calls /\ chain[h][i].kind \in Kinds
  BY ChainItem
<1>3. \A i \in DOMAIN Tail(chain[h]) : i + 1 # 1
  BY <1>1
<1>4. \A i, j \in DOMAIN Tail(chain[h]) : i # j => i + 1 # j + 1
  BY <1>1
<1> QED BY <1>1, <1>2, <1>3, <1>4 DEF QueueFits

LEMMA StartsFits ==
    ASSUME TypeOK, NEW h \in Hosts, QueueFits(h), Starts(h)
    PROVE  /\ QueueFits(h)'
           /\ Waiting(h).kind = "endRun" => Waiting(h).call \in Pinning(h)
           /\ Pinning(h)' = IF Waiting(h).kind = "endRun"
                            THEN Pinning(h) \ {Waiting(h).call}
                            ELSE Pinning(h)
<1>1. op[h].pc = "free" /\ chain[h] # <<>>
  BY DEF Starts
<1>2. QueueFits(h)'
  BY <1>1, WaitingFacts DEF QueueFits, Starts
<1>3. /\ call[h][Waiting(h).call] = "end" <=> Waiting(h).kind = "endRun"
      /\ call[h][Waiting(h).call] # "body"
  BY <1>1, WaitingFacts, WaitsApart DEF WaitsAs, Kinds
<1>4. Waiting(h).call \in Calls /\ op[h].call = None
  BY <1>1, WaitingFacts
<1>5. op'[h].call = Waiting(h).call /\ call'[h] = call[h]
  BY DEF Starts
<1> QED BY <1>2, <1>3, <1>4, <1>5, NoneAssumption DEF Pinning

LEMMA ServesFits ==
    ASSUME TypeOK, NEW h \in Hosts, QueueFits(h), NEW to \in CallPcs,
           Serves(h, to)
    PROVE  /\ QueueFits(h)'
           /\ Waiting(h).kind = "endRun" <=> Waiting(h).call \in Pinning(h)
           /\ to \notin {"body", "end"} =>
                 Pinning(h)' = Pinning(h) \ {Waiting(h).call}
           /\ to = "body" => Pinning(h)' = Pinning(h) \cup {Waiting(h).call}
<1>1. op[h].pc = "free" /\ chain[h] # <<>>
  BY DEF Serves
<1>2. call[h] \in [Calls -> CallPcs]
  BY DEF TypeOK
<1>3. Waiting(h).call \in Calls /\ op[h].call = None
  BY <1>1, WaitingFacts
<1>4. /\ call'[h][Waiting(h).call] = to
      /\ \A d \in Calls \ {Waiting(h).call} : call'[h][d] = call[h][d]
  BY <1>2, <1>3 DEF Serves
<1>5. QueueFits(h)'
  BY <1>1, <1>4, WaitingFacts DEF QueueFits, Serves
<1>6. /\ call[h][Waiting(h).call] = "end" <=> Waiting(h).kind = "endRun"
      /\ call[h][Waiting(h).call] # "body"
  BY <1>1, WaitingFacts, WaitsApart DEF WaitsAs, Kinds
<1>7. op'[h].call = None
  BY DEF Serves
<1> QED BY <1>3, <1>4, <1>5, <1>6, <1>7, NoneAssumption DEF Pinning

LEMMA MovesFits ==
    ASSUME TypeOK, NEW h \in Hosts, QueueFits(h), Moves(h)
    PROVE  QueueFits(h)' /\ Pinning(h)' = Pinning(h)
BY DEF QueueFits, Moves, Pinning

LEMMA SettlesFits ==
    ASSUME TypeOK, NEW h \in Hosts, QueueFits(h), NEW to \in CallPcs,
           Settles(h, to)
    PROVE  /\ QueueFits(h)'
           /\ op[h].call \notin Pinning(h)
           /\ to \notin {"body", "end"} => Pinning(h)' = Pinning(h)
           /\ to = "body" /\ op[h].call # None =>
                 Pinning(h)' = Pinning(h) \cup {op[h].call}
<1>1. call[h] \in [Calls -> CallPcs] /\ op[h].call \in Calls \cup {None}
  BY OpType DEF TypeOK, Ops
<1>2. /\ \A d \in Calls \ {op[h].call} : call'[h][d] = call[h][d]
      /\ op[h].call # None => call'[h][op[h].call] = to
  BY <1>1 DEF Settles
<1>3. QueueFits(h)'
  BY <1>1, <1>2, ChainItem DEF QueueFits, Settles
<1>4. op[h].call # None => call[h][op[h].call] # "body"
  BY <1>1, WaitsApart, OpType DEF QueueFits, Ops
<1>5. op'[h].call = None
  BY DEF Settles
<1> QED BY <1>1, <1>2, <1>3, <1>4, <1>5, NoneAssumption DEF Pinning

---------------------------------------------------------------------------
(* One Host's part of the invariant, form by form *)

\* No other Host's part can see what Host h does.
Elsewhere(h) ==
    \A g \in Hosts \ {h} :
        /\ chain'[g] = chain[g] /\ op'[g] = op[g] /\ call'[g] = call[g]
        /\ claim'[g] = claim[g] /\ owned'[g] = owned[g]
        /\ closed'[g] = closed[g]

LEMMA CallsInvFromHost ==
    ASSUME CallsInv, NEW h \in Hosts, Elsewhere(h), HostFits(h)'
    PROVE  CallsInv'
<1>1. ASSUME NEW g \in Hosts \ {h}, HostFits(g) PROVE HostFits(g)'
  <2>1. /\ chain'[g] = chain[g] /\ op'[g] = op[g] /\ call'[g] = call[g]
        /\ claim'[g] = claim[g] /\ owned'[g] = owned[g]
        /\ closed'[g] = closed[g]
    BY DEF Elsewhere
  <2>2. Pinning(g)' = Pinning(g)
    BY <2>1 DEF Pinning
  <2>3. PinsFit(g)'
    BY <1>1, <2>1, <2>2 DEF HostFits, PinsFit
  <2>4. QueueFits(g)' /\ RunningFitsAt(g)' /\ CommandsFit(g)'
    BY <1>1, <2>1 DEF HostFits, QueueFits, RunningFitsAt, CommandsFit
  <2> QED BY <2>3, <2>4 DEF HostFits
<1>2. \A g \in Hosts : HostFits(g)'
  BY <1>1, CallsInvPerHost
<1>3. CallersWait' /\ CallersWaitOnce' /\ RunningWaits'
  BY <1>2 DEF HostFits, QueueFits, CallersWait, CallersWaitOnce, RunningWaits
<1>4. RunningFits'
  BY <1>2 DEF HostFits, RunningFitsAt, RunningFits
<1>5. PinsCounted' /\ PinsAreOwned'
  BY <1>2 DEF HostFits, PinsFit, PinsCounted, PinsAreOwned
<1>6. CommandsOnly'
  BY <1>2 DEF HostFits, CommandsFit, Commanding, CommandsOnly
<1> QED BY <1>3, <1>4, <1>5, <1>6 DEF CallsInv

\* The memory of Host h apart from its queue.
Kept(h) == /\ claim'[h] = claim[h]
           /\ owned'[h] = owned[h]
           /\ closed'[h] = closed[h]

LEMMA MoveHolds ==
    ASSUME TypeOK, NEW h \in Hosts, HostFits(h), Moves(h), Kept(h),
           op'[h].pc \in AcquirePcs => op[h].kind \in ClaimKinds,
           \/ owned[h] = None /\ op'[h].pc \notin {"probe", "judge"}
           \/ op[h].pc = "probe" /\ op'[h].pc = "judge"
    PROVE  HostFits(h)'
<1>1. QueueFits(h)' /\ Pinning(h)' = Pinning(h)
  BY MovesFits DEF HostFits
<1>2. RunningFitsAt(h)'
  BY DEF HostFits, RunningFitsAt, Moves, Kept
<1>3. PinsFit(h)'
  BY <1>1 DEF HostFits, PinsFit, Kept
<1>4. CommandsFit(h)'
  BY DEF HostFits, CommandsFit, Moves, Kept
<1> QED BY <1>1, <1>2, <1>3, <1>4 DEF HostFits

LEMMA SettleHolds ==
    ASSUME TypeOK, NEW h \in Hosts, HostFits(h), Settles(h, "idle"), Kept(h),
           owned[h] = None
    PROVE  HostFits(h)'
<1>1. QueueFits(h)' /\ Pinning(h)' = Pinning(h)
  BY SettlesFits DEF HostFits, CallPcs
<1>2. RunningFitsAt(h)'
  BY DEF RunningFitsAt, Settles, AcquirePcs
<1>3. PinsFit(h)'
  BY <1>1 DEF HostFits, PinsFit, Kept, Settles
<1>4. \A c \in Calls : call'[h][c] \in {call[h][c], "idle"}
  BY OpType DEF Settles, TypeOK
<1>5. CommandsFit(h)'
  BY <1>4 DEF HostFits, CommandsFit, Commanding, Kept
<1> QED BY <1>1, <1>2, <1>3, <1>5 DEF HostFits

LEMMA QueueHolds ==
    ASSUME TypeOK, NEW h \in Hosts, HostFits(h), NEW c \in Calls,
           NEW kind \in Kinds, NEW from, NEW to \in WaitsAs(kind),
           from \in {"idle", "body", "recheck", "reclaimed"},
           from = "body" <=> kind = "endRun",
           "eligible" \notin Answers[h] /\ from \in Commanding
              => to \in Commanding,
           QueueCall(h, c, from, to, kind)
    PROVE  HostFits(h)' /\ Elsewhere(h)
<1>1. Queues(h, c, kind, to)
  BY DEF Queues, QueueCall, CallStep, Enqueue, TypeOK
<1>2. call[h][c] = from
  BY DEF QueueCall, CallStep
<1>3. QueueFits(h)' /\ Pinning(h)' = Pinning(h)
  BY <1>1, <1>2, QueuesFits DEF HostFits
<1>4. Kept(h) /\ op'[h] = op[h] /\ Elsewhere(h)
  BY DEF QueueCall, CallStep, Enqueue, memory, Kept, Elsewhere, TypeOK
<1>5. RunningFitsAt(h)' /\ PinsFit(h)'
  BY <1>3, <1>4 DEF HostFits, RunningFitsAt, PinsFit, Kept
<1>6. \A d \in Calls : \/ call'[h][d] = call[h][d]
                       \/ d = c /\ call'[h][d] = to
  BY <1>1 DEF Queues, TypeOK
<1>7. CommandsFit(h)'
  BY <1>2, <1>4, <1>6 DEF HostFits, CommandsFit, Kept
<1> QED BY <1>3, <1>4, <1>5, <1>7 DEF HostFits

LEMMA CallerStepHolds ==
    ASSUME TypeOK, NEW h \in Hosts, HostFits(h), NEW c \in Calls,
           CallerStep(h, c)
    PROVE  HostFits(h)' /\ Elsewhere(h)
<1> USE DEF NewCall, WaitsAs, Kinds, Commanding
<1>1. CASE BeginRun(h, c)
  BY <1>1, QueueHolds DEF BeginRun
<1>2. CASE EndBody(h, c)
  BY <1>2, QueueHolds DEF EndBody
<1>3. CASE BeginExecute(h, c)
  <2>1. PICK to \in {"exec", "execOwned"} :
           QueueCall(h, c, "idle", to, "claimExec")
    BY <1>3 DEF BeginExecute
  <2>2. "eligible" \in Answers[h]
    BY <1>3 DEF BeginExecute
  <2> QED BY <2>1, <2>2, QueueHolds
<1>4. CASE Recheck(h, c)
  <2>1. PICK kind \in {"accept", "return"} :
           QueueCall(h, c, "recheck", kind, kind)
    BY <1>4 DEF Recheck
  <2> QED BY <2>1, QueueHolds
<1>5. CASE KeepFirstCheck(h, c)
  BY <1>5, QueueHolds DEF KeepFirstCheck
<1>6. CASE BeginRelease(h, c)
  BY <1>6, QueueHolds DEF BeginRelease
<1>7. CASE BeginHandBack(h, c)
  BY <1>7, QueueHolds DEF BeginHandBack
<1> QED
  BY <1>1, <1>2, <1>3, <1>4, <1>5, <1>6, <1>7 DEF CallerStep

---------------------------------------------------------------------------
(* The operations *)

\* A started or served operation of a release kind leaves as many pins as
\* there are commands left.
LEMMA UpdatedCounts ==
    ASSUME TypeOK, NEW h \in Hosts, PinsFit(h), ~closed[h], NEW P,
           Waiting(h).kind = "endRun" => Waiting(h).call \in Pinning(h),
           P = IF Waiting(h).kind = "endRun"
               THEN Pinning(h) \ {Waiting(h).call} ELSE Pinning(h)
    PROVE  /\ IsFiniteSet(P)
           /\ Updated(h).pins = Cardinality(P)
<1>1. claim[h] \in Claims
  BY DEF TypeOK
<1>2. /\ IsFiniteSet(Pinning(h))
      /\ claim[h].pins = Cardinality(Pinning(h))
      /\ claim[h].pins \in Nat
  BY <1>1 DEF PinsFit, Claims
<1>3. CASE Waiting(h).kind = "endRun"
  <2>1. Updated(h).pins = IF claim[h].pins > 0 THEN claim[h].pins - 1
                          ELSE claim[h].pins
    BY <1>1, <1>3 DEF Updated, Claims
  <2>2. claim[h].pins # 0
    BY <1>2, <1>3, FS_EmptySet
  <2>3. IsFiniteSet(P) /\ Cardinality(P) = Cardinality(Pinning(h)) - 1
    BY <1>2, <1>3, FS_RemoveElement
  <2> QED BY <1>2, <2>1, <2>2, <2>3
<1>4. CASE Waiting(h).kind # "endRun"
  <2>1. Updated(h).pins = claim[h].pins
    BY <1>1, <1>4 DEF Updated, Claims
  <2> QED BY <1>2, <1>4, <2>1
<1> QED BY <1>3, <1>4

LEMMA UpdatedKeeps ==
    ASSUME TypeOK, NEW h \in Hosts
    PROVE  /\ Updated(h).commandClaim = claim[h].commandClaim
           /\ Waiting(h).kind # "endRun" => Updated(h).pins = claim[h].pins
<1>1. claim[h] \in Claims
  BY DEF TypeOK
<1> QED BY <1>1 DEF Updated, Claims

LEMMA NoPinsNoCommands ==
    ASSUME NEW h \in Hosts, PinsFit(h), ~closed[h], claim[h].pins = 0
    PROVE  Pinning(h) = {}
BY FS_EmptySet DEF PinsFit

\* How a release or claim at the head of the chain begins.
LEMMA StartHolds ==
    ASSUME TypeOK, NEW h \in Hosts, HostFits(h), Starts(h), ~closed[h],
           closed'[h] = closed[h], owned'[h] = None, claim'[h].pins = 0,
           \/ owned[h] = None /\ claim'[h] = claim[h]
           \/ Updated(h).pins = 0,
           op'[h].pc \notin {"probe", "judge"},
           op'[h].pc \in AcquirePcs => Waiting(h).kind \in ClaimKinds
    PROVE  HostFits(h)'
<1>1. /\ QueueFits(h)'
      /\ Waiting(h).kind = "endRun" => Waiting(h).call \in Pinning(h)
      /\ Pinning(h)' = IF Waiting(h).kind = "endRun"
                       THEN Pinning(h) \ {Waiting(h).call} ELSE Pinning(h)
  BY StartsFits DEF HostFits
<1>2. Pinning(h)' = {}
  <2>1. CASE owned[h] = None /\ claim'[h] = claim[h]
    <3>1. Pinning(h) = {}
      BY <2>1, NoPinsNoCommands DEF HostFits
    <3> QED BY <1>1, <3>1
  <2>2. CASE Updated(h).pins = 0
    <3>1. PICK P : P = Pinning(h)'
      OBVIOUS
    <3>2. IsFiniteSet(P) /\ Cardinality(P) = 0
      BY <1>1, <2>2, <3>1, UpdatedCounts DEF HostFits
    <3> QED BY <3>1, <3>2, FS_EmptySet
  <2> QED BY <2>1, <2>2
<1>3. RunningFitsAt(h)'
  <2>1. Waiting(h).call # None
    BY WaitingFacts, NoneAssumption DEF HostFits, Starts
  <2> QED BY <2>1 DEF RunningFitsAt, Starts
<1>4. PinsFit(h)'
  BY <1>2, FS_EmptySet DEF PinsFit
<1>5. CommandsFit(h)'
  BY DEF HostFits, CommandsFit, Starts
<1> QED BY <1>1, <1>3, <1>4, <1>5 DEF HostFits

\* The kind of a waiting operation on a Host that never serves.
LEMMA WaitingCommand ==
    ASSUME TypeOK, NEW h \in Hosts, HostFits(h), op[h].pc = "free",
           chain[h] # <<>>, "eligible" \notin Answers[h]
    PROVE  Waiting(h).kind \notin {"claimExec", "accept", "return"}
BY WaitingFacts DEF HostFits, CommandsFit, Commanding, WaitsAs

LEMMA ServeElsewhere ==
    ASSUME TypeOK, NEW h \in Hosts, NEW kinds, NEW to, Begin(h, kinds),
           Settle(h, Waiting(h).call, to)
    PROVE  Serves(h, to)
<1>1. Waiting(h).call \in Calls
  BY HeadIsItem DEF Begin
<1> QED BY <1>1, NoneAssumption DEF Serves, Begin, Settle, FreeOp, TypeOK

LEMMA GrantedPlaces ==
    \A h, c : /\ call[h][c] = "run" => Granted(h, c) = "body"
              /\ call[h][c] # "run"
                    => Granted(h, c) \in {"recheck", "reclaimed"}
BY DEF Granted

LEMMA ClaimOwnedHolds ==
    ASSUME TypeOK, NEW h \in Hosts, HostFits(h), ClaimOwned(h)
    PROVE  HostFits(h)'
<1> DEFINE c == Waiting(h).call
           to == Granted(h, c)
<1>1. /\ op[h].pc = "free" /\ chain[h] # <<>> /\ ~closed[h]
      /\ Waiting(h).kind \in ClaimKinds /\ owned[h] # None
  BY DEF ClaimOwned, Begin
<1>2. Serves(h, to)
  BY ServeElsewhere DEF ClaimOwned
<1>3. /\ c \in Calls
      /\ call[h][c] \in WaitsAs(Waiting(h).kind)
  BY <1>1, WaitingFacts DEF HostFits
<1>4. call[h][c] = "run" <=> Waiting(h).kind = "claimRun"
  BY <1>1, <1>3 DEF ClaimKinds, WaitsAs
<1>5. /\ Waiting(h).kind = "claimRun" => to = "body"
      /\ Waiting(h).kind # "claimRun" => to \in {"recheck", "reclaimed"}
  BY <1>4, GrantedPlaces
<1>6. to \in CallPcs
  BY GrantedType
<1> HIDE DEF to
<1>7. /\ QueueFits(h)' /\ c \notin Pinning(h)
      /\ Waiting(h).kind = "claimRun" => Pinning(h)' = Pinning(h) \cup {c}
      /\ Waiting(h).kind # "claimRun" => Pinning(h)' = Pinning(h)
  <2>1. Waiting(h).kind # "endRun"
    BY <1>1 DEF ClaimKinds
  <2> QED BY <1>2, <1>5, <1>6, <2>1, ServesFits DEF HostFits
<1>8. claim'[h] = [claim[h] EXCEPT !.pins =
                      IF Waiting(h).kind = "claimRun" THEN @ + 1 ELSE @]
  BY DEF ClaimOwned, TypeOK
<1>9. /\ claim'[h].pins = IF Waiting(h).kind = "claimRun"
                          THEN claim[h].pins + 1 ELSE claim[h].pins
      /\ claim'[h].commandClaim = claim[h].commandClaim
      /\ claim[h].pins \in Nat
  BY <1>8 DEF TypeOK, Claims
<1>10. /\ op'[h].pc = "free" /\ op'[h].call = None
       /\ owned'[h] = owned[h] /\ closed'[h] = closed[h]
  BY <1>2 DEF ClaimOwned, Serves
<1>11. PinsFit(h)'
  <2>1. /\ IsFiniteSet(Pinning(h)) /\ Cardinality(Pinning(h)) = claim[h].pins
    BY <1>1 DEF HostFits, PinsFit
  <2>2. /\ IsFiniteSet(Pinning(h)')
        /\ Cardinality(Pinning(h)') = claim'[h].pins
    <3>1. CASE Waiting(h).kind = "claimRun"
      <4>1. PICK P : P = Pinning(h)
        OBVIOUS
      <4>2. /\ IsFiniteSet(P \cup {c})
            /\ Cardinality(P \cup {c}) = Cardinality(P) + 1
        BY <1>7, <2>1, <4>1, FS_AddElement
      <4> QED BY <1>7, <1>9, <2>1, <3>1, <4>1, <4>2
    <3>2. CASE Waiting(h).kind # "claimRun"
      BY <1>7, <1>9, <2>1, <3>2
    <3> QED BY <3>1, <3>2
  <2> QED BY <1>1, <1>10, <2>2 DEF PinsFit
<1>12. CommandsFit(h)'
  <2> SUFFICES ASSUME "eligible" \notin Answers[h]
               PROVE  CommandsFit(h)'
    BY DEF CommandsFit
  <2>1. Waiting(h).kind = "claimRun" /\ to = "body"
    BY <1>1, <1>5, WaitingCommand DEF ClaimKinds
  <2>2. \A d \in Calls : call'[h][d] \in {call[h][d], "body"}
    BY <1>2, <1>3, <2>1 DEF Serves, TypeOK
  <2>3. claim[h].commandClaim
    BY <1>1 DEF HostFits, CommandsFit
  <2> QED BY <1>9, <2>1, <2>2, <2>3 DEF HostFits, CommandsFit, Commanding
<1>13. RunningFitsAt(h)'
  BY <1>10 DEF RunningFitsAt, AcquirePcs
<1> QED BY <1>7, <1>11, <1>12, <1>13 DEF HostFits

\* Served to "idle": one waiting operation is over and needs no other step.
LEMMA ServeIdleHolds ==
    ASSUME TypeOK, NEW h \in Hosts, HostFits(h), Serves(h, "idle"),
           closed'[h] = closed[h], owned'[h] = owned[h],
           owned[h] = None => claim'[h] = claim[h],
           ~closed[h] => claim'[h].pins = Updated(h).pins,
           "eligible" \notin Answers[h] /\ ~closed[h] /\ owned[h] # None
              => claim'[h].commandClaim /\ claim'[h].pins # 0
    PROVE  HostFits(h)'
<1>1. op[h].pc = "free" /\ chain[h] # <<>>
  BY DEF Serves
<1>2. /\ QueueFits(h)'
      /\ Waiting(h).kind = "endRun" <=> Waiting(h).call \in Pinning(h)
      /\ Pinning(h)' = Pinning(h) \ {Waiting(h).call}
  BY ServesFits DEF HostFits, CallPcs
<1>3. op'[h].pc = "free" /\ op'[h].call = None
  BY DEF Serves
<1>4. PinsFit(h)'
  <2>1. ASSUME ~closed[h]
        PROVE  /\ IsFiniteSet(Pinning(h)')
               /\ Cardinality(Pinning(h)') = claim'[h].pins
    <3>1. PICK P : P = Pinning(h)'
      OBVIOUS
    <3>2. P = IF Waiting(h).kind = "endRun"
              THEN Pinning(h) \ {Waiting(h).call} ELSE Pinning(h)
      BY <1>2, <3>1
    <3>3. IsFiniteSet(P) /\ Updated(h).pins = Cardinality(P)
      BY <1>2, <2>1, <3>2, UpdatedCounts DEF HostFits
    <3> QED BY <2>1, <3>1, <3>3
  <2>2. owned[h] = None => claim'[h].pins = 0
    BY DEF HostFits, PinsFit
  <2> QED BY <1>3, <2>1, <2>2 DEF PinsFit
<1>5. CommandsFit(h)'
  <2>1. \A d \in Calls : call'[h][d] \in {call[h][d], "idle"}
    BY <1>1, WaitingFacts DEF Serves, TypeOK
  <2> QED BY <2>1 DEF HostFits, CommandsFit, Commanding
<1>6. RunningFitsAt(h)'
  BY <1>3 DEF RunningFitsAt, AcquirePcs
<1> QED BY <1>2, <1>4, <1>5, <1>6 DEF HostFits

\* A claim that owns nothing: its caller waits on.
LEMMA ClaimAnewHolds ==
    ASSUME TypeOK, NEW h \in Hosts, HostFits(h), ClaimAnew(h)
    PROVE  HostFits(h)'
<1>1. /\ op[h].pc = "free" /\ chain[h] # <<>> /\ ~closed[h]
      /\ Waiting(h).kind \in ClaimKinds /\ owned[h] = None
      /\ Kept(h) /\ chain'[h] = Tail(chain[h]) /\ call' = call
  BY DEF ClaimAnew, Begin, Kept, memory, TypeOK
<1>2. /\ op'[h].pc \in {"stat", "relRead"}
      /\ op'[h].call = Waiting(h).call
      /\ op'[h].kind = Waiting(h).kind
  <2>1. CASE pendingRelease[h] = None
    <3>1. Acquire(h, Waiting(h).call, Waiting(h).kind)
      BY <2>1 DEF ClaimAnew
    <3> QED BY <3>1 DEF Acquire, FreeOp, TypeOK
  <2>2. CASE pendingRelease[h] # None
    <3>1. op'[h] = ReleaseOp(Waiting(h).call, Waiting(h).kind,
                             pendingRelease[h])
      BY <2>2 DEF ClaimAnew, TypeOK
    <3> QED BY <3>1 DEF ReleaseOp, FreeOp
  <2> QED BY <2>1, <2>2
<1>3. Starts(h)
  BY <1>1, <1>2 DEF Starts
<1> QED
  BY <1>1, <1>2, <1>3, StartHolds DEF Kept, HostFits, PinsFit

LEMMA AcceptHolds ==
    ASSUME TypeOK, NEW h \in Hosts, HostFits(h), AcceptClaim(h)
    PROVE  HostFits(h)'
<1>1. /\ op[h].pc = "free" /\ chain[h] # <<>> /\ ~closed[h]
      /\ Waiting(h).kind = "accept" /\ owned' = owned /\ closed' = closed
  BY DEF AcceptClaim, Begin
<1>2. Serves(h, "idle")
  BY ServeElsewhere DEF AcceptClaim
<1>3. claim'[h].pins = claim[h].pins
  BY DEF AcceptClaim, TypeOK, Claims
<1>4. "eligible" \in Answers[h]
  BY <1>1, WaitingCommand
<1>5. QueueFits(h)' /\ Pinning(h)' = Pinning(h)
  BY <1>1, <1>2, ServesFits DEF HostFits, CallPcs
<1>6. op'[h].pc = "free" /\ op'[h].call = None
  BY <1>2 DEF Serves
<1>7. PinsFit(h)'
  BY <1>1, <1>3, <1>5, <1>6 DEF HostFits, PinsFit
<1>8. RunningFitsAt(h)' /\ CommandsFit(h)'
  BY <1>4, <1>6 DEF RunningFitsAt, CommandsFit, AcquirePcs
<1> QED BY <1>5, <1>7, <1>8 DEF HostFits

LEMMA ReleaseStartHolds ==
    ASSUME TypeOK, NEW h \in Hosts, HostFits(h),
           \/ ReleaseUnowned(h) \/ KeepPinned(h)
           \/ ReleaseHandedBack(h) \/ StartProbe(h)
    PROVE  HostFits(h)'
<1>1. /\ op[h].pc = "free" /\ chain[h] # <<>> /\ ~closed[h]
      /\ Waiting(h).kind \in ReleaseKinds
      /\ closed' = closed /\ chain'[h] = Tail(chain[h])
  BY DEF ReleaseUnowned, KeepPinned, ReleaseHandedBack, StartProbe, Begin,
     TypeOK
<1>2. /\ Updated(h).commandClaim = claim[h].commandClaim
      /\ Waiting(h).kind # "endRun" => Updated(h).pins = claim[h].pins
      /\ Updated(h).pins \in Nat
  BY UpdatedKeeps, UpdatedType DEF Claims
<1>3. CASE ReleaseUnowned(h)
  <2>1. owned[h] = None /\ Kept(h) /\ claim[h].pins = 0
    BY <1>3 DEF ReleaseUnowned, memory, Kept, HostFits, PinsFit
  <2>2. CASE pendingRelease[h] = None \/ Waiting(h).kind = "handBack"
    <3>1. Serves(h, "idle")
      BY <1>3, <2>2, ServeElsewhere DEF ReleaseUnowned
    <3>2. Updated(h).pins = 0
      BY <2>1, UpdatedKeeps DEF Updated, TypeOK, Claims
    <3> QED BY <2>1, <3>1, <3>2, ServeIdleHolds DEF Kept
  <2>3. CASE ~(pendingRelease[h] = None \/ Waiting(h).kind = "handBack")
    <3>1. /\ op'[h] = ReleaseOp(Waiting(h).call, Waiting(h).kind,
                                pendingRelease[h])
          /\ call' = call
      BY <1>3, <2>3 DEF ReleaseUnowned, TypeOK
    <3>2. Starts(h) /\ op'[h].pc = "relRead"
      BY <1>1, <3>1 DEF Starts, ReleaseOp, FreeOp
    <3> QED BY <1>1, <2>1, <3>2, StartHolds DEF Kept, AcquirePcs
  <2> QED BY <2>2, <2>3
<1>4. CASE KeepPinned(h)
  <2>1. /\ owned[h] # None /\ owned' = owned /\ Updated(h).pins # 0
        /\ claim'[h] = Updated(h)
    BY <1>2, <1>4 DEF KeepPinned, TypeOK
  <2>2. Serves(h, "idle")
    BY <1>4, ServeElsewhere DEF KeepPinned
  <2>3. "eligible" \notin Answers[h] => claim[h].commandClaim
    BY <1>1, <2>1 DEF HostFits, CommandsFit
  <2> QED BY <1>1, <1>2, <2>1, <2>2, <2>3, ServeIdleHolds
<1>5. CASE ReleaseHandedBack(h)
  <2>1. /\ Updated(h).pins = 0 /\ call' = call
        /\ owned'[h] = None /\ claim'[h] = NoClaim
        /\ op'[h] = ReleaseOp(Waiting(h).call, Waiting(h).kind, owned[h])
    BY <1>5 DEF ReleaseHandedBack, Drop, Forget, TypeOK
  <2>2. Starts(h) /\ op'[h].pc = "relRead"
    BY <1>1, <2>1 DEF Starts, ReleaseOp, FreeOp
  <2> QED
    BY <1>1, <2>1, <2>2, StartHolds DEF NoClaim, AcquirePcs
<1>6. CASE StartProbe(h)
  <2>1. /\ Updated(h).pins = 0 /\ call' = call /\ owned' = owned
        /\ owned[h] # None /\ claim'[h] = Updated(h)
        /\ op'[h] = [FreeOp EXCEPT !.pc = "probe", !.call = Waiting(h).call,
                                   !.kind = Waiting(h).kind]
    BY <1>6 DEF StartProbe, TypeOK
  <2>2. /\ op'[h].pc = "probe" /\ op'[h].call = Waiting(h).call
        /\ op'[h].kind = Waiting(h).kind
    BY <2>1 DEF FreeOp
  <2>3. Starts(h)
    BY <1>1, <2>1, <2>2 DEF Starts
  <2>4. QueueFits(h)'
    BY <2>3, StartsFits DEF HostFits
  <2>5. PinsFit(h)'
    <3>1. PICK P : P = Pinning(h)'
      OBVIOUS
    <3>2. P = IF Waiting(h).kind = "endRun"
              THEN Pinning(h) \ {Waiting(h).call} ELSE Pinning(h)
      BY <2>3, <3>1, StartsFits DEF HostFits
    <3>3. Waiting(h).kind = "endRun" => Waiting(h).call \in Pinning(h)
      BY <2>3, StartsFits DEF HostFits
    <3>4. IsFiniteSet(P) /\ Updated(h).pins = Cardinality(P)
      BY <1>1, <3>2, <3>3, UpdatedCounts DEF HostFits
    <3> QED BY <2>1, <3>1, <3>4 DEF PinsFit
  <2>6. CommandsFit(h)'
    <3>1. "eligible" \notin Answers[h] =>
             claim[h].commandClaim /\ claim[h].pins # 0
      BY <1>1, <2>1 DEF HostFits, CommandsFit
    <3> QED
      BY <1>2, <2>1, <2>2, <3>1 DEF HostFits, CommandsFit
  <2>7. RunningFitsAt(h)'
    <3>1. Waiting(h).call # None
      BY <1>1, WaitingFacts, NoneAssumption DEF HostFits
    <3> QED BY <1>1, <2>2, <3>1 DEF RunningFitsAt, AcquirePcs
  <2> QED BY <2>4, <2>5, <2>6, <2>7 DEF HostFits
<1> QED BY <1>3, <1>4, <1>5, <1>6

LEMMA RefuseHolds ==
    ASSUME TypeOK, NEW h \in Hosts, HostFits(h), Refuse(h)
    PROVE  HostFits(h)'
<1>1. /\ op[h].pc = "free" /\ chain[h] # <<>> /\ closed[h]
      /\ Kept(h) /\ op'[h] = op[h]
  BY DEF Refuse, memory, Kept
<1>2. Serves(h, "idle")
  BY <1>1, WaitingFacts DEF HostFits, Refuse, Serves, TypeOK
<1> QED BY <1>1, <1>2, ServeIdleHolds DEF Kept

\* A command's claim goes back with its last command on a Host that never
\* serves the Conversation: there no answer keeps it.
LEMMA JudgeHolds ==
    ASSUME TypeOK, NEW h \in Hosts, HostFits(h), Probe(h) \/ Judge(h)
    PROVE  HostFits(h)'
<1>1. CASE Probe(h)
  <2>1. PICK b \in BOOLEAN : op' = [op EXCEPT ![h].pc = "judge", ![h].work = b]
    BY <1>1 DEF Probe
  <2>2. /\ op[h].pc = "probe" /\ op'[h].pc = "judge"
        /\ op'[h].call = op[h].call /\ op'[h].kind = op[h].kind
    BY <1>1, <2>1, OpType DEF Probe, At, TypeOK, Ops
  <2>3. Moves(h) /\ Kept(h)
    BY <1>1, <2>2 DEF Probe, Moves, Kept, memory
  <2> QED BY <2>2, <2>3, MoveHolds DEF AcquirePcs
<1>2. CASE Judge(h)
  <2>1. /\ op[h].pc = "judge" /\ chain' = chain /\ closed' = closed
        /\ claim[h].pins = 0
    BY <1>2 DEF Judge, At, HostFits, PinsFit
  <2>2. PICK answer \in Answers[h] :
           IF Keeps(h, answer)
           THEN Settle(h, op[h].call, "idle") /\ UNCHANGED memory
           ELSE Drop(h, op[h].call, op[h].kind) /\ UNCHANGED call
    BY <1>2 DEF Judge
  <2>3. CASE Keeps(h, answer)
    <3>1. Settles(h, "idle") /\ Kept(h)
      <4>1. Settle(h, op[h].call, "idle")
        BY <2>2, <2>3
      <4>2. claim' = claim /\ owned' = owned
        BY <2>2, <2>3 DEF memory
      <4> QED
        BY <2>1, <4>1, <4>2 DEF Settles, Settle, FreeOp, Kept, TypeOK
    <3>2. QueueFits(h)' /\ Pinning(h)' = Pinning(h)
      BY <3>1, SettlesFits DEF HostFits, CallPcs
    <3>3. PinsFit(h)'
      BY <2>1, <3>1, <3>2 DEF HostFits, PinsFit, Kept, Settles
    <3>4. CommandsFit(h)'
      <4>1. answer \in Eligibilities
        BY AnswersAssumption
      <4>2. \A d \in Calls : call'[h][d] \in {call[h][d], "idle"}
        BY <3>1, OpType DEF Settles, TypeOK
      <4>3. ASSUME "eligible" \notin Answers[h], ~closed[h], owned[h] # None
            PROVE  FALSE
        <5>1. ClaimedByCaller(h)
          BY <2>1, <4>3 DEF HostFits, CommandsFit, ClaimedByCaller
        <5> QED BY <2>3, <4>1, <4>3, <5>1 DEF Keeps, Eligibilities
      <4> QED
        BY <3>1, <4>2, <4>3 DEF HostFits, CommandsFit, Commanding, Kept
    <3>5. RunningFitsAt(h)'
      BY <3>1 DEF RunningFitsAt, Settles, AcquirePcs
    <3> QED BY <3>2, <3>3, <3>4, <3>5 DEF HostFits
  <2>4. CASE ~Keeps(h, answer)
    <3>1. /\ owned'[h] = None /\ claim'[h] = NoClaim /\ call' = call
          /\ op'[h] = ReleaseOp(op[h].call, op[h].kind, owned[h])
      BY <2>2, <2>4 DEF Drop, Forget, TypeOK
    <3>2. /\ op'[h].pc = "relRead" /\ op'[h].call = op[h].call
          /\ op'[h].kind = op[h].kind
      BY <3>1 DEF ReleaseOp, FreeOp
    <3>3. Moves(h)
      BY <2>1, <3>1, <3>2 DEF Moves
    <3>4. QueueFits(h)' /\ Pinning(h)' = Pinning(h)
      BY <3>3, MovesFits DEF HostFits
    <3>5. PinsFit(h)'
      BY <2>1, <3>1, <3>2, <3>4 DEF HostFits, PinsFit, NoClaim
    <3>6. CommandsFit(h)'
      BY <3>1 DEF HostFits, CommandsFit
    <3>7. RunningFitsAt(h)'
      BY <2>1, <3>2 DEF HostFits, RunningFitsAt, AcquirePcs
    <3> QED BY <3>4, <3>5, <3>6, <3>7 DEF HostFits
  <2> QED BY <2>3, <2>4
<1> QED BY <1>1, <1>2

\* releasePendingRecord() is over: a claim goes on, the rest settles.
LEMMA ReleasedHolds ==
    ASSUME TypeOK, NEW h \in Hosts, HostFits(h), op[h].pc # "free",
           owned[h] = None, Released(h), closed' = closed, chain' = chain
    PROVE  HostFits(h)'
<1>1. Kept(h)
  BY DEF Released, Kept
<1>2. CASE op[h].kind \in ClaimKinds /\ ~closed[h]
  <2>1. Acquire(h, op[h].call, op[h].kind) /\ call' = call
    BY <1>2 DEF Released
  <2>2. /\ op'[h].pc = "stat" /\ op'[h].call = op[h].call
        /\ op'[h].kind = op[h].kind
    BY <2>1 DEF Acquire, FreeOp, TypeOK
  <2>3. Moves(h)
    BY <2>1, <2>2 DEF Moves
  <2> QED BY <1>1, <1>2, <2>2, <2>3, MoveHolds
<1>3. CASE ~(op[h].kind \in ClaimKinds /\ ~closed[h])
  <2>1. Settle(h, op[h].call, "idle")
    BY <1>3 DEF Released
  <2>2. Settles(h, "idle")
    BY <2>1 DEF Settle, Settles, FreeOp, TypeOK
  <2> QED BY <1>1, <2>2, SettleHolds
<1> QED BY <1>2, <1>3

\* A step of the running operation that only moves on, from an operation
\* that owns nothing yet or no more.
LEMMA GotoHolds ==
    ASSUME TypeOK, NEW h \in Hosts, HostFits(h), owned[h] = None,
           op[h].pc # "free", UNCHANGED <<claim, owned, closed, chain, call>>,
           NEW x, x.pc \notin {"free", "probe", "judge"},
           x.call = op[h].call, x.kind = op[h].kind,
           op' = [op EXCEPT ![h] = x],
           x.pc \in AcquirePcs => op[h].kind \in ClaimKinds
    PROVE  HostFits(h)'
<1>1. op'[h] = x
  BY DEF TypeOK
<1>2. Moves(h) /\ Kept(h)
  BY <1>1 DEF Moves, Kept
<1> QED BY <1>1, <1>2, MoveHolds

LEMMA PublishWonHolds ==
    ASSUME IInv, NEW h \in Hosts, HostFits(h), PublishWon(h)
    PROVE  HostFits(h)'
<1>0. TypeOK /\ OpFits(h)
  BY AliveFacts
<1>1. /\ op[h].pc = "publish" /\ owned[h] = None /\ claim[h].pins = 0
      /\ closed' = closed /\ chain' = chain
      /\ op[h].kind \in ClaimKinds
  BY <1>0 DEF PublishWon, At, OpFits, AcquirePcs, HostFits, PinsFit,
     RunningFitsAt
<1>2. CASE closed[h]
  <2>1. /\ op' = [op EXCEPT ![h].pc = "relRead"]
        /\ UNCHANGED <<owned, claim, call>>
    BY <1>2 DEF PublishWon, Goto
  <2>2. PICK x : x = [op[h] EXCEPT !.pc = "relRead"]
    OBVIOUS
  <2>3. /\ x.pc = "relRead" /\ x.call = op[h].call /\ x.kind = op[h].kind
        /\ op' = [op EXCEPT ![h] = x]
    BY <1>0, <2>1, <2>2, OpType DEF Ops
  <2> QED BY <1>0, <1>1, <2>1, <2>3, GotoHolds DEF AcquirePcs
<1>3. CASE ~closed[h]
  <2> DEFINE c == op[h].call
             to == Granted(h, c)
  <2>1. /\ owned'[h] = op[h].token
        /\ claim'[h] = IF op[h].kind = "claimRun"
                       THEN [pins |-> 1, commandClaim |-> TRUE,
                             handBack |-> FALSE]
                       ELSE NoClaim
        /\ Settle(h, c, to)
    BY <1>0, <1>3 DEF PublishWon, TypeOK
  <2>2. op[h].token # None
    BY <1>0, <1>1 DEF OpFits, AcquirePcs
  <2>3. /\ c \in Calls
        /\ call[h][c] \in WaitsAs(op[h].kind)
    BY <1>0, <1>1, <1>3, OpType DEF HostFits, RunningFitsAt, QueueFits, Ops
  <2>4. call[h][c] = "run" <=> op[h].kind = "claimRun"
    BY <1>1, <2>3 DEF ClaimKinds, WaitsAs
  <2>5. /\ op[h].kind = "claimRun" => to = "body"
        /\ op[h].kind # "claimRun" => to \in {"recheck", "reclaimed"}
    BY <2>4, GrantedPlaces
  <2>6. to \in CallPcs
    BY GrantedType
  <2> HIDE DEF to
  <2>7. Settles(h, to)
    BY <1>0, <1>1, <2>1 DEF Settle, Settles, FreeOp, TypeOK
  <2>8. /\ QueueFits(h)'
        /\ op[h].kind = "claimRun" => Pinning(h)' = Pinning(h) \cup {c}
        /\ op[h].kind # "claimRun" => Pinning(h)' = Pinning(h)
    BY <1>0, <2>3, <2>5, <2>6, <2>7, NoneAssumption, SettlesFits DEF HostFits
  <2>9. Pinning(h) = {}
    BY <1>1, <1>3, NoPinsNoCommands DEF HostFits
  <2>10. PinsFit(h)'
    <3>1. op'[h].pc = "free"
      BY <2>7 DEF Settles
    <3>2. CASE op[h].kind = "claimRun"
      <4>1. Pinning(h)' = {c} /\ claim'[h].pins = 1
        BY <2>1, <2>8, <2>9, <3>2
      <4> QED BY <2>1, <2>2, <3>1, <4>1, FS_Singleton DEF PinsFit
    <3>3. CASE op[h].kind # "claimRun"
      <4>1. Pinning(h)' = {} /\ claim'[h].pins = 0
        BY <2>1, <2>8, <2>9, <3>3 DEF NoClaim
      <4> QED BY <3>1, <4>1, FS_EmptySet DEF PinsFit
    <3> QED BY <3>2, <3>3
  <2>11. CommandsFit(h)'
    <3> SUFFICES ASSUME "eligible" \notin Answers[h]
                 PROVE  CommandsFit(h)'
      BY DEF CommandsFit
    <3>1. op[h].kind = "claimRun" /\ to = "body"
      <4>1. call[h][c] \in Commanding
        BY <2>3 DEF HostFits, CommandsFit
      <4>2. op[h].kind # "claimExec"
        BY <2>3, <4>1 DEF WaitsAs, Commanding
      <4> QED BY <1>1, <2>5, <4>2 DEF ClaimKinds
    <3>2. \A d \in Calls : call'[h][d] \in {call[h][d], "body"}
      BY <1>0, <2>3, <2>7, <3>1 DEF Settles, TypeOK
    <3>3. claim'[h].commandClaim /\ claim'[h].pins # 0
      BY <2>1, <3>1
    <3> QED BY <3>2, <3>3 DEF HostFits, CommandsFit, Commanding
  <2>12. RunningFitsAt(h)'
    BY <2>7 DEF RunningFitsAt, Settles, AcquirePcs
  <2> QED BY <2>8, <2>10, <2>11, <2>12 DEF HostFits
<1> QED BY <1>2, <1>3

LEMMA FileStepHolds ==
    ASSUME IInv, NEW h \in Hosts, HostFits(h), FileStep(h)
    PROVE  HostFits(h)'
<1>0. TypeOK /\ OpFits(h) /\ op[h] \in Ops
  BY AliveFacts, OpType
<1>1. CASE PublishWon(h)
  BY <1>1, PublishWonHolds
<1>2. ASSUME ~PublishWon(h)
      PROVE  /\ op[h].pc \in AcquirePcs \cup ReleasePcs
             /\ owned[h] = None
             /\ chain' = chain /\ closed' = closed
  <2>1. op[h].pc \in AcquirePcs \cup ReleasePcs
    BY <1>2 DEF FileStep, Stat, PublishLost, Read, Busy, ProvenDead,
       IsolateRead, IsolateRename, ReleaseRead, ReleaseRename, At,
       AcquirePcs, ReleasePcs
  <2>2. chain' = chain /\ closed' = closed
    BY <1>2 DEF FileStep, Stat, PublishLost, Read, Busy, ProvenDead,
       IsolateRead, IsolateRename, ReleaseRead, ReleaseRename
  <2> QED BY <1>0, <2>1, <2>2 DEF OpFits
<1>3. CASE \/ ReleaseRead(h) /\ record # op[h].token
           \/ ReleaseRename(h)
  <2>1. Released(h) /\ op[h].pc \in {"relRead", "relRename"}
    BY <1>3 DEF ReleaseRead, ReleaseRename, At
  <2>2. owned[h] = None /\ closed' = closed /\ chain' = chain
    BY <1>0, <1>3, <2>1 DEF OpFits, ReleasePcs, ReleaseRead, ReleaseRename
  <2> QED BY <1>0, <2>1, <2>2, ReleasedHolds
<1>4. CASE ~PublishWon(h) /\ claim' = claim /\ owned' = owned
           /\ Settle(h, op[h].call, "idle")
  <2>1. op[h].pc # "free"
    BY <1>2, <1>4 DEF AcquirePcs, ReleasePcs
  <2>2. Settles(h, "idle") /\ Kept(h)
    BY <1>0, <1>2, <1>4, <2>1 DEF Settle, Settles, FreeOp, Kept, TypeOK
  <2> QED BY <1>0, <1>2, <1>4, <2>2, SettleHolds
<1>5. CASE /\ ~PublishWon(h) /\ claim' = claim /\ owned' = owned
           /\ call' = call
           /\ \E x : /\ op' = [op EXCEPT ![h] = x]
                     /\ x.call = op[h].call /\ x.kind = op[h].kind
                     /\ \/ x.pc \in AcquirePcs /\ op[h].pc \in AcquirePcs
                        \/ x.pc = "relRename"
  <2>1. PICK x : /\ op' = [op EXCEPT ![h] = x]
                 /\ x.call = op[h].call /\ x.kind = op[h].kind
                 /\ \/ x.pc \in AcquirePcs /\ op[h].pc \in AcquirePcs
                    \/ x.pc = "relRename"
    BY <1>5
  <2>2. x.pc \in AcquirePcs => op[h].kind \in ClaimKinds
    BY <2>1 DEF HostFits, RunningFitsAt, AcquirePcs
  <2>3. op[h].pc # "free" /\ x.pc \notin {"free", "probe", "judge"}
    BY <1>2, <1>5, <2>1 DEF AcquirePcs, ReleasePcs
  <2> QED BY <1>0, <1>2, <1>5, <2>1, <2>2, <2>3, GotoHolds
<1>6. ASSUME NEW pc \in OpPcs, Goto(h, pc)
      PROVE  \E x : /\ op' = [op EXCEPT ![h] = x]
                    /\ x.call = op[h].call /\ x.kind = op[h].kind
                    /\ x.pc = pc
  <2>1. PICK x : x = [op[h] EXCEPT !.pc = pc]
    OBVIOUS
  <2>2. op' = [op EXCEPT ![h] = x]
    BY <1>6, <2>1 DEF Goto
  <2>3. x.call = op[h].call /\ x.kind = op[h].kind /\ x.pc = pc
    BY <1>0, <2>1 DEF Ops
  <2> QED BY <2>2, <2>3
<1>7. ASSUME Retry(h)
      PROVE  \E x : /\ op' = [op EXCEPT ![h] = x]
                    /\ x.call = op[h].call /\ x.kind = op[h].kind
                    /\ x.pc = "stat"
  <2>1. PICK x : x = [op[h] EXCEPT !.pc = "stat", !.seen = None]
    OBVIOUS
  <2>2. op' = [op EXCEPT ![h] = x]
    BY <1>0, <1>7, <2>1 DEF Retry, TypeOK
  <2>3. x.call = op[h].call /\ x.kind = op[h].kind /\ x.pc = "stat"
    BY <1>0, <2>1 DEF Ops
  <2> QED BY <2>2, <2>3
<1>8. CASE Stat(h) /\ ~PublishWon(h)
  <2>1. /\ claim' = claim /\ owned' = owned /\ op[h].pc = "stat"
    BY <1>8 DEF Stat, At, memory
  <2>2. CASE closed[h]
    BY <1>4, <1>8, <2>1, <2>2 DEF Stat
  <2>3. CASE ~closed[h]
    <3>1. /\ call' = call
          /\ \E pc \in {"publish", "read"} : Goto(h, pc)
      BY <1>8, <2>3 DEF Stat
    <3> QED BY <1>5, <1>6, <1>8, <2>1, <3>1 DEF AcquirePcs, OpPcs
  <2> QED BY <2>2, <2>3
<1>9. CASE (PublishLost(h) \/ ProvenDead(h)) /\ ~PublishWon(h)
  <2>1. /\ claim' = claim /\ owned' = owned /\ call' = call
        /\ op[h].pc \in AcquirePcs
        /\ \E pc \in {"read", "isoRead"} : Goto(h, pc)
    BY <1>9 DEF PublishLost, ProvenDead, At, memory, AcquirePcs
  <2> QED BY <1>5, <1>6, <1>9, <2>1 DEF AcquirePcs, OpPcs
<1>10. CASE Read(h) /\ ~PublishWon(h)
  <2>1. PICK pc \in {"stat", "classify"} :
           op' = [op EXCEPT ![h].seen = record, ![h].pc = pc]
    BY <1>10 DEF Read
  <2>2. PICK x : x = [op[h] EXCEPT !.seen = record, !.pc = pc]
    OBVIOUS
  <2>3. /\ op' = [op EXCEPT ![h] = x]
        /\ x.call = op[h].call /\ x.kind = op[h].kind /\ x.pc = pc
    BY <1>0, <2>1, <2>2 DEF Ops, TypeOK
  <2>4. /\ claim' = claim /\ owned' = owned /\ call' = call
        /\ op[h].pc \in AcquirePcs /\ x.pc \in AcquirePcs
    BY <1>10, <2>3 DEF Read, At, memory, AcquirePcs
  <2> QED BY <1>5, <1>10, <2>3, <2>4
<1>11. CASE Busy(h) /\ ~PublishWon(h)
  BY <1>4, <1>11 DEF Busy, memory
<1>12. CASE IsolateRead(h) /\ ~PublishWon(h)
  <2>1. /\ claim' = claim /\ owned' = owned /\ call' = call
        /\ op[h].pc \in AcquirePcs
        /\ Goto(h, "isoRename") \/ Retry(h)
    BY <1>12 DEF IsolateRead, At, memory, AcquirePcs
  <2> QED BY <1>5, <1>6, <1>7, <1>12, <2>1 DEF AcquirePcs, OpPcs
<1>13. CASE IsolateRename(h) /\ ~PublishWon(h)
  <2>1. /\ claim' = claim /\ owned' = owned
        /\ op[h].pc \in AcquirePcs
        /\ \/ Retry(h) /\ call' = call
           \/ Settle(h, op[h].call, "idle")
    BY <1>13 DEF IsolateRename, At, memory, AcquirePcs
  <2> QED BY <1>4, <1>5, <1>7, <1>13, <2>1 DEF AcquirePcs
<1>14. CASE ReleaseRead(h) /\ record = op[h].token /\ ~PublishWon(h)
  <2>1. /\ claim' = claim /\ owned' = owned /\ call' = call
        /\ Goto(h, "relRename")
    BY <1>14 DEF ReleaseRead, memory
  <2> QED BY <1>5, <1>6, <1>14, <2>1 DEF OpPcs
<1> QED
  BY <1>1, <1>3, <1>8, <1>9, <1>10, <1>11, <1>12, <1>13, <1>14 DEF FileStep

LEMMA OtherStepHolds ==
    ASSUME IInv, NEW h \in Hosts, HostFits(h),
           IOError(h) \/ Close(h) \/ CloseRelease(h) \/ Crash(h)
    PROVE  HostFits(h)'
<1>0. TypeOK /\ OpFits(h) /\ op[h] \in Ops
  BY AliveFacts, OpType
<1>1. CASE IOError(h)
  <2>1. /\ op[h].pc \in AcquirePcs \cup ReleasePcs
        /\ claim' = claim /\ owned' = owned /\ closed' = closed
        /\ chain' = chain /\ Settle(h, op[h].call, "idle")
    BY <1>0, <1>1 DEF IOError, memory, Ops, OpPcs, AcquirePcs, ReleasePcs
  <2>2. op[h].pc # "free" /\ owned[h] = None
    BY <1>0, <2>1 DEF OpFits, AcquirePcs, ReleasePcs
  <2>3. Settles(h, "idle") /\ Kept(h)
    BY <1>0, <2>1, <2>2 DEF Settle, Settles, FreeOp, Kept, TypeOK
  <2> QED BY <1>0, <2>2, <2>3, SettleHolds
<1>2. CASE Close(h)
  <2>1. /\ closed'[h] = TRUE
        /\ UNCHANGED <<owned, claim, chain, op, call>>
    BY <1>0, <1>2 DEF Close, memory, TypeOK
  <2> QED
    BY <2>1 DEF HostFits, QueueFits, RunningFitsAt, PinsFit, CommandsFit
<1>3. CASE CloseRelease(h)
  <2>1. /\ closed[h] /\ closed' = closed /\ chain' = chain /\ call' = call
        /\ owned'[h] = None /\ claim'[h] = NoClaim
    BY <1>0, <1>3 DEF CloseRelease, TypeOK
  <2>2. op'[h].pc = "relRead" /\ op'[h].call = None
    BY <1>0, <1>3 DEF CloseRelease, ReleaseOp, FreeOp, TypeOK
  <2>3. QueueFits(h)'
    BY <2>1, <2>2 DEF HostFits, QueueFits
  <2>4. RunningFitsAt(h)' /\ PinsFit(h)' /\ CommandsFit(h)'
    BY <2>1, <2>2 DEF HostFits, RunningFitsAt, PinsFit, CommandsFit,
       AcquirePcs, NoClaim
  <2> QED BY <2>3, <2>4 DEF HostFits
<1>4. CASE Crash(h)
  <2>1. /\ chain'[h] = <<>> /\ op'[h] = FreeOp /\ owned'[h] = None
        /\ claim'[h] = NoClaim /\ call'[h] = [c \in Calls |-> "idle"]
    BY <1>0, <1>4 DEF Crash, TypeOK
  <2>2. op'[h].pc = "free" /\ op'[h].call = None /\ claim'[h].pins = 0
    BY <2>1 DEF FreeOp, NoClaim
  <2>3. DOMAIN chain'[h] = {}
    BY <2>1
  <2>4. QueueFits(h)' /\ RunningFitsAt(h)'
    BY <2>2, <2>3 DEF QueueFits, RunningFitsAt, AcquirePcs
  <2>5. Pinning(h)' = {}
    BY <2>1 DEF Pinning
  <2>6. PinsFit(h)'
    BY <2>2, <2>5, FS_EmptySet DEF PinsFit
  <2>7. CommandsFit(h)'
    BY <2>1 DEF CommandsFit, Commanding
  <2> QED BY <2>4, <2>6, <2>7 DEF HostFits
<1> QED BY <1>1, <1>2, <1>3, <1>4

LEMMA HostElsewhere ==
    ASSUME TypeOK, NEW h \in Hosts,
           ChainStep(h) \/ FileStep(h) \/ IOError(h)
           \/ Close(h) \/ CloseRelease(h) \/ Crash(h)
    PROVE  Elsewhere(h)
<1> USE DEF memory
<1>1. \A g \in Hosts \ {h} : closed'[g] = closed[g] /\ chain'[g] = chain[g]
  BY DEF ChainStep, FileStep, Refuse, ClaimOwned, ClaimAnew, AcceptClaim,
     ReleaseUnowned, KeepPinned, ReleaseHandedBack, StartProbe, Probe, Judge,
     Begin, Stat, PublishWon, PublishLost, Read, Busy, ProvenDead,
     IsolateRead, IsolateRename, ReleaseRead, ReleaseRename, IOError, Close,
     CloseRelease, Crash, TypeOK
<1>2. \A g \in Hosts \ {h} : claim'[g] = claim[g] /\ owned'[g] = owned[g]
  BY DEF ChainStep, FileStep, Refuse, ClaimOwned, ClaimAnew, AcceptClaim,
     ReleaseUnowned, KeepPinned, ReleaseHandedBack, StartProbe, Probe, Judge,
     Drop, Forget, Stat, PublishWon, PublishLost, Read, Busy, ProvenDead,
     IsolateRead, IsolateRename, ReleaseRead, ReleaseRename, Released,
     IOError, Close, CloseRelease, Crash, TypeOK
<1>3. \A g \in Hosts \ {h} : op'[g] = op[g] /\ call'[g] = call[g]
  <2>1. \A c, to : Settle(h, c, to) =>
           \A g \in Hosts \ {h} : op'[g] = op[g] /\ call'[g] = call[g]
    BY DEF Settle, TypeOK
  <2>2. \A c, kind : Acquire(h, c, kind) =>
           \A g \in Hosts \ {h} : op'[g] = op[g]
    BY DEF Acquire, TypeOK
  <2>3. \A c, kind : Drop(h, c, kind) =>
           \A g \in Hosts \ {h} : op'[g] = op[g]
    BY DEF Drop, TypeOK
  <2>4. /\ \A pc : Goto(h, pc) => \A g \in Hosts \ {h} : op'[g] = op[g]
        /\ Retry(h) => \A g \in Hosts \ {h} : op'[g] = op[g]
    BY DEF Goto, Retry, TypeOK
  <2>5. CASE ChainStep(h)
    <3>1. CASE ClaimOwned(h) \/ AcceptClaim(h) \/ KeepPinned(h)
      BY <2>1, <3>1 DEF ClaimOwned, AcceptClaim, KeepPinned
    <3>2. CASE ClaimAnew(h) \/ ReleaseUnowned(h)
      BY <2>1, <2>2, <3>2 DEF ClaimAnew, ReleaseUnowned, TypeOK
    <3>3. CASE ReleaseHandedBack(h) \/ StartProbe(h) \/ Probe(h) \/ Refuse(h)
      BY <2>3, <3>3 DEF ReleaseHandedBack, StartProbe, Probe, Refuse, TypeOK
    <3>4. CASE Judge(h)
      BY <2>1, <2>3, <3>4 DEF Judge
    <3> QED BY <2>5, <3>1, <3>2, <3>3, <3>4 DEF ChainStep
  <2>6. CASE FileStep(h)
    <3>1. Released(h) =>
             \A g \in Hosts \ {h} : op'[g] = op[g] /\ call'[g] = call[g]
      BY <2>1, <2>2 DEF Released
    <3>2. CASE Stat(h) \/ PublishWon(h) \/ PublishLost(h) \/ Read(h)
      BY <2>1, <2>4, <3>2 DEF Stat, PublishWon, PublishLost, Read, TypeOK
    <3>3. CASE Busy(h) \/ ProvenDead(h) \/ IsolateRead(h) \/ IsolateRename(h)
      BY <2>1, <2>4, <3>3 DEF Busy, ProvenDead, IsolateRead, IsolateRename
    <3>4. CASE ReleaseRead(h) \/ ReleaseRename(h)
      BY <2>4, <3>1, <3>4 DEF ReleaseRead, ReleaseRename
    <3> QED BY <2>6, <3>2, <3>3, <3>4 DEF FileStep
  <2>7. CASE IOError(h) \/ Close(h) \/ CloseRelease(h) \/ Crash(h)
    BY <2>1, <2>7 DEF IOError, Close, CloseRelease, Crash, TypeOK
  <2> QED BY <2>5, <2>6, <2>7
<1> QED BY <1>1, <1>2, <1>3 DEF Elsewhere

LEMMA HostStepHolds ==
    ASSUME IInv, NEW h \in Hosts, HostFits(h), HostStep(h)
    PROVE  HostFits(h)' /\ Elsewhere(h)
<1>0. TypeOK
  BY AliveFacts
<1>1. CASE ChainStep(h)
  <2> SUFFICES HostFits(h)'
    BY <1>0, <1>1, HostElsewhere
  <2>1. CASE Refuse(h)
    BY <1>0, <2>1, RefuseHolds
  <2>2. CASE ClaimOwned(h) \/ ClaimAnew(h) \/ AcceptClaim(h)
    BY <1>0, <2>2, ClaimOwnedHolds, ClaimAnewHolds, AcceptHolds
  <2>3. CASE \/ ReleaseUnowned(h) \/ KeepPinned(h)
             \/ ReleaseHandedBack(h) \/ StartProbe(h)
    BY <1>0, <2>3, ReleaseStartHolds
  <2>4. CASE Probe(h) \/ Judge(h)
    BY <1>0, <2>4, JudgeHolds
  <2> QED BY <1>1, <2>1, <2>2, <2>3, <2>4 DEF ChainStep
<1>2. CASE FileStep(h)
  BY <1>0, <1>2, FileStepHolds, HostElsewhere
<1>3. CASE IOError(h) \/ Close(h) \/ CloseRelease(h) \/ Crash(h)
  BY <1>0, <1>3, OtherStepHolds, HostElsewhere
<1>4. CASE \E c \in Calls : CallerStep(h, c)
  BY <1>0, <1>4, CallerStepHolds
<1> QED BY <1>1, <1>2, <1>3, <1>4 DEF HostStep

LEMMA CallsInit == Init => CallsInv
<1> SUFFICES ASSUME Init, NEW h \in Hosts PROVE HostFits(h)
  BY CallsInvPerHost
<1>1. /\ chain[h] = <<>> /\ op[h] = FreeOp /\ owned[h] = None
      /\ claim[h] = NoClaim /\ call[h] = [c \in Calls |-> "idle"]
  BY DEF Init
<1>2. op[h].pc = "free" /\ op[h].call = None /\ claim[h].pins = 0
  BY <1>1 DEF FreeOp, NoClaim
<1>3. DOMAIN chain[h] = {}
  BY <1>1
<1>4. QueueFits(h) /\ RunningFitsAt(h)
  BY <1>2, <1>3 DEF QueueFits, RunningFitsAt, AcquirePcs
<1>5. Pinning(h) = {}
  BY <1>1 DEF Pinning
<1>6. PinsFit(h)
  BY <1>2, <1>5, FS_EmptySet DEF PinsFit
<1>7. CommandsFit(h)
  BY <1>1 DEF CommandsFit, Commanding
<1> QED BY <1>4, <1>6, <1>7 DEF HostFits

LEMMA CallsStep == IInv /\ CallsInv /\ [Next]_vars => CallsInv'
<1> SUFFICES ASSUME IInv, CallsInv, [Next]_vars PROVE CallsInv'
  OBVIOUS
<1>1. CASE UNCHANGED vars
  BY <1>1 DEF vars, memory, CallsInv, CallersWait, CallersWaitOnce,
     RunningWaits, RunningFits, PinsCounted, PinsAreOwned, CommandsOnly,
     Pinning
<1>2. ASSUME NEW h \in Hosts, HostStep(h) PROVE CallsInv'
  <2>1. HostFits(h)
    BY CallsInvPerHost
  <2>2. HostFits(h)' /\ Elsewhere(h)
    BY <1>2, <2>1, HostStepHolds
  <2> QED BY <2>2, CallsInvFromHost
<1> QED BY <1>1, <1>2 DEF Next

\* The callers' invariant holds in every reachable state.
THEOREM CallersAreServed == Spec => []CallsInv
BY CallsInit, CallsStep, Invariance, PTL DEF Spec

\* run(): ownership does not end while a command's body runs, however many
\* commands, releases, hand-backs and sweeps overlap, unless close() came.
THEOREM RunsStayOwned == Spec => []RunBodyIsOwned
<1>1. CallsInv => RunBodyIsOwned
  <2> SUFFICES ASSUME CallsInv, NEW h \in Hosts, NEW c \in Calls,
                      call[h][c] = "body", owned[h] = None, ~closed[h]
               PROVE  FALSE
    BY DEF RunBodyIsOwned
  <2>1. PinsFit(h)
    BY CallsInvPerHost DEF HostFits
  <2>2. Pinning(h) = {}
    BY <2>1, NoPinsNoCommands DEF PinsFit
  <2> QED BY <2>2 DEF Pinning
<1> QED BY <1>1, CallersAreServed, PTL

\* run(): on a Host that never serves the Conversation the claim of commands
\* is gone when the last of them is, whatever work is pending.
THEOREM CommandsGiveBack == Spec => []CommandsHandBack
<1>1. IInv /\ CallsInv => CommandsHandBack
  <2> SUFFICES ASSUME IInv, CallsInv, NEW h \in Hosts, Quiet(h), ~closed[h],
                      "eligible" \notin Answers[h], owned[h] # None
               PROVE  FALSE
    BY DEF CommandsHandBack
  <2>1. PinsFit(h) /\ CommandsFit(h)
    BY CallsInvPerHost DEF HostFits
  <2>2. Pinning(h) = {}
    BY DEF Pinning, Quiet
  <2>3. claim[h].pins = 0
    BY <2>1, <2>2, FS_EmptySet DEF PinsFit
  <2> QED BY <2>1, <2>3 DEF CommandsFit, Quiet
<1> QED BY <1>1, CallersAreServed, Invariance, PTL

---------------------------------------------------------------------------
(* The hand-back *)

\* What a step may do to a Host's claim.
ClaimStands(h) == claim'[h] = claim[h]

ClaimEnds(h) == owned'[h] = None /\ claim'[h].handBack = FALSE

ClaimIsFresh(h) == owned[h] = None /\ claim'[h].handBack = FALSE

ClaimIsAccepted(h) ==
    /\ claim'[h].handBack = FALSE
    /\ \E c \in Calls : call[h][c] = "accept" /\ call'[h][c] = "idle"

ClaimIsPinned(h) ==
    /\ claim'[h].pins > 0
    /\ claim[h].handBack => claim'[h].handBack

ClaimIsProbed(h) == ~claim[h].handBack /\ ~claim'[h].handBack

ClaimMoves(h) == \/ ClaimStands(h) \/ ClaimEnds(h) \/ ClaimIsFresh(h)
                 \/ ClaimIsAccepted(h) \/ ClaimIsPinned(h) \/ ClaimIsProbed(h)

LEMMA AcceptMoves ==
    ASSUME TypeOK, NEW h \in Hosts, HostFits(h), AcceptClaim(h)
    PROVE  ClaimMoves(h)
<1>1. /\ claim'[h].handBack = FALSE
      /\ call'[h] = [call[h] EXCEPT ![Waiting(h).call] = "idle"]
  <2>1. claim[h] \in Claims /\ Waiting(h).call # None
    BY HeadIsItem, NoneAssumption DEF AcceptClaim, Begin, TypeOK
  <2> QED BY <2>1 DEF AcceptClaim, Settle, Claims, TypeOK
<1>2. Waiting(h).call \in Calls /\ call[h][Waiting(h).call] = "accept"
  <2>1. /\ Waiting(h).call \in Calls /\ 1 \in DOMAIN chain[h]
        /\ Waiting(h) = chain[h][1] /\ Waiting(h).kind = "accept"
    BY HeadIsItem, HeadFacts DEF AcceptClaim, Begin
  <2> QED BY <2>1 DEF HostFits, QueueFits, WaitsAs
<1>3. call'[h][Waiting(h).call] = "idle"
  BY <1>1, <1>2 DEF TypeOK
<1> QED BY <1>1, <1>2, <1>3 DEF ClaimMoves, ClaimIsAccepted

LEMMA UpdatedHandBack ==
    ASSUME TypeOK, NEW h \in Hosts
    PROVE  claim[h].handBack => Updated(h).handBack
<1>1. claim[h] \in Claims
  BY DEF TypeOK
<1> QED BY <1>1 DEF Updated, Claims

LEMMA ChainMoves ==
    ASSUME TypeOK, NEW h \in Hosts, HandBackPinned, HostFits(h), ChainStep(h)
    PROVE  ClaimMoves(h)
<1>0. claim[h] \in Claims
  BY DEF TypeOK
<1>1. CASE ClaimOwned(h)
  <2>1. /\ claim'[h].handBack = claim[h].handBack
        /\ claim'[h].pins \in {claim[h].pins, claim[h].pins + 1}
    BY <1>0, <1>1 DEF ClaimOwned, Claims, TypeOK
  <2>2. CASE claim[h].handBack
    <3>1. claim[h].pins > 0 /\ claim[h].pins \in Nat
      BY <1>0, <2>2 DEF HandBackPinned, Claims
    <3> QED BY <2>1, <3>1 DEF ClaimMoves, ClaimIsPinned
  <2>3. CASE ~claim[h].handBack
    BY <2>1, <2>3 DEF ClaimMoves, ClaimIsProbed
  <2> QED BY <2>2, <2>3
<1>2. CASE AcceptClaim(h)
  BY <1>2, AcceptMoves
<1>3. CASE KeepPinned(h)
  <2>1. claim'[h] = Updated(h) /\ Updated(h).pins > 0
    BY <1>3 DEF KeepPinned, TypeOK
  <2> QED BY <2>1, UpdatedHandBack DEF ClaimMoves, ClaimIsPinned
<1>4. CASE StartProbe(h)
  <2>1. claim'[h] = Updated(h) /\ ~Updated(h).handBack
    BY <1>4 DEF StartProbe, SkipsProbe, TypeOK
  <2> QED BY <2>1, UpdatedHandBack DEF ClaimMoves, ClaimIsProbed
<1>5. CASE ReleaseHandedBack(h)
  <2>1. owned'[h] = None /\ claim'[h] = NoClaim
    BY <1>5 DEF ReleaseHandedBack, Drop, Forget, TypeOK
  <2> QED BY <2>1 DEF ClaimMoves, ClaimEnds, NoClaim
<1>6. CASE Judge(h)
  <2>1. claim' = claim \/ (owned'[h] = None /\ claim'[h] = NoClaim)
    BY <1>6 DEF Judge, Drop, Forget, memory, TypeOK
  <2> QED BY <2>1 DEF ClaimMoves, ClaimStands, ClaimEnds, NoClaim
<1>7. CASE Refuse(h) \/ ClaimAnew(h) \/ ReleaseUnowned(h) \/ Probe(h)
  <2>1. claim' = claim
    BY <1>7 DEF Refuse, ClaimAnew, ReleaseUnowned, Probe, memory
  <2> QED BY <2>1 DEF ClaimMoves, ClaimStands
<1> QED BY <1>1, <1>2, <1>3, <1>4, <1>5, <1>6, <1>7 DEF ChainStep

LEMMA HostMoves ==
    ASSUME IInv, NEW h \in Hosts, HandBackPinned, HostFits(h), HostStep(h)
    PROVE  ClaimMoves(h)
<1>0. TypeOK
  BY AliveFacts
<1>1. CASE ChainStep(h)
  BY <1>0, <1>1, ChainMoves
<1>2. CASE PublishWon(h)
  <2>1. owned[h] = None
    BY <1>2 DEF PublishWon, At, IInv, AcquiringIsClean, AcquirePcs
  <2>2. claim' = claim \/ claim'[h].handBack = FALSE
    BY <1>0, <1>2 DEF PublishWon, NoClaim, TypeOK
  <2> QED BY <2>1, <2>2 DEF ClaimMoves, ClaimStands, ClaimIsFresh
<1>3. CASE FileStep(h) /\ ~PublishWon(h)
  <2>1. claim' = claim
    BY <1>3 DEF FileStep, Stat, PublishLost, Read, Busy, ProvenDead,
       IsolateRead, IsolateRename, ReleaseRead, ReleaseRename, Released, memory
  <2> QED BY <2>1 DEF ClaimMoves, ClaimStands
<1>4. CASE IOError(h) \/ Close(h)
  <2>1. claim' = claim
    BY <1>4 DEF IOError, Close, memory
  <2> QED BY <2>1 DEF ClaimMoves, ClaimStands
<1>5. CASE CloseRelease(h) \/ Crash(h)
  <2>1. owned'[h] = None /\ claim'[h] = NoClaim
    BY <1>0, <1>5 DEF CloseRelease, Crash, TypeOK
  <2> QED BY <2>1 DEF ClaimMoves, ClaimEnds, NoClaim
<1>6. CASE \E c \in Calls : CallerStep(h, c)
  <2>1. claim' = claim
    BY <1>6 DEF CallerStep, BeginRun, EndBody, BeginExecute, Recheck,
       KeepFirstCheck, BeginRelease, BeginHandBack, NewCall, QueueCall, memory
  <2> QED BY <2>1 DEF ClaimMoves, ClaimStands
<1> QED BY <1>1, <1>2, <1>3, <1>4, <1>5, <1>6 DEF HostStep

LEMMA ClaimStep ==
    ASSUME IInv, CallsInv, HandBackPinned, [Next]_vars, NEW h \in Hosts
    PROVE  ClaimMoves(h)
<1>0. TypeOK /\ HostFits(h)
  BY AliveFacts, CallsInvPerHost
<1>1. CASE UNCHANGED vars
  BY <1>1 DEF vars, memory, ClaimMoves, ClaimStands
<1>2. ASSUME NEW g \in Hosts, HostStep(g) PROVE ClaimMoves(h)
  <2>1. CASE g = h
    BY <1>0, <1>2, <2>1, HostMoves
  <2>2. CASE g # h
    <3>1. HostFits(g)
      BY CallsInvPerHost
    <3>2. Elsewhere(g)
      BY <1>2, <3>1, HostStepHolds
    <3> QED BY <2>2, <3>2 DEF Elsewhere, ClaimMoves, ClaimStands
  <2> QED BY <2>1, <2>2
<1> QED BY <1>1, <1>2 DEF Next

LEMMA HandBackStep ==
    IInv /\ CallsInv /\ HandBackPinned /\ [Next]_vars => HandBackPinned'
<1> SUFFICES ASSUME IInv, CallsInv, HandBackPinned, [Next]_vars,
                    NEW h \in Hosts, claim'[h].handBack
             PROVE  claim'[h].pins > 0
  BY DEF HandBackPinned
<1>1. ClaimMoves(h)
  BY ClaimStep
<1>2. CASE ClaimStands(h)
  BY <1>2 DEF ClaimStands, HandBackPinned
<1>3. CASE ClaimIsPinned(h)
  BY <1>3 DEF ClaimIsPinned
<1> QED BY <1>1, <1>2, <1>3 DEF ClaimMoves, ClaimEnds, ClaimIsFresh,
           ClaimIsAccepted, ClaimIsProbed

LEMMA HandBackInit == Init => HandBackPinned
BY DEF Init, HandBackPinned, NoClaim

\* A claim is pinned by a command that runs, or by one close() cut off.
PinsHaveCommands ==
    \A h \in Hosts : claim[h].pins > 0 => closed[h] \/ Pinning(h) # {}

LEMMA PinnedByCommands == CallsInv => PinsHaveCommands
<1> SUFFICES ASSUME CallsInv, NEW h \in Hosts, claim[h].pins > 0, ~closed[h]
             PROVE  Pinning(h) # {}
  BY DEF PinsHaveCommands
<1>1. PinsFit(h)
  BY CallsInvPerHost DEF HostFits
<1> QED BY <1>1, FS_EmptySet DEF PinsFit

\* handBack(): a hand-back that was asked for while commands pin the claim
\* gives the claim back with the last of them, unless an execution claim is
\* accepted first: no overlapping run forgets it and no pending work vetoes it.
THEOREM HandBacksStand == Spec => HandBackStands
<1> DEFINE Stands(h) ==
              claim[h].handBack =>
                 \/ claim'[h].handBack /\ (closed'[h] \/ Pinning(h)' # {})
                 \/ owned'[h] = None
                 \/ \E c \in Calls : call[h][c] = "accept" /\ call'[h][c] = "idle"
<1>1. ASSUME IInv, CallsInv, PinsHaveCommands', HandBackPinned, HandBackPinned',
             [Next]_vars, NEW h \in Hosts
      PROVE  Stands(h)
  <2> SUFFICES ASSUME claim[h].handBack,
                      owned'[h] # None,
                      ~\E c \in Calls : call[h][c] = "accept" /\ call'[h][c] = "idle"
               PROVE  claim'[h].handBack /\ (closed'[h] \/ Pinning(h)' # {})
    OBVIOUS
  <2>1. ClaimMoves(h)
    BY <1>1, ClaimStep
  <2>2. owned[h] # None
    <3>1. PinsFit(h) /\ claim[h].pins > 0
      BY <1>1, CallsInvPerHost DEF HostFits, HandBackPinned
    <3> QED BY <3>1 DEF PinsFit
  <2>3. claim'[h].handBack
    BY <2>1, <2>2 DEF ClaimMoves, ClaimStands, ClaimEnds, ClaimIsFresh,
       ClaimIsAccepted, ClaimIsPinned, ClaimIsProbed
  <2>4. claim'[h].pins > 0
    BY <1>1, <2>3 DEF HandBackPinned
  <2>5. closed'[h] \/ Pinning(h)' # {}
    BY <1>1, <2>4 DEF PinsHaveCommands
  <2> QED BY <2>3, <2>5
<1>2. IInv /\ CallsInv /\ PinsHaveCommands' /\ HandBackPinned /\ HandBackPinned'
         /\ [Next]_vars => [\A h \in Hosts : Stands(h)]_vars
  BY <1>1
<1>3. Spec => []HandBackPinned
  BY HandBackInit, HandBackStep, CallersAreServed, Invariance, PTL DEF Spec
<1>4. Spec => [][\A h \in Hosts : Stands(h)]_vars
  BY <1>2, <1>3, PinnedByCommands, CallersAreServed, Invariance, PTL DEF Spec
<1> QED BY <1>4 DEF HandBackStands
=============================================================================
