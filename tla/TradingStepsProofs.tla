------------------------- MODULE TradingStepsProofs -------------------------
(***************************************************************************)
(* The helper, its answers, submissions, cancellations and pulls keep the  *)
(* invariant SysInv of TradingTypesProofs.                                 *)
(***************************************************************************)
EXTENDS TradingTypesProofs

\* Zenon proves what no pragma names.
USE ZenonT(60)

-----------------------------------------------------------------------------
(* The helper and its answers keep the invariant.                          *)

\* The helper takes a write from its pipe: what the pipe will have done in
\* the end is the same before and after.
LEMMA HelperWritesKeeps ==
    ASSUME IInv, SysInv, SysTypeOK', HelperWrites, UNCHANGED session
    PROVE  SysInv'
<1> USE DEF SysInv
<1>1. PICK m \in Sent : m = Head(pipe) /\ m = pipe[1] /\ 1 \in DOMAIN pipe
    BY SMTT(30) DEF HelperWrites, SysTypeOK, PipeTypeOK
<1>2. /\ pipe # << >> /\ pipe' = Tail(pipe) /\ ~IsRead(m)
      /\ replies' = replies \cup WriteAck(m)
      /\ UNCHANGED <<engineVars, bookVars, reads, pulls>>
    BY <1>1 DEF HelperWrites
<1>3. ~closed /\ ~closed'
    BY <1>2 DEF ClosedIsEmpty, engineVars, storageVars
<1>4. ClosedIsEmpty'
    BY <1>3 DEF ClosedIsEmpty
<1>5. PullsAreCounted'
    BY <1>2 DEF PullsAreCounted, engineVars, windowVars
<1>6. /\ Len(pipe) \in Nat \ {0} /\ Len(pipe') = Len(pipe) - 1
      /\ DOMAIN pipe = 1..Len(pipe) /\ DOMAIN pipe' = 1..Len(pipe')
      /\ \A k \in DOMAIN pipe' : k + 1 \in DOMAIN pipe /\ pipe'[k] = pipe[k + 1]
      /\ store' = Handled(store, Head(pipe)) => \A k \in 0..Len(pipe') : After(k)' = After(k + 1)
    BY <1>2, HelperShifts
<1>7. \A a \in replies' : a \in replies \/ (m.type = "order" /\ a.type = "order" /\ a.id = m.id)
    BY <1>2, SMTT(30) DEF WriteAck
<1>8. RequestsAreOwn'
    BY <1>2, <1>6, <1>7, SMTT(30) DEF RequestsAreOwn, Asked, AnsweredFor
<1>9. ASSUME Numbered'
      PROVE  store' = Handled(store, m) /\ Numbered /\ store.kind' = store.kind
  <2>1. store' = ApplyWrite(store, Head(pipe)) /\ UNCHANGED faults
      BY <1>9 DEF HelperWrites, Fault, Numbered
  <2>2. store' = Handled(store, m)
      BY <1>1, <1>2, <2>1, HeadType DEF SysTypeOK
  <2>3. store.kind' = store.kind
      BY <2>2, HandledType, SMTT(30) DEF SysTypeOK, StoreTypeOK, Stores, Sent
  <2> QED
      BY <1>9, <2>1, <2>2, <2>3 DEF Numbered
<1>10. ASSUME Numbered'
       PROVE  IdsAreKnown'
  <2>1. IdsAreKnown /\ store' = Handled(store, m)
      BY <1>9, <1>10
  <2>2. Ids(store.info) \subseteq Ids(store'.info) /\ (m.type = "order" => m.id \in Ids(store'.info))
      BY <2>1, HandledIds, SMT DEF SysTypeOK, StoreTypeOK, Stores, Sent
  <2>3. UNCHANGED <<recorded, next_assign_seq>> /\ \A s : OrderId(s)' = OrderId(s)
      BY <1>2 DEF engineVars, historyVars, OrderId
  <2>4. \A s \in recorded' : OrderId(s)' \in Ids(store'.info)
      BY <2>1, <2>2, <2>3 DEF IdsAreKnown
  <2>5. \A a \in replies' : a.type = "order" => a.id \in Ids(store'.info)
      BY <1>7, <2>1, <2>2 DEF IdsAreKnown
  <2>6. \A x \in store'.info : x.id < OrderId(next_assign_seq)
    <3>1. CASE m.type = "order"
      <4>1. m.id < OrderId(next_assign_seq)
          BY <1>1, <2>1, <3>1 DEF IdsAreKnown
      <4>2. Ids(store'.info) = Ids(store.info) \cup {m.id}
          BY <2>1, <3>1, HandledIds, SMT DEF SysTypeOK, StoreTypeOK, Stores, Sent
      <4>3. \A x \in store'.info : x.id = m.id \/ \E y \in store.info : x.id = y.id
          BY <4>2 DEF Ids
      <4> QED
          BY <2>1, <4>1, <4>3 DEF IdsAreKnown
    <3>2. CASE m.type # "order"
      <4>1. store'.info = store.info
          BY <2>1, <3>2, HandledIds, SMT DEF SysTypeOK, StoreTypeOK, Stores, Sent
      <4> QED
          BY <2>1, <4>1 DEF IdsAreKnown
    <3> QED
        BY <3>1, <3>2
  <2>7. \A k \in DOMAIN pipe' : /\ pipe'[k].type = "order" => pipe'[k].id < OrderId(next_assign_seq)
                                /\ pipe'[k].type = "rest" => pipe'[k].id \in Ids(store'.info)
      BY <1>6, <2>1, <2>2 DEF IdsAreKnown
  <2>8. Ids(store'.resting) \subseteq Ids(store'.info)
    <3>1. CASE m.type = "rest"
      <4>1. Ids(store'.resting) \subseteq Ids(store.resting) \cup {m.id}
          BY <2>1, <3>1, HandledIds DEF SysTypeOK, StoreTypeOK, Stores, Sent
      <4>2. m.id \in Ids(store.info)
          BY <1>1, <2>1, <3>1 DEF IdsAreKnown
      <4> QED
          BY <2>1, <2>2, <4>1, <4>2 DEF IdsAreKnown
    <3>2. CASE m.type # "rest"
      <4>1. Ids(store'.resting) \subseteq Ids(store.resting)
          BY <2>1, <3>2, HandledIds DEF SysTypeOK, StoreTypeOK, Stores, Sent
      <4> QED
          BY <2>1, <2>2, <4>1 DEF IdsAreKnown
    <3> QED
        BY <3>1, <3>2
  <2> QED
      BY <2>3, <2>4, <2>5, <2>6, <2>7, <2>8 DEF IdsAreKnown
<1>11. ASSUME Clean'
       PROVE  CleanInv'
  <2>1. Clean /\ CleanInv /\ \A k \in 0..Len(pipe') : After(k)' = After(k + 1)
      BY <1>1, <1>6, <1>9, <1>11 DEF Clean
  <2>2. UNCHANGED <<truth, pull_ignore, session, next_place_seq, book, pulls, reads>>
      BY <1>2 DEF engineVars, windowVars, bookVars
  <2>3. TruthIsOld' /\ ResidentIsAlive'
      BY <2>1, <2>2 DEF CleanInv, TruthIsOld, ResidentIsAlive, OrderId, AliveRecord
  <2>4. PipeLeadsToTruth'
    <3>1. PICK n \in Nat : n = Len(pipe')
        BY <1>6, SMTT(30)
    <3>2. After(n)' = After(Len(pipe))
        BY <1>6, <2>1, <3>1, SMTT(30)
    <3> QED
        BY <1>3, <2>1, <2>2, <3>1, <3>2 DEF CleanInv, PipeLeadsToTruth, Rows, AliveRecord
  <2>5. \A k \in 0..Len(pipe') : CurrentAfter(k)' <=> CurrentAfter(k + 1)
      BY <2>1, <2>2, CurrentFrame DEF CurrentAfter
  <2>6. \A x : Awaited(x)' <=> Awaited(x)
      BY <2>2 DEF Awaited
  <2>7. ASSUME NEW k \in DOMAIN pipe', Awaited(pipe'[k]), NEW j \in k..Len(pipe')
        PROVE  CurrentAfter(j)'
    <3>1. k + 1 \in DOMAIN pipe /\ Awaited(pipe[k + 1]) /\ j + 1 \in (k + 1)..Len(pipe)
        BY <1>6, <2>7, SMTT(30)
    <3> QED
        BY <1>6, <2>1, <2>5, <3>1, SMTT(30) DEF CleanInv, SnapshotsAreCurrent
  <2>8. ASSUME NEW x \in reads, Awaited(x), NEW j \in 0..Len(pipe')
        PROVE  CurrentAfter(j)'
    <3>1. j + 1 \in 0..Len(pipe)
        BY <1>6, SMTT(30)
    <3> QED
        BY <2>1, <2>5, <2>8, <3>1 DEF CleanInv, SnapshotsAreCurrent
  <2>9. ASSUME NEW a \in replies', Awaited(a)
        PROVE  Current(Range(a.orders))' /\ DistinctIds(a.orders)
    <3>1. a \in replies
        BY <1>7, <2>9 DEF Awaited
    <3> QED
        BY <2>1, <2>2, <2>9, <3>1, CurrentFrame DEF CleanInv, SnapshotsAreCurrent
  <2>10. SnapshotsAreCurrent'
      BY <2>2, <2>6, <2>7, <2>8, <2>9 DEF SnapshotsAreCurrent
  <2> QED
      BY <2>3, <2>4, <2>10 DEF CleanInv
<1> QED
    BY <1>4, <1>5, <1>8, <1>10, <1>11

\* What a pull is answered with: rows of its side, each once.
LEMMA AnswerToIs ==
    ASSUME SysTypeOK, NEW m \in LevelsRequest
    PROVE  /\ AnswerTo(m).type = "levels" /\ AnswerTo(m).req = m.req
           /\ \A i \in DOMAIN AnswerTo(m).orders : AnswerTo(m).orders[i].side = m.side
           /\ Range(AnswerTo(m).orders) \subseteq store.resting
           /\ DistinctIds(AnswerTo(m).orders)
<1>1. PICK q : q = PulledLevels(store, m)
    OBVIOUS
<1>2. m.type = "levels" /\ m.side \in Side
    BY DEF LevelsRequest
<1>3. AnswerTo(m) = [type |-> "levels", req |-> m.req, orders |-> q]
    BY <1>1, <1>2 DEF AnswerTo
<1>4. UniqueRows(store.resting) /\ IsFiniteSet(store.resting) /\ store.resting \in SUBSET Row
    BY DEF SysTypeOK, StoreTypeOK, Stores, Store, Sound
<1>5. /\ \A i \in DOMAIN q : q[i] \in store.resting /\ q[i].side = m.side
      /\ \A i, j \in DOMAIN q : q[i] = q[j] => i = j
    BY <1>1, <1>2, <1>4, PulledLevelsList
<1>6. DistinctIds(q)
    BY <1>4, <1>5 DEF DistinctIds, UniqueRows
<1>7. Range(q) \subseteq store.resting
    BY <1>5 DEF Range
<1> QED
    BY <1>3, <1>5, <1>6, <1>7, SMTT(30)

\* The parts of the invariant that a read of the helper leaves alone.
LEMMA ReadsFrame ==
    ASSUME SysInv, UNCHANGED <<engineVars, bookVars, store, pulls, faults, session>>,
           closed => pipe' = << >> /\ reads' = {} /\ replies' = {},
           \A k \in DOMAIN pipe' : \E j \in DOMAIN pipe : pipe'[k] = pipe[j],
           \A a \in replies' : a \in replies \/ a.type # "order"
    PROVE  /\ ClosedIsEmpty' /\ PullsAreCounted'
           /\ Numbered' => IdsAreKnown'
           /\ Clean' => Clean /\ TruthIsOld' /\ ResidentIsAlive'
<1> USE DEF SysInv
<1>1. UNCHANGED <<closed, depth_pulls, recorded, next_assign_seq, next_place_seq, truth, book>>
    BY DEF engineVars, storageVars, windowVars, historyVars, bookVars
<1>2. ClosedIsEmpty' /\ PullsAreCounted'
    BY <1>1 DEF ClosedIsEmpty, PullsAreCounted
<1>3. ASSUME Numbered' PROVE IdsAreKnown'
  <2>1. IdsAreKnown
      BY <1>3 DEF Numbered
  <2>2. \A s : OrderId(s)' = OrderId(s)
      BY DEF OrderId
  <2> QED
      BY <1>1, <2>1, <2>2 DEF IdsAreKnown
<1>4. ASSUME Clean' PROVE Clean /\ TruthIsOld' /\ ResidentIsAlive'
    BY <1>1, <1>4 DEF Clean, Numbered, CleanInv, TruthIsOld, ResidentIsAlive, OrderId, AliveRecord
<1> QED
    BY <1>2, <1>3, <1>4

\* The helper takes a read from its pipe.
LEMMA HelperStartsReadKeeps ==
    ASSUME IInv, SysInv, SysTypeOK', HelperStartsRead, UNCHANGED session
    PROVE  SysInv'
<1> USE DEF SysInv
<1>1. PICK m \in PositionRequest(Owner) \cup LevelsRequest :
         m = Head(pipe) /\ m = pipe[1] /\ 1 \in DOMAIN pipe /\ IsRead(m)
  <2>1. Head(pipe) \in PositionRequest(Owner) \cup LevelsRequest /\ IsRead(Head(pipe))
      BY HeadType DEF HelperStartsRead, SysTypeOK
  <2>2. Head(pipe) = pipe[1] /\ 1 \in DOMAIN pipe
      BY SMT DEF HelperStartsRead, SysTypeOK, PipeTypeOK
  <2> QED
      BY <2>1, <2>2
<1>2. /\ pipe # << >> /\ pipe' = Tail(pipe)
      /\ UNCHANGED <<engineVars, bookVars, store, pulls, faults, session>>
      /\ \/ /\ store.kind = "reference" /\ UNCHANGED reads
            /\ replies' = replies \cup {AnswerTo(m)}
         \/ store.kind # "reference" /\ UNCHANGED replies /\ reads' = reads \cup {m}
    BY <1>1 DEF HelperStartsRead
<1>3. ~closed /\ ~closed'
    BY <1>2 DEF ClosedIsEmpty, engineVars, storageVars
<1>4. store' = Handled(store, Head(pipe))
    BY <1>1, <1>2 DEF Handled
<1>5. /\ Len(pipe) \in Nat \ {0} /\ Len(pipe') = Len(pipe) - 1
      /\ DOMAIN pipe = 1..Len(pipe) /\ DOMAIN pipe' = 1..Len(pipe')
      /\ \A k \in DOMAIN pipe' : k + 1 \in DOMAIN pipe /\ pipe'[k] = pipe[k + 1]
      /\ \A k \in 0..Len(pipe') : After(k)' = After(k + 1)
    BY <1>2, <1>4, HelperShifts
<1>6. AnswerTo(m).type # "order"
    BY DEF AnswerTo
<1>7. /\ ClosedIsEmpty' /\ PullsAreCounted'
      /\ Numbered' => IdsAreKnown'
      /\ Clean' => Clean /\ TruthIsOld' /\ ResidentIsAlive'
    BY <1>2, <1>3, <1>5, <1>6, ReadsFrame
<1>8. RequestsAreOwn'
  <2>1. Asked(m)
      BY <1>1 DEF RequestsAreOwn
  <2>2. AnsweredFor(AnswerTo(m))
    <3>1. CASE m \in LevelsRequest
        BY <2>1, <3>1, AnswerToIs, SMTT(30) DEF AnsweredFor, Asked, LevelsRequest
    <3>2. CASE m \in PositionRequest(Owner)
        BY <3>2 DEF AnsweredFor, AnswerTo, PositionRequest
    <3> QED
        BY <3>1, <3>2
  <2>3. /\ \A x : Asked(x)' <=> Asked(x)
        /\ \A x : AnsweredFor(x)' <=> AnsweredFor(x)
      BY <1>2 DEF Asked, AnsweredFor
  <2>4. \A x \in reads' : x = m \/ x \in reads
      BY <1>2
  <2>5. \A a \in replies' : a = AnswerTo(m) \/ a \in replies
      BY <1>2
  <2> QED
      BY <1>2, <1>5, <2>1, <2>2, <2>3, <2>4, <2>5, SMTT(30) DEF RequestsAreOwn
<1>9. ASSUME Clean'
      PROVE  PipeLeadsToTruth' /\ SnapshotsAreCurrent'
  <2>1. CleanInv /\ store.kind = "database"
      BY <1>7, <1>9 DEF Clean
  <2>2. UNCHANGED <<truth, pull_ignore, session, pulls, replies>> /\ reads' = reads \cup {m}
      BY <1>2, <2>1 DEF engineVars, windowVars, bookVars
  <2>3. PipeLeadsToTruth'
    <3>1. PICK n \in Nat : n = Len(pipe')
        BY <1>5, SMTT(30)
    <3>2. After(n)' = After(Len(pipe))
        BY <1>5, <3>1, SMTT(30)
    <3> QED
        BY <1>3, <2>1, <2>2, <3>1, <3>2 DEF CleanInv, PipeLeadsToTruth, Rows, AliveRecord
  <2>4. \A k \in 0..Len(pipe') : CurrentAfter(k)' <=> CurrentAfter(k + 1)
      BY <1>5, <2>2, CurrentFrame DEF CurrentAfter
  <2>5. \A x : Awaited(x)' <=> Awaited(x)
      BY <2>2 DEF Awaited
  <2>6. ASSUME NEW k \in DOMAIN pipe', Awaited(pipe'[k]), NEW j \in k..Len(pipe')
        PROVE  CurrentAfter(j)'
    <3>1. k + 1 \in DOMAIN pipe /\ Awaited(pipe[k + 1]) /\ j + 1 \in (k + 1)..Len(pipe)
        BY <1>5, <2>6, SMTT(30)
    <3> QED
        BY <1>5, <2>1, <2>4, <3>1, SMT DEF CleanInv, SnapshotsAreCurrent
  <2>7. ASSUME NEW x \in reads', Awaited(x), NEW j \in 0..Len(pipe')
        PROVE  CurrentAfter(j)'
    <3>1. j + 1 \in 0..Len(pipe) /\ j + 1 \in 1..Len(pipe)
        BY <1>5, SMTT(30)
    <3>2. CASE x = m
        BY <1>1, <2>1, <2>4, <2>7, <3>1, <3>2 DEF CleanInv, SnapshotsAreCurrent
    <3>3. CASE x \in reads
        BY <2>1, <2>4, <2>7, <3>1, <3>3 DEF CleanInv, SnapshotsAreCurrent
    <3> QED
        BY <2>2, <3>2, <3>3
  <2>8. ASSUME NEW a \in replies, Awaited(a)
        PROVE  Current(Range(a.orders))' /\ DistinctIds(a.orders)
      BY <2>1, <2>2, <2>8, CurrentFrame DEF CleanInv, SnapshotsAreCurrent
  <2>9. SnapshotsAreCurrent'
      BY <2>2, <2>5, <2>6, <2>7, <2>8, SMTT(30) DEF SnapshotsAreCurrent
  <2> QED
      BY <2>3, <2>9
<1> QED
    BY <1>7, <1>8, <1>9 DEF CleanInv

\* The helper answers a read from its store, which may be later than the
\* requests that followed the read.
LEMMA HelperReadsKeeps ==
    ASSUME IInv, SysInv, SysTypeOK', NEW m \in reads, HelperReads(m), UNCHANGED session
    PROVE  SysInv'
<1> USE DEF SysInv
<1>1. /\ reads' = reads \ {m} /\ replies' = replies \cup {AnswerTo(m)}
      /\ UNCHANGED <<engineVars, bookVars, store, pipe, pulls, faults, session>>
    BY DEF HelperReads
<1>2. ~closed /\ ~closed'
    BY <1>1 DEF ClosedIsEmpty, engineVars, storageVars
<1>3. AnswerTo(m).type # "order" /\ m \in PositionRequest(Owner) \cup LevelsRequest
    BY DEF AnswerTo, SysTypeOK, PipeTypeOK
<1>4. /\ ClosedIsEmpty' /\ PullsAreCounted'
      /\ Numbered' => IdsAreKnown'
      /\ Clean' => Clean /\ TruthIsOld' /\ ResidentIsAlive'
    BY <1>1, <1>2, <1>3, ReadsFrame
<1>5. AnsweredFor(AnswerTo(m))
  <2>1. Asked(m)
      BY DEF RequestsAreOwn
  <2>2. CASE m \in LevelsRequest
      BY <2>1, <2>2, AnswerToIs, SMT DEF AnsweredFor, Asked, LevelsRequest
  <2>3. CASE m \in PositionRequest(Owner)
      BY <2>3 DEF AnsweredFor, AnswerTo, PositionRequest
  <2> QED
      BY <1>3, <2>2, <2>3
<1>6. RequestsAreOwn'
  <2>1. /\ \A x : Asked(x)' <=> Asked(x)
        /\ \A x : AnsweredFor(x)' <=> AnsweredFor(x)
      BY <1>1 DEF Asked, AnsweredFor
  <2> QED
      BY <1>1, <1>5, <2>1 DEF RequestsAreOwn
<1>7. ASSUME Clean'
      PROVE  PipeLeadsToTruth' /\ SnapshotsAreCurrent'
  <2>1. CleanInv
      BY <1>4, <1>7
  <2>2. UNCHANGED <<truth, pull_ignore, session, pulls, store, pipe>>
      BY <1>1 DEF engineVars, windowVars, bookVars
  <2>3. \A k : After(k)' = After(k)
      BY <2>2 DEF After
  <2>4. PipeLeadsToTruth'
    <3>1. PICK n : n = Len(pipe)
        OBVIOUS
    <3> QED
        BY <1>2, <2>1, <2>2, <2>3, <3>1 DEF CleanInv, PipeLeadsToTruth, Rows, AliveRecord
  <2>5. \A k : CurrentAfter(k)' <=> CurrentAfter(k)
      BY <2>2, <2>3, CurrentFrame, SMT DEF CurrentAfter
  <2>6. \A x : Awaited(x)' <=> Awaited(x)
      BY <2>2 DEF Awaited
  <2>7. ASSUME NEW a \in replies', Awaited(a)
        PROVE  Current(Range(a.orders))' /\ DistinctIds(a.orders)
    <3>1. CASE a \in replies
        BY <2>1, <2>2, <2>7, <3>1, CurrentFrame DEF CleanInv, SnapshotsAreCurrent
    <3>2. CASE a = AnswerTo(m)
      <4>1. m \in LevelsRequest /\ m.type = "levels"
          BY <1>3, <2>7, <3>2 DEF Awaited, AnswerTo, PositionRequest, LevelsRequest
      <4>2. /\ AnswerTo(m).req = m.req /\ Range(a.orders) \subseteq store.resting
            /\ DistinctIds(a.orders)
          BY <3>2, <4>1, AnswerToIs
      <4>3. Awaited(m)
          BY <2>7, <3>2, <4>1, <4>2 DEF Awaited
      <4>4. CurrentAfter(0)
        <5>1. 0 \in 0..Len(pipe)
            BY SMTT(30) DEF SysTypeOK, PipeTypeOK
        <5> QED
            BY <2>1, <4>3, <5>1, SMTT(30) DEF CleanInv, SnapshotsAreCurrent
      <4>5. Current(store.resting)
          BY <4>4, AppliedRec DEF CurrentAfter, After
      <4>6. Current(Range(a.orders))
          BY <4>2, <4>5 DEF Current
      <4> QED
          BY <2>2, <4>2, <4>6, CurrentFrame
    <3> QED
        BY <1>1, <3>1, <3>2
  <2>8. SnapshotsAreCurrent'
      BY <1>1, <2>1, <2>2, <2>5, <2>6, <2>7 DEF SnapshotsAreCurrent, CleanInv
  <2> QED
      BY <2>4, <2>8
<1> QED
    BY <1>4, <1>6, <1>7 DEF CleanInv

-----------------------------------------------------------------------------
(* Answers and deadlines keep the invariant.                               *)

\* A step that only takes answers away and fewer pulls than before are open.
LEMMA FewerAnswers ==
    ASSUME SysInv, UNCHANGED <<store, pipe, reads, truth, closed, next_assign_seq, next_place_seq, session>>,
           replies' \subseteq replies, pulls' \subseteq pulls, faults \subseteq faults',
           \A s \in recorded' \ recorded : \E a \in replies : a.type = "order" /\ a.id = OrderId(s),
           pull_ignore' = pull_ignore \/ pulls' = {}
    PROVE  /\ ClosedIsEmpty' /\ RequestsAreOwn'
           /\ Numbered' => IdsAreKnown'
           /\ Clean' => Clean /\ TruthIsOld' /\ PipeLeadsToTruth' /\ SnapshotsAreCurrent'
<1> USE DEF SysInv
<1>1. ClosedIsEmpty' /\ RequestsAreOwn'
  <2>1. /\ \A x : Asked(x) => Asked(x)'
        /\ \A x : AnsweredFor(x) => AnsweredFor(x)'
      BY DEF Asked, AnsweredFor
  <2>2. RequestsAreOwn'
      BY <2>1 DEF RequestsAreOwn
  <2>3. ClosedIsEmpty'
      BY DEF ClosedIsEmpty
  <2> QED
      BY <2>2, <2>3
<1>2. (Numbered' => Numbered) /\ (Clean' => Clean)
    BY FaultsStay
<1>3. ASSUME Numbered' PROVE IdsAreKnown'
  <2>1. \A s : OrderId(s)' = OrderId(s)
      BY DEF OrderId
  <2>2. IdsAreKnown
      BY <1>2, <1>3
  <2>3. \A s \in recorded' : OrderId(s) \in Ids(store.info)
      BY <2>2 DEF IdsAreKnown
  <2> QED
      BY <2>1, <2>2, <2>3 DEF IdsAreKnown
<1>4. ASSUME Clean' PROVE TruthIsOld' /\ PipeLeadsToTruth' /\ SnapshotsAreCurrent'
  <2>1. CleanInv
      BY <1>2, <1>4
  <2>2. TruthIsOld'
      BY <2>1 DEF CleanInv, TruthIsOld, OrderId
  <2>3. \A k : After(k)' = After(k)
      BY DEF After
  <2>4. PipeLeadsToTruth'
    <3>1. PICK n : n = Len(pipe)
        OBVIOUS
    <3> QED
        BY <2>1, <2>3, <3>1 DEF CleanInv, PipeLeadsToTruth, Rows, AliveRecord
  <2>5. SnapshotsAreCurrent'
    <3>1. CASE pulls' = {}
        BY <3>1 DEF SnapshotsAreCurrent, Awaited
    <3>2. CASE pull_ignore' = pull_ignore
      <4>1. \A k : CurrentAfter(k)' <=> CurrentAfter(k)
          BY <2>3, <3>2, CurrentFrame DEF CurrentAfter
      <4>2. \A S : Current(S)' <=> Current(S)
          BY <3>2, CurrentFrame
      <4>3. \A x : Awaited(x)' => Awaited(x)
          BY DEF Awaited
      <4> QED
          BY <2>1, <4>1, <4>2, <4>3 DEF SnapshotsAreCurrent, CleanInv
    <3> QED
        BY <3>1, <3>2
  <2> QED
      BY <2>2, <2>4, <2>5
<1> QED
    BY <1>1, <1>2, <1>3, <1>4

\* The answers to a report and to a position pull, and their deadlines.
LEMMA OtherAnswersKeep ==
    ASSUME IInv, SysInv, SysTypeOK', UNCHANGED session,
           \/ \E r \in replies : DeliverOrder(r)
           \/ \E r \in replies, key \in Key : DeliverPosition(r, key)
           \/ \E s \in SeqNo : TimeOutOrder(s)
           \/ \E key \in Key : TimeOutPosition(key)
    PROVE  SysInv'
<1> USE DEF SysInv
<1>1. /\ UNCHANGED <<store, pipe, reads, pulls, truth, book>>
      /\ UNCHANGED <<closed, next_assign_seq, next_place_seq, depth_pulls, pull_ignore>>
    BY DEF DeliverOrder, DeliverPosition, TimeOutOrder, TimeOutPosition, ReportReply, PositionReply,
       bookVars, helperVars, engineVars, storageVars, windowVars
<1>2. replies' \subseteq replies /\ faults \subseteq faults'
    BY DEF DeliverOrder, DeliverPosition, TimeOutOrder, TimeOutPosition, Fault, helperVars
<1>3. \A s \in recorded' \ recorded : \E a \in replies : a.type = "order" /\ a.id = OrderId(s)
  <2>1. ASSUME NEW a \in replies, DeliverOrder(a)
        PROVE  \A s \in recorded' \ recorded : a.type = "order" /\ a.id = OrderId(s)
    <3>1. CASE UNCHANGED engineVars
        BY <3>1 DEF engineVars, historyVars
    <3>2. ASSUME NEW s \in reports, a.id = OrderId(s), ReportReply(s, TRUE)
          PROVE  \A x \in recorded' \ recorded : a.id = OrderId(x)
      <4>1. recorded' = recorded \cup {s}
          BY <3>2 DEF ReportReply
      <4> QED
          BY <3>2, <4>1
    <3> QED
        BY <2>1, <3>1, <3>2 DEF DeliverOrder
  <2>2. CASE \E a \in replies, key \in Key : DeliverPosition(a, key)
      BY <2>2 DEF DeliverPosition, PositionReply, engineVars, historyVars
  <2>3. CASE (\E s \in SeqNo : TimeOutOrder(s)) \/ (\E key \in Key : TimeOutPosition(key))
      BY <2>3 DEF TimeOutOrder, TimeOutPosition, ReportReply, PositionReply, historyVars
  <2> QED
      BY <2>1, <2>2, <2>3
<1>4. /\ ClosedIsEmpty' /\ RequestsAreOwn'
      /\ Numbered' => IdsAreKnown'
      /\ Clean' => Clean /\ TruthIsOld' /\ PipeLeadsToTruth' /\ SnapshotsAreCurrent'
    BY <1>1, <1>2, <1>3, FewerAnswers
<1>5. PullsAreCounted'
    BY <1>1 DEF PullsAreCounted
<1>6. Clean' => ResidentIsAlive'
    BY <1>1, <1>4 DEF CleanInv, ResidentIsAlive, AliveRecord
<1> QED
    BY <1>4, <1>5, <1>6 DEF CleanInv

\* A pull ends, with an answer or at its deadline.
LEMMA PullEnds ==
    ASSUME IInv, SysInv, UNCHANGED <<session, store, pipe, reads, truth>>,
           replies' \subseteq replies, faults \subseteq faults',
           PullReply, NEW p \in pulls, pulls' = pulls \ {p}
    PROVE  /\ ClosedIsEmpty' /\ RequestsAreOwn' /\ PullsAreCounted'
           /\ Numbered' => IdsAreKnown'
           /\ Clean' => Clean /\ TruthIsOld' /\ PipeLeadsToTruth' /\ SnapshotsAreCurrent'
<1> USE DEF SysInv
<1>1. UNCHANGED <<closed, next_assign_seq, next_place_seq, recorded>>
    BY DEF PullReply, storageVars, historyVars
<1>2. depth_pulls \in 0..2 /\ depth_pulls > 0 /\ depth_pulls' = depth_pulls - 1
    BY DEF IInv, TypeOK, PullReply
<1>3. PullsAreCounted'
    BY <1>2, SMTT(30) DEF PullsAreCounted
<1>4. pull_ignore' = pull_ignore \/ pulls' = {}
    BY <1>2 DEF PullReply, PullsAreCounted
<1> QED
    BY <1>1, <1>3, <1>4, FewerAnswers

\* A pull whose deadline passes leaves the book as it is.
LEMMA TimeOutLevelsKeeps ==
    ASSUME IInv, SysInv, SysTypeOK', NEW p \in pulls, TimeOutLevels(p), UNCHANGED session
    PROVE  SysInv'
<1> USE DEF SysInv
<1>1. /\ UNCHANGED <<store, pipe, reads, truth, book, replies>> /\ PullReply
      /\ pulls' = pulls \ {p} /\ faults \subseteq faults'
    BY DEF TimeOutLevels, bookVars, Fault
<1>2. /\ ClosedIsEmpty' /\ RequestsAreOwn' /\ PullsAreCounted'
      /\ Numbered' => IdsAreKnown'
      /\ Clean' => Clean /\ TruthIsOld' /\ PipeLeadsToTruth' /\ SnapshotsAreCurrent'
    BY <1>1, PullEnds
<1>3. Clean' => ResidentIsAlive'
    BY <1>1, <1>2 DEF CleanInv, ResidentIsAlive, AliveRecord
<1> QED
    BY <1>2, <1>3 DEF CleanInv

\* What on_pull inserts is alive, and not resident yet.
LEMMA MaterializedIsAlive ==
    ASSUME SysTypeOK, ResidentIsAlive, NEW orders \in Seq(Row), NEW side \in Side,
           \A i \in DOMAIN orders : orders[i].side = side,
           Current(Range(orders)), DistinctIds(orders),
           UNCHANGED truth, book' = book \o Materialized(orders, side)
    PROVE  ResidentIsAlive'
<1>1. PICK q \in Seq(Resident(Account)) : q = Materialized(orders, side)
    BY MaterializedEntries
<1>2. /\ \A n \in DOMAIN q : \E i \in DOMAIN orders :
            /\ orders[i].id \notin Ignored /\ orders[i].id \notin IdsOf(book)
            /\ q[n] = [id |-> orders[i].id, owner |-> Anonymous, side |-> side,
                       price |-> orders[i].price, leaves |-> orders[i].leaves,
                       rank |-> orders[i].seq]
      /\ DistinctIds(q)
    BY <1>1, MaterializedEntries DEF Ignored
<1>3. ASSUME NEW n \in DOMAIN q
      PROVE  AliveRecord(q[n], q[n].rank) \in truth /\ q[n].id \notin IdsOf(book)
  <2>1. PICK i \in DOMAIN orders :
           /\ orders[i].id \notin Ignored /\ orders[i].id \notin IdsOf(book)
           /\ q[n] = [id |-> orders[i].id, owner |-> Anonymous, side |-> side,
                      price |-> orders[i].price, leaves |-> orders[i].leaves,
                      rank |-> orders[i].seq]
      BY <1>2
  <2>2. PICK r \in Row : r = orders[i] /\ r.side = side
      BY SMTT(30)
  <2>3. r \in Range(orders) /\ AliveRecord(r, r.seq) \in truth
      BY <2>1, <2>2 DEF Current, Range
  <2>4. q[n].id = r.id /\ AliveRecord(q[n], q[n].rank) = AliveRecord(r, r.seq)
      BY <2>1, <2>2, SMT DEF AliveRecord
  <2> QED
      BY <2>1, <2>2, <2>3, <2>4
<1>4. book \in Seq(Resident(Account)) /\ book' = book \o q
    BY <1>1 DEF SysTypeOK, BookTypeOK
<1>5. /\ Len(book) \in Nat /\ Len(q) \in Nat /\ DOMAIN book = 1..Len(book) /\ DOMAIN q = 1..Len(q)
      /\ DOMAIN book' = 1..(Len(book) + Len(q))
      /\ \A i \in DOMAIN book' : i \in DOMAIN book => book'[i] = book[i]
      /\ \A i \in DOMAIN book' : i \notin DOMAIN book =>
            i - Len(book) \in DOMAIN q /\ book'[i] = q[i - Len(book)]
    BY <1>4, SMT
<1>6. \A i \in DOMAIN book : book[i].id \in IdsOf(book)
    BY DEF IdsOf
<1>7. \A i \in DOMAIN book' : AliveRecord(book'[i], book'[i].rank) \in truth
    BY <1>3, <1>5 DEF ResidentIsAlive
<1>8. ASSUME NEW i \in DOMAIN book', NEW j \in DOMAIN book', book'[i].id = book'[j].id
      PROVE  i = j
  <2>1. CASE i \in DOMAIN book /\ j \in DOMAIN book
      BY <1>5, <1>8, <2>1 DEF ResidentIsAlive
  <2>2. CASE i \in DOMAIN book /\ j \notin DOMAIN book
      BY <1>3, <1>5, <1>6, <1>8, <2>2
  <2>3. CASE i \notin DOMAIN book /\ j \in DOMAIN book
      BY <1>3, <1>5, <1>6, <1>8, <2>3
  <2>4. CASE i \notin DOMAIN book /\ j \notin DOMAIN book
    <3>1. PICK a \in DOMAIN q : a = i - Len(book) /\ book'[i] = q[a]
        BY <1>5, <2>4
    <3>2. PICK b \in DOMAIN q : b = j - Len(book) /\ book'[j] = q[b]
        BY <1>5, <2>4
    <3>3. a = b
        BY <1>2, <1>8, <3>1, <3>2 DEF DistinctIds
    <3> QED
        BY <1>5, <3>1, <3>2, <3>3, SMT
  <2> QED
      BY <2>1, <2>2, <2>3, <2>4
<1> QED
    BY <1>7, <1>8 DEF ResidentIsAlive, AliveRecord

\* An answered pull adds to the book the rows that are alive and not there
\* yet: pull_ignore keeps out what was cancelled or filled meanwhile.
LEMMA DeliverLevelsKeeps ==
    ASSUME IInv, SysInv, SysTypeOK', NEW r \in replies, DeliverLevels(r), UNCHANGED session
    PROVE  SysInv'
<1> USE DEF SysInv
<1>1. /\ r.type = "levels" /\ replies' = replies \ {r}
      /\ UNCHANGED <<store, pipe, reads, truth, faults>>
    BY DEF DeliverLevels
<1>2. CASE UNCHANGED <<engineVars, pulls, book>>
  <2>1. UNCHANGED <<closed, next_assign_seq, next_place_seq, recorded, pull_ignore, depth_pulls>>
      BY <1>2 DEF engineVars, storageVars, windowVars, historyVars
  <2>2. /\ ClosedIsEmpty' /\ RequestsAreOwn'
        /\ Numbered' => IdsAreKnown'
        /\ Clean' => Clean /\ TruthIsOld' /\ PipeLeadsToTruth' /\ SnapshotsAreCurrent'
      BY <1>1, <1>2, <2>1, FewerAnswers
  <2>3. PullsAreCounted'
      BY <1>2, <2>1 DEF PullsAreCounted
  <2>4. Clean' => ResidentIsAlive'
      BY <1>1, <1>2, <2>2 DEF CleanInv, ResidentIsAlive, AliveRecord
  <2> QED
      BY <2>2, <2>3, <2>4 DEF CleanInv
<1>3. ASSUME NEW p \in pulls, p.req = r.req, PullReply, pulls' = pulls \ {p},
             book' = book \o Materialized(r.orders, p.side)
      PROVE  SysInv'
  <2>1. /\ ClosedIsEmpty' /\ RequestsAreOwn' /\ PullsAreCounted'
        /\ Numbered' => IdsAreKnown'
        /\ Clean' => Clean /\ TruthIsOld' /\ PipeLeadsToTruth' /\ SnapshotsAreCurrent'
      BY <1>1, <1>3, PullEnds
  <2>2. r.orders \in Seq(Row) /\ p.side \in Side
      BY <1>1 DEF SysTypeOK, AnswerTypeOK, OrderAnswer, PositionAnswer, LevelsAnswer, LevelsRequest
  <2>3. \A i \in DOMAIN r.orders : r.orders[i].side = p.side
      BY <1>1, <1>3 DEF RequestsAreOwn, AnsweredFor
  <2>4. ASSUME Clean'
        PROVE  ResidentIsAlive'
    <3>1. ResidentIsAlive /\ SnapshotsAreCurrent
        BY <2>1, <2>4 DEF CleanInv
    <3>2. Current(Range(r.orders)) /\ DistinctIds(r.orders)
        BY <1>1, <1>3, <3>1 DEF SnapshotsAreCurrent, Awaited
    <3> QED
        BY <1>1, <1>3, <2>2, <2>3, <3>1, <3>2, MaterializedIsAlive
  <2> QED
      BY <2>1, <2>4 DEF CleanInv
<1> QED
    BY <1>2, <1>3 DEF DeliverLevels

-----------------------------------------------------------------------------
(* Submissions and cancellations keep the invariant.                       *)

\* A submission is refused, or recorded at the end of the queue.
LEMMA SysSubmitKeeps ==
    ASSUME IInv, SysInv, SysTypeOK', NEW sym \in Symbol, NEW owner \in Account, NEW o \in Order,
           SysSubmit(sym, owner, o), UNCHANGED session
    PROVE  SysInv'
<1> USE DEF SysInv
<1>1. PICK x \in Sent : x = OrderMsg(OrderId(next_assign_seq), owner, o.side)
    BY OrderIdType, SystemConstants, RequestMsgTypes, SMT DEF IInv, TypeOK
<1>2. PullsPosition(sym, owner) => PositionMsg(owner) \in Sent
    BY RequestMsgTypes DEF PullsPosition, PositionAvailable, Account
<1>3. PICK ms \in Seq(Sent) :
         /\ Send(ms)
         /\ \A i \in 1..Len(ms) : ms[i].type = "position" \/ ms[i] = x
  <2>1. CASE PullsPosition(sym, owner)
    <3>1. PICK y \in Sent : y = PositionMsg(owner)
        BY <1>2, <2>1
    <3>2. PICK q : q = <<y>> \o <<x>>
        OBVIOUS
    <3>3. q \in Seq(Sent) /\ Len(q) = 2 /\ q[1] = y /\ q[2] = x
        BY <3>2, SMT
    <3>4. Send(q) /\ y.type = "position"
        BY <1>1, <2>1, <3>1, <3>2 DEF SysSubmit, PositionMsg
    <3>5. \A i \in 1..Len(q) : i = 1 \/ i = 2
        BY <3>3, SMTT(30)
    <3> QED
        BY <3>3, <3>4, <3>5
  <2>2. CASE ~PullsPosition(sym, owner)
    <3>1. PICK q : q = << >> \o <<x>>
        OBVIOUS
    <3>2. q \in Seq(Sent) /\ Len(q) = 1 /\ q[1] = x
        BY <3>1, SMT
    <3>3. Send(q)
        BY <1>1, <2>2, <3>1 DEF SysSubmit
    <3>4. \A i \in 1..Len(q) : i = 1
        BY <3>2, SMTT(30)
    <3> QED
        BY <3>2, <3>3, <3>4
  <2> QED
      BY <2>1, <2>2
<1>4. /\ UNCHANGED <<truth, book, store, reads, replies, pulls, faults, session>>
      /\ UNCHANGED <<closed, next_place_seq, depth_pulls, pull_ignore, recorded>>
      /\ next_assign_seq' = next_assign_seq + 1
    BY DEF SysSubmit, Submit, bookVars, windowVars
<1>5. x.type = "order" /\ x.id = OrderId(next_assign_seq)
    BY <1>1 DEF OrderMsg
<1>6. PullsAreCounted'
    BY <1>4 DEF PullsAreCounted
<1>7. ClosedIsEmpty'
    BY <1>3, <1>4, ClosedTakesNothing DEF ClosedIsEmpty
<1>8. ASSUME NEW k \in DOMAIN pipe'
      PROVE  \/ k \in DOMAIN pipe /\ pipe'[k] = pipe[k]
             \/ ~closed /\ k \notin DOMAIN pipe /\ (pipe'[k].type = "position" \/ pipe'[k] = x)
  <2>1. CASE closed
      BY <1>3, <2>1, ClosedTakesNothing
  <2>2. CASE ~closed
      BY <1>3, <1>4, <2>2, SendExtends
  <2> QED
      BY <2>1, <2>2
<1>9. RequestsAreOwn'
    BY <1>4, <1>5, <1>8, SMT DEF RequestsAreOwn, Asked, AnsweredFor
<1>10. ASSUME Numbered'
       PROVE  IdsAreKnown'
  <2>1. IdsAreKnown
      BY <1>4, <1>10 DEF Numbered
  <2>2. /\ \A s : OrderId(s)' = OrderId(s)
        /\ OrderId(next_assign_seq) \in Nat
        /\ OrderId(next_assign_seq)' = OrderId(next_assign_seq) + 1
    <3>1. next_assign_seq \in Nat /\ session.id_base \in Nat /\ session' = session
        BY <1>4, SMTT(30) DEF SysTypeOK, IInv, TypeOK
    <3> QED
        BY <1>4, <3>1, SMTT(30) DEF OrderId
  <2>3. \A y \in store.info : y.id < OrderId(next_assign_seq)'
    <3>1. \A y \in store.info : y.id \in Nat
        BY DEF SysTypeOK, StoreTypeOK, Stores, Store
    <3> QED
        BY <2>1, <2>2, <3>1, SMT DEF IdsAreKnown
  <2>4. \A k \in DOMAIN pipe' : pipe'[k].type = "order" => pipe'[k].id < OrderId(next_assign_seq)'
    <3> SUFFICES ASSUME NEW k \in DOMAIN pipe', pipe'[k].type = "order"
                 PROVE  pipe'[k].id < OrderId(next_assign_seq)'
        OBVIOUS
    <3>1. pipe'[k].id \in Nat
      <4>1. pipe'[k] \in Sent
          BY SMT DEF SysTypeOK, PipeTypeOK
      <4>2. pipe'[k] \in OrderRequest(Account)
          BY <4>1, RequestTypes DEF Sent
      <4> QED
          BY <4>2 DEF OrderRequest
    <3> QED
        BY <1>5, <1>8, <2>1, <2>2, <3>1, SMT DEF IdsAreKnown
  <2>5. \A k \in DOMAIN pipe' : pipe'[k].type = "rest" => pipe'[k].id \in Ids(store.info)
      BY <1>5, <1>8, <2>1 DEF IdsAreKnown
  <2> QED
      BY <1>4, <2>1, <2>2, <2>3, <2>4, <2>5 DEF IdsAreKnown
<1>11. ASSUME Clean'
       PROVE  CleanInv'
  <2>1. CleanInv
      BY <1>4, <1>11 DEF Clean, Numbered
  <2>2. TruthIsOld' /\ ResidentIsAlive'
      BY <1>4, <2>1 DEF CleanInv, TruthIsOld, ResidentIsAlive, OrderId, AliveRecord
  <2>3. CASE closed
    <3>1. pipe' = << >> /\ reads' = {} /\ replies' = {} /\ closed'
        BY <1>3, <1>4, <2>3, ClosedTakesNothing
    <3> QED
        BY <2>2, <3>1, SMT DEF CleanInv, PipeLeadsToTruth, SnapshotsAreCurrent
  <2>4. CASE ~closed
    <3>1. LeaveRows(ms)
        BY <1>3, <1>5 DEF LeaveRows
    <3>2. /\ PipeLeadsToTruth'
          /\ \A n \in Len(pipe)..Len(pipe') : CurrentAfter(n)'
          /\ \A n \in 0..Len(pipe) : CurrentAfter(n)' <=> CurrentAfter(n)
        BY <1>3, <1>4, <2>1, <2>4, <3>1, SendKeepsRows
    <3>3. Len(pipe) \in Nat /\ Len(pipe') \in Nat /\ DOMAIN pipe = 1..Len(pipe) /\ Len(pipe) <= Len(pipe')
        BY <1>3, <1>4, <2>4, SendExtends, SMT
    <3>4. (\A y : Awaited(y)' <=> Awaited(y)) /\ (\A S : Current(S)' <=> Current(S))
        BY <1>4, CurrentFrame DEF Awaited
    <3>5. SnapshotsAreCurrent
        BY <2>1 DEF CleanInv
    <3>6. ASSUME NEW k \in DOMAIN pipe', Awaited(pipe'[k]), NEW j \in k..Len(pipe')
          PROVE  CurrentAfter(j)'
      <4>1. k \in DOMAIN pipe /\ Awaited(pipe[k])
          BY <1>4, <1>5, <1>8, <3>6 DEF Awaited
      <4>2. CASE j <= Len(pipe)
          BY <3>2, <3>3, <3>5, <4>1, <4>2, SMTT(30) DEF SnapshotsAreCurrent
      <4>3. CASE j > Len(pipe)
          BY <3>2, <3>3, <4>3, SMTT(30)
      <4> QED
          BY <3>3, <4>1, <4>2, <4>3, SMTT(30)
    <3>7. ASSUME NEW m \in reads, Awaited(m), NEW j \in 0..Len(pipe')
          PROVE  CurrentAfter(j)'
      <4>1. CASE j <= Len(pipe)
          BY <3>2, <3>3, <3>5, <3>7, <4>1, SMTT(30) DEF SnapshotsAreCurrent
      <4>2. CASE j > Len(pipe)
          BY <3>2, <3>3, <4>2, SMTT(30)
      <4> QED
          BY <3>3, <4>1, <4>2, SMTT(30)
    <3>8. SnapshotsAreCurrent'
        BY <1>4, <3>4, <3>5, <3>6, <3>7 DEF SnapshotsAreCurrent
    <3> QED
        BY <2>2, <3>2, <3>8 DEF CleanInv
  <2> QED
      BY <2>3, <2>4
<1> QED
    BY <1>6, <1>7, <1>9, <1>10, <1>11

\* A cancel: the order leaves the book, the live orders and, once the request
\* is handled, the store; a pull in flight is told to ignore it.
LEMMA SysCancelKeeps ==
    ASSUME IInv, SysInv, SysTypeOK', NEW s \in SeqNo, NEW requester \in Account,
           SysCancel(s, requester), UNCHANGED session
    PROVE  SysInv'
<1> USE DEF SysInv
<1>1. PICK id \in Nat : id = OrderId(s)
    BY OrderIdType, SMTT(30) DEF SeqNo
<1>2. PICK m \in Sent : m = CancelMsg(id)
    BY RequestMsgTypes
<1>3. /\ book' = WithoutOrder(book, id) /\ truth' = {t \in truth : t.id # id} /\ Send(<<m>>)
      /\ UNCHANGED <<store, reads, replies, pulls, faults>>
      /\ UNCHANGED <<closed, next_place_seq, next_assign_seq, depth_pulls, recorded>>
      /\ pull_ignore' = IF depth_pulls > 0 THEN pull_ignore \cup {s} ELSE pull_ignore
    BY <1>1, <1>2 DEF SysCancel, Cancel, storageVars, historyVars
<1>4. m.type = "cancel" /\ m.id = id /\ <<m>> \in Seq(Sent)
    BY <1>2, SingleSent DEF CancelMsg
<1>5. PullsAreCounted'
    BY <1>3 DEF PullsAreCounted
<1>6. ClosedIsEmpty'
    BY <1>3, ClosedTakesNothing DEF ClosedIsEmpty
<1>7. ASSUME NEW k \in DOMAIN pipe'
      PROVE  \/ k \in DOMAIN pipe /\ pipe'[k] = pipe[k]
             \/ ~closed /\ k \notin DOMAIN pipe /\ pipe'[k] = m
  <2>1. CASE closed
      BY <1>3, <2>1, ClosedTakesNothing
  <2>2. CASE ~closed
    <3>1. CASE k \in DOMAIN pipe
      <4>1. PICK ms \in Seq(Sent) : ms = <<m>> /\ Send(ms)
          BY <1>3, <1>4
      <4>2. pipe'[k] = pipe[k]
          BY <1>3, <2>2, <3>1, <4>1, SendExtends
      <4> QED
          BY <3>1, <4>2
    <3>2. CASE k \notin DOMAIN pipe
      <4>1. k - Len(pipe) \in 1..Len(<<m>>) /\ pipe'[k] = <<m>>[k - Len(pipe)]
          BY <1>3, <1>4, <2>2, <3>2, SendExtends
      <4>2. \A i \in 1..Len(<<m>>) : <<m>>[i] = m
          BY SMTT(30)
      <4> QED
          BY <2>2, <3>2, <4>1, <4>2
    <3> QED
        BY <3>1, <3>2
  <2> QED
      BY <2>1, <2>2
<1>8. RequestsAreOwn'
    BY <1>3, <1>4, <1>7, SMT DEF RequestsAreOwn, Asked, AnsweredFor
<1>9. ASSUME Numbered'
      PROVE  IdsAreKnown'
  <2>1. IdsAreKnown
      BY <1>3, <1>9 DEF Numbered
  <2>2. \A x : OrderId(x)' = OrderId(x)
      BY DEF OrderId
  <2> QED
      BY <1>3, <1>4, <1>7, <2>1, <2>2 DEF IdsAreKnown
<1>10. ASSUME Clean'
       PROVE  CleanInv'
  <2>1. CleanInv
      BY <1>3, <1>10 DEF Clean, Numbered
  <2>2. TruthIsOld'
      BY <1>3, <2>1 DEF CleanInv, TruthIsOld, OrderId
  <2>3. ResidentIsAlive'
    <3>1. /\ \A n \in DOMAIN book' : \E i \in DOMAIN book : book'[n] = book[i] /\ book[i].id # id
          /\ DistinctIds(book) => DistinctIds(book')
      <4>1. book \in Seq(Resident(Account))
          BY DEF SysTypeOK, BookTypeOK, IInv
      <4>2. /\ \A n \in DOMAIN WithoutOrder(book, id) : \E i \in DOMAIN book :
                  WithoutOrder(book, id)[n] = book[i] /\ book[i].id # id
            /\ DistinctIds(book) => DistinctIds(WithoutOrder(book, id))
          BY <4>1, WithoutOrderEntries, SMTT(30)
      <4>3. book' = WithoutOrder(book, id)
          BY <1>3
      <4> QED
          BY <4>2, <4>3
    <3>2. \A i \in DOMAIN book : AliveRecord(book[i], book[i].rank) \in truth
        BY <2>1 DEF CleanInv, ResidentIsAlive
    <3>3. \A r : AliveRecord(r, r.rank).id = r.id
        BY DEF AliveRecord
    <3>4. \A n \in DOMAIN book' : AliveRecord(book'[n], book'[n].rank) \in truth'
        BY <1>3, <3>1, <3>2, <3>3
    <3> QED
        BY <2>1, <3>1, <3>4 DEF CleanInv, ResidentIsAlive, DistinctIds, AliveRecord
  <2>4. CASE closed
    <3>1. pipe' = << >> /\ reads' = {} /\ replies' = {} /\ closed'
        BY <1>3, <2>4, ClosedTakesNothing
    <3> QED
        BY <2>2, <2>3, <3>1, SMT DEF CleanInv, PipeLeadsToTruth, SnapshotsAreCurrent
  <2>5. CASE ~closed
    <3>1. /\ Len(pipe) \in Nat /\ Len(pipe') = Len(pipe) + 1
          /\ DOMAIN pipe = 1..Len(pipe) /\ DOMAIN pipe' = 1..Len(pipe')
          /\ \A k \in 0..Len(pipe) : After(k)' = After(k)
          /\ \A n : \A k \in 0..1 : n = Len(pipe) + k => After(n)' = Applied(After(Len(pipe)), <<m>>, k)
      <4>1. Len(<<m>>) = 1
          OBVIOUS
      <4> QED
          BY <1>3, <1>4, <2>5, <4>1, SendExtends
    <3>2. PICK n \in Nat : n = Len(pipe') /\ n = Len(pipe) + 1
        BY <3>1, SMTT(30)
    <3>3. PICK x \in Store(Owner, Account) : x = After(Len(pipe))
        BY <3>1, AfterType, SMTT(30) DEF Stores
    <3>4. After(n)'.resting = {r \in x.resting : r.id # id}
      <4>1. After(n)' = Applied(x, <<m>>, 1)
          BY <3>1, <3>2, <3>3, SMTT(30)
      <4>2. Applied(x, <<m>>, 1) = Handled(x, m)
        <5>1. Applied(x, <<m>>, 0) = x /\ Applied(x, <<m>>, 0 + 1) = Handled(Applied(x, <<m>>, 0), <<m>>[0 + 1])
            BY AppliedRec, SMT
        <5>2. <<m>>[0 + 1] = m /\ 0 + 1 = 1
            BY SMT
        <5> QED
            BY <5>1, <5>2
      <4>3. Handled(x, m) = ApplyCancel(x, m)
          BY <1>4, HandledRows, SMTT(30) DEF Sent
      <4> QED
          BY <1>4, <4>1, <4>2, <4>3 DEF ApplyCancel, Store
    <3>5. Rows(x.resting) = truth
        BY <2>1, <2>5, <3>3 DEF CleanInv, PipeLeadsToTruth
    <3>6. PipeLeadsToTruth'
      <4>1. \A r : AliveRecord(r, r.seq).id = r.id
          BY DEF AliveRecord
      <4>2. Rows({r \in x.resting : r.id # id}) = {t \in truth : t.id # id}
          BY <3>5, <4>1 DEF Rows
      <4>3. Rows(After(n)'.resting) = truth'
          BY <1>3, <3>4, <4>2
      <4> QED
          BY <3>2, <4>3 DEF PipeLeadsToTruth, Rows, AliveRecord
    <3>7. SnapshotsAreCurrent'
      <4>1. CASE depth_pulls = 0
        <5>1. pulls' = {}
            BY <1>3, <4>1 DEF PullsAreCounted
        <5> QED
            BY <5>1 DEF SnapshotsAreCurrent, Awaited
      <4>2. CASE depth_pulls # 0
        <5>1. pull_ignore' = pull_ignore \cup {s}
            BY <1>3, <4>2, SMTT(30) DEF IInv, TypeOK
        <5>2. Ignored' = Ignored \cup {id}
            BY <1>1, <5>1 DEF Ignored, OrderId
        <5>3. ASSUME NEW S, Current(S)
              PROVE  Current(S)'
          <6>1. \A r : AliveRecord(r, r.seq).id = r.id
              BY DEF AliveRecord
          <6>2. \A r \in S : r.id \in Ignored' \/ AliveRecord(r, r.seq) \in truth'
              BY <1>3, <5>2, <5>3, <6>1 DEF Current
          <6> QED
              BY <6>2 DEF Current, AliveRecord
        <5>4. \A k \in 0..Len(pipe) : CurrentAfter(k) => CurrentAfter(k)'
            BY <3>1, <5>3 DEF CurrentAfter
        <5>5. CurrentAfter(n)'
          <6>1. Current(x.resting)
              BY <3>5 DEF Current, Rows
          <6>2. Current({r \in x.resting : r.id # id})
              BY <6>1 DEF Current
          <6> QED
              BY <3>4, <5>3, <6>2 DEF CurrentAfter
        <5>6. \A y : Awaited(y)' <=> Awaited(y)
            BY <1>3 DEF Awaited
        <5>7. SnapshotsAreCurrent
            BY <2>1 DEF CleanInv
        <5>8. ASSUME NEW k \in DOMAIN pipe', Awaited(pipe'[k]), NEW j \in k..Len(pipe')
              PROVE  CurrentAfter(j)'
          <6>1. k \in DOMAIN pipe /\ Awaited(pipe[k])
              BY <1>4, <1>7, <5>8 DEF Awaited
          <6>2. CASE j <= Len(pipe)
              BY <3>1, <5>4, <5>7, <6>1, <6>2, SMTT(30) DEF SnapshotsAreCurrent
          <6>3. CASE j > Len(pipe)
            <7>1. j = n
                BY <3>1, <3>2, <6>1, <6>3, SMTT(30)
            <7> QED
                BY <5>5, <7>1
          <6> QED
              BY <3>1, <6>1, <6>2, <6>3, SMTT(30)
        <5>9. ASSUME NEW y \in reads, Awaited(y), NEW j \in 0..Len(pipe')
              PROVE  CurrentAfter(j)'
          <6>1. CASE j <= Len(pipe)
              BY <3>1, <5>4, <5>7, <5>9, <6>1, SMTT(30) DEF SnapshotsAreCurrent
          <6>2. CASE j > Len(pipe)
            <7>1. j = n
                BY <3>1, <3>2, <6>2, SMTT(30)
            <7> QED
                BY <5>5, <7>1
          <6> QED
              BY <3>1, <6>1, <6>2, SMTT(30)
        <5> QED
            BY <1>3, <5>3, <5>6, <5>7, <5>8, <5>9 DEF SnapshotsAreCurrent
      <4> QED
          BY <4>1, <4>2
    <3> QED
        BY <2>2, <2>3, <3>6, <3>7 DEF CleanInv
  <2> QED
      BY <2>4, <2>5
<1> QED
    BY <1>5, <1>6, <1>8, <1>9, <1>10

\* The helper dies, or drain() stops.
LEMMA SysCloseKeeps ==
    ASSUME IInv, SysInv, SysTypeOK', SysClose, UNCHANGED session
    PROVE  SysInv'
<1> USE DEF SysInv
<1>1. /\ pipe' = << >> /\ reads' = {} /\ replies' = {} /\ pulls' = {} /\ "closed" \in faults'
      /\ UNCHANGED <<store, truth, book, next_assign_seq, next_place_seq, recorded>>
      /\ closed' /\ faults \subseteq faults'
    BY DEF SysClose, Close, Fault, bookVars, historyVars
<1>2. ClosedIsEmpty' /\ PullsAreCounted' /\ RequestsAreOwn'
    BY <1>1 DEF ClosedIsEmpty, PullsAreCounted, RequestsAreOwn, Asked
<1>3. (Numbered' => Numbered) /\ (Clean' => Clean)
    BY <1>1, FaultsStay
<1>4. Numbered' => IdsAreKnown'
    BY <1>1, <1>3, SMT DEF IdsAreKnown, OrderId
<1>5. Clean' => CleanInv'
    BY <1>1, <1>3, SMT DEF CleanInv, TruthIsOld, PipeLeadsToTruth, SnapshotsAreCurrent, ResidentIsAlive,
       OrderId, AliveRecord
<1> QED
    BY <1>2, <1>4, <1>5

\* A drain that stops, or calls back, leaves the book and the helper as they are.
LEMMA SysDrainStopsKeeps ==
    ASSUME IInv, SysInv, SysTypeOK', SysDrainStops \/ SysCallBack, UNCHANGED session
    PROVE  SysInv'
<1> USE DEF SysInv
<1>1. /\ UNCHANGED <<store, pipe, reads, replies, pulls, truth, book, faults>>
      /\ UNCHANGED <<closed, next_assign_seq, next_place_seq, recorded, pull_ignore, depth_pulls>>
    BY DEF SysDrainStops, SysCallBack, DrainStops, CallBack, bookVars, helperVars, storageVars,
       windowVars, historyVars
<1>2. /\ ClosedIsEmpty' /\ RequestsAreOwn'
      /\ Numbered' => IdsAreKnown'
      /\ Clean' => Clean /\ TruthIsOld' /\ PipeLeadsToTruth' /\ SnapshotsAreCurrent'
    BY <1>1, FewerAnswers
<1>3. PullsAreCounted'
    BY <1>1 DEF PullsAreCounted
<1>4. Clean' => ResidentIsAlive'
    BY <1>1, <1>2 DEF CleanInv, ResidentIsAlive, AliveRecord
<1> QED
    BY <1>2, <1>3, <1>4 DEF CleanInv

-----------------------------------------------------------------------------
(* Pulls keep the invariant.                                               *)

\* New pulls: nothing in flight carries their ids, and what they will see is
\* the live orders of now, but for the cancels still to come.
Starts(ms) ==
    /\ ms \in Seq(LevelsRequest)
    /\ \A i, j \in 1..Len(ms) : ms[i].req = ms[j].req => i = j
    /\ \A i \in 1..Len(ms) : ms[i].req >= FreshReq(1)

\* A pull starts when there is none, with requests of the session.
LEMMA PullStarts ==
    ASSUME IInv, SysInv, UNCHANGED session, NEW ms, Starts(ms), Send(ms), ~closed, pulls = {},
           pulls' = {ms[i] : i \in 1..Len(ms)},
           UNCHANGED <<truth, book, store, reads, replies, faults>>,
           UNCHANGED <<closed, next_assign_seq, next_place_seq, pull_ignore, recorded>>
    PROVE  /\ ClosedIsEmpty' /\ RequestsAreOwn'
           /\ Numbered' => IdsAreKnown'
           /\ Clean' => CleanInv'
<1> USE DEF SysInv
<1>1. ms \in Seq(Sent) /\ Len(ms) \in Nat
  <2>1. LevelsRequest \subseteq Sent
      BY DEF Sent, RequestTo
  <2> QED
      BY <2>1, SMTT(30) DEF Starts
<1>2. \A i \in 1..Len(ms) : ms[i] \in LevelsRequest /\ ms[i].type = "levels" /\ ms[i].req \in Nat
  <2>1. \A i \in 1..Len(ms) : ms[i] \in LevelsRequest
      BY SMTT(30) DEF Starts
  <2>2. \A x \in LevelsRequest : x.type = "levels" /\ x.req \in Nat
      BY DEF LevelsRequest
  <2> QED
      BY <2>1, <2>2
<1>3. /\ Len(pipe) \in Nat /\ Len(pipe') = Len(pipe) + Len(ms)
      /\ DOMAIN pipe = 1..Len(pipe) /\ DOMAIN pipe' = 1..Len(pipe')
      /\ \A k \in DOMAIN pipe : pipe'[k] = pipe[k]
      /\ \A k \in DOMAIN pipe' \ DOMAIN pipe :
            k - Len(pipe) \in 1..Len(ms) /\ pipe'[k] = ms[k - Len(pipe)]
    BY <1>1, SendExtends
<1>4. \A k \in DOMAIN pipe' : \/ k \in DOMAIN pipe /\ pipe'[k] = pipe[k]
                              \/ k \notin DOMAIN pipe /\ pipe'[k] \in pulls'
    BY <1>3
<1>5. \A p \in pulls' : p.req \in Nat /\ p.req >= FreshReq(1) /\ p.type = "levels"
    BY <1>2 DEF Starts
<1>6. FreshReq(1) \in Nat /\ \A x \in InFlight : x.type = "levels" => x.req < FreshReq(1)
    BY FreshReqIsFresh
<1>7. ASSUME NEW x \in InFlight, x.type = "levels", NEW p \in pulls'
      PROVE  p.req # x.req
  <2>1. x.req < FreshReq(1) /\ x.req \in Int
    <3>1. CASE x \in Range(pipe)
      <4>1. x \in Sent
          BY <3>1, SMT DEF SysTypeOK, PipeTypeOK, Range
      <4>2. x \in LevelsRequest
          BY <1>7, <4>1, RequestTypes DEF Sent
      <4> QED
          BY <1>6, <1>7, <4>2, SMT DEF LevelsRequest
    <3>2. CASE x \in reads
        BY <1>6, <1>7, <3>2, SMT DEF SysTypeOK, PipeTypeOK, PositionRequest, LevelsRequest
    <3>3. CASE x \in replies
        BY <1>6, <1>7, <3>3, SMT DEF SysTypeOK, AnswerTypeOK, OrderAnswer, PositionAnswer, LevelsAnswer
    <3> QED
        BY <3>1, <3>2, <3>3 DEF InFlight
  <2> QED
      BY <1>5, <1>6, <2>1, SMT
<1>8. /\ \A k \in DOMAIN pipe : pipe[k] \in InFlight
      /\ \A m \in reads : m \in InFlight
      /\ \A a \in replies : a \in InFlight
    BY DEF InFlight, Range
<1>9. \A p, q \in pulls' : p.req = q.req => p = q
    BY SMTT(30) DEF Starts
<1>10. ClosedIsEmpty'
    BY DEF ClosedIsEmpty
<1>11. RequestsAreOwn'
  <2>1. \A k \in DOMAIN pipe' : Asked(pipe[k])' <=> (pipe'[k].type = "levels" =>
                                   \A p \in pulls' : p.req = pipe'[k].req => p = pipe'[k])
      BY DEF Asked
  <2>2. \A k \in DOMAIN pipe' : pipe'[k].type = "levels" =>
                                   \A p \in pulls' : p.req = pipe'[k].req => p = pipe'[k]
      BY <1>4, <1>7, <1>8, <1>9
  <2>3. \A m \in reads : Asked(m)'
      BY <1>7, <1>8 DEF Asked
  <2>4. \A a \in replies : AnsweredFor(a)'
      BY <1>7, <1>8 DEF AnsweredFor
  <2> QED
      BY <1>9, <2>2, <2>3, <2>4 DEF RequestsAreOwn, Asked
<1>12. ASSUME Numbered'
       PROVE  IdsAreKnown'
  <2>1. IdsAreKnown
      BY <1>12 DEF Numbered
  <2>2. \A x : OrderId(x)' = OrderId(x)
      BY DEF OrderId
  <2> QED
      BY <1>4, <1>5, <2>1, <2>2 DEF IdsAreKnown
<1>13. ASSUME Clean'
       PROVE  CleanInv'
  <2>1. CleanInv
      BY <1>13 DEF Clean, Numbered
  <2>2. TruthIsOld' /\ ResidentIsAlive'
      BY <2>1 DEF CleanInv, TruthIsOld, ResidentIsAlive, OrderId, AliveRecord
  <2>3. LeaveRows(ms)
      BY <1>2 DEF LeaveRows
  <2>4. /\ PipeLeadsToTruth'
        /\ \A n \in Len(pipe)..Len(pipe') : CurrentAfter(n)'
      BY <1>1, <2>1, <2>3, SendKeepsRows
  <2>5. ASSUME NEW k \in DOMAIN pipe', pipe'[k].type = "levels",
               \E p \in pulls' : p.req = pipe'[k].req, NEW j \in k..Len(pipe')
        PROVE  CurrentAfter(j)'
    <3>1. k \notin DOMAIN pipe
        BY <1>4, <1>7, <1>8, <2>5
    <3>2. j \in Len(pipe)..Len(pipe')
        BY <1>3, <3>1, SMTT(30)
    <3> QED
        BY <2>4, <3>2
  <2>6. \A m \in reads' \cup replies' : ~Awaited(m)'
      BY <1>7, <1>8 DEF Awaited
  <2>7. SnapshotsAreCurrent'
      BY <2>5, <2>6 DEF SnapshotsAreCurrent, Awaited
  <2> QED
      BY <2>2, <2>4, <2>7 DEF CleanInv
<1> QED
    BY <1>10, <1>11, <1>12, <1>13

\* On a closed helper a pull is not even sent.
LEMMA ClosedPullKeeps ==
    ASSUME IInv, SysInv, SysTypeOK', UNCHANGED session, closed,
           UNCHANGED <<truth, book, store, pipe, reads, replies, pulls, faults>>,
           UNCHANGED <<closed, next_assign_seq, next_place_seq, pull_ignore, recorded, depth_pulls>>
    PROVE  SysInv'
<1> USE DEF SysInv
<1>1. /\ ClosedIsEmpty' /\ RequestsAreOwn'
      /\ Numbered' => IdsAreKnown'
      /\ Clean' => Clean /\ TruthIsOld' /\ PipeLeadsToTruth' /\ SnapshotsAreCurrent'
    BY FewerAnswers
<1>2. PullsAreCounted'
    BY DEF PullsAreCounted
<1>3. Clean' => ResidentIsAlive'
    BY <1>1 DEF CleanInv, ResidentIsAlive, AliveRecord
<1> QED
    BY <1>1, <1>2, <1>3 DEF CleanInv

\* The pull at the start of a session.
LEMMA SysWarmUpKeeps ==
    ASSUME IInv, SysInv, SysTypeOK', SysWarmUp, UNCHANGED session
    PROVE  SysInv'
<1> USE DEF SysInv
<1>1. PICK a \in LevelsRequest, b \in LevelsRequest :
         a = LevelsMsg(FreshReq(1), "buy", 0) /\ b = LevelsMsg(FreshReq(2), "sell", 0)
  <2>1. FreshReq(1) \in Nat /\ FreshReq(2) \in Nat
      BY FreshReqIsFresh, SMT
  <2> QED
      BY <2>1, RequestMsgTypes DEF Side
<1>2. PICK ms : ms = <<a, b>>
    OBVIOUS
<1>3. /\ Send(ms) /\ pulls' = (IF closed THEN pulls ELSE pulls \cup Range(ms))
      /\ UNCHANGED <<truth, book, store, reads, replies, faults>>
      /\ UNCHANGED <<closed, next_assign_seq, next_place_seq, pull_ignore, recorded>>
      /\ depth_pulls = 0 /\ MemLevels > 0 /\ depth_pulls' = (IF closed THEN 0 ELSE 2)
    BY <1>1, <1>2 DEF SysWarmUp, WarmUp, MayPull, bookVars, storageVars, historyVars
<1>4. CASE closed
  <2>1. pipe' = pipe /\ pulls' = pulls /\ depth_pulls' = depth_pulls
      BY <1>3, <1>4 DEF Send
  <2> QED
      BY <1>3, <1>4, <2>1, ClosedPullKeeps
<1>5. CASE ~closed
  <2>1. Len(ms) = 2 /\ ms[1] = a /\ ms[2] = b /\ ms \in Seq(LevelsRequest) /\ DOMAIN ms = 1..2
      BY <1>2, SMTT(30)
  <2>2. a.req = FreshReq(1) /\ b.req = FreshReq(1) + 1 /\ FreshReq(1) \in Nat
      BY <1>1, FreshReqIsFresh DEF LevelsMsg
  <2>3. Starts(ms)
    <3>1. \A i \in 1..Len(ms) : i = 1 \/ i = 2
        BY <2>1, SMTT(30)
    <3> QED
        BY <2>1, <2>2, <3>1, SMT DEF Starts
  <2>4. pulls = {}
      BY <1>3 DEF PullsAreCounted
  <2>5. pulls' = {ms[i] : i \in 1..Len(ms)} /\ \A p \in pulls' : p = a \/ p = b
    <3>1. pulls' = {ms[i] : i \in 1..Len(ms)}
        BY <1>3, <1>5, <2>1, <2>4, SMTT(30) DEF Range
    <3>2. \A i \in 1..Len(ms) : i = 1 \/ i = 2
        BY <2>1, SMTT(30)
    <3> QED
        BY <2>1, <3>1, <3>2
  <2>6. /\ ClosedIsEmpty' /\ RequestsAreOwn'
        /\ Numbered' => IdsAreKnown'
        /\ Clean' => CleanInv'
      BY <1>3, <1>5, <2>3, <2>4, <2>5, PullStarts
  <2>7. PullsAreCounted'
      BY <1>3, <1>5, <2>5, SMT DEF PullsAreCounted
  <2> QED
      BY <2>6, <2>7
<1> QED
    BY <1>4, <1>5

\* The pull that a drain starts when the book's window runs out.
LEMMA SysDeepPullKeeps ==
    ASSUME IInv, SysInv, SysTypeOK', SysDeepPull, UNCHANGED session
    PROVE  SysInv'
<1> USE DEF SysInv
<1>1. HeadOrder.order.side \in Side
    BY HeadOrderType DEF SysDeepPull, DeepPull, MayPull
<1>2. PICK m \in LevelsRequest :
         m = LevelsMsg(FreshReq(1), Opposite(HeadOrder.order.side),
                       PullFrom(Opposite(HeadOrder.order.side)))
    BY <1>1, PullTypes
<1>3. /\ Send(<<m>>) /\ pulls' = (IF closed THEN pulls ELSE pulls \cup {m})
      /\ UNCHANGED <<truth, book, store, reads, replies, faults>>
      /\ UNCHANGED <<closed, next_assign_seq, next_place_seq, pull_ignore, recorded>>
      /\ depth_pulls = 0 /\ MemLevels > 0 /\ depth_pulls' = (IF closed THEN 0 ELSE 1)
    BY <1>2 DEF SysDeepPull, DeepPull, MayPull, bookVars, storageVars, historyVars
<1>4. CASE closed
  <2>1. pipe' = pipe /\ pulls' = pulls /\ depth_pulls' = depth_pulls
      BY <1>3, <1>4 DEF Send
  <2> QED
      BY <1>3, <1>4, <2>1, ClosedPullKeeps
<1>5. CASE ~closed
  <2>1. PICK ms : ms = <<m>>
      OBVIOUS
  <2>2. Len(ms) = 1 /\ ms[1] = m /\ ms \in Seq(LevelsRequest) /\ Send(ms)
      BY <1>3, <2>1, SMT
  <2>3. m.req = FreshReq(1) /\ FreshReq(1) \in Nat
      BY <1>2, FreshReqIsFresh DEF LevelsMsg
  <2>4. \A i \in 1..Len(ms) : i = 1
      BY <2>2, SMTT(30)
  <2>5. Starts(ms)
      BY <2>2, <2>3, <2>4, SMTT(30) DEF Starts
  <2>6. pulls = {} /\ pulls' = {m}
      BY <1>3, <1>5 DEF PullsAreCounted
  <2>7. pulls' = {ms[i] : i \in 1..Len(ms)}
      BY <2>2, <2>4, <2>6, SMTT(30)
  <2>8. /\ ClosedIsEmpty' /\ RequestsAreOwn'
        /\ Numbered' => IdsAreKnown'
        /\ Clean' => CleanInv'
      BY <1>3, <1>5, <2>2, <2>5, <2>6, <2>7, PullStarts
  <2>9. PullsAreCounted'
      BY <1>3, <1>5, <2>6, SMTT(30) DEF PullsAreCounted
  <2> QED
      BY <2>8, <2>9
<1> QED
    BY <1>4, <1>5

=============================================================================
