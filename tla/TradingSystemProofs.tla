------------------------ MODULE TradingSystemProofs -------------------------
(***************************************************************************)
(* The engine with its book, the helper, its pipe and the restarts, for    *)
(* both kinds of helper, every fault and every window size: placements and *)
(* restarts keep the invariant SysInv, so that nothing dead is ever resident, *)
(* a quiescent store holds the book, ids are never given twice, and a restart *)
(* finds what the last session left.                                       *)
(***************************************************************************)
EXTENDS Restart, TradingStepsProofs

\* Zenon proves what no pragma names.
USE ZenonT(60)

-----------------------------------------------------------------------------
(* A placement keeps the invariant.                                        *)

\* What each order a placement reports has left: id is the aggressor's.
LeftAfter(o, id) ==
    [n \in Nat |->
        IF n = id THEN Remainder(book, o)
        ELSE LET i == CHOOSE i \in Traded(book, o) : book[i].id = n
             IN book[i].leaves - FillAt(book, o, i)]

\* The reports of a placement carry what their orders have left.
LEMMA FillReportsReport ==
    ASSUME BookTypeOK, DistinctIds(book), NEW o, o.qty \in Nat, NEW id \in Nat,
           \A i \in DOMAIN book : book[i].id # id
    PROVE  /\ Reports(FillReports(o, id), LeftAfter(o, id))
           /\ LeftAfter(o, id)[id] = Remainder(book, o)
           /\ \A i \in Traded(book, o) :
                 /\ LeftAfter(o, id)[book[i].id] = book[i].leaves - FillAt(book, o, i)
                 /\ \E n \in 1..Len(FillReports(o, id)) : FillReports(o, id)[n].id = book[i].id
           /\ \A n \in 1..Len(FillReports(o, id)) :
                 \/ FillReports(o, id)[n].id = id
                 \/ \E i \in Traded(book, o) : FillReports(o, id)[n].id = book[i].id
<1>1. PICK left : left = LeftAfter(o, id)
    OBVIOUS
<1>2. ASSUME NEW i \in Traded(book, o)
      PROVE  /\ left[book[i].id] = book[i].leaves - FillAt(book, o, i)
             /\ i \in DOMAIN book
  <2>1. i \in DOMAIN book
      BY DEF Traded
  <2>0. book[i] \in Resident(Account)
      BY <2>1, SMT DEF BookTypeOK
  <2>2. book[i].id \in Nat /\ book[i].id # id
      BY <2>0, <2>1 DEF Resident
  <2>3. PICK k : k = CHOOSE j \in Traded(book, o) : book[j].id = book[i].id
      OBVIOUS
  <2>4. k \in Traded(book, o) /\ book[k].id = book[i].id
      BY <2>3
  <2>5. k = i
      BY <2>1, <2>4 DEF DistinctIds, Traded
  <2>6. left[book[i].id] = book[k].leaves - FillAt(book, o, k)
      BY <1>1, <2>2, <2>3 DEF LeftAfter
  <2> QED
      BY <2>1, <2>5, <2>6
<1>3. left[id] = Remainder(book, o)
    BY <1>1 DEF LeftAfter
<1>4. PICK a, b, ms : a = TakerReport(o, id) /\ b = MakerReports(o) /\ ms = FillReports(o, id)
    OBVIOUS
<1>5. /\ ms = a \o b /\ a \in Seq(FillRequest) /\ ms \in Seq(FillRequest)
      /\ Filled(book, o) \in Nat /\ Remainder(book, o) \in Nat
    BY <1>4, FillReportsType
<1>6. /\ b \in Seq(FillRequest)
      /\ \A n \in DOMAIN b : \E i \in Traded(book, o) :
            b[n].id = book[i].id /\ Reported(b[n]) = book[i].leaves - FillAt(book, o, i)
      /\ \A i \in Traded(book, o) : \E n \in DOMAIN b : b[n].id = book[i].id
    BY <1>4, MakerReportsAre
<1>7. \A n \in DOMAIN a : a[n].id = id /\ Reported(a[n]) = Remainder(book, o)
  <2>1. PICK m : m = FillMsg(id, Filled(book, o), Remainder(book, o))
      OBVIOUS
  <2>2. m.id = id /\ Reported(m) = Remainder(book, o)
      BY <1>5, <2>1 DEF FillMsg, Reported
  <2>3. a = <<m>> \/ a = << >>
      BY <1>4, <2>1 DEF TakerReport
  <2> QED
      BY <2>2, <2>3, SMT
<1>8. /\ Len(a) \in Nat /\ Len(b) \in Nat /\ Len(ms) = Len(a) + Len(b)
      /\ DOMAIN a = 1..Len(a) /\ DOMAIN b = 1..Len(b)
      /\ \A n \in 1..Len(ms) : \/ n \in DOMAIN a /\ ms[n] = a[n]
                               \/ n - Len(a) \in DOMAIN b /\ ms[n] = b[n - Len(a)]
      /\ \A n \in DOMAIN b : n + Len(a) \in 1..Len(ms) /\ ms[n + Len(a)] = b[n]
    BY <1>5, <1>6, SMT
<1>9. ASSUME NEW n \in 1..Len(ms)
      PROVE  /\ Reported(ms[n]) = left[ms[n].id]
             /\ \/ ms[n].id = id
                \/ \E i \in Traded(book, o) : ms[n].id = book[i].id
  <2>1. CASE n \in DOMAIN a /\ ms[n] = a[n]
      BY <1>3, <1>7, <2>1
  <2>2. CASE n - Len(a) \in DOMAIN b /\ ms[n] = b[n - Len(a)]
    <3>1. PICK i \in Traded(book, o) :
             ms[n].id = book[i].id /\ Reported(ms[n]) = book[i].leaves - FillAt(book, o, i)
        BY <1>6, <2>2, SMTT(30)
    <3> QED
        BY <1>2, <3>1
  <2> QED
      BY <1>8, <2>1, <2>2
<1>10. ASSUME NEW i \in Traded(book, o)
       PROVE  \E n \in 1..Len(ms) : ms[n].id = book[i].id
  <2>1. PICK n \in DOMAIN b : b[n].id = book[i].id
      BY <1>6
  <2> QED
      BY <1>8, <2>1
<1> QED
    BY <1>1, <1>2, <1>3, <1>4, <1>9, <1>10 DEF Reports

\* The fill reports leave each row of the store what the match leaves its order.
LEMMA ReportedIsMatched ==
    ASSUME SysTypeOK, ResidentIsAlive, NEW S \in SUBSET Row, UniqueRows(S), Rows(S) = truth,
           NEW o, o.qty \in Nat, NEW id \in Nat, \A t \in truth : t.id # id,
           NEW w \in S
    PROVE  LeftOf(w, LeftAfter(o, id), Named(FillReports(o, id)))
             = w.leaves - FillOf(o, AliveRecord(w, w.seq))
<1>1. PICK ms, left, t : ms = FillReports(o, id) /\ left = LeftAfter(o, id) /\ t = AliveRecord(w, w.seq)
    OBVIOUS
<1>0. PICK J : J = Named(ms)
    OBVIOUS
<1>2. /\ BookTypeOK
      /\ DistinctIds(book)
      /\ \A i \in DOMAIN book : AliveRecord(book[i], book[i].rank) \in truth
    BY DEF SysTypeOK, ResidentIsAlive, DistinctIds
<1>3. /\ t \in truth /\ t.id = w.id /\ w.leaves \in Nat /\ w.id # id
  <2>1. t \in truth
      BY <1>1 DEF Rows
  <2>2. t.id = w.id /\ w.leaves \in Nat
      BY <1>1 DEF AliveRecord, Row
  <2> QED
      BY <2>1, <2>2
<1>4. \A i \in DOMAIN book : book[i].id # id
    BY <1>2 DEF AliveRecord
<1>5. /\ \A i \in Traded(book, o) :
            left[book[i].id] = book[i].leaves - FillAt(book, o, i) /\ book[i].id \in J
      /\ \A j \in J : j = id \/ \E i \in Traded(book, o) : j = book[i].id
  <2>1. /\ \A i \in Traded(book, o) :
              /\ left[book[i].id] = book[i].leaves - FillAt(book, o, i)
              /\ \E n \in 1..Len(ms) : ms[n].id = book[i].id
        /\ \A n \in 1..Len(ms) : ms[n].id = id \/ \E i \in Traded(book, o) : ms[n].id = book[i].id
      BY <1>1, <1>2, <1>4, FillReportsReport, SMT
  <2> QED
      BY <1>0, <2>1, SMT DEF Named
<1>6. \A i \in DOMAIN book : FillAt(book, o, i) \in Nat
    BY <1>2, BookLeaves, FillAtBounds DEF BookTypeOK
<1>7. LeftOf(w, left, J) = w.leaves - FillOf(o, t)
  <2>1. CASE \E i \in DOMAIN book : book[i].id = w.id
    <3>1. PICK i \in DOMAIN book : book[i].id = w.id
        BY <2>1
    <3>2. FillOf(o, t) = FillAt(book, o, i)
        BY <1>2, <1>3, <3>1, FillOfIs
    <3>3. book[i].leaves = w.leaves
      <4>1. PICK v \in S : AliveRecord(v, v.seq) = AliveRecord(book[i], book[i].rank)
          BY <1>2 DEF Rows
      <4>2. v.id = book[i].id /\ v.leaves = book[i].leaves
          BY <4>1 DEF AliveRecord
      <4>3. v = w
          BY <3>1, <4>2 DEF UniqueRows
      <4> QED
          BY <4>2, <4>3
    <3>4. CASE i \in Traded(book, o)
        BY <1>5, <3>1, <3>2, <3>3, <3>4 DEF LeftOf
    <3>5. CASE i \notin Traded(book, o)
      <4>1. FillAt(book, o, i) = 0
          BY <1>6, <3>5, SMTT(30) DEF Traded
      <4>2. w.id \notin J
        <5>1. \A k \in Traded(book, o) : k \in DOMAIN book
            BY DEF Traded
        <5>2. \A k \in Traded(book, o) : book[k].id # w.id
            BY <1>2, <3>1, <3>5, <5>1 DEF DistinctIds
        <5> QED
            BY <1>3, <1>5, <5>2
      <4> QED
          BY <1>3, <3>2, <4>1, <4>2, SMTT(30) DEF LeftOf
    <3> QED
        BY <3>4, <3>5
  <2>2. CASE \A i \in DOMAIN book : book[i].id # w.id
    <3>1. FillOf(o, t) = 0
        BY <1>2, <1>3, <2>2, FillOfIs
    <3>2. w.id \notin J
      <4>1. \A k \in Traded(book, o) : k \in DOMAIN book
          BY DEF Traded
      <4> QED
          BY <1>3, <1>5, <2>2, <4>1
    <3> QED
        BY <1>3, <3>1, <3>2, SMTT(30) DEF LeftOf
  <2> QED
      BY <2>1, <2>2
<1> QED
    BY <1>0, <1>1, <1>7

\* The rows after the fill reports are the live orders after the match.
LEMMA FilledIsMatched ==
    ASSUME SysTypeOK, ResidentIsAlive, NEW S \in SUBSET Row, UniqueRows(S), Rows(S) = truth,
           NEW o, o.qty \in Nat, NEW id \in Nat, \A t \in truth : t.id # id
    PROVE  Rows(FilledRows(S, LeftAfter(o, id),
                           Named(FillReports(o, id))))
             = TruthAfterMatch(o)
<1>1. PICK left, J : /\ left = LeftAfter(o, id)
                     /\ J = Named(FillReports(o, id))
    OBVIOUS
<1>2. \A w \in S : LeftOf(w, left, J) = w.leaves - FillOf(o, AliveRecord(w, w.seq))
    BY <1>1, ReportedIsMatched
<1>3. ASSUME NEW w \in S, NEW v
      PROVE  LET u == [w EXCEPT !.leaves = v]
             IN AliveRecord(u, u.seq) = [AliveRecord(w, w.seq) EXCEPT !.leaves = v]
    BY SMTT(30) DEF AliveRecord, Row
<1>4. ASSUME NEW w \in S
      PROVE  /\ AliveRecord(w, w.seq).leaves = w.leaves
             /\ w.leaves \in Nat /\ FillOf(o, AliveRecord(w, w.seq)) \in Nat
             /\ LeftOf(w, left, J) > 0 <=> w.leaves > FillOf(o, AliveRecord(w, w.seq))
  <2>1. AliveRecord(w, w.seq).leaves = w.leaves /\ w.leaves \in Nat
      BY DEF AliveRecord, Row
  <2>2. PICK f \in Nat : f = FillOf(o, AliveRecord(w, w.seq))
      BY FillOfType DEF SysTypeOK
  <2>3. LeftOf(w, left, J) = w.leaves - f
      BY <1>2, <2>2
  <2> QED
      BY <2>1, <2>2, <2>3, SMTT(30)
<1>5. ASSUME NEW a \in Rows(FilledRows(S, left, J))
      PROVE  a \in TruthAfterMatch(o)
  <2>1. PICK u \in FilledRows(S, left, J) : a = AliveRecord(u, u.seq)
      BY DEF Rows
  <2>2. PICK w \in S : LeftOf(w, left, J) > 0 /\ u = [w EXCEPT !.leaves = LeftOf(w, left, J)]
      BY <2>1 DEF FilledRows
  <2>3. PICK t : t = AliveRecord(w, w.seq)
      OBVIOUS
  <2>4. t \in truth
      BY <2>3 DEF Rows
  <2>5. a = [t EXCEPT !.leaves = LeftOf(w, left, J)]
      BY <1>3, <2>1, <2>2, <2>3, SMTT(30)
  <2>6. LeftOf(w, left, J) = t.leaves - FillOf(o, t) /\ t.leaves > FillOf(o, t)
      BY <1>2, <1>4, <2>2, <2>3, SMTT(30)
  <2>7. a = [t EXCEPT !.leaves = t.leaves - FillOf(o, t)]
      BY <2>5, <2>6
  <2> QED
      BY <2>4, <2>6, <2>7, TruthAfterMatchIs, SMTT(30)
<1>6. ASSUME NEW a \in TruthAfterMatch(o)
      PROVE  a \in Rows(FilledRows(S, left, J))
  <2>1. PICK t \in truth : t.leaves > FillOf(o, t) /\ a = [t EXCEPT !.leaves = t.leaves - FillOf(o, t)]
      BY TruthAfterMatchIs
  <2>2. PICK w \in S : t = AliveRecord(w, w.seq)
      BY <2>1 DEF Rows
  <2>3. LeftOf(w, left, J) > 0 /\ LeftOf(w, left, J) = t.leaves - FillOf(o, t)
      BY <1>2, <1>4, <2>1, <2>2, SMTT(30)
  <2>4. PICK u : u = [w EXCEPT !.leaves = LeftOf(w, left, J)]
      OBVIOUS
  <2>5. u \in FilledRows(S, left, J)
      BY <2>3, <2>4 DEF FilledRows
  <2>6. a = AliveRecord(u, u.seq)
    <3>1. a = [t EXCEPT !.leaves = LeftOf(w, left, J)]
        BY <2>1, <2>3
    <3> QED
        BY <1>3, <2>2, <2>4, <3>1, SMT
  <2> QED
      BY <2>5, <2>6 DEF Rows
<1> QED
    BY <1>1, <1>5, <1>6

\* The makers keep what the match leaves them, in the book as among the live
\* orders, and the order placed is newer than all of them.
LEMMA PlacedBook ==
    ASSUME SysTypeOK, TruthIsOld, ResidentIsAlive, NEW o, NEW id, NEW r, Placing(o, id, r)
    PROVE  /\ ResidentIsAlive'
           /\ \A t \in truth' : t.id <= id
<1>1. /\ BookTypeOK /\ book \in Seq(Resident(Account)) /\ DistinctIds(book)
      /\ \A i \in DOMAIN book : AliveRecord(book[i], book[i].rank) \in truth
      /\ o.qty \in Nat /\ id \in Nat /\ r.id = id
    BY DEF SysTypeOK, BookTypeOK, ResidentIsAlive, DistinctIds, Placing
<1>2. \A t \in truth : t.id < id /\ t.id \in Nat
  <2>1. truth \subseteq Alive
      BY <1>1 DEF BookTypeOK
  <2>2. \A t \in truth : t.id \in Nat
      BY <2>1 DEF Alive
  <2> QED
      BY <2>2 DEF Placing, TruthIsOld
<1>3. PICK matched : matched = AfterMatch(book, o)
    OBVIOUS
<1>4. /\ matched \in Seq(Resident(Account))
      /\ \A n \in DOMAIN matched : \E i \in DOMAIN book :
            /\ FillAt(book, o, i) < book[i].leaves
            /\ matched[n] = [book[i] EXCEPT !.leaves = book[i].leaves - FillAt(book, o, i)]
      /\ DistinctIds(matched)
  <2>1. PICK bk \in Seq(Resident(Account)) : bk = book
      BY <1>1
  <2>2. /\ AfterMatch(bk, o) \in Seq(Resident(Account))
        /\ DistinctIds(bk) => DistinctIds(AfterMatch(bk, o))
      BY <1>1, AfterMatchEntries
  <2>3. \A n \in DOMAIN AfterMatch(bk, o) : \E i \in DOMAIN bk :
              /\ FillAt(bk, o, i) < bk[i].leaves
              /\ AfterMatch(bk, o)[n] = [bk[i] EXCEPT !.leaves = bk[i].leaves - FillAt(bk, o, i)]
      BY <1>1, AfterMatchEntries, SMTT(30)
  <2> QED
      BY <1>1, <1>3, <2>1, <2>2, <2>3, SMTT(30)
<1>5. ASSUME NEW n \in DOMAIN matched
      PROVE  /\ AliveRecord(matched[n], matched[n].rank) \in TruthAfterMatch(o)
             /\ matched[n].id # id
  <2>1. PICK i \in DOMAIN book :
            /\ FillAt(book, o, i) < book[i].leaves
            /\ matched[n] = [book[i] EXCEPT !.leaves = book[i].leaves - FillAt(book, o, i)]
      BY <1>4
  <2>2. PICK b, f : b = book[i] /\ f = FillAt(book, o, i)
      OBVIOUS
  <2>3. b \in Resident(Account)
      BY <1>1, <2>2, SMTT(30)
  <2>4. PICK t : t = AliveRecord(b, b.rank)
      OBVIOUS
  <2>5. t \in truth /\ t.id = b.id /\ t.leaves = b.leaves
      BY <1>1, <2>2, <2>4 DEF AliveRecord
  <2>6. FillOf(o, t) = f
      BY <1>1, <2>2, <2>5, FillOfIs
  <2>7. matched[n] = [b EXCEPT !.leaves = b.leaves - f] /\ f < b.leaves
      BY <2>1, <2>2
  <2>8. /\ AliveRecord(matched[n], matched[n].rank) = [t EXCEPT !.leaves = t.leaves - f]
        /\ matched[n].id = b.id
      BY <2>3, <2>4, <2>5, <2>7, SMTT(30) DEF AliveRecord, Resident
  <2>9. t.leaves > f
    <3>1. f \in Nat /\ b.leaves \in Nat
        BY <1>1, <2>2, <2>3, <2>6, FillOfType DEF Resident
    <3> QED
        BY <2>5, <2>7, <3>1
  <2>10. AliveRecord(matched[n], matched[n].rank) \in TruthAfterMatch(o)
      BY <2>5, <2>6, <2>8, <2>9, TruthAfterMatchIs
  <2>11. matched[n].id # id
      BY <1>1, <1>2, <2>5, <2>8, SMTT(30)
  <2> QED
      BY <2>10, <2>11
<1>6. \A t \in TruthAfterMatch(o) : t.id <= id
  <2> SUFFICES ASSUME NEW t \in truth
               PROVE  [t EXCEPT !.leaves = t.leaves - FillOf(o, t)].id <= id
      BY TruthAfterMatchIs
  <2>1. t \in Alive
      BY <1>1 DEF BookTypeOK
  <2>2. [t EXCEPT !.leaves = t.leaves - FillOf(o, t)].id = t.id
      BY <2>1 DEF Alive
  <2> QED
      BY <1>1, <1>2, <2>2, SMTT(30)
<1>7. CASE ~Rests(book, o)
  <2>1. book' = matched /\ truth' = TruthAfterMatch(o)
      BY <1>3, <1>7 DEF Placing
  <2> QED
      BY <1>4, <1>5, <1>6, <2>1 DEF ResidentIsAlive, AliveRecord, DistinctIds
<1>8. CASE Rests(book, o)
  <2>1. /\ book' = AfterRest(matched, r, MemLevels) /\ r \in Resident(Account)
        /\ truth' = TruthAfterMatch(o) \cup {AliveRecord(r, r.rank)}
      BY <1>3, <1>8 DEF Placing
  <2>2. r.id \notin IdsOf(matched)
      BY <1>1, <1>5 DEF IdsOf
  <2>3. /\ \A n \in DOMAIN book' : book'[n] = r \/ \E i \in DOMAIN matched : book'[n] = matched[i]
        /\ DistinctIds(book')
      BY <1>4, <2>1, <2>2, AfterRestEntries, SMTT(30)
  <2>4. \A n \in DOMAIN book' : AliveRecord(book'[n], book'[n].rank) \in truth'
      BY <1>5, <2>1, <2>3
  <2>5. AliveRecord(r, r.rank).id <= id
      BY <1>1, SMTT(30) DEF AliveRecord
  <2> QED
      BY <1>6, <2>1, <2>3, <2>4, <2>5 DEF ResidentIsAlive, AliveRecord, DistinctIds
<1> QED
    BY <1>7, <1>8

\* The remainder is reported to rest before the fills it is the remainder of,
\* and the fill report of the aggressor leaves it as it is.
LEMMA RestThenFills ==
    ASSUME SysTypeOK, ResidentIsAlive, NEW x \in Stores, x.kind = "database",
           UniqueRows(x.resting), Rows(x.resting) = truth,
           NEW o, o.qty \in Nat, NEW id \in Nat, \A t \in truth : t.id # id,
           NEW r \in Resident(Account), r.id = id, r.leaves = Remainder(book, o)
    PROVE  LET y == Handled(x, RestMsg(r))
               fs == FillReports(o, id)
           IN /\ y \in Stores /\ y.kind = "database"
              /\ Rows(FilledRows(y.resting, LeftAfter(o, id), Named(fs)))
                   = TruthAfterMatch(o) \cup {AliveRecord(r, r.rank)}
<1>1. PICK y, m : y = Handled(x, m) /\ m = RestMsg(r)
    OBVIOUS
<1>2. PICK left, J : /\ left = LeftAfter(o, id)
                     /\ J = Named(FillReports(o, id))
    OBVIOUS
<1>3. PICK w : w = [id |-> r.id, side |-> r.side, price |-> r.price, leaves |-> r.leaves, seq |-> r.rank]
    OBVIOUS
<1>4. w \in Row /\ w.id = id /\ w.leaves = r.leaves /\ AliveRecord(w, w.seq) = AliveRecord(r, r.rank)
    BY <1>3 DEF Row, Resident, AliveRecord
<1>5. m \in Sent /\ m.type = "rest"
    BY <1>1, RequestMsgTypes DEF RestMsg
<1>6. y \in Stores /\ y.kind = "database"
    BY <1>1, <1>5, HandledType, SMTT(30) DEF Stores, Sent
<1>7. y.resting = x.resting \cup {w}
  <2>1. y = ApplyRest(x, m)
      BY <1>1, <1>5, HandledRows, SMTT(30) DEF Stores, Sent
  <2>2. y.resting = {u \in x.resting : u.id # id} \cup {w}
      BY <1>1, <1>3, <2>1, SMTT(30) DEF ApplyRest, RestMsg, Stores, Store
  <2>3. \A u \in x.resting : u.id # id
    <3>1. \A u \in x.resting : AliveRecord(u, u.seq) \in truth
        BY DEF Rows
    <3> QED
        BY <3>1 DEF AliveRecord
  <2> QED
      BY <2>2, <2>3
<1>8. x.resting \in SUBSET Row
    BY DEF Stores, Store
<1>9. Rows(FilledRows(x.resting, left, J)) = TruthAfterMatch(o)
    BY <1>2, <1>8, FilledIsMatched
<1>10. LeftOf(w, left, J) = w.leaves
  <2>1. left[id] = Remainder(book, o)
      BY <1>2 DEF LeftAfter
  <2> QED
      BY <1>4, <2>1 DEF LeftOf
<1>11. FilledRows({w}, left, J) = {w}
  <2>1. w.leaves > 0
      BY <1>4, SMT DEF Row
  <2>2. [w EXCEPT !.leaves = w.leaves] = w
      BY <1>4 DEF Row
  <2> QED
      BY <1>10, <2>1, <2>2 DEF FilledRows
<1>12. FilledRows(x.resting \cup {w}, left, J) = FilledRows(x.resting, left, J) \cup FilledRows({w}, left, J)
    BY DEF FilledRows
<1>13. Rows(FilledRows(x.resting, left, J) \cup {w}) = TruthAfterMatch(o) \cup {AliveRecord(w, w.seq)}
    BY <1>9 DEF Rows
<1> QED
    BY <1>1, <1>2, <1>4, <1>6, <1>7, <1>11, <1>12, <1>13

\* What a placement sends leads the store to the live orders it leaves.
LEMMA PlacedRows ==
    ASSUME SysTypeOK, CleanInv, Clean, ~closed, NEW o, NEW id, NEW r, Placing(o, id, r),
           UNCHANGED <<store, closed>>
    PROVE  PipeLeadsToTruth'
<1>1. PICK fs, left, J : fs = FillReports(o, id) /\ left = LeftAfter(o, id) /\ J = Named(fs)
    OBVIOUS
<1>2. /\ o.qty \in Nat /\ id \in Nat /\ ResidentIsAlive /\ BookTypeOK /\ r.id = id
      /\ r.leaves = Remainder(book, o)
    BY DEF Placing, CleanInv, SysTypeOK
<1>3. \A t \in truth : t.id # id
  <2>1. \A t \in truth : t.id < id /\ t \in Alive
      BY <1>2 DEF Placing, CleanInv, TruthIsOld, BookTypeOK
  <2> QED
      BY <1>2, <2>1, SMTT(30) DEF Alive
<1>4. \A i \in DOMAIN book : book[i].id # id
    BY <1>2, <1>3 DEF ResidentIsAlive, AliveRecord
<1>5. fs \in Seq(FillRequest) /\ fs \in Seq(Sent)
    BY <1>1, <1>2, FillReportsType, RequestMsgTypes, SMTT(30)
<1>6. Reports(fs, left)
  <2>1. DistinctIds(book)
      BY <1>2 DEF ResidentIsAlive, DistinctIds
  <2> QED
      BY <1>1, <1>2, <1>4, <2>1, FillReportsReport
<1>7. Len(pipe) \in Nat
    BY SMTT(30) DEF SysTypeOK, PipeTypeOK
<1>8. PICK x \in Stores : x = After(Len(pipe))
    BY <1>7, AfterType, SMTT(30)
<1>9. x.kind = "database" /\ UniqueRows(x.resting) /\ Rows(x.resting) = truth
  <2>1. x.kind = store.kind /\ Sound(x)
      BY <1>7, <1>8, AfterType, SMTT(30)
  <2>2. Rows(x.resting) = truth
      BY <1>8 DEF CleanInv, PipeLeadsToTruth
  <2> QED
      BY <2>1, <2>2 DEF Sound, Clean
<1>10. ASSUME NEW z \in Stores, z.kind = "database"
       PROVE  Applied(z, fs, Len(fs)).resting = FilledRows(z.resting, left, J)
  <2>2. PICK st \in Store(Owner, Account) : st = z
      BY DEF Stores
  <2>3. Applied(st, fs, Len(fs)).resting = FilledRows(st.resting, left, Named(fs))
      BY <1>5, <1>6, <1>10, <2>2, FillsApply, SMTT(30)
  <2> QED
      BY <1>1, <2>2, <2>3
<1>11. CASE ~Rests(book, o)
  <2>1. Send(fs) /\ truth' = TruthAfterMatch(o)
    <3>1. Send(<< >> \o fs) /\ truth' = TruthAfterMatch(o) \cup {}
        BY <1>1, <1>11 DEF Placing
    <3>2. << >> \o fs = fs
        BY <1>5, SMTT(30)
    <3> QED
        BY <3>1, <3>2
  <2>2. PICK n \in Nat : n = Len(pipe') /\ After(n)' = Applied(x, fs, Len(fs))
    <3>1. /\ Len(fs) \in 0..Len(fs) /\ Len(pipe') = Len(pipe) + Len(fs)
          /\ \A n : \A k \in 0..Len(fs) : n = Len(pipe) + k => After(n)' = Applied(After(Len(pipe)), fs, k)
        BY <1>5, <2>1, SendExtends, SMT
    <3>2. PICK n \in Nat : n = Len(pipe) + Len(fs)
        BY <1>5, <1>7, SMT
    <3> QED
        BY <1>8, <3>1, <3>2
  <2>3. Rows(After(n)'.resting) = truth'
    <3>1. x.resting \in SUBSET Row
        BY DEF Stores, Store
    <3>2. Rows(FilledRows(x.resting, left, J)) = TruthAfterMatch(o)
        BY <1>1, <1>2, <1>3, <1>9, <3>1, FilledIsMatched
    <3> QED
        BY <1>9, <1>10, <2>1, <2>2, <3>2
  <2> QED
      BY <2>2, <2>3 DEF PipeLeadsToTruth, Rows, AliveRecord
<1>12. CASE Rests(book, o)
  <2>0. PICK m \in Sent : m = RestMsg(r)
    <3>1. RestMsg(r) \in Sent
        BY <1>12, RequestMsgTypes DEF Placing
    <3> QED
        BY <3>1
  <2>1. PICK y : m = RestMsg(r) /\ y = Handled(x, m)
      BY <2>0
  <2>2. Send(<<m>> \o fs) /\ truth' = TruthAfterMatch(o) \cup {AliveRecord(r, r.rank)} /\ r \in Resident(Account)
      BY <1>1, <1>12, <2>1 DEF Placing
  <2>3. /\ y \in Stores /\ y.kind = "database"
        /\ Rows(FilledRows(y.resting, left, J)) = TruthAfterMatch(o) \cup {AliveRecord(r, r.rank)}
    <3>1. LET v == Handled(x, RestMsg(r))
              gs == FillReports(o, id)
          IN /\ v \in Stores /\ v.kind = "database"
             /\ Rows(FilledRows(v.resting, LeftAfter(o, id), Named(gs)))
                  = TruthAfterMatch(o) \cup {AliveRecord(r, r.rank)}
        BY <1>2, <1>3, <1>9, <2>2, RestThenFills, SMT
    <3> QED
        BY <1>1, <2>1, <3>1
  <2>4. PICK ms \in Seq(Sent) : ms = <<m>> \o fs /\ Len(ms) = 1 + Len(fs)
    <3>1. <<m>> \in Seq(Sent) /\ Len(<<m>>) = 1
        BY <2>1, SingleSent
    <3>2. PICK q \in Seq(Sent) : q = <<m>> /\ Len(q) = 1
        BY <3>1
    <3>3. q \o fs \in Seq(Sent) /\ Len(q \o fs) = 1 + Len(fs)
        BY <1>5, <3>2, SMT
    <3> QED
        BY <3>2, <3>3
  <2>5. Applied(x, ms, 1 + Len(fs)) = Applied(y, fs, Len(fs))
    <3>1. PICK M : M = Sent
        OBVIOUS
    <3>2. m \in M /\ fs \in Seq(M)
        BY <1>5, <3>1
    <3>3. Applied(x, <<m>> \o fs, 1 + Len(fs)) = Applied(Handled(x, m), fs, Len(fs))
        BY <3>2, AppliedCons
    <3> QED
        BY <2>1, <2>4, <3>3
  <2>6. PICK n \in Nat : n = Len(pipe') /\ After(n)' = Applied(x, ms, Len(ms))
    <3>1. /\ Len(ms) \in 0..Len(ms) /\ Len(pipe') = Len(pipe) + Len(ms)
          /\ \A n : \A k \in 0..Len(ms) : n = Len(pipe) + k => After(n)' = Applied(After(Len(pipe)), ms, k)
      <4>1. Send(ms) /\ UNCHANGED store /\ ~closed
          BY <2>2, <2>4
      <4>2. Len(ms) \in Nat
          BY SMTT(30)
      <4>3. /\ Len(pipe') = Len(pipe) + Len(ms)
            /\ \A n : \A k \in 0..Len(ms) : n = Len(pipe) + k => After(n)' = Applied(After(Len(pipe)), ms, k)
          BY <4>1, SendExtends
      <4> QED
          BY <4>2, <4>3, SMTT(30)
    <3>2. PICK n \in Nat : n = Len(pipe) + Len(ms)
        BY <1>7, <2>4, SMTT(30)
    <3> QED
        BY <1>8, <3>1, <3>2
  <2>7. Rows(After(n)'.resting) = truth'
      BY <1>10, <2>2, <2>3, <2>4, <2>5, <2>6
  <2> QED
      BY <2>6, <2>7 DEF PipeLeadsToTruth, Rows, AliveRecord
<1> QED
    BY <1>11, <1>12

\* The requests a placement sends.
LEMMA PlacedSends ==
    ASSUME SysTypeOK, ~closed, NEW o, NEW id, NEW r, Placing(o, id, r), UNCHANGED store
    PROVE  \A k \in DOMAIN pipe' :
              \/ k \in DOMAIN pipe /\ pipe'[k] = pipe[k]
              \/ pipe'[k].type = "rest" /\ pipe'[k].id = id
              \/ pipe'[k].type = "fill"
<1>1. BookTypeOK /\ o.qty \in Nat /\ id \in Nat /\ r.id = id
    BY DEF Placing, SysTypeOK
<1>2. PICK fs \in Seq(FillRequest) : fs = FillReports(o, id)
    BY <1>1, FillReportsType
<1>3. fs \in Seq(Sent) /\ Len(fs) \in Nat
    BY RequestMsgTypes, SMTT(30)
<1>4. \A n \in 1..Len(fs) : fs[n].type = "fill"
  <2>1. \A n \in 1..Len(fs) : fs[n] \in FillRequest
      BY SMTT(30)
  <2> QED
      BY <2>1 DEF FillRequest
<1>5. PICK q \in Seq(Sent) :
         /\ q = IF Rests(book, o) THEN <<RestMsg(r)>> ELSE << >>
         /\ Len(q) \in Nat
         /\ \A n \in 1..Len(q) : q[n].type = "rest" /\ q[n].id = id
  <2>1. CASE Rests(book, o)
    <3>1. PICK m \in Sent : m = RestMsg(r)
        BY <2>1, RequestMsgTypes DEF Placing
    <3>2. m.type = "rest" /\ m.id = id
        BY <1>1, <3>1 DEF RestMsg
    <3>3. <<m>> \in Seq(Sent) /\ \A n \in 1..Len(<<m>>) : <<m>>[n] = m
        BY SingleSent, SMTT(30)
    <3>4. Len(<<m>>) \in Nat
        OBVIOUS
    <3> QED
        BY <2>1, <3>1, <3>2, <3>3, <3>4, SMTT(30)
  <2>2. CASE ~Rests(book, o)
    <3>1. << >> \in Seq(Sent) /\ Len(<< >>) = 0
        BY SMT
    <3>2. \A n \in 1..Len(<< >>) : FALSE
        BY <3>1, SMT
    <3> QED
        BY <2>2, <3>1, <3>2
  <2> QED
      BY <2>1, <2>2
<1>6. PICK ms \in Seq(Sent) : ms = q \o fs
  <2>1. q \o fs \in Seq(Sent)
      BY <1>3, SMT
  <2> QED
      BY <2>1
<1>7. \A n \in 1..Len(ms) : \/ n \in 1..Len(q) /\ ms[n] = q[n]
                            \/ n - Len(q) \in 1..Len(fs) /\ ms[n] = fs[n - Len(q)]
    BY <1>3, <1>5, <1>6, SMT
<1>8. Send(ms)
    BY <1>2, <1>5, <1>6 DEF Placing
<1>9. ASSUME NEW k \in DOMAIN pipe'
      PROVE  \/ k \in DOMAIN pipe /\ pipe'[k] = pipe[k]
             \/ k - Len(pipe) \in 1..Len(ms) /\ pipe'[k] = ms[k - Len(pipe)]
    BY <1>8, SendExtends
<1> QED
    BY <1>4, <1>5, <1>7, <1>9, SMT

\* A placement keeps the invariant, whether the order was recorded or its
\* report failed.
LEMMA SysPlaceKeeps ==
    ASSUME IInv, SysInv, SysTypeOK', SysPlace, UNCHANGED session
    PROVE  SysInv'
<1> USE DEF SysInv
<1>1. /\ next_place_seq' = next_place_seq + 1
      /\ UNCHANGED <<store, reads, replies, pulls, faults, closed, next_assign_seq, recorded,
                     pull_ignore, depth_pulls>>
      /\ MemLevels = 0 \/ depth_pulls = 0
      /\ HeadReady
      /\ IF HeadOrder.ok THEN PlaceRecorded ELSE PlaceRefused
  <2>1. PICK rests, exhausted : Place(rests, exhausted)
    <3>1. CASE HeadOrder.ok
        BY <3>1 DEF SysPlace, PlaceRecorded
    <3>2. CASE ~HeadOrder.ok
        BY <3>2 DEF SysPlace, PlaceRefused
    <3> QED
        BY <3>1, <3>2
  <2> QED
      BY <2>1 DEF SysPlace, Place, storageVars, windowVars
<1>2. pulls = {}
    BY <1>1 DEF PullsAreCounted
<1>3. PullsAreCounted' /\ RequestsAreOwn'
    BY <1>1, <1>2 DEF PullsAreCounted, RequestsAreOwn, Asked, AnsweredFor
<1>4. CASE HeadOrder.ok
  <2>1. PICK o, id, r : Placing(o, id, r)
      BY <1>1, <1>4, PlaceRecordedIs
  <2>2. PICK ms : Send(ms)
      BY <2>1 DEF Placing
  <2>3. ClosedIsEmpty'
      BY <1>1, <2>2, ClosedTakesNothing DEF ClosedIsEmpty
  <2>4. ASSUME NEW k \in DOMAIN pipe'
        PROVE  \/ k \in DOMAIN pipe /\ pipe'[k] = pipe[k]
               \/ pipe'[k].type = "rest" /\ pipe'[k].id = id
               \/ pipe'[k].type = "fill"
    <3>1. CASE closed
        BY <2>2, <3>1, ClosedTakesNothing
    <3>2. CASE ~closed
        BY <1>1, <2>1, <3>2, PlacedSends
    <3> QED
        BY <3>1, <3>2
  <2>5. \A x : OrderId(x)' = OrderId(x)
      BY DEF OrderId
  <2>6. ASSUME Numbered'
        PROVE  IdsAreKnown'
    <3>1. IdsAreKnown
        BY <1>1, <2>6 DEF Numbered
    <3>2. next_place_seq \in recorded
        BY <1>1, <1>4 DEF HeadReady, HeadOrder, IInv, PendingTruthful
    <3>3. id \in Ids(store.info)
        BY <2>1, <3>1, <3>2 DEF Placing, IdsAreKnown
    <3> QED
        BY <1>1, <2>4, <2>5, <3>1, <3>3 DEF IdsAreKnown
  <2>7. ASSUME Clean'
        PROVE  CleanInv'
    <3>1. Clean /\ CleanInv
        BY <1>1, <2>7 DEF Clean, Numbered
    <3>2. ResidentIsAlive' /\ \A t \in truth' : t.id <= id
        BY <2>1, <3>1, PlacedBook DEF CleanInv
    <3>3. TruthIsOld'
      <4>1. /\ id \in Nat /\ id = session.id_base + next_place_seq /\ session.id_base \in Nat
            /\ next_place_seq \in Nat
          BY <1>1, <2>1, HeadOrderType, SMT DEF Placing, OrderId, SysTypeOK, SeqNo
      <4>2. OrderId(next_place_seq)' = id + 1
          BY <1>1, <4>1, SMT DEF OrderId
      <4>3. \A t \in truth' : t.id \in Nat
        <5>1. truth' \subseteq Alive'
            BY DEF SysTypeOK, BookTypeOK
        <5> QED
            BY <5>1 DEF Alive
      <4>4. \A t \in truth' : t.id < id + 1
          BY <3>2, <4>1, <4>3, SMTT(30)
      <4> QED
          BY <4>2, <4>4 DEF TruthIsOld
    <3>4. PipeLeadsToTruth'
      <4>1. CASE closed
          BY <1>1, <4>1 DEF PipeLeadsToTruth
      <4>2. CASE ~closed
          BY <1>1, <2>1, <3>1, <4>2, PlacedRows
      <4> QED
          BY <4>1, <4>2
    <3>5. SnapshotsAreCurrent'
        BY <1>1, <1>2 DEF SnapshotsAreCurrent, Awaited
    <3> QED
        BY <3>2, <3>3, <3>4, <3>5 DEF CleanInv
  <2> QED
      BY <1>3, <2>3, <2>6, <2>7
<1>5. CASE ~HeadOrder.ok
  <2>1. UNCHANGED <<bookVars, pipe>>
      BY <1>1, <1>5 DEF PlaceRefused
  <2>2. ClosedIsEmpty'
      BY <1>1, <2>1 DEF ClosedIsEmpty
  <2>3. Numbered' => IdsAreKnown'
      BY <1>1, <2>1 DEF Numbered, IdsAreKnown, OrderId
  <2>4. ASSUME Clean'
        PROVE  CleanInv'
    <3>1. CleanInv
        BY <1>1, <2>4 DEF Clean, Numbered
    <3>2. TruthIsOld'
      <4>1. /\ session.id_base \in Nat /\ next_place_seq \in Nat
          BY <1>1, HeadOrderType, SMTT(30) DEF SysTypeOK, SeqNo
      <4>2. OrderId(next_place_seq)' = OrderId(next_place_seq) + 1 /\ OrderId(next_place_seq) \in Nat
          BY <1>1, <4>1, SMTT(30) DEF OrderId
      <4>3. \A t \in truth : t.id \in Nat /\ t.id < OrderId(next_place_seq)
        <5>1. truth \subseteq Alive
            BY DEF SysTypeOK, BookTypeOK
        <5> QED
            BY <3>1, <5>1 DEF Alive, CleanInv, TruthIsOld
      <4>4. \A t \in truth : t.id < OrderId(next_place_seq)'
          BY <4>2, <4>3, SMTT(30)
      <4> QED
          BY <2>1, <4>4 DEF TruthIsOld, bookVars
    <3>3. PipeLeadsToTruth'
        BY <1>1, <2>1, <3>1 DEF CleanInv, PipeLeadsToTruth, After, Rows, AliveRecord, bookVars
    <3>4. SnapshotsAreCurrent'
        BY <1>1, <1>2 DEF SnapshotsAreCurrent, Awaited
    <3>5. ResidentIsAlive'
        BY <2>1, <3>1 DEF CleanInv, ResidentIsAlive, AliveRecord, bookVars
    <3> QED
        BY <3>2, <3>3, <3>4, <3>5 DEF CleanInv
  <2> QED
      BY <1>3, <2>2, <2>3, <2>4
<1> QED
    BY <1>4, <1>5, SMTT(30)

\* Every step within a session keeps the invariant.
LEMMA SysNextKeeps ==
    ASSUME IInv, SysInv, [SysNext]_sysVars
    PROVE  SysInv'
<1>1. CASE SysNext
  <2>1. SysTypeOK' /\ UNCHANGED session
      BY <1>1, SysNextTypes DEF SysInv, SysNext
  <2>2. CASE \E sym \in Symbol, owner \in Account, o \in Order : SysSubmit(sym, owner, o)
      BY <2>1, <2>2, SysSubmitKeeps
  <2>3. CASE \E s \in SeqNo, requester \in Account : SysCancel(s, requester)
      BY <2>1, <2>3, SysCancelKeeps
  <2>4. CASE SysClose
      BY <2>1, <2>4, SysCloseKeeps
  <2>5. CASE HelperStep
      BY <2>1, <2>5, HelperWritesKeeps, HelperStartsReadKeeps, HelperReadsKeeps, SMTT(30) DEF HelperStep
  <2>6. CASE Deliver
      BY <2>1, <2>6, OtherAnswersKeep, DeliverLevelsKeeps DEF Deliver
  <2>7. CASE TimeOut
      BY <2>1, <2>7, OtherAnswersKeep, TimeOutLevelsKeeps DEF TimeOut
  <2>8. CASE SysDrain
      BY <2>1, <2>8, SysDrainStopsKeeps, SysWarmUpKeeps, SysDeepPullKeeps, SysPlaceKeeps, SMTT(30) DEF SysDrain
  <2> QED
      BY <1>1, <2>2, <2>3, <2>4, <2>5, <2>6, <2>7, <2>8, SMTT(30) DEF SysNext
<1>2. CASE UNCHANGED sysVars
  <2>1. SysTypeOK'
      BY <1>2 DEF SysInv, SysTypeOK, BookTypeOK, StoreTypeOK, PipeTypeOK, AnswerTypeOK,
         sysVars, bookVars, helperVars
  <2>2. ClosedIsEmpty' /\ PullsAreCounted' /\ RequestsAreOwn' /\ (Numbered' => IdsAreKnown')
      BY <1>2 DEF SysInv, ClosedIsEmpty, PullsAreCounted, RequestsAreOwn, Asked, AnsweredFor,
         Numbered, IdsAreKnown, OrderId, sysVars, helperVars, engineVars, storageVars, windowVars,
         historyVars
  <2>3. Clean' => CleanInv'
    <3>1. /\ Clean' <=> Clean
          /\ \A k : After(k)' = After(k)
          /\ UNCHANGED <<truth, pull_ignore, session, book, pipe, reads, replies, pulls, closed,
                         next_place_seq>>
        BY <1>2 DEF Clean, Numbered, After, sysVars, bookVars, helperVars, engineVars, storageVars,
           windowVars
    <3>2. \A S : Current(S)' <=> Current(S)
        BY <3>1, CurrentFrame
    <3>3. \A k : CurrentAfter(k)' <=> CurrentAfter(k)
        BY <3>1, <3>2 DEF CurrentAfter
    <3>4. \A m : Awaited(m)' <=> Awaited(m)
        BY <3>1 DEF Awaited
    <3>5. SnapshotsAreCurrent => SnapshotsAreCurrent'
        BY <3>1, <3>2, <3>3, <3>4 DEF SnapshotsAreCurrent
    <3>6. (TruthIsOld => TruthIsOld') /\ (ResidentIsAlive => ResidentIsAlive')
        BY <3>1 DEF TruthIsOld, OrderId, ResidentIsAlive, AliveRecord
    <3>7. PipeLeadsToTruth => PipeLeadsToTruth'
        BY <3>1 DEF PipeLeadsToTruth, Rows, AliveRecord
    <3> QED
        BY <3>1, <3>5, <3>6, <3>7 DEF SysInv, CleanInv
  <2> QED
      BY <2>1, <2>2, <2>3 DEF SysInv
<1> QED
    BY <1>1, <1>2

-----------------------------------------------------------------------------
(* The start of a session, the first one or one after a restart.           *)

\* Nothing in memory; what storage holds is what rests.
Started ==
    /\ Init
    /\ book = << >>
    /\ has_deep = [side \in Side |-> FALSE]
    /\ position = [a \in Owner |-> 0]
    /\ truth = Rows(store.resting)
    /\ pipe = << >> /\ reads = {} /\ replies = {} /\ pulls = {}
    /\ StoreTypeOK
    /\ session \in [number : Nat, id_base : Nat, rank_base : Nat]

\* The counters start above every order storage knows.
SeededAbove == KnowsItsRows(store) /\ \A x \in store.info : x.id <= session.id_base

\* A session starts within the invariant when the helper's ids are below
\* the first one that the session gives.
LEMMA StartsWell == Started /\ (Numbered => SeededAbove) => IInv /\ SysInv
<1> SUFFICES ASSUME Started, Numbered => SeededAbove
             PROVE  IInv /\ SysInv
    OBVIOUS
<1>1. IInv
    BY InitEstablishes DEF Started
<1>2. /\ book = << >> /\ truth = Rows(store.resting) /\ StoreTypeOK
      /\ pipe = << >> /\ reads = {} /\ replies = {} /\ pulls = {}
      /\ ~closed /\ next_assign_seq = 1 /\ next_place_seq = 1 /\ recorded = {}
      /\ session.id_base \in Nat
    BY DEF Started, Init
<1>3. SysTypeOK
  <2>1. IsFiniteSet({})
      BY FS_EmptySet
  <2>2. truth \subseteq Alive
    <3>1. store.resting \subseteq Row
        BY <1>2 DEF StoreTypeOK, Stores, Store
    <3> QED
        BY <1>2, <3>1, SMT DEF Rows, AliveRecord, Row, Alive
  <2> QED
      BY <2>1, <2>2, SMTT(30) DEF Started, SysTypeOK, BookTypeOK, PipeTypeOK, AnswerTypeOK
<1>4. ClosedIsEmpty /\ PullsAreCounted /\ RequestsAreOwn
    BY <1>2, SMT DEF ClosedIsEmpty, PullsAreCounted, RequestsAreOwn
<1>5. OrderId(next_assign_seq) = session.id_base + 1 /\ OrderId(next_place_seq) = session.id_base + 1
    BY <1>2 DEF OrderId
<1>6. \A x \in store.info : x.id \in Nat
  <2>1. store.info \subseteq [id : Nat, owner : Account, side : Side]
      BY <1>2 DEF StoreTypeOK, Stores, Store
  <2> QED
      BY <2>1
<1>7. ASSUME Numbered
      PROVE  /\ IdsAreKnown
             /\ \A t \in truth : t.id \in Ids(store.info)
             /\ \A x \in store.info : x.id < session.id_base + 1
  <2>1. \A x \in store.info : x.id < session.id_base + 1
      BY <1>2, <1>6, <1>7, SMTT(30) DEF SeededAbove
  <2>2. Ids(store.resting) \subseteq Ids(store.info)
      BY <1>7 DEF SeededAbove, KnowsItsRows
  <2>3. \A t \in truth : t.id \in Ids(store.info)
    <3>1. \A r : AliveRecord(r, r.seq).id = r.id
        BY DEF AliveRecord
    <3> QED
        BY <1>2, <2>2, <3>1, SMTT(30) DEF Rows, Ids
  <2> QED
      BY <1>2, <1>5, <2>1, <2>2, <2>3, SMT DEF IdsAreKnown
<1>8. ASSUME Clean
      PROVE  CleanInv
  <2>1. TruthIsOld
      BY <1>5, <1>7, <1>8 DEF TruthIsOld, Clean, Ids
  <2>2. PipeLeadsToTruth
    <3>1. Len(pipe) = 0
        BY <1>2
    <3>2. After(0) = store
        BY AppliedRec DEF After
    <3> QED
        BY <1>2, <3>1, <3>2 DEF PipeLeadsToTruth
  <2>3. SnapshotsAreCurrent /\ ResidentIsAlive
      BY <1>2, SMT DEF SnapshotsAreCurrent, ResidentIsAlive
  <2> QED
      BY <2>1, <2>2, <2>3 DEF CleanInv
<1> QED
    BY <1>1, <1>3, <1>4, <1>7, <1>8, SMTT(30) DEF SysInv

\* A store with nothing in it is well formed.
LEMMA EmptyStoreType ==
    ASSUME NEW kind \in {"reference", "database"}
    PROVE  /\ EmptyStore(kind) \in Stores /\ Sound(EmptyStore(kind))
           /\ EmptyStore(kind).kind = kind /\ EmptyStore(kind).info = {}
           /\ EmptyStore(kind).resting = {}
<1>1. PICK st : st = EmptyStore(kind)
    OBVIOUS
<1>2. st.info = {} /\ st.resting = {} /\ st.kind = kind
    BY <1>1 DEF EmptyStore
<1>3. st \in Stores
    BY <1>1, SystemConstants, SMT DEF EmptyStore, Stores, Store
<1>4. Sound(st)
    BY <1>2, FS_EmptySet DEF Sound, UniqueRows
<1> QED
    BY <1>1, <1>2, <1>3, <1>4

\* The first session starts within the invariant.
LEMMA SysInitEstablishes == SysInit => IInv /\ SysInv
<1> SUFFICES ASSUME SysInit
             PROVE  IInv /\ SysInv
    OBVIOUS
<1>1. PICK kind \in HelperKinds : store = EmptyStore(kind)
    BY DEF SysInit
<1>2. StoreTypeOK /\ store.info = {} /\ store.resting = {}
    BY <1>1, SystemConstants, EmptyStoreType DEF StoreTypeOK
<1>3. truth = Rows(store.resting)
    BY <1>2 DEF SysInit, Rows
<1>4. Started
    BY <1>2, <1>3 DEF Started, SysInit
<1>5. SeededAbove
    BY <1>2 DEF SeededAbove, KnowsItsRows, Ids
<1> QED
    BY <1>4, <1>5, StartsWell

-----------------------------------------------------------------------------
(* The end of a session.                                                   *)

\* What the next session finds, however much of its pipe the old helper read.
LEMMA StoreAfterType ==
    ASSUME SysInv, NEW k \in 0..Len(pipe)
    PROVE  /\ StoreAfter(k) \in Stores /\ Sound(StoreAfter(k)) /\ StoreAfter(k).kind = store.kind
           /\ Numbered => KnowsItsRows(StoreAfter(k))
<1>1. SysTypeOK /\ store \in Stores /\ pipe \in Seq(Sent)
    BY DEF SysInv, SysTypeOK, StoreTypeOK, PipeTypeOK
<1>2. CASE store.kind = "reference"
  <2>1. StoreAfter(k) = EmptyStore("reference")
      BY <1>2 DEF StoreAfter
  <2>2. PICK st : st = EmptyStore("reference")
      OBVIOUS
  <2>3. st \in Stores /\ Sound(st) /\ st.kind = "reference" /\ st.resting = {}
      BY <2>2, EmptyStoreType
  <2> QED
      BY <1>2, <2>1, <2>2, <2>3 DEF KnowsItsRows, Ids
<1>3. CASE store.kind # "reference"
  <2>1. StoreAfter(k) = After(k)
      BY <1>3 DEF StoreAfter, After
  <2>2. After(k) \in Stores /\ Sound(After(k)) /\ After(k).kind = store.kind
      BY <1>1, AfterType
  <2>3. ASSUME Numbered
        PROVE  KnowsItsRows(After(k))
    <3>1. KnowsItsRows(store) /\ RestsAreKnown(store, pipe)
        BY <1>1, <2>3, SMT DEF SysInv, IdsAreKnown, KnowsItsRows, RestsAreKnown
    <3> QED
        BY <1>1, <3>1, AppliedKnowsItsRows DEF After, Stores, Sent
  <2> QED
      BY <2>1, <2>2, <2>3
<1> QED
    BY <1>2, <1>3

\* The watermarks are what they are called.
LEMMA WatermarksAreAbove ==
    ASSUME NEW st \in Stores, Sound(st)
    PROVE  /\ MaxId(st) \in Nat /\ MaxRank(st) \in Nat
           /\ \A x \in st.info : x.id <= MaxId(st)
<1>1. PICK A, B : A = {0} \cup {x.id : x \in st.info} /\ B = {0} \cup {r.seq : r \in st.resting}
    OBVIOUS
<1>2. IsFiniteSet(A) /\ IsFiniteSet(B)
  <2> DEFINE f == [x \in st.info |-> x.id]
             g == [r \in st.resting |-> r.seq]
  <2>1. IsFiniteSet(st.info) /\ IsFiniteSet(st.resting)
      BY DEF Sound
  <2>2. /\ {x.id : x \in st.info} = {f[x] : x \in st.info}
        /\ {r.seq : r \in st.resting} = {g[r] : r \in st.resting}
      OBVIOUS
  <2>3. IsFiniteSet({f[x] : x \in st.info}) /\ IsFiniteSet({g[r] : r \in st.resting})
    <3> HIDE DEF f, g
    <3> QED
        BY <2>1, FiniteImage
  <2>4. IsFiniteSet({x.id : x \in st.info}) /\ IsFiniteSet({r.seq : r \in st.resting})
      BY <2>2, <2>3
  <2>5. IsFiniteSet({0})
      BY FS_Singleton
  <2> QED
      BY <1>1, <2>4, <2>5, FS_Union
<1>3. A \subseteq Nat /\ B \subseteq Nat /\ 0 \in A /\ 0 \in B
  <2>1. st.info \subseteq [id : Nat, owner : Account, side : Side] /\ st.resting \subseteq Row
      BY DEF Stores, Store
  <2> QED
      BY <1>1, <2>1, SMT DEF Row
<1>4. Max(A) \in A /\ (\A x \in A : x <= Max(A)) /\ Max(B) \in B
  <2>1. A # {} /\ B # {} /\ A \subseteq Int /\ B \subseteq Int
      BY <1>3, SMTT(30)
  <2>2. Max(A) \in A /\ \A x \in A : x <= Max(A)
      BY <1>2, <2>1, MaxIsLargest
  <2>3. Max(B) \in B
      BY <1>2, <2>1, MaxIsLargest
  <2> QED
      BY <2>2, <2>3
<1>5. MaxId(st) = Max(A) /\ MaxRank(st) = Max(B)
    BY <1>1 DEF MaxId, MaxRank
<1> QED
    BY <1>1, <1>3, <1>4, <1>5

\* A restart, seeded or not, keeps the invariant: what storage holds is what
\* rests, and a seeded session numbers its orders above all it knows.
LEMMA CrashKeeps ==
    ASSUME SysInv, Crash
    PROVE  IInv' /\ SysInv'
<1>1. PICK k \in 0..Len(pipe) :
         /\ Forget(StoreAfter(k))
         /\ \/ session' = Seeded(store')
            \/ session' = Unseeded /\ "unseeded" \in faults'
         /\ faults \subseteq faults'
  <2>0. Len(pipe) \in Nat
      BY SMTT(30) DEF SysInv, SysTypeOK, PipeTypeOK
  <2>1. CASE CrashSeeded
      BY <2>0, <2>1, SMTT(30) DEF CrashSeeded
  <2>2. CASE \E k \in 0 .. Len(pipe) - 1 : CrashUnsent(k)
    <3>1. PICK k \in 0 .. Len(pipe) - 1 : CrashUnsent(k)
        BY <2>2
    <3>2. k \in 0..Len(pipe)
        BY <2>0, SMTT(30)
    <3> QED
        BY <3>1, <3>2 DEF CrashUnsent, Fault
  <2>3. CASE CrashUnseeded
      BY <2>0, <2>3, SMTT(30) DEF CrashUnseeded, Fault
  <2> QED
      BY <2>1, <2>2, <2>3 DEF Crash
<1>2. PICK st : st = StoreAfter(k)
    OBVIOUS
<1>3. st \in Stores /\ Sound(st) /\ (Numbered => KnowsItsRows(st))
    BY <1>2, StoreAfterType
<1>4. store' = st /\ truth' = Rows(st.resting)
    BY <1>1, <1>2 DEF Forget, Rows
<1>5. MaxId(st) \in Nat /\ MaxRank(st) \in Nat /\ \A x \in st.info : x.id <= MaxId(st)
    BY <1>3, WatermarksAreAbove
<1>6. session' \in [number : Nat, id_base : Nat, rank_base : Nat]
  <2>1. session.number + 1 \in Nat
      BY SMTT(30) DEF SysInv, SysTypeOK
  <2> QED
      BY <1>1, <1>4, <1>5, <2>1, SMT DEF Seeded, Unseeded
<1>7. Started'
  <2>1. Init'
      BY <1>1 DEF Forget, Init
  <2>2. StoreTypeOK'
      BY <1>3, <1>4 DEF StoreTypeOK, Stores
  <2>3. truth' = Rows(store.resting)'
      BY <1>4 DEF Rows, AliveRecord
  <2> QED
      BY <1>1, <1>6, <2>1, <2>2, <2>3 DEF Forget, Started
<1>8. ASSUME Numbered'
      PROVE  SeededAbove'
  <2>1. Numbered /\ session' = Seeded(st)
      BY <1>1, <1>4, <1>8 DEF Numbered
  <2>2. session'.id_base = MaxId(st)
      BY <2>1 DEF Seeded
  <2> QED
      BY <1>3, <1>4, <1>5, <2>1, <2>2 DEF SeededAbove, KnowsItsRows
<1>9. (Started /\ (Numbered => SeededAbove))' => (IInv /\ SysInv)'
    BY StartsWell, PTL
<1> QED
    BY <1>7, <1>8, <1>9

-----------------------------------------------------------------------------
(* The theorems.                                                           *)

\* Both invariants hold from start to end and across every restart, whatever
\* fails.
THEOREM RestartInvariant == RestartSpec => [](IInv /\ SysInv)
<1>1. SysInit => IInv /\ SysInv
    BY SysInitEstablishes
<1>2. (IInv /\ SysInv) /\ [RestartNext]_sysVars => (IInv /\ SysInv)'
  <2> SUFFICES ASSUME IInv, SysInv, [RestartNext]_sysVars
               PROVE  IInv' /\ SysInv'
      OBVIOUS
  <2>1. CASE Crash
      BY <2>1, CrashKeeps
  <2>2. CASE [SysNext]_sysVars
      BY <2>2, SysNextIsEngineStep, NextKeeps, SysNextKeeps, SMTT(30)
  <2> QED
      BY <2>1, <2>2 DEF RestartNext
<1> QED
    BY <1>1, <1>2, PTL DEF RestartSpec

\* The same of a single session.
THEOREM SystemInvariant == SysSpec => [](IInv /\ SysInv)
<1>1. SysInit => IInv /\ SysInv
    BY SysInitEstablishes
<1>2. (IInv /\ SysInv) /\ [SysNext]_sysVars => (IInv /\ SysInv)'
    BY SysNextIsEngineStep, NextKeeps, SysNextKeeps
<1> QED
    BY <1>1, <1>2, PTL DEF SysSpec

\* As long as nothing has left the window of a session, a maker is exhausted only
\* together with every live order ahead of it by price and then by rank: for any
\* window, either helper, and whatever it refuses, answers late or never, because
\* all live orders are resident and queue in the order of their ranks.
THEOREM NoTradeThroughHolds == SysSpec => NoTradeThrough
<1> DEFINE Fair == SysPlace /\ (\A side \in Side : ~has_deep[side])
                     /\ (session.number > 1 =>
                           /\ WindowHoldsAll
                           /\ faults \cap {"pull", "closed", "refused", "unseeded"} = {}) =>
                      \A t, u \in truth :
                          t \notin truth' /\ Outranks(u, t) => \A v \in truth' : v.id # u.id
<1>1. SysInit => WholeInv
  <2> SUFFICES ASSUME SysInit PROVE WindowIsWhole /\ NothingRested /\ placed = << >>
      BY DEF WholeInv
  <2>1. /\ book = << >> /\ truth = {} /\ pipe = << >> /\ replies = {} /\ placed = << >>
        /\ store.resting = {}
      BY SMT DEF SysInit, Init, EmptyStore
  <2>2. DOMAIN book = {} /\ DOMAIN pipe = {}
      BY <2>1, SMT
  <2> QED
      BY <2>1, <2>2 DEF WindowIsWhole, NothingRested, Records, DistinctIds, RanksAscend
<1>2. (IInv /\ SysInv) /\ WholeInv /\ [SysNext]_sysVars => WholeInv'
  <2> SUFFICES ASSUME IInv, SysInv, WholeInv, [SysNext]_sysVars PROVE WholeInv'
      OBVIOUS
  <2>1. CASE SysNext
      BY <2>1, NextKeepsWhole DEF SysInv
  <2>2. CASE UNCHANGED sysVars
    <3>1. SameWindow /\ UNCHANGED <<store, pipe, replies, pulls, warmed>>
        BY <2>2 DEF sysVars, engineVars, bookVars, helperVars, windowVars, historyVars, SameWindow
    <3>2. NothingRested => NothingRested'
        BY <3>1 DEF NothingRested, SameWindow
    <3> QED
        BY <3>1, <3>2, SameWindowKeepsWhole
  <2> QED
      BY <2>1, <2>2
<1>3. IInv /\ SysInv /\ WholeInv => Fair
    BY PlaceIsFair DEF SysInv, NoDeep
<1>4. SysSpec => [][Fair]_sysVars
  <2> HIDE DEF Fair
  <2> QED
      BY <1>1, <1>2, <1>3, SystemInvariant, PTL DEF SysSpec
<1> QED
    BY <1>4 DEF NoTradeThrough

\* What the invariant is for.
LEMMA CleanIsSound == SysInv /\ Clean => ResidentIsAlive /\ StoreHoldsTheBook
<1> SUFFICES ASSUME SysInv, Clean
             PROVE  ResidentIsAlive /\ StoreHoldsTheBook
    OBVIOUS
<1>1. CleanInv
    BY DEF SysInv
<1>2. ASSUME pipe = << >>, ~closed
      PROVE  Rows(store.resting) = truth
  <2>1. Len(pipe) = 0
      BY <1>2
  <2>2. After(0) = store
      BY AppliedRec DEF After
  <2> QED
      BY <1>1, <1>2, <2>1, <2>2, SMTT(30) DEF CleanInv, PipeLeadsToTruth
<1> QED
    BY <1>1, <1>2 DEF CleanInv, StoreHoldsTheBook, Rows

\* With a database helper that refuses no write, the resident window never
\* holds an order that was cancelled, filled or pulled twice, nor one with
\* another quantity than it has left: in every session that was seeded, for
\* any window, any number of orders, late answers and failed pulls, a dead
\* helper and restarts between any two steps.
THEOREM ResidentIsAliveHolds == RestartSpec => [](Clean => ResidentIsAlive)
    BY RestartInvariant, CleanIsSound, PTL

\* Under the same conditions the store that has read its pipe holds the book.
THEOREM StoreHoldsTheBookHolds == RestartSpec => [](Clean => StoreHoldsTheBook)
    BY RestartInvariant, CleanIsSound, PTL

\* A single session whose helper is a database that refuses no write is clean
\* throughout.
LEMMA CleanStays ==
    ASSUME HelperKinds = {"database"}, Faults \cap {"refused", "unseeded"} = {}
    PROVE  SysSpec => []Clean
<1> DEFINE Inv == store.kind = "database" /\ faults \subseteq Faults
<1>1. SysInit => Inv
    BY SMT DEF SysInit, EmptyStore
<1>2. (IInv /\ SysInv) /\ Inv /\ [SysNext]_sysVars => Inv'
  <2> SUFFICES ASSUME Inv, IInv, SysInv, [SysNext]_sysVars
               PROVE  Inv'
      OBVIOUS
  <2>1. store.kind' = store.kind
    <3>1. CASE UNCHANGED store
        BY <3>1
    <3>2. CASE HelperWrites
      <4>1. StoreTypeOK /\ PipeTypeOK
          BY DEF SysInv, SysTypeOK
      <4>2. /\ Head(pipe) \in Sent
            /\ store' = Handled(store, Head(pipe)) \/ store' = store
          BY <3>2, <4>1, HeadType DEF HelperWrites
      <4>3. Handled(store, Head(pipe)).kind = store.kind
          BY <4>1, <4>2, HandledType, SMTT(30) DEF StoreTypeOK, Stores, Sent
      <4> QED
          BY <4>2, <4>3
    <3> QED
        BY <3>1, <3>2 DEF SysNext, SysSubmit, SysCancel, SysClose, HelperStep, HelperStartsRead,
           HelperReads, Deliver, DeliverOrder, DeliverPosition, DeliverLevels, TimeOut,
           TimeOutOrder, TimeOutPosition, TimeOutLevels, SysDrain, SysDrainStops, SysCallBack, SysWarmUp,
           SysDeepPull, SysPlace, helperVars, sysVars
  <2>2. faults' = faults \/ \E f \in Faults : faults' = faults \cup {f}
      BY DEF SysNext, SysSubmit, SysCancel, SysClose, HelperStep, HelperWrites, HelperStartsRead,
         HelperReads, Deliver, DeliverOrder, DeliverPosition, DeliverLevels, TimeOut,
         TimeOutOrder, TimeOutPosition, TimeOutLevels, SysDrain, SysDrainStops, SysCallBack, SysWarmUp,
         SysDeepPull, SysPlace, Fault, helperVars, sysVars
  <2> QED
      BY <2>1, <2>2
<1>3. Inv => Clean
    BY DEF Clean, Numbered
<1> HIDE DEF Inv
<1> QED
    BY <1>1, <1>2, <1>3, SystemInvariant, PTL DEF SysSpec

\* In such a session the window holds live orders only, and the store that has
\* read its pipe the whole book, without a condition on the state.
THEOREM WindowIsSound ==
    ASSUME HelperKinds = {"database"}, Faults \cap {"refused", "unseeded"} = {}
    PROVE  SysSpec => []ResidentIsAlive /\ []StoreHoldsTheBook
    BY CleanStays, SystemInvariant, CleanIsSound, PTL

\* A restart that loses no request finds the book the last session left, at
\* whatever point between a report and what it announces the server died.
THEOREM RestartKeepsTheBookHolds == RestartSpec => RestartKeepsTheBook
<1> DEFINE Same == session' # session /\ store.kind = "database" /\ "unseeded" \notin faults
                     /\ faults' \cap {"refused", "closed", "unsent"} = {} => truth' = truth
<1>1. SysInv /\ [RestartNext]_sysVars => [Same]_sysVars
  <2> SUFFICES ASSUME SysInv, Crash, store.kind = "database", "unseeded" \notin faults,
                      faults' \cap {"refused", "closed", "unsent"} = {}
               PROVE  truth' = truth
      BY DEF RestartNext, SysNext, sysVars
  <2>1. faults \subseteq faults' /\ Forget(StoreAfter(Len(pipe)))
      BY DEF Crash, CrashSeeded, CrashUnsent, CrashUnseeded, Fault
  <2>2. Clean /\ "closed" \notin faults
      BY <2>1 DEF Clean, Numbered
  <2>3. Rows(After(Len(pipe)).resting) = truth
      BY <2>2 DEF SysInv, ClosedIsEmpty, CleanInv, PipeLeadsToTruth
  <2>4. StoreAfter(Len(pipe)) = After(Len(pipe))
      BY DEF StoreAfter, After
  <2>5. truth' = Rows(StoreAfter(Len(pipe)).resting)
      BY <2>1 DEF Forget, Rows
  <2> QED
      BY <2>3, <2>4, <2>5
<1>2. RestartSpec => [][Same]_sysVars
    BY <1>1, RestartInvariant, PTL DEF RestartSpec
<1> QED
    BY <1>2 DEF RestartKeepsTheBook

\* submit numbers no order as one that storage already knows, in this session or
\* an earlier one, as long as no report was refused and every session started
\* with the watermarks (seed).
THEOREM IdsAreFreshHolds == RestartSpec => IdsAreFresh
<1> DEFINE Fresh == next_assign_seq' > next_assign_seq
                      /\ faults \cap {"refused", "unseeded"} = {} =>
                         \A i \in store.info \cup store.resting : i.id # OrderId(next_assign_seq)
<1>1. IInv /\ SysInv => Fresh
  <2> SUFFICES ASSUME IInv, SysInv, Numbered, NEW i \in store.info \cup store.resting
               PROVE  i.id # OrderId(next_assign_seq)
      BY DEF Numbered
  <2>1. IdsAreKnown
      BY DEF SysInv
  <2>2. OrderId(next_assign_seq) \in Nat
      BY OrderIdType, SMTT(30) DEF SysInv, IInv, TypeOK
  <2>3. \A x \in store.info : x.id < OrderId(next_assign_seq) /\ x.id \in Nat
    <3>1. store.info \subseteq [id : Nat, owner : Account, side : Side]
        BY DEF SysInv, SysTypeOK, StoreTypeOK, Stores, Store
    <3> QED
        BY <2>1, <3>1 DEF IdsAreKnown
  <2>4. i.id \in Ids(store.info)
      BY <2>1 DEF IdsAreKnown, Ids
  <2> QED
      BY <2>2, <2>3, <2>4, SMTT(30) DEF Ids
<1>2. RestartSpec => [][Fresh]_sysVars
    BY <1>1, RestartInvariant, PTL
<1> QED
    BY <1>2 DEF IdsAreFresh

=============================================================================
