------------------------- MODULE TradingTypesProofs -------------------------
(***************************************************************************)
(* The engine with its book, the helper and its pipe: the types of their   *)
(* state; that the engine inside behaves as TradingEngine says, so that every *)
(* invariant proved of TradingEngine holds of the whole system; and the    *)
(* invariant SysInv (the pipe always leads the store to the orders that are *)
(* alive) with the facts about the pipe that its proof rests on.           *)
(***************************************************************************)
EXTENDS TradingSystem, TradingPartsProofs

\* Zenon proves what no pragma names.
USE ZenonT(60)

-----------------------------------------------------------------------------
(* The types of the composed system.                                       *)

Stores == Store(Owner, Account)
Sent == RequestTo(Owner, Account)
Alive == [id : Nat, side : Side, price : Nat \ {0}, leaves : Nat \ {0}, rank : Nat]

OrderAnswer == [type : {"order"}, id : Nat]
PositionAnswer == [type : {"position"}, owner : Owner, net : Int]
LevelsAnswer == [type : {"levels"}, req : Nat, orders : Seq(Row)]

BookTypeOK ==
    /\ book \in Seq(Resident(Account))
    /\ has_deep \in [Side -> BOOLEAN]
    /\ position \in [Owner -> Int]
    /\ truth \subseteq Alive

StoreTypeOK ==
    /\ store \in Stores
    /\ Sound(store)

PipeTypeOK ==
    /\ pipe \in Seq(Sent)
    /\ reads \subseteq PositionRequest(Owner) \cup LevelsRequest
    /\ IsFiniteSet(reads)

AnswerTypeOK ==
    /\ replies \subseteq OrderAnswer \cup PositionAnswer \cup LevelsAnswer
    /\ IsFiniteSet(replies)
    /\ pulls \subseteq LevelsRequest
    /\ IsFiniteSet(pulls)

SysTypeOK ==
    /\ BookTypeOK
    /\ StoreTypeOK
    /\ PipeTypeOK
    /\ AnswerTypeOK
    /\ session \in [number : Nat, id_base : Nat, rank_base : Nat]

\* Ids are numbers.
LEMMA OrderIdType ==
    ASSUME SysTypeOK, NEW s \in Nat
    PROVE  OrderId(s) \in Nat
    BY SMT DEF SysTypeOK, OrderId

\* What is appended to a well-formed pipe.
LEMMA SendType ==
    ASSUME PipeTypeOK, NEW ms \in Seq(Sent), Send(ms), UNCHANGED reads
    PROVE  PipeTypeOK'
    BY SMT DEF PipeTypeOK, Send

\* The requests the engine writes are well formed.
LEMMA RequestMsgTypes ==
    /\ \A id \in Nat, owner \in Account, side \in Side : OrderMsg(id, owner, side) \in Sent
    /\ \A r \in Resident(Account) : RestMsg(r) \in Sent /\ RestMsg(r) \in RestRequest
    /\ \A id, qty, remaining \in Nat : FillMsg(id, qty, remaining) \in FillRequest
    /\ \A id \in Nat : CancelMsg(id) \in Sent /\ CancelMsg(id) \in CancelRequest
    /\ \A owner \in Owner : PositionMsg(owner) \in Sent
    /\ \A req, from \in Nat, side \in Side :
          LevelsMsg(req, side, from) \in Sent /\ LevelsMsg(req, side, from) \in LevelsRequest
    /\ FillRequest \subseteq Sent
<1>1. \A id \in Nat, owner \in Account, side \in Side : OrderMsg(id, owner, side) \in Sent
    BY DEF OrderMsg, Sent, RequestTo, OrderRequest
<1>2. \A r \in Resident(Account) : RestMsg(r) \in Sent /\ RestMsg(r) \in RestRequest
    BY DEF RestMsg, Sent, RequestTo, RestRequest, Resident
<1>3. \A id, qty, remaining \in Nat : FillMsg(id, qty, remaining) \in FillRequest
    BY DEF FillMsg, FillRequest
<1>4. \A id \in Nat : CancelMsg(id) \in Sent /\ CancelMsg(id) \in CancelRequest
    BY DEF CancelMsg, Sent, RequestTo, CancelRequest
<1>5. \A owner \in Owner : PositionMsg(owner) \in Sent
    BY DEF PositionMsg, Sent, RequestTo, PositionRequest
<1>6. \A req, from \in Nat, side \in Side :
         LevelsMsg(req, side, from) \in Sent /\ LevelsMsg(req, side, from) \in LevelsRequest
    BY EngineConstants DEF LevelsMsg, Sent, RequestTo, LevelsRequest
<1>7. FillRequest \subseteq Sent
    BY DEF Sent, RequestTo
<1> QED
    BY <1>1, <1>2, <1>3, <1>4, <1>5, <1>6, <1>7

InFlight == Range(pipe) \cup reads \cup replies \cup pulls

\* A new request id is larger than any in flight.
LEMMA FreshReqIsFresh ==
    ASSUME SysTypeOK
    PROVE  /\ FreshReq(1) \in Nat /\ FreshReq(2) = FreshReq(1) + 1
           /\ \A m \in InFlight : m.type = "levels" => m.req < FreshReq(1)
<1> DEFINE F == {m \in InFlight : m.type = "levels"}
           T == {0} \cup {m.req : m \in F}
<1>1. \A m \in F : m.req \in Nat
  <2>1. ASSUME NEW m \in Range(pipe), m.type = "levels" PROVE m.req \in Nat
    <3>1. m \in Sent
        BY SMT DEF SysTypeOK, PipeTypeOK, Range
    <3>2. m \in LevelsRequest
        BY <2>1, <3>1, RequestTypes DEF Sent
    <3> QED
        BY <3>2 DEF LevelsRequest
  <2>2. ASSUME NEW m \in reads \cup pulls, m.type = "levels" PROVE m.req \in Nat
      BY <2>2 DEF SysTypeOK, PipeTypeOK, AnswerTypeOK, PositionRequest, LevelsRequest
  <2>3. ASSUME NEW m \in replies, m.type = "levels" PROVE m.req \in Nat
      BY <2>3 DEF SysTypeOK, AnswerTypeOK, OrderAnswer, PositionAnswer, LevelsAnswer
  <2> QED
      BY <2>1, <2>2, <2>3 DEF InFlight
<1>2. IsFiniteSet(T)
  <2>1. IsFiniteSet(Range(pipe)) /\ IsFiniteSet(reads) /\ IsFiniteSet(replies) /\ IsFiniteSet(pulls)
      BY FiniteRange DEF SysTypeOK, PipeTypeOK, AnswerTypeOK
  <2>2. IsFiniteSet(InFlight)
    <3>1. IsFiniteSet(Range(pipe) \cup reads)
        BY <2>1, FS_Union
    <3>2. IsFiniteSet((Range(pipe) \cup reads) \cup replies)
        BY <2>1, <3>1, FS_Union
    <3>3. IsFiniteSet(((Range(pipe) \cup reads) \cup replies) \cup pulls)
        BY <2>1, <3>2, FS_Union
    <3> QED
        BY <3>3 DEF InFlight
  <2>3. IsFiniteSet(F)
      BY <2>2, FS_Subset
  <2>4. IsFiniteSet({m.req : m \in F})
    <3>1. PICK f : f = [m \in F |-> m.req]
        OBVIOUS
    <3>2. {f[m] : m \in F} = {m.req : m \in F}
        BY <3>1
    <3> HIDE DEF F
    <3>3. IsFiniteSet({f[m] : m \in F})
        BY <2>3, FiniteImage
    <3> QED
        BY <3>2, <3>3
  <2>5. IsFiniteSet({0})
      BY FS_Singleton
  <2> HIDE DEF F
  <2> QED
      BY <2>4, <2>5, FS_Union
<1>3. T # {} /\ T \subseteq Int /\ T \subseteq Nat
    BY <1>1, SMT
<1>4. FreshReq(1) = 1 + Max(T) /\ FreshReq(2) = 2 + Max(T)
    BY DEF FreshReq, InFlight
<1>5. \A m \in F : m.req \in T
    OBVIOUS
<1> HIDE DEF T, F
<1>6. Max(T) \in T /\ \A x \in T : x <= Max(T)
    BY <1>2, <1>3, MaxIsLargest
<1>7. PICK a \in Nat : a = Max(T)
    BY <1>3, <1>6
<1>8. FreshReq(1) = 1 + a /\ FreshReq(2) = 2 + a
    BY <1>4, <1>7
<1>9. \A m \in F : m.req \in Nat /\ m.req <= a
    BY <1>3, <1>5, <1>6, <1>7
<1>10. \A m \in F : m.req < 1 + a
    BY <1>9, SMT
<1> QED
    BY <1>8, <1>10, SMT DEF F

-----------------------------------------------------------------------------
(* A placement: what it fills, and what it reports.                        *)

\* The head of the queue is an order that arrived.
LEMMA HeadOrderType ==
    ASSUME IInv, HeadReady
    PROVE  /\ HeadOrder.order \in Order /\ HeadOrder.owner \in Account
           /\ HeadOrder.order.side \in Side
           /\ HeadOrder.order.type \in {"limit", "ioc", "market"}
           /\ HeadOrder.order.price \in Nat \ {0}
           /\ HeadOrder.order.qty \in Nat \ {0}
           /\ next_place_seq \in SeqNo
<1>1. pending \in [DOMAIN pending -> Pending] /\ DOMAIN pending \subseteq SeqNo
    BY DEF IInv, TypeOK
<1>2. HeadOrder \in Pending
    BY <1>1 DEF HeadOrder, HeadReady
<1>3. HeadOrder.order \in Order /\ HeadOrder.owner \in Account
    BY <1>2 DEF Pending
<1> QED
    BY <1>1, <1>3, SystemConstants DEF HeadReady

\* The order the makers' reports are in, and the maker behind each.
Reporting(o) == Ascending({book[i].id : i \in Traded(book, o)})
MakerOf(mid) == CHOOSE i \in DOMAIN book : book[i].id = mid

MakerReports(o) ==
    [n \in DOMAIN Reporting(o) |->
        FillMsg(Reporting(o)[n], FillAt(book, o, MakerOf(Reporting(o)[n])),
                book[MakerOf(Reporting(o)[n])].leaves
                  - FillAt(book, o, MakerOf(Reporting(o)[n])))]

TakerReport(o, id) ==
    IF Filled(book, o) > 0 THEN <<FillMsg(id, Filled(book, o), Remainder(book, o))>> ELSE << >>

\* A maker that trades is reported once under its id.
LEMMA ReportingLists ==
    ASSUME BookTypeOK, NEW o
    PROVE  /\ Reporting(o) \in Seq(Nat)
           /\ \A n \in DOMAIN Reporting(o) : \E i \in Traded(book, o) : Reporting(o)[n] = book[i].id
           /\ \A i \in Traded(book, o) : \E n \in DOMAIN Reporting(o) : Reporting(o)[n] = book[i].id
<1> DEFINE f == [i \in DOMAIN book |-> book[i].id]
           S == {f[i] : i \in Traded(book, o)}
<1>1. S = {book[i].id : i \in Traded(book, o)}
    BY DEF Traded
<1>2. IsFiniteSet(S)
  <2>1. IsFiniteSet(Traded(book, o))
      BY FiniteRange, FS_Subset DEF Traded, BookTypeOK
  <2> HIDE DEF f
  <2> QED
      BY <2>1, FiniteImage
<1>3. \A i \in DOMAIN book : book[i].id \in Nat
  <2> SUFFICES ASSUME NEW i \in DOMAIN book PROVE book[i].id \in Nat
      OBVIOUS
  <2>1. book[i] \in Resident(Account)
      BY SMT DEF BookTypeOK
  <2> QED
      BY <2>1 DEF Resident
<1>4. S \subseteq Nat /\ S \subseteq Int
    BY <1>3, SMT DEF Traded
<1>5. PICK q : q = Reporting(o) /\ q = Ascending(S)
    BY <1>1 DEF Reporting
<1>6. \A x \in S : \E i \in Traded(book, o) : x = book[i].id
    BY <1>1
<1>7. \A i \in Traded(book, o) : book[i].id \in S
    BY <1>1
<1> HIDE DEF S
<1>8. q \in Bijection(1..Cardinality(S), S) /\ Cardinality(S) \in Nat
    BY <1>2, <1>4, <1>5, AscendingLists, FS_CardinalityType
<1>9. q \in [1..Cardinality(S) -> S] /\ \A x \in S : \E n \in 1..Cardinality(S) : q[n] = x
    BY <1>8 DEF Bijection, Injection, Surjection
<1>10. q \in Seq(Nat) /\ DOMAIN q = 1..Cardinality(S)
  <2>1. q \in [1..Cardinality(S) -> Nat]
      BY <1>4, <1>9
  <2> QED
      BY <1>8, <2>1, SMT
<1> QED
    BY <1>5, <1>6, <1>7, <1>9, <1>10, SMTT(30)

\* The position of an id in the book is a position with that id, and the
\* only one when ids are distinct.
LEMMA MakerOfIsMaker ==
    ASSUME BookTypeOK, NEW i \in DOMAIN book
    PROVE  /\ MakerOf(book[i].id) \in DOMAIN book
           /\ book[MakerOf(book[i].id)].id = book[i].id
           /\ DistinctIds(book) => MakerOf(book[i].id) = i
    BY DEF MakerOf, DistinctIds

\* Quantities in the book are numbers.
LEMMA BookLeaves ==
    ASSUME BookTypeOK
    PROVE  LeavesAreNat(book)
<1> SUFFICES ASSUME NEW i \in DOMAIN book PROVE book[i].leaves \in Nat
    BY DEF LeavesAreNat
<1>1. book[i] \in Resident(Account)
    BY SMT DEF BookTypeOK
<1> QED
    BY <1>1 DEF Resident

\* The makers' reports carry what they have left.
LEMMA MakerReportsAre ==
    ASSUME BookTypeOK, NEW o, o.qty \in Nat
    PROVE  /\ MakerReports(o) \in Seq(FillRequest)
           /\ DistinctIds(book) =>
                 /\ \A n \in DOMAIN MakerReports(o) : \E i \in Traded(book, o) :
                       /\ MakerReports(o)[n].id = book[i].id
                       /\ Reported(MakerReports(o)[n]) = book[i].leaves - FillAt(book, o, i)
                 /\ \A i \in Traded(book, o) : \E n \in DOMAIN MakerReports(o) :
                       MakerReports(o)[n].id = book[i].id
<1>1. PICK q : q = Reporting(o)
    OBVIOUS
<1>2. /\ q \in Seq(Nat)
      /\ \A n \in DOMAIN q : \E i \in Traded(book, o) : q[n] = book[i].id
      /\ \A i \in Traded(book, o) : \E n \in DOMAIN q : q[n] = book[i].id
    BY <1>1, ReportingLists
<1> DEFINE msg(n) == FillMsg(q[n], FillAt(book, o, MakerOf(q[n])),
                             book[MakerOf(q[n])].leaves - FillAt(book, o, MakerOf(q[n])))
<1>3. MakerReports(o) = [n \in DOMAIN q |-> msg(n)]
    BY <1>1 DEF MakerReports
<1>4. \A i \in DOMAIN book : book[i].leaves \in Nat
    BY BookLeaves DEF LeavesAreNat
<1>5. \A i \in DOMAIN book : FillAt(book, o, i) \in Nat /\ FillAt(book, o, i) <= book[i].leaves
    BY BookLeaves, FillAtBounds DEF BookTypeOK
<1>6. ASSUME NEW n \in DOMAIN q
      PROVE  /\ msg(n) \in FillRequest
             /\ msg(n).id = q[n]
             /\ MakerOf(q[n]) \in DOMAIN book
             /\ Reported(msg(n)) = book[MakerOf(q[n])].leaves - FillAt(book, o, MakerOf(q[n]))
  <2>1. PICK i \in DOMAIN book : q[n] = book[i].id
      BY <1>2 DEF Traded
  <2>2. PICK k \in DOMAIN book : k = MakerOf(q[n])
      BY <2>1, MakerOfIsMaker
  <2>3. PICK a \in Nat, b \in Nat : a = FillAt(book, o, k) /\ b = book[k].leaves - FillAt(book, o, k)
      BY <1>4, <1>5, SMT
  <2>4. q[n] \in Nat /\ msg(n) = FillMsg(q[n], a, b)
      BY <1>2, <2>2, <2>3, SMTT(30)
  <2>5. /\ FillMsg(q[n], a, b) \in FillRequest /\ FillMsg(q[n], a, b).id = q[n]
        /\ Reported(FillMsg(q[n], a, b)) = b
      BY <2>4, RequestMsgTypes DEF FillMsg, Reported
  <2> HIDE DEF msg
  <2> QED
      BY <2>2, <2>3, <2>4, <2>5
<1>7. PICK s : s = MakerReports(o)
    OBVIOUS
<1> HIDE DEF msg
<1>8. DOMAIN s = DOMAIN q /\ \A n \in DOMAIN q : s[n] = msg(n)
    BY <1>3, <1>7
<1>9. s \in Seq(FillRequest)
  <2>1. DOMAIN q = 1..Len(q) /\ Len(q) \in Nat
      BY <1>2, SMT
  <2>2. s \in [1..Len(q) -> FillRequest]
      BY <1>3, <1>6, <1>7, <2>1
  <2> QED
      BY <2>1, <2>2, SMT
<1>10. ASSUME DistinctIds(book), NEW n \in DOMAIN s
       PROVE  \E i \in Traded(book, o) : /\ s[n].id = book[i].id
                                         /\ Reported(s[n]) = book[i].leaves - FillAt(book, o, i)
  <2>1. PICK i \in Traded(book, o) : q[n] = book[i].id
      BY <1>2, <1>8
  <2>2. MakerOf(q[n]) = i
      BY <1>10, <2>1, MakerOfIsMaker DEF Traded
  <2> QED
      BY <1>6, <1>8, <2>1, <2>2
<1>11. ASSUME NEW i \in Traded(book, o)
       PROVE  \E n \in DOMAIN s : s[n].id = book[i].id
  <2>1. PICK n \in DOMAIN q : q[n] = book[i].id
      BY <1>2
  <2>2. s[n] = msg(n) /\ msg(n).id = q[n] /\ n \in DOMAIN s
      BY <1>6, <1>8
  <2> QED
      BY <2>1, <2>2
<1> QED
    BY <1>7, <1>9, <1>10, <1>11

\* All reports of a placement are fill reports.
LEMMA FillReportsType ==
    ASSUME BookTypeOK, NEW o, o.qty \in Nat, NEW id \in Nat
    PROVE  /\ FillReports(o, id) = TakerReport(o, id) \o MakerReports(o)
           /\ TakerReport(o, id) \in Seq(FillRequest)
           /\ FillReports(o, id) \in Seq(FillRequest)
           /\ Filled(book, o) \in Nat /\ Remainder(book, o) \in Nat
<1>1. FillReports(o, id) = TakerReport(o, id) \o MakerReports(o)
    BY DEF FillReports, TakerReport, MakerReports, Reporting, MakerOf
<1>2. LeavesAreNat(book)
    BY BookLeaves
<1>3. Filled(book, o) \in Nat /\ Filled(book, o) <= o.qty
    BY <1>2, FillAtBounds DEF BookTypeOK
<1>4. Remainder(book, o) \in Nat
    BY <1>3, SMT DEF Remainder
<1>5. TakerReport(o, id) \in Seq(FillRequest)
  <2>1. FillMsg(id, Filled(book, o), Remainder(book, o)) \in FillRequest
      BY <1>3, <1>4, RequestMsgTypes
  <2> QED
      BY <2>1, SMT DEF TakerReport
<1>6. MakerReports(o) \in Seq(FillRequest)
    BY MakerReportsAre
<1> QED
    BY <1>1, <1>3, <1>4, <1>5, <1>6, SMTT(30)

-----------------------------------------------------------------------------
(* The types are kept.                                                     *)

\* What a placement fills of each live order is a number.
FillOf(o, t) ==
    SumFunctionOnSet([i \in DOMAIN book |-> FillAt(book, o, i)],
                     {i \in DOMAIN book : book[i].id = t.id})

\* What a match takes from an order is a natural number.
LEMMA FillOfType ==
    ASSUME BookTypeOK, NEW o, o.qty \in Nat, NEW t
    PROVE  FillOf(o, t) \in Nat
<1> DEFINE f == [i \in DOMAIN book |-> FillAt(book, o, i)]
           S == {i \in DOMAIN book : book[i].id = t.id}
<1>1. LeavesAreNat(book)
    BY BookLeaves
<1>2. \A i \in DOMAIN book : FillAt(book, o, i) \in Nat
    BY <1>1, FillAtBounds DEF BookTypeOK
<1>3. NatOn(f, S) /\ S \in SUBSET DOMAIN book
    BY <1>2 DEF NatOn
<1>4. IsFiniteSet(S)
    BY <1>3, FiniteRange, FS_Subset DEF BookTypeOK
<1>5. FillOf(o, t) = SumFunctionOnSet(f, S)
    BY DEF FillOf
<1> HIDE DEF f, S
<1> QED
    BY <1>3, <1>4, <1>5, SumNat

\* The orders alive after a match are the ones it does not exhaust, with
\* what it leaves of them.
LEMMA TruthAfterMatchIs ==
    ASSUME NEW o
    PROVE  TruthAfterMatch(o)
             = {[t EXCEPT !.leaves = t.leaves - FillOf(o, t)] :
                  t \in {x \in truth : x.leaves > FillOf(o, x)}}
    BY DEF TruthAfterMatch, FillOf

\* Positions stay integers when the fills of a match are booked.
LEMMA PositionAfterType ==
    ASSUME BookTypeOK, NEW o, o.qty \in Nat, NEW owner
    PROVE  PositionAfter(o, owner) \in [Owner -> Int]
<1> DEFINE f == [i \in DOMAIN book |-> SignedQty(book[i].side, FillAt(book, o, i))]
           S(a) == {i \in Traded(book, o) : book[i].owner = a}
<1>1. LeavesAreNat(book)
    BY BookLeaves
<1>2. /\ \A i \in DOMAIN book : FillAt(book, o, i) \in Nat
      /\ Filled(book, o) \in Nat
    BY <1>1, FillAtBounds DEF BookTypeOK
<1>3. \A i \in DOMAIN book : f[i] \in Int
    BY <1>2, SMT DEF SignedQty
<1>4. ASSUME NEW a \in Owner
      PROVE  SumFunctionOnSet(f, S(a)) \in Int
  <2>1. S(a) \in SUBSET DOMAIN book
      BY DEF Traded
  <2>2. IsFiniteSet(S(a)) /\ IntOn(f, S(a))
      BY <1>3, <2>1, FiniteRange, FS_Subset DEF BookTypeOK, IntOn
  <2> HIDE DEF f, S
  <2> QED
      BY <2>2, SumInt
<1>5. ASSUME NEW a \in Owner
      PROVE  (IF owner = a THEN SignedQty(o.side, Filled(book, o)) ELSE 0) \in Int
    BY <1>2, SMT DEF SignedQty
<1>6. PositionAfter(o, owner)
        = [a \in Owner |-> position[a]
             + (IF owner = a THEN SignedQty(o.side, Filled(book, o)) ELSE 0)
             + SumFunctionOnSet(f, S(a))]
    BY DEF PositionAfter
<1> HIDE DEF f, S
<1> QED
    BY <1>4, <1>5, <1>6, SMTT(30) DEF BookTypeOK

\* A placement keeps the types.
LEMMA PlaceRecordedTypes ==
    ASSUME IInv, SysTypeOK, HeadReady, PlaceRecorded, UNCHANGED reads
    PROVE  BookTypeOK' /\ PipeTypeOK'
<1>1. PICK o, id : o = HeadOrder.order /\ id = OrderId(next_place_seq)
    OBVIOUS
<1>2. /\ o.side \in Side /\ o.price \in Nat \ {0} /\ o.qty \in Nat
      /\ HeadOrder.owner \in Account /\ id \in Nat
    BY <1>1, HeadOrderType, OrderIdType, SMTT(30) DEF SeqNo
<1>3. BookTypeOK /\ PipeTypeOK
    BY DEF SysTypeOK
<1>4. PICK r : r = [id |-> id, owner |-> HeadOrder.owner, side |-> o.side,
                    price |-> o.price, leaves |-> Remainder(book, o),
                    rank |-> session.rank_base + Len(placed) + 1]
    OBVIOUS
<1>5. Rests(book, o) => r \in Resident(Account)
  <2>1. Remainder(book, o) \in Nat /\ (Rests(book, o) => Remainder(book, o) \in Nat \ {0})
      BY <1>2, <1>3, FillReportsType, SMTT(30) DEF Rests
  <2>2. session.rank_base + Len(placed) + 1 \in Nat
      BY SMT DEF SysTypeOK, IInv, TypeOK
  <2> QED
      BY <1>2, <1>4, <2>1, <2>2 DEF Resident
<1>6. PICK matched : matched = AfterMatch(book, o)
    OBVIOUS
<1>7. matched \in Seq(Resident(Account))
    BY <1>2, <1>3, <1>6, AfterMatchEntries DEF BookTypeOK
<1>8. /\ book' = IF Rests(book, o) THEN AfterRest(matched, r, MemLevels) ELSE matched
      /\ has_deep' = [has_deep EXCEPT
            ![o.side] = @ \/ (Rests(book, o) /\ NotesDeep(matched, r, MemLevels))]
      /\ position' = PositionAfter(o, HeadOrder.owner)
      /\ truth' = TruthAfterMatch(o) \cup (IF Rests(book, o) THEN {AliveRecord(r, r.rank)} ELSE {})
      /\ Send((IF Rests(book, o) THEN <<RestMsg(r)>> ELSE << >>) \o FillReports(o, id))
    BY <1>1, <1>4, <1>6 DEF PlaceRecorded
<1>9. book' \in Seq(Resident(Account))
    BY <1>5, <1>7, <1>8, AfterRestEntries
<1>10. has_deep' \in [Side -> BOOLEAN]
  <2>1. PICK v \in BOOLEAN : v = (has_deep[o.side] \/ (Rests(book, o) /\ NotesDeep(matched, r, MemLevels)))
      BY <1>2, <1>3 DEF BookTypeOK
  <2>2. has_deep' = [has_deep EXCEPT ![o.side] = v]
      BY <1>8, <2>1
  <2> QED
      BY <1>2, <1>3, <2>2 DEF BookTypeOK
<1>11. position' \in [Owner -> Int]
    BY <1>2, <1>3, <1>8, PositionAfterType
<1>12. truth' \subseteq Alive
  <2>1. Rests(book, o) => AliveRecord(r, r.rank) \in Alive
      BY <1>5 DEF Resident, Alive, AliveRecord
  <2>2. ASSUME NEW t \in truth, t.leaves > FillOf(o, t)
        PROVE  [t EXCEPT !.leaves = t.leaves - FillOf(o, t)] \in Alive
    <3>1. PICK f \in Nat : f = FillOf(o, t)
        BY <1>2, <1>3, FillOfType
    <3>2. t \in Alive /\ t.leaves > f
        BY <1>3, <2>2, <3>1 DEF BookTypeOK
    <3>3. [t EXCEPT !.leaves = t.leaves - f] \in Alive
        BY <3>2, SMT DEF Alive
    <3> QED
        BY <3>1, <3>3
  <2>3. TruthAfterMatch(o) \subseteq Alive
      BY <2>2, TruthAfterMatchIs
  <2> QED
      BY <1>8, <2>1, <2>3
<1>13. PipeTypeOK'
  <2>1. FillReports(o, id) \in Seq(Sent)
    <3>1. FillReports(o, id) \in Seq(FillRequest)
        BY <1>2, <1>3, FillReportsType
    <3> QED
        BY <3>1, RequestMsgTypes, SMT
  <2>2. (IF Rests(book, o) THEN <<RestMsg(r)>> ELSE << >>) \in Seq(Sent)
      BY <1>5, RequestMsgTypes, SMTT(30)
  <2>3. PICK a \in Seq(Sent), b \in Seq(Sent) :
           /\ a = IF Rests(book, o) THEN <<RestMsg(r)>> ELSE << >>
           /\ b = FillReports(o, id)
      BY <2>1, <2>2
  <2>4. a \o b \in Seq(Sent) /\ Send(a \o b)
      BY <1>8, <2>3, SMT
  <2> QED
      BY <1>3, <2>4, SendType
<1> QED
    BY <1>9, <1>10, <1>11, <1>12, <1>13 DEF BookTypeOK

\* What on_pull makes of an answer.
LEMMA MaterializedEntries ==
    ASSUME NEW orders \in Seq(Row), NEW side \in Side
    PROVE  /\ Materialized(orders, side) \in Seq(Resident(Account))
           /\ \A n \in DOMAIN Materialized(orders, side) : \E i \in DOMAIN orders :
                 /\ orders[i].id \notin {OrderId(s) : s \in pull_ignore}
                 /\ orders[i].id \notin IdsOf(book)
                 /\ Materialized(orders, side)[n]
                      = [id |-> orders[i].id, owner |-> Anonymous, side |-> side,
                         price |-> orders[i].price, leaves |-> orders[i].leaves,
                         rank |-> orders[i].seq]
           /\ DistinctIds(orders) => DistinctIds(Materialized(orders, side))
<1> DEFINE entry(x) == [id |-> x.id, owner |-> Anonymous, side |-> side, price |-> x.price,
                        leaves |-> x.leaves, rank |-> x.seq]
<1>1. PICK K : K = {i \in DOMAIN orders :
                      orders[i].id \notin {OrderId(s) : s \in pull_ignore} \cup IdsOf(book)}
    OBVIOUS
<1>2. PICK w : w = KeepAt(orders, K)
    OBVIOUS
<1>3. PICK q : q = Materialized(orders, side)
    OBVIOUS
<1>4. q = [i \in DOMAIN w |-> entry(w[i])]
    BY <1>1, <1>2, <1>3 DEF Materialized
<1>5. K \in SUBSET DOMAIN orders
    BY <1>1
<1>6. /\ w \in Seq(Row)
      /\ \A n \in DOMAIN w : \E i \in K : w[n] = orders[i]
      /\ DistinctIds(orders) => DistinctIds(w)
    BY <1>2, <1>5, KeepAtEntries
<1>7. \A x \in Row : entry(x) \in Resident(Account) /\ entry(x).id = x.id
    BY DEF Row, Resident, Account
<1> HIDE DEF entry
<1>8. DOMAIN q = DOMAIN w /\ \A n \in DOMAIN w : w[n] \in Row /\ q[n] = entry(w[n])
    BY <1>4, <1>6, SMT
<1>9. q \in Seq(Resident(Account))
  <2>1. DOMAIN w = 1..Len(w) /\ Len(w) \in Nat
      BY <1>6, SMT
  <2>2. q \in [1..Len(w) -> Resident(Account)]
      BY <1>4, <1>7, <1>8, <2>1
  <2> QED
      BY <2>1, <2>2, SMTT(30)
<1>10. ASSUME NEW n \in DOMAIN q
       PROVE  \E i \in DOMAIN orders : /\ orders[i].id \notin {OrderId(s) : s \in pull_ignore}
                                       /\ orders[i].id \notin IdsOf(book)
                                       /\ q[n] = entry(orders[i])
  <2>1. PICK i \in K : w[n] = orders[i]
      BY <1>6, <1>8
  <2> QED
      BY <1>1, <1>8, <2>1
<1>11. DistinctIds(orders) => DistinctIds(q)
  <2>1. \A n \in DOMAIN q : q[n].id = w[n].id
      BY <1>7, <1>8
  <2> QED
      BY <1>6, <1>8, <2>1 DEF DistinctIds
<1> QED
    BY <1>3, <1>9, <1>10, <1>11 DEF entry

\* The helper answers with what its type says.
LEMMA AnswerToType ==
    ASSUME SysTypeOK, NEW m \in PositionRequest(Owner) \cup LevelsRequest
    PROVE  AnswerTo(m) \in PositionAnswer \cup LevelsAnswer
<1>1. CASE m \in PositionRequest(Owner)
    BY <1>1 DEF SysTypeOK, StoreTypeOK, Stores, Store, AnswerTo, PositionRequest, PositionAnswer
<1>2. CASE m \in LevelsRequest
  <2>1. m.type = "levels" /\ m.req \in Nat /\ m.side \in Side
      BY <1>2 DEF LevelsRequest
  <2>2. AnswerTo(m) = [type |-> "levels", req |-> m.req, orders |-> PulledLevels(store, m)]
      BY <2>1 DEF AnswerTo
  <2>3. PulledLevels(store, m) \in Seq(Row)
      BY <2>1, PulledLevelsList DEF SysTypeOK, StoreTypeOK, Stores, Store, Sound
  <2> QED
      BY <2>1, <2>2, <2>3, SMT DEF LevelsAnswer
<1> QED
    BY <1>1, <1>2

\* Sending a pull, and answering one.
LEMMA PullTypes ==
    ASSUME SysTypeOK, HeadOrder.order.side \in Side
    PROVE  LET contra == Opposite(HeadOrder.order.side)
           IN LevelsMsg(FreshReq(1), contra, PullFrom(contra)) \in LevelsRequest
<1> DEFINE contra == Opposite(HeadOrder.order.side)
<1>1. contra \in Side
    BY DEF Opposite, Side
<1>2. PullFrom(contra) \in Nat
  <2>1. CASE Levels(book, contra) = {}
      BY <2>1 DEF PullFrom
  <2>2. CASE Levels(book, contra) # {}
    <3> HIDE DEF contra
    <3>1. WorstPrice(book, contra) \in Levels(book, contra) /\ Levels(book, contra) \subseteq Nat \ {0}
        BY <1>1, <2>2, WorstPriceIsWorst DEF SysTypeOK, BookTypeOK
    <3> QED
        BY <2>2, <3>1 DEF PullFrom
  <2> QED
      BY <2>1, <2>2
<1> HIDE DEF contra
<1>3. LevelsMsg(FreshReq(1), contra, PullFrom(contra)) \in LevelsRequest
    BY <1>1, <1>2, FreshReqIsFresh, RequestMsgTypes
<1> QED
    BY <1>3 DEF contra

\* A store that handled a request is as well formed as before.
LEMMA HandledStoreType ==
    ASSUME StoreTypeOK, NEW m \in Sent, store' = Handled(store, m)
    PROVE  StoreTypeOK'
    BY HandledType, HandledFinite, HandledUnique DEF StoreTypeOK, Stores, Sent, Sound

\* The head of the pipe is a request, and so is the rest of it.
LEMMA HeadType ==
    ASSUME PipeTypeOK, pipe # << >>
    PROVE  /\ Head(pipe) \in Sent /\ Tail(pipe) \in Seq(Sent)
           /\ IsRead(Head(pipe)) => Head(pipe) \in PositionRequest(Owner) \cup LevelsRequest
           /\ ~IsRead(Head(pipe)) => Handled(store, Head(pipe)) = ApplyWrite(store, Head(pipe))
<1>1. Head(pipe) \in Sent /\ Tail(pipe) \in Seq(Sent)
    BY SMT DEF PipeTypeOK
<1> QED
    BY <1>1, RequestTypes DEF Sent, IsRead, Handled

\* One more answer.
LEMMA OneMoreAnswer ==
    ASSUME AnswerTypeOK, UNCHANGED pulls, NEW a \in OrderAnswer \cup PositionAnswer \cup LevelsAnswer,
           replies' = replies \cup {a}
    PROVE  AnswerTypeOK'
    BY FS_AddElement DEF AnswerTypeOK

\* What the helper does keeps the types.
LEMMA HelperTypes ==
    ASSUME SysTypeOK, HelperStep, UNCHANGED session
    PROVE  SysTypeOK'
<1> USE DEF SysTypeOK
<1>1. BookTypeOK'
    BY DEF HelperStep, HelperWrites, HelperStartsRead, HelperReads, bookVars, BookTypeOK
<1>2. CASE HelperWrites
  <2>1. Head(pipe) \in Sent /\ Tail(pipe) \in Seq(Sent)
      BY <1>2, HeadType DEF HelperWrites
  <2>2. StoreTypeOK'
    <3>1. CASE store' = ApplyWrite(store, Head(pipe))
      <4>1. store' = Handled(store, Head(pipe))
          BY <1>2, <3>1, HeadType DEF HelperWrites
      <4> QED
          BY <2>1, <4>1, HandledStoreType
    <3>2. CASE UNCHANGED store
        BY <3>2 DEF StoreTypeOK
    <3> QED
        BY <1>2, <3>1, <3>2 DEF HelperWrites
  <2>3. PipeTypeOK'
      BY <1>2, <2>1 DEF HelperWrites, PipeTypeOK
  <2>4. AnswerTypeOK'
    <3>1. CASE Head(pipe).type = "order"
      <4>1. PICK a : a = [type |-> "order", id |-> Head(pipe).id]
          OBVIOUS
      <4>2. Head(pipe) \in OrderRequest(Account)
          BY <2>1, <3>1, RequestTypes DEF Sent
      <4>3. a \in OrderAnswer
          BY <4>1, <4>2 DEF OrderAnswer, OrderRequest
      <4>4. replies' = replies \cup {a} /\ UNCHANGED pulls
          BY <1>2, <3>1, <4>1 DEF HelperWrites, WriteAck
      <4> QED
          BY <4>3, <4>4, OneMoreAnswer
    <3>2. CASE Head(pipe).type # "order"
        BY <1>2, <3>2 DEF HelperWrites, WriteAck, AnswerTypeOK
    <3> QED
        BY <3>1, <3>2
  <2> QED
      BY <1>1, <2>2, <2>3, <2>4
<1>3. CASE HelperStartsRead
  <2>1. /\ Head(pipe) \in PositionRequest(Owner) \cup LevelsRequest
        /\ Tail(pipe) \in Seq(Sent)
      BY <1>3, HeadType DEF HelperStartsRead
  <2>2. PipeTypeOK'
    <3>1. CASE UNCHANGED reads
        BY <1>3, <2>1, <3>1 DEF HelperStartsRead, PipeTypeOK
    <3>2. CASE reads' = reads \cup {Head(pipe)}
      <4>1. IsFiniteSet(reads')
          BY <3>2, FS_AddElement DEF PipeTypeOK
      <4> QED
          BY <1>3, <2>1, <3>2, <4>1 DEF HelperStartsRead, PipeTypeOK
    <3> QED
        BY <1>3, <3>1, <3>2 DEF HelperStartsRead
  <2>3. AnswerTypeOK'
    <3>1. CASE UNCHANGED replies
        BY <1>3, <3>1 DEF HelperStartsRead, AnswerTypeOK
    <3>2. CASE replies' = replies \cup {AnswerTo(Head(pipe))}
        BY <1>3, <2>1, <3>2, AnswerToType, OneMoreAnswer DEF HelperStartsRead
    <3> QED
        BY <1>3, <3>1, <3>2 DEF HelperStartsRead
  <2>4. StoreTypeOK'
      BY <1>3 DEF HelperStartsRead, StoreTypeOK
  <2> QED
      BY <1>1, <2>2, <2>3, <2>4
<1>4. ASSUME NEW m \in reads, HelperReads(m)
      PROVE  SysTypeOK'
  <2>1. m \in PositionRequest(Owner) \cup LevelsRequest
      BY DEF PipeTypeOK
  <2>2. PipeTypeOK'
      BY <1>4, FS_RemoveElement DEF HelperReads, PipeTypeOK
  <2>3. AnswerTypeOK'
      BY <1>4, <2>1, AnswerToType, OneMoreAnswer DEF HelperReads
  <2>4. StoreTypeOK'
      BY <1>4 DEF HelperReads, StoreTypeOK
  <2> QED
      BY <1>1, <2>2, <2>3, <2>4
<1> QED
    BY <1>2, <1>3, <1>4 DEF HelperStep

\* Answers that are delivered, or do not come in time.
LEMMA DeliverTypes ==
    ASSUME SysTypeOK, Deliver \/ TimeOut, UNCHANGED session
    PROVE  SysTypeOK'
<1> USE DEF SysTypeOK
<1>1. UNCHANGED <<has_deep, truth, store, pipe, reads>>
    BY DEF Deliver, TimeOut, DeliverOrder, DeliverLevels, DeliverPosition, TimeOutOrder,
       TimeOutPosition, TimeOutLevels, bookVars, helperVars
<1>2. StoreTypeOK' /\ PipeTypeOK'
    BY <1>1 DEF StoreTypeOK, PipeTypeOK
<1>3. ASSUME NEW r \in replies, DeliverOrder(r)
      PROVE  BookTypeOK' /\ AnswerTypeOK'
    BY <1>3, FS_RemoveElement DEF DeliverOrder, bookVars, BookTypeOK, AnswerTypeOK
<1>4. ASSUME NEW r \in replies, DeliverLevels(r)
      PROVE  BookTypeOK' /\ AnswerTypeOK'
  <2>1. AnswerTypeOK'
      BY <1>4, FS_RemoveElement DEF DeliverLevels, AnswerTypeOK
  <2>2. CASE UNCHANGED book
      BY <1>4, <2>1, <2>2 DEF DeliverLevels, BookTypeOK
  <2>3. ASSUME NEW p \in pulls, book' = book \o Materialized(r.orders, p.side)
        PROVE  BookTypeOK'
    <3>1. r.orders \in Seq(Row)
        BY <1>4 DEF DeliverLevels, AnswerTypeOK, OrderAnswer, PositionAnswer, LevelsAnswer
    <3>2. p.side \in Side
        BY DEF AnswerTypeOK, LevelsRequest
    <3>3. Materialized(r.orders, p.side) \in Seq(Resident(Account))
        BY <3>1, <3>2, MaterializedEntries
    <3> QED
        BY <1>4, <2>3, <3>3, SMTT(30) DEF DeliverLevels, BookTypeOK
  <2> QED
      BY <1>4, <2>1, <2>2, <2>3 DEF DeliverLevels
<1>5. ASSUME NEW r \in replies, NEW key \in Key, DeliverPosition(r, key)
      PROVE  BookTypeOK' /\ AnswerTypeOK'
  <2>1. r.net \in Int
      BY <1>5 DEF DeliverPosition, AnswerTypeOK, OrderAnswer, PositionAnswer, LevelsAnswer
  <2>2. AnswerTypeOK'
      BY <1>5, FS_RemoveElement DEF DeliverPosition, AnswerTypeOK
  <2>3. BookTypeOK'
      BY <1>5, <2>1 DEF DeliverPosition, BookTypeOK
  <2> QED
      BY <2>2, <2>3
<1>6. CASE TimeOut
  <2>1. BookTypeOK'
      BY <1>6 DEF TimeOut, TimeOutOrder, TimeOutPosition, TimeOutLevels, bookVars, BookTypeOK
  <2>2. UNCHANGED replies /\ (UNCHANGED pulls \/ \E p \in pulls : pulls' = pulls \ {p})
      BY <1>6 DEF TimeOut, TimeOutOrder, TimeOutPosition, TimeOutLevels, helperVars
  <2>3. AnswerTypeOK'
      BY <2>2, FS_RemoveElement DEF AnswerTypeOK
  <2> QED
      BY <1>2, <2>1, <2>3
<1> QED
    BY <1>2, <1>3, <1>4, <1>5, <1>6 DEF Deliver

\* One request, or none, is a sequence of requests.
LEMMA SingleSent ==
    /\ << >> \in Seq(Sent)
    /\ \A m \in Sent : <<m>> \in Seq(Sent)
    BY SMT

\* What is sent to the helper by a submission, a cancel or a pull.
LEMMA SendingTypes ==
    ASSUME IInv, SysTypeOK, UNCHANGED session,
           \/ \E sym \in Symbol, owner \in Account, o \in Order : SysSubmit(sym, owner, o)
           \/ \E s \in SeqNo, requester \in Account : SysCancel(s, requester)
           \/ SysClose
           \/ SysDrainStops \/ SysWarmUp \/ SysDeepPull \/ SysCallBack
    PROVE  SysTypeOK'
<1> USE DEF SysTypeOK
<1>1. ASSUME NEW sym \in Symbol, NEW owner \in Account, NEW o \in Order, SysSubmit(sym, owner, o)
      PROVE  SysTypeOK'
  <2>1. OrderMsg(OrderId(next_assign_seq), owner, o.side) \in Sent
      BY OrderIdType, SystemConstants, RequestMsgTypes, SMTT(30) DEF IInv, TypeOK
  <2>2. PullsPosition(sym, owner) => PositionMsg(owner) \in Sent
      BY RequestMsgTypes DEF PullsPosition, PositionAvailable, Account
  <2>3. PICK a \in Seq(Sent), b \in Seq(Sent) :
           /\ a = IF PullsPosition(sym, owner) THEN <<PositionMsg(owner)>> ELSE << >>
           /\ b = <<OrderMsg(OrderId(next_assign_seq), owner, o.side)>>
    <3>1. <<OrderMsg(OrderId(next_assign_seq), owner, o.side)>> \in Seq(Sent)
        BY <2>1, SingleSent
    <3>2. (IF PullsPosition(sym, owner) THEN <<PositionMsg(owner)>> ELSE << >>) \in Seq(Sent)
        BY <2>2, SingleSent
    <3> QED
        BY <3>1, <3>2
  <2>4. a \o b \in Seq(Sent) /\ Send(a \o b) /\ UNCHANGED reads
      BY <1>1, <2>3, SMT DEF SysSubmit
  <2>5. PipeTypeOK'
      BY <2>4, SendType
  <2> QED
      BY <1>1, <2>5 DEF SysSubmit, bookVars, BookTypeOK, StoreTypeOK, AnswerTypeOK
<1>2. ASSUME NEW s \in SeqNo, NEW requester \in Account, SysCancel(s, requester)
      PROVE  SysTypeOK'
  <2>1. CancelMsg(OrderId(s)) \in Sent
      BY OrderIdType, RequestMsgTypes, SMT DEF SeqNo
  <2>2. PipeTypeOK'
    <3>1. <<CancelMsg(OrderId(s))>> \in Seq(Sent)
        BY <2>1, SingleSent
    <3> QED
        BY <1>2, <3>1, SendType DEF SysCancel
  <2>3. book' \in Seq(Resident(Account))
      BY <1>2, WithoutOrderEntries DEF SysCancel, BookTypeOK
  <2>4. BookTypeOK'
      BY <1>2, <2>3 DEF SysCancel, BookTypeOK
  <2> QED
      BY <1>2, <2>2, <2>4 DEF SysCancel, StoreTypeOK, AnswerTypeOK
<1>3. CASE SysClose
  <2>1. PipeTypeOK' /\ AnswerTypeOK'
      BY <1>3, FS_EmptySet, SMTT(30) DEF SysClose, PipeTypeOK, AnswerTypeOK
  <2> QED
      BY <1>3, <2>1 DEF SysClose, bookVars, BookTypeOK, StoreTypeOK
<1>4. CASE SysDrainStops \/ SysCallBack
    BY <1>4 DEF SysDrainStops, SysCallBack, bookVars, helperVars, BookTypeOK, StoreTypeOK, PipeTypeOK,
       AnswerTypeOK
<1>5. CASE SysWarmUp
  <2>1. PICK a \in LevelsRequest, b \in LevelsRequest :
           a = LevelsMsg(FreshReq(1), "buy", 0) /\ b = LevelsMsg(FreshReq(2), "sell", 0)
    <3>1. FreshReq(1) \in Nat /\ FreshReq(2) \in Nat
        BY FreshReqIsFresh, SMT
    <3> QED
        BY <3>1, RequestMsgTypes DEF Side
  <2>2. <<a, b>> \in Seq(Sent) /\ Range(<<a, b>>) = {a, b}
    <3>1. a \in Sent /\ b \in Sent
        BY DEF Sent, RequestTo
    <3>2. Range(<<a, b>>) = {a, b}
      <4>1. DOMAIN <<a, b>> = {1, 2} /\ <<a, b>>[1] = a /\ <<a, b>>[2] = b
          BY SMT
      <4>2. PICK q : q = <<a, b>>
          OBVIOUS
      <4>3. {q[i] : i \in DOMAIN q} = {a, b}
          BY <4>1, <4>2
      <4> QED
          BY <4>2, <4>3 DEF Range
    <3> QED
        BY <3>1, <3>2, SMTT(30)
  <2>3. Send(<<a, b>>) /\ pulls' = (IF closed THEN pulls ELSE pulls \cup {a, b})
      BY <1>5, <2>1, <2>2 DEF SysWarmUp
  <2>4. PipeTypeOK'
      BY <1>5, <2>2, <2>3, SendType DEF SysWarmUp
  <2>5. IsFiniteSet(pulls')
    <3>1. IsFiniteSet({a, b})
      <4>1. IsFiniteSet({a}) /\ IsFiniteSet({b})
          BY FS_Singleton
      <4>2. IsFiniteSet({a} \cup {b})
          BY <4>1, FS_Union
      <4>3. {a} \cup {b} = {a, b}
          OBVIOUS
      <4> QED
          BY <4>2, <4>3
    <3> QED
        BY <2>3, <3>1, FS_Union DEF AnswerTypeOK
  <2>6. AnswerTypeOK'
      BY <1>5, <2>3, <2>5 DEF SysWarmUp, AnswerTypeOK
  <2> QED
      BY <1>5, <2>4, <2>6 DEF SysWarmUp, bookVars, BookTypeOK, StoreTypeOK
<1>6. CASE SysDeepPull
  <2>1. HeadOrder.order.side \in Side
      BY <1>6, HeadOrderType DEF SysDeepPull, DeepPull, MayPull
  <2>2. PICK m \in LevelsRequest :
           m = LevelsMsg(FreshReq(1), Opposite(HeadOrder.order.side),
                         PullFrom(Opposite(HeadOrder.order.side)))
      BY <2>1, PullTypes
  <2>3. Send(<<m>>) /\ pulls' = (IF closed THEN pulls ELSE pulls \cup {m})
      BY <1>6, <2>2 DEF SysDeepPull
  <2>4. PipeTypeOK'
    <3>1. m \in Sent
        BY DEF Sent, RequestTo
    <3>2. <<m>> \in Seq(Sent)
        BY <3>1, SingleSent
    <3> QED
        BY <1>6, <2>3, <3>2, SendType DEF SysDeepPull
  <2>5. AnswerTypeOK'
      BY <1>6, <2>3, FS_AddElement, SMTT(30) DEF SysDeepPull, AnswerTypeOK
  <2> QED
      BY <1>6, <2>4, <2>5 DEF SysDeepPull, bookVars, BookTypeOK, StoreTypeOK
<1> QED
    BY <1>1, <1>2, <1>3, <1>4, <1>5, <1>6

\* A placement.
LEMMA PlaceTypes ==
    ASSUME IInv, SysTypeOK, SysPlace, UNCHANGED session
    PROVE  SysTypeOK'
<1> USE DEF SysTypeOK
<1>1. StoreTypeOK' /\ AnswerTypeOK'
    BY DEF SysPlace, StoreTypeOK, AnswerTypeOK
<1>2. BookTypeOK' /\ PipeTypeOK'
  <2>1. CASE HeadOrder.ok
      BY <2>1, PlaceRecordedTypes DEF SysPlace
  <2>2. CASE ~HeadOrder.ok
      BY <2>2 DEF SysPlace, PlaceRefused, bookVars, BookTypeOK, PipeTypeOK
  <2> QED
      BY <2>1, <2>2
<1> QED
    BY <1>1, <1>2

\* Every step of the system keeps the types.
LEMMA SysNextTypes ==
    ASSUME IInv, SysTypeOK, SysNext
    PROVE  SysTypeOK'
    BY HelperTypes, DeliverTypes, SendingTypes, PlaceTypes DEF SysNext, SysDrain

-----------------------------------------------------------------------------
(* The engine inside.                                                      *)

\* Steps of the system that are a step of the engine, or none at all.
EngineStep == Next \/ UNCHANGED engineVars

\* Answers that reach the engine, and deadlines that pass, are answers of
\* TradingEngine; the ones that come too late leave the engine alone.
LEMMA AnswersAreEngineSteps ==
    ASSUME IInv, Deliver \/ TimeOut
    PROVE  EngineStep
<1>1. reports \subseteq SeqNo
    BY DEF IInv, TypeOK
<1>2. ASSUME NEW r \in replies, DeliverOrder(r)
      PROVE  EngineStep
    BY <1>1, <1>2 DEF DeliverOrder, ReportReply, EngineStep, Next, Answer
<1>3. ASSUME NEW r \in replies, DeliverLevels(r)
      PROVE  EngineStep
    BY <1>3 DEF DeliverLevels, EngineStep, Next, Answer
<1>4. ASSUME NEW r \in replies, NEW key \in Key, DeliverPosition(r, key)
      PROVE  EngineStep
    BY <1>4 DEF DeliverPosition, EngineStep, Next, Answer
<1>5. CASE TimeOut
    BY <1>5 DEF TimeOut, TimeOutOrder, TimeOutPosition, TimeOutLevels,
       EngineStep, Next, Answer
<1> QED
    BY <1>2, <1>3, <1>4, <1>5 DEF Deliver

\* A placement on the book is a placement of the engine: the makers that it
\* exhausts and that have a handle are among the handles.
LEMMA SysPlaceIsPlace ==
    ASSUME SysPlace
    PROVE  EngineStep
<1>1. CASE HeadOrder.ok
  <2> DEFINE o == HeadOrder.order
  <2>1. Place(Rests(book, o), Exhausted(o))
      BY <1>1 DEF SysPlace, PlaceRecorded
  <2>2. Rests(book, o) \in BOOLEAN /\ Exhausted(o) \in SUBSET handles
      BY DEF Rests, Exhausted
  <2> HIDE DEF o
  <2> QED
      BY <2>1, <2>2 DEF EngineStep, Next, Drain
<1>2. CASE ~HeadOrder.ok
  <2>1. Place(FALSE, {}) /\ {} \in SUBSET handles
      BY <1>2 DEF SysPlace, PlaceRefused
  <2> QED
      BY <2>1 DEF EngineStep, Next, Drain
<1> QED
    BY <1>1, <1>2

\* Every step of the system is a step of the engine or leaves it alone.
LEMMA SysNextIsEngineStep ==
    ASSUME IInv, [SysNext]_sysVars
    PROVE  [Next]_engineVars
<1>1. CASE \E sym \in Symbol, owner \in Account, o \in Order :
              SysSubmit(sym, owner, o)
    BY <1>1 DEF SysSubmit, Next
<1>2. CASE \E s \in SeqNo, requester \in Account : SysCancel(s, requester)
    BY <1>2 DEF SysCancel, Next
<1>3. CASE SysClose
    BY <1>3 DEF SysClose, Next
<1>4. CASE HelperStep
    BY <1>4 DEF HelperStep, HelperWrites, HelperStartsRead, HelperReads
<1>5. CASE Deliver \/ TimeOut
    BY <1>5, AnswersAreEngineSteps DEF EngineStep
<1>6. CASE SysDrain
    BY <1>6, SysPlaceIsPlace DEF SysDrain, SysDrainStops, SysWarmUp, SysDeepPull, SysCallBack,
       EngineStep, Next, Drain
<1>7. CASE UNCHANGED sysVars
    BY <1>7 DEF sysVars
<1> QED
    BY <1>1, <1>2, <1>3, <1>4, <1>5, <1>6, <1>7, SMT DEF SysNext

-----------------------------------------------------------------------------
(* A placement.                                                            *)

\* What a placement fills of a live order is what it fills of its one resident
\* copy, and nothing if it has none.
LEMMA FillOfIs ==
    ASSUME BookTypeOK, NEW o, o.qty \in Nat, NEW t
    PROVE  /\ DistinctIds(book) =>
                \A i \in DOMAIN book : book[i].id = t.id => FillOf(o, t) = FillAt(book, o, i)
           /\ (\A i \in DOMAIN book : book[i].id # t.id) => FillOf(o, t) = 0
<1> DEFINE f == [i \in DOMAIN book |-> FillAt(book, o, i)]
           S == {i \in DOMAIN book : book[i].id = t.id}
<1>1. FillOf(o, t) = SumFunctionOnSet(f, S)
    BY DEF FillOf
<1>2. LeavesAreNat(book)
    BY BookLeaves
<1>3. \A i \in DOMAIN book : FillAt(book, o, i) \in Nat /\ f[i] = FillAt(book, o, i)
    BY <1>2, FillAtBounds DEF BookTypeOK
<1>4. ASSUME DistinctIds(book), NEW i \in DOMAIN book, book[i].id = t.id
      PROVE  FillOf(o, t) = FillAt(book, o, i)
  <2>1. S = {i}
      BY <1>4 DEF DistinctIds
  <2>2. f[i] \in Int
      BY <1>3, SMTT(30)
  <2> HIDE DEF f, S
  <2>3. SumFunctionOnSet(f, S) = f[i]
      BY <2>1, <2>2, SumSingleton
  <2> QED
      BY <1>1, <1>3, <2>3
<1>5. ASSUME \A i \in DOMAIN book : book[i].id # t.id
      PROVE  FillOf(o, t) = 0
  <2>1. S = {}
      BY <1>5
  <2> HIDE DEF f, S
  <2>2. SumFunctionOnSet(f, S) = 0
      BY <2>1, SumRec, FS_EmptySet
  <2> QED
      BY <1>1, <2>2
<1> QED
    BY <1>4, <1>5

\* The placement of the recorded order o with the given id: what is left of it
\* rests as r.
Placing(o, id, r) ==
    /\ o.qty \in Nat /\ o.side \in Side /\ o.price \in Nat
    /\ id \in Nat /\ id = OrderId(next_place_seq)
    /\ r.id = id /\ r.leaves = Remainder(book, o)
    /\ r.rank = session.rank_base + Len(placed) + 1
    /\ Rests(book, o) => r \in Resident(Account)
    /\ book' = IF Rests(book, o) THEN AfterRest(AfterMatch(book, o), r, MemLevels)
               ELSE AfterMatch(book, o)
    /\ has_deep' = [has_deep EXCEPT ![o.side] =
                       @ \/ (Rests(book, o) /\ NotesDeep(AfterMatch(book, o), r, MemLevels))]
    /\ truth' = TruthAfterMatch(o) \cup (IF Rests(book, o) THEN {AliveRecord(r, r.rank)} ELSE {})
    /\ Send((IF Rests(book, o) THEN <<RestMsg(r)>> ELSE << >>) \o FillReports(o, id))

\* The placement of a recorded order, with its order, its id and its record
\* named.
LEMMA PlaceRecordedIs ==
    ASSUME IInv, SysTypeOK, HeadReady, PlaceRecorded
    PROVE  \E o, id, r : Placing(o, id, r)
<1>1. PICK o, id : o = HeadOrder.order /\ id = OrderId(next_place_seq)
    OBVIOUS
<1>2. /\ o.side \in Side /\ o.price \in Nat \ {0} /\ o.qty \in Nat
      /\ HeadOrder.owner \in Account /\ id \in Nat
    BY <1>1, HeadOrderType, OrderIdType, SMTT(30) DEF SeqNo
<1>3. PICK r : r = [id |-> id, owner |-> HeadOrder.owner, side |-> o.side,
                    price |-> o.price, leaves |-> Remainder(book, o),
                    rank |-> session.rank_base + Len(placed) + 1]
    OBVIOUS
<1>4. Rests(book, o) => r \in Resident(Account)
  <2>1. Remainder(book, o) \in Nat /\ (Rests(book, o) => Remainder(book, o) \in Nat \ {0})
    <3>1. BookTypeOK
        BY DEF SysTypeOK
    <3> QED
        BY <1>2, <3>1, FillReportsType, SMTT(30) DEF Rests
  <2>2. session.rank_base + Len(placed) + 1 \in Nat
      BY SMTT(30) DEF SysTypeOK, IInv, TypeOK
  <2> QED
      BY <1>2, <1>3, <2>1, <2>2 DEF Resident
<1>5. /\ book' = IF Rests(book, o) THEN AfterRest(AfterMatch(book, o), r, MemLevels)
                 ELSE AfterMatch(book, o)
      /\ has_deep' = [has_deep EXCEPT ![o.side] =
                         @ \/ (Rests(book, o) /\ NotesDeep(AfterMatch(book, o), r, MemLevels))]
      /\ truth' = TruthAfterMatch(o) \cup (IF Rests(book, o) THEN {AliveRecord(r, r.rank)} ELSE {})
      /\ Send((IF Rests(book, o) THEN <<RestMsg(r)>> ELSE << >>) \o FillReports(o, id))
    BY <1>1, <1>3 DEF PlaceRecorded
<1>6. /\ r.id = id /\ r.leaves = Remainder(book, o)
      /\ r.rank = session.rank_base + Len(placed) + 1
    BY <1>3
<1>7. Placing(o, id, r)
    BY <1>1, <1>2, <1>4, <1>5, <1>6 DEF Placing
<1> QED
    BY <1>7

-----------------------------------------------------------------------------
(* The invariant.                                                          *)

\* The store when the helper has handled the first k requests of its pipe.
After(k) == Applied(store, pipe, k)

Rows(S) == {AliveRecord(r, r.seq) : r \in S}
Ignored == {OrderId(s) : s \in pull_ignore}
Numbered == faults \cap {"refused", "unseeded"} = {}
Clean == store.kind = "database" /\ Numbered

\* A closed helper owes nothing, and its death is on record.
ClosedIsEmpty ==
    closed => "closed" \in faults /\ pipe = << >> /\ reads = {} /\ replies = {}

\* depth_pulls counts the pulls in flight.
PullsAreCounted ==
    /\ depth_pulls = 0 => pulls = {}
    /\ depth_pulls = 1 => \A p, q \in pulls : p = q
    /\ depth_pulls = 2 => \A p, q, u \in pulls : p = q \/ q = u \/ p = u
    /\ MemLevels = 0 => pulls = {}

Asked(m) == m.type = "levels" => \A p \in pulls : p.req = m.req => p = m
AnsweredFor(a) ==
    a.type = "levels" => \A p \in pulls : p.req = a.req =>
        \A i \in DOMAIN a.orders : a.orders[i].side = p.side

\* An awaited request is the one the pull remembers.
RequestsAreOwn ==
    /\ \A p, q \in pulls : p.req = q.req => p = q
    /\ \A k \in DOMAIN pipe : Asked(pipe[k])
    /\ \A m \in reads : Asked(m)
    /\ \A a \in replies : AnsweredFor(a)

\* Every order that rests, in the store or in the pipe, and every order that
\* was recorded or is about to be, is known to the store, and only orders that
\* have arrived are.
IdsAreKnown ==
    /\ \A s \in recorded : OrderId(s) \in Ids(store.info)
    /\ \A a \in replies : a.type = "order" => a.id \in Ids(store.info)
    /\ \A x \in store.info : x.id < OrderId(next_assign_seq)
    /\ \A k \in DOMAIN pipe : pipe[k].type = "order" => pipe[k].id < OrderId(next_assign_seq)
    /\ \A k \in DOMAIN pipe : pipe[k].type = "rest" => pipe[k].id \in Ids(store.info)
    /\ Ids(store.resting) \subseteq Ids(store.info)

\* The orders still to be placed are newer than the live ones.
TruthIsOld == \A t \in truth : t.id < OrderId(next_place_seq)

\* What the pipe still carries leads from the store to the live orders.
PipeLeadsToTruth == ~closed => Rows(After(Len(pipe)).resting) = truth

Awaited(m) == m.type = "levels" /\ \E p \in pulls : p.req = m.req

\* The rows are live orders, but for those cancelled since.
Current(S) == \A r \in S : r.id \in Ignored \/ AliveRecord(r, r.seq) \in truth
CurrentAfter(k) == Current(After(k).resting)

\* Whatever a pull in flight may see, or has seen, is current.
SnapshotsAreCurrent ==
    /\ \A k \in DOMAIN pipe : Awaited(pipe[k]) => \A j \in k..Len(pipe) : CurrentAfter(j)
    /\ \A m \in reads : Awaited(m) => \A j \in 0..Len(pipe) : CurrentAfter(j)
    /\ \A a \in replies : Awaited(a) => Current(Range(a.orders)) /\ DistinctIds(a.orders)

CleanInv ==
    /\ TruthIsOld
    /\ PipeLeadsToTruth
    /\ SnapshotsAreCurrent
    /\ ResidentIsAlive

SysInv ==
    /\ SysTypeOK
    /\ ClosedIsEmpty
    /\ PullsAreCounted
    /\ RequestsAreOwn
    /\ (Numbered => IdsAreKnown)
    /\ (Clean => CleanInv)

\* The helper handles the head of its pipe.
LEMMA HelperShifts ==
    ASSUME SysTypeOK, pipe # << >>, pipe' = Tail(pipe)
    PROVE  /\ Len(pipe) \in Nat \ {0} /\ Len(pipe') = Len(pipe) - 1
           /\ DOMAIN pipe = 1..Len(pipe) /\ DOMAIN pipe' = 1..Len(pipe')
           /\ \A k \in DOMAIN pipe' : k + 1 \in DOMAIN pipe /\ pipe'[k] = pipe[k + 1]
           /\ store' = Handled(store, Head(pipe)) => \A k \in 0..Len(pipe') : After(k)' = After(k + 1)
<1>1. pipe \in Seq(Sent)
    BY DEF SysTypeOK, PipeTypeOK
<1>2. /\ Len(pipe) \in Nat \ {0} /\ Len(pipe') = Len(pipe) - 1
      /\ DOMAIN pipe = 1..Len(pipe) /\ DOMAIN pipe' = 1..Len(pipe')
      /\ \A k \in DOMAIN pipe' : k + 1 \in DOMAIN pipe /\ pipe'[k] = pipe[k + 1]
    BY <1>1, SMT
<1>3. ASSUME store' = Handled(store, Head(pipe)), NEW k \in 0..Len(pipe')
      PROVE  After(k)' = After(k + 1)
  <2>1. Applied(Handled(store, Head(pipe)), Tail(pipe), k) = Applied(store, pipe, k + 1)
      BY <1>1, <1>2, AppliedTail
  <2> QED
      BY <1>3, <2>1 DEF After
<1> QED
    BY <1>2, <1>3

\* The engine sends something to a live helper.
LEMMA SendExtends ==
    ASSUME SysTypeOK, NEW ms \in Seq(Sent), Send(ms), ~closed, UNCHANGED store
    PROVE  /\ Len(pipe) \in Nat /\ Len(ms) \in Nat /\ Len(pipe') = Len(pipe) + Len(ms)
           /\ DOMAIN pipe = 1..Len(pipe) /\ DOMAIN pipe' = 1..Len(pipe')
           /\ \A k \in DOMAIN pipe : pipe'[k] = pipe[k]
           /\ \A k \in DOMAIN pipe' \ DOMAIN pipe :
                 k - Len(pipe) \in 1..Len(ms) /\ pipe'[k] = ms[k - Len(pipe)]
           /\ \A k \in 0..Len(pipe) : After(k)' = After(k)
           /\ \A n : \A k \in 0..Len(ms) : n = Len(pipe) + k =>
                 After(n)' = Applied(After(Len(pipe)), ms, k)
<1>1. pipe \in Seq(Sent) /\ pipe' = pipe \o ms
    BY DEF SysTypeOK, PipeTypeOK, Send
<1>2. /\ Len(pipe) \in Nat /\ Len(ms) \in Nat /\ Len(pipe') = Len(pipe) + Len(ms)
      /\ DOMAIN pipe = 1..Len(pipe) /\ DOMAIN pipe' = 1..Len(pipe')
      /\ \A k \in DOMAIN pipe : pipe'[k] = pipe[k]
    BY <1>1, SMTT(30)
<1>3. \A k \in DOMAIN pipe' \ DOMAIN pipe :
         k - Len(pipe) \in 1..Len(ms) /\ pipe'[k] = ms[k - Len(pipe)]
    BY <1>1, <1>2, SMT
<1>4. PICK q, r, st : q = pipe /\ r = pipe' /\ st = store
    OBVIOUS
<1>5. r = q \o ms /\ q \in Seq(Sent)
    BY <1>1, <1>4
<1>6. /\ \A k \in 0..Len(q) : Applied(st, q \o ms, k) = Applied(st, q, k)
      /\ \A k \in 0..Len(ms) : Applied(st, q \o ms, Len(q) + k) = Applied(Applied(st, q, Len(q)), ms, k)
  <2>1. PICK M : M = Sent
      OBVIOUS
  <2>2. q \in Seq(M) /\ ms \in Seq(M)
      BY <1>5, <2>1
  <2> QED
      BY <2>2, AppliedAppend, SMTT(30)
<1>7. \A k \in 0..Len(q) : Applied(st, r, k) = Applied(st, q, k)
    BY <1>5, <1>6
<1>8. \A k \in 0..Len(ms) : Applied(st, r, Len(q) + k) = Applied(Applied(st, q, Len(q)), ms, k)
    BY <1>5, <1>6
<1>9. \A k : After(k) = Applied(st, q, k) /\ After(k)' = Applied(st, r, k)
    BY <1>4 DEF After
<1>10. \A k \in 0..Len(pipe) : After(k)' = After(k)
    BY <1>4, <1>7, <1>9
<1>11. \A n : \A k \in 0..Len(ms) : n = Len(pipe) + k => After(n)' = Applied(After(Len(pipe)), ms, k)
  <2> SUFFICES ASSUME NEW k \in 0..Len(ms), NEW n, n = Len(q) + k
               PROVE  After(n)' = Applied(After(Len(q)), ms, k)
      BY <1>4
  <2>1. After(n)' = Applied(st, r, n)
      BY <1>9
  <2>2. After(Len(q)) = Applied(st, q, Len(q))
      BY <1>9
  <2> QED
      BY <1>8, <2>1, <2>2
<1> QED
    BY <1>2, <1>3, <1>10, <1>11

\* The store stays well formed while the pipe is handled.
LEMMA AfterType ==
    ASSUME SysTypeOK, NEW k \in 0..Len(pipe)
    PROVE  /\ After(k) \in Stores /\ After(k).kind = store.kind
           /\ Sound(After(k)) /\ After(0) = store
    BY AppliedType, AppliedRec, SMTT(30) DEF After, SysTypeOK, StoreTypeOK, PipeTypeOK, Stores, Sent

-----------------------------------------------------------------------------
(* The helper keeps the invariant.                                         *)

\* What a handler leaves alone.
LEMMA CurrentFrame ==
    ASSUME UNCHANGED <<truth, pull_ignore, session>>
    PROVE  /\ \A S : Current(S)' <=> Current(S)
           /\ Ignored' = Ignored
    BY DEF Current, Ignored, AliveRecord, OrderId

\* A fault that has happened has happened: a run that is clean after a step
\* was clean before it.
LEMMA FaultsStay ==
    ASSUME \A f \in faults : f \in faults', store.kind' = store.kind
    PROVE  (Numbered' => Numbered) /\ (Clean' => Clean)
    BY DEF Numbered, Clean

\* Requests that leave the resting orders alone do so wherever they are in
\* the pipe.
LEMMA RowsUntouched ==
    ASSUME SysTypeOK, NEW ms \in Seq(Sent), LeaveRows(ms), Send(ms), ~closed, UNCHANGED store
    PROVE  \A n \in Len(pipe)..Len(pipe') : After(n)'.resting = After(Len(pipe)).resting
<1> SUFFICES ASSUME NEW n \in Len(pipe)..Len(pipe')
             PROVE  After(n)'.resting = After(Len(pipe)).resting
    OBVIOUS
<1>1. Len(pipe) \in Nat /\ Len(ms) \in Nat /\ Len(pipe') = Len(pipe) + Len(ms)
    BY SendExtends
<1>2. PICK k \in 0..Len(ms) : n = Len(pipe) + k
  <2>1. n - Len(pipe) \in 0..Len(ms) /\ n = Len(pipe) + (n - Len(pipe))
      BY <1>1, SMTT(30)
  <2> QED
      BY <2>1
<1>3. After(n)' = Applied(After(Len(pipe)), ms, k)
    BY <1>2, SendExtends
<1>4. PICK x \in Store(Owner, Account) : x = After(Len(pipe))
    BY <1>1, AfterType, SMTT(30) DEF Stores
<1>5. Applied(x, ms, k).resting = x.resting
    BY <1>4, AppliedKeepsRows, SMT DEF Sent
<1> QED
    BY <1>3, <1>4, <1>5

\* Whatever is live when it is sent, such requests keep the store on its way to
\* the live orders, and current for the pulls ahead of them.
LEMMA SendKeepsRows ==
    ASSUME SysTypeOK, CleanInv, NEW ms \in Seq(Sent), LeaveRows(ms), Send(ms), ~closed,
           UNCHANGED <<store, truth, closed, pull_ignore, session>>
    PROVE  /\ PipeLeadsToTruth'
           /\ \A n \in Len(pipe)..Len(pipe') : CurrentAfter(n)'
           /\ \A n \in 0..Len(pipe) : CurrentAfter(n)' <=> CurrentAfter(n)
<1>1. /\ Len(pipe) \in Nat /\ Len(pipe') \in Nat /\ Len(pipe) <= Len(pipe')
      /\ \A k \in 0..Len(pipe) : After(k)' = After(k)
    BY SendExtends, SMT
<1>2. \A n \in Len(pipe)..Len(pipe') : After(n)'.resting = After(Len(pipe)).resting
    BY RowsUntouched
<1>3. Rows(After(Len(pipe)).resting) = truth
    BY DEF CleanInv, PipeLeadsToTruth
<1>4. PipeLeadsToTruth'
  <2>1. PICK n \in Nat : n = Len(pipe')
      BY <1>1
  <2>2. After(n)'.resting = After(Len(pipe)).resting
      BY <1>1, <1>2, <2>1, SMTT(30)
  <2>3. Rows(After(n)'.resting) = truth
      BY <1>3, <2>2
  <2> QED
      BY <2>1, <2>3 DEF PipeLeadsToTruth, Rows, AliveRecord
<1>5. Current(After(Len(pipe)).resting)
    BY <1>3 DEF Current, Rows
<1>6. \A S : Current(S)' <=> Current(S)
    BY CurrentFrame
<1>7. \A n \in Len(pipe)..Len(pipe') : CurrentAfter(n)'
    BY <1>2, <1>5, <1>6 DEF CurrentAfter
<1>8. \A n \in 0..Len(pipe) : CurrentAfter(n)' <=> CurrentAfter(n)
    BY <1>1, <1>6 DEF CurrentAfter
<1> QED
    BY <1>4, <1>7, <1>8

\* A request written to a closed helper goes nowhere.
LEMMA ClosedTakesNothing ==
    ASSUME ClosedIsEmpty, closed, NEW ms, Send(ms)
    PROVE  pipe' = pipe /\ pipe = << >> /\ reads = {} /\ replies = {} /\ "closed" \in faults
    BY DEF ClosedIsEmpty, Send

-----------------------------------------------------------------------------
(* A window that nothing has left.                                         *)

\* No order is beyond the window of either side.
NoDeep == \A side \in Side : ~has_deep[side]

Records(q) == {AliveRecord(q[i], q[i].rank) : i \in DOMAIN q}

\* Every live order is resident, once, and the queue is in the order of ranks.
WindowIsWhole ==
    /\ truth = Records(book)
    /\ DistinctIds(book)
    /\ RanksAscend(book)
    /\ \A i \in DOMAIN book : /\ book[i].rank <= session.rank_base + Len(placed)
                              /\ book[i].id < OrderId(next_place_seq)

\* No order has rested, so that no pull can bring one back.
NothingRested ==
    /\ book = << >> /\ store.resting = {}
    /\ \A i \in DOMAIN pipe : pipe[i].type # "rest"
    /\ \A a \in replies : a.type = "levels" => a.orders = << >>

\* The warm-up, the only pull of a window that nothing has left, is over when
\* the first order is placed.
WholeInv ==
    NoDeep => /\ WindowIsWhole
              /\ placed = << >> => NothingRested
              /\ placed # << >> => pulls = {} /\ (MemLevels > 0 => warmed = Symbol)

\* What is left of the live orders after a match is what is left of the window.
LEMMA MatchedIsWhole ==
    ASSUME BookTypeOK, truth = Records(book), DistinctIds(book), NEW o, o.qty \in Nat
    PROVE  TruthAfterMatch(o) = Records(AfterMatch(book, o))
<1>1. PICK q, g : /\ q = AfterMatch(book, o)
                  /\ g = [i \in DOMAIN book |->
                            [book[i] EXCEPT !.leaves = book[i].leaves - FillAt(book, o, i)]]
    OBVIOUS
<1>2. /\ \A n \in DOMAIN q : \E i \in DOMAIN book : FillAt(book, o, i) < book[i].leaves /\ q[n] = g[i]
      /\ \A i \in DOMAIN book : FillAt(book, o, i) < book[i].leaves => \E n \in DOMAIN q : q[n] = g[i]
  <2>1. \A i \in DOMAIN book :
           g[i] = [book[i] EXCEPT !.leaves = book[i].leaves - FillAt(book, o, i)]
      BY <1>1
  <2>2. /\ \A n \in DOMAIN q : \E i \in DOMAIN book :
              /\ FillAt(book, o, i) < book[i].leaves
              /\ q[n] = [book[i] EXCEPT !.leaves = book[i].leaves - FillAt(book, o, i)]
        /\ \A i \in DOMAIN book : FillAt(book, o, i) < book[i].leaves =>
              \E n \in DOMAIN q :
                 q[n] = [book[i] EXCEPT !.leaves = book[i].leaves - FillAt(book, o, i)]
      BY <1>1, AfterMatchEntries, SMTT(30) DEF BookTypeOK
  <2>3. ASSUME NEW n \in DOMAIN q
        PROVE  \E i \in DOMAIN book : FillAt(book, o, i) < book[i].leaves /\ q[n] = g[i]
    <3>1. PICK i \in DOMAIN book :
             /\ FillAt(book, o, i) < book[i].leaves
             /\ q[n] = [book[i] EXCEPT !.leaves = book[i].leaves - FillAt(book, o, i)]
        BY <2>2
    <3>2. q[n] = g[i]
        BY <2>1, <3>1
    <3> QED
        BY <3>1, <3>2
  <2>4. ASSUME NEW i \in DOMAIN book, FillAt(book, o, i) < book[i].leaves
        PROVE  \E n \in DOMAIN q : q[n] = g[i]
    <3>1. PICK n \in DOMAIN q :
             q[n] = [book[i] EXCEPT !.leaves = book[i].leaves - FillAt(book, o, i)]
        BY <2>2, <2>4
    <3>2. q[n] = g[i]
        BY <2>1, <3>1
    <3> QED
        BY <3>2
  <2> QED
      BY <2>3, <2>4
<1>3. ASSUME NEW i \in DOMAIN book, NEW t, t = AliveRecord(book[i], book[i].rank)
      PROVE  /\ t.leaves > FillOf(o, t) <=> FillAt(book, o, i) < book[i].leaves
             /\ [t EXCEPT !.leaves = t.leaves - FillOf(o, t)] = AliveRecord(g[i], g[i].rank)
  <2>1. t.id = book[i].id /\ t.leaves = book[i].leaves
      BY <1>3 DEF AliveRecord
  <2>2. FillOf(o, t) = FillAt(book, o, i)
      BY <2>1, FillOfIs
  <2>3. PICK x \in Resident(Account), f \in Nat : x = book[i] /\ f = FillAt(book, o, i)
    <3>1. book[i] \in Resident(Account)
        BY SMT DEF BookTypeOK
    <3>2. FillAt(book, o, i) \in Nat
        BY BookLeaves, FillAtBounds DEF BookTypeOK
    <3> QED
        BY <3>1, <3>2
  <2>4. /\ x.leaves > f <=> f < x.leaves
        /\ [AliveRecord(x, x.rank) EXCEPT !.leaves = x.leaves - f]
             = AliveRecord([x EXCEPT !.leaves = x.leaves - f], [x EXCEPT !.leaves = x.leaves - f].rank)
      BY SMT DEF AliveRecord, Resident
  <2>5. g[i] = [x EXCEPT !.leaves = x.leaves - f]
      BY <1>1, <2>3
  <2> QED
      BY <1>3, <2>1, <2>2, <2>3, <2>4, <2>5
<1>4. TruthAfterMatch(o) = {[t EXCEPT !.leaves = t.leaves - FillOf(o, t)] :
                              t \in {x \in truth : x.leaves > FillOf(o, x)}}
    BY TruthAfterMatchIs
<1>5. ASSUME NEW v \in TruthAfterMatch(o) PROVE v \in Records(q)
  <2>1. PICK t \in truth : t.leaves > FillOf(o, t) /\ v = [t EXCEPT !.leaves = t.leaves - FillOf(o, t)]
      BY <1>4
  <2>2. PICK i \in DOMAIN book : t = AliveRecord(book[i], book[i].rank)
      BY DEF Records
  <2>3. FillAt(book, o, i) < book[i].leaves /\ v = AliveRecord(g[i], g[i].rank)
      BY <1>3, <2>1, <2>2
  <2>4. PICK n \in DOMAIN q : q[n] = g[i]
      BY <1>2, <2>3
  <2> QED
      BY <2>3, <2>4 DEF Records
<1>6. ASSUME NEW v \in Records(q) PROVE v \in TruthAfterMatch(o)
  <2>1. PICK n \in DOMAIN q : v = AliveRecord(q[n], q[n].rank)
      BY DEF Records
  <2>2. PICK i \in DOMAIN book : FillAt(book, o, i) < book[i].leaves /\ q[n] = g[i]
      BY <1>2
  <2>3. PICK t : t = AliveRecord(book[i], book[i].rank)
      OBVIOUS
  <2>4. t \in truth /\ t.leaves > FillOf(o, t) /\ v = [t EXCEPT !.leaves = t.leaves - FillOf(o, t)]
      BY <1>3, <2>1, <2>2, <2>3 DEF Records
  <2> QED
      BY <1>4, <2>4
<1> QED
    BY <1>1, <1>5, <1>6

\* A placement in a whole window: a live order that it fills in full leaves no
\* order ahead of it alive.
LEMMA PlacingIsFair ==
    ASSUME SysTypeOK, WindowIsWhole, NEW o, NEW id, NEW r, Placing(o, id, r),
           NEW t \in truth, NEW u \in truth, t \notin truth', Outranks(u, t),
           NEW v \in truth'
    PROVE  v.id # u.id
<1>1. PICK i \in DOMAIN book, j \in DOMAIN book :
         t = AliveRecord(book[i], book[i].rank) /\ u = AliveRecord(book[j], book[j].rank)
    BY DEF WindowIsWhole, Records
<1>2. /\ t.id = book[i].id /\ t.side = book[i].side /\ t.price = book[i].price
      /\ t.leaves = book[i].leaves /\ t.rank = book[i].rank
      /\ u.id = book[j].id /\ u.side = book[j].side /\ u.price = book[j].price
      /\ u.leaves = book[j].leaves /\ u.rank = book[j].rank
    BY <1>1 DEF AliveRecord
<1>3. /\ book \in Seq(Resident(Account)) /\ BookTypeOK /\ DistinctIds(book)
      /\ o.qty \in Nat /\ o.side \in Side /\ o.price \in Nat
    BY DEF SysTypeOK, BookTypeOK, WindowIsWhole, Placing
<1>4. i \in Nat /\ j \in Nat /\ book[i] \in Resident(Account) /\ book[j] \in Resident(Account)
    BY <1>3, SMT
<1>5. book[j].side = book[i].side /\ Precedes(book, j, i)
  <2>1. book[j].rank < book[i].rank => j < i
    <3>1. /\ i < j => book[i].rank < book[j].rank
          /\ book[i].rank \in Nat /\ book[j].rank \in Nat
        BY <1>4 DEF WindowIsWhole, RanksAscend, Resident
    <3> QED
        BY <1>4, <3>1, SMT
  <2> QED
      BY <1>2, <2>1 DEF Outranks, Precedes
<1>6. FillAt(book, o, i) > 0
  <2>1. TruthAfterMatch(o) = {[x EXCEPT !.leaves = x.leaves - FillOf(o, x)] :
                                x \in {y \in truth : y.leaves > FillOf(o, y)}}
      BY TruthAfterMatchIs
  <2>2. t \notin TruthAfterMatch(o)
      BY DEF Placing
  <2>3. FillOf(o, t) = FillAt(book, o, i)
      BY <1>2, <1>3, FillOfIs
  <2>4. FillAt(book, o, i) \in Nat
      BY <1>3, BookLeaves, FillAtBounds
  <2>5. book[i].leaves \in Nat \ {0}
      BY <1>4 DEF Resident
  <2>6. FillAt(book, o, i) # 0
    <3> SUFFICES ASSUME FillAt(book, o, i) = 0 PROVE FALSE
        OBVIOUS
    <3>1. t.leaves > FillOf(o, t) /\ t.leaves - FillOf(o, t) = t.leaves
        BY <1>2, <2>3, <2>5, SMT
    <3>2. [t EXCEPT !.leaves = t.leaves - FillOf(o, t)] = t
        BY <1>1, <3>1 DEF AliveRecord
    <3> QED
        BY <2>1, <2>2, <3>1, <3>2
  <2> QED
      BY <2>4, <2>6, SMT
<1>7. FillAt(book, o, j) = book[j].leaves
    BY <1>3, <1>5, <1>6, FillsByPriority
<1>8. CASE v \in TruthAfterMatch(o)
  <2>1. v \in Records(AfterMatch(book, o))
      BY <1>3, <1>8, MatchedIsWhole DEF WindowIsWhole
  <2>2. PICK n \in DOMAIN AfterMatch(book, o) :
           v = AliveRecord(AfterMatch(book, o)[n], AfterMatch(book, o)[n].rank)
      BY <2>1 DEF Records
  <2>3. PICK k \in DOMAIN book :
           /\ FillAt(book, o, k) < book[k].leaves
           /\ AfterMatch(book, o)[n] = [book[k] EXCEPT !.leaves = book[k].leaves - FillAt(book, o, k)]
      BY <1>3, AfterMatchEntries, SMTT(30)
  <2>4. v.id = book[k].id
    <3>1. book[k] \in Resident(Account)
        BY <1>3, SMT
    <3>2. AfterMatch(book, o)[n].id = book[k].id
        BY <2>3, <3>1 DEF Resident
    <3> QED
        BY <2>2, <3>2 DEF AliveRecord
  <2>5. k # j
    <3>1. book[j].leaves \in Nat
        BY <1>4 DEF Resident
    <3> QED
        BY <1>7, <2>3, <3>1, SMT
  <2> QED
      BY <1>2, <1>3, <2>4, <2>5 DEF DistinctIds
<1>9. CASE v = AliveRecord(r, r.rank)
  <2>1. v.id = OrderId(next_place_seq)
      BY <1>9 DEF Placing, AliveRecord
  <2>2. book[j].id < OrderId(next_place_seq) /\ book[j].id \in Nat
      BY <1>4 DEF WindowIsWhole, Resident
  <2> QED
      BY <1>2, <2>1, <2>2, SMT
<1> QED
    BY <1>8, <1>9 DEF Placing

\* A placement that takes nothing out of the window leaves it whole: what rests
\* is the newest order, at the end of the queue.
LEMMA PlacingKeepsWhole ==
    ASSUME IInv, SysTypeOK, WindowIsWhole, NoDeep',
           NEW o, NEW id, NEW r, Placing(o, id, r), UNCHANGED session,
           placed' = Append(placed, next_place_seq), next_place_seq' = next_place_seq + 1
    PROVE  WindowIsWhole'
<1>1. /\ book \in Seq(Resident(Account)) /\ BookTypeOK /\ DistinctIds(book)
      /\ o.qty \in Nat /\ o.side \in Side
    BY DEF SysTypeOK, BookTypeOK, WindowIsWhole, Placing
<1>2. Rests(book, o) => ~NotesDeep(AfterMatch(book, o), r, MemLevels)
    BY <1>1 DEF Placing, NoDeep, BookTypeOK
<1>3. PICK q : q = AfterMatch(book, o)
    OBVIOUS
<1>4. /\ q \in Seq(Resident(Account)) /\ DistinctIds(q) /\ RanksAscend(q)
      /\ TruthAfterMatch(o) = Records(q)
    BY <1>1, <1>3, AfterMatchEntries, BookStaysInOrder, MatchedIsWhole DEF WindowIsWhole
<1>5. \A n \in DOMAIN q : \E i \in DOMAIN book : q[n].id = book[i].id /\ q[n].rank = book[i].rank
  <2> SUFFICES ASSUME NEW n \in DOMAIN q
               PROVE  \E i \in DOMAIN book : q[n].id = book[i].id /\ q[n].rank = book[i].rank
      OBVIOUS
  <2>1. PICK i \in DOMAIN book : q[n] = [book[i] EXCEPT !.leaves = book[i].leaves - FillAt(book, o, i)]
      BY <1>1, <1>3, AfterMatchEntries, SMTT(30)
  <2>2. book[i] \in Resident(Account)
      BY <1>1, SMT
  <2>3. q[n].id = book[i].id /\ q[n].rank = book[i].rank
      BY <2>1, <2>2 DEF Resident
  <2> QED
      BY <2>3
<1>6. PICK top \in Nat, new \in Nat : top = session.rank_base + Len(placed) /\ new = OrderId(next_place_seq)
  <2>1. next_place_seq \in Nat /\ placed \in Seq(SeqNo)
      BY SMT DEF IInv, TypeOK
  <2>2. session.rank_base + Len(placed) \in Nat
      BY <2>1, SMT DEF SysTypeOK
  <2> QED
      BY <2>1, <2>2, OrderIdType
<1>7. session'.rank_base + Len(placed') = top + 1 /\ OrderId(next_place_seq)' = new + 1
  <2>1. Len(placed') = Len(placed) + 1 /\ Len(placed) \in Nat /\ next_place_seq \in Nat
      BY SMT DEF IInv, TypeOK
  <2>2. session.rank_base \in Nat /\ session.id_base \in Nat
      BY DEF SysTypeOK
  <2>3. session.rank_base + (Len(placed) + 1) = top + 1
      BY <1>6, <2>1, <2>2, SMT
  <2>4. session.id_base + (next_place_seq + 1) = new + 1
      BY <1>6, <2>1, <2>2, SMT DEF OrderId
  <2> QED
      BY <2>1, <2>3, <2>4 DEF OrderId
<1>8. \A n \in DOMAIN q : /\ q[n].rank \in Nat /\ q[n].rank <= top
                          /\ q[n].id \in Nat /\ q[n].id < new
  <2>1. \A n \in DOMAIN q : q[n].rank <= top /\ q[n].id < new
      BY <1>5, <1>6 DEF WindowIsWhole
  <2>2. \A n \in DOMAIN q : q[n] \in Resident(Account)
      BY <1>4, SMT
  <2> QED
      BY <2>1, <2>2 DEF Resident
<1>9. ASSUME \A n \in DOMAIN book' : book'[n].rank <= top + 1 /\ book'[n].id < new + 1
      PROVE  \A n \in DOMAIN book' : /\ book'[n].rank <= session'.rank_base + Len(placed')
                                     /\ book'[n].id < OrderId(next_place_seq)'
    BY <1>7, <1>9
<1>10. CASE ~Rests(book, o)
  <2>1. book' = q /\ truth' = Records(q)
      BY <1>3, <1>4, <1>10 DEF Placing
  <2>2. \A n \in DOMAIN q : q[n].rank <= top + 1 /\ q[n].id < new + 1
      BY <1>8, SMT
  <2> QED
      BY <1>4, <1>9, <2>1, <2>2 DEF WindowIsWhole, Records, AliveRecord
<1>11. CASE Rests(book, o)
  <2>1. book' = Append(q, r) /\ truth' = Records(q) \cup {AliveRecord(r, r.rank)}
      BY <1>2, <1>3, <1>4, <1>11 DEF Placing, AfterRest, NotesDeep
  <2>2. r \in Resident(Account) /\ r.rank = top + 1 /\ r.id = new
      BY <1>6, <1>11 DEF Placing
  <2>3. /\ DOMAIN book' = DOMAIN q \cup {Len(q) + 1} /\ Len(q) + 1 \notin DOMAIN q
        /\ \A n \in DOMAIN q : book'[n] = q[n] /\ n < Len(q) + 1 /\ n \in Nat
        /\ book'[Len(q) + 1] = r /\ Len(q) + 1 \in Nat
      BY <1>4, <2>1, SMT
  <2>4. \A n \in DOMAIN book' : book'[n].rank <= top + 1 /\ book'[n].id < new + 1
    <3>1. \A n \in DOMAIN q : q[n].rank <= top + 1 /\ q[n].id < new + 1
        BY <1>8, SMT
    <3>2. r.rank <= top + 1 /\ r.id < new + 1
        BY <2>2, SMT
    <3> QED
        BY <2>3, <3>1, <3>2
  <2>5. Records(q) \cup {AliveRecord(r, r.rank)}
          = {AliveRecord(book'[n], book'[n].rank) : n \in DOMAIN book'}
      BY <2>3 DEF Records
  <2>6. DistinctIds(book')
    <3>1. \A n \in DOMAIN q : q[n].id # r.id
        BY <1>8, <2>2, SMT
    <3> QED
        BY <1>4, <2>3, <3>1 DEF DistinctIds
  <2>7. RanksAscend(book')
    <3>1. \A n \in DOMAIN q : q[n].rank < r.rank
        BY <1>8, <2>2, SMT
    <3>2. \A n \in DOMAIN q : ~(Len(q) + 1 < n)
        BY <2>3, SMT
    <3>3. ~(Len(q) + 1 < Len(q) + 1)
        BY <2>3, SMT
    <3> QED
        BY <1>4, <2>3, <3>1, <3>2, <3>3 DEF RanksAscend
  <2> QED
      BY <1>9, <2>1, <2>4, <2>5, <2>6, <2>7 DEF WindowIsWhole, Records, AliveRecord, DistinctIds, RanksAscend
<1> QED
    BY <1>10, <1>11

-----------------------------------------------------------------------------
(* Every step keeps what a whole window needs.                             *)

\* What most handlers leave alone.
SameWindow == UNCHANGED <<book, has_deep, truth, placed, next_place_seq, session>>

LEMMA SameWindowKeepsWhole ==
    ASSUME WholeInv, SameWindow,
           NoDeep /\ placed = << >> /\ NothingRested => NothingRested',
           NoDeep /\ placed # << >> /\ pulls = {} /\ (MemLevels > 0 => warmed = Symbol) =>
              pulls' = {} /\ (MemLevels > 0 => warmed' = Symbol)
    PROVE  WholeInv'
<1>1. NoDeep' <=> NoDeep
    BY DEF NoDeep, SameWindow
<1>2. WindowIsWhole' <=> WindowIsWhole
    BY DEF SameWindow, WindowIsWhole, Records, AliveRecord, OrderId
<1>3. placed' = placed
    BY DEF SameWindow
<1> QED
    BY <1>1, <1>2, <1>3 DEF WholeInv

\* Requests that rest nothing, sent before anything has rested.
LEMMA NothingRestsBySending ==
    ASSUME PipeTypeOK, NothingRested, NEW S, NEW ms \in Seq(S), Send(ms),
           \A m \in S : m.type # "rest",
           book' = book, store' = store, replies' = replies
    PROVE  NothingRested'
<1>1. \A i \in DOMAIN pipe' : pipe'[i].type # "rest"
  <2>1. CASE closed
      BY <2>1 DEF Send, NothingRested
  <2>2. CASE ~closed
    <3>1. \A i \in DOMAIN pipe' : (\E k \in DOMAIN pipe : pipe'[i] = pipe[k]) \/ pipe'[i] \in S
      <4>1. pipe' = pipe \o ms /\ pipe \in Seq(Sent)
          BY <2>2 DEF Send, PipeTypeOK
      <4>2. \A M, q : q \in Seq(M) => \A i \in DOMAIN (q \o ms) :
               (\E k \in DOMAIN q : (q \o ms)[i] = q[k]) \/ (q \o ms)[i] \in S
          BY SMTT(30)
      <4> QED
          BY <4>1, <4>2
    <3> QED
        BY <3>1 DEF NothingRested
  <2> QED
      BY <2>1, <2>2
<1> QED
    BY <1>1 DEF NothingRested

\* Submissions.
LEMMA SubmitKeepsWhole ==
    ASSUME IInv, SysTypeOK, WholeInv, UNCHANGED session,
           NEW sym \in Symbol, NEW owner \in Account, NEW o \in Order, SysSubmit(sym, owner, o)
    PROVE  WholeInv'
<1>1. SameWindow /\ UNCHANGED <<store, replies, pulls, warmed>>
    BY DEF SysSubmit, Submit, SameWindow, bookVars, windowVars
<1>2. PICK a, b : a = PositionMsg(owner) /\ b = OrderMsg(OrderId(next_assign_seq), owner, o.side)
    OBVIOUS
<1>3. a.type # "rest" /\ b.type # "rest"
    BY <1>2, SMT DEF PositionMsg, OrderMsg
<1>4. PICK S : S = {a, b}
    OBVIOUS
<1>5. \E ms \in Seq(S) : Send(ms)
  <2>1. << >> \in Seq(S) /\ <<a>> \in Seq(S) /\ <<b>> \in Seq(S)
      BY <1>4, SMT
  <2>2. \A x, y \in Seq(S) : x \o y \in Seq(S)
      BY SMT
  <2>3. (IF PullsPosition(sym, owner) THEN <<a>> ELSE << >>) \o <<b>> \in Seq(S)
      BY <2>1, <2>2
  <2> QED
      BY <1>2, <2>3 DEF SysSubmit
<1>6. NothingRested => NothingRested'
  <2>1. \A m \in S : m.type # "rest"
      BY <1>3, <1>4
  <2> QED
      BY <1>1, <1>5, <2>1, NothingRestsBySending DEF SameWindow, SysTypeOK
<1> QED
    BY <1>1, <1>6, SameWindowKeepsWhole

\* A cancel takes the same order out of the window and out of the live ones.
LEMMA CancelKeepsWhole ==
    ASSUME SysTypeOK, WholeInv, UNCHANGED session,
           NEW s \in SeqNo, NEW requester \in Account, SysCancel(s, requester)
    PROVE  WholeInv'
<1> SUFFICES ASSUME NoDeep, WindowIsWhole, UNCHANGED <<placed, pulls, warmed>>
             PROVE  WindowIsWhole' /\ (NothingRested => NothingRested')
  <2>1. UNCHANGED <<has_deep, placed, pulls, warmed>>
      BY DEF SysCancel, Cancel, historyVars
  <2>2. NoDeep' <=> NoDeep
      BY <2>1 DEF NoDeep
  <2> QED
      BY <2>1, <2>2 DEF WholeInv
<1>1. PICK id, q : id = OrderId(s) /\ q = WithoutOrder(book, id)
    OBVIOUS
<1>2. /\ \A n \in DOMAIN q : \E i \in DOMAIN book : q[n] = book[i] /\ book[i].id # id
      /\ \A i \in DOMAIN book : book[i].id # id => \E n \in DOMAIN q : q[n] = book[i]
      /\ DistinctIds(q) /\ RanksAscend(q) /\ q \in Seq(Resident(Account))
    BY <1>1, WithoutOrderEntries, BookStaysInOrder, SMTT(30)
       DEF SysTypeOK, BookTypeOK, WindowIsWhole
<1>3. book' = q /\ truth' = {t \in truth : t.id # id} /\ UNCHANGED <<next_place_seq, store, replies>>
    BY <1>1 DEF SysCancel, Cancel
<1>4. truth' = Records(q)
  <2>1. \A i \in DOMAIN book : AliveRecord(book[i], book[i].rank).id = book[i].id
      BY DEF AliveRecord
  <2>2. \A t \in truth : \E i \in DOMAIN book : t = AliveRecord(book[i], book[i].rank)
      BY DEF WindowIsWhole, Records
  <2>3. ASSUME NEW t \in truth' PROVE t \in Records(q)
    <3>1. t \in truth /\ t.id # id
        BY <1>3
    <3>2. PICK i \in DOMAIN book : t = AliveRecord(book[i], book[i].rank)
        BY <2>2, <3>1
    <3>3. PICK n \in DOMAIN q : q[n] = book[i]
        BY <1>2, <2>1, <3>1, <3>2
    <3> QED
        BY <3>2, <3>3 DEF Records
  <2>4. ASSUME NEW t \in Records(q) PROVE t \in truth'
    <3>1. PICK n \in DOMAIN q : t = AliveRecord(q[n], q[n].rank)
        BY DEF Records
    <3>2. PICK i \in DOMAIN book : q[n] = book[i] /\ book[i].id # id
        BY <1>2
    <3>3. t \in truth /\ t.id # id
        BY <2>1, <3>1, <3>2 DEF Records, WindowIsWhole
    <3> QED
        BY <1>3, <3>3
  <2> QED
      BY <2>3, <2>4
<1>5. WindowIsWhole'
  <2>1. \A n \in DOMAIN q : /\ q[n].rank <= session.rank_base + Len(placed)
                            /\ q[n].id < OrderId(next_place_seq)
      BY <1>2 DEF WindowIsWhole
  <2> QED
      BY <1>2, <1>3, <1>4, <2>1 DEF WindowIsWhole, Records, AliveRecord, OrderId
<1>6. ASSUME NothingRested PROVE NothingRested'
  <2>1. PICK m : m = CancelMsg(id)
      OBVIOUS
  <2>2. PICK S : S = {m}
      OBVIOUS
  <2>3. m.type # "rest" /\ <<m>> \in Seq(S)
      BY <2>1, <2>2, SMT DEF CancelMsg
  <2>4. q = << >>
    <3>1. DOMAIN book = {}
        BY <1>6, SMT DEF NothingRested
    <3>2. DOMAIN q = {}
        BY <1>2, <3>1
    <3> QED
        BY <1>2, <3>2, SMT
  <2>5. book' = book
      BY <1>3, <1>6, <2>4 DEF NothingRested
  <2>6. Send(<<m>>)
      BY <1>1, <2>1 DEF SysCancel
  <2>7. \A x \in S : x.type # "rest"
      BY <2>2, <2>3
  <2> QED
      BY <1>3, <1>6, <2>3, <2>5, <2>6, <2>7, NothingRestsBySending DEF SysTypeOK
<1> QED
    BY <1>5, <1>6

\* The helper has nothing to answer a pull with before anything has rested.
LEMMA NothingToPull ==
    ASSUME store.resting = {}, NEW m \in PositionRequest(Owner) \cup LevelsRequest
    PROVE  AnswerTo(m).type = "levels" => AnswerTo(m).orders = << >>
<1> SUFFICES ASSUME AnswerTo(m).type = "levels" PROVE AnswerTo(m).orders = << >>
    OBVIOUS
<1>1. m.type # "position"
    BY DEF AnswerTo
<1>2. AnswerTo(m).orders = PulledLevels(store, m)
    BY <1>1 DEF AnswerTo
<1>3. m.side \in Side
    BY <1>1, SMT DEF PositionRequest, LevelsRequest
<1>4. /\ PulledLevels(store, m) \in Seq(Row)
      /\ \A i \in DOMAIN PulledLevels(store, m) : PulledLevels(store, m)[i] \in store.resting
  <2>1. store.resting \in SUBSET Row /\ IsFiniteSet(store.resting) /\ UniqueRows(store.resting)
      BY FS_EmptySet DEF UniqueRows
  <2> QED
      BY <1>3, <2>1, PulledLevelsList
<1>5. DOMAIN PulledLevels(store, m) = {}
    BY <1>4
<1> QED
    BY <1>2, <1>4, <1>5, SMT

\* The helper.
LEMMA HelperKeepsWhole ==
    ASSUME SysTypeOK, WholeInv, HelperStep, UNCHANGED session
    PROVE  WholeInv'
<1>1. SameWindow /\ UNCHANGED <<pulls, warmed>>
    BY DEF HelperStep, HelperWrites, HelperStartsRead, HelperReads, SameWindow, engineVars,
       bookVars, windowVars, historyVars
<1>2. ASSUME NothingRested PROVE NothingRested'
  <2>1. book' = book
      BY <1>1 DEF SameWindow
  <2>2. CASE HelperWrites
    <3>1. pipe # << >> /\ pipe' = Tail(pipe) /\ ~IsRead(Head(pipe))
        BY <2>2 DEF HelperWrites
    <3>2. Head(pipe) \in Sent /\ Handled(store, Head(pipe)) = ApplyWrite(store, Head(pipe))
        BY <3>1, HeadType DEF SysTypeOK
    <3>3. Head(pipe).type # "rest" /\ \A i \in DOMAIN pipe' : pipe'[i].type # "rest"
      <4>1. Head(pipe) = pipe[1] /\ 1 \in DOMAIN pipe
          BY <3>1, SMT DEF SysTypeOK, PipeTypeOK
      <4> QED
          BY <1>2, <3>1, <4>1, HelperShifts DEF NothingRested
    <3>4. store'.resting = {}
      <4>1. PICK m \in Sent, st \in Stores : m = Head(pipe) /\ st = store
          BY <3>2 DEF SysTypeOK, StoreTypeOK
      <4>2. Ids(Handled(st, m).resting) \subseteq Ids(st.resting)
          BY <3>3, <4>1, HandledIds, SMTT(30) DEF Sent, Stores
      <4>3. Handled(st, m).resting = {} /\ st.resting = {}
          BY <1>2, <4>1, <4>2 DEF NothingRested, Ids
      <4> QED
          BY <2>2, <3>2, <4>1, <4>3 DEF HelperWrites
    <3>5. ASSUME NEW a \in replies', a.type = "levels" PROVE a.orders = << >>
      <4>1. \A x \in WriteAck(Head(pipe)) : x.type = "order"
          BY SMT DEF WriteAck
      <4>2. a \in replies
          BY <2>2, <3>5, <4>1 DEF HelperWrites
      <4> QED
          BY <1>2, <3>5, <4>2 DEF NothingRested
    <3> QED
        BY <1>2, <2>1, <3>3, <3>4, <3>5 DEF NothingRested
  <2>3. CASE HelperStartsRead
    <3>1. pipe # << >> /\ pipe' = Tail(pipe) /\ IsRead(Head(pipe)) /\ store' = store
        BY <2>3 DEF HelperStartsRead
    <3>2. Head(pipe) \in PositionRequest(Owner) \cup LevelsRequest
        BY <3>1, HeadType DEF SysTypeOK
    <3>3. \A i \in DOMAIN pipe' : pipe'[i].type # "rest"
        BY <1>2, <3>1, HelperShifts DEF NothingRested
    <3>4. \A a \in replies' : a \in replies \/ a = AnswerTo(Head(pipe))
        BY <2>3 DEF HelperStartsRead
    <3>5. \A a \in replies' : a.type = "levels" => a.orders = << >>
        BY <1>2, <3>2, <3>4, NothingToPull DEF NothingRested
    <3> QED
        BY <1>2, <2>1, <3>1, <3>3, <3>5 DEF NothingRested
  <2>4. CASE \E m \in reads : HelperReads(m)
    <3>1. PICK m \in reads : HelperReads(m)
        BY <2>4
    <3>2. m \in PositionRequest(Owner) \cup LevelsRequest
        BY DEF SysTypeOK, PipeTypeOK
    <3>3. \A a \in replies' : a \in replies \/ a = AnswerTo(m)
        BY <3>1 DEF HelperReads
    <3>4. \A a \in replies' : a.type = "levels" => a.orders = << >>
        BY <1>2, <3>2, <3>3, NothingToPull DEF NothingRested
    <3> QED
        BY <1>2, <2>1, <3>1, <3>4 DEF NothingRested, HelperReads
  <2> QED
      BY <2>2, <2>3, <2>4 DEF HelperStep
<1> QED
    BY <1>1, <1>2, SameWindowKeepsWhole

\* Answers that arrive, deadlines that pass and the death of the helper: a pull
\* that comes back to a whole window brings nothing.
LEMMA AnswersKeepWhole ==
    ASSUME SysTypeOK, WholeInv, Deliver \/ TimeOut \/ SysClose, UNCHANGED session
    PROVE  WholeInv'
<1>1. ASSUME SameWindow, UNCHANGED <<store, pipe, warmed>>, pulls' \subseteq pulls, replies' \subseteq replies
      PROVE  WholeInv'
  <2>1. NothingRested => NothingRested'
      BY <1>1 DEF NothingRested, SameWindow
  <2> QED
      BY <1>1, <2>1, SameWindowKeepsWhole
<1>2. ASSUME NEW r \in replies, DeliverOrder(r) PROVE WholeInv'
  <2>1. SameWindow /\ UNCHANGED <<store, pipe, warmed, pulls>> /\ replies' = replies \ {r}
      BY <1>2 DEF DeliverOrder, ReportReply, SameWindow, engineVars, bookVars, windowVars, historyVars
  <2> QED
      BY <1>1, <2>1
<1>3. ASSUME NEW r \in replies, NEW key \in Key, DeliverPosition(r, key) PROVE WholeInv'
  <2>1. SameWindow /\ UNCHANGED <<store, pipe, warmed, pulls>> /\ replies' = replies \ {r}
      BY <1>3 DEF DeliverPosition, PositionReply, SameWindow, engineVars, bookVars, windowVars, historyVars
  <2> QED
      BY <1>1, <2>1
<1>4. ASSUME NEW r \in replies, DeliverLevels(r) PROVE WholeInv'
  <2>1. /\ UNCHANGED <<has_deep, truth, placed, next_place_seq, session, store, pipe, warmed>>
        /\ pulls' \subseteq pulls /\ replies' \subseteq replies
      BY <1>4 DEF DeliverLevels, PullReply, engineVars, windowVars, historyVars
  <2>2. CASE book' = book
      BY <1>1, <2>1, <2>2 DEF SameWindow
  <2>3. CASE ~NoDeep
      BY <2>1, <2>3 DEF NoDeep, WholeInv
  <2>4. CASE NoDeep /\ book' # book
    <3>1. PICK p \in pulls : book' = book \o Materialized(r.orders, p.side)
        BY <1>4, <2>4 DEF DeliverLevels
    <3>2. NothingRested
        BY <2>4, <3>1 DEF WholeInv
    <3>3. r.orders = << >> /\ book = << >>
        BY <1>4, <3>2 DEF DeliverLevels, NothingRested
    <3>4. Materialized(r.orders, p.side) = << >>
      <4>1. << >> \in Seq(Row) /\ DOMAIN << >> = {}
          BY SMT
      <4>2. p.side \in Side
          BY SMT DEF SysTypeOK, AnswerTypeOK, LevelsRequest
      <4>3. /\ Materialized(<< >>, p.side) \in Seq(Resident(Account))
            /\ \A n \in DOMAIN Materialized(<< >>, p.side) : FALSE
          BY <4>1, <4>2, MaterializedEntries
      <4> QED
          BY <3>3, <4>3, SMT
    <3>5. book' = book
      <4>1. << >> \o << >> = << >>
          BY SMT
      <4> QED
          BY <3>1, <3>3, <3>4, <4>1
    <3> QED
        BY <2>4, <3>5
  <2> QED
      BY <2>2, <2>3, <2>4
<1>5. CASE TimeOut
  <2>1. SameWindow /\ UNCHANGED <<store, pipe, warmed, replies>> /\ pulls' \subseteq pulls
      BY <1>5 DEF TimeOut, TimeOutOrder, TimeOutPosition, TimeOutLevels, ReportReply, PositionReply,
         PullReply, SameWindow, bookVars, helperVars, windowVars, historyVars
  <2> QED
      BY <1>1, <2>1
<1>6. CASE SysClose
  <2>1. SameWindow /\ UNCHANGED <<store, warmed>> /\ pulls' = {} /\ replies' = {} /\ pipe' = << >>
      BY <1>6 DEF SysClose, Close, SameWindow, bookVars, historyVars
  <2>2. DOMAIN pipe' = {}
      BY <2>1, SMT
  <2>3. NothingRested => NothingRested'
      BY <2>1, <2>2 DEF NothingRested, SameWindow
  <2> QED
      BY <2>1, <2>3, SameWindowKeepsWhole
<1> QED
    BY <1>2, <1>3, <1>4, <1>5, <1>6 DEF Deliver

\* The drain loop stops, calls back or pulls: only the first order of all starts a pull of
\* a window that nothing has left.
LEMMA DrainKeepsWhole ==
    ASSUME IInv, SysTypeOK, WholeInv, UNCHANGED session,
           SysDrainStops \/ SysWarmUp \/ SysDeepPull \/ SysCallBack
    PROVE  WholeInv'
<1>1. SameWindow /\ UNCHANGED <<store, replies>>
    BY DEF SysDrainStops, SysWarmUp, SysDeepPull, SysCallBack, DrainStops, WarmUp, DeepPull, CallBack,
       SameWindow, bookVars, helperVars, historyVars
<1>2. CASE SysDrainStops \/ SysCallBack
  <2>1. UNCHANGED <<pipe, pulls, warmed>>
      BY <1>2 DEF SysDrainStops, SysCallBack, DrainStops, CallBack, helperVars, windowVars
  <2>2. NothingRested => NothingRested'
      BY <1>1, <2>1 DEF NothingRested, SameWindow
  <2> QED
      BY <1>1, <2>1, <2>2, SameWindowKeepsWhole
<1>3. CASE SysWarmUp
  <2>1. MemLevels > 0 /\ HeadOrder.symbol \notin warmed
      BY <1>3 DEF SysWarmUp, WarmUp, MayPull
  <2>2. HeadOrder.symbol \in Symbol
      BY <1>3, SMT DEF SysWarmUp, WarmUp, MayPull, HeadReady, HeadOrder, IInv, TypeOK, Pending
  <2>3. PICK a, b : a = LevelsMsg(FreshReq(1), "buy", 0) /\ b = LevelsMsg(FreshReq(2), "sell", 0)
      OBVIOUS
  <2>4. a.type # "rest" /\ b.type # "rest"
      BY <2>3, SMT DEF LevelsMsg
  <2>5. PICK S : S = {a, b}
      OBVIOUS
  <2>6. <<a, b>> \in Seq(S)
      BY <2>5, SMT
  <2>7. Send(<<a, b>>)
      BY <1>3, <2>3 DEF SysWarmUp
  <2>8. NothingRested => NothingRested'
    <3>1. \A m \in S : m.type # "rest"
        BY <2>4, <2>5
    <3> QED
        BY <1>1, <2>6, <2>7, <3>1, NothingRestsBySending DEF SameWindow, SysTypeOK
  <2> QED
      BY <1>1, <2>1, <2>2, <2>8, SameWindowKeepsWhole
<1>4. CASE SysDeepPull
  <2>1. ~NoDeep
    <3>1. HeadOrder.order.side \in Side
        BY <1>4, HeadOrderType DEF SysDeepPull, DeepPull, MayPull
    <3>2. Opposite(HeadOrder.order.side) \in Side
        BY DEF Opposite, Side
    <3> QED
        BY <1>4, <3>2 DEF SysDeepPull, NeedsDeep, NoDeep
  <2> QED
      BY <1>1, <2>1, SameWindowKeepsWhole
<1> QED
    BY <1>2, <1>3, <1>4

\* A placement.
LEMMA PlaceKeepsWhole ==
    ASSUME IInv, SysTypeOK, PullsAreCounted, WholeInv, SysPlace, UNCHANGED session
    PROVE  WholeInv'
<1>1. UNCHANGED <<store, replies, pulls, warmed>> /\ next_place_seq' = next_place_seq + 1 /\ HeadReady
    BY DEF SysPlace, PlaceRecorded, PlaceRefused, Place, windowVars
<1>2. CASE HeadOrder.ok
  <2>1. PICK o, id, r : Placing(o, id, r)
      BY <1>2, PlaceRecordedIs DEF SysPlace
  <2>2. placed' = Append(placed, next_place_seq)
      BY <1>2 DEF SysPlace, PlaceRecorded, Place
  <2>3. placed' # << >>
      BY <2>2, SMT DEF IInv, TypeOK
  <2>4. pulls = {} /\ (MemLevels > 0 => warmed = Symbol)
    <3>1. MemLevels = 0 \/ (depth_pulls = 0 /\ HeadOrder.symbol \in warmed)
        BY <1>2 DEF SysPlace, PlaceRecorded, Place
    <3>2. warmed \subseteq Symbol
        BY DEF IInv, TypeOK
    <3>3. pulls = {}
        BY <3>1 DEF PullsAreCounted
    <3>4. MemLevels > 0 => MemLevels # 0
        BY SMT
    <3> QED
        BY <3>1, <3>2, <3>3, <3>4, SystemConstants
  <2>5. NoDeep' => NoDeep
      BY <2>1 DEF Placing, NoDeep, SysTypeOK, BookTypeOK
  <2>6. NoDeep' => WindowIsWhole'
      BY <1>1, <2>1, <2>2, <2>5, PlacingKeepsWhole DEF WholeInv
  <2> QED
      BY <1>1, <2>3, <2>4, <2>6 DEF WholeInv
<1>3. CASE ~HeadOrder.ok
  <2>1. UNCHANGED <<book, has_deep, truth, pipe, placed>>
      BY <1>3 DEF SysPlace, PlaceRefused, Place, bookVars
  <2>2. NoDeep' <=> NoDeep
      BY <2>1 DEF NoDeep
  <2>3. NothingRested => NothingRested'
      BY <1>1, <2>1 DEF NothingRested
  <2>4. WindowIsWhole => WindowIsWhole'
    <3>1. \A x \in Nat : x < OrderId(next_place_seq) => x < OrderId(next_place_seq + 1)
        BY OrderIdType, SMT DEF OrderId, SysTypeOK, IInv, TypeOK
    <3>2. \A i \in DOMAIN book : book[i].id \in Nat
      <4>1. \A i \in DOMAIN book : book[i] \in Resident(Account)
          BY SMT DEF SysTypeOK, BookTypeOK
      <4> QED
          BY <4>1 DEF Resident
    <3> QED
        BY <1>1, <2>1, <3>1, <3>2 DEF WindowIsWhole, Records, AliveRecord, OrderId
  <2> QED
      BY <1>1, <2>1, <2>2, <2>3, <2>4 DEF WholeInv
<1> QED
    BY <1>2, <1>3

\* Every step keeps what a whole window needs, and a placement in it honours the
\* priority of the live orders.
LEMMA NextKeepsWhole ==
    ASSUME IInv, SysTypeOK, PullsAreCounted, WholeInv, SysNext
    PROVE  WholeInv'
    BY SubmitKeepsWhole, CancelKeepsWhole, HelperKeepsWhole, AnswersKeepWhole, DrainKeepsWhole,
       PlaceKeepsWhole DEF SysNext, SysDrain

LEMMA PlaceIsFair ==
    ASSUME IInv, SysTypeOK, WholeInv, SysPlace, NoDeep,
           NEW t \in truth, NEW u \in truth, t \notin truth', Outranks(u, t)
    PROVE  \A v \in truth' : v.id # u.id
<1>1. CASE HeadOrder.ok
  <2>1. \E o, id, r : Placing(o, id, r)
      BY <1>1, PlaceRecordedIs DEF SysPlace
  <2> QED
      BY <2>1, PlacingIsFair DEF WholeInv
<1>2. CASE ~HeadOrder.ok
    BY <1>2 DEF SysPlace, PlaceRefused, bookVars
<1> QED
    BY <1>1, <1>2

=============================================================================
