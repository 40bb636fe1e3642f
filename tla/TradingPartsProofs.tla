------------------------- MODULE TradingPartsProofs -------------------------
(***************************************************************************)
(* The parts that TradingSystem puts together.  TradingEngine, for every   *)
(* set of symbols, accounts and orders, every bound on the orders, every   *)
(* window size, and whether or not the storage helper may die: its         *)
(* inductive invariant, its properties and its refinement of ArrivalOrder. *)
(* Then what the operators of PriceTimeBook and StorageHelper compute, for *)
(* every input: the fills of a match, and what a helper's store holds      *)
(* after the requests in its pipe.                                         *)
(***************************************************************************)
EXTENDS TradingEngine, PriceTimeBook, StorageHelper, CollectionsProofs, TLAPS

\* Zenon proves what no pragma names.
USE ZenonT(60)

-----------------------------------------------------------------------------
(* The inductive invariant, in named parts.                                *)

\* The pending orders are exactly those that arrived and were not placed.
Counters ==
    /\ next_place_seq <= next_assign_seq
    /\ DOMAIN pending = next_place_seq .. next_assign_seq - 1
    /\ Len(submitted) = next_assign_seq - 1

\* A pending order remembers its submission, and its flags are truthful: ok
\* means recorded, pos_ready means that there is no position left to pull.
PendingTruthful ==
    \A s \in DOMAIN pending :
        /\ pending[s].symbol = submitted[s].symbol
        /\ pending[s].owner = submitted[s].owner
        /\ pending[s].ok => s \in recorded
        /\ pending[s].pos_ready =>
              pending[s].owner = Anonymous \/ KeyOf(pending[s]) \in position_loaded

\* A report in flight belongs to a pending order that is not acknowledged; a
\* closed helper owes no answer; a position is not both pulled and being
\* pulled.
Requests ==
    /\ reports \subseteq DOMAIN pending
    /\ \A s \in reports : ~pending[s].acked
    /\ closed => reports = {} /\ position_loading = {} /\ depth_pulls = 0
    /\ position_loaded \cap position_loading = {}

\* Placed and cancellable orders lie before the next order to place.
Behind ==
    /\ \A i \in 1 .. Len(placed) : placed[i] < next_place_seq
    /\ \A s \in handles \cup pull_ignore : s < next_place_seq

\* A callback made, or still to be made, is for an order that has left
\* pending_, and tells whether it was placed.
Decided(c) == c.seq < next_place_seq /\ (c.storage_ok <=> IsPlaced(c.seq))

\* The orders that have left pending_ are those called back and those a frame of
\* drain() has yet to call back, each of them once, the inner frame's order
\* being the later one.
Callbacks ==
    /\ Len(completed) + Len(calls) = next_place_seq - 1
    /\ \A i \in DOMAIN completed : Decided(completed[i])
    /\ \A i \in DOMAIN calls : Decided(calls[i])
    /\ \A i, j \in DOMAIN completed : completed[i].seq = completed[j].seq => i = j
    /\ \A i \in DOMAIN calls, j \in DOMAIN completed : calls[i].seq # completed[j].seq
    /\ \A i, j \in DOMAIN calls : i < j => calls[j].seq < calls[i].seq
    /\ \A n \in 1 .. next_place_seq - 1 :
          \/ \E i \in DOMAIN calls : calls[i].seq = n
          \/ \E i \in DOMAIN completed : completed[i].seq = n

\* A frame has a callback to make from the placement on, and drain() runs inside
\* another frame only after the helper has closed.
Frames ==
    /\ calls # << >> => ctl \in {"reporting", "calling"} \/ (closed /\ ctl # "idle")
    /\ ctl \in {"reporting", "calling"} => calls # << >>
    /\ Len(calls) <= 1 \/ (Len(calls) = 2 /\ ctl = "calling" /\ closed)

\* As long as the helper lives, the callbacks follow the placements.
InTurn ==
    ~closed => /\ \A i \in DOMAIN completed : completed[i].seq = i
               /\ calls # << >> => calls[1].seq = next_place_seq - 1

IInv ==
    /\ TypeOK
    /\ Counters
    /\ PendingTruthful
    /\ Requests
    /\ Behind
    /\ EveryWaitIsAwaited
    /\ ReportBeforePlace
    /\ PlacedInArrivalOrder
    /\ Callbacks
    /\ Frames
    /\ InTurn
    /\ PlacedAfterPosition
    /\ NoLostWakeup
    /\ PullIgnoreIsScoped
-----------------------------------------------------------------------------
\* The initial state of the engine satisfies the inductive invariant.
LEMMA InitEstablishes == Init => IInv
<1> SUFFICES ASSUME Init PROVE IInv
    OBVIOUS
<1>1. TypeOK
  <2>1. DOMAIN pending = {} /\ pending \in [DOMAIN pending -> Pending]
      BY SMT DEF Init
  <2>2. /\ submitted \in Seq(Submission)
        /\ placed \in Seq(SeqNo)
        /\ calls \in Seq(Completion) /\ completed \in Seq(Completion)
      BY SMT DEF Init
  <2>3. /\ next_assign_seq \in 1 .. MaxOrders + 1
        /\ next_place_seq \in 1 .. MaxOrders + 1
        /\ depth_pulls \in 0 .. 2
      BY EngineConstants, SMT DEF Init
  <2> QED
      BY <2>1, <2>2, <2>3 DEF Init, TypeOK, Control
<1>2. Counters
    BY SMT DEF Init, Counters
<1>3. Callbacks /\ Frames /\ InTurn
  <2>1. /\ Len(completed) = 0 /\ Len(calls) = 0 /\ next_place_seq - 1 = 0
        /\ DOMAIN completed = {} /\ DOMAIN calls = {} /\ 1 .. 0 = {}
      BY SMT DEF Init
  <2>2. Len(completed) + Len(calls) = next_place_seq - 1 /\ Len(calls) <= 1
      BY <2>1, SMT
  <2> QED
      BY <2>1, <2>2 DEF Init, Callbacks, Frames, InTurn
<1> QED
    BY <1>1, <1>2, <1>3, SMT DEF IInv, Init, PendingTruthful, Requests, Behind,
       EveryWaitIsAwaited, ReportBeforePlace, PlacedInArrivalOrder,
       PlacedAfterPosition, NoLostWakeup, HeadReady, PullIgnoreIsScoped

\* A handler, or a step of drain(), that places nothing and calls nobody back.
NobodyCalled ==
    /\ UNCHANGED <<next_place_seq, placed, completed, calls>>
    /\ closed => closed'
    /\ ctl = "idle" => ctl' \in {"idle", "drain"}
    /\ ctl # "idle" => ctl = "drain" /\ ctl' \in {"drain", "runaway"} \union
                          (IF calls = << >> THEN {"idle"} ELSE {"calling"})

\* Such a step leaves the callbacks as they were.
LEMMA NobodyCalledKeeps ==
    ASSUME IInv, NobodyCalled
    PROVE  Callbacks' /\ Frames' /\ InTurn'
<1>1. Callbacks'
    BY DEF IInv, NobodyCalled, Callbacks, Decided, IsPlaced
<1>2. InTurn'
    BY DEF IInv, NobodyCalled, InTurn
<1>3. Frames'
  <2>1. CASE ctl = "idle"
      BY <2>1, SMT DEF IInv, NobodyCalled, Frames
  <2>2. CASE ctl # "idle"
      BY <2>2, SMT DEF IInv, NobodyCalled, Frames
  <2> QED
      BY <2>1, <2>2
<1> QED
    BY <1>1, <1>2, <1>3

\* submit() keeps the invariant: the new order goes behind all others.
LEMMA SubmitKeeps ==
    ASSUME IInv, NEW sym \in Symbol, NEW owner \in Account, NEW o \in Order,
           Submit(sym, owner, o)
    PROVE  IInv'
<1> DEFINE n == next_assign_seq
           e == [symbol |-> sym, owner |-> owner, order |-> o]
<1> USE EngineConstants
<1>1. /\ n \in SeqNo
      /\ DOMAIN pending' = DOMAIN pending \cup {n}
      /\ n \notin DOMAIN pending
      /\ pending'[n] = NewPending(sym, owner, o)
      /\ \A s \in DOMAIN pending : pending'[s] = pending[s]
    BY SMT DEF IInv, Submit, Counters, TypeOK
<1>2. /\ submitted' = Append(submitted, e)
      /\ Len(submitted) = n - 1
      /\ submitted \in Seq(Submission)
      /\ e \in Submission
    BY DEF IInv, Submit, Counters, TypeOK, Submission
<1>3. /\ submitted' \in Seq(Submission)
      /\ Len(submitted') = n
      /\ submitted'[n] = e
      /\ \A s \in 1 .. n - 1 : submitted'[s] = submitted[s]
    BY <1>1, <1>2, SMT DEF SeqNo
<1>4. /\ position_loaded \subseteq position_loaded'
      /\ position_loading \subseteq position_loading'
      /\ ~PositionAvailable(sym, owner) =>
            closed \/ <<sym, owner>> \in position_loading'
      /\ position_loaded' \cap position_loading' = {}
      /\ position_loaded' \subseteq Key /\ position_loading' \subseteq Key
      /\ closed => position_loading' = {}
  <2>1. <<sym, owner>> \in Key \/ PositionAvailable(sym, owner)
      BY DEF Key, Account, PositionAvailable
  <2>2. EnsurePosition(sym, owner)
      BY DEF Submit
  <2>3. CASE PullsPosition(sym, owner) /\ closed
      BY <2>1, <2>2, <2>3 DEF IInv, TypeOK, Requests, EnsurePosition, PullsPosition
  <2>4. CASE PullsPosition(sym, owner) /\ ~closed
      BY <2>1, <2>2, <2>4 DEF IInv, TypeOK, Requests, EnsurePosition,
         PullsPosition, PositionAvailable
  <2>5. CASE ~PullsPosition(sym, owner)
      BY <2>2, <2>5 DEF IInv, TypeOK, Requests, EnsurePosition, PullsPosition,
         positionVars
  <2> QED
      BY <2>3, <2>4, <2>5
<1>5. TypeOK'
  <2>1. NewPending(sym, owner, o) \in Pending
      BY DEF NewPending, Pending, PositionAvailable, IInv, TypeOK
  <2>2. pending' \in [DOMAIN pending' -> Pending] /\ DOMAIN pending' \subseteq SeqNo
      BY <1>1, <2>1 DEF IInv, TypeOK, Submit
  <2> QED
      BY <1>1, <1>3, <1>4, <2>2, SMTT(30) DEF IInv, TypeOK, Submit, SeqNo, Control,
         windowVars
<1>6. Counters'
    BY <1>1, <1>3, SMTT(30) DEF IInv, Counters, Submit, TypeOK, SeqNo
<1>7. PendingTruthful'
  <2> SUFFICES ASSUME NEW s \in DOMAIN pending'
               PROVE  /\ pending'[s].symbol = submitted'[s].symbol
                      /\ pending'[s].owner = submitted'[s].owner
                      /\ pending'[s].ok => s \in recorded'
                      /\ pending'[s].pos_ready =>
                            \/ pending'[s].owner = Anonymous
                            \/ KeyOf(pending'[s]) \in position_loaded'
      BY DEF PendingTruthful
  <2>1. CASE s = n
    <3>1. /\ pending'[n].symbol = sym /\ pending'[n].owner = owner
          /\ ~pending'[n].ok
          /\ pending'[n].pos_ready => PositionAvailable(sym, owner)
        BY <1>1, SMT DEF NewPending
    <3> QED
        BY <1>3, <1>4, <2>1, <3>1, SMT DEF PositionAvailable, KeyOf
  <2>2. CASE s # n
    <3>1. s \in DOMAIN pending /\ s \in 1 .. n - 1 /\ recorded' = recorded
        BY <1>1, <2>2, SMT DEF IInv, Counters, TypeOK, Submit
    <3> QED
        BY <1>1, <1>3, <1>4, <3>1 DEF IInv, PendingTruthful, KeyOf
  <2> QED
      BY <2>1, <2>2
<1>8. Requests'
  <2>1. \A s \in reports' : s \in DOMAIN pending' /\ ~pending'[s].acked
    <3>1. ~closed => ~pending'[n].acked
        BY <1>1, SMT DEF NewPending
    <3> QED
        BY <1>1, <3>1 DEF IInv, Requests, Submit
  <2> QED
      BY <1>4, <2>1 DEF IInv, Requests, Submit, windowVars
<1>9. Behind' /\ ReportBeforePlace' /\ PlacedInArrivalOrder' /\ PullIgnoreIsScoped'
    BY DEF IInv, Submit, Behind, ReportBeforePlace, PlacedInArrivalOrder,
       PullIgnoreIsScoped, windowVars
<1>10. EveryWaitIsAwaited'
  <2> SUFFICES ASSUME NEW s \in DOMAIN pending'
               PROVE  /\ ~pending'[s].acked => s \in reports'
                      /\ ~pending'[s].pos_ready =>
                            closed' \/ KeyOf(pending'[s]) \in position_loading'
      BY DEF EveryWaitIsAwaited
  <2>1. CASE s = n
      BY <1>1, <1>4, <2>1 DEF NewPending, KeyOf, Submit
  <2>2. CASE s # n
      BY <1>1, <1>4, <2>2 DEF IInv, EveryWaitIsAwaited, KeyOf, Submit
  <2> QED
      BY <2>1, <2>2
<1>11. Callbacks' /\ Frames' /\ InTurn'
  <2>1. NobodyCalled
      BY DEF Submit, NobodyCalled
  <2> QED
      BY <2>1, NobodyCalledKeeps
<1>12. PlacedAfterPosition'
  <2>1. \A i \in 1 .. Len(placed) : placed[i] \in 1 .. n - 1
    <3>1. \A i \in 1 .. Len(placed) : placed[i] \in SeqNo
        BY SMT DEF IInv, TypeOK
    <3>2. /\ next_place_seq \in Nat /\ n \in Nat
          /\ next_place_seq <= n
        BY SMT DEF IInv, TypeOK, Counters
    <3>3. \A i \in 1 .. Len(placed) : placed[i] < next_place_seq
        BY DEF IInv, Behind
    <3> QED
        BY <3>1, <3>2, <3>3, SMT DEF SeqNo
  <2> QED
      BY <1>3, <1>4, <2>1 DEF IInv, PlacedAfterPosition, Submit, KeyOf
<1>13. NoLostWakeup'
    BY <1>1 DEF IInv, NoLostWakeup, HeadReady, HeadOrder, NewPending, Submit,
       windowVars
<1> QED
    BY <1>5, <1>6, <1>7, <1>8, <1>9, <1>10, <1>11, <1>12, <1>13 DEF IInv

\* The acknowledgement of a report, or its failure, keeps the invariant: ok
\* is set only together with the history variable recorded.
LEMMA ReportReplyKeeps ==
    ASSUME IInv, NEW s \in SeqNo, NEW ok \in BOOLEAN, ReportReply(s, ok)
    PROVE  IInv'
<1>1. /\ s \in DOMAIN pending
      /\ DOMAIN pending' = DOMAIN pending
      /\ pending'[s] = [pending[s] EXCEPT !.acked = TRUE, !.ok = ok]
      /\ \A x \in DOMAIN pending \ {s} : pending'[x] = pending[x]
    BY DEF IInv, Requests, TypeOK, ReportReply
<1>2. TypeOK'
  <2>1. pending'[s] \in Pending
      BY <1>1 DEF IInv, TypeOK, Pending
  <2>2. pending' \in [DOMAIN pending' -> Pending]
      BY <1>1, <2>1 DEF IInv, TypeOK, ReportReply
  <2> QED
      BY <1>1, <2>2 DEF IInv, TypeOK, ReportReply, Control, positionVars, windowVars
<1>3. Counters' /\ Requests' /\ Behind'
    BY <1>1 DEF IInv, Counters, Requests, Behind, ReportReply, positionVars, windowVars
<1>4. PendingTruthful' /\ EveryWaitIsAwaited'
    BY <1>1, SMT DEF IInv, TypeOK, Pending, PendingTruthful, EveryWaitIsAwaited, KeyOf, ReportReply,
       positionVars
<1>5. ReportBeforePlace' /\ PlacedInArrivalOrder' /\ PlacedAfterPosition'
    BY DEF IInv, ReportBeforePlace, PlacedInArrivalOrder, PlacedAfterPosition,
       ReportReply, positionVars
<1>6. NoLostWakeup' /\ PullIgnoreIsScoped'
    BY DEF IInv, NoLostWakeup, PullIgnoreIsScoped, ReportReply, windowVars
<1>7. NobodyCalled
    BY DEF ReportReply, NobodyCalled
<1> QED
    BY <1>2, <1>3, <1>4, <1>5, <1>6, <1>7, NobodyCalledKeeps DEF IInv

\* The answer to pull_position keeps the invariant: the key moves from the
\* loading to the loaded positions, and the orders it gated become ready.
LEMMA PositionReplyKeeps ==
    ASSUME IInv, NEW key \in Key, PositionReply(key)
    PROVE  IInv'
<1>1. /\ DOMAIN pending' = DOMAIN pending
      /\ \A s \in DOMAIN pending : pending'[s] = Ungated(pending[s], {key})
    BY DEF PositionReply
<1>2. TypeOK'
  <2>1. \A s \in DOMAIN pending : pending'[s] \in Pending
      BY <1>1 DEF IInv, TypeOK, Pending, Ungated
  <2>2. pending' \in [DOMAIN pending' -> Pending]
      BY <1>1, <2>1 DEF PositionReply
  <2> QED
      BY <1>1, <2>2 DEF IInv, TypeOK, PositionReply, Control, windowVars,
         storageVars, historyVars
<1>3. Counters' /\ Requests' /\ Behind'
    BY <1>1, SMT DEF IInv, Counters, Requests, Behind, Ungated, PositionReply,
       windowVars, storageVars, historyVars
<1>4. PendingTruthful' /\ EveryWaitIsAwaited'
    BY <1>1, SMT DEF IInv, TypeOK, Pending, PendingTruthful, EveryWaitIsAwaited, KeyOf,
       Ungated, PositionReply, storageVars, historyVars
<1>5. ReportBeforePlace' /\ PlacedInArrivalOrder' /\ PlacedAfterPosition'
    BY DEF IInv, ReportBeforePlace, PlacedInArrivalOrder, PlacedAfterPosition,
       PositionReply, historyVars
<1>6. NoLostWakeup' /\ PullIgnoreIsScoped'
    BY DEF IInv, NoLostWakeup, PullIgnoreIsScoped, PositionReply, windowVars,
       storageVars
<1>7. NobodyCalled
    BY DEF PositionReply, NobodyCalled, storageVars, historyVars
<1> QED
    BY <1>2, <1>3, <1>4, <1>5, <1>6, <1>7, NobodyCalledKeeps DEF IInv

\* handle_close keeps the invariant: every wait is over, and a report that
\* failed leaves its order's ok FALSE.
LEMMA CloseKeeps ==
    ASSUME IInv, Close
    PROVE  IInv'
<1>1. /\ DOMAIN pending' = DOMAIN pending
      /\ \A s \in DOMAIN pending :
            pending'[s] = [Ungated(pending[s], position_loading)
                              EXCEPT !.acked = TRUE]
    BY DEF Close
<1>2. ASSUME NEW s \in DOMAIN pending
      PROVE  /\ pending'[s] \in Pending
             /\ pending'[s].symbol = pending[s].symbol
             /\ pending'[s].owner = pending[s].owner
             /\ pending'[s].acked
             /\ pending'[s].ok => pending[s].ok
             /\ pending[s].pos_ready => pending'[s].pos_ready
             /\ pending'[s].pos_ready =>
                   pending[s].pos_ready \/ KeyOf(pending[s]) \in position_loading
  <2>1. pending[s] \in Pending
      BY DEF IInv, TypeOK
  <2>2. CASE KeyOf(pending[s]) \in position_loading
    <3>1. pending'[s] = [pending[s] EXCEPT !.pos_ready = TRUE, !.acked = TRUE]
        BY <1>1, <2>2 DEF Ungated
    <3> QED
        BY <2>1, <2>2, <3>1 DEF Pending
  <2>3. CASE KeyOf(pending[s]) \notin position_loading
    <3>1. pending'[s] = [pending[s] EXCEPT !.acked = TRUE]
        BY <1>1, <2>3 DEF Ungated
    <3> QED
        BY <2>1, <2>3, <3>1 DEF Pending
  <2> QED
      BY <2>2, <2>3
<1>3. TypeOK'
  <2>1. pending' \in [DOMAIN pending' -> Pending]
      BY <1>1, <1>2 DEF Close
  <2> QED
      BY <1>1, <2>1, SMT DEF IInv, TypeOK, Close, Control, historyVars
<1>4. Counters' /\ Requests' /\ Behind'
    BY <1>1 DEF IInv, Counters, Requests, Behind, Close, historyVars
<1>5. PendingTruthful'
  <2> SUFFICES ASSUME NEW s \in DOMAIN pending
               PROVE  /\ pending'[s].symbol = submitted'[s].symbol
                      /\ pending'[s].owner = submitted'[s].owner
                      /\ pending'[s].ok => s \in recorded'
                      /\ pending'[s].pos_ready =>
                            \/ pending'[s].owner = Anonymous
                            \/ KeyOf(pending'[s]) \in position_loaded'
      BY <1>1 DEF PendingTruthful
  <2>1. KeyOf(pending'[s]) = KeyOf(pending[s])
      BY <1>2 DEF KeyOf
  <2>2. /\ UNCHANGED <<submitted, recorded>>
        /\ position_loaded' = position_loaded \cup position_loading
      BY DEF Close, historyVars
  <2> QED
      BY <1>2, <2>1, <2>2 DEF IInv, PendingTruthful
<1>6. EveryWaitIsAwaited'
    BY <1>1, <1>2 DEF IInv, EveryWaitIsAwaited, Close
<1>7. ReportBeforePlace' /\ PlacedInArrivalOrder' /\ PlacedAfterPosition'
    BY DEF IInv, ReportBeforePlace, PlacedInArrivalOrder, PlacedAfterPosition,
       Close, historyVars
<1>8. NoLostWakeup' /\ PullIgnoreIsScoped'
    BY DEF NoLostWakeup, PullIgnoreIsScoped, Close
<1>9. Callbacks'
    BY DEF IInv, Callbacks, Decided, IsPlaced, Close, historyVars
<1>10. Frames' /\ InTurn'
  <2>1. /\ ctl \in {"idle", "reporting"} /\ ~closed /\ closed' /\ calls' = calls
        /\ ctl' \in {"drain", "calling"} /\ (ctl' = "calling" => ctl = "reporting")
      BY DEF Close
  <2> QED
      BY <2>1, SMT DEF IInv, Frames, InTurn
<1> QED
    BY <1>3, <1>4, <1>5, <1>6, <1>7, <1>8, <1>9, <1>10 DEF IInv

\* Handlers and drain steps that leave the orders, the positions and the
\* reports alone, and change only the window, the handles and the control.
OrdersUntouched ==
    UNCHANGED <<next_assign_seq, next_place_seq, pending, position_loaded,
                position_loading, reports, closed, submitted, recorded,
                placed, completed, calls>>

\* Such a step keeps the parts of the invariant about orders.
LEMMA UntouchedKeeps ==
    ASSUME IInv, OrdersUntouched
    PROVE  /\ Counters' /\ PendingTruthful' /\ EveryWaitIsAwaited' /\ ReportBeforePlace'
           /\ PlacedInArrivalOrder' /\ PlacedAfterPosition'
BY DEF IInv, OrdersUntouched, Counters, PendingTruthful, EveryWaitIsAwaited,
   ReportBeforePlace, PlacedInArrivalOrder, PlacedAfterPosition, KeyOf

\* on_pull keeps the invariant: with the last pull the cancels it had to
\* remember are forgotten.
LEMMA PullReplyKeeps ==
    ASSUME IInv, PullReply
    PROVE  IInv'
<1>1. OrdersUntouched
    BY DEF PullReply, OrdersUntouched, positionVars, storageVars, historyVars
<1>2. TypeOK' /\ Requests' /\ Behind' /\ NoLostWakeup' /\ PullIgnoreIsScoped'
    BY SMT DEF IInv, TypeOK, Requests, Behind, NoLostWakeup, PullIgnoreIsScoped,
       HeadReady, HeadOrder, Control, PullReply, positionVars, storageVars,
       historyVars
<1>3. NobodyCalled
    BY <1>1 DEF PullReply, OrdersUntouched, NobodyCalled
<1> QED
    BY <1>1, <1>2, <1>3, UntouchedKeeps, NobodyCalledKeeps DEF IInv

\* cancel() keeps the invariant: the order loses its handle in the step that
\* marks it for on_pull.
LEMMA CancelKeeps ==
    ASSUME IInv, NEW s \in SeqNo, NEW requester \in Account, Cancel(s, requester)
    PROVE  IInv'
<1>1. OrdersUntouched
    BY DEF Cancel, OrdersUntouched, positionVars, storageVars, historyVars
<1>2. TypeOK' /\ Requests' /\ Behind' /\ NoLostWakeup' /\ PullIgnoreIsScoped'
    BY DEF IInv, TypeOK, Requests, Behind, NoLostWakeup, PullIgnoreIsScoped,
       HeadReady, HeadOrder, Cancel, positionVars, storageVars, historyVars
<1>3. NobodyCalled
    BY <1>1 DEF Cancel, OrdersUntouched, NobodyCalled
<1> QED
    BY <1>1, <1>2, <1>3, UntouchedKeeps, NobodyCalledKeeps DEF IInv

\* The steps of drain() that place nothing keep the invariant: each goes back
\* to the event loop only with a pull in flight or a head that is not ready.
LEMMA DrainPullsKeep ==
    ASSUME IInv, DrainStops \/ WarmUp \/ DeepPull
    PROVE  IInv'
<1>1. OrdersUntouched
    BY DEF DrainStops, WarmUp, DeepPull, OrdersUntouched, positionVars,
       storageVars, historyVars
<1>2. TypeOK'
  <2>1. HeadReady => HeadOrder.symbol \in Symbol
      BY DEF IInv, TypeOK, HeadReady, HeadOrder, Pending
  <2> QED
      BY <2>1, SMT DEF IInv, TypeOK, DrainStops, WarmUp, DeepPull, MayPull, Control,
         positionVars, windowVars, storageVars, historyVars
<1>3. Requests' /\ Behind' /\ PullIgnoreIsScoped'
    BY SMT DEF IInv, TypeOK, Requests, Behind, PullIgnoreIsScoped, DrainStops,
       WarmUp, DeepPull, MayPull, positionVars, windowVars, storageVars,
       historyVars
<1>4. NoLostWakeup'
    BY SMT DEF IInv, TypeOK, NoLostWakeup, HeadReady, HeadOrder, DrainStops, WarmUp,
       DeepPull, MayPull, windowVars
<1>5. NobodyCalled
  <2>1. WarmUp \/ DeepPull => (ctl' = "idle" => calls = << >>)
      BY DEF WarmUp, DeepPull, MayPull, IInv, Frames
  <2> QED
      BY <1>1, <2>1 DEF DrainStops, WarmUp, DeepPull, MayPull, OrdersUntouched, NobodyCalled
<1> QED
    BY <1>1, <1>2, <1>3, <1>4, <1>5, UntouchedKeeps, NobodyCalledKeeps DEF IInv

\* A placement is the next callback to make, for the head that left pending_.
LEMMA PlaceCallbacks ==
    ASSUME IInv, NEW rests \in BOOLEAN, NEW exhausted \in SUBSET handles,
           Place(rests, exhausted)
    PROVE  Callbacks' /\ Frames' /\ InTurn'
<1>1. PICK n, c : n = next_place_seq /\ c = [seq |-> n, storage_ok |-> HeadOrder.ok]
    OBVIOUS
<1>2. /\ n \in SeqNo /\ n \in Nat /\ HeadOrder.ok \in BOOLEAN /\ c \in Completion
      /\ c.seq = n /\ c.storage_ok = HeadOrder.ok
  <2>1. n \in DOMAIN pending /\ HeadOrder \in Pending
      BY <1>1 DEF IInv, TypeOK, Place, HeadReady, HeadOrder
  <2>2. n \in SeqNo /\ HeadOrder.ok \in BOOLEAN
      BY <2>1 DEF IInv, TypeOK, Pending
  <2> QED
      BY <1>1, <2>2, SMT DEF Completion, SeqNo
<1>3. /\ next_place_seq' = n + 1 /\ completed' = completed /\ calls' = <<c>> \o calls
      /\ closed' = closed /\ ctl = "drain" /\ ctl' \in {"reporting", "calling"}
      /\ (closed => ctl' = "calling")
    BY <1>1 DEF Place, storageVars
<1>4. /\ Len(calls) \in Nat /\ Len(calls') = Len(calls) + 1 /\ DOMAIN calls = 1 .. Len(calls)
      /\ DOMAIN calls' = 1 .. Len(calls) + 1 /\ calls'[1] = c
      /\ \A i \in DOMAIN calls : calls'[i + 1] = calls[i] /\ calls[i] \in Completion
      /\ calls \in Seq(Completion)
  <2>1. calls \in Seq(Completion)
      BY DEF IInv, TypeOK
  <2> HIDE DEF Completion
  <2> QED
      BY <1>2, <1>3, <2>1, SMT
<1>5. /\ 1 \in DOMAIN calls'
      /\ \A i \in DOMAIN calls' : i = 1 \/ \E j \in DOMAIN calls : i = j + 1 /\ calls'[i] = calls[j]
  <2>1. \A i \in DOMAIN calls' : i = 1 \/ (i - 1 \in DOMAIN calls /\ i = (i - 1) + 1)
      BY <1>4, SMT
  <2>2. 1 \in DOMAIN calls'
      BY <1>4, SMT
  <2> QED
      BY <1>4, <2>1, <2>2
<1>6. \A i \in DOMAIN completed : completed[i] \in Completion
  <2>1. completed \in Seq(Completion)
      BY DEF IInv, TypeOK
  <2> HIDE DEF Completion
  <2> QED
      BY <2>1, SMT
<1>7. /\ \A k \in DOMAIN placed : placed[k] < n /\ placed[k] \in Nat
      /\ IF HeadOrder.ok
         THEN /\ \A k \in DOMAIN placed' : placed'[k] = n \/ \E j \in DOMAIN placed : placed'[k] = placed[j]
              /\ \A k \in DOMAIN placed : k \in DOMAIN placed' /\ placed'[k] = placed[k]
              /\ \E k \in DOMAIN placed' : placed'[k] = n
         ELSE placed' = placed
  <2>1. placed \in Seq(SeqNo) /\ Len(placed) \in Nat /\ DOMAIN placed = 1 .. Len(placed)
      BY SMT DEF IInv, TypeOK
  <2>2. \A k \in DOMAIN placed : placed[k] \in SeqNo
      BY <2>1, SMT
  <2>3. \A k \in DOMAIN placed : placed[k] < n /\ placed[k] \in Nat
      BY <1>1, <2>1, <2>2, SMT DEF IInv, Behind, SeqNo
  <2>4. CASE HeadOrder.ok
    <3>1. placed' = Append(placed, n)
        BY <1>1, <2>4 DEF Place
    <3>2. /\ DOMAIN placed' = 1 .. Len(placed) + 1 /\ placed'[Len(placed) + 1] = n
          /\ \A k \in DOMAIN placed : placed'[k] = placed[k]
        BY <1>2, <2>1, <3>1, SMT
    <3>3. /\ \A k \in DOMAIN placed' : k = Len(placed) + 1 \/ k \in DOMAIN placed
          /\ \A k \in DOMAIN placed : k \in DOMAIN placed'
          /\ Len(placed) + 1 \in DOMAIN placed'
        BY <2>1, <3>2, SMT
    <3> QED
        BY <2>3, <2>4, <3>2, <3>3
  <2>5. CASE ~HeadOrder.ok
      BY <2>3, <2>5 DEF Place
  <2> QED
      BY <2>4, <2>5
<1>8. /\ IsPlaced(n)' <=> HeadOrder.ok
      /\ \A m \in Nat : m < n => (IsPlaced(m)' <=> IsPlaced(m))
  <2>1. \A k \in Nat : k < n => k # n
      BY <1>2, SMT
  <2>2. CASE HeadOrder.ok
      BY <1>2, <1>7, <2>1, <2>2, SMT DEF IsPlaced
  <2>3. CASE ~HeadOrder.ok
      BY <1>2, <1>7, <2>1, <2>3, SMT DEF IsPlaced
  <2> QED
      BY <2>2, <2>3
<1>9. ASSUME NEW d \in Completion, Decided(d) PROVE Decided(d)' /\ d.seq # n /\ d.seq < n
  <2>1. d.seq \in Nat /\ d.seq < n
      BY <1>1, <1>9, SMT DEF Completion, SeqNo, Decided
  <2>2. d.seq # n /\ d.seq < next_place_seq'
      BY <1>2, <1>3, <2>1, SMT
  <2> QED
      BY <1>8, <1>9, <2>1, <2>2 DEF Decided
<1>10. Decided(c)'
  <2>1. n < next_place_seq'
      BY <1>2, <1>3, SMT
  <2> QED
      BY <1>2, <1>8, <2>1 DEF Decided
<1>11. Callbacks
    BY DEF IInv
<1>12. Callbacks'
  <2>1. Len(completed') + Len(calls') = next_place_seq' - 1
    <3>1. Len(completed) \in Nat
        BY SMT DEF IInv, TypeOK
    <3> QED
        BY <1>1, <1>2, <1>3, <1>4, <1>11, <3>1, SMT DEF Callbacks
  <2>2. \A i \in DOMAIN completed' : Decided(completed[i])' /\ completed'[i].seq # n
      BY <1>3, <1>6, <1>9, <1>11 DEF Callbacks
  <2>3. \A i \in DOMAIN calls : \A d : d = calls[i] => Decided(d)' /\ d.seq # n /\ d.seq < n
      BY <1>4, <1>9, <1>11 DEF Callbacks
  <2>4. \A i \in DOMAIN calls' : Decided(calls[i])'
      BY <1>4, <1>5, <1>10, <2>3
  <2>5. \A i \in DOMAIN calls', j \in DOMAIN completed' : calls'[i].seq # completed'[j].seq
    <3>1. \A i \in DOMAIN calls, j \in DOMAIN completed : calls[i].seq # completed[j].seq
        BY <1>11 DEF Callbacks
    <3> QED
        BY <1>2, <1>3, <1>4, <1>5, <2>2, <3>1, SMT
  <2>6. \A i, j \in DOMAIN calls' : i < j => calls'[j].seq < calls'[i].seq
    <3> SUFFICES ASSUME NEW i \in DOMAIN calls', NEW j \in DOMAIN calls', i < j
                 PROVE  calls'[j].seq < calls'[i].seq
        OBVIOUS
    <3>1. j # 1
        BY <1>4, SMT
    <3>2. PICK l \in DOMAIN calls : j = l + 1 /\ calls'[j] = calls[l]
        BY <1>5, <3>1
    <3>3. CASE i = 1
        BY <1>2, <1>4, <2>3, <3>2, <3>3
    <3>4. CASE i # 1
      <4>1. PICK k \in DOMAIN calls : i = k + 1 /\ calls'[i] = calls[k]
          BY <1>5, <3>4
      <4>2. k < l
          BY <1>4, <3>2, <4>1, SMT
      <4> QED
          BY <1>11, <3>2, <4>1, <4>2 DEF Callbacks
    <3> QED
        BY <3>3, <3>4
  <2>7. ASSUME NEW m \in 1 .. next_place_seq' - 1
        PROVE  \/ \E i \in DOMAIN calls' : calls'[i].seq = m
               \/ \E i \in DOMAIN completed' : completed'[i].seq = m
    <3>1. m = n \/ m \in 1 .. next_place_seq - 1
        BY <1>1, <1>2, <1>3, SMT
    <3>2. CASE m = n
        BY <1>2, <1>4, <1>5, <3>2
    <3>3. CASE \E i \in DOMAIN calls : calls[i].seq = m
      <4>1. PICK i \in DOMAIN calls : calls[i].seq = m
          BY <3>3
      <4>2. i + 1 \in DOMAIN calls'
          BY <1>4, SMT
      <4> QED
          BY <1>4, <4>1, <4>2
    <3> QED
        BY <1>3, <1>11, <3>1, <3>2, <3>3 DEF Callbacks
  <2>8. \A i, j \in DOMAIN completed' : completed'[i].seq = completed'[j].seq => i = j
      BY <1>3, <1>11 DEF Callbacks
  <2> QED
      BY <2>1, <2>2, <2>4, <2>5, <2>6, <2>7, <2>8 DEF Callbacks
<1>13. Frames'
  <2>1. Frames
      BY DEF IInv
  <2>2. (calls # << >> => Len(calls) # 0) /\ (Len(calls) # 0 => calls # << >>) /\ calls' # << >>
      BY <1>4, SMT
  <2>3. Len(calls) <= 1 /\ (Len(calls) # 0 => closed)
      BY <1>3, <2>1, <2>2 DEF Frames
  <2> QED
      BY <1>3, <1>4, <2>2, <2>3, SMT DEF Frames
<1>14. InTurn'
  <2>1. next_place_seq' - 1 = n
      BY <1>2, <1>3, SMT
  <2> QED
      BY <1>2, <1>3, <1>4, <2>1 DEF IInv, InTurn
<1> QED
    BY <1>12, <1>13, <1>14

\* A placement keeps the invariant: the head is the oldest pending order, it
\* is recorded if ok, and its position is loaded.
LEMMA PlaceKeeps ==
    ASSUME IInv, NEW rests \in BOOLEAN, NEW exhausted \in SUBSET handles,
           Place(rests, exhausted)
    PROVE  IInv'
<1> DEFINE n == next_place_seq
           c == [seq |-> n, storage_ok |-> HeadOrder.ok]
<1> USE EngineConstants
<1>1. /\ n \in DOMAIN pending
      /\ n \in SeqNo
      /\ n < next_assign_seq
      /\ DOMAIN pending' = DOMAIN pending \ {n}
      /\ \A s \in DOMAIN pending' : pending'[s] = pending[s]
      /\ next_place_seq' = n + 1
      /\ next_assign_seq' = next_assign_seq
    BY SMT DEF IInv, TypeOK, Counters, SeqNo, Place, HeadReady
<1>2. /\ HeadOrder \in Pending
      /\ HeadOrder.ok \in BOOLEAN
      /\ HeadOrder.ok => n \in recorded
      /\ HeadOrder.symbol = submitted[n].symbol
      /\ HeadOrder.owner = submitted[n].owner
      /\ \/ HeadOrder.owner = Anonymous
         \/ KeyOf(HeadOrder) \in position_loaded
    BY <1>1 DEF IInv, TypeOK, Pending, PendingTruthful, Place, HeadReady, HeadOrder
<1>3. calls' \in Seq(Completion) /\ completed' = completed /\ completed \in Seq(Completion)
  <2>1. c \in Completion /\ calls \in Seq(Completion)
      BY <1>1, <1>2 DEF IInv, TypeOK, Completion
  <2>2. calls' = <<c>> \o calls /\ completed' = completed /\ completed \in Seq(Completion)
      BY DEF IInv, TypeOK, Place
  <2> HIDE DEF c, Completion
  <2> QED
      BY <2>1, <2>2, SMT
<1>4. /\ placed' \in Seq(SeqNo)
      /\ Len(placed') \in {Len(placed), Len(placed) + 1}
      /\ \A i \in 1 .. Len(placed) : placed'[i] = placed[i]
      /\ Len(placed') # Len(placed) =>
            HeadOrder.ok /\ placed'[Len(placed) + 1] = n
  <2>1. placed \in Seq(SeqNo)
      BY DEF IInv, TypeOK
  <2>2. CASE HeadOrder.ok
    <3>1. placed' = Append(placed, n)
        BY <2>2 DEF Place
    <3> QED
        BY <1>1, <2>1, <2>2, <3>1, SMT
  <2>3. CASE ~HeadOrder.ok
    <3>1. placed' = placed
        BY <2>3 DEF Place
    <3> QED
        BY <2>1, <3>1
  <2> QED
      BY <2>2, <2>3
<1>5. handles' \subseteq handles \cup {n}
    BY DEF Place
<1>6. /\ UNCHANGED <<position_loaded, position_loading, warmed, depth_pulls>>
      /\ UNCHANGED <<pull_ignore, reports, closed, submitted, recorded>>
      /\ ctl' \in Control /\ ctl' # "idle"
    BY DEF Place, Control, positionVars, windowVars, storageVars
<1>7. TypeOK'
  <2>1. /\ pending' \in [DOMAIN pending' -> Pending]
        /\ DOMAIN pending' \subseteq SeqNo
      BY <1>1 DEF IInv, TypeOK, Place
  <2>2. next_place_seq' \in 1 .. MaxOrders + 1
      BY <1>1, SMT DEF IInv, TypeOK, SeqNo
  <2> QED
      BY <1>1, <1>3, <1>4, <1>5, <1>6, <2>1, <2>2 DEF IInv, TypeOK
<1>8. Counters'
    BY <1>1, <1>6, SMTT(30) DEF IInv, Counters, TypeOK
<1>9. PendingTruthful' /\ EveryWaitIsAwaited'
    BY <1>1, <1>6 DEF IInv, PendingTruthful, EveryWaitIsAwaited, KeyOf
<1>10. Requests'
  <2>1. n \notin reports
      BY DEF IInv, Requests, Place, HeadReady, HeadOrder
  <2> QED
      BY <1>1, <1>6, <2>1 DEF IInv, Requests
<1>18. /\ n \in Nat
        /\ handles \subseteq Nat /\ pull_ignore \subseteq Nat
        /\ Len(placed) \in Nat
        /\ \A i \in 1 .. Len(placed) : placed[i] \in Nat
    BY <1>1, SMTT(30) DEF IInv, TypeOK, SeqNo
<1>11. Behind'
  <2>1. \A s \in handles' \cup pull_ignore' : s < next_place_seq'
    <3>1. \A s \in handles \cup pull_ignore : s < n
        BY DEF IInv, Behind
    <3>2. \A s \in handles' \cup pull_ignore' :
              s = n \/ s \in handles \cup pull_ignore
        BY <1>5, <1>6
    <3>3. \A s \in handles \cup pull_ignore : s \in Nat
        BY <1>18
    <3>4. \A s \in handles \cup pull_ignore : s < n + 1
        BY <1>18, <3>1, <3>3, SMT
    <3>5. n < n + 1 /\ next_place_seq' = n + 1
        BY <1>1, <1>18, SMT
    <3> HIDE DEF n
    <3> QED
        BY <3>2, <3>4, <3>5
  <2>2. \A i \in 1 .. Len(placed') : placed'[i] < next_place_seq'
    <3>1. \A i \in 1 .. Len(placed) : placed[i] < n
        BY DEF IInv, Behind
    <3> QED
        BY <1>1, <1>4, <1>18, <3>1, SMT
  <2> QED
      BY <2>1, <2>2 DEF Behind
<1>12. ReportBeforePlace'
    BY <1>2, <1>4, <1>6, SMTT(30) DEF IInv, TypeOK, ReportBeforePlace
<1>13. PlacedInArrivalOrder'
    BY <1>4, <1>18, SMT DEF IInv, Behind, PlacedInArrivalOrder
<1>14. Callbacks' /\ Frames' /\ InTurn'
    BY PlaceCallbacks
<1>15. PlacedAfterPosition'
  <2> SUFFICES ASSUME NEW i \in 1 .. Len(placed')
               PROVE  \/ submitted[placed'[i]].owner = Anonymous
                      \/ KeyOf(submitted[placed'[i]]) \in position_loaded
      BY <1>6 DEF PlacedAfterPosition
  <2>1. CASE i \in 1 .. Len(placed)
      BY <1>4, <2>1 DEF IInv, PlacedAfterPosition
  <2>2. CASE i \notin 1 .. Len(placed)
    <3>1. placed'[i] = n
        BY <1>4, <2>2, SMT DEF IInv, TypeOK
    <3> QED
        BY <1>2, <3>1 DEF KeyOf
  <2> QED
      BY <2>1, <2>2
<1>16. NoLostWakeup'
    BY <1>6 DEF IInv, NoLostWakeup
<1>17. PullIgnoreIsScoped'
  <2>1. n \notin pull_ignore
      BY <1>1, SMT DEF IInv, Behind, SeqNo
  <2> QED
      BY <1>5, <1>6, <2>1 DEF IInv, PullIgnoreIsScoped
<1> QED
    BY <1>7, <1>8, <1>9, <1>10, <1>11, <1>12, <1>13, <1>14, <1>15, <1>16, <1>17 DEF IInv

\* A callback keeps the invariant: the innermost frame makes it, for an order
\* that was not called back before.
LEMMA CallBackKeeps ==
    ASSUME IInv, CallBack
    PROVE  IInv'
<1>1. PICK c, d : c = Head(calls) /\ d = Tail(calls)
    OBVIOUS
<1>2. /\ completed' = Append(completed, c) /\ calls' = d /\ ctl' = "drain"
      /\ UNCHANGED <<next_assign_seq, next_place_seq, pending, position_loaded, position_loading>>
      /\ UNCHANGED <<warmed, depth_pulls, pull_ignore, handles, reports, closed>>
      /\ UNCHANGED <<submitted, recorded, placed>>
      /\ ctl \in {"reporting", "calling"}
    BY <1>1 DEF CallBack, positionVars, windowVars, storageVars
<1>3. calls # << >> /\ calls \in Seq(Completion) /\ completed \in Seq(Completion)
    BY <1>2 DEF IInv, Frames, TypeOK
<1>4. /\ Len(calls) \in Nat /\ DOMAIN calls = 1 .. Len(calls) /\ 1 \in DOMAIN calls
      /\ c = calls[1] /\ c \in Completion
      /\ d \in Seq(Completion) /\ Len(d) = Len(calls) - 1 /\ DOMAIN d = 1 .. Len(calls) - 1
      /\ \A i \in DOMAIN d : i + 1 \in DOMAIN calls /\ 1 < i + 1 /\ d[i] = calls[i + 1]
  <2> HIDE DEF Completion
  <2> QED
      BY <1>1, <1>3, SMT
<1>5. /\ completed' \in Seq(Completion) /\ Len(completed) \in Nat
      /\ Len(completed') = Len(completed) + 1 /\ DOMAIN completed = 1 .. Len(completed)
      /\ DOMAIN completed' = 1 .. Len(completed) + 1 /\ completed'[Len(completed) + 1] = c
      /\ \A i \in DOMAIN completed : completed'[i] = completed[i]
  <2> HIDE DEF Completion
  <2> QED
      BY <1>2, <1>3, <1>4, SMT
<1>6. PICK z : z = Len(completed) + 1 /\ z \notin DOMAIN completed /\ z \in DOMAIN completed'
    BY <1>5, SMT
<1>7. /\ \A i \in DOMAIN completed' : i = z \/ (i \in DOMAIN completed /\ completed'[i] = completed[i])
      /\ completed'[z] = c /\ \A i \in DOMAIN completed : i \in DOMAIN completed'
  <2>1. \A i \in DOMAIN completed' : i = Len(completed) + 1 \/ i \in DOMAIN completed
      BY <1>5, SMT
  <2>2. \A i \in DOMAIN completed : i \in DOMAIN completed'
      BY <1>5, SMT
  <2> QED
      BY <1>5, <1>6, <2>1, <2>2
<1>8. \A i \in DOMAIN calls : i = 1 \/ \E j \in DOMAIN d : i = j + 1 /\ d[j] = calls[i]
  <2>1. \A i \in DOMAIN calls : i = 1 \/ (i - 1 \in DOMAIN d /\ i = (i - 1) + 1)
      BY <1>4, SMT
  <2> QED
      BY <1>4, <2>1
<1>9. Callbacks /\ Frames /\ InTurn
    BY DEF IInv
<1>10. Callbacks'
  <2>1. \A e : Decided(e)' <=> Decided(e)
      BY <1>2 DEF Decided, IsPlaced
  <2>2. Len(completed') + Len(calls') = next_place_seq' - 1
      BY <1>2, <1>4, <1>5, <1>9, SMT DEF IInv, TypeOK, Callbacks
  <2>3. \A i \in DOMAIN completed' : Decided(completed[i])'
      BY <1>4, <1>7, <1>9, <2>1 DEF Callbacks
  <2>4. \A i \in DOMAIN calls' : Decided(calls[i])'
      BY <1>2, <1>4, <1>9, <2>1 DEF Callbacks
  <2>5. \A i, j \in DOMAIN completed' : completed'[i].seq = completed'[j].seq => i = j
    <3>1. /\ \A i, j \in DOMAIN completed : completed[i].seq = completed[j].seq => i = j
          /\ \A j \in DOMAIN completed : c.seq # completed[j].seq
        BY <1>4, <1>9 DEF Callbacks
    <3> QED
        BY <1>7, <3>1
  <2>6. \A i \in DOMAIN d : d[i].seq < c.seq /\ d[i].seq # c.seq
    <3> SUFFICES ASSUME NEW i \in DOMAIN d PROVE d[i].seq < c.seq /\ d[i].seq # c.seq
        OBVIOUS
    <3>1. d[i].seq < c.seq
        BY <1>4, <1>9 DEF Callbacks
    <3>2. d[i].seq \in Nat /\ c.seq \in Nat
      <4>1. d[i] \in Completion
        <5> HIDE DEF Completion
        <5> QED
            BY <1>4, SMT
      <4> QED
          BY <1>4, <4>1, SMT DEF Completion, SeqNo
    <3> QED
        BY <3>1, <3>2, SMT
  <2>7. \A i \in DOMAIN calls', j \in DOMAIN completed' : calls'[i].seq # completed'[j].seq
    <3>1. \A i \in DOMAIN d, j \in DOMAIN completed : d[i].seq # completed[j].seq
      <4>1. \A i \in DOMAIN calls, j \in DOMAIN completed : calls[i].seq # completed[j].seq
          BY <1>9 DEF Callbacks
      <4>2. \A i \in DOMAIN d : i + 1 \in DOMAIN calls /\ d[i] = calls[i + 1]
          BY <1>4
      <4> QED
          BY <4>1, <4>2
    <3> QED
        BY <1>2, <1>7, <2>6, <3>1
  <2>8. ASSUME NEW i \in DOMAIN d, NEW j \in DOMAIN d, i < j PROVE d[j].seq < d[i].seq
    <3>1. i + 1 < j + 1
        BY <1>4, <2>8, SMT
    <3> QED
        BY <1>4, <1>9, <3>1 DEF Callbacks
  <2>9. \A m \in 1 .. next_place_seq' - 1 :
          \/ \E i \in DOMAIN calls' : calls'[i].seq = m
          \/ \E i \in DOMAIN completed' : completed'[i].seq = m
    <3> SUFFICES ASSUME NEW m \in 1 .. next_place_seq - 1
                 PROVE  \/ \E i \in DOMAIN d : d[i].seq = m
                        \/ \E i \in DOMAIN completed' : completed'[i].seq = m
        BY <1>2
    <3>1. CASE \E i \in DOMAIN calls : calls[i].seq = m
        BY <1>4, <1>6, <1>7, <1>8, <3>1
    <3>2. CASE \E i \in DOMAIN completed : completed[i].seq = m
        BY <1>5, <1>7, <3>2
    <3> QED
        BY <1>9, <3>1, <3>2 DEF Callbacks
  <2> QED
      BY <1>2, <2>2, <2>3, <2>4, <2>5, <2>7, <2>8, <2>9 DEF Callbacks
<1>11. Frames'
  <2>1. (Len(calls) <= 1 \/ (Len(calls) = 2 /\ closed)) /\ calls' = d /\ Len(calls) # 0
      BY <1>2, <1>3, <1>9, SMT DEF Frames
  <2>2. Len(d) <= 1 /\ (Len(d) = 0 \/ closed) /\ (d # << >> => Len(d) # 0)
      BY <1>4, <2>1, SMT
  <2> QED
      BY <1>2, <2>1, <2>2 DEF Frames
<1>12. InTurn'
  <2> SUFFICES ASSUME ~closed
               PROVE  /\ \A i \in DOMAIN completed' : completed'[i].seq = i
                      /\ d = << >>
      BY <1>2 DEF InTurn
  <2>1. Len(calls) <= 1 /\ Len(calls) # 0
      BY <1>3, <1>9, SMT DEF Frames
  <2>2. d = << >> /\ Len(calls) = 1
      BY <1>4, <2>1, SMT
  <2>3. c.seq = z
    <3>1. c.seq = next_place_seq - 1
        BY <1>3, <1>4, <1>9 DEF InTurn
    <3>2. next_place_seq - 1 = Len(completed) + 1
        BY <1>5, <1>9, <2>2, SMT DEF Callbacks, IInv, TypeOK
    <3> QED
        BY <1>6, <3>1, <3>2
  <2> QED
      BY <1>7, <1>9, <2>2, <2>3 DEF InTurn
<1>13. TypeOK'
    BY <1>2, <1>4, <1>5 DEF IInv, TypeOK, Control
<1>14. Counters' /\ PendingTruthful' /\ Requests' /\ Behind' /\ EveryWaitIsAwaited'
    BY <1>2 DEF IInv, Counters, PendingTruthful, Requests, Behind, EveryWaitIsAwaited, KeyOf
<1>15. ReportBeforePlace' /\ PlacedInArrivalOrder' /\ PlacedAfterPosition'
    BY <1>2 DEF IInv, ReportBeforePlace, PlacedInArrivalOrder, PlacedAfterPosition, KeyOf
<1>16. NoLostWakeup' /\ PullIgnoreIsScoped'
    BY <1>2 DEF IInv, NoLostWakeup, PullIgnoreIsScoped
<1> QED
    BY <1>10, <1>11, <1>12, <1>13, <1>14, <1>15, <1>16 DEF IInv

-----------------------------------------------------------------------------
\* Every step of the engine, and every stuttering step, keeps the invariant.
LEMMA NextKeeps == IInv /\ [Next]_engineVars => IInv'
<1> SUFFICES ASSUME IInv, [Next]_engineVars PROVE IInv'
    OBVIOUS
<1>1. CASE \E sym \in Symbol, owner \in Account, o \in Order : Submit(sym, owner, o)
    BY <1>1, SubmitKeeps
<1>2. CASE Answer
  <2>1. CASE \E s \in SeqNo, ok \in BOOLEAN : ReportReply(s, ok)
      BY <2>1, ReportReplyKeeps
  <2>2. CASE \E key \in Key : PositionReply(key)
      BY <2>2, PositionReplyKeeps
  <2>3. CASE PullReply
      BY <2>3, PullReplyKeeps
  <2> QED
      BY <1>2, <2>1, <2>2, <2>3 DEF Answer
<1>3. CASE Close
    BY <1>3, CloseKeeps
<1>4. CASE \E s \in SeqNo, requester \in Account : Cancel(s, requester)
    BY <1>4, CancelKeeps
<1>5. CASE Drain
  <2>1. CASE \E rests \in BOOLEAN, exhausted \in SUBSET handles :
                Place(rests, exhausted)
      BY <2>1, PlaceKeeps
  <2> QED
      BY <1>5, <2>1, DrainPullsKeep, CallBackKeeps DEF Drain
<1>6. CASE UNCHANGED engineVars
  <2>1. OrdersUntouched /\ UNCHANGED <<warmed, depth_pulls, pull_ignore, handles, ctl>>
      BY <1>6 DEF engineVars, OrdersUntouched, positionVars, windowVars,
         storageVars, historyVars
  <2>2. Callbacks' /\ Frames' /\ InTurn'
      BY <2>1 DEF IInv, OrdersUntouched, Callbacks, Decided, IsPlaced, Frames, InTurn
  <2> QED
      BY <2>1, <2>2, UntouchedKeeps DEF IInv, OrdersUntouched, TypeOK, Requests,
         Behind, NoLostWakeup, HeadReady, HeadOrder, PullIgnoreIsScoped
<1> QED
    BY <1>1, <1>2, <1>3, <1>4, <1>5, <1>6 DEF Next

\* IInv holds in every reachable state of the engine.
THEOREM Invariance == Spec => []IInv
BY InitEstablishes, NextKeeps, PTL DEF Spec

\* The types of the engine's state hold in every reachable state.
THEOREM TypeCorrect == Spec => []TypeOK
<1>1. IInv => TypeOK
    BY DEF IInv
<1> QED
    BY <1>1, Invariance, PTL

\* No order reaches the matching engine before the storage helper has
\* acknowledged its report_order, whatever the answers and however late.
THEOREM ReportsPrecedePlacement == Spec => []ReportBeforePlace
<1>1. IInv => ReportBeforePlace
    BY DEF IInv
<1> QED
    BY <1>1, Invariance, PTL

\* drain() hands orders to the matching engine in arrival order, none twice.
THEOREM PlacementFollowsArrival == Spec => []PlacedInArrivalOrder
<1>1. IInv => PlacedInArrivalOrder
    BY DEF IInv
<1> QED
    BY <1>1, Invariance, PTL

\* drain() calls every submitter back once, with its own order's outcome: none
\* twice or too early, none left out, whether the helper lives, dies between
\* two handlers, or breaks its pipe under a placement.
THEOREM SubmittersAreCalledBackOnce == Spec => []CalledBackOnce
<1>1. ASSUME IInv PROVE CalledBackOnce
  <2>1. ctl = "idle" => Len(completed) = next_place_seq - 1
    <3> SUFFICES ASSUME ctl = "idle" PROVE Len(completed) = next_place_seq - 1
        OBVIOUS
    <3>1. calls = << >>
        BY <1>1 DEF IInv, Frames
    <3>2. Len(completed) \in Nat /\ Len(calls) = 0
        BY <1>1, <3>1, SMT DEF IInv, TypeOK
    <3>3. Len(completed) + Len(calls) = next_place_seq - 1
        BY <1>1 DEF IInv, Callbacks
    <3> QED
        BY <3>2, <3>3, SMT
  <2> QED
      BY <1>1, <2>1 DEF IInv, Callbacks, Decided, InTurn, CalledBackOnce
<1> QED
    BY <1>1, Invariance, PTL

\* No order is placed before its account's position has been pulled.
THEOREM PositionsPrecedePlacement == Spec => []PlacedAfterPosition
<1>1. IInv => PlacedAfterPosition
    BY DEF IInv
<1> QED
    BY <1>1, Invariance, PTL

\* When the thread returns to the event loop with a head that could be
\* placed, a pull is in flight whose answer resumes drain().
THEOREM WakeupsAreNotLost == Spec => []NoLostWakeup
<1>1. IInv => NoLostWakeup
    BY DEF IInv
<1> QED
    BY <1>1, Invariance, PTL

\* pull_ignore_ is empty whenever no pull is in flight, and disjoint from the
\* handles.
THEOREM CancelsDuringPullsAreScoped == Spec => []PullIgnoreIsScoped
<1>1. IInv => PullIgnoreIsScoped
    BY DEF IInv
<1> QED
    BY <1>1, Invariance, PTL

\* Whatever an order waits for is in flight, or the helper has died.
THEOREM WaitsAreAwaited == Spec => []EveryWaitIsAwaited
<1>1. IInv => EveryWaitIsAwaited
    BY DEF IInv
<1> QED
    BY <1>1, Invariance, PTL

\* A position is seeded only while its account has nothing on the book: a
\* step that loads a key finds no placed order of that key.
THEOREM SeedsPrecedeFills == Spec => SeedPrecedesFills
<1>1. ASSUME IInv, NEW key \in position_loaded' \ position_loaded,
             NEW i \in 1 .. Len(placed), position_loaded' \subseteq Key
      PROVE  KeyOf(submitted[placed[i]]) # key
    BY <1>1, EngineConstants, SMT DEF IInv, PlacedAfterPosition, KeyOf, Key
<1>2. IInv' => position_loaded' \subseteq Key
    BY DEF IInv, TypeOK
<1>3. IInv /\ IInv' =>
        [\A key \in position_loaded' \ position_loaded :
            \A i \in 1 .. Len(placed) : KeyOf(submitted[placed[i]]) # key]_engineVars
    BY <1>1, <1>2
<1> QED
    BY <1>3, Invariance, PTL DEF SeedPrecedesFills

-----------------------------------------------------------------------------
(* Refinement of ArrivalOrder: submit arrives, a placement decides, a      *)
(* callback tells, and every other step leaves the promise alone.          *)

\* What was decided of the orders that have left pending_.
Verdicts == [n \in 1 .. next_place_seq - 1 |-> IsPlaced(n)]

\* The first state of the engine is a first state of the promise.
LEMMA InitRefines == Init => Promise!Init
<1> SUFFICES ASSUME Init PROVE Promise!Init
    OBVIOUS
<1>1. next_place_seq - 1 = 0 /\ next_assign_seq - 1 = 0
    BY SMT DEF Init
<1>2. Verdicts = << >>
    BY <1>1, SMT DEF Verdicts
<1> QED
    BY <1>1, <1>2 DEF Init, Promise!Init, Verdicts

\* There is a verdict for every order that has left pending_.
LEMMA VerdictsAre ==
    ASSUME IInv
    PROVE  Verdicts \in Seq(BOOLEAN) /\ Len(Verdicts) = next_place_seq - 1
<1>1. next_place_seq - 1 \in Nat
    BY EngineConstants, SMT DEF IInv, TypeOK
<1>2. \A n \in 1 .. next_place_seq - 1 : IsPlaced(n) \in BOOLEAN
    BY DEF IsPlaced
<1>3. Verdicts \in [1 .. next_place_seq - 1 -> BOOLEAN]
    BY <1>2 DEF Verdicts
<1> QED
    BY <1>1, <1>3, SMT

\* A placement decides the oldest undecided order.
LEMMA PlaceRefines ==
    ASSUME IInv, NEW rests \in BOOLEAN, NEW exhausted \in SUBSET handles,
           Place(rests, exhausted)
    PROVE  Promise!Next
<1>1. PICK n : n = next_place_seq
    OBVIOUS
<1>2. /\ n \in Nat /\ n > 0 /\ n < next_assign_seq /\ next_assign_seq \in Nat
      /\ next_place_seq' = n + 1 /\ next_assign_seq' = next_assign_seq
    BY <1>1, EngineConstants, SMTT(30) DEF IInv, TypeOK, Counters, Place, HeadReady, SeqNo
<1>3. Len(calls) <= 1 /\ completed' = completed /\ Len(calls) \in Nat /\ Len(completed) \in Nat
  <2>1. ctl = "drain" /\ completed' = completed
      BY DEF Place
  <2>2. Len(calls) <= 1
      BY <2>1 DEF IInv, Frames
  <2> QED
      BY <2>1, <2>2, SMT DEF IInv, TypeOK
<1>4. \A m \in 1 .. n - 1 : IsPlaced(m)' <=> IsPlaced(m)
  <2>1. placed \in Seq(SeqNo) /\ Len(placed) \in Nat /\ DOMAIN placed = 1 .. Len(placed)
      BY SMT DEF IInv, TypeOK
  <2>2. CASE placed' = Append(placed, n)
    <3>1. /\ \A k \in DOMAIN placed : k \in DOMAIN placed' /\ placed'[k] = placed[k]
          /\ \A k \in DOMAIN placed' : placed'[k] = n \/ (k \in DOMAIN placed /\ placed'[k] = placed[k])
        BY <2>1, <2>2, SMT
    <3>2. \A m \in 1 .. n - 1 : m # n
        BY <1>2, SMT
    <3> QED
        BY <3>1, <3>2 DEF IsPlaced
  <2>3. CASE placed' = placed
      BY <2>3 DEF IsPlaced
  <2> QED
      BY <1>1, <2>2, <2>3 DEF Place
<1>5. PICK v, w, b : v = Verdicts /\ w = Verdicts' /\ b = IsPlaced(n)'
    OBVIOUS
<1>6. v \in Seq(BOOLEAN) /\ Len(v) = n - 1 /\ w \in Seq(BOOLEAN) /\ Len(w) = n /\ b \in BOOLEAN
  <2>1. v \in Seq(BOOLEAN) /\ Len(v) = n - 1
      BY <1>1, <1>5, VerdictsAre
  <2>2. w \in [1 .. n -> BOOLEAN]
    <3>1. next_place_seq' - 1 = n /\ \A m \in 1 .. n : IsPlaced(m)' \in BOOLEAN
        BY <1>2, SMT DEF IsPlaced
    <3> QED
        BY <1>5, <3>1 DEF Verdicts
  <2>3. b \in BOOLEAN
      BY <1>5 DEF IsPlaced
  <2> QED
      BY <1>2, <2>1, <2>2, <2>3, SMT
<1>7. \A m \in 1 .. n - 1 : w[m] = v[m]
  <2> SUFFICES ASSUME NEW m \in 1 .. n - 1 PROVE w[m] = v[m]
      OBVIOUS
  <2>1. m \in 1 .. next_place_seq' - 1 /\ m \in 1 .. next_place_seq - 1
      BY <1>1, <1>2, SMT
  <2>2. w[m] = IsPlaced(m)' /\ v[m] = IsPlaced(m)
      BY <1>5, <2>1 DEF Verdicts
  <2>3. IsPlaced(m)' \in BOOLEAN /\ IsPlaced(m) \in BOOLEAN
      BY DEF IsPlaced
  <2> QED
      BY <1>4, <2>2, <2>3
<1>8. w[n] = b
  <2>1. n \in 1 .. next_place_seq' - 1
      BY <1>2, SMT
  <2> QED
      BY <1>5, <2>1 DEF Verdicts
<1>9. w = Append(v, b)
    BY <1>2, <1>6, <1>7, <1>8, SMT
<1>10. /\ Len(v) < next_assign_seq - 1 /\ next_assign_seq' - 1 = next_assign_seq - 1
       /\ Len(v) <= Len(completed) + 1
  <2>1. Len(completed) + Len(calls) = n - 1
      BY <1>1 DEF IInv, Callbacks
  <2> QED
      BY <1>2, <1>3, <1>6, <2>1, SMT
<1> QED
    BY <1>3, <1>5, <1>6, <1>9, <1>10 DEF Promise!Next, Promise!Decide, Verdicts

\* A callback tells the last order decided that was not told yet.
LEMMA CallBackRefines ==
    ASSUME IInv, CallBack
    PROVE  Promise!Next
<1>1. PICK c : c = Head(calls)
    OBVIOUS
<1>2. /\ completed' = Append(completed, c) /\ UNCHANGED <<next_assign_seq, next_place_seq, placed>>
      /\ ctl \in {"reporting", "calling"}
    BY <1>1 DEF CallBack
<1>3. calls # << >> /\ calls \in Seq(Completion) /\ Callbacks
    BY <1>2 DEF IInv, Frames, TypeOK
<1>4. /\ Len(calls) \in Nat /\ DOMAIN calls = 1 .. Len(calls) /\ 1 \in DOMAIN calls
      /\ c = calls[1] /\ c \in Completion
  <2> HIDE DEF Completion
  <2> QED
      BY <1>1, <1>3, SMT
<1>5. PICK n : n = c.seq
    OBVIOUS
<1>6. /\ n \in Nat /\ n > 0 /\ n < next_place_seq /\ next_place_seq \in Nat
      /\ (c.storage_ok <=> IsPlaced(n)) /\ c.storage_ok \in BOOLEAN
      /\ c = [seq |-> n, storage_ok |-> c.storage_ok]
  <2>1. c.seq < next_place_seq /\ (c.storage_ok <=> IsPlaced(n))
      BY <1>3, <1>4, <1>5 DEF Callbacks, Decided
  <2>2. next_place_seq \in Nat
      BY EngineConstants, SMT DEF IInv, TypeOK
  <2> QED
      BY <1>4, <1>5, <2>1, <2>2, SMT DEF Completion, SeqNo
<1>7. n \in 1 .. next_place_seq - 1
    BY <1>6, SMT
<1>8. Verdicts[n] = c.storage_ok /\ n \in 1 .. Len(Verdicts) /\ Len(Verdicts) = next_place_seq - 1
  <2>1. IsPlaced(n) \in BOOLEAN
      BY DEF IsPlaced
  <2>2. Verdicts[n] = IsPlaced(n)
      BY <1>7 DEF Verdicts
  <2>3. Len(Verdicts) = next_place_seq - 1
      BY VerdictsAre
  <2> QED
      BY <1>6, <1>7, <2>1, <2>2, <2>3
<1>9. DOMAIN completed = 1 .. Len(completed)
    BY SMT DEF IInv, TypeOK
<1>10. ~ \E i \in 1 .. Len(completed) : completed[i].seq = n
    BY <1>3, <1>4, <1>5, <1>9 DEF Callbacks
<1>11. \A m \in n + 1 .. Len(Verdicts) : \E i \in 1 .. Len(completed) : completed[i].seq = m
  <2> SUFFICES ASSUME NEW m \in n + 1 .. next_place_seq - 1,
                      NEW i \in DOMAIN calls, calls[i].seq = m
               PROVE  FALSE
    <3>1. \A m \in n + 1 .. next_place_seq - 1 : m \in 1 .. next_place_seq - 1
        BY <1>6, SMT
    <3> QED
        BY <1>3, <1>8, <1>9, <3>1 DEF Callbacks
  <2>1. i # 1 /\ i \in Nat
      BY <1>4, <1>5, <1>6, SMT
  <2>2. 1 < i
      BY <1>4, <2>1, SMT
  <2>3. m < n
      BY <1>3, <1>4, <1>5, <2>2 DEF Callbacks
  <2> QED
      BY <1>6, <2>3, SMT
<1>12. Verdicts' = Verdicts /\ next_assign_seq' - 1 = next_assign_seq - 1
    BY <1>2 DEF Verdicts, IsPlaced
<1>13. completed' = Append(completed, [seq |-> n, storage_ok |-> Verdicts[n]])
    BY <1>2, <1>6, <1>8
<1> QED
    BY <1>8, <1>10, <1>11, <1>12, <1>13 DEF Promise!Next, Promise!Tell, Promise!Told, Verdicts

\* The engine implements the promise that each order is decided exactly once,
\* in arrival order, and each submitter told once what was decided of its order.
THEOREM EngineKeepsPromise == Spec => ImplementsArrivalOrder
<1>1. IInv /\ [Next]_engineVars =>
        [Promise!Next]_<<next_assign_seq - 1, Verdicts, completed>>
  <2> SUFFICES ASSUME IInv, [Next]_engineVars
               PROVE  \/ Promise!Next
                      \/ UNCHANGED <<next_assign_seq, next_place_seq, placed, completed>>
      BY DEF Verdicts, IsPlaced
  <2>1. ASSUME NEW sym \in Symbol, NEW owner \in Account, NEW o \in Order,
               Submit(sym, owner, o)
        PROVE  Promise!Next
    <3>1. next_assign_seq' - 1 = (next_assign_seq - 1) + 1
        BY <2>1, EngineConstants, SMT DEF Submit, IInv, TypeOK
    <3>2. Verdicts' = Verdicts /\ completed' = completed
        BY <2>1 DEF Submit, Verdicts, IsPlaced
    <3> QED
        BY <3>1, <3>2 DEF Promise!Next, Promise!Arrive, Verdicts
  <2>2. CASE \E rests \in BOOLEAN, exhausted \in SUBSET handles :
                Place(rests, exhausted)
      BY <2>2, PlaceRefines
  <2>3. CASE CallBack
      BY <2>3, CallBackRefines
  <2>4. CASE Answer
      BY <2>4 DEF Answer, ReportReply, PositionReply, PullReply, historyVars
  <2>5. CASE Close \/ \E s \in SeqNo, requester \in Account : Cancel(s, requester)
      BY <2>5 DEF Close, Cancel, historyVars
  <2>6. CASE DrainStops \/ WarmUp \/ DeepPull
      BY <2>6 DEF DrainStops, WarmUp, DeepPull, historyVars
  <2>7. CASE UNCHANGED engineVars
      BY <2>7 DEF engineVars, historyVars
  <2> QED
      BY <2>1, <2>2, <2>3, <2>4, <2>5, <2>6, <2>7 DEF Next, Drain
<1> QED
    BY <1>1, InitRefines, Invariance, PTL
       DEF Spec, ImplementsArrivalOrder, Promise!Spec, Promise!vars, Verdicts
-----------------------------------------------------------------------------
(* The requests in a pipe, handled one after the other.                    *)

Handling(f, st, ms, k) ==
    f = [n \in 0..k |-> IF n = 0 THEN st ELSE Handled(f[n - 1], ms[n])]

\* The recursion of Applied defines a function.
LEMMA HandlingExists ==
    ASSUME NEW st, NEW ms, NEW k \in Nat
    PROVE  \E f : Handling(f, st, ms, k)
<1> DEFINE N == {n \in Nat : \E f : Handling(f, st, ms, n)}
<1>1. 0 \in N
  <2> DEFINE f == [n \in 0..0 |-> st]
  <2>1. Handling(f, st, ms, 0)
      BY SMT DEF Handling
  <2> QED
      BY <2>1
<1>2. ASSUME NEW n \in Nat, n \in N
      PROVE  n + 1 \in N
  <2>1. PICK f : Handling(f, st, ms, n)
      BY <1>2
  <2> DEFINE g == [i \in 0..n + 1 |-> IF i = n + 1 THEN Handled(f[n], ms[n + 1]) ELSE f[i]]
  <2>2. \A i \in 0..n : g[i] = f[i]
      BY SMT
  <2>3. \A i \in 0..n : f[i] = IF i = 0 THEN st ELSE Handled(f[i - 1], ms[i])
      BY <2>1 DEF Handling
  <2>4. ASSUME NEW i \in 0..n + 1
        PROVE  g[i] = IF i = 0 THEN st ELSE Handled(g[i - 1], ms[i])
    <3>1. CASE i = n + 1
      <4>1. i - 1 = n /\ n \in 0..n /\ i # 0
          BY <3>1, SMT
      <4>2. g[i - 1] = f[n]
          BY <2>2, <4>1
      <4>3. g[i] = Handled(f[n], ms[n + 1])
          BY <3>1
      <4> QED
          BY <3>1, <4>1, <4>2, <4>3
    <3>2. CASE i \in 0..n
      <4>1. i # 0 => i - 1 \in 0..n
          BY <3>2, SMT
      <4>2. g[i] = f[i] /\ (i # 0 => g[i - 1] = f[i - 1])
          BY <2>2, <3>2, <4>1
      <4> HIDE DEF g
      <4> QED
          BY <2>3, <3>2, <4>2
    <3> QED
        BY <3>1, <3>2, SMT
  <2>5. DOMAIN g = 0..n + 1
      OBVIOUS
  <2>6. g = [i \in 0..n + 1 |-> g[i]]
      OBVIOUS
  <2>7. Handling(g, st, ms, n + 1)
    <3> HIDE DEF g
    <3> QED
        BY <2>4, <2>6 DEF Handling
  <2>8. \E h : Handling(h, st, ms, n + 1)
    <3> HIDE DEF g
    <3> QED
        BY <2>7
  <2> QED
      BY <2>8, SMT
<1>3. Nat \subseteq N
  <2> HIDE DEF N
  <2> QED
      BY <1>1, <1>2, NatSetInduction
<1> QED
    BY <1>3

\* What it computes depends on nothing beyond the requests handled.
LEMMA HandlingUnique ==
    ASSUME NEW st, NEW ms, NEW ns, NEW k \in Nat, NEW l \in Nat, NEW f, NEW g,
           Handling(f, st, ms, k), Handling(g, st, ns, l),
           NEW j \in Nat, j <= k, j <= l, \A i \in 1..j : ms[i] = ns[i]
    PROVE  f[j] = g[j]
<1> DEFINE N == {n \in Nat : n <= j => f[n] = g[n]}
<1>1. /\ \A i \in 0..j : f[i] = IF i = 0 THEN st ELSE Handled(f[i - 1], ms[i])
      /\ \A i \in 0..j : g[i] = IF i = 0 THEN st ELSE Handled(g[i - 1], ns[i])
  <2>1. PICK p, q : /\ p = [n \in 0..k |-> IF n = 0 THEN st ELSE Handled(f[n - 1], ms[n])]
                    /\ q = [n \in 0..l |-> IF n = 0 THEN st ELSE Handled(g[n - 1], ns[n])]
      OBVIOUS
  <2>2. /\ \A i \in 0..k : p[i] = IF i = 0 THEN st ELSE Handled(f[i - 1], ms[i])
        /\ \A i \in 0..l : q[i] = IF i = 0 THEN st ELSE Handled(g[i - 1], ns[i])
      BY <2>1
  <2>3. p = f /\ q = g
      BY <2>1 DEF Handling
  <2>4. 0..j \subseteq 0..k /\ 0..j \subseteq 0..l
      BY SMT
  <2> QED
      BY <2>2, <2>3, <2>4
<1>2. 0 \in N
    BY <1>1, SMT
<1>3. ASSUME NEW n \in Nat, n \in N
      PROVE  n + 1 \in N
  <2> SUFFICES ASSUME n + 1 <= j PROVE f[n + 1] = g[n + 1]
      BY SMT
  <2>1. f[n] = g[n] /\ ms[n + 1] = ns[n + 1]
      BY <1>3, SMT
  <2>2. n + 1 \in 0..j /\ n + 1 # 0 /\ (n + 1) - 1 = n
      BY SMT
  <2>3. f[n + 1] = Handled(f[n], ms[n + 1]) /\ g[n + 1] = Handled(g[n], ns[n + 1])
      BY <1>1, <2>2
  <2> QED
      BY <2>1, <2>3
<1>4. Nat \subseteq N
  <2> HIDE DEF N
  <2> QED
      BY <1>2, <1>3, NatSetInduction
<1> QED
    BY <1>4, SMT

\* Applied is the value of that function at the last request.
LEMMA AppliedIs ==
    ASSUME NEW st, NEW ms, NEW k \in Nat
    PROVE  \E f : Handling(f, st, ms, k) /\ Applied(st, ms, k) = f[k]
<1> DEFINE f == CHOOSE h : Handling(h, st, ms, k)
<1>1. Handling(f, st, ms, k)
    BY HandlingExists
<1>2. Applied(st, ms, k) = f[k]
    BY DEF Applied, Handling
<1> QED
    BY <1>1, <1>2

\* Applied, one request at a time.
LEMMA AppliedRec ==
    ASSUME NEW st, NEW ms
    PROVE  /\ Applied(st, ms, 0) = st
           /\ \A k \in Nat : Applied(st, ms, k + 1) = Handled(Applied(st, ms, k), ms[k + 1])
<1>1. Applied(st, ms, 0) = st
  <2>1. PICK f : Handling(f, st, ms, 0) /\ Applied(st, ms, 0) = f[0]
      BY AppliedIs
  <2> QED
      BY <2>1, SMT DEF Handling
<1>2. ASSUME NEW k \in Nat
      PROVE  Applied(st, ms, k + 1) = Handled(Applied(st, ms, k), ms[k + 1])
  <2>1. PICK f : Handling(f, st, ms, k) /\ Applied(st, ms, k) = f[k]
      BY AppliedIs
  <2>2. PICK g : Handling(g, st, ms, k + 1) /\ Applied(st, ms, k + 1) = g[k + 1]
      BY AppliedIs, SMT
  <2>3. f[k] = g[k]
    <3>1. k + 1 \in Nat /\ k <= k /\ k <= k + 1
        BY SMT
    <3> QED
        BY <2>1, <2>2, <3>1, HandlingUnique, SMT
  <2>4. g[k + 1] = Handled(g[k], ms[k + 1])
    <3>1. k + 1 \in 0..k + 1 /\ k + 1 # 0 /\ (k + 1) - 1 = k
        BY SMT
    <3>2. g[k + 1] = IF k + 1 = 0 THEN st ELSE Handled(g[(k + 1) - 1], ms[k + 1])
        BY <2>2, <3>1 DEF Handling
    <3> QED
        BY <3>1, <3>2
  <2> QED
      BY <2>1, <2>2, <2>3, <2>4
<1> QED
    BY <1>1, <1>2

\* A request behind the first k does not matter to them.
LEMMA AppliedPrefix ==
    ASSUME NEW st, NEW ms, NEW ns, NEW k \in Nat, \A i \in 1..k : ms[i] = ns[i]
    PROVE  Applied(st, ms, k) = Applied(st, ns, k)
<1>1. PICK f : Handling(f, st, ms, k) /\ Applied(st, ms, k) = f[k]
    BY AppliedIs
<1>2. PICK g : Handling(g, st, ns, k) /\ Applied(st, ns, k) = g[k]
    BY AppliedIs
<1>3. f[k] = g[k]
  <2>1. k <= k
      BY SMT
  <2> QED
      BY <1>1, <1>2, <2>1, HandlingUnique, SMT
<1> QED
    BY <1>1, <1>2, <1>3

\* The helper reads the first request of its pipe.
LEMMA AppliedTail ==
    ASSUME NEW st, NEW M, NEW ms \in Seq(M), ms # << >>, NEW k \in 0..Len(ms) - 1
    PROVE  Applied(Handled(st, Head(ms)), Tail(ms), k) = Applied(st, ms, k + 1)
<1> DEFINE st1 == Handled(st, Head(ms))
           N == {n \in Nat : n <= Len(ms) - 1 =>
                    Applied(st1, Tail(ms), n) = Applied(st, ms, n + 1)}
<1>0. Len(ms) \in Nat /\ Head(ms) = ms[1] /\ \A i \in 1..Len(ms) - 1 : Tail(ms)[i] = ms[i + 1]
    BY SMT
<1>1. 0 \in N
  <2>1. Applied(st1, Tail(ms), 0) = st1 /\ Applied(st, ms, 0) = st
      BY AppliedRec
  <2>2. Applied(st, ms, 0 + 1) = Handled(Applied(st, ms, 0), ms[0 + 1])
      BY AppliedRec, SMT
  <2> QED
      BY <1>0, <2>1, <2>2, SMT
<1>2. ASSUME NEW n \in Nat, n \in N
      PROVE  n + 1 \in N
  <2> SUFFICES ASSUME n + 1 <= Len(ms) - 1
               PROVE  Applied(st1, Tail(ms), n + 1) = Applied(st, ms, (n + 1) + 1)
      BY SMT
  <2>1. Applied(st1, Tail(ms), n + 1) = Handled(Applied(st1, Tail(ms), n), Tail(ms)[n + 1])
      BY AppliedRec
  <2>2. Applied(st, ms, (n + 1) + 1) = Handled(Applied(st, ms, n + 1), ms[(n + 1) + 1])
    <3>1. n + 1 \in Nat
        BY SMT
    <3> QED
        BY <3>1, AppliedRec
  <2>3. Tail(ms)[n + 1] = ms[(n + 1) + 1]
      BY <1>0, SMT
  <2>4. Applied(st1, Tail(ms), n) = Applied(st, ms, n + 1)
      BY <1>0, <1>2, SMT
  <2> QED
      BY <2>1, <2>2, <2>3, <2>4
<1>3. k \in N
  <2> HIDE DEF N
  <2> QED
      BY <1>0, <1>1, <1>2, NatSetInduction, SMT
<1> QED
    BY <1>3, SMT

\* The engine writes requests behind the ones in the pipe.
LEMMA AppliedAppend ==
    ASSUME NEW st, NEW M, NEW ms \in Seq(M), NEW ns \in Seq(M)
    PROVE  /\ \A k \in 0..Len(ms) : Applied(st, ms \o ns, k) = Applied(st, ms, k)
           /\ \A k \in 0..Len(ns) : Applied(st, ms \o ns, Len(ms) + k)
                                       = Applied(Applied(st, ms, Len(ms)), ns, k)
<1>0. /\ Len(ms) \in Nat /\ Len(ns) \in Nat
      /\ \A i \in 1..Len(ms) : (ms \o ns)[i] = ms[i]
      /\ \A i \in 1..Len(ns) : (ms \o ns)[Len(ms) + i] = ns[i]
    BY SMT
<1>1. \A k \in 0..Len(ms) : Applied(st, ms \o ns, k) = Applied(st, ms, k)
  <2> SUFFICES ASSUME NEW k \in 0..Len(ms)
               PROVE  Applied(st, ms \o ns, k) = Applied(st, ms, k)
      OBVIOUS
  <2>1. k \in Nat /\ \A i \in 1..k : (ms \o ns)[i] = ms[i]
      BY <1>0, SMT
  <2> QED
      BY <2>1, AppliedPrefix
<1> DEFINE st1 == Applied(st, ms, Len(ms))
           N == {n \in Nat : n <= Len(ns) =>
                    Applied(st, ms \o ns, Len(ms) + n) = Applied(st1, ns, n)}
<1>2. 0 \in N
  <2>1. Applied(st1, ns, 0) = st1 /\ Len(ms) + 0 = Len(ms) /\ Len(ms) \in 0..Len(ms)
      BY <1>0, AppliedRec, SMT
  <2> QED
      BY <1>1, <2>1
<1>3. ASSUME NEW n \in Nat, n \in N
      PROVE  n + 1 \in N
  <2> SUFFICES ASSUME n + 1 <= Len(ns)
               PROVE  Applied(st, ms \o ns, Len(ms) + (n + 1)) = Applied(st1, ns, n + 1)
      BY SMT
  <2>1. Applied(st1, ns, n + 1) = Handled(Applied(st1, ns, n), ns[n + 1])
      BY AppliedRec
  <2>2. Applied(st, ms \o ns, (Len(ms) + n) + 1)
          = Handled(Applied(st, ms \o ns, Len(ms) + n), (ms \o ns)[(Len(ms) + n) + 1])
    <3>1. Len(ms) + n \in Nat
        BY <1>0, SMT
    <3> QED
        BY <3>1, AppliedRec
  <2>3. (Len(ms) + n) + 1 = Len(ms) + (n + 1)
      BY <1>0, SMT
  <2>4. (ms \o ns)[Len(ms) + (n + 1)] = ns[n + 1]
      BY <1>0, SMT
  <2>5. Applied(st, ms \o ns, Len(ms) + n) = Applied(st1, ns, n)
      BY <1>0, <1>3, SMT
  <2> HIDE DEF st1
  <2> QED
      BY <2>1, <2>2, <2>3, <2>4, <2>5
<1>4. Nat \subseteq N
  <2> HIDE DEF N
  <2> QED
      BY <1>2, <1>3, NatSetInduction
<1> QED
    BY <1>0, <1>1, <1>4, SMT

\* A request ahead of others is handled first.
LEMMA AppliedCons ==
    ASSUME NEW st, NEW M, NEW m \in M, NEW ns \in Seq(M)
    PROVE  Applied(st, <<m>> \o ns, 1 + Len(ns)) = Applied(Handled(st, m), ns, Len(ns))
<1>1. Applied(st, <<m>>, 1) = Handled(st, m)
  <2>1. Applied(st, <<m>>, 0) = st /\ Applied(st, <<m>>, 0 + 1) = Handled(Applied(st, <<m>>, 0), <<m>>[0 + 1])
      BY AppliedRec, SMT
  <2>2. <<m>>[0 + 1] = m /\ 0 + 1 = 1
      BY SMT
  <2> QED
      BY <2>1, <2>2
<1>2. PICK q \in Seq(M) : q = <<m>> /\ Len(q) = 1
  <2>1. <<m>> \in Seq(M) /\ Len(<<m>>) = 1
      BY SMT
  <2> QED
      BY <2>1
<1>3. Len(ns) \in 0..Len(ns)
    BY SMT
<1>4. \A k \in 0..Len(ns) : Applied(st, q \o ns, Len(q) + k) = Applied(Applied(st, q, Len(q)), ns, k)
    BY AppliedAppend, SMT
<1>5. Applied(st, q \o ns, Len(q) + Len(ns)) = Applied(Applied(st, q, Len(q)), ns, Len(ns))
    BY <1>3, <1>4
<1> QED
    BY <1>1, <1>2, <1>5

-----------------------------------------------------------------------------
(* The types of a store and of the requests to it.                         *)

Row == [id : Nat, side : Side, price : Nat \ {0}, leaves : Nat \ {0}, seq : Nat]

Store(owners, accounts) ==
    [kind : {"reference", "database"},
     info : SUBSET [id : Nat, owner : accounts, side : Side],
     resting : SUBSET Row,
     net : [owners -> Int]]

OrderRequest(accounts) == [type : {"order"}, id : Nat, owner : accounts, side : Side]
RestRequest ==
    [type : {"rest"}, id : Nat, side : Side, price : Nat \ {0}, leaves : Nat \ {0},
     seq : Nat]
FillRequest ==
    [type : {"fill"}, id : Nat, qty : Nat, remaining : Nat, complete : BOOLEAN]
CancelRequest == [type : {"cancel"}, id : Nat]
PositionRequest(owners) == [type : {"position"}, owner : owners]
LevelsRequest == [type : {"levels"}, req : Nat, side : Side, from : Nat, count : Nat]

RequestTo(owners, accounts) ==
    OrderRequest(accounts) \cup RestRequest \cup FillRequest \cup CancelRequest
      \cup PositionRequest(owners) \cup LevelsRequest

\* Which requests Handled takes for what.
LEMMA RequestTypes ==
    ASSUME NEW O, NEW A, NEW m \in RequestTo(O, A)
    PROVE  /\ m.type = "order" => m \in OrderRequest(A)
           /\ m.type = "rest" => m \in RestRequest
           /\ m.type = "fill" => m \in FillRequest
           /\ m.type = "cancel" => m \in CancelRequest
           /\ m.type = "position" => m \in PositionRequest(O)
           /\ m.type = "levels" => m \in LevelsRequest
           /\ m.type \in {"order", "rest", "fill", "cancel", "position", "levels"}
           /\ IsRead(m) <=> m.type \in {"position", "levels"}
    BY DEF RequestTo, OrderRequest, RestRequest, FillRequest, CancelRequest,
       PositionRequest, LevelsRequest, IsRead

\* What each kind of request does to the rows that rest.
LEMMA HandledRows ==
    ASSUME NEW O, NEW A, NEW st \in Store(O, A), NEW m \in RequestTo(O, A)
    PROVE  /\ IsRead(m) => Handled(st, m) = st
           /\ m.type = "order" => Handled(st, m) = ApplyOrder(st, m)
           /\ m.type = "rest" => Handled(st, m) = ApplyRest(st, m)
           /\ m.type = "cancel" => Handled(st, m) = ApplyCancel(st, m)
           /\ m.type = "fill" => Handled(st, m) = ApplyFill(st, m)
<1>1. CASE IsRead(m)
    BY <1>1, RequestTypes DEF Handled, IsRead
<1>2. CASE ~IsRead(m)
    BY <1>2, RequestTypes DEF Handled, ApplyWrite
<1> QED
    BY <1>1, <1>2

\* The quantity a row has left after a fill is an integer, for both kinds of
\* helper.
LEMMA LeavesAfterFillType ==
    ASSUME NEW O, NEW A, NEW st \in Store(O, A), NEW m \in FillRequest, NEW r \in Row
    PROVE  LeavesAfterFill(st, r, m) \in Int
    BY SMT DEF Store, FillRequest, Row, LeavesAfterFill

\* A helper keeps its store well formed, whatever it is sent.
LEMMA HandledType ==
    ASSUME NEW O, NEW A, NEW st \in Store(O, A), NEW m \in RequestTo(O, A)
    PROVE  Handled(st, m) \in Store(O, A) /\ Handled(st, m).kind = st.kind
<1>1. CASE IsRead(m)
    BY <1>1, HandledRows, SMT
<1>2. CASE m.type = "order"
  <2>1. Handled(st, m) = ApplyOrder(st, m) /\ m \in OrderRequest(A)
      BY <1>2, HandledRows, RequestTypes, SMT
  <2> QED
      BY <2>1, SMT DEF ApplyOrder, Store, OrderRequest
<1>3. CASE m.type = "rest"
  <2>1. Handled(st, m) = ApplyRest(st, m) /\ m \in RestRequest
      BY <1>3, HandledRows, RequestTypes, SMT
  <2>2. [id |-> m.id, side |-> m.side, price |-> m.price, leaves |-> m.leaves,
         seq |-> m.seq] \in Row
      BY <2>1 DEF RestRequest, Row
  <2> QED
      BY <2>1, <2>2, SMT DEF ApplyRest, Store
<1>4. CASE m.type = "cancel"
  <2>1. Handled(st, m) = ApplyCancel(st, m)
      BY <1>4, HandledRows, SMTT(30)
  <2> QED
      BY <2>1 DEF ApplyCancel, Store
<1>5. CASE m.type = "fill"
  <2>1. Handled(st, m) = ApplyFill(st, m) /\ m \in FillRequest
      BY <1>5, HandledRows, RequestTypes, SMT
  <2>2. NetAfterFill(st, m) \in [O -> Int]
      BY <2>1, SMT DEF NetAfterFill, Store, FillRequest
  <2>3. \A r \in st.resting : LeavesAfterFill(st, r, m) > 0 =>
           [r EXCEPT !.leaves = LeavesAfterFill(st, r, m)] \in Row
    <3> SUFFICES ASSUME NEW r \in st.resting, LeavesAfterFill(st, r, m) > 0
                 PROVE  [r EXCEPT !.leaves = LeavesAfterFill(st, r, m)] \in Row
        OBVIOUS
    <3>1. r \in Row
        BY DEF Store
    <3>2. LeavesAfterFill(st, r, m) \in Nat \ {0}
        BY <2>1, <3>1, LeavesAfterFillType, SMT
    <3> QED
        BY <3>1, <3>2 DEF Row
  <2>4. {r \in st.resting : r.id # m.id}
          \cup {[r EXCEPT !.leaves = LeavesAfterFill(st, r, m)] :
                  r \in {x \in st.resting : x.id = m.id /\ LeavesAfterFill(st, x, m) > 0}}
        \in SUBSET Row
      BY <2>3 DEF Store
  <2> QED
      BY <2>1, <2>2, <2>4 DEF ApplyFill, Store
<1> QED
    BY <1>1, <1>2, <1>3, <1>4, <1>5, RequestTypes

\* A finite store stays finite.
LEMMA HandledFinite ==
    ASSUME NEW O, NEW A, NEW st \in Store(O, A), NEW m \in RequestTo(O, A),
           IsFiniteSet(st.info), IsFiniteSet(st.resting)
    PROVE  IsFiniteSet(Handled(st, m).info) /\ IsFiniteSet(Handled(st, m).resting)
<1>1. CASE IsRead(m)
    BY <1>1, HandledRows, SMT
<1>2. CASE m.type = "order"
  <2> DEFINE old == {i \in st.info : i.id # m.id}
             new == [id |-> m.id, owner |-> m.owner, side |-> m.side]
  <2>1. Handled(st, m) = ApplyOrder(st, m)
      BY <1>2, HandledRows, SMT
  <2>2. IsFiniteSet(old \cup {new})
    <3>1. IsFiniteSet(old)
        BY FS_Subset
    <3> HIDE DEF old, new
    <3> QED
        BY <3>1, FS_AddElement
  <2>3. Handled(st, m).info = old \cup {new} /\ Handled(st, m).resting = st.resting
      BY <2>1 DEF ApplyOrder, Store
  <2> QED
      BY <2>2, <2>3
<1>3. CASE m.type = "rest"
  <2> DEFINE old == {r \in st.resting : r.id # m.id}
             new == [id |-> m.id, side |-> m.side, price |-> m.price,
                     leaves |-> m.leaves, seq |-> m.seq]
  <2>1. Handled(st, m) = ApplyRest(st, m)
      BY <1>3, HandledRows, SMT
  <2>2. IsFiniteSet(old \cup {new})
    <3>1. IsFiniteSet(old)
        BY FS_Subset
    <3> HIDE DEF old, new
    <3> QED
        BY <3>1, FS_AddElement
  <2>3. Handled(st, m).resting = old \cup {new} /\ Handled(st, m).info = st.info
      BY <2>1 DEF ApplyRest, Store
  <2> QED
      BY <2>2, <2>3
<1>4. CASE m.type = "cancel"
  <2>1. /\ Handled(st, m).resting = {r \in st.resting : r.id # m.id}
        /\ Handled(st, m).info = st.info
      BY <1>4, HandledRows, SMT DEF ApplyCancel, Store
  <2> QED
      BY <2>1, FS_Subset
<1>5. CASE m.type = "fill"
  <2> DEFINE old == {r \in st.resting : r.id # m.id}
             hit == {x \in st.resting : x.id = m.id /\ LeavesAfterFill(st, x, m) > 0}
             new == {[r EXCEPT !.leaves = LeavesAfterFill(st, r, m)] : r \in hit}
  <2>1. Handled(st, m) = ApplyFill(st, m)
      BY <1>5, HandledRows, SMT
  <2>2. Handled(st, m).resting = old \cup new /\ Handled(st, m).info = st.info
      BY <2>1 DEF ApplyFill, Store
  <2>3. IsFiniteSet(old) /\ IsFiniteSet(hit)
      BY FS_Subset
  <2>4. IsFiniteSet(new)
    <3> DEFINE f == [r \in hit |-> [r EXCEPT !.leaves = LeavesAfterFill(st, r, m)]]
    <3>1. \A y \in new : \E r \in hit : f[r] = y
        OBVIOUS
    <3>2. \A r \in hit : f[r] \in new
        OBVIOUS
    <3>3. f \in Surjection(hit, new)
      <4>1. f \in [hit -> new]
          BY <3>2
      <4> HIDE DEF f, hit, new
      <4> QED
          BY <3>1, <4>1 DEF Surjection
    <3> HIDE DEF f, hit, new
    <3> QED
        BY <2>3, <3>3, FS_Surjection
  <2>5. IsFiniteSet(old \cup new)
    <3> HIDE DEF old, new
    <3> QED
        BY <2>3, <2>4, FS_Union
  <2> QED
      BY <2>2, <2>5
<1> QED
    BY <1>1, <1>2, <1>3, <1>4, <1>5, RequestTypes

\* No two rows of a store have the same id.
UniqueRows(S) == \A r, x \in S : r.id = x.id => r = x

\* A helper keeps one row for an id, whatever it is asked to do.
LEMMA HandledUnique ==
    ASSUME NEW O, NEW A, NEW st \in Store(O, A), NEW m \in RequestTo(O, A),
           UniqueRows(st.resting)
    PROVE  UniqueRows(Handled(st, m).resting)
<1>1. CASE IsRead(m)
    BY <1>1, HandledRows, SMT
<1>2. CASE m.type = "order"
    BY <1>2, HandledRows, SMT DEF ApplyOrder, Store
<1>3. CASE m.type = "rest"
  <2>1. Handled(st, m).resting
          = {r \in st.resting : r.id # m.id}
              \cup {[id |-> m.id, side |-> m.side, price |-> m.price,
                     leaves |-> m.leaves, seq |-> m.seq]}
      BY <1>3, HandledRows, SMT DEF ApplyRest, Store
  <2> QED
      BY <2>1, SMT DEF UniqueRows
<1>4. CASE m.type = "cancel"
    BY <1>4, HandledRows, SMT DEF ApplyCancel, Store, UniqueRows
<1>5. CASE m.type = "fill"
  <2>1. PICK R : R = st.resting
      OBVIOUS
  <2>2. Handled(st, m).resting
          = {r \in R : r.id # m.id}
              \cup {[r EXCEPT !.leaves = LeavesAfterFill(st, r, m)] :
                      r \in {x \in R : x.id = m.id /\ LeavesAfterFill(st, x, m) > 0}}
    <3>1. st \in [kind : {"reference", "database"}, info : SUBSET [id : Nat, owner : A, side : Side],
                  resting : SUBSET Row, net : [O -> Int]]
        BY DEF Store
    <3>2. Handled(st, m) = ApplyFill(st, m)
        BY <1>5, HandledRows, SMT
    <3> QED
        BY <2>1, <3>1, <3>2 DEF ApplyFill
  <2>3. \A r \in R : [r EXCEPT !.leaves = LeavesAfterFill(st, r, m)].id = r.id
      BY <2>1 DEF Store, Row
  <2>4. ASSUME NEW r \in Handled(st, m).resting
        PROVE  \/ r \in R /\ r.id # m.id
               \/ \E y \in R : /\ y.id = m.id /\ r.id = m.id
                                /\ r = [y EXCEPT !.leaves = LeavesAfterFill(st, y, m)]
      BY <2>2, <2>3
  <2>5. \A y, z \in R : y.id = z.id => y = z
      BY <2>1 DEF UniqueRows
  <2> SUFFICES ASSUME NEW r \in Handled(st, m).resting, NEW x \in Handled(st, m).resting,
                      r.id = x.id
               PROVE  r = x
      BY DEF UniqueRows
  <2>6. CASE r.id # m.id
      BY <2>4, <2>5, <2>6
  <2>7. CASE r.id = m.id
    <3>1. PICK y \in R : y.id = m.id /\ r = [y EXCEPT !.leaves = LeavesAfterFill(st, y, m)]
        BY <2>4, <2>7
    <3>2. PICK z \in R : z.id = m.id /\ x = [z EXCEPT !.leaves = LeavesAfterFill(st, z, m)]
        BY <2>4, <2>7
    <3>3. y = z
        BY <2>5, <3>1, <3>2
    <3> QED
        BY <3>1, <3>2, <3>3
  <2> QED
      BY <2>6, <2>7
<1> QED
    BY <1>1, <1>2, <1>3, <1>4, <1>5, RequestTypes

Sound(st) == IsFiniteSet(st.info) /\ IsFiniteSet(st.resting) /\ UniqueRows(st.resting)

\* The same for all of a pipe.
LEMMA AppliedType ==
    ASSUME NEW O, NEW A, NEW st \in Store(O, A), NEW ms \in Seq(RequestTo(O, A)),
           NEW k \in 0..Len(ms)
    PROVE  /\ Applied(st, ms, k) \in Store(O, A)
           /\ Applied(st, ms, k).kind = st.kind
           /\ Sound(st) => Sound(Applied(st, ms, k))
<1> DEFINE P(x) == /\ x \in Store(O, A)
                   /\ x.kind = st.kind
                   /\ Sound(st) => Sound(x)
           N == {n \in Nat : n <= Len(ms) => P(Applied(st, ms, n))}
<1>1. 0 \in N
    BY AppliedRec
<1>2. ASSUME NEW n \in Nat, n \in N
      PROVE  n + 1 \in N
  <2> SUFFICES ASSUME n + 1 <= Len(ms)
               PROVE  P(Applied(st, ms, n + 1))
      BY SMT
  <2>1. ms[n + 1] \in RequestTo(O, A) /\ P(Applied(st, ms, n))
      BY <1>2, SMT
  <2>2. Applied(st, ms, n + 1) = Handled(Applied(st, ms, n), ms[n + 1])
      BY AppliedRec
  <2>3. PICK x : x = Applied(st, ms, n)
      OBVIOUS
  <2>4. P(Handled(x, ms[n + 1]))
    <3>1. P(x)
        BY <2>1, <2>3
    <3>2. Handled(x, ms[n + 1]) \in Store(O, A) /\ Handled(x, ms[n + 1]).kind = x.kind
        BY <2>1, <3>1, HandledType, SMT
    <3>3. Sound(x) => Sound(Handled(x, ms[n + 1]))
        BY <2>1, <3>1, HandledFinite, HandledUnique DEF Sound
    <3> QED
        BY <3>1, <3>2, <3>3
  <2> QED
      BY <2>2, <2>3, <2>4
<1>3. k \in N
  <2> HIDE DEF N
  <2> QED
      BY <1>1, <1>2, NatSetInduction, SMT
<1> QED
    BY <1>3, SMT

-----------------------------------------------------------------------------
(* The fills of one placement, applied by a database helper.               *)

\* What the row r has left when the orders in ids are left with left[id].
LeftOf(r, left, ids) == IF r.id \in ids THEN left[r.id] ELSE r.leaves

FilledRows(R, left, ids) ==
    {[r EXCEPT !.leaves = LeftOf(r, left, ids)] : r \in {x \in R : LeftOf(x, left, ids) > 0}}

\* The remaining quantity a fill report carries.
Reported(m) == IF m.complete THEN 0 ELSE m.remaining

Settles(m, left, ids) == ids = {m.id} /\ Reported(m) = left[m.id]
Reports(ms, left) == \A i \in 1..Len(ms) : Reported(ms[i]) = left[ms[i].id]

\* One fill report replaces what its order has left, or removes it.
LEMMA FillApplies ==
    ASSUME NEW O, NEW A, NEW st \in Store(O, A), st.kind = "database",
           NEW m \in FillRequest, NEW left, NEW ids, Settles(m, left, ids)
    PROVE  ApplyFill(st, m).resting = FilledRows(st.resting, left, ids)
<1>0. ids = {m.id} /\ Reported(m) = left[m.id]
    BY DEF Settles
<1>1. \A r \in st.resting : LeavesAfterFill(st, r, m) = left[m.id]
    BY <1>0 DEF LeavesAfterFill, Reported, Store
<1>2. ApplyFill(st, m).resting
        = {r \in st.resting : r.id # m.id}
            \cup {[r EXCEPT !.leaves = LeavesAfterFill(st, r, m)] :
                    r \in {x \in st.resting : x.id = m.id /\ LeavesAfterFill(st, x, m) > 0}}
    BY DEF ApplyFill, Store
<1>3. \A r \in st.resting : r.leaves > 0 /\ [r EXCEPT !.leaves = r.leaves] = r
    BY SMT DEF Store, Row
<1>4. ASSUME NEW y \in ApplyFill(st, m).resting
      PROVE  y \in FilledRows(st.resting, left, ids)
    BY <1>0, <1>1, <1>2, <1>3, <1>4, SMT DEF FilledRows, LeftOf
<1>5. ASSUME NEW y \in FilledRows(st.resting, left, ids)
      PROVE  y \in ApplyFill(st, m).resting
  <2>1. PICK r \in st.resting : /\ LeftOf(r, left, ids) > 0
                                /\ y = [r EXCEPT !.leaves = LeftOf(r, left, ids)]
      BY <1>5 DEF FilledRows
  <2> QED
      BY <1>0, <1>1, <1>2, <1>3, <2>1 DEF LeftOf
<1> QED
    BY <1>4, <1>5

\* Fills of different orders add up.
LEMMA FilledRowsUnion ==
    ASSUME NEW R \in SUBSET Row, NEW left, NEW I, NEW J
    PROVE  FilledRows(FilledRows(R, left, I), left, J) = FilledRows(R, left, I \cup J)
<1> DEFINE F(r, K) == [r EXCEPT !.leaves = LeftOf(r, left, K)]
<1>1. ASSUME NEW r \in R
      PROVE  /\ F(r, I).id = r.id
             /\ LeftOf(F(r, I), left, J) = LeftOf(r, left, I \cup J)
             /\ F(F(r, I), J) = F(r, I \cup J)
             /\ LeftOf(r, left, I \cup J) > 0 => LeftOf(r, left, I) > 0 \/ r.id \in J
    BY DEF Row, LeftOf
<1>2. ASSUME NEW r \in R, LeftOf(r, left, I \cup J) > 0
      PROVE  LeftOf(r, left, I) > 0
    BY <1>2, SMT DEF Row, LeftOf
<1>3. ASSUME NEW y \in FilledRows(FilledRows(R, left, I), left, J)
      PROVE  y \in FilledRows(R, left, I \cup J)
  <2>1. PICK x \in FilledRows(R, left, I) : LeftOf(x, left, J) > 0 /\ y = F(x, J)
      BY <1>3 DEF FilledRows
  <2>2. PICK r \in R : LeftOf(r, left, I) > 0 /\ x = F(r, I)
      BY <2>1 DEF FilledRows
  <2>3. LeftOf(r, left, I \cup J) > 0 /\ y = F(r, I \cup J)
    <3> HIDE DEF F
    <3> QED
        BY <1>1, <2>1, <2>2
  <2> QED
      BY <2>3 DEF FilledRows
<1>4. ASSUME NEW y \in FilledRows(R, left, I \cup J)
      PROVE  y \in FilledRows(FilledRows(R, left, I), left, J)
  <2>1. PICK r \in R : LeftOf(r, left, I \cup J) > 0 /\ y = F(r, I \cup J)
      BY <1>4 DEF FilledRows
  <2>2. LeftOf(r, left, I) > 0
      BY <1>2, <2>1
  <2>3. F(r, I) \in FilledRows(R, left, I)
      BY <2>2 DEF FilledRows
  <2>4. LeftOf(F(r, I), left, J) > 0 /\ y = F(F(r, I), J)
    <3> HIDE DEF F
    <3> QED
        BY <1>1, <2>1
  <2>5. PICK x : x = F(r, I)
      OBVIOUS
  <2>6. x \in FilledRows(R, left, I) /\ LeftOf(x, left, J) > 0 /\ y = F(x, J)
      BY <2>3, <2>4, <2>5
  <2> QED
      BY <2>6 DEF FilledRows
<1> QED
    BY <1>3, <1>4

\* The orders a run of requests names.
Named(ms) == {ms[i].id : i \in 1..Len(ms)}

\* A run of fill reports leaves every order named in it with what the reports
\* say, and takes out those left with nothing.
LEMMA FillsApply ==
    ASSUME NEW O, NEW A, NEW st \in Store(O, A), st.kind = "database",
           NEW ms \in Seq(FillRequest), NEW left,
           Reports(ms, left)
    PROVE  Applied(st, ms, Len(ms)).resting = FilledRows(st.resting, left, Named(ms))
<1> DEFINE Ids(n) == {ms[i].id : i \in 1..n}
           N == {n \in Nat : n <= Len(ms) =>
                    Applied(st, ms, n).resting = FilledRows(st.resting, left, Ids(n))}
<1>0. ms \in Seq(RequestTo(O, A)) /\ Len(ms) \in Nat
    BY SMT DEF RequestTo
<1>1. 0 \in N
  <2>1. Applied(st, ms, 0) = st /\ Ids(0) = {}
      BY AppliedRec, SMT
  <2>2. \A r \in st.resting : r.leaves > 0 /\ [r EXCEPT !.leaves = r.leaves] = r
      BY SMT DEF Store, Row
  <2>3. FilledRows(st.resting, left, {}) = st.resting
      BY <2>2 DEF FilledRows, LeftOf
  <2> QED
      BY <2>1, <2>3
<1>2. ASSUME NEW n \in Nat, n \in N
      PROVE  n + 1 \in N
  <2> SUFFICES ASSUME n + 1 <= Len(ms)
               PROVE  Applied(st, ms, n + 1).resting = FilledRows(st.resting, left, Ids(n + 1))
      BY SMT
  <2>1. PICK x : x = Applied(st, ms, n)
      OBVIOUS
  <2>2. x \in Store(O, A) /\ x.kind = "database"
      BY <1>0, <2>1, AppliedType, SMT
  <2>3. PICK m \in FillRequest : m = ms[n + 1]
      BY SMT
  <2>4. m \in RequestTo(O, A) /\ m.type = "fill" /\ Reported(m) = left[m.id]
      BY <2>3, SMT DEF RequestTo, FillRequest, Reports
  <2>5. Applied(st, ms, n + 1) = ApplyFill(x, m)
    <3>1. Applied(st, ms, n + 1) = Handled(Applied(st, ms, n), ms[n + 1])
        BY AppliedRec
    <3>2. Handled(x, m) = ApplyFill(x, m)
        BY <2>2, <2>4, HandledRows, SMT
    <3> QED
        BY <2>1, <2>3, <3>1, <3>2
  <2>6. Applied(st, ms, n + 1).resting = FilledRows(x.resting, left, {m.id})
    <3>1. PICK ids : ids = {m.id} /\ Settles(m, left, ids)
        BY <2>4 DEF Settles
    <3>2. ApplyFill(x, m).resting = FilledRows(x.resting, left, ids)
        BY <2>2, <3>1, FillApplies, SMT
    <3> QED
        BY <2>5, <3>1, <3>2
  <2>7. x.resting = FilledRows(st.resting, left, Ids(n))
      BY <1>2, <2>1, SMT
  <2>8. st.resting \in SUBSET Row
      BY DEF Store
  <2>9. FilledRows(x.resting, left, {m.id}) = FilledRows(st.resting, left, Ids(n) \cup {m.id})
      BY <2>7, <2>8, FilledRowsUnion, SMT
  <2>10. Ids(n + 1) = Ids(n) \cup {m.id}
      BY <2>3, SMT
  <2> QED
      BY <2>6, <2>9, <2>10
<1>3. Len(ms) \in N
  <2> HIDE DEF N
  <2> QED
      BY <1>0, <1>1, <1>2, NatSetInduction
<1> QED
    BY <1>0, <1>3, SMT DEF Named

-----------------------------------------------------------------------------
(* What a pull of levels answers.                                          *)

\* The first of two prices is the better one exactly if it is higher on the
\* buy side and lower on the sell side.
LEMMA BestOfTwo ==
    ASSUME NEW side \in Side, NEW p \in Int, NEW q \in Int
    PROVE  BestOf(side, {p, q}) = p <=> (p = q \/ BetterPrice(side, p, q))
    BY MaxMinOfTwo, SMT DEF BestOf, BetterPrice, Side

\* The rows of a store are totally ordered by price, rank and id.
LEMMA PriceThenSeqIsOrder ==
    ASSUME NEW side \in Side, NEW S \in SUBSET Row, UniqueRows(S)
    PROVE  IsOrder(PriceThenSeq(side, S), S)
<1>1. \A r, x \in S : <<r, x>> \in PriceThenSeq(side, S) <=>
                         \/ BetterPrice(side, r.price, x.price)
                         \/ r.price = x.price /\ r.seq < x.seq
                         \/ r.price = x.price /\ r.seq = x.seq /\ r.id < x.id
  <2> SUFFICES ASSUME NEW r \in S, NEW x \in S
               PROVE  <<r, x>> \in PriceThenSeq(side, S) <=>
                         \/ BetterPrice(side, r.price, x.price)
                         \/ r.price = x.price /\ r.seq < x.seq
                         \/ r.price = x.price /\ r.seq = x.seq /\ r.id < x.id
      OBVIOUS
  <2>1. r.price \in Int /\ x.price \in Int
      BY SMT DEF Row
  <2>2. BestOf(side, {r.price, x.price}) = r.price
          <=> (r.price = x.price \/ BetterPrice(side, r.price, x.price))
      BY <2>1, BestOfTwo
  <2>3. BetterPrice(side, r.price, x.price) => r.price # x.price
      BY <2>1, SMT DEF BetterPrice
  <2> QED
      BY <2>2, <2>3 DEF PriceThenSeq
<1>2. \A r \in S : r.price \in Int /\ r.seq \in Int /\ r.id \in Int
    BY SMT DEF Row
<1>3. \A r, x \in S : r.id = x.id => r = x
    BY DEF UniqueRows
<1> QED
    BY <1>1, <1>2, <1>3, SMT DEF IsOrder, BetterPrice

\* A pull lists rows of the store on the side it asks for, none twice.
LEMMA PulledLevelsList ==
    ASSUME NEW st, st.resting \in SUBSET Row, IsFiniteSet(st.resting),
           UniqueRows(st.resting),
           NEW m, m.side \in Side
    PROVE  /\ PulledLevels(st, m) \in Seq(Row)
           /\ \A i \in DOMAIN PulledLevels(st, m) :
                 PulledLevels(st, m)[i] \in st.resting /\ PulledLevels(st, m)[i].side = m.side
           /\ \A i, j \in DOMAIN PulledLevels(st, m) :
                 PulledLevels(st, m)[i] = PulledLevels(st, m)[j] => i = j
<1> DEFINE S == PulledOrders(st, m)
           q == PulledLevels(st, m)
<1>1. S \in SUBSET st.resting /\ \A r \in S : r.side = m.side
    BY DEF PulledOrders
<1>2. IsFiniteSet(S) /\ S \in SUBSET Row /\ UniqueRows(S)
    BY <1>1, FS_Subset DEF UniqueRows
<1>3. IsOrder(PriceThenSeq(m.side, S), S)
  <2> HIDE DEF S
  <2> QED
      BY <1>2, PriceThenSeqIsOrder
<1>4. q \in Bijection(1..Cardinality(S), S)
  <2>1. q = Ranked(S, PriceThenSeq(m.side, S))
      BY DEF PulledLevels
  <2> HIDE DEF S, q
  <2> QED
      BY <1>2, <1>3, <2>1, RankedLists
<1>5. Cardinality(S) \in Nat
    BY <1>2, FS_CardinalityType
<1>6. q \in [1..Cardinality(S) -> S] /\ \A i, j \in 1..Cardinality(S) : q[i] = q[j] => i = j
    BY <1>4 DEF Bijection, Injection, IsInjective
<1>7. q \in Seq(Row)
  <2>1. q \in Seq(S)
      BY <1>5, <1>6, SMT
  <2> QED
      BY <1>2, <2>1, SMT
<1> HIDE DEF S, q
<1> QED
    BY <1>1, <1>6, <1>7 DEF q

-----------------------------------------------------------------------------
(* The fills of a match.                                                   *)

LeavesAreNat(book) == \A i \in DOMAIN book : book[i].leaves \in Nat

\* A maker trades no more than it has, and the taker no more than it wants.
LEMMA FillAtBounds ==
    ASSUME NEW R, NEW book \in Seq(R), LeavesAreNat(book),
           NEW o, o.qty \in Nat
    PROVE  /\ \A i \in DOMAIN book :
                 FillAt(book, o, i) \in Nat /\ FillAt(book, o, i) <= book[i].leaves
           /\ Filled(book, o) \in Nat /\ Filled(book, o) <= o.qty
<1> DEFINE f == [i \in DOMAIN book |-> book[i].leaves]
<1>1. DOMAIN book = 1..Len(book) /\ Len(book) \in Nat
    BY SMT
<1>2. IsFiniteSet(DOMAIN book) /\ NatOn(f, DOMAIN book)
  <2>1. IsFiniteSet(1..Len(book))
      BY <1>1, FS_Interval, SMT
  <2> QED
      BY <1>1, <2>1 DEF NatOn, LeavesAreNat
<1>3. \A S \in SUBSET DOMAIN book : LeavesOf(book, S) \in Nat
  <2> SUFFICES ASSUME NEW S \in SUBSET DOMAIN book PROVE LeavesOf(book, S) \in Nat
      OBVIOUS
  <2>1. LeavesOf(book, S) = SumFunctionOnSet(f, S)
      BY DEF LeavesOf
  <2> HIDE DEF f
  <2> QED
      BY <1>2, <2>1, SumSubset
<1>4. Makers(book, o) \in SUBSET DOMAIN book
    BY DEF Makers
<1>5. ASSUME NEW i \in DOMAIN book
      PROVE  FillAt(book, o, i) \in Nat /\ FillAt(book, o, i) <= book[i].leaves
  <2> DEFINE ahead == {j \in Makers(book, o) : Precedes(book, j, i)}
             left == Max({0, o.qty - LeavesOf(book, ahead)})
  <2>1. CASE i \notin Makers(book, o)
    <3>1. FillAt(book, o, i) = 0
        BY <2>1 DEF FillAt
    <3> QED
        BY <3>1, SMT DEF LeavesAreNat
  <2>2. CASE i \in Makers(book, o)
    <3>1. LeavesOf(book, ahead) \in Nat
        BY <1>3, <1>4
    <3>2. FillAt(book, o, i) = Min({book[i].leaves, left})
        BY <2>2 DEF FillAt
    <3>3. left \in Nat
      <4> HIDE DEF ahead
      <4> QED
          BY <3>1, MaxMinOfTwo, SMT
    <3> HIDE DEF left
    <3>4. PICK a \in Int, b \in Int : a = book[i].leaves /\ b = left
        BY <3>3, SMT DEF LeavesAreNat
    <3>5. Min({a, b}) = IF a <= b THEN a ELSE b
        BY MaxMinOfTwo
    <3> QED
        BY <3>2, <3>3, <3>4, <3>5, SMT DEF LeavesAreNat
  <2> QED
      BY <2>1, <2>2
<1>6. Filled(book, o) \in Nat /\ Filled(book, o) <= o.qty
  <2>1. LeavesOf(book, Makers(book, o)) \in Nat
      BY <1>3, <1>4
  <2>2. PICK total \in Int : total = LeavesOf(book, Makers(book, o))
      BY <2>1, SMT
  <2>3. PICK qty \in Int : qty = o.qty
      BY SMT
  <2>4. Min({qty, total}) = IF qty <= total THEN qty ELSE total
      BY MaxMinOfTwo
  <2> QED
      BY <2>1, <2>2, <2>3, <2>4, SMT DEF Filled
<1> QED
    BY <1>5, <1>6

-----------------------------------------------------------------------------
(* What is in a book.                                                      *)

Resident(accounts) ==
    [id : Nat, owner : accounts, side : Side, price : Nat \ {0}, leaves : Nat \ {0},
     rank : Nat]

DistinctIds(s) == \A i, j \in DOMAIN s : s[i].id = s[j].id => i = j

\* Price-time priority: a maker trades only if every maker ahead of it, by price
\* and then by its place in the queue, trades all it has (match, match_level).
LEMMA FillsByPriority ==
    ASSUME NEW A, NEW book \in Seq(Resident(A)),
           NEW o, o.qty \in Nat, o.side \in Side, o.price \in Nat,
           NEW i \in DOMAIN book, NEW j \in DOMAIN book,
           book[i].side = book[j].side, Precedes(book, i, j), FillAt(book, o, j) > 0
    PROVE  FillAt(book, o, i) = book[i].leaves
<1> DEFINE f == [k \in DOMAIN book |-> book[k].leaves]
           ahead(k) == {n \in Makers(book, o) : Precedes(book, n, k)}
           left(k) == Max({0, o.qty - LeavesOf(book, ahead(k))})
<1>0. /\ \A k \in DOMAIN book : k \in Nat
      /\ \A k \in DOMAIN book : /\ book[k].leaves \in Nat /\ book[k].price \in Nat
                                /\ book[k].side \in Side
  <2>1. \A k \in DOMAIN book : book[k] \in Resident(A) /\ k \in Nat
      BY SMT
  <2>2. \A r \in Resident(A) : r.leaves \in Nat /\ r.price \in Nat /\ r.side \in Side
      BY SMT DEF Resident
  <2> QED
      BY <2>1, <2>2
<1>1. IsFiniteSet(DOMAIN book) /\ NatOn(f, DOMAIN book)
    BY <1>0, FiniteRange DEF NatOn
<1>2. \A S \in SUBSET DOMAIN book : LeavesOf(book, S) = SumFunctionOnSet(f, S)
    BY DEF LeavesOf
<1>3. /\ \A k \in DOMAIN book : ahead(k) \in SUBSET DOMAIN book
      /\ \A k \in Makers(book, o) : FillAt(book, o, k) = Min({book[k].leaves, left(k)})
      /\ \A k : k \notin Makers(book, o) => FillAt(book, o, k) = 0
    BY DEF Makers, FillAt
<1>4. j \in Makers(book, o)
  <2>1. ~(0 > 0)
      BY SMT
  <2> QED
      BY <1>3, <2>1
<1>5. i \in Makers(book, o)
    BY <1>0, <1>4, SMT DEF Makers, Acceptable, Precedes, BetterPrice, Opposite, Side
<1>6. i \notin ahead(i) /\ ahead(i) \cup {i} \subseteq ahead(j)
  <2>1. ~Precedes(book, i, i)
      BY <1>0, SMT DEF Precedes, BetterPrice
  <2>2. ASSUME NEW n \in Makers(book, o), Precedes(book, n, i)
        PROVE  Precedes(book, n, j)
    <3>1. n \in DOMAIN book /\ book[n].side = book[i].side
        BY <1>5 DEF Makers
    <3> QED
        BY <1>0, <2>2, <3>1, SMT DEF Precedes, BetterPrice
  <2> QED
      BY <1>5, <2>1, <2>2
<1>7. /\ LeavesOf(book, ahead(i)) \in Nat /\ LeavesOf(book, ahead(j)) \in Nat
      /\ LeavesOf(book, ahead(i)) + book[i].leaves <= LeavesOf(book, ahead(j))
  <2>1. PICK S, T : S = ahead(i) /\ T = ahead(j)
      OBVIOUS
  <2> HIDE DEF ahead
  <2>2. S \cup {i} \in SUBSET T /\ T \in SUBSET DOMAIN book /\ S \in SUBSET DOMAIN book /\ i \notin S
      BY <1>3, <1>6, <2>1
  <2>3. f[i] = book[i].leaves
      OBVIOUS
  <2> HIDE DEF f
  <2>4. IsFiniteSet(S) /\ IsFiniteSet(T) /\ NatOn(f, T) /\ IntOn(f, S \cup {i})
    <3>1. IsFiniteSet(S) /\ IsFiniteSet(T)
        BY <1>1, <2>2, FS_Subset
    <3>2. NatOn(f, T) /\ \A k \in S \cup {i} : f[k] \in Nat
        BY <1>1, <2>2 DEF NatOn
    <3> QED
        BY <3>1, <3>2, SMT DEF IntOn
  <2>5. SumFunctionOnSet(f, S \cup {i}) = SumFunctionOnSet(f, S) + f[i]
      BY <2>2, <2>4, SumAdd
  <2>6. /\ SumFunctionOnSet(f, S \cup {i}) <= SumFunctionOnSet(f, T)
        /\ SumFunctionOnSet(f, T) \in Nat
      BY <2>2, <2>4, SumSubset
  <2>7. SumFunctionOnSet(f, S) \in Nat
      BY <1>1, <2>2, SumSubset
  <2> QED
      BY <1>2, <2>1, <2>2, <2>3, <2>5, <2>6, <2>7
<1> HIDE DEF ahead
<1>8. PICK a \in Nat, b \in Nat, q \in Nat, l \in Nat, m \in Nat :
         /\ a = LeavesOf(book, ahead(i)) /\ b = LeavesOf(book, ahead(j)) /\ q = o.qty
         /\ l = book[i].leaves /\ m = book[j].leaves
    BY <1>0, <1>7
<1>9. /\ FillAt(book, o, i) = Min({l, Max({0, q - a})})
      /\ FillAt(book, o, j) = Min({m, Max({0, q - b})})
    BY <1>3, <1>4, <1>5, <1>8
<1>10. Max({0, q - a}) = (IF 0 >= q - a THEN 0 ELSE q - a) /\ Max({0, q - b}) = (IF 0 >= q - b THEN 0 ELSE q - b)
    BY MaxMinOfTwo, SMT
<1>11. ASSUME NEW x \in Int, NEW y \in Int PROVE Min({x, y}) = IF x <= y THEN x ELSE y
    BY MaxMinOfTwo
<1>12. a + l <= b
    BY <1>7, <1>8
<1>13. PICK x \in Int, y \in Int : x = Max({0, q - a}) /\ y = Max({0, q - b})
    BY <1>10, SMT
<1>14. /\ FillAt(book, o, i) = IF l <= x THEN l ELSE x
       /\ FillAt(book, o, j) = IF m <= y THEN m ELSE y
  <2>1. l \in Int /\ m \in Int
      BY SMT
  <2> QED
      BY <1>9, <1>11, <1>13, <2>1
<1>15. y > 0
    BY <1>13, <1>14, SMT
<1>16. x = (IF 0 >= q - a THEN 0 ELSE q - a) /\ y = (IF 0 >= q - b THEN 0 ELSE q - b)
    BY <1>10, <1>13
<1>17. l <= x
    BY <1>12, <1>15, <1>16, SMT
<1> QED
    BY <1>8, <1>14, <1>17

\* KeepAt keeps the entries it is to keep and no other; distinct ids stay so.
LEMMA KeepAtEntries ==
    ASSUME NEW T, NEW s \in Seq(T), NEW K \in SUBSET DOMAIN s
    PROVE  /\ KeepAt(s, K) \in Seq(T)
           /\ \A n \in DOMAIN KeepAt(s, K) : \E i \in K : KeepAt(s, K)[n] = s[i]
           /\ \A i \in K : \E n \in DOMAIN KeepAt(s, K) : KeepAt(s, K)[n] = s[i]
           /\ DistinctIds(s) => DistinctIds(KeepAt(s, K))
<1>1. PICK q, e : q = KeepAt(s, K) /\ e = Ascending(K)
    OBVIOUS
<1>2. /\ q \in Seq(T)
      /\ e \in Bijection(DOMAIN q, K)
      /\ \A n \in DOMAIN q : q[n] = s[e[n]]
    BY <1>1, KeepAtKeeps, SMT
<1>3. /\ \A n \in DOMAIN q : e[n] \in K
      /\ \A n, m \in DOMAIN q : e[n] = e[m] => n = m
      /\ \A i \in K : \E n \in DOMAIN q : e[n] = i
    BY <1>2 DEF Bijection, Injection, Surjection, IsInjective
<1>4. DistinctIds(s) => DistinctIds(q)
    BY <1>2, <1>3, SMT DEF DistinctIds
<1> QED
    BY <1>1, <1>2, <1>3, <1>4, SMT

\* The queue: later entries rested later.
RanksAscend(s) == \A i, j \in DOMAIN s : i < j => s[i].rank < s[j].rank

\* What KeepAt keeps stays in order.
LEMMA KeepAtInOrder ==
    ASSUME NEW T, NEW s \in Seq(T), NEW K \in SUBSET DOMAIN s, RanksAscend(s)
    PROVE  RanksAscend(KeepAt(s, K))
<1>1. PICK q, e : q = KeepAt(s, K) /\ e = Ascending(K)
    OBVIOUS
<1>2. /\ e \in Bijection(DOMAIN q, K)
      /\ \A m, n \in DOMAIN q : m < n <=> e[m] < e[n]
      /\ \A n \in DOMAIN q : q[n] = s[e[n]]
    BY <1>1, KeepAtKeeps, SMT
<1>3. \A n \in DOMAIN q : e[n] \in DOMAIN s
    BY <1>2 DEF Bijection, Injection
<1>4. ASSUME NEW m \in DOMAIN q, NEW n \in DOMAIN q, m < n PROVE q[m].rank < q[n].rank
  <2>1. s[e[m]].rank < s[e[n]].rank
      BY <1>2, <1>3, <1>4 DEF RanksAscend
  <2> QED
      BY <1>2, <2>1
<1> QED
    BY <1>1, <1>4 DEF RanksAscend

\* A cancel takes out the orders with that id.
LEMMA WithoutOrderEntries ==
    ASSUME NEW T, NEW book \in Seq(T), NEW id
    PROVE  /\ WithoutOrder(book, id) \in Seq(T)
           /\ \A n \in DOMAIN WithoutOrder(book, id) : \E i \in DOMAIN book :
                 WithoutOrder(book, id)[n] = book[i] /\ book[i].id # id
           /\ \A i \in DOMAIN book : book[i].id # id =>
                 \E n \in DOMAIN WithoutOrder(book, id) : WithoutOrder(book, id)[n] = book[i]
           /\ DistinctIds(book) => DistinctIds(WithoutOrder(book, id))
<1>1. PICK K : K = {i \in DOMAIN book : book[i].id # id}
    OBVIOUS
<1>2. K \in SUBSET DOMAIN book /\ WithoutOrder(book, id) = KeepAt(book, K)
    BY <1>1 DEF WithoutOrder
<1>3. \A i : i \in K <=> i \in DOMAIN book /\ book[i].id # id
    BY <1>1
<1> QED
    BY <1>2, <1>3, KeepAtEntries, SMT

\* The makers that are not filled in full stay, with what they have left.
LEMMA AfterMatchEntries ==
    ASSUME NEW A, NEW book \in Seq(Resident(A)), NEW o, o.qty \in Nat
    PROVE  /\ AfterMatch(book, o) \in Seq(Resident(A))
           /\ \A n \in DOMAIN AfterMatch(book, o) : \E i \in DOMAIN book :
                 /\ FillAt(book, o, i) < book[i].leaves
                 /\ AfterMatch(book, o)[n]
                      = [book[i] EXCEPT !.leaves = book[i].leaves - FillAt(book, o, i)]
           /\ \A i \in DOMAIN book : FillAt(book, o, i) < book[i].leaves =>
                 \E n \in DOMAIN AfterMatch(book, o) :
                    AfterMatch(book, o)[n]
                      = [book[i] EXCEPT !.leaves = book[i].leaves - FillAt(book, o, i)]
           /\ DistinctIds(book) => DistinctIds(AfterMatch(book, o))
<1> DEFINE left(i) == [book[i] EXCEPT !.leaves = book[i].leaves - FillAt(book, o, i)]
           T == [id : Nat, owner : A, side : Side, price : Nat \ {0}, leaves : Nat, rank : Nat]
<1>0. LeavesAreNat(book)
  <2> SUFFICES ASSUME NEW i \in DOMAIN book PROVE book[i].leaves \in Nat
      BY DEF LeavesAreNat
  <2>1. book[i] \in Resident(A)
      BY SMT
  <2> QED
      BY <2>1 DEF Resident
<1>1. \A i \in DOMAIN book : FillAt(book, o, i) \in Nat /\ FillAt(book, o, i) <= book[i].leaves
    BY <1>0, FillAtBounds
<1>2. ASSUME NEW i \in DOMAIN book
      PROVE  /\ left(i) \in T /\ left(i).id = book[i].id
             /\ FillAt(book, o, i) < book[i].leaves => left(i) \in Resident(A)
  <2>1. PICK f \in Nat : f = FillAt(book, o, i) /\ f <= book[i].leaves
      BY <1>1
  <2>2. PICK r \in Resident(A) : r = book[i]
      BY SMT
  <2>3. left(i) = [r EXCEPT !.leaves = r.leaves - f]
      BY <2>1, <2>2
  <2>4. r.leaves - f \in Nat /\ (f < r.leaves => r.leaves - f \in Nat \ {0})
    <3>1. PICK l \in Nat : l = r.leaves /\ f <= l
        BY <2>1, <2>2 DEF Resident
    <3>2. l - f \in Nat /\ (f < l => l - f \in Nat \ {0})
        BY <3>1, SMT
    <3> QED
        BY <3>1, <3>2
  <2>5. /\ [r EXCEPT !.leaves = r.leaves - f] \in T
        /\ [r EXCEPT !.leaves = r.leaves - f].id = r.id
        /\ f < r.leaves => [r EXCEPT !.leaves = r.leaves - f] \in Resident(A)
      BY <2>4 DEF Resident
  <2> HIDE DEF left, T
  <2> QED
      BY <2>1, <2>2, <2>3, <2>5
<1>3. PICK s, K : /\ s = [i \in DOMAIN book |-> left(i)]
                  /\ K = {i \in DOMAIN book : FillAt(book, o, i) < book[i].leaves}
    OBVIOUS
<1>4. AfterMatch(book, o) = KeepAt(s, K)
    BY <1>3 DEF AfterMatch
<1>5. s \in Seq(T) /\ K \in SUBSET DOMAIN s /\ DOMAIN s = DOMAIN book
  <2>1. DOMAIN book = 1..Len(book) /\ Len(book) \in Nat
      BY SMT
  <2>2. s \in [1..Len(book) -> T]
      BY <1>2, <1>3, <2>1
  <2> QED
      BY <1>3, <2>1, <2>2, SMT
<1>6. /\ \A i \in DOMAIN book : s[i] = left(i)
      /\ \A i \in K : FillAt(book, o, i) < book[i].leaves
      /\ \A i \in DOMAIN book : FillAt(book, o, i) < book[i].leaves => i \in K
    BY <1>3
<1> HIDE DEF left, T
<1>7. PICK q : q = AfterMatch(book, o)
    OBVIOUS
<1>8. /\ q \in Seq(T)
      /\ \A n \in DOMAIN q : \E i \in K : q[n] = s[i]
      /\ \A i \in K : \E n \in DOMAIN q : q[n] = s[i]
      /\ DistinctIds(s) => DistinctIds(q)
    BY <1>4, <1>5, <1>7, KeepAtEntries, SMT
<1>9. DistinctIds(book) => DistinctIds(s)
    BY <1>2, <1>5, <1>6 DEF DistinctIds
<1>10. \A n \in DOMAIN q : q[n] \in Resident(A)
    BY <1>2, <1>5, <1>6, <1>8, SMT
<1>11. q \in Seq(Resident(A))
    BY <1>8, <1>10, SMT
<1>12. /\ \A n \in DOMAIN q : \E i \in DOMAIN book :
             FillAt(book, o, i) < book[i].leaves /\ q[n] = left(i)
       /\ \A i \in DOMAIN book : FillAt(book, o, i) < book[i].leaves =>
             \E n \in DOMAIN q : q[n] = left(i)
    BY <1>5, <1>6, <1>8, SMT
<1> QED
    BY <1>7, <1>8, <1>9, <1>11, <1>12, SMT DEF left

\* Cancels and matches leave the queue in order.
LEMMA BookStaysInOrder ==
    ASSUME NEW A, NEW book \in Seq(Resident(A)), RanksAscend(book)
    PROVE  /\ \A id : RanksAscend(WithoutOrder(book, id))
           /\ \A o : RanksAscend(AfterMatch(book, o))
<1>1. ASSUME NEW id PROVE RanksAscend(WithoutOrder(book, id))
  <2>1. PICK K \in SUBSET DOMAIN book : WithoutOrder(book, id) = KeepAt(book, K)
      BY DEF WithoutOrder
  <2> QED
      BY <2>1, KeepAtInOrder
<1>2. ASSUME NEW o PROVE RanksAscend(AfterMatch(book, o))
  <2>1. PICK s, K : /\ s = [i \in DOMAIN book |->
                               [book[i] EXCEPT !.leaves = book[i].leaves - FillAt(book, o, i)]]
                    /\ K = {i \in DOMAIN book : FillAt(book, o, i) < book[i].leaves}
      OBVIOUS
  <2>2. AfterMatch(book, o) = KeepAt(s, K) /\ K \in SUBSET DOMAIN s
      BY <2>1 DEF AfterMatch
  <2>3. PICK T : s \in Seq(T)
    <3>1. PICK n \in Nat : DOMAIN book = 1..n
        BY SMT
    <3>2. PICK T : T = {s[i] : i \in DOMAIN book}
        OBVIOUS
    <3>3. s \in [1..n -> T]
        BY <2>1, <3>1, <3>2
    <3>4. \A U, f : f \in [1..n -> U] => f \in Seq(U)
        BY SMT
    <3> QED
        BY <3>3, <3>4
  <2>4. \A i \in DOMAIN s : s[i].rank = book[i].rank
    <3>1. \A i \in DOMAIN book : book[i] \in Resident(A)
        BY SMT
    <3>2. \A r \in Resident(A) : \A x : [r EXCEPT !.leaves = x].rank = r.rank
        BY DEF Resident
    <3> QED
        BY <2>1, <3>1, <3>2
  <2>5. DOMAIN s = DOMAIN book
      BY <2>1
  <2>6. RanksAscend(s)
      BY <2>4, <2>5 DEF RanksAscend
  <2> QED
      BY <2>2, <2>3, <2>6, KeepAtInOrder
<1> QED
    BY <1>1, <1>2

\* An order that rests joins the book or not, and pushes out at most some of
\* the others.
LEMMA AfterRestEntries ==
    ASSUME NEW T, NEW book \in Seq(T), NEW r \in T, NEW mem
    PROVE  /\ AfterRest(book, r, mem) \in Seq(T)
           /\ \A n \in DOMAIN AfterRest(book, r, mem) :
                 \/ AfterRest(book, r, mem)[n] = r
                 \/ \E i \in DOMAIN book : AfterRest(book, r, mem)[n] = book[i]
           /\ DistinctIds(book) /\ r.id \notin IdsOf(book) =>
                 DistinctIds(AfterRest(book, r, mem))
<1>1. PICK b : b = Append(book, r)
    OBVIOUS
<1>2. /\ b \in Seq(T)
      /\ \A n \in DOMAIN b : b[n] = r \/ \E i \in DOMAIN book : b[n] = book[i]
    BY <1>1, SMT
<1>3. DistinctIds(book) /\ r.id \notin IdsOf(book) => DistinctIds(b)
    BY <1>1, SMT DEF DistinctIds, IdsOf
<1>4. CASE RestsDeep(book, r, mem)
    BY <1>4 DEF AfterRest
<1>5. CASE ~RestsDeep(book, r, mem) /\ Evicts(book, r, mem)
  <2>1. PICK K : K = {i \in DOMAIN b : b[i].side # r.side \/ b[i].price # WorstPrice(b, r.side)}
      OBVIOUS
  <2>2. K \in SUBSET DOMAIN b
      BY <2>1
  <2>3. AfterRest(book, r, mem) = KeepAt(b, K)
      BY <1>1, <1>5, <2>1 DEF AfterRest, WithoutWorst
  <2> QED
      BY <1>2, <1>3, <2>2, <2>3, KeepAtEntries, SMT
<1>6. CASE ~RestsDeep(book, r, mem) /\ ~Evicts(book, r, mem)
    BY <1>1, <1>2, <1>3, <1>6 DEF AfterRest
<1> QED
    BY <1>4, <1>5, <1>6

-----------------------------------------------------------------------------
(* The prices in a book.                                                   *)

\* The worst level of a side is a level of it, and no level is beyond it.
LEMMA WorstPriceIsWorst ==
    ASSUME NEW A, NEW book \in Seq(Resident(A)), NEW side \in Side, Levels(book, side) # {}
    PROVE  /\ Levels(book, side) \subseteq Nat \ {0}
           /\ WorstPrice(book, side) \in Levels(book, side)
           /\ \A p \in Levels(book, side) : ~BetterPrice(side, WorstPrice(book, side), p)
<1> DEFINE D == {j \in DOMAIN book : book[j].side = side}
           f == [i \in DOMAIN book |-> book[i].price]
           L == {f[i] : i \in D}
<1>1. Levels(book, side) = L
    BY DEF Levels
<1>2. IsFiniteSet(L)
  <2>1. IsFiniteSet(D)
      BY FiniteRange, FS_Subset
  <2> HIDE DEF D, f
  <2> QED
      BY <2>1, FiniteImage
<1>3. L \subseteq Nat \ {0}
  <2> SUFFICES ASSUME NEW i \in DOMAIN book PROVE book[i].price \in Nat \ {0}
      OBVIOUS
  <2>1. book[i] \in Resident(A)
      BY SMT
  <2> QED
      BY <2>1 DEF Resident
<1> HIDE DEF L
<1>4. L # {} /\ L \subseteq Int
    BY <1>1, <1>3, SMT
<1>5. /\ Max(L) \in L /\ \A x \in L : x <= Max(L)
      /\ Min(L) \in L /\ \A x \in L : Min(L) <= x
    BY <1>2, <1>4, MaxIsLargest, MinIsSmallest
<1>6. WorstPrice(book, side) = IF side = "buy" THEN Min(L) ELSE Max(L)
    BY <1>1 DEF WorstPrice
<1>7. PICK w : w = WorstPrice(book, side)
    OBVIOUS
<1>8. w \in L /\ \A p \in L : ~BetterPrice(side, w, p)
  <2>1. CASE side = "buy"
    <3>1. w \in L /\ \A p \in L : w <= p
        BY <1>5, <1>6, <1>7, <2>1
    <3> QED
        BY <1>4, <2>1, <3>1, SMT DEF BetterPrice
  <2>2. CASE side # "buy"
    <3>1. w \in L /\ \A p \in L : p <= w
        BY <1>5, <1>6, <1>7, <2>2
    <3> QED
        BY <1>4, <2>2, <3>1, SMT DEF BetterPrice
  <2> QED
      BY <2>1, <2>2
<1> QED
    BY <1>1, <1>3, <1>7, <1>8

-----------------------------------------------------------------------------
(* What requests do to the ids a store knows.                              *)

Ids(S) == {x.id : x \in S}

\* Only report_order adds to the orders a store knows and only report_rest to
\* the ones that rest; no order is forgotten.
LEMMA HandledIds ==
    ASSUME NEW O, NEW A, NEW st \in Store(O, A), NEW m \in RequestTo(O, A)
    PROVE  /\ m.type = "order" => Ids(Handled(st, m).info) = Ids(st.info) \cup {m.id}
           /\ m.type # "order" => Handled(st, m).info = st.info
           /\ m.type = "rest" => Ids(Handled(st, m).resting) \subseteq Ids(st.resting) \cup {m.id}
           /\ m.type # "rest" => Ids(Handled(st, m).resting) \subseteq Ids(st.resting)
           /\ m.type \in {"order", "position", "levels"} => Handled(st, m).resting = st.resting
<1>0. st \in [kind : {"reference", "database"}, info : SUBSET [id : Nat, owner : A, side : Side],
              resting : SUBSET Row, net : [O -> Int]]
    BY DEF Store
<1>r. /\ IsRead(m) => Handled(st, m) = st
      /\ m.type = "order" => Handled(st, m) = ApplyOrder(st, m)
      /\ m.type = "rest" => Handled(st, m) = ApplyRest(st, m)
      /\ m.type = "cancel" => Handled(st, m) = ApplyCancel(st, m)
      /\ m.type = "fill" => Handled(st, m) = ApplyFill(st, m)
    BY HandledRows, SMTT(30)
<1>1. CASE IsRead(m)
    BY <1>1, HandledRows, SMTT(30) DEF IsRead
<1>2. CASE m.type = "order"
  <2>1. Handled(st, m) = ApplyOrder(st, m)
      BY <1>2, <1>r
  <2>2. /\ Handled(st, m).info
             = {i \in st.info : i.id # m.id} \cup {[id |-> m.id, owner |-> m.owner, side |-> m.side]}
        /\ Handled(st, m).resting = st.resting
      BY <1>0, <2>1 DEF ApplyOrder
  <2>3. Ids(Handled(st, m).info) = Ids(st.info) \cup {m.id}
    <3>1. PICK x : x = [id |-> m.id, owner |-> m.owner, side |-> m.side]
        OBVIOUS
    <3>2. x.id = m.id /\ Handled(st, m).info = {i \in st.info : i.id # m.id} \cup {x}
        BY <2>2, <3>1
    <3> QED
        BY <3>2 DEF Ids
  <2> QED
      BY <1>2, <2>2, <2>3
<1>3. CASE m.type = "rest"
  <2>1. Handled(st, m) = ApplyRest(st, m)
      BY <1>3, <1>r
  <2>2. /\ Handled(st, m).info = st.info
        /\ Handled(st, m).resting
             = {r \in st.resting : r.id # m.id}
                 \cup {[id |-> m.id, side |-> m.side, price |-> m.price,
                        leaves |-> m.leaves, seq |-> m.seq]}
      BY <1>0, <2>1 DEF ApplyRest
  <2>3. \A r \in Handled(st, m).resting : r \in st.resting \/ r.id = m.id
      BY <2>2, SMT
  <2>4. Ids(Handled(st, m).resting) \subseteq Ids(st.resting) \cup {m.id}
      BY <2>3 DEF Ids
  <2> QED
      BY <1>3, <2>2, <2>4
<1>4. CASE m.type = "cancel"
  <2>1. Handled(st, m) = ApplyCancel(st, m)
      BY <1>4, <1>r
  <2>2. /\ Handled(st, m).info = st.info
        /\ Handled(st, m).resting = {r \in st.resting : r.id # m.id}
      BY <1>0, <2>1 DEF ApplyCancel
  <2>3. Ids(Handled(st, m).resting) \subseteq Ids(st.resting)
      BY <2>2 DEF Ids
  <2> QED
      BY <1>4, <2>2, <2>3
<1>5. CASE m.type = "fill"
  <2>1. Handled(st, m) = ApplyFill(st, m)
      BY <1>5, <1>r
  <2>2. PICK R \in SUBSET Row : R = st.resting
      BY <1>0
  <2>3. /\ Handled(st, m).info = st.info
        /\ Handled(st, m).resting
             = {r \in R : r.id # m.id}
                 \cup {[r EXCEPT !.leaves = LeavesAfterFill(st, r, m)] :
                         r \in {x \in R : x.id = m.id /\ LeavesAfterFill(st, x, m) > 0}}
      BY <1>0, <2>1, <2>2 DEF ApplyFill
  <2>4. \A r \in R : [r EXCEPT !.leaves = LeavesAfterFill(st, r, m)].id = r.id
      BY DEF Row
  <2>5. \A r \in Handled(st, m).resting : \E x \in R : r.id = x.id
      BY <2>3, <2>4
  <2>6. Ids(Handled(st, m).resting) \subseteq Ids(R)
      BY <2>5 DEF Ids
  <2> QED
      BY <1>5, <2>2, <2>3, <2>6
<1> QED
    BY <1>1, <1>2, <1>3, <1>4, <1>5, RequestTypes

\* In particular no handler forgets an order.
LEMMA HandledForgetsNothing ==
    ASSUME NEW O, NEW A, NEW st \in Store(O, A), NEW m \in RequestTo(O, A)
    PROVE  Ids(st.info) \subseteq Ids(Handled(st, m).info)
<1>1. \/ Ids(Handled(st, m).info) = Ids(st.info) \cup {m.id}
      \/ Handled(st, m).info = st.info
    BY HandledIds, SMTT(30)
<1> QED
    BY <1>1

\* Requests that leave the resting orders alone.
LeaveRows(ms) == \A i \in 1..Len(ms) : ms[i].type \in {"order", "position", "levels"}

\* Reads, and reports of new orders, leave the resting rows as they are.
LEMMA AppliedKeepsRows ==
    ASSUME NEW O, NEW A, NEW st \in Store(O, A), NEW ms \in Seq(RequestTo(O, A)), LeaveRows(ms),
           NEW k \in 0..Len(ms)
    PROVE  Applied(st, ms, k).resting = st.resting
<1> DEFINE S == {n \in Nat : n <= Len(ms) => Applied(st, ms, n).resting = st.resting}
<1>1. Len(ms) \in Nat
    BY SMT
<1>2. 0 \in S
    BY AppliedRec
<1>3. ASSUME NEW n \in Nat, n \in S PROVE n + 1 \in S
  <2> SUFFICES ASSUME n + 1 <= Len(ms) PROVE Applied(st, ms, n + 1).resting = st.resting
      BY <1>1, SMT
  <2>1. n <= Len(ms) /\ n \in 0..Len(ms) /\ n + 1 \in 1..Len(ms)
      BY <1>1, SMT
  <2>2. PICK x \in Store(O, A) : x = Applied(st, ms, n)
      BY <2>1, AppliedType
  <2>3. ms[n + 1] \in RequestTo(O, A) /\ ms[n + 1].type \in {"order", "position", "levels"}
      BY <2>1, SMT DEF LeaveRows
  <2>4. Applied(st, ms, n + 1) = Handled(x, ms[n + 1])
    <3>1. Applied(st, ms, n + 1) = Handled(Applied(st, ms, n), ms[n + 1])
        BY AppliedRec
    <3> QED
        BY <2>2, <3>1
  <2>5. Handled(x, ms[n + 1]).resting = x.resting
      BY <2>3, HandledIds, SMT
  <2> QED
      BY <1>3, <2>1, <2>2, <2>4, <2>5
<1> HIDE DEF S
<1>4. k \in S
    BY <1>1, <1>2, <1>3, NatSetInduction, SMT
<1> QED
    BY <1>4, SMT DEF S

\* As long as what is reported to rest is known, whatever rests is, at every
\* point of the pipe.
RestsAreKnown(st, ms) == \A i \in 1..Len(ms) : ms[i].type = "rest" => ms[i].id \in Ids(st.info)
KnowsItsRows(st) == Ids(st.resting) \subseteq Ids(st.info)

\* While every order that rests was recorded before, the rows' ids are ids
\* the helper has given.
LEMMA AppliedKnowsItsRows ==
    ASSUME NEW O, NEW A, NEW st \in Store(O, A), NEW ms \in Seq(RequestTo(O, A)),
           KnowsItsRows(st), RestsAreKnown(st, ms), NEW k \in 0..Len(ms)
    PROVE  KnowsItsRows(Applied(st, ms, k))
<1> DEFINE Good(x) == KnowsItsRows(x) /\ Ids(st.info) \subseteq Ids(x.info)
           S == {n \in Nat : n <= Len(ms) => Good(Applied(st, ms, n))}
<1>1. Len(ms) \in Nat
    BY SMT
<1>2. 0 \in S
    BY AppliedRec
<1>3. ASSUME NEW n \in Nat, n \in S PROVE n + 1 \in S
  <2> SUFFICES ASSUME n + 1 <= Len(ms) PROVE Good(Applied(st, ms, n + 1))
      BY <1>1, SMT
  <2>1. n <= Len(ms) /\ n \in 0..Len(ms) /\ n + 1 \in 1..Len(ms)
      BY <1>1, SMT
  <2>2. PICK x \in Store(O, A) : x = Applied(st, ms, n)
      BY <2>1, AppliedType
  <2>3. PICK m \in RequestTo(O, A) : m = ms[n + 1]
      BY <2>1, SMT
  <2>4. m.type = "rest" => m.id \in Ids(st.info)
      BY <2>1, <2>3 DEF RestsAreKnown
  <2>5. Good(x)
      BY <1>3, <2>1, <2>2
  <2>6. Good(Handled(x, m))
    <3>1. Ids(x.info) \subseteq Ids(Handled(x, m).info)
        BY HandledForgetsNothing
    <3>2. Ids(Handled(x, m).resting) \subseteq Ids(x.resting) \cup Ids(st.info)
      <4>1. CASE m.type = "rest"
        <5>1. Ids(Handled(x, m).resting) \subseteq Ids(x.resting) \cup {m.id}
            BY <4>1, HandledIds
        <5> QED
            BY <2>4, <4>1, <5>1
      <4>2. CASE m.type # "rest"
        <5>1. Ids(Handled(x, m).resting) \subseteq Ids(x.resting)
            BY <4>2, HandledIds
        <5> QED
            BY <5>1
      <4> QED
          BY <4>1, <4>2
    <3> QED
        BY <2>5, <3>1, <3>2 DEF KnowsItsRows
  <2>7. Applied(st, ms, n + 1) = Handled(x, m)
    <3>1. Applied(st, ms, n + 1) = Handled(Applied(st, ms, n), ms[n + 1])
        BY AppliedRec
    <3> QED
        BY <2>2, <2>3, <3>1
  <2> QED
      BY <2>6, <2>7
<1> HIDE DEF S
<1>4. k \in S
    BY <1>1, <1>2, <1>3, NatSetInduction, SMT
<1> QED
    BY <1>4, SMT DEF S
=============================================================================
