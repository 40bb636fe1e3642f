---------------------------- MODULE StorageOutbox ----------------------------
(***************************************************************************)
(* The transport under the trading engine: HelperClient correlates answers *)
(* with requests by id, with deadlines and the helper's death, and         *)
(* StorageClient keeps every report in an outbox until a commit answer     *)
(* confirms a watermark at or above its id.  The server sheds orders while *)
(* the outbox is full and asks for a commit on a timer.                    *)
(*                                                                         *)
(* A request is its id and kind: "report" (order, trade or fill: an outbox *)
(* entry), "rest" (rest or cancel: a write without one), "read" and        *)
(* "commit".  wire holds the requests the helper has not read, in the      *)
(* client's buffer or the pipe; what a request means to the store is       *)
(* TradingSystem's subject.                                                *)
(***************************************************************************)
EXTENDS Integers, Sequences, FiniteSets

CONSTANTS OutboxMax,      \* storage.processed_queue_max, 0 for no limit
          HelperMayDie,
          StoreMayFail,   \* a database may refuse a write or a commit
          RestsAreNoted,  \* database helpers count rests and cancels in the watermark
          MaxRequests     \* bound on the requests sent

ASSUME OutboxConstants ==
    /\ OutboxMax \in Nat /\ MaxRequests \in Nat
    /\ HelperMayDie \in BOOLEAN /\ StoreMayFail \in BOOLEAN /\ RestsAreNoted \in BOOLEAN

VARIABLES next_req_id,
          pending,      \* ids awaiting an answer or their deadline (pending_)
          outbox, acked,\* entries, and those of them whose report was answered
          closed,       \* HelperClient::closed_
          alive,        \* the helper runs
          wire, reading, replies,
          highest,      \* the helper's watermark
          handled,      \* history: reports the helper has applied or refused
          dropped,      \* history: entries a commit removed from the outbox
          confirmed,    \* history: the last commit answered with a watermark
          fired         \* history: how often each request was called back

clientVars == <<next_req_id, pending, outbox, acked, closed, dropped, confirmed, fired>>
helperVars == <<alive, wire, reading, replies, highest, handled>>
outboxVars == <<next_req_id, pending, outbox, acked, closed, alive, wire, reading, replies,
                highest, handled, dropped, confirmed, fired>>

ReqId == 1..MaxRequests
Kind == {"report", "rest", "read", "commit"}
Request == [id : ReqId, kind : Kind]
Reply == [id : ReqId, kind : Kind, mark : 0..MaxRequests]

OutboxInit ==
    /\ next_req_id = 1 /\ pending = {} /\ outbox = {} /\ acked = {}
    /\ closed = FALSE /\ alive = TRUE
    /\ wire = <<>> /\ reading = {} /\ replies = <<>>
    /\ highest = 0 /\ handled = {} /\ dropped = {} /\ confirmed = 0
    /\ fired = [n \in ReqId |-> 0]

-----------------------------------------------------------------------------
(* HelperClient.                                                           *)

CallBack(ids) == fired' = [n \in ReqId |-> IF n \in ids THEN fired[n] + 1 ELSE fired[n]]

\* handle_close fails every request in flight.
FailAll(ids) ==
    /\ closed' = TRUE
    /\ CallBack(ids)
    /\ pending' = {}

\* send(): on a closed helper the request fails at once; a write to a dead
\* one fails it together with all others.
Send(kind) ==
    /\ next_req_id <= MaxRequests
    /\ next_req_id' = next_req_id + 1
    /\ IF closed THEN CallBack({next_req_id}) /\ UNCHANGED <<pending, closed, wire>>
       ELSE IF ~alive THEN FailAll(pending \union {next_req_id}) /\ UNCHANGED wire
       ELSE /\ pending' = pending \union {next_req_id}
            /\ wire' = Append(wire, [id |-> next_req_id, kind |-> kind])
            /\ UNCHANGED <<closed, fired>>
    /\ UNCHANGED <<alive, reading, replies, highest, handled>>

\* on_io_ready after the helper has gone: answers read together with the end
\* of file are not decoded.
NoticeDeath ==
    /\ ~closed /\ ~alive
    /\ FailAll(pending)
    /\ UNCHANGED <<next_req_id, outbox, acked, dropped, confirmed>> /\ UNCHANGED helperVars

\* Mutant: the sweep calls back but keeps the request.
TimeOutKept(n) ==
    /\ n \in pending /\ fired[n] = 0
    /\ CallBack({n})
    /\ UNCHANGED <<next_req_id, pending, closed, outbox, acked, dropped, confirmed>>
    /\ UNCHANGED helperVars

\* on_timer: the deadline of a request passes; all have the same allowance, so
\* the oldest request is the first to expire.
TimeOut(n) ==
    /\ n \in pending /\ \A p \in pending : n <= p
    /\ CallBack({n})
    /\ pending' = pending \ {n}
    /\ UNCHANGED <<next_req_id, closed, outbox, acked, dropped, confirmed>>
    /\ UNCHANGED helperVars

-----------------------------------------------------------------------------
(* StorageClient and the server.                                           *)

\* report(): the entry is made when send() has returned, even if the request
\* has failed by then.
Report ==
    /\ Send("report")
    /\ outbox' = outbox \union {next_req_id}
    /\ UNCHANGED <<acked, dropped, confirmed>>

\* handle_submit, handle_ws_message and handle_ingress report a new order
\* unless the outbox is full.
Admit ==
    /\ OutboxMax > 0 => Cardinality(outbox) < OutboxMax
    /\ Report

\* report_results: trades and fills of orders admitted before.
ReportResults ==
    /\ next_req_id > 1
    /\ Report

\* report_rest, report_cancel and the pulls.
OtherRequest(kind) ==
    /\ kind \in {"rest", "read"}
    /\ Send(kind)
    /\ UNCHANGED <<outbox, acked, dropped, confirmed>>

\* AppServer::on_timer.
Commit ==
    /\ outbox # {}
    /\ Send("commit")
    /\ UNCHANGED <<outbox, acked, dropped, confirmed>>

\* AppServer::drain asks at shutdown, whatever the outbox holds, and again
\* while placements or entries are left.
DrainCommit ==
    /\ Send("commit")
    /\ UNCHANGED <<outbox, acked, dropped, confirmed>>

\* Mutant: a commit answer clears the outbox.
CoveredAll(mark) == outbox

\* Mutant: the entry at the watermark itself is kept.
CoveredBelow(mark) == {n \in outbox : n < mark}

\* The entries a commit answer drops.
Covered(mark) == {n \in outbox : n <= mark}

\* The entry a report's answer marks kAcked, if it is still there.
Marked(n) == {n} \intersect outbox

\* on_readable: an answer to a request that is no longer pending is ignored;
\* a refused commit has no watermark and drops nothing.
Deliver ==
    LET r == Head(replies)
        covered == IF r.kind = "commit" THEN Covered(r.mark) ELSE {}
    IN /\ ~closed /\ replies # <<>>
       /\ replies' = Tail(replies)
       /\ IF r.id \notin pending
          THEN UNCHANGED <<pending, fired, outbox, acked, dropped, confirmed>>
          ELSE /\ pending' = pending \ {r.id}
               /\ CallBack({r.id})
               /\ outbox' = outbox \ covered
               /\ dropped' = dropped \union covered
               /\ acked' = (acked \union Marked(r.id)) \ covered
               /\ confirmed' = IF r.mark > 0 THEN r.id ELSE confirmed
       /\ UNCHANGED <<next_req_id, closed, alive, wire, reading, highest, handled>>

-----------------------------------------------------------------------------
(* The helper: writes in arrival order, reads concurrently.                *)

Larger(m, n) == IF m > n THEN m ELSE n

\* Handle, handleWrite: the watermark moves whether or not the store takes
\* the write.
HelperWrites ==
    LET m == Head(wire)
    IN /\ alive /\ wire # <<>> /\ m.kind \in {"report", "rest"}
       /\ wire' = Tail(wire)
       /\ replies' = Append(replies, [id |-> m.id, kind |-> m.kind, mark |-> 0])
       /\ highest' = IF m.kind = "report" \/ RestsAreNoted THEN Larger(highest, m.id)
                     ELSE highest
       /\ handled' = IF m.kind = "report" THEN handled \union {m.id} ELSE handled
       /\ UNCHANGED <<alive, reading>> /\ UNCHANGED clientVars

HelperCommits(ok) ==
    LET m == Head(wire)
    IN /\ alive /\ wire # <<>> /\ m.kind = "commit"
       /\ ok \/ StoreMayFail
       /\ wire' = Tail(wire)
       /\ replies' = Append(replies,
             [id |-> m.id, kind |-> "commit", mark |-> IF ok THEN highest ELSE 0])
       /\ UNCHANGED <<alive, reading, highest, handled>> /\ UNCHANGED clientVars

HelperStartsRead ==
    LET m == Head(wire)
    IN /\ alive /\ wire # <<>> /\ m.kind = "read"
       /\ wire' = Tail(wire)
       /\ reading' = reading \union {m.id}
       /\ UNCHANGED <<alive, replies, highest, handled>> /\ UNCHANGED clientVars

HelperReads(n) ==
    /\ alive /\ n \in reading
    /\ reading' = reading \ {n}
    /\ replies' = Append(replies, [id |-> n, kind |-> "read", mark |-> 0])
    /\ UNCHANGED <<alive, wire, highest, handled>> /\ UNCHANGED clientVars

\* The helper dies with what it has not read and what was not read from it.
HelperDies ==
    /\ HelperMayDie /\ alive
    /\ alive' = FALSE
    /\ wire' = <<>> /\ reading' = {} /\ replies' = <<>>
    /\ UNCHANGED <<highest, handled>> /\ UNCHANGED clientVars

OutboxNext ==
    \/ Admit
    \/ ReportResults
    \/ \E kind \in Kind : OtherRequest(kind)
    \/ Commit
    \/ DrainCommit
    \/ Deliver
    \/ \E n \in pending : TimeOut(n)
    \/ NoticeDeath
    \/ HelperWrites
    \/ \E ok \in BOOLEAN : HelperCommits(ok)
    \/ HelperStartsRead
    \/ \E n \in reading : HelperReads(n)
    \/ HelperDies

OutboxSpec == OutboxInit /\ [][OutboxNext]_outboxVars

-----------------------------------------------------------------------------
(* Properties.                                                             *)

\* Every id in use was issued, answers belong to issued requests, and only
\* entries still in the outbox are marked acknowledged.
OutboxTypeOK ==
    /\ next_req_id \in 1..(MaxRequests + 1)
    /\ pending \subseteq ReqId /\ outbox \subseteq ReqId /\ acked \subseteq outbox
    /\ closed \in BOOLEAN /\ alive \in BOOLEAN
    /\ wire \in Seq(Request) /\ reading \subseteq ReqId /\ replies \in Seq(Reply)
    /\ highest \in 0..MaxRequests /\ handled \subseteq ReqId /\ dropped \subseteq ReqId
    /\ confirmed \in 0..MaxRequests
    /\ fired \in [ReqId -> Nat]

\* A request is called back once: never by its answer after its deadline or
\* after handle_close, never lost by a send on a helper that is gone.
CalledBackOnce ==
    \A n \in ReqId :
        fired[n] = IF n < next_req_id /\ n \notin pending THEN 1 ELSE 0

\* An entry leaves the outbox only after the helper has dealt with its report.
CommittedIsHandled ==
    dropped \subseteq handled

\* When a commit is confirmed, every report sent before it is gone from the
\* outbox: nothing the helper has taken over keeps the outbox full.
ConfirmedIsGone ==
    \A n \in outbox : n > confirmed
=============================================================================
