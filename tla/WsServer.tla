------------------------------ MODULE WsServer -------------------------------
(***************************************************************************)
(* WsServer, its connections, and the part of AppServer that serves them:  *)
(* the identity a handshake resolves to, the orders of text messages, and  *)
(* the market-data subscribers of one symbol.  Answers of the engine and   *)
(* of the authentication helper come later, keyed by (fd, id) and by id,   *)
(* when the connection may be gone and its descriptor in use by another.   *)
(* A closed connection stays in conns_ until the loop's deferred erase.    *)
(*                                                                         *)
(* A frame is its header and, for an order, a payload that may arrive      *)
(* later; a handshake that has not arrived whole stays unread, what was    *)
(* written in part stays in out.  A handler runs to its end before the     *)
(* loop turns to another event; ctl says which is running.                 *)
(***************************************************************************)
EXTENDS Integers, Sequences

CONSTANTS Fd,
          User, None,             \* identities; no header, credential or field
          Handshake,              \* upgrade requests: [header, cred]
          AuthHeader, AuthHelper, \* auth_header_enabled_, auth_helper_enabled_
          MaxParts,               \* kMaxMessageBytes, in fragments
          MaxConns,               \* bound on accepted connections
          MaxSent,                \* bound on what all clients send
          MaxUpdates              \* bound on broadcasts

ASSUME WsConstants ==
    /\ None \notin User
    /\ Handshake \subseteq [header : User \union {None}, cred : User \union {None}]
    /\ {AuthHeader, AuthHelper} \subseteq BOOLEAN
    /\ {MaxParts, MaxConns, MaxSent, MaxUpdates} \subseteq Nat

VARIABLES conn,            \* conns_: the connection of each descriptor, or NoConn
          next_conn_id,
          rx, eof,         \* per descriptor: what the client sent, and that it is done
          ctl,             \* the handler that is running
          orders,          \* submitted, not called back: [fd, id, n, owner]
          resolving,       \* AuthClient::resolve not answered: [id, shake]
          conn_owner,      \* pairs <<id, owner>>
          conn_perframe,
          md_subscribers,  \* pairs <<id, fd>>
          received,        \* history: what the client was sent
          sent, updates    \* how much the clients sent, how often was broadcast

appVars == <<conn_owner, conn_perframe, md_subscribers>>
wsVars == <<conn, next_conn_id, rx, eof, ctl, orders, resolving, appVars, received, sent, updates>>

NoConn == [id |-> 0]
Idle == [at |-> "idle"]
Undefined == [at |-> "undefined"]
Nobody == "nobody"
Anonymous == ""

\* The messages of a client: an order (whole, or in fragments), a subscription.
Frame ==
    [kind : {"order"}, user : User \union {None}]
        \union [kind : {"subscribe", "unsubscribe", "part", "more", "last", "ping", "close",
                        "garbled"}]
Payload == [kind |-> "payload"]
Bytes(item) == IF item.kind = "order" THEN <<item, Payload>> ELSE <<item>>
FirstRequest == [kind : {"upgrade"}, shake : Handshake] \union [kind : {"plain", "garbled"}]

NewConn(id, agg) ==
    [id |-> id, agg |-> agg, shake |-> None, open |-> FALSE, in |-> <<>>, out |-> <<>>,
     writing |-> FALSE, closing |-> FALSE, closed |-> FALSE, parts |-> 0,
     sent |-> 0, since |-> 0]

Open(f) == conn[f] # NoConn /\ ~conn[f].closed

WsInit ==
    /\ conn = [f \in Fd |-> NoConn] /\ next_conn_id = 1
    /\ rx = [f \in Fd |-> <<>>] /\ eof = [f \in Fd |-> FALSE]
    /\ ctl = Idle /\ orders = {} /\ resolving = {}
    /\ conn_owner = {} /\ conn_perframe = {} /\ md_subscribers = {}
    /\ received = [f \in Fd |-> <<>>] /\ sent = 0 /\ updates = 0

-----------------------------------------------------------------------------
(* Writing and closing.                                                    *)

\* Connection f becomes p over these maps.  One that closes is forgotten by
\* AppServer; a second close does nothing.
Put(f, p, owners, perframe, subs) ==
    LET closes == p.closed /\ ~conn[f].closed
    IN /\ conn' = [conn EXCEPT ![f] = p]
       /\ conn_owner' = {e \in owners : closes => e[1] # p.id}
       /\ conn_perframe' = {i \in perframe : closes => i # p.id}
       /\ md_subscribers' = {s \in subs : closes => s[1] # p.id}

Failed(c) == [c EXCEPT !.closed = TRUE]

Close(f) == Put(f, Failed(conn[f]), conn_owner, conn_perframe, md_subscribers)

\* Mutant: the rest of a short write is not watched for.
WrittenUnwatched(c, n) ==
    [c EXCEPT !.out = SubSeq(@, n + 1, Len(@)),
              !.writing = FALSE,
              !.closed = @ \/ (n = Len(c.out) /\ c.closing)]

\* on_writable with the socket taking n items.
Written(c, n) ==
    [c EXCEPT !.out = SubSeq(@, n + 1, Len(@)),
              !.writing = n < Len(c.out),
              !.closed = @ \/ (n = Len(c.out) /\ c.closing)]

\* on_writable of connection f, which is p: the socket takes some of p.out, at
\* least `least` items, or fails.  It does not ask whether p is closed.
Flush(f, p, least, owners, perframe, subs) ==
    \/ \E n \in least..Len(p.out) :
          /\ Put(f, Written(p, n), owners, perframe, subs)
          /\ received' = [received EXCEPT ![f] = @ \o SubSeq(p.out, 1, n)]
    \/ /\ Put(f, Failed(p), owners, perframe, subs)
       /\ UNCHANGED received

\* WsConnection::send_text.
SendText(f, c, item, owners, perframe, subs) ==
    Flush(f, [c EXCEPT !.out = Append(@, item)], 0, owners, perframe, subs)

Reply(f, c) == SendText(f, c, [kind |-> "reply"], conn_owner, conn_perframe, md_subscribers)

Result(o) == [kind |-> "result", id |-> o.id, n |-> o.n]

\* Mutant: the connection is found by its descriptor alone.
AddresseeByFd(fd, id) == conn[fd] # NoConn

\* deliver_text finds the connection in conns_; it may be closed.
Addressee(fd, id) == conn[fd] # NoConn /\ conn[fd].id = id

-----------------------------------------------------------------------------
(* Identity: AppServer::on_ws_open and authenticate.                       *)

\* Mutant: the two mechanisms need not agree.
VerdictUnmatched(h) ==
    IF AuthHeader THEN h.header ELSE h.cred

\* The owner once the helper has resolved h's credential.
Verdict(h) ==
    IF AuthHeader /\ h.header # h.cred THEN Nobody ELSE h.cred

PerFrame(c, h) == c.agg /\ h.header = None /\ h.cred = None

\* The helper has to be asked about h.
Asks(h) == AuthHelper /\ h.cred # None /\ (AuthHeader => h.header # None)

\* The owner authenticate finds without asking the helper.
AtOnce(h) ==
    IF ~AuthHeader /\ ~AuthHelper THEN Anonymous
    ELSE IF ~AuthHelper /\ h.header # None THEN h.header ELSE Nobody

\* conn_owner_ once the owner of connection id is known, or found wanting.
Bound(id, owner) == IF owner = Nobody THEN conn_owner ELSE conn_owner \union {<<id, owner>>}

\* on_ws_open of connection f, which is c with handshake h.  A cached
\* credential is answered at once, another by AuthAnswer.
OnOpen(f, c, h) ==
    \/ /\ PerFrame(c, h)
       /\ Put(f, c, conn_owner, conn_perframe \union {c.id}, md_subscribers)
       /\ UNCHANGED resolving
    \/ /\ ~PerFrame(c, h) /\ Asks(h)
       /\ resolving' = resolving \union {[id |-> c.id, shake |-> h]}
       /\ Put(f, c, conn_owner, conn_perframe, md_subscribers)
    \/ /\ ~PerFrame(c, h)
       /\ \E owner \in IF Asks(h) THEN {Verdict(h), Nobody} ELSE {AtOnce(h)} :
             Put(f, c, Bound(c.id, owner), conn_perframe, md_subscribers)
       /\ UNCHANGED resolving

\* The helper answers a credential; its connection may be gone.
AuthAnswer(r, resolved) ==
    /\ ctl = Idle /\ r \in resolving
    /\ conn_owner' = IF resolved THEN Bound(r.id, Verdict(r.shake)) ELSE conn_owner
    /\ resolving' = resolving \ {r}
    /\ UNCHANGED <<conn, next_conn_id, rx, eof, ctl, orders, conn_perframe, md_subscribers,
                   received, sent, updates>>

-----------------------------------------------------------------------------
(* Messages: AppServer::handle_ws_message, for connection f, which is c.   *)

Subscribe(f, c) ==
    LET entry == <<c.id, f>>
    IN SendText(f, [c EXCEPT !.since = IF entry \in md_subscribers THEN @ ELSE updates],
                [kind |-> "reply"], conn_owner, conn_perframe, md_subscribers \union {entry})

Unsubscribe(f, c) ==
    SendText(f, c, [kind |-> "reply"], conn_owner, conn_perframe, md_subscribers \ {<<c.id, f>>})

\* The owner of an order: the frame's user on a per-frame connection, else the
\* one the handshake resolved to, if it has by now.
OwnersOf(c, user) ==
    IF c.id \in conn_perframe THEN {user} \ {None}
    ELSE {e[2] : e \in {x \in conn_owner : x[1] = c.id}}

\* An order that parses and is not shed is submitted and called back later, or
\* at once, as failed, when storage is gone and no order waits.
SubmitOrder(f, c, owner) ==
    LET o == [fd |-> f, id |-> c.id, n |-> c.sent + 1, owner |-> owner]
        d == [c EXCEPT !.sent = @ + 1]
    IN \/ /\ orders' = orders \union {o}
          /\ Put(f, d, conn_owner, conn_perframe, md_subscribers)
          /\ UNCHANGED received
       \/ /\ orders = {}
          /\ SendText(f, d, Result(o), conn_owner, conn_perframe, md_subscribers)
          /\ UNCHANGED orders

\* An order is malformed, shed, unidentified, or submitted.
OrderMessage(f, c, user) ==
    \/ Reply(f, c) /\ UNCHANGED orders
    \/ \E owner \in OwnersOf(c, user) : SubmitOrder(f, c, owner)

-----------------------------------------------------------------------------
(* Frames: WsConnection::handle_frame, for connection f, which is c.       *)

Queue(f, c, kind) ==
    /\ Put(f, [c EXCEPT !.out = Append(@, [kind |-> kind]), !.closing = @ \/ kind = "close"],
           conn_owner, conn_perframe, md_subscribers)
    /\ UNCHANGED received

Violation(f, c) ==
    Put(f, Failed(c), conn_owner, conn_perframe, md_subscribers) /\ UNCHANGED received

Assemble(f, c, parts) ==
    /\ Put(f, [c EXCEPT !.parts = parts], conn_owner, conn_perframe, md_subscribers)
    /\ UNCHANGED received

Control(f, c, fr) ==
    /\ UNCHANGED orders
    /\ \/ fr.kind = "ping" /\ Queue(f, c, "pong")
       \/ fr.kind = "close" /\ Queue(f, c, "close")

\* A text frame must not come between the fragments of another message.
Text(f, c, fr) ==
    \/ /\ fr.kind \in {"order", "subscribe", "unsubscribe", "part"} /\ c.parts > 0
       /\ Violation(f, c) /\ UNCHANGED orders
    \/ /\ c.parts = 0
       /\ \/ fr.kind = "order" /\ OrderMessage(f, c, fr.user)
          \/ fr.kind = "subscribe" /\ Subscribe(f, c) /\ UNCHANGED orders
          \/ fr.kind = "unsubscribe" /\ Unsubscribe(f, c) /\ UNCHANGED orders
          \/ fr.kind = "part" /\ Assemble(f, c, 1) /\ UNCHANGED orders

\* A continuation of a message that has begun and stays within its limit.
Fits(c) == c.parts > 0 /\ c.parts < MaxParts

Continuation(f, c, fr) ==
    /\ fr.kind \in {"more", "last"}
    /\ \/ ~Fits(c) /\ Violation(f, c) /\ UNCHANGED orders
       \/ fr.kind = "more" /\ Fits(c) /\ Assemble(f, c, c.parts + 1) /\ UNCHANGED orders
       \/ fr.kind = "last" /\ Fits(c) /\ OrderMessage(f, [c EXCEPT !.parts = 0], None)

-----------------------------------------------------------------------------
(* Reading: WsConnection::on_readable.                                     *)

Frames(f, more) == [at |-> "frames", fd |-> f, more |-> more]

\* do_handshake of connection f, which is c; a request that was no upgrade is
\* answered again at every look.
DoHandshake(f, c) ==
    LET req == Head(c.in)
        d == [c EXCEPT !.in = Tail(@)]
        refused == [c EXCEPT !.out = Append(@, [kind |-> "400"]), !.closing = TRUE]
    IN \/ /\ ~c.closing /\ req.kind = "garbled"
          /\ Put(f, Failed(d), conn_owner, conn_perframe, md_subscribers)
          /\ UNCHANGED resolving
       \/ /\ c.closing \/ req.kind = "plain"
          /\ Put(f, refused, conn_owner, conn_perframe, md_subscribers)
          /\ UNCHANGED resolving
       \/ /\ ~c.closing /\ req.kind = "upgrade"
          /\ OnOpen(f, [d EXCEPT !.out = Append(@, [kind |-> "101"]), !.open = TRUE,
                                 !.shake = req.shake], req.shake)

\* All that has arrived is read; what came before an end of input in the same
\* read is dropped.
Readable(f) ==
    /\ ctl = Idle /\ Open(f)
    /\ \/ /\ eof[f]
          /\ Close(f)
          /\ UNCHANGED <<ctl, resolving>>
          /\ rx' = [rx EXCEPT ![f] = <<>>]
       \/ /\ ~eof[f]
          /\ \E n \in 1..Len(rx[f]) :
                /\ \E c \in {[conn[f] EXCEPT !.in = @ \o SubSeq(rx[f], 1, n)]} :
                      IF c.open
                      THEN Put(f, c, conn_owner, conn_perframe, md_subscribers) /\ UNCHANGED resolving
                      ELSE DoHandshake(f, c)
                /\ rx' = [rx EXCEPT ![f] = SubSeq(@, n + 1, Len(@))]
          /\ ctl' = IF conn'[f].closed THEN Idle ELSE Frames(f, TRUE)
    /\ UNCHANGED <<next_conn_id, eof, orders, received, sent, updates>>

\* DecodeWsFrame: a header that breaks the protocol is an error before its
\* payload has arrived, another frame waits for its payload.
DecodeWsFrame(in) ==
    IF in = <<>> THEN "incomplete"
    ELSE IF Head(in).kind = "garbled" THEN "error"
    ELSE IF Len(in) < Len(Bytes(Head(in))) THEN "incomplete" ELSE "complete"

Decodes(f) == ctl.more /\ conn[f].open /\ DecodeWsFrame(conn[f].in) # "incomplete"

\* One turn of process_frames; it goes on unless the connection is closing.
HandleFrame ==
    /\ ctl.at = "frames" /\ Decodes(ctl.fd)
    /\ LET f == ctl.fd
           fr == Head(conn[f].in)
           c == [conn[f] EXCEPT !.in = SubSeq(@, Len(Bytes(fr)) + 1, Len(@))]
       IN /\ \/ DecodeWsFrame(conn[f].in) = "error" /\ Violation(f, conn[f]) /\ UNCHANGED orders
             \/ Control(f, c, fr) \/ Text(f, c, fr) \/ Continuation(f, c, fr)
          /\ ctl' = IF conn'[f].closed THEN Idle ELSE Frames(f, ~conn'[f].closing)
    /\ UNCHANGED <<next_conn_id, rx, eof, resolving, sent, updates>>

\* The end of on_readable.
FinishReading ==
    /\ ctl.at = "frames" /\ ~Decodes(ctl.fd)
    /\ IF conn[ctl.fd].out = <<>>
       THEN UNCHANGED <<conn, appVars, received>>
       ELSE Flush(ctl.fd, conn[ctl.fd], 0, conn_owner, conn_perframe, md_subscribers)
    /\ ctl' = Idle
    /\ UNCHANGED <<next_conn_id, rx, eof, orders, resolving, sent, updates>>

-----------------------------------------------------------------------------
(* Other events.                                                           *)

Accept(f, agg) ==
    /\ ctl = Idle /\ conn[f] = NoConn /\ next_conn_id <= MaxConns
    /\ conn' = [conn EXCEPT ![f] = NewConn(next_conn_id, agg)]
    /\ next_conn_id' = next_conn_id + 1
    /\ UNCHANGED <<rx, eof, ctl, orders, resolving, appVars, received, sent, updates>>

\* A handler reads all there is before it acts, so a client sends between two.
ClientSends(f) ==
    /\ ctl = Idle /\ Open(f) /\ ~eof[f] /\ sent < MaxSent
    /\ LET first == ~conn[f].open /\ ~conn[f].closing /\ rx[f] = <<>>
       IN \E item \in IF first THEN FirstRequest ELSE Frame :
             rx' = [rx EXCEPT ![f] = @ \o Bytes(item)]
    /\ sent' = sent + 1
    /\ UNCHANGED <<conn, next_conn_id, eof, ctl, orders, resolving, appVars, received, updates>>

ClientShuts(f) ==
    /\ ctl = Idle /\ Open(f) /\ ~eof[f]
    /\ eof' = [eof EXCEPT ![f] = TRUE]
    /\ UNCHANGED <<conn, next_conn_id, rx, ctl, orders, resolving, appVars, received, sent, updates>>

Writable(f) ==
    /\ ctl = Idle /\ Open(f) /\ conn[f].writing
    /\ Flush(f, conn[f], 1, conn_owner, conn_perframe, md_subscribers)
    /\ UNCHANGED <<next_conn_id, rx, eof, ctl, orders, resolving, sent, updates>>

\* kError, or a read that fails.
Broken(f) ==
    /\ ctl = Idle /\ Open(f)
    /\ Close(f)
    /\ UNCHANGED <<next_conn_id, rx, eof, ctl, orders, resolving, received, sent, updates>>

\* The deferred erase of close_connection; the descriptor is closed.
Erase(f) ==
    /\ ctl = Idle /\ conn[f] # NoConn /\ conn[f].closed
    /\ conn' = [conn EXCEPT ![f] = NoConn]
    /\ rx' = [rx EXCEPT ![f] = <<>>] /\ eof' = [eof EXCEPT ![f] = FALSE]
    /\ received' = [received EXCEPT ![f] = <<>>]
    /\ UNCHANGED <<next_conn_id, ctl, orders, resolving, appVars, sent, updates>>

Broadcast(subs) == IF subs = {} THEN Idle ELSE [at |-> "broadcast", todo |-> subs]

\* The engine calls back an order, not always the oldest: when reporting a
\* placement ends the storage helper, the orders behind it are called back
\* first (TradingEngine).  The result is delivered, and if the order was
\* accepted the subscribers are told.
Decide(o, accepted) ==
    /\ ctl = Idle /\ o \in orders /\ (accepted => updates < MaxUpdates)
    /\ IF Addressee(o.fd, o.id)
       THEN SendText(o.fd, conn[o.fd], Result(o), conn_owner, conn_perframe, md_subscribers)
       ELSE UNCHANGED <<conn, appVars, received>>
    /\ orders' = orders \ {o}
    /\ ctl' = IF accepted THEN Broadcast(md_subscribers') ELSE Idle
    /\ updates' = IF ctl' = Idle THEN updates ELSE updates + 1
    /\ UNCHANGED <<next_conn_id, rx, eof, resolving, sent>>

\* A request from elsewhere changes the book.
BookChanges ==
    /\ ctl = Idle /\ updates < MaxUpdates /\ md_subscribers # {}
    /\ ctl' = Broadcast(md_subscribers)
    /\ updates' = updates + 1
    /\ UNCHANGED <<conn, next_conn_id, rx, eof, orders, resolving, appVars, received, sent>>

\* Mutant: a connection that has output waiting is passed over.
AfterUpdateSkips(c) ==
    IF c.out # <<>> THEN c ELSE [c EXCEPT !.out = Append(@, [kind |-> "update", n |-> updates])]

AfterUpdate(c) == [c EXCEPT !.out = Append(@, [kind |-> "update", n |-> updates])]

\* One turn of broadcast_market_data's loop.  A write that closes the
\* connection erases the map's entry under the iterator: with an allocator
\* that leaves the freed node alone the loop goes on, otherwise anything may
\* happen.
BroadcastTo(s) ==
    /\ ctl.at = "broadcast" /\ s \in ctl.todo
    /\ IF Addressee(s[2], s[1])
       THEN Flush(s[2], AfterUpdate(conn[s[2]]), 0, conn_owner, conn_perframe, md_subscribers)
       ELSE UNCHANGED <<conn, appVars, received>>
    /\ \/ ctl' = Broadcast(ctl.todo \ {s})
       \/ s \notin md_subscribers' /\ ctl' = Undefined
    /\ UNCHANGED <<next_conn_id, rx, eof, orders, resolving, sent, updates>>

BroadcastStep == ctl.at = "broadcast" /\ \E s \in ctl.todo : BroadcastTo(s)

WsNext ==
    \/ \E f \in Fd : \/ \E agg \in BOOLEAN : Accept(f, agg)
                     \/ ClientSends(f) \/ ClientShuts(f)
                     \/ Readable(f) \/ Writable(f) \/ Broken(f) \/ Erase(f)
    \/ HandleFrame \/ FinishReading
    \/ \E r \in resolving, resolved \in BOOLEAN : AuthAnswer(r, resolved)
    \/ \E o \in orders, accepted \in BOOLEAN : Decide(o, accepted)
    \/ BookChanges \/ BroadcastStep

WsSpec == WsInit /\ [][WsNext]_wsVars

\* The loop serves every ready descriptor and deferred call, handlers end, a
\* client reads what it is sent, and the engine calls back.
WsFairSpec ==
    /\ WsSpec
    /\ \A f \in Fd : WF_wsVars(Readable(f)) /\ WF_wsVars(Writable(f)) /\ WF_wsVars(Erase(f))
    /\ WF_wsVars(HandleFrame \/ FinishReading) /\ WF_wsVars(BroadcastStep)
    /\ WF_wsVars(\E o \in orders, accepted \in BOOLEAN : Decide(o, accepted))

-----------------------------------------------------------------------------
(* Properties.                                                             *)

\* What the client of f was sent or has waiting.
Sent(f) == received[f] \o conn[f].out

\* The results among the items are of different orders.
Distinct(items) ==
    \A i, j \in DOMAIN items :
        i < j /\ items[i].kind = "result" /\ items[j].kind = "result" => items[i].n # items[j].n

\* The items of a kind are numbered in increasing order.
Increasing(items, kind) ==
    \A i, j \in DOMAIN items :
        i < j /\ items[i].kind = kind /\ items[j].kind = kind => items[i].n < items[j].n

\* The numbers of the updates among the items.
Told(items) == {items[i].n : i \in {j \in DOMAIN items : items[j].kind = "update"}}

\* A client is sent the results of orders it has sent on this connection, each
\* at most once, although they come back in any order, when its descriptor may
\* have passed to another connection (deliver_text).
ResultsAreOwn ==
    \A f \in Fd : conn[f] # NoConn =>
        /\ \A i \in DOMAIN Sent(f) :
              Sent(f)[i].kind = "result" => Sent(f)[i].id = conn[f].id /\ Sent(f)[i].n <= conn[f].sent
        /\ Distinct(Sent(f))

\* Between events, a subscriber is an open connection, under its own
\* descriptor, and has been sent, or has waiting, every update since it
\* subscribed, once each and in order: the close callback leaves nothing
\* behind, even when it runs inside the handler that subscribes.
SubscribersSeeAll ==
    ctl.at \notin {"undefined", "broadcast"} =>
        \A s \in md_subscribers :
            /\ Open(s[2]) /\ conn[s[2]].open /\ conn[s[2]].id = s[1]
            /\ Increasing(Sent(s[2]), "update")
            /\ {n \in Told(Sent(s[2])) : n > conn[s[2]].since} = (conn[s[2]].since + 1)..updates

\* An order is submitted for the owner its connection's own handshake resolves
\* to, agreed by every mechanism that is enabled; only a per-frame connection
\* names others.
OrdersAreOwned ==
    [][\A o \in orders' \ orders :
          LET h == conn[o.fd].shake
          IN \/ o.id \in conn_perframe /\ h.header = None /\ h.cred = None
             \/ /\ AuthHeader => o.owner = h.header
                /\ AuthHelper => o.owner = h.cred]_wsVars

\* The client of an order is sent the result unless its connection closes.
OrdersAreAnswered ==
    \A f \in Fd, n \in 1..MaxSent :
        (Open(f) /\ conn[f].sent >= n)
           ~> \/ ~Open(f) \/ ctl = Undefined
              \/ \E i \in DOMAIN received[f] : received[f][i].kind = "result" /\ received[f][i].n = n
=============================================================================
