----------------------------- MODULE HttpServer ------------------------------
(***************************************************************************)
(* HttpServer and its connections over a level-triggered event loop.  A    *)
(* connection parses requests one at a time: while the response to one is  *)
(* outstanding no other is parsed.  Handlers answer at once ("sync") or    *)
(* later ("async") through a responder keyed by (fd, connection id), which *)
(* must do nothing once the connection is gone and its descriptor belongs  *)
(* to another.  A closed connection keeps its descriptor until the loop's  *)
(* deferred erase.                                                         *)
(*                                                                         *)
(* What a client sends arrives in any pieces; a response written in part   *)
(* stays in out.  A response repeats the number and the body of its        *)
(* request; number 0 is a 400.                                             *)
(***************************************************************************)
EXTENDS HttpParser

CONSTANTS Fd,
          Request,      \* what clients send: [handler, minor, headers, payload, ok, keep, body]
          MaxConns,     \* bound on accepted connections
          MaxRequests,  \* bound on the requests of the first connection; one less for each later
          MaxResponses  \* bound on the responses of a connection

ASSUME HttpConstants == MaxConns \in Nat /\ MaxRequests \in Nat /\ MaxResponses \in Nat

VARIABLES conn,         \* conns_: the connection of each descriptor, or NoConn
          next_conn_id,
          sent,         \* the requests the client of each descriptor has sent
          rx, eof,      \* what has not been read of them, and that there are no more
          responders,   \* handlers that have not answered: [fd, id, request]
          received      \* history: the responses the client of each descriptor was sent

httpVars == <<conn, next_conn_id, sent, rx, eof, responders, received>>

NoConn == [id |-> 0]

NewConn(id) ==
    [id |-> id, parser |-> Start(<<>>), out |-> <<>>, current |-> NoRequest, writing |-> FALSE,
     awaiting |-> FALSE, closing |-> FALSE, peer_closed |-> FALSE, closed |-> FALSE]

Open(f) == conn[f] # NoConn /\ ~conn[f].closed

HttpInit ==
    /\ conn = [f \in Fd |-> NoConn] /\ next_conn_id = 1
    /\ sent = [f \in Fd |-> <<>>] /\ rx = [f \in Fd |-> <<>>] /\ eof = [f \in Fd |-> FALSE]
    /\ responders = {} /\ received = [f \in Fd |-> <<>>]

-----------------------------------------------------------------------------
(* process_input, on a connection record.                                  *)

Response(request) == [n |-> request.n, body |-> request.body]
BadRequest == Response(NoRequest)

\* dispatch_request with the request of parser p: a sync handler responds
\* before it returns, an async one leaves the response pending.
Dispatched(c, p) ==
    IF p.request.handler = "sync"
    THEN [c EXCEPT !.parser = Reset(p),
                   !.out = Append(@, Response(p.request)),
                   !.closing = @ \/ ~p.request.keep]
    ELSE [c EXCEPT !.parser = Reset(p), !.awaiting = TRUE, !.current = p.request]

Refused(c, p) ==
    [c EXCEPT !.parser = p, !.out = Append(@, BadRequest), !.closing = TRUE]

\* The loop of process_input.  A connection already closing still parses one
\* request; a parser that failed answers every later look with a 400.
RECURSIVE Processed(_)
Processed(c) ==
    LET GoOn(d) == IF d.awaiting \/ d.closing THEN d ELSE Processed(d)
        Progress(p) == CASE p.state = "error" -> Refused(c, p)
                         [] p.state = "complete" -> Apply(GoOn, Dispatched(c, p))
                         [] OTHER -> [c EXCEPT !.parser = p]
    IN IF c.awaiting THEN c ELSE Apply(Progress, Parse(c.parser))

\* Mutant: the rest of a short write is not watched for.
WrittenUnwatched(c, n) ==
    [c EXCEPT !.out = SubSeq(@, n + 1, Len(@)),
              !.writing = FALSE,
              !.closed = n = Len(c.out) /\ c.closing]

\* on_writable with the socket taking n responses; one that takes all of them
\* ends the interest in writing and, when closing, the connection.
Written(c, n) ==
    [c EXCEPT !.out = SubSeq(@, n + 1, Len(@)),
              !.writing = n < Len(c.out),
              !.closed = n = Len(c.out) /\ c.closing]

Failed(c) == [c EXCEPT !.closed = TRUE]

\* Mutant: only the server's own wish to close counts.
AtRestOpen(c) ==
    IF c.out = <<>> /\ ~c.awaiting /\ c.closing THEN [c EXCEPT !.closed = TRUE] ELSE c

\* The end of process_input: nothing to write, nothing awaited.
AtRest(c) ==
    IF c.out = <<>> /\ ~c.awaiting /\ (c.closing \/ c.peer_closed)
    THEN [c EXCEPT !.closed = TRUE] ELSE c

\* What process_input makes of connection c: p is c after the loop.  It returns
\* before the flush if the loop dispatched an async request; otherwise the
\* socket takes n responses, or the write fails.
Flush(f, c, p) ==
    \/ /\ p.awaiting /\ ~c.awaiting
       /\ conn' = [conn EXCEPT ![f] = p] /\ UNCHANGED received
    \/ /\ p.awaiting => c.awaiting
       /\ \E n \in 0..Len(p.out) :
             /\ n = 0 \/ p.out # <<>>
             /\ conn' = [conn EXCEPT ![f] = AtRest(IF p.out = <<>> THEN p ELSE Written(p, n))]
             /\ received' = [received EXCEPT ![f] = @ \o SubSeq(p.out, 1, n)]
    \/ /\ p.awaiting => c.awaiting
       /\ p.out # <<>>
       /\ conn' = [conn EXCEPT ![f] = Failed(p)] /\ UNCHANGED received

\* process_input of descriptor f, whose connection is c; `gone` are responders
\* that have answered.
ProcessInput(f, c, gone) ==
    \E p \in {Processed(c)} :
        /\ Len(received[f]) + Len(p.out) <= MaxResponses
        /\ Flush(f, c, p)
        /\ responders' = (responders \ gone) \union
               (IF p.awaiting /\ ~c.awaiting THEN {[fd |-> f, id |-> c.id, request |-> p.current]}
                                            ELSE {})

-----------------------------------------------------------------------------
(* Events.                                                                 *)

Accept(f) ==
    /\ conn[f] = NoConn /\ next_conn_id <= MaxConns
    /\ conn' = [conn EXCEPT ![f] = NewConn(next_conn_id)]
    /\ next_conn_id' = next_conn_id + 1
    /\ sent' = [sent EXCEPT ![f] = <<>>] /\ rx' = [rx EXCEPT ![f] = <<>>]
    /\ eof' = [eof EXCEPT ![f] = FALSE]
    /\ received' = [received EXCEPT ![f] = <<>>]
    /\ UNCHANGED responders

\* A request as it is written, the n-th of its connection.
Text(r, n) ==
    <<RequestLine(n, r.handler, r.minor)>>
        \o FlattenSeq([i \in DOMAIN r.headers |-> <<Nl, r.headers[i]>>]) \o <<Nl, Nl>> \o r.payload

\* The client sends its next request.
ClientSends(f, r) ==
    /\ Open(f) /\ ~eof[f] /\ Len(sent[f]) + conn[f].id <= MaxRequests
    /\ sent' = [sent EXCEPT ![f] = Append(@, r)]
    /\ rx' = [rx EXCEPT ![f] = @ \o Text(r, Len(sent[f]) + 1)]
    /\ UNCHANGED <<conn, next_conn_id, eof, responders, received>>

\* The client shuts its side, perhaps before the end of its last request.
ClientShuts(f) ==
    /\ Open(f) /\ ~eof[f]
    /\ eof' = [eof EXCEPT ![f] = TRUE]
    /\ rx' \in {rx, [rx EXCEPT ![f] = IF @ = <<>> THEN @ ELSE Front(@)]}
    /\ UNCHANGED <<conn, next_conn_id, sent, responders, received>>

\* on_readable takes all that has arrived; the end of input stays readable.
Readable(f) ==
    /\ Open(f) /\ (rx[f] # <<>> \/ eof[f])
    /\ \E n \in 0..Len(rx[f]) :
          /\ n > 0 \/ rx[f] = <<>>
          /\ \E c \in {[conn[f] EXCEPT !.parser.in = @ \o SubSeq(rx[f], 1, n),
                                      !.peer_closed = eof[f] /\ n = Len(rx[f])]} :
                ProcessInput(f, c, {})
          /\ rx' = [rx EXCEPT ![f] = SubSeq(@, n + 1, Len(@))]
    /\ UNCHANGED <<next_conn_id, sent, eof>>

Writable(f) ==
    /\ Open(f) /\ conn[f].writing /\ conn[f].out # <<>>
    /\ \E n \in 1..Len(conn[f].out) :
          /\ conn' = [conn EXCEPT ![f] = Written(@, n)]
          /\ received' = [received EXCEPT ![f] = @ \o SubSeq(conn[f].out, 1, n)]
    /\ UNCHANGED <<next_conn_id, sent, rx, eof, responders>>

\* kError, or a read or write that fails.
Broken(f) ==
    /\ Open(f)
    /\ conn' = [conn EXCEPT ![f] = Failed(@)]
    /\ UNCHANGED <<next_conn_id, sent, rx, eof, responders, received>>

\* Mutant: the responder finds its connection by descriptor alone.
AddresseeByFd(r) == Open(r.fd)

\* deliver_response and complete_response find the connection still there.
Addressee(r) == conn[r.fd].id = r.id /\ ~conn[r.fd].closed

\* A handler answers.
Answer(r) ==
    /\ r \in responders
    /\ IF Addressee(r)
       THEN \E c \in {[conn[r.fd] EXCEPT !.out = Append(@, Response(r.request)),
                                         !.awaiting = FALSE, !.current = NoRequest,
                                         !.closing = @ \/ ~r.request.keep]} :
               ProcessInput(r.fd, c, {r})
       ELSE responders' = responders \ {r} /\ UNCHANGED <<conn, received>>
    /\ UNCHANGED <<next_conn_id, sent, rx, eof>>

\* The deferred erase: the destructor closes the descriptor.
Erase(f) ==
    /\ conn[f] # NoConn /\ conn[f].closed
    /\ conn' = [conn EXCEPT ![f] = NoConn]
    /\ UNCHANGED <<next_conn_id, sent, rx, eof, responders, received>>

HttpNext ==
    \/ \E f \in Fd : \/ Accept(f)
                     \/ \E r \in Request : ClientSends(f, r)
                     \/ ClientShuts(f)
                     \/ Readable(f)
                     \/ Writable(f)
                     \/ Broken(f)
                     \/ Erase(f)
    \/ \E r \in responders : Answer(r)

HttpSpec == HttpInit /\ [][HttpNext]_httpVars

\* The loop serves readable and writable descriptors and deferred calls,
\* handlers answer, and a client reads what it is sent.
HttpFairSpec ==
    /\ HttpSpec
    /\ \A f \in Fd : WF_httpVars(Readable(f)) /\ WF_httpVars(Writable(f)) /\ WF_httpVars(Erase(f))
    /\ WF_httpVars(\E r \in responders : Answer(r))

-----------------------------------------------------------------------------
(* Properties.                                                             *)

\* Each client is sent, in order, the responses to its own requests with the
\* bodies it gave them, however they arrived.  A 400 answers a request that is
\* not well formed, and nothing is answered after one.  One request at most is
\* outstanding, and has a handler that will answer it.
AnsweredInOrder ==
    \A f \in Fd : Open(f) =>
        LET c == conn[f]
            all == received[f] \o c.out
            own == SelectSeq(all, LAMBDA a : a.n # 0)
            pending == {r \in responders : r.fd = f /\ r.id = c.id}
        IN /\ IsPrefix(own, all) /\ Len(own) <= Len(sent[f])
           /\ \A i \in DOMAIN own : /\ own[i] = [n |-> i, body |-> sent[f][i].body]
                                   /\ sent[f][i].ok
           /\ own # all => Len(own) < Len(sent[f]) /\ ~sent[f][Len(own) + 1].ok
           /\ c.awaiting <=> pending # {}
           /\ \A r \in pending : r.request.n = Len(own) + 1

\* A client that has shut its side is eventually rid of its connection, also
\* when its last request never arrived whole.
ShutIsErased ==
    \A f \in Fd : (Open(f) /\ eof[f]) ~> (conn[f] = NoConn)

\* A request that was sent whole is answered, or its connection closes.
RequestsAreAnswered ==
    \A f \in Fd : \A n \in 1..MaxRequests :
        (Open(f) /\ ~eof[f] /\ Len(sent[f]) >= n)
            ~> (conn[f] = NoConn \/ \E i \in DOMAIN received[f] : received[f][i].n = n)
=============================================================================
