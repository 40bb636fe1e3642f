------------------------------- MODULE Ingress -------------------------------
(***************************************************************************)
(* IngressHelper over the event loop: a helper process writes requests to  *)
(* a pipe, the server decodes them, AppServer::handle_ingress answers some *)
(* at once and submits the others to the engine, and the replies go back   *)
(* over a second pipe, each with the id of its request.  The loop's other  *)
(* handlers do as they like; the engine's decisions come from them.        *)
(***************************************************************************)
EXTENDS EventLoop, HelperCodec, SequencesExt

CONSTANTS InFd, OutFd,   \* read_fd_ and write_fd_
          MaxRequests,   \* bound on the requests of a helper
          PipeSize       \* tokens each of the pipes holds

ASSUME IngressConstants ==
    /\ InFd \in Fd /\ OutFd \in Fd /\ InFd # OutFd
    /\ MaxRequests \in Nat /\ PipeSize \in Nat \ {0}

VARIABLES codec,
          input,            \* the helper: what it has still to write,
          expected, got,    \* how many replies it expects, and those it has,
          helper_buf, alive,
          rx, tx,           \* the pipes to and from the server
          in, out, closed,  \* the server's buffers, and closed_
          pending,          \* requests submitted to the engine
          taken             \* history: requests the server has decoded

helperVars == <<codec, input, expected, got, helper_buf, alive>>
serverVars == <<in, out, closed, pending, taken>>
ingressVars == <<loopVars, helperVars, rx, tx, serverVars>>

\* What handle_ingress does with a request: "now" is refused, or a cancel;
\* "submit" goes to the engine; "garbled" does not decode.
Body == {"now", "submit", "garbled"}
Oversize == [i \in 1..(MaxTextRecord + 1) |-> ReqId(0)]
Garbled(c) ==
    IF c = "text" THEN {<<Junk, Blank>>, <<ReqId(BadId), Blank>>, Oversize}
    ELSE {<<Header(FALSE, 0)>>, <<Header(TRUE, 1), ReqId(0)>>, <<Header(TRUE, MaxBinaryPayload + 1)>>}

\* The bytes of requests with these bodies, numbered as the helper does.
Records(c, bodies) ==
    {FlattenSeq([i \in DOMAIN bodies |->
        IF bodies[i] = "garbled" THEN bad ELSE Encode(c, i, bodies[i])]) : bad \in Garbled(c)}

IngressInit ==
    /\ LoopInit
    /\ open = [f \in Fd |-> TRUE]
    /\ registrations = [f \in Fd |-> IF f = OutFd THEN {} ELSE {"read"}]
    /\ codec \in Codec
    /\ \E bodies \in BoundedSeq(Body, MaxRequests) :
          /\ \A i \in DOMAIN bodies : bodies[i] = "garbled" => i = Len(bodies)
          /\ input \in Records(codec, bodies)
          /\ expected = Len(bodies) /\ work = Min({MaxWork, 2 * Len(bodies)})
    /\ got = <<>> /\ helper_buf = <<>> /\ alive = TRUE
    /\ rx = <<>> /\ tx = <<>> /\ in = <<>> /\ out = <<>>
    /\ closed = FALSE /\ pending = {} /\ taken = {}

-----------------------------------------------------------------------------
(* The helper process.                                                     *)

\* WriteAll, which waits for room; a server that has given the helper up keeps
\* the pipe open, so that nothing tells the helper.
HelperWrites ==
    /\ alive
    /\ \E n \in 1..Min({Len(input), PipeSize - Len(rx)}) :
          /\ rx' = rx \o SubSeq(input, 1, n)
          /\ input' = SubSeq(input, n + 1, Len(input))
    /\ UNCHANGED <<loopVars, codec, expected, got, helper_buf, alive, tx, serverVars>>

Gone == alive' = FALSE /\ helper_buf' = <<>>

\* It reads replies once all requests are written, until it has them all.
HelperReads ==
    /\ alive /\ input = <<>> /\ tx # <<>>
    /\ helper_buf' = helper_buf \o tx /\ tx' = <<>>
    /\ UNCHANGED <<loopVars, codec, input, expected, got, alive, rx, serverVars>>

HelperDecodes ==
    /\ alive /\ input = <<>> /\ helper_buf # <<>>
    /\ \E r \in {Decode(codec, helper_buf)} :
          /\ r.status = "complete"
          /\ got' = Append(got, r.req_id)
          /\ IF Len(got') = expected THEN Gone ELSE helper_buf' = r.rest /\ UNCHANGED alive
    /\ UNCHANGED <<loopVars, codec, input, expected, rx, tx, serverVars>>

\* It is killed; what it has written stays in the pipe.
HelperDies ==
    /\ alive /\ Gone
    /\ UNCHANGED <<loopVars, codec, input, expected, got, rx, tx, serverVars>>

-----------------------------------------------------------------------------
(* The server's end.                                                       *)

\* handle_close: both descriptors are unregistered and stay open.
HandleClose ==
    /\ closed' = TRUE
    /\ registrations' = [registrations EXCEPT ![InFd] = {}, ![OutFd] = {}]

\* Mutant: the rest of a short write is not watched for.
OnWritableUnwatched(o) ==
    LET n == Min({Len(o), PipeSize - Len(tx)})
    IN \/ ~alive /\ o # <<>> /\ HandleClose /\ out' = o /\ UNCHANGED tx
       \/ /\ alive \/ o = <<>>
          /\ tx' = tx \o SubSeq(o, 1, n) /\ out' = SubSeq(o, n + 1, Len(o))
          /\ registrations' = [registrations EXCEPT ![OutFd] = {}]
          /\ UNCHANGED closed

\* on_writable with o in the buffer: the pipe takes what it has room for, and
\* writability is watched for while something is left.  Without a helper the
\* write fails.
OnWritable(o) ==
    LET n == Min({Len(o), PipeSize - Len(tx)})
    IN \/ ~alive /\ o # <<>> /\ HandleClose /\ out' = o /\ UNCHANGED tx
       \/ /\ alive \/ o = <<>>
          /\ tx' = tx \o SubSeq(o, 1, n) /\ out' = SubSeq(o, n + 1, Len(o))
          /\ registrations' = [registrations EXCEPT ![OutFd] = IF n < Len(o) THEN {"write"} ELSE {}]
          /\ UNCHANGED closed

\* Mutant: a reply carries the highest id decoded so far.
QueueReplyLast(id) ==
    IF closed THEN UNCHANGED <<registrations, out, tx, closed>>
    ELSE OnWritable(out \o Encode(codec, Max(taken \union {id}), "result"))

QueueReply(id) ==
    IF closed THEN UNCHANGED <<registrations, out, tx, closed>>
    ELSE OnWritable(out \o Encode(codec, id, "result"))

IsIngress(f) == f \in {InFd, OutFd}
IngressCall(f) == calling.kind = "io" /\ calling.event.fd = f
Has(event) == event \in calling.event.events

\* on_readable: everything is read; at the end of input nothing is decoded.
ReadRequests ==
    /\ IngressCall(InFd)
    /\ in' = in \o rx /\ rx' = <<>>
    /\ IF alive THEN calling' = [kind |-> "decode"] /\ UNCHANGED <<registrations, closed>>
                ELSE HandleClose /\ calling' = NoCall
    /\ UNCHANGED <<open, epoch, deferred, timerVars, at, wake, batch, since, running, work,
                   helperVars, tx, out, pending, taken>>

\* handle_ingress: the reply comes at once, or from the engine; at once also
\* from an engine whose storage is gone.
Handle(id, body) ==
    /\ taken' = taken \union {id}
    /\ \/ QueueReply(id) /\ UNCHANGED pending
       \/ /\ body = {"submit"}
          /\ pending' = pending \union {id}
          /\ UNCHANGED <<registrations, out, tx, closed>>

\* One turn of the decode loop.
DecodeRequest ==
    /\ calling.kind = "decode"
    /\ \E r \in {Decode(codec, in)} :
          \/ /\ r.status = "complete"
             /\ Handle(r.req_id, r.body)
             /\ in' = r.rest
             /\ calling' = IF closed' THEN NoCall ELSE calling
          \/ /\ r.status = "error"
             /\ HandleClose /\ calling' = NoCall
             /\ UNCHANGED <<in, out, tx, pending, taken>>
          \/ /\ r.status = "incomplete"
             /\ calling' = NoCall
             /\ UNCHANGED <<registrations, in, out, tx, closed, pending, taken>>
    /\ UNCHANGED <<open, epoch, deferred, timerVars, at, wake, batch, since, running, work,
                   helperVars, rx>>

WriteReplies ==
    /\ IngressCall(OutFd)
    /\ IF Has("writable") THEN OnWritable(out) ELSE HandleClose /\ UNCHANGED <<out, tx>>
    /\ calling' = NoCall
    /\ UNCHANGED <<open, epoch, deferred, timerVars, at, wake, batch, since, running, work,
                   helperVars, rx, in, pending, taken>>

AppCall == calling.kind = "timer" \/ (calling.kind = "io" /\ ~IsIngress(calling.event.fd))

\* A handler of another descriptor, or a timer, brings the engine's decision.
EngineDecides ==
    /\ AppCall
    /\ \E id \in pending : pending' = pending \ {id} /\ QueueReply(id)
    /\ UNCHANGED <<open, epoch, deferred, timerVars, ctlVars, running, work, helperVars,
                   rx, in, taken>>

-----------------------------------------------------------------------------
(* The composition.                                                        *)

\* What epoll reports of a pipe: input or its end, room or a missing reader.
InEvents == IF rx # <<>> \/ ~alive THEN {"readable"} ELSE {}
OutEvents == (IF Len(tx) < PipeSize THEN {"writable"} ELSE {})
                \union (IF alive THEN {} ELSE {"error"})

\* Some of the other descriptors are ready too.
Ready(others) ==
    {[fd |-> f, epoch |-> epoch[f],
      events |-> CASE f = InFd -> InEvents [] f = OutFd -> OutEvents [] OTHER -> {"readable"}] :
        f \in (Pollable \intersect {InFd, OutFd}) \union others}

Reported(others) == {e \in Ready(others) : e.events # {}}

\* The poll ends when something is ready or its time is over; a signal
\* interrupts it while nothing is.
IngressPoll ==
    /\ at = "poll"
    /\ \E others \in SUBSET {f \in Pollable : ~IsIngress(f)} :
          /\ wake = 0 \/ Reported(others) # {}
          /\ \E events \in SetToSeqs(Reported(others)) : Poll(events)
Interrupted == at = "poll" /\ Reported({}) = {} /\ Poll(<<>>)

AppHandler ==
    /\ AppCall
    /\ \/ \E f \in {g \in Fd : ~IsIngress(g)} :
             AddFd(f) \/ CloseFd(f) \/ \E i \in {{}, {"read"}} : SetInterest(f, i)
       \/ \E d \in Delay, r \in BOOLEAN : AddTimer(d, r)
       \/ \E id \in 1..MaxTimers : CancelTimer(id)
       \/ Stop

\* The steps of the loop and of its other handlers leave the ingress alone.
Apart == UNCHANGED <<helperVars, rx, tx, serverVars>>
LoopStep ==
    /\ Iteration \/ Tick \/ IngressPoll \/ Interrupted \/ AppHandler \/ (AppCall /\ Return)
    /\ Apart

IngressHandler == ReadRequests \/ DecodeRequest \/ WriteReplies

IngressNext ==
    \/ LoopStep \/ IngressHandler \/ EngineDecides
    \/ HelperWrites \/ HelperReads \/ HelperDecodes \/ HelperDies

\* The loop goes on, handlers return, time passes; the helper writes
\* and reads as long as it lives.
IngressFairSpec ==
    /\ IngressInit /\ [][IngressNext]_ingressVars
    /\ WF_ingressVars((Iteration \/ IngressPoll) /\ Apart)
    /\ WF_ingressVars(Tick /\ Apart)
    /\ WF_ingressVars(AppCall /\ Return /\ Apart)
    /\ WF_ingressVars(IngressHandler)
    /\ WF_ingressVars(HelperWrites) /\ WF_ingressVars(HelperReads) /\ WF_ingressVars(HelperDecodes)

-----------------------------------------------------------------------------
(* Properties.                                                             *)

\* The ids of the replies on their way, as their codec spells them.
Ids(tokens) == SelectSeq(tokens, LAMBDA t : t.key = "req_id")
Replied == got \o [i \in DOMAIN Ids(helper_buf \o tx \o out) |-> Ids(helper_buf \o tx \o out)[i].val]

\* Every request decoded is in the engine or has one reply under its own id,
\* however the pipes cut the records and in whatever order the engine decides.
EachRequestOnce ==
    ~closed /\ alive =>
        /\ IsInjective(Replied)
        /\ ToSet(Replied) = taken \ pending

\* If the engine decides what it is given, a helper that lives gets all its
\* replies, unless it sent what does not decode: the loop watches for
\* writability whenever a reply is left over.
HelperIsAnswered ==
    []<>(pending = {}) => ((alive /\ ~closed /\ expected > 0) ~> (~alive \/ closed))
=============================================================================
