----------------------------- MODULE HttpParser ------------------------------
(***************************************************************************)
(* HttpRequestParser as an operator on its state: Parse advances a parser  *)
(* as far as its buffer allows and is called again when more has arrived.  *)
(*                                                                         *)
(* The buffer is a sequence of tokens: a request line, a header line, a    *)
(* chunk-size line, a CRLF or one unit of a body.  Limits count tokens.  A *)
(* CRLF of which half has arrived is one that has not arrived.  A body may *)
(* hold any tokens, lines and CRLFs included.                              *)
(***************************************************************************)
EXTENDS Integers, Sequences, SequencesExt, FiniteSets, FiniteSetsExt

CONSTANTS MaxHeader,    \* max_header_bytes_
          MaxBody,      \* max_body_bytes_
          MaxSizeLine   \* the limit on an unfinished chunk-size line

ASSUME ParserConstants == {MaxHeader, MaxBody, MaxSizeLine} \subseteq Nat

Nl == <<"nl">>
RequestLine(n, handler, minor) == <<"request", n, handler, minor>>
ContentLength(len) == <<"length", len>>       \* NotANumber: not a number
TransferEncoding(coding) == <<"coding", coding>>
Connection(option) == <<"connection", option>>
ChunkSize(size) == <<"size", size>>           \* NotANumber: not hexadecimal
Malformed == <<"malformed">>
NotANumber == -1

HeaderName == {"length", "coding", "connection"}

NoRequest == [n |-> 0, handler |-> "sync", keep |-> TRUE, body |-> <<>>]

\* A parser as it is constructed, over the buffer `in`.
Start(in) ==
    [state |-> "head", request |-> NoRequest, body_remaining |-> 0, chunk_phase |-> "size",
     chunk_remaining |-> 0, body_total |-> 0, in |-> in, waiting |-> FALSE]

\* Mutant: the size of the body is not reset.
ResetKeepsTotal(p) == [Start(p.in) EXCEPT !.body_total = p.body_total]

Reset(p) == Start(p.in)

Fail(p) == [p EXCEPT !.state = "error"]
Wait(p) == [p EXCEPT !.waiting = TRUE]
Consume(p, n) == [p EXCEPT !.in = SubSeq(@, n + 1, Len(@))]

-----------------------------------------------------------------------------
(* The head: parsed at once when its blank line has arrived.               *)

\* The positions of the headers with this name, in a block of lines.
Headers(block, name) == {i \in 2..Len(block) : block[i][1] = name}
Value(block, name) == block[Min(Headers(block, name))][2]

\* The block is a request line and header lines, each but the last with a CRLF.
WellFormed(block) ==
    /\ block # <<>>
    /\ \A i \in DOMAIN block : (block[i] = Nl) <=> (i % 2 = 0)
    /\ block[1][1] = "request" /\ block[1][4] \in {0, 1}
    /\ \A i \in DOMAIN block : i > 1 /\ i % 2 = 1 => block[i][1] \in HeaderName

\* HTTP/1.1 keeps the connection unless the first Connection header says close,
\* HTTP/1.0 only when it says keep-alive.
KeepAlive(block) ==
    IF Headers(block, "connection") = {} THEN block[1][4] = 1
    ELSE CASE Value(block, "connection") = "close" -> FALSE
           [] Value(block, "connection") = "keep-alive" -> TRUE
           [] OTHER -> block[1][4] = 1

\* Framing that could be read in two ways is refused.
Framed(p, block) ==
    LET lengths == {block[i][2] : i \in Headers(block, "length")}
        chunked == Headers(block, "coding") # {}
    IN IF \/ Cardinality(lengths) > 1
          \/ chunked /\ (lengths # {} \/ Value(block, "coding") # "chunked")
          \/ \E len \in lengths : len = NotANumber \/ len > MaxBody
       THEN Fail(p)
       ELSE IF chunked THEN [p EXCEPT !.state = "chunked"]
       ELSE IF lengths \in {{}, {0}} THEN [p EXCEPT !.state = "complete"]
       ELSE [p EXCEPT !.state = "length", !.body_remaining = Max(lengths)]

ParseHead(p, block) ==
    IF ~WellFormed(block) THEN Fail(p)
    ELSE Framed([p EXCEPT !.request = [n |-> block[1][2], handler |-> block[1][3],
                                       keep |-> KeepAlive(block), body |-> <<>>]], block)

\* Where the blank line begins, or 0.
Term(in) == LET ends == {i \in 1..(Len(in) - 1) : in[i] = Nl /\ in[i + 1] = Nl}
            IN IF ends = {} THEN 0 ELSE Min(ends)

ConsumeHead(p, n) == IF p.state = "error" THEN p ELSE Consume(p, n)

HeadBlock(p, term) ==
    IF term = 0 THEN IF Len(p.in) > MaxHeader THEN Fail(p) ELSE Wait(p)
    ELSE IF term - 1 > MaxHeader THEN Fail(p)
    ELSE ConsumeHead(ParseHead(p, SubSeq(p.in, 1, term - 1)), term + 1)

-----------------------------------------------------------------------------
(* The body.                                                               *)

\* As much of the body as there is.
Take(p, take) == Consume([p EXCEPT !.request.body = @ \o SubSeq(p.in, 1, take)], take)

BodyLength(p, take) ==
    LET q == [Take(p, take) EXCEPT !.body_remaining = @ - take]
    IN IF q.body_remaining > 0 THEN Wait(q) ELSE [q EXCEPT !.state = "complete"]

\* The first CRLF, or 0.
Eol(in) == LET ends == {i \in DOMAIN in : in[i] = Nl} IN IF ends = {} THEN 0 ELSE Min(ends)

ChunkOf(p, size) ==
    IF size = 0 THEN [p EXCEPT !.chunk_phase = "trailer"]
    ELSE IF p.body_total + size > MaxBody THEN Fail(p)
    ELSE [p EXCEPT !.body_total = @ + size, !.chunk_remaining = size, !.chunk_phase = "data"]

SizeLine(p, eol) ==
    IF eol = 0 THEN IF Len(p.in) > MaxSizeLine THEN Fail(p) ELSE Wait(p)
    ELSE IF eol # 2 \/ p.in[1][1] # "size" \/ p.in[1] = ChunkSize(NotANumber) THEN Fail(p)
    ELSE ChunkOf(Consume(p, eol), p.in[1][2])

ChunkData(p, take) ==
    LET q == [Take(p, take) EXCEPT !.chunk_remaining = @ - take]
    IN IF q.chunk_remaining > 0 THEN Wait(q) ELSE [q EXCEPT !.chunk_phase = "crlf"]

ChunkCrlf(p) ==
    IF p.in = <<>> THEN Wait(p)
    ELSE IF Head(p.in) # Nl THEN Fail(p)
    ELSE [Consume(p, 1) EXCEPT !.chunk_phase = "size"]

\* Trailer lines are skipped up to an empty one.
Trailer(p, eol) ==
    IF eol = 0 THEN Wait(p)
    ELSE IF eol = 1 THEN [Consume(p, 1) EXCEPT !.state = "complete"]
    ELSE Consume(p, eol)

Chunked(p) ==
    CASE p.chunk_phase = "size" -> SizeLine(p, Eol(p.in))
      [] p.chunk_phase = "data" -> ChunkData(p, Min({Len(p.in), p.chunk_remaining}))
      [] p.chunk_phase = "crlf" -> ChunkCrlf(p)
      [] p.chunk_phase = "trailer" -> Trailer(p, Eol(p.in))

-----------------------------------------------------------------------------
Step(p) ==
    CASE p.state = "head" -> HeadBlock(p, Term(p.in))
      [] p.state = "length" -> BodyLength(p, Min({Len(p.in), p.body_remaining}))
      [] p.state = "chunked" -> Chunked(p)

\* Op(v), with v evaluated once.
Apply(Op(_), v) == CHOOSE r \in {Op(x) : x \in {v}} : TRUE

\* The loops of parse and parse_chunked.
RECURSIVE Advance(_)
Advance(p) ==
    IF p.waiting \/ p.state \in {"complete", "error"} THEN p ELSE Apply(Advance, Step(p))

Parse(p) == Advance([p EXCEPT !.waiting = FALSE])
=============================================================================
