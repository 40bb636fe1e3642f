---------------------------- MODULE MCHttpServer -----------------------------
(* HttpServer with one descriptor that two connections use in turn.        *)
EXTENDS HttpServer

Plain(handler, minor, headers, keep) ==
    [handler |-> handler, minor |-> minor, headers |-> headers, payload |-> <<>>, ok |-> TRUE,
     keep |-> keep, body |-> <<>>]

\* The body is what would end a head.
Body == <<Nl, Nl>>
Length(handler) ==
    [handler |-> handler, minor |-> 1, headers |-> <<ContentLength(2)>>, payload |-> Body,
     ok |-> TRUE, keep |-> TRUE, body |-> Body]

Chunks(handler) ==
    [handler |-> handler, minor |-> 1, headers |-> <<TransferEncoding("chunked")>>,
     payload |-> <<ChunkSize(1), Nl, Nl, Nl, ChunkSize(1), Nl, Nl, Nl, ChunkSize(0), Nl, Malformed, Nl, Nl>>,
     ok |-> TRUE, keep |-> TRUE, body |-> Body]

Refusal(headers, payload) ==
    [handler |-> "sync", minor |-> 1, headers |-> headers, payload |-> payload, ok |-> FALSE,
     keep |-> TRUE, body |-> <<>>]

MCRequest ==
    {Plain("sync", 1, <<>>, TRUE), Plain("async", 0, <<>>, FALSE),
     Plain("async", 0, <<Connection("keep-alive")>>, TRUE),
     Plain("sync", 1, <<Connection("close")>>, FALSE),
     Length("async"), Chunks("sync"),
     Refusal(<<ContentLength(1), TransferEncoding("chunked")>>, <<Nl>>),
     Refusal(<<TransferEncoding("chunked")>>, <<ChunkSize(2), Nl, Nl, Nl, ChunkSize(1), Nl>>),
     Refusal(<<ContentLength(1), ContentLength(2)>>, Body),
     Refusal(<<Connection("close"), Connection("close"), Connection("close")>>, <<>>),
     Refusal(<<Malformed>>, <<>>)}
=============================================================================
