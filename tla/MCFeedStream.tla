---------------------------- MODULE MCFeedStream -----------------------------
(* A small instance of FeedStream: the publisher's buffer and the pipe both *)
(* fill, and a slow subscriber overflows.                                   *)
EXTENDS FeedStream
=============================================================================
