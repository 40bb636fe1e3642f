----------------------------- MODULE FeedStream ------------------------------
(***************************************************************************)
(* The best-effort path of book events: MatchingEngine stamps each event   *)
(* with a global sequence number, FeedPublisher buffers it (feed_publisher *)
(* .cc), the pipe carries it, and the feed helper (tools/feed_helper)      *)
(* decodes it, applies it to its replica and broadcasts the new best       *)
(* prices to its subscribers.  An event is its sequence number here; what  *)
(* applying one does is BookReplica's subject.                             *)
(*                                                                         *)
(* stream holds the accepted events the helper has not applied, oldest     *)
(* first: the first got of them are in the helper's input buffer, those up *)
(* to piped are in the pipe, the rest in the publisher's buffer out_.      *)
(* While got > 0 the helper is inside its read handler, which decodes all  *)
(* it has read before any of the helper's other handlers runs.             *)
(***************************************************************************)
EXTENDS Integers, Sequences, FiniteSets

CONSTANTS OutCap,     \* events the publisher buffers (kOutCap bytes)
          PipeCap,    \* events the pipe holds
          SubCap,     \* lines a subscriber's buffer holds (kSubscriberOutCap)
          Sub,        \* subscriber connections
          HelperMayExit,
          MaxFeedEvents \* bound on the events emitted

ASSUME CapsArePositive ==
    /\ OutCap \in Nat \ {0} /\ PipeCap \in Nat \ {0}
    /\ SubCap \in Nat \ {0, 1} /\ MaxFeedEvents \in Nat

VARIABLES seq,        \* event_seq_
          stream, piped, got,
          armed,      \* write_armed_ of the publisher
          feed_closed, \* the publisher has given up on the helper
          feed_alive,  \* the helper process runs
          last_seq, gaps,
          applied,    \* history: the events the replica has applied
          conn,       \* subscriber: "none", "open", or "dropped" until erased
          queued,     \* lines in the subscriber's buffer
          told        \* the sequence number of the last line queued to it

publisherVars == <<seq, armed, feed_closed>>
feedHelperVars == <<feed_alive, last_seq, gaps, applied>>
subVars == <<conn, queued, told>>
feedVars == <<seq, stream, piped, got, armed, feed_closed, feed_alive, last_seq, gaps, applied,
              conn, queued, told>>

Conn == {"none", "open", "dropped"}

FeedInit ==
    /\ seq = 0 /\ stream = <<>> /\ piped = 0 /\ got = 0
    /\ armed = FALSE /\ feed_closed = FALSE /\ feed_alive = TRUE
    /\ last_seq = 0 /\ gaps = 0 /\ applied = {}
    /\ conn = [s \in Sub |-> "none"]
    /\ queued = [s \in Sub |-> 0]
    /\ told = [s \in Sub |-> 0]

-----------------------------------------------------------------------------
(* The publisher, in the matcher's process.                                *)

\* flush(): writes until the pipe is full or the buffer is empty.
Written(len) == IF len <= got + PipeCap THEN len ELSE got + PipeCap

\* arm_write(): interest in writability while something is left.
Armed(len) == Written(len) < len

\* handle_close(): what is still buffered is dropped.
GiveUp ==
    /\ feed_closed' = TRUE /\ armed' = FALSE
    /\ stream' = SubSeq(stream, 1, piped)
    /\ UNCHANGED <<piped, got>>

\* MatchingEngine::on_book_event and FeedPublisher::on_book_event.
Publish ==
    /\ seq < MaxFeedEvents
    /\ seq' = seq + 1
    /\ IF feed_closed \/ Len(stream) - piped >= OutCap
       THEN UNCHANGED <<stream, piped, got, armed, feed_closed>>
       ELSE IF ~feed_alive
       THEN GiveUp
       ELSE /\ stream' = Append(stream, seq + 1)
            /\ piped' = Written(Len(stream) + 1)
            /\ armed' = Armed(Len(stream) + 1)
            /\ UNCHANGED <<got, feed_closed>>
    /\ UNCHANGED feedHelperVars /\ UNCHANGED subVars

\* on_io_ready with the pipe writable.
Flush ==
    /\ armed /\ feed_alive
    /\ piped < got + PipeCap
    /\ piped' = Written(Len(stream))
    /\ armed' = Armed(Len(stream))
    /\ UNCHANGED <<seq, feed_closed, stream, got>> /\ UNCHANGED feedHelperVars /\ UNCHANGED subVars

\* on_io_ready after the helper has gone: the write fails or the pipe reports an error.
NoticeExit ==
    /\ armed /\ ~feed_alive
    /\ GiveUp
    /\ UNCHANGED seq /\ UNCHANGED feedHelperVars /\ UNCHANGED subVars

-----------------------------------------------------------------------------
(* The helper.                                                             *)

\* Mutant: the helper waits for a full pipe before it reads.
ReadStdinWhenFull ==
    /\ feed_alive /\ got = 0 /\ piped >= PipeCap
    /\ got' = piped
    /\ UNCHANGED <<stream, piped>>
    /\ UNCHANGED publisherVars /\ UNCHANGED feedHelperVars /\ UNCHANGED subVars

\* StdinReader::on_io_ready reads until the pipe is empty ...
ReadStdin ==
    /\ feed_alive /\ got = 0 /\ piped > 0
    /\ got' = piped
    /\ UNCHANGED <<stream, piped>>
    /\ UNCHANGED publisherVars /\ UNCHANGED feedHelperVars /\ UNCHANGED subVars

\* Mutant: a jump over several events is let pass.
GapAtLenient(ev) == last_seq # 0 /\ ev > last_seq + 2

\* BookReplica::apply's gap test.
GapAt(ev) == last_seq # 0 /\ ev # last_seq + 1

Overflows(s) == queued[s] + 1 > SubCap

\* Mutant: a line that does not fit is dropped, the subscriber stays.
ConnAfterLineKept(s) == conn[s]

\* Subscriber::queue drops the subscriber a line does not fit.
ConnAfterLine(s) == IF conn[s] = "open" /\ Overflows(s) THEN "dropped" ELSE conn[s]

\* ... and applies and broadcasts every event it read.  drained are the
\* subscribers whose socket takes all that is buffered, failed those it drops
\* because writing to them fails.  A line that fits goes out also to one that
\* was dropped and is not erased yet.
Decode(drained, failed) ==
    LET ev == Head(stream)
        gets(s) == conn[s] # "none" /\ ~Overflows(s)
    IN /\ got > 0
       /\ stream' = Tail(stream) /\ piped' = piped - 1 /\ got' = got - 1
       /\ gaps' = IF GapAt(ev) THEN gaps + 1 ELSE gaps
       /\ last_seq' = IF ev > last_seq THEN ev ELSE last_seq
       /\ applied' = applied \union {ev}
       /\ conn' = [s \in Sub |-> IF gets(s) /\ s \in failed THEN "dropped" ELSE ConnAfterLine(s)]
       /\ queued' = [s \in Sub |-> IF ~gets(s) THEN queued[s]
                                   ELSE IF s \in drained THEN 0 ELSE queued[s] + 1]
       /\ told' = [s \in Sub |-> IF gets(s) THEN ev ELSE told[s]]
       /\ UNCHANGED publisherVars /\ UNCHANGED feed_alive

\* The helper dies or is killed; what it had read and the pipe held is lost.
HelperExit ==
    /\ HelperMayExit /\ feed_alive
    /\ feed_alive' = FALSE
    /\ stream' = SubSeq(stream, piped + 1, Len(stream))
    /\ piped' = 0 /\ got' = 0
    /\ conn' = [s \in Sub |-> "none"] /\ queued' = [s \in Sub |-> 0]
    /\ UNCHANGED <<last_seq, gaps, applied, told>> /\ UNCHANGED publisherVars

Idle == feed_alive /\ got = 0

UnchangedButSubs ==
    /\ UNCHANGED <<stream, piped, got>>
    /\ UNCHANGED publisherVars /\ UNCHANGED feedHelperVars

\* on_accept: a line per known symbol and "ready"; sent says whether the socket
\* takes them at once.
Accept(s, sent) ==
    /\ Idle /\ conn[s] = "none"
    /\ conn' = [conn EXCEPT ![s] = "open"]
    /\ queued' = [queued EXCEPT ![s] = IF sent THEN 0 ELSE IF last_seq = 0 THEN 1 ELSE 2]
    /\ told' = [told EXCEPT ![s] = last_seq]
    /\ UnchangedButSubs

\* handle_command: a snapshot line for the subscriber that asked.
Command(s, sent) ==
    /\ Idle /\ conn[s] = "open"
    /\ conn' = [conn EXCEPT ![s] = ConnAfterLine(s)]
    /\ queued' = [queued EXCEPT ![s] = IF Overflows(s) THEN @ ELSE IF sent THEN 0 ELSE @ + 1]
    /\ UNCHANGED told /\ UnchangedButSubs

\* Subscriber::flush when its socket is writable.
SubFlush(s) ==
    /\ Idle /\ conn[s] = "open" /\ queued[s] > 0
    /\ queued' = [queued EXCEPT ![s] = 0]
    /\ UNCHANGED <<conn, told>> /\ UnchangedButSubs

\* The peer closes, or reading or writing its socket fails.
SubGone(s) ==
    /\ Idle /\ conn[s] = "open"
    /\ conn' = [conn EXCEPT ![s] = "dropped"]
    /\ UNCHANGED <<queued, told>> /\ UnchangedButSubs

\* The deferred erase of remove_subscriber closes the descriptor.
SubErase(s) ==
    /\ Idle /\ conn[s] = "dropped"
    /\ conn' = [conn EXCEPT ![s] = "none"]
    /\ queued' = [queued EXCEPT ![s] = 0]
    /\ UNCHANGED told /\ UnchangedButSubs

FeedNext ==
    \/ Publish
    \/ Flush
    \/ NoticeExit
    \/ ReadStdin
    \/ \E drained, failed \in SUBSET Sub : Decode(drained, failed)
    \/ HelperExit
    \/ \E s \in Sub, sent \in BOOLEAN : Accept(s, sent)
    \/ \E s \in Sub, sent \in BOOLEAN : Command(s, sent)
    \/ \E s \in Sub : SubFlush(s)
    \/ \E s \in Sub : SubGone(s)
    \/ \E s \in Sub : SubErase(s)

FeedSpec == FeedInit /\ [][FeedNext]_feedVars

\* The event loops of both processes serve a ready descriptor sooner or later.
FeedFairSpec ==
    /\ FeedSpec
    /\ WF_feedVars(Flush) /\ WF_feedVars(NoticeExit) /\ WF_feedVars(ReadStdin)
    /\ WF_feedVars(\E drained, failed \in SUBSET Sub : Decode(drained, failed))

-----------------------------------------------------------------------------
(* Properties.                                                             *)

\* Counters and marks are in range, and a subscriber never buffers more than
\* its cap.
FeedTypeOK ==
    /\ seq \in Nat /\ stream \in Seq(Nat)
    /\ got \in Nat /\ piped \in Nat /\ got <= piped /\ piped <= Len(stream)
    /\ piped - got <= PipeCap /\ Len(stream) - piped <= OutCap
    /\ armed \in BOOLEAN /\ feed_closed \in BOOLEAN /\ feed_alive \in BOOLEAN
    /\ last_seq \in Nat /\ gaps \in Nat /\ applied \subseteq Nat
    /\ conn \in [Sub -> Conn] /\ queued \in [Sub -> 0..SubCap] /\ told \in [Sub -> Nat]

\* A replica that has counted no gap has applied every event up to the last
\* one it saw: whatever the publisher dropped for a full buffer shows up as a
\* gap as soon as a later event arrives.  The first event is the delicate one,
\* since apply() compares only once last_seq_ is not 0.
LossesAreNoticed ==
    gaps = 0 => applied = 1..last_seq

\* A subscriber that is still connected has been sent the state after the last
\* event applied: one that could not take a line is disconnected rather than
\* left behind.
SubscribersAreCurrent ==
    \A s \in Sub : conn[s] = "open" => told[s] = last_seq

\* Whenever events wait in the publisher's buffer it is registered for
\* writability, and only then.
BufferedIsArmed ==
    ~feed_closed /\ feed_alive => (armed <=> piped < Len(stream))

\* Every event the publisher accepted reaches the replica, or the helper is gone.
AcceptedIsApplied ==
    \A n \in 1..MaxFeedEvents :
        (\E i \in DOMAIN stream : stream[i] = n) ~> (n \in applied \/ ~feed_alive)
=============================================================================
