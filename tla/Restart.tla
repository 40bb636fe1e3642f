------------------------------ MODULE Restart -------------------------------
(***************************************************************************)
(* The end of one session of the server and the start of the next.  The    *)
(* server may die between any two steps; its helper reads what is left in  *)
(* its pipe and exits, and AppServer::start (server.cc) spawns another one *)
(* and seeds the id and rank counters from it before it accepts an order.  *)
(* The helper of the old session is taken to have finished by then.        *)
(***************************************************************************)
EXTENDS TradingSystem

CONSTANT MaxSessions    \* bound: sessions in a behaviour

ASSUME RestartConstants == MaxSessions \in Nat \ {0}

-----------------------------------------------------------------------------
\* What the next session finds in storage when the old helper read the first
\* k requests of its pipe.  The reference helper takes its store with it.
StoreAfter(k) ==
    IF store.kind = "reference" THEN EmptyStore("reference")
    ELSE Applied(store, pipe, k)

\* Mutants: the ids continue above the resting orders only; the ranks start
\* over.
SeededResting(st) ==
    [number |-> session.number + 1,
     id_base |-> Max({0} \cup {r.id : r \in st.resting}), rank_base |-> MaxRank(st)]
SeededIds(st) ==
    [number |-> session.number + 1, id_base |-> MaxId(st), rank_base |-> 0]

\* seed_from_storage: the counters start above the watermarks.
Seeded(st) ==
    [number |-> session.number + 1, id_base |-> MaxId(st), rank_base |-> MaxRank(st)]

\* pull_watermarks failed, or was answered with status=error, which has no
\* watermarks: the counters start at 1.
Unseeded == [number |-> session.number + 1, id_base |-> 0, rank_base |-> 0]

\* Everything in memory is lost; what storage holds is what rests.
Forget(st) ==
    /\ next_assign_seq' = 1
    /\ next_place_seq' = 1
    /\ pending' = << >>
    /\ position_loaded' = {}
    /\ position_loading' = {}
    /\ warmed' = {}
    /\ depth_pulls' = 0
    /\ pull_ignore' = {}
    /\ handles' = {}
    /\ reports' = {}
    /\ closed' = FALSE
    /\ ctl' = "idle"
    /\ calls' = << >>
    /\ submitted' = << >>
    /\ recorded' = {}
    /\ placed' = << >>
    /\ completed' = << >>
    /\ book' = << >>
    /\ has_deep' = [side \in Side |-> FALSE]
    /\ position' = [a \in Owner |-> 0]
    /\ truth' = {AliveRecord(r, r.seq) : r \in st.resting}
    /\ store' = st
    /\ pipe' = << >>
    /\ reads' = {}
    /\ replies' = {}
    /\ pulls' = {}

\* The server dies, at any moment, and starts again.
CrashSeeded ==
    /\ session.number < MaxSessions
    /\ Forget(StoreAfter(Len(pipe)))
    /\ session' = Seeded(store')
    /\ UNCHANGED faults

CrashUnsent(k) ==
    /\ session.number < MaxSessions
    /\ Fault("unsent")
    /\ Forget(StoreAfter(k))
    /\ session' = Seeded(store')

CrashUnseeded ==
    /\ session.number < MaxSessions
    /\ Fault("unseeded")
    /\ Forget(StoreAfter(Len(pipe)))
    /\ session' = Unseeded

Crash ==
    \/ CrashSeeded
    \/ \E k \in 0 .. Len(pipe) - 1 : CrashUnsent(k)
    \/ CrashUnseeded

RestartNext == SysNext \/ Crash

RestartSpec == SysInit /\ [][RestartNext]_sysVars

-----------------------------------------------------------------------------
\* A server that dies with every request written, at any point between a
\* report and the placement or the fills it announces, finds the book it left:
\* the same orders, with what they have left and the ranks they had.  (After a
\* start without watermarks the ids are given out again, and the orders that
\* have them replace the rows of older ones.)
RestartKeepsTheBook ==
    [][session' # session /\ store.kind = "database" /\ "unseeded" \notin faults
         /\ faults' \cap {"refused", "closed", "unsent"} = {} => truth' = truth]_sysVars

\* No order gets an id under which storage already knows another one, as long as
\* storage refused no report and every session was seeded with the watermarks.
IdsAreFresh ==
    [][next_assign_seq' > next_assign_seq
         /\ faults \cap {"refused", "unseeded"} = {} =>
            \A i \in store.info \cup store.resting : i.id # OrderId(next_assign_seq)]_sysVars
=============================================================================
