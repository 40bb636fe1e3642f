----------------------------- MODULE AuthClient ------------------------------
(***************************************************************************)
(* AuthClient: credentials are resolved from two caches or by a pool of    *)
(* helpers with a fixed number of requests in flight each.  Requests for   *)
(* the same credential are coalesced; requests without a free helper wait  *)
(* in pending_.                                                            *)
(*                                                                         *)
(* A callback may call resolve() again (the HTTP server dispatches the     *)
(* next pipelined request from within the answer to the last), and send()  *)
(* on a closed helper calls back before it returns, so on_response can     *)
(* nest.  stack holds its activations, innermost last: the callbacks left  *)
(* to run, then drain_pending.                                             *)
(***************************************************************************)
EXTENDS TokenCache

CONSTANTS Credential,
          Helpers,          \* cfg_.concurrency
          Depth,            \* cfg_.depth
          PositiveCapacity, NegativeCapacity,
          PositiveTtl, NegativeTtl,
          SizeOf(_),        \* bytes of an entry, key and value
          HelperMayDie,
          MaxTime, MaxResolves

ASSUME AuthConstants ==
    /\ Helpers \in Nat \ {0} /\ Depth \in Nat \ {0}
    /\ IsFiniteSet(Credential) /\ \A c \in Credential : SizeOf(c) \in Nat
    /\ PositiveCapacity \in Nat /\ NegativeCapacity \in Nat
    /\ PositiveTtl \in Nat /\ NegativeTtl \in Nat
    /\ HelperMayDie \in BOOLEAN /\ MaxTime \in Nat /\ MaxResolves \in Nat

VARIABLES now, positive, negative,
          waiters,      \* callbacks waiting for each credential
          pending,      \* credentials waiting for a helper, oldest first
          outstanding,  \* per helper: credentials it was asked and has not answered
          inflight, next_helper,
          closed,       \* per helper
          stack,
          granted,      \* history: the last answer a helper gave for each credential
          served,       \* history: the answer the last step served from a cache, if any
          asked, answered \* history: calls of resolve() and of callbacks

authVars == <<now, positive, negative, waiters, pending, outstanding, inflight, next_helper,
              closed, stack, granted, served, asked, answered>>

Helper == 0..(Helpers - 1)
Never == [ok |-> FALSE, at |-> -1, until |-> -1]

AuthInit ==
    /\ now = 0 /\ positive = <<>> /\ negative = <<>>
    /\ waiters = [c \in Credential |-> 0] /\ pending = <<>>
    /\ outstanding = [h \in Helper |-> {}] /\ inflight = [h \in Helper |-> 0]
    /\ next_helper = 0 /\ closed = [h \in Helper |-> FALSE] /\ stack = <<>>
    /\ granted = [c \in Credential |-> Never] /\ served = <<>>
    /\ asked = 0 /\ answered = 0

-----------------------------------------------------------------------------

FreeHelpers == {h \in Helper : inflight[h] < Depth}

\* free_helper: the next one with a slot, round robin.
FreeHelper ==
    CHOOSE h \in FreeHelpers :
        \A g \in FreeHelpers :
            (h + Helpers - next_helper) % Helpers <= (g + Helpers - next_helper) % Helpers

\* Mutant: fan_out calls back only the first waiter.
FrameOfFirst(c, n) == [cred |-> c, left |-> Min({n, 1})]

\* fan_out takes the n callbacks waiting for c.
Frame(c, n) == [cred |-> c, left |-> n]

\* dispatch `c`, for which n callbacks wait; frames are the activations below.
\* A closed helper answers at once: on_response gives the slot back and takes
\* the waiters.
Dispatch(c, n, frames) ==
    LET h == FreeHelper
    IN /\ next_helper' = (h + 1) % Helpers
       /\ IF closed[h]
          THEN /\ waiters' = [waiters EXCEPT ![c] = 0]
               /\ stack' = Append(frames, Frame(c, n))
               /\ UNCHANGED <<outstanding, inflight>>
          ELSE /\ waiters' = [waiters EXCEPT ![c] = n]
               /\ outstanding' = [outstanding EXCEPT ![h] = @ \union {c}]
               /\ inflight' = [inflight EXCEPT ![h] = @ + 1]
               /\ stack' = frames

\* Served from a cache: the callback runs inside resolve().
Hit(c, ok, frames) ==
    /\ served' = <<[cred |-> c, ok |-> ok, at |-> now]>>
    /\ stack' = frames
    /\ UNCHANGED <<waiters, pending, outstanding, inflight, next_helper>>

\* Neither cache knows the credential: join a request under way, or start one.
Miss(c, frames) ==
    IF waiters[c] > 0 \/ FreeHelpers = {}
    THEN /\ waiters' = [waiters EXCEPT ![c] = @ + 1]
         /\ pending' = IF waiters[c] > 0 THEN pending ELSE Append(pending, c)
         /\ stack' = frames
         /\ UNCHANGED <<outstanding, inflight, next_helper>>
    ELSE Dispatch(c, 1, frames) /\ UNCHANGED pending

\* resolve(), called with the activations `frames` below it and after `done`
\* callbacks.  The negative cache is looked up only after a miss in the
\* positive one.
Resolve(c, frames, done) ==
    LET hit == Live(positive, c, now)
        denied == ~hit /\ Live(negative, c, now)
    IN /\ asked < MaxResolves
       /\ asked' = asked + 1
       /\ positive' = Lookup(positive, c, now)
       /\ negative' = IF hit THEN negative ELSE Lookup(negative, c, now)
       /\ IF hit \/ denied THEN Hit(c, hit, frames) ELSE Miss(c, frames) /\ served' = <<>>
       /\ answered' = answered + done + (IF hit \/ denied THEN 1 ELSE 0)
       /\ UNCHANGED <<now, closed, granted>>

\* Between events: nothing is being called back, and no closed helper has
\* requests left to fail.
Idle == stack = <<>> /\ \A h \in Helper : closed[h] => outstanding[h] = {}

Request(c) == Idle /\ Resolve(c, <<>>, 0)

-----------------------------------------------------------------------------
(* on_response.                                                            *)

\* The slot is free again and the waiters are taken.
Answered(h, c) ==
    /\ c \in outstanding[h]
    /\ outstanding' = [outstanding EXCEPT ![h] = @ \ {c}]
    /\ inflight' = [inflight EXCEPT ![h] = @ - 1]
    /\ waiters' = [waiters EXCEPT ![c] = 0]
    /\ stack' = <<Frame(c, waiters[c])>> /\ served' = <<>>
    /\ UNCHANGED <<now, pending, next_helper, closed, asked, answered>>

\* A grant lives until not_after, capped by the configured lifetime; until is
\* -1 when the helper sends no (or no numeric) not_after.
Expiry(until) ==
    IF until = -1 THEN now + PositiveTtl ELSE Min({now + PositiveTtl, until})

Granted(h, c, until) ==
    /\ Idle /\ ~closed[h]
    /\ Answered(h, c)
    /\ positive' = Insert(positive, PositiveCapacity,
                          [key |-> c, expiry |-> Expiry(until), bytes |-> SizeOf(c)], now)
    /\ granted' = [granted EXCEPT ![c] = [ok |-> TRUE, at |-> now, until |-> until]]
    /\ UNCHANGED negative

Denied(h, c) ==
    /\ Idle /\ ~closed[h]
    /\ Answered(h, c)
    /\ negative' = Insert(negative, NegativeCapacity,
                          [key |-> c, expiry |-> now + NegativeTtl, bytes |-> SizeOf(c)], now)
    /\ granted' = [granted EXCEPT ![c] = [ok |-> FALSE, at |-> now, until |-> -1]]
    /\ UNCHANGED positive

\* Mutant: a failed request is remembered as a denial.
FailedPinned(h, c) ==
    /\ Answered(h, c)
    /\ negative' = Insert(negative, NegativeCapacity,
                          [key |-> c, expiry |-> now + NegativeTtl, bytes |-> SizeOf(c)], now)
    /\ UNCHANGED <<positive, granted>>

\* A transport failure denies the waiters and is not cached.
Failed(h, c) ==
    /\ Answered(h, c)
    /\ UNCHANGED <<positive, negative, granted>>

\* The deadline of a request passes.
TimeOut(h, c) == Idle /\ Failed(h, c)

\* handle_close of a helper that died, and the callbacks of its requests.
HelperCloses(h) ==
    /\ HelperMayDie /\ Idle /\ ~closed[h]
    /\ closed' = [closed EXCEPT ![h] = TRUE] /\ served' = <<>>
    /\ UNCHANGED <<now, positive, negative, waiters, pending, outstanding, inflight, next_helper,
                   stack, granted, asked, answered>>

\* Mutant: handle_close forgets the requests in flight.
FailOnCloseNever(h, c) == FALSE /\ UNCHANGED authVars

FailOnClose(h, c) == stack = <<>> /\ closed[h] /\ Failed(h, c)

-----------------------------------------------------------------------------
(* The activations of on_response.                                         *)

Top == stack[Len(stack)]
Called == [stack EXCEPT ![Len(stack)].left = @ - 1]

\* fan_out runs a callback that returns.
FanOut ==
    /\ stack # <<>> /\ Top.left > 0
    /\ stack' = Called /\ served' = <<>>
    /\ answered' = answered + 1
    /\ UNCHANGED <<now, positive, negative, waiters, pending, outstanding, inflight, next_helper,
                   closed, granted, asked>>

\* fan_out runs a callback that resolves another credential.
FanOutResolves(c) ==
    /\ stack # <<>> /\ Top.left > 0
    /\ Resolve(c, Called, 1)

\* drain_pending, one turn of its loop.
DrainPending ==
    /\ stack # <<>> /\ Top.left = 0 /\ served' = <<>>
    /\ IF pending = <<>> \/ FreeHelpers = {}
       THEN /\ stack' = SubSeq(stack, 1, Len(stack) - 1)
            /\ UNCHANGED <<pending, waiters, outstanding, inflight, next_helper>>
       ELSE /\ Dispatch(Head(pending), waiters[Head(pending)], stack)
            /\ pending' = Tail(pending)
    /\ UNCHANGED <<now, positive, negative, closed, granted, asked, answered>>

Tick ==
    /\ Idle /\ now < MaxTime
    /\ now' = now + 1 /\ served' = <<>>
    /\ UNCHANGED <<positive, negative, waiters, pending, outstanding, inflight, next_helper,
                   closed, stack, granted, asked, answered>>

AuthNext ==
    \/ \E c \in Credential : Request(c) \/ FanOutResolves(c)
    \/ \E h \in Helper : \E c \in outstanding[h] :
          \/ \E until \in {-1, now, now + 1} : Granted(h, c, until)
          \/ Denied(h, c)
          \/ TimeOut(h, c)
          \/ FailOnClose(h, c)
    \/ \E h \in Helper : HelperCloses(h)
    \/ FanOut
    \/ DrainPending
    \/ Tick

AuthSpec == AuthInit /\ [][AuthNext]_authVars

\* The loop runs every callback, and the sweep of HelperClient fails a request
\* whose deadline has passed even if its helper never answers.
AuthFairSpec ==
    /\ AuthSpec
    /\ WF_authVars(FanOut) /\ WF_authVars(DrainPending)
    /\ \A h \in Helper : \A c \in Credential :
          WF_authVars(TimeOut(h, c)) /\ WF_authVars(FailOnClose(h, c))

-----------------------------------------------------------------------------
(* Properties.                                                             *)

IsCache(cache, capacity) ==
    /\ Len(cache) <= capacity
    /\ MaxBytes > 0 => Bytes(cache) <= MaxBytes
    /\ Cardinality(Keys(cache)) = Len(cache)

\* The caches stay within their entry and byte budgets.  No credential is both
\* granted and denied in them, and one that is being resolved is in neither:
\* an answer never meets an older one.
CachesNeverDisagree ==
    /\ IsCache(positive, PositiveCapacity) /\ IsCache(negative, NegativeCapacity)
    /\ Keys(positive) \intersect Keys(negative) = {}
    /\ \A c \in Credential : waiters[c] > 0 => c \notin Keys(positive) \union Keys(negative)

\* The callbacks that the activations in `frames` have left to run.
LeftToCall(frames) ==
    SumFunctionOnSet([i \in DOMAIN frames |-> frames[i].left], DOMAIN frames)

\* Every call of resolve() is answered once: by a cache, or by the callback it
\* left with the waiters or in an activation.
CalledBackOncePerResolve ==
    asked = answered + SumFunctionOnSet(waiters, Credential) + LeftToCall(stack)

\* What a cache serves is what a helper last said of the credential, before
\* its not_after and the configured lifetime have passed; a failed request is
\* never served as a denial.
ServedIsGranted ==
    [][served' # <<>> =>
         LET a == served'[1]  g == granted[a.cred]
         IN /\ g.at >= 0 /\ g.ok = a.ok
            /\ a.ok => now < g.at + PositiveTtl /\ (g.until # -1 => now < g.until)
            /\ ~a.ok => now < g.at + NegativeTtl]_authVars

\* Every waiting caller is answered, whatever helpers answer, hang or die.
EveryWaiterIsAnswered ==
    \A c \in Credential : waiters[c] > 0 ~> waiters[c] = 0
=============================================================================
