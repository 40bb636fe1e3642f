----------------------------- MODULE TokenCache ------------------------------
(***************************************************************************)
(* TokenCache: a bounded list of entries with an expiry, hot end first.    *)
(* New entries enter at the tail, a hit moves one step towards the head,   *)
(* room is made at the tail.  A cache is a sequence of                     *)
(* [key, expiry, bytes]; the operations return the new sequence.           *)
(***************************************************************************)
EXTENDS Collections, FiniteSetsExt

CONSTANTS MaxBytes,   \* byte budget, 0 for none
          MaxPurge    \* expired entries reclaimed per insert, 0 for no limit

ASSUME CacheConstants == MaxBytes \in Nat /\ MaxPurge \in Nat

Keys(cache) == {cache[i].key : i \in DOMAIN cache}

Position(cache, c) == CHOOSE i \in DOMAIN cache : cache[i].key = c

Bytes(cache) == SumFunctionOnSet([i \in DOMAIN cache |-> cache[i].bytes], DOMAIN cache)

Live(cache, c, now) ==
    c \in Keys(cache) /\ now < cache[Position(cache, c)].expiry

Erase(cache, c) == KeepAt(cache, {i \in DOMAIN cache : cache[i].key # c})

\* Mutant: an expired entry is reported as a miss but stays.
LookupKeeps(cache, c, now) ==
    IF ~Live(cache, c, now) THEN cache
    ELSE LET i == Position(cache, c)
         IN IF i = 1 THEN cache ELSE [cache EXCEPT ![i] = cache[i - 1], ![i - 1] = cache[i]]

\* lookup: an expired entry is erased, a live one changes places with its
\* predecessor.
Lookup(cache, c, now) ==
    IF ~Live(cache, c, now) THEN Erase(cache, c)
    ELSE LET i == Position(cache, c)
         IN IF i = 1 THEN cache ELSE [cache EXCEPT ![i] = cache[i - 1], ![i - 1] = cache[i]]

\* purge_expired_tail
Purged(cache, now) ==
    LET keep == {k \in 0..Len(cache) :
                    /\ MaxPurge > 0 => Len(cache) - k <= MaxPurge
                    /\ \A i \in (k + 1)..Len(cache) : now >= cache[i].expiry}
    IN SubSeq(cache, 1, Min(keep))

\* The entries kept when the tail is evicted until one of `bytes` more fits.
Fitting(cache, capacity, bytes) ==
    LET fits == {k \in 0..Len(cache) :
                    /\ k < capacity
                    /\ MaxBytes > 0 => Bytes(SubSeq(cache, 1, k)) + bytes <= MaxBytes}
    IN SubSeq(cache, 1, Max(fits))

\* insert: a disabled cache and an entry already expired are left alone; the
\* expired tail goes first, then the old entry of the key, then the cold end.
Insert(cache, capacity, e, now) ==
    IF capacity = 0 \/ e.expiry <= now THEN cache
    ELSE LET rest == Erase(Purged(cache, now), e.key)
         IN IF MaxBytes > 0 /\ e.bytes > MaxBytes THEN rest
            ELSE Append(Fitting(rest, capacity, e.bytes), e)
=============================================================================
