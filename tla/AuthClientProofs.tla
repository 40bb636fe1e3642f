-------------------------- MODULE AuthClientProofs --------------------------
(***************************************************************************)
(* The caches of AuthClient agree with each other and with the helpers'    *)
(* answers, and every call of resolve() is answered once, whatever helpers *)
(* answer, time out or close, and however callbacks nest.                  *)
(***************************************************************************)
EXTENDS AuthClient, CollectionsProofs

Entry == [key : Credential, expiry : Int, bytes : Nat]

DistinctKeys(cache) == \A i, j \in DOMAIN cache : cache[i].key = cache[j].key => i = j

BytesAt(cache) == [i \in DOMAIN cache |-> cache[i].bytes]

\* q holds entries of the cache, each at most once, and weighs no more.
PartOf(q, cache) ==
    /\ q \in Seq(Entry) /\ Len(q) <= Len(cache)
    /\ \A i \in DOMAIN q : \E j \in DOMAIN cache : q[i] = cache[j]
    /\ DistinctKeys(cache) => DistinctKeys(q)
    /\ Bytes(q) <= Bytes(cache)

\* What a cache weighs is a number, and it grows with its entries.
LEMMA BytesType ==
    ASSUME NEW cache \in Seq(Entry)
    PROVE  /\ IsFiniteSet(DOMAIN cache) /\ Cardinality(DOMAIN cache) = Len(cache)
           /\ NatOn(BytesAt(cache), DOMAIN cache) /\ IntOn(BytesAt(cache), DOMAIN cache)
           /\ Bytes(cache) = SumFunctionOnSet(BytesAt(cache), DOMAIN cache)
           /\ Bytes(cache) \in Nat
<1>1. DOMAIN cache = 1..Len(cache) /\ Len(cache) \in Nat
    OBVIOUS
<1>2. IsFiniteSet(DOMAIN cache) /\ Cardinality(DOMAIN cache) = Len(cache)
    BY <1>1, FS_Interval, SMTT(30)
<1>3. \A i \in DOMAIN cache : cache[i] \in Entry
    OBVIOUS
<1>4. NatOn(BytesAt(cache), DOMAIN cache) /\ IntOn(BytesAt(cache), DOMAIN cache)
    BY <1>3 DEF NatOn, IntOn, BytesAt, Entry
<1>5. Bytes(cache) = SumFunctionOnSet(BytesAt(cache), DOMAIN cache)
    BY Zenon DEF Bytes, BytesAt
<1> QED
    BY <1>2, <1>4, <1>5, SumNat, Zenon

\* Taking entries at different places of a cache makes a part of it.
LEMMA PartByIndices ==
    ASSUME NEW cache \in Seq(Entry), NEW q \in Seq(Entry), NEW K \in SUBSET DOMAIN cache,
           NEW b \in Bijection(DOMAIN q, K), \A i \in DOMAIN q : q[i] = cache[b[i]]
    PROVE  PartOf(q, cache)
<1>0. /\ \A i \in DOMAIN q : b[i] \in K
      /\ \A i, j \in DOMAIN q : b[i] = b[j] => i = j
    BY Zenon DEF Bijection, Injection, Surjection, IsInjective
<1>1. /\ IsFiniteSet(DOMAIN q) /\ Cardinality(DOMAIN q) = Len(q)
      /\ IsFiniteSet(DOMAIN cache) /\ Cardinality(DOMAIN cache) = Len(cache)
    BY BytesType, Zenon
<1>2. IsFiniteSet(K) /\ Cardinality(K) <= Cardinality(DOMAIN cache)
    BY <1>1, FS_Subset, Zenon
<1>3. Cardinality(DOMAIN q) = Cardinality(K)
    BY <1>1, <1>2, FS_Bijection, Zenon DEF ExistsBijection
<1>4. Len(q) <= Len(cache)
    BY <1>1, <1>2, <1>3, Zenon
<1>5. \A i \in DOMAIN q : \E j \in DOMAIN cache : q[i] = cache[j]
    BY <1>0, Zenon
<1>6. DistinctKeys(cache) => DistinctKeys(q)
    BY <1>0 DEF DistinctKeys
<1>7. Bytes(q) <= Bytes(cache)
  <2>1. NatOn(BytesAt(cache), DOMAIN cache) /\ IntOn(BytesAt(cache), K)
      BY BytesType, Zenon DEF IntOn
  <2>2. \A i \in DOMAIN q : BytesAt(q)[i] = BytesAt(cache)[b[i]]
      BY <1>0, Zenon DEF BytesAt
  <2>3. SumFunctionOnSet(BytesAt(q), DOMAIN q) = SumFunctionOnSet(BytesAt(cache), K)
      BY <1>1, <2>1, <2>2, SumImage
  <2>4. SumFunctionOnSet(BytesAt(cache), K) <= SumFunctionOnSet(BytesAt(cache), DOMAIN cache)
      BY <1>1, <2>1, SumSubset, Zenon
  <2> QED
      BY <2>3, <2>4, BytesType, Zenon
<1> QED
    BY <1>4, <1>5, <1>6, <1>7, Zenon DEF PartOf

\* A part of a part is a part.
LEMMA PartOfPart ==
    ASSUME NEW cache \in Seq(Entry), NEW p, NEW q, PartOf(p, cache), PartOf(q, p)
    PROVE  PartOf(q, cache)
<1>1. p \in Seq(Entry) /\ q \in Seq(Entry)
    BY Zenon DEF PartOf
<1>2. Bytes(p) \in Nat /\ Bytes(q) \in Nat /\ Bytes(cache) \in Nat
    BY <1>1, BytesType, Zenon
<1>3. \A i \in DOMAIN q : \E j \in DOMAIN cache : q[i] = cache[j]
    BY Zenon DEF PartOf
<1> QED
    BY <1>1, <1>2, <1>3 DEF PartOf

\* erase() takes out the entry of the key and nothing else.
LEMMA EraseTakesOut ==
    ASSUME NEW cache \in Seq(Entry), NEW c
    PROVE  PartOf(Erase(cache, c), cache) /\ Keys(Erase(cache, c)) = Keys(cache) \ {c}
<1>1. PICK K : K = {i \in DOMAIN cache : cache[i].key # c}
    BY Zenon
<1>2. K \in SUBSET DOMAIN cache /\ \A i \in DOMAIN cache : i \in K <=> cache[i].key # c
    BY <1>1, Zenon
<1>3. Erase(cache, c) = KeepAt(cache, K)
    BY <1>1, Zenon DEF Erase
<1>4. PICK q, b : q = KeepAt(cache, K) /\ b = Ascending(K)
    BY Zenon
<1>5. /\ q \in Seq(Entry) /\ b \in Bijection(DOMAIN q, K)
      /\ \A i \in DOMAIN q : q[i] = cache[b[i]]
    BY <1>2, <1>4, KeepAtKeeps
<1>6. PartOf(q, cache)
    BY <1>2, <1>5, PartByIndices, Zenon
<1>7. /\ \A i \in DOMAIN q : b[i] \in K
      /\ \A k \in K : \E i \in DOMAIN q : b[i] = k
    BY <1>5, Zenon DEF Bijection, Injection, Surjection, IsInjective
<1>8. Keys(q) = Keys(cache) \ {c}
    BY <1>2, <1>5, <1>7 DEF Keys
<1> QED
    BY <1>3, <1>4, <1>6, <1>8, Zenon

\* The hot end of a cache is a part of it.
LEMMA PrefixIsPart ==
    ASSUME NEW cache \in Seq(Entry), NEW k \in 0..Len(cache)
    PROVE  PartOf(SubSeq(cache, 1, k), cache)
<1>1. PICK q : q = SubSeq(cache, 1, k)
    BY Zenon
<1>2. /\ q \in Seq(Entry) /\ DOMAIN q = 1..k /\ 1..k \in SUBSET DOMAIN cache
      /\ \A i \in 1..k : q[i] = cache[i]
    BY <1>1
<1>3. PICK b : b = [i \in 1..k |-> i]
    BY Zenon
<1>4. b \in Bijection(DOMAIN q, 1..k) /\ \A i \in DOMAIN q : q[i] = cache[b[i]]
    BY <1>2, <1>3, Zenon DEF Bijection, Injection, Surjection, IsInjective
<1>5. PartOf(q, cache)
    BY <1>2, <1>4, PartByIndices, Zenon
<1> QED
    BY <1>1, <1>5, Zenon

\* The place of a key in a cache that holds it.
LEMMA PositionIs ==
    ASSUME NEW cache \in Seq(Entry), NEW c, c \in Keys(cache)
    PROVE  Position(cache, c) \in DOMAIN cache /\ cache[Position(cache, c)].key = c
<1>1. \E i \in DOMAIN cache : cache[i].key = c
    BY Zenon DEF Keys
<1> QED
    BY <1>1, Zenon DEF Position

\* lookup() keeps the live entries: it erases the entry of the key when it is
\* not live, and moves it when it is.
LEMMA LookupKeepsParts ==
    ASSUME NEW cache \in Seq(Entry), NEW c, NEW time
    PROVE  /\ PartOf(Lookup(cache, c, time), cache)
           /\ ~Live(cache, c, time) => c \notin Keys(Lookup(cache, c, time))
<1>1. CASE ~Live(cache, c, time)
    BY <1>1, EraseTakesOut, Zenon DEF Lookup
<1>2. CASE Live(cache, c, time)
  <2>1. PICK i : i = Position(cache, c)
      BY Zenon
  <2>2. i \in DOMAIN cache
      BY <1>2, <2>1, PositionIs, Zenon DEF Live
  <2>3. PICK b : b = [k \in DOMAIN cache |-> IF i = 1 THEN k
                                             ELSE IF k = i THEN i - 1
                                             ELSE IF k = i - 1 THEN i ELSE k]
      BY Zenon
  <2>4. PICK q : q = Lookup(cache, c, time)
      BY Zenon
  <2>5. q = IF i = 1 THEN cache ELSE [cache EXCEPT ![i] = cache[i - 1], ![i - 1] = cache[i]]
      BY <1>2, <2>1, <2>4, Zenon DEF Lookup
  <2>6. /\ DOMAIN cache = 1..Len(cache) /\ Len(cache) \in Nat
        /\ \A k \in DOMAIN cache : cache[k] \in Entry
      OBVIOUS
  <2>7. DOMAIN q = DOMAIN cache /\ \A k \in DOMAIN cache : q[k] = cache[b[k]] /\ b[k] \in DOMAIN cache
      BY <2>2, <2>3, <2>5, <2>6
  <2>8. q \in Seq(Entry)
    <3>1. q \in [1..Len(cache) -> Entry]
      <4>1. CASE i = 1
          BY <4>1, <2>5, <2>6
      <4>2. CASE i # 1
          BY <4>2, <2>2, <2>5, <2>6
      <4> QED
          BY <4>1, <4>2, Zenon
    <3> QED
        BY <3>1, <2>6
  <2>9. b \in Bijection(DOMAIN q, DOMAIN cache)
    <3>1. b \in [DOMAIN cache -> DOMAIN cache]
        BY <2>2, <2>3, <2>6
    <3>2. \A k \in DOMAIN cache : b[b[k]] = k
        BY <2>2, <2>3, <2>6
    <3> QED
        BY <2>7, <3>1, <3>2, Zenon DEF Bijection, Injection, Surjection, IsInjective
  <2>10. PartOf(q, cache)
      BY <2>7, <2>8, <2>9, PartByIndices
  <2> QED
      BY <1>2, <2>4, <2>10, Zenon
<1> QED
    BY <1>1, <1>2, Zenon

\* purge_expired_tail() leaves the hot end.
LEMMA PurgedIsPart ==
    ASSUME NEW cache \in Seq(Entry), NEW time
    PROVE  PartOf(Purged(cache, time), cache)
<1>1. PICK keep : keep = {k \in 0..Len(cache) :
                            /\ MaxPurge > 0 => Len(cache) - k <= MaxPurge
                            /\ \A i \in (k + 1)..Len(cache) : time >= cache[i].expiry}
    BY Zenon
<1>2. Len(cache) \in Nat /\ keep \subseteq 0..Len(cache) /\ Len(cache) \in keep
    BY <1>1, CacheConstants
<1>3. IsFiniteSet(keep) /\ keep # {} /\ keep \subseteq Int
  <2>1. IsFiniteSet(0..Len(cache))
      BY <1>2, FS_Interval
  <2>2. IsFiniteSet(keep)
      BY <1>2, <2>1, FS_Subset, Zenon
  <2> QED
      BY <1>2, <2>2
<1>4. Min(keep) \in 0..Len(cache)
    BY <1>2, <1>3, MinIsSmallest, Zenon
<1>5. Purged(cache, time) = SubSeq(cache, 1, Min(keep))
    BY <1>1, Zenon DEF Purged
<1> QED
    BY <1>4, <1>5, PrefixIsPart, Zenon

\* Evicting the cold end makes room for one more entry of `bytes`.
LEMMA FittingFits ==
    ASSUME NEW cache \in Seq(Entry), NEW capacity \in Nat \ {0}, NEW bytes \in Nat,
           ~(MaxBytes > 0 /\ bytes > MaxBytes)
    PROVE  LET q == Fitting(cache, capacity, bytes)
           IN /\ PartOf(q, cache) /\ Len(q) < capacity
              /\ MaxBytes > 0 => Bytes(q) + bytes <= MaxBytes
<1>1. PICK fits : fits = {k \in 0..Len(cache) :
                            /\ k < capacity
                            /\ MaxBytes > 0 => Bytes(SubSeq(cache, 1, k)) + bytes <= MaxBytes}
    BY Zenon
<1>2. Bytes(SubSeq(cache, 1, 0)) = 0
  <2>1. SubSeq(cache, 1, 0) = <<>> /\ DOMAIN <<>> = {}
      OBVIOUS
  <2>2. SumFunctionOnSet([i \in {} |-> <<>>[i].bytes], {}) = 0
      BY SumRec, FS_EmptySet, Zenon
  <2> QED
      BY <2>1, <2>2, Zenon DEF Bytes
<1>3. Len(cache) \in Nat /\ fits \subseteq 0..Len(cache) /\ 0 \in fits
    BY <1>1, <1>2, CacheConstants
<1>4. IsFiniteSet(fits) /\ fits # {} /\ fits \subseteq Int
  <2>1. IsFiniteSet(0..Len(cache))
      BY <1>3, FS_Interval
  <2>2. IsFiniteSet(fits)
      BY <1>3, <2>1, FS_Subset, Zenon
  <2> QED
      BY <1>3, <2>2
<1>5. PICK k : k = Max(fits)
    BY Zenon
<1>6. k \in fits
    BY <1>4, <1>5, MaxIsLargest, Zenon
<1>7. PICK q : q = SubSeq(cache, 1, k)
    BY Zenon
<1>8. Fitting(cache, capacity, bytes) = q
    BY <1>1, <1>5, <1>7, Zenon DEF Fitting
<1>9. PartOf(q, cache) /\ Len(q) = k
    BY <1>3, <1>6, <1>7, PrefixIsPart
<1>10. k < capacity /\ (MaxBytes > 0 => Bytes(q) + bytes <= MaxBytes)
    BY <1>1, <1>6, <1>7, Zenon
<1> QED
    BY <1>8, <1>9, <1>10, Zenon

\* One more entry weighs what it weighs.
LEMMA BytesAppend ==
    ASSUME NEW cache \in Seq(Entry), NEW e \in Entry
    PROVE  Bytes(Append(cache, e)) = Bytes(cache) + e.bytes
<1>1. PICK q, n : q = Append(cache, e) /\ n = Len(cache) + 1
    BY Zenon
<1>2. /\ q \in Seq(Entry) /\ n \in Nat /\ DOMAIN cache = 1..Len(cache) /\ Len(cache) \in Nat
      /\ DOMAIN q = DOMAIN cache \cup {n} /\ n \notin DOMAIN cache
      /\ \A i \in DOMAIN cache : q[i] = cache[i]
      /\ q[n] = e
    BY <1>1
<1>3. SumFunctionOnSet(BytesAt(q), DOMAIN cache \cup {n})
        = SumFunctionOnSet(BytesAt(q), DOMAIN cache) + BytesAt(q)[n]
  <2>1. IsFiniteSet(DOMAIN cache) /\ IntOn(BytesAt(q), DOMAIN cache \cup {n})
      BY <1>2, BytesType, Zenon
  <2> QED
      BY <1>2, <2>1, SumAdd, Zenon
<1>4. SumFunctionOnSet(BytesAt(q), DOMAIN cache) = SumFunctionOnSet(BytesAt(cache), DOMAIN cache)
  <2>1. IsFiniteSet(DOMAIN cache) /\ IntOn(BytesAt(cache), DOMAIN cache)
      BY BytesType, Zenon
  <2>2. \A i \in DOMAIN cache : BytesAt(cache)[i] = BytesAt(q)[i]
      BY <1>2, Zenon DEF BytesAt
  <2> QED
      BY <2>1, <2>2, SumSame
<1>5. BytesAt(q)[n] = e.bytes
    BY <1>2, Zenon DEF BytesAt
<1> QED
    BY <1>1, <1>2, <1>3, <1>4, <1>5, BytesType, Zenon

\* The budgets of a cache, and one entry per key.
InBudget(cache, capacity) ==
    /\ DistinctKeys(cache)
    /\ Len(cache) <= capacity
    /\ MaxBytes > 0 => Bytes(cache) <= MaxBytes

\* A part of a cache that is in its budgets is.
LEMMA PartInBudget ==
    ASSUME NEW cache \in Seq(Entry), NEW capacity \in Nat, NEW q, PartOf(q, cache),
           InBudget(cache, capacity)
    PROVE  InBudget(q, capacity)
<1>1. q \in Seq(Entry) /\ Bytes(q) \in Nat /\ Bytes(cache) \in Nat
    BY BytesType, Zenon DEF PartOf
<1> QED
    BY <1>1, CacheConstants DEF PartOf, InBudget

\* insert() keeps a cache in its budgets, and adds no entry but the new one.
LEMMA InsertKeeps ==
    ASSUME NEW cache \in Seq(Entry), NEW capacity \in Nat, InBudget(cache, capacity),
           NEW e \in Entry, NEW time
    PROVE  LET q == Insert(cache, capacity, e, time)
           IN /\ q \in Seq(Entry) /\ InBudget(q, capacity)
              /\ \A i \in DOMAIN q : q[i] = e \/ \E j \in DOMAIN cache : q[i] = cache[j]
<1>1. CASE capacity = 0 \/ e.expiry <= time
    BY <1>1, Zenon DEF Insert
<1>2. CASE ~(capacity = 0 \/ e.expiry <= time)
  <2>1. PICK rest : rest = Erase(Purged(cache, time), e.key)
      BY Zenon
  <2>2. PartOf(rest, cache) /\ rest \in Seq(Entry) /\ e.key \notin Keys(rest)
    <3>1. PartOf(Purged(cache, time), cache)
        BY PurgedIsPart, Zenon
    <3>2. Purged(cache, time) \in Seq(Entry)
        BY <3>1, Zenon DEF PartOf
    <3>3. PartOf(rest, Purged(cache, time)) /\ e.key \notin Keys(rest)
        BY <2>1, <3>2, EraseTakesOut, Zenon
    <3> QED
        BY <3>1, <3>3, PartOfPart DEF PartOf
  <2>3. InBudget(rest, capacity)
      BY <2>2, PartInBudget, Zenon
  <2>4. CASE MaxBytes > 0 /\ e.bytes > MaxBytes
    <3>1. Insert(cache, capacity, e, time) = rest
        BY <1>2, <2>1, <2>4, Zenon DEF Insert
    <3> QED
        BY <2>2, <2>3, <3>1, Zenon DEF PartOf
  <2>5. CASE ~(MaxBytes > 0 /\ e.bytes > MaxBytes)
    <3>1. PICK f : f = Fitting(rest, capacity, e.bytes)
        BY Zenon
    <3>2. /\ PartOf(f, rest) /\ Len(f) < capacity
          /\ MaxBytes > 0 => Bytes(f) + e.bytes <= MaxBytes
      <4>1. capacity \in Nat \ {0} /\ e.bytes \in Nat
          BY <1>2, Zenon DEF Entry
      <4> QED
          BY <2>2, <2>5, <3>1, <4>1, FittingFits, Zenon
    <3>3. f \in Seq(Entry) /\ PartOf(f, cache) /\ DistinctKeys(f) /\ e.key \notin Keys(f)
      <4>0. f \in Seq(Entry)
          BY <3>2, Zenon DEF PartOf
      <4>1. f \in Seq(Entry) /\ PartOf(f, cache)
          BY <2>2, <3>2, <4>0, PartOfPart, Zenon
      <4>2. DistinctKeys(f)
          BY <2>3, <3>2, Zenon DEF PartOf, InBudget
      <4>3. e.key \notin Keys(f)
          BY <2>2, <3>2 DEF PartOf, Keys
      <4> QED
          BY <4>1, <4>2, <4>3, Zenon
    <3>4. PICK q : q = Append(f, e)
        BY Zenon
    <3>5. Insert(cache, capacity, e, time) = q
        BY <1>2, <2>1, <2>5, <3>1, <3>4, Zenon DEF Insert
    <3>6. /\ q \in Seq(Entry) /\ Len(f) \in Nat /\ Len(q) = Len(f) + 1
          /\ DOMAIN f = 1..Len(f) /\ DOMAIN q = 1..(Len(f) + 1)
          /\ \A i \in DOMAIN f : q[i] = f[i]
          /\ q[Len(f) + 1] = e
        BY <3>3, <3>4
    <3>7. DistinctKeys(q)
      <4>1. \A i \in DOMAIN f : f[i].key # e.key
          BY <3>3, Zenon DEF Keys
      <4>2. \A i \in DOMAIN q : i \in DOMAIN f \/ i = Len(f) + 1
          BY <3>6
      <4> QED
          BY <3>3, <3>6, <4>1, <4>2, Zenon DEF DistinctKeys
    <3>8. MaxBytes > 0 => Bytes(q) <= MaxBytes
        BY <3>2, <3>3, <3>4, BytesAppend, Zenon
    <3>9. Len(q) <= capacity
        BY <3>2, <3>6
    <3>10. \A i \in DOMAIN q : q[i] = e \/ \E j \in DOMAIN cache : q[i] = cache[j]
      <4>1. \A i \in DOMAIN q : i \in DOMAIN f \/ i = Len(f) + 1
          BY <3>6
      <4> QED
          BY <3>3, <3>6, <4>1, Zenon DEF PartOf
    <3> QED
        BY <3>5, <3>6, <3>7, <3>8, <3>9, <3>10, Zenon DEF InBudget
  <2> QED
      BY <2>4, <2>5, Zenon
<1> QED
    BY <1>1, <1>2, Zenon

-----------------------------------------------------------------------------
(* The inductive invariant.                                                *)

Activation == [cred : Credential, left : Nat]
Answer == [ok : BOOLEAN, at : Int, until : Int]

\* The state of the client is of the types its code declares.
AuthTypeOK ==
    /\ now \in Nat
    /\ positive \in Seq(Entry) /\ negative \in Seq(Entry)
    /\ waiters \in [Credential -> Nat]
    /\ pending \in Seq(Credential)
    /\ outstanding \in [Helper -> SUBSET Credential]
    /\ inflight \in [Helper -> Nat] /\ next_helper \in Helper
    /\ closed \in [Helper -> BOOLEAN]
    /\ stack \in Seq(Activation)
    /\ granted \in [Credential -> Answer]
    /\ asked \in Nat /\ answered \in Nat

\* A credential with waiters is the business of one request at most: it is
\* pending once, or with one helper.
OneRequestEach ==
    /\ \A h \in Helper : \A c \in outstanding[h] : waiters[c] > 0
    /\ \A i \in DOMAIN pending : waiters[pending[i]] > 0
    /\ \A i, j \in DOMAIN pending : pending[i] = pending[j] => i = j
    /\ \A h \in Helper : \A i \in DOMAIN pending : pending[i] \notin outstanding[h]
    /\ \A h, g \in Helper : h # g => outstanding[h] \cap outstanding[g] = {}

\* inflight counts the requests a helper has not answered, and depth bounds it.
SlotsAreCounted ==
    \A h \in Helper : /\ inflight[h] = Cardinality(outstanding[h])
                      /\ inflight[h] <= Depth

\* An entry of the positive cache is what a helper last said of its key.
GrantBacked(e) ==
    LET g == granted[e.key]
    IN /\ g.ok /\ g.at >= 0 /\ e.expiry <= g.at + PositiveTtl
       /\ g.until # -1 => e.expiry <= g.until

\* The same of an entry of the negative cache.
DenialBacked(e) ==
    LET g == granted[e.key]
    IN ~g.ok /\ g.at >= 0 /\ e.expiry <= g.at + NegativeTtl

\* Both caches are in their budgets, hold what helpers said, and know nothing
\* of a credential that is being resolved, nor the same one.
CachesInv ==
    /\ InBudget(positive, PositiveCapacity) /\ InBudget(negative, NegativeCapacity)
    /\ \A i \in DOMAIN positive : GrantBacked(positive[i])
    /\ \A i \in DOMAIN negative : DenialBacked(negative[i])
    /\ Keys(positive) \cap Keys(negative) = {}
    /\ \A c \in Credential : waiters[c] > 0 => c \notin Keys(positive) \cup Keys(negative)

AuthInv == AuthTypeOK /\ OneRequestEach /\ SlotsAreCounted /\ CachesInv /\ CalledBackOncePerResolve

-----------------------------------------------------------------------------
(* What the steps do to the counts.                                        *)

\* Giving one credential a number of waiters changes the total by as much.
LEMMA SumChanges ==
    ASSUME NEW S, IsFiniteSet(S), NEW f \in [S -> Nat], NEW g \in [S -> Nat], NEW c \in S,
           \A x \in S \ {c} : g[x] = f[x]
    PROVE  /\ SumFunctionOnSet(f, S) \in Nat
           /\ SumFunctionOnSet(g, S) = SumFunctionOnSet(f, S) - f[c] + g[c]
<1>2. /\ IntOn(f, S) /\ IntOn(g, S) /\ NatOn(f, S) /\ IntOn(f, S \ {c})
      /\ g[c] \in Nat /\ f[c] \in Nat
    BY DEF IntOn, NatOn
<1>3. SumFunctionOnSet(f, S) = f[c] + SumFunctionOnSet(f, S \ {c})
    BY <1>2, SumRemove
<1>4. SumFunctionOnSet(g, S) = g[c] + SumFunctionOnSet(g, S \ {c})
    BY <1>2, SumRemove
<1>5. SumFunctionOnSet(f, S \ {c}) = SumFunctionOnSet(g, S \ {c})
  <2>1. IsFiniteSet(S \ {c}) /\ \A x \in S \ {c} : f[x] = g[x]
      BY FS_Subset, Zenon
  <2> QED
      BY <1>2, <2>1, SumSame, Zenon
<1>6. SumFunctionOnSet(f, S) \in Nat /\ SumFunctionOnSet(f, S \ {c}) \in Int
  <2>1. IsFiniteSet(S \ {c})
      BY FS_Subset, Zenon
  <2> QED
      BY <1>2, <2>1, SumNat, SumInt, Zenon
<1> QED
    BY <1>2, <1>3, <1>4, <1>5, <1>6

LeftAt(frames) == [i \in DOMAIN frames |-> frames[i].left]

\* The callbacks left in a stack of activations.
LEMMA LeftType ==
    ASSUME NEW frames \in Seq(Activation)
    PROVE  /\ DOMAIN frames = 1..Len(frames) /\ Len(frames) \in Nat
           /\ IsFiniteSet(DOMAIN frames)
           /\ LeftAt(frames) \in [DOMAIN frames -> Nat]
           /\ LeftToCall(frames) = SumFunctionOnSet(LeftAt(frames), DOMAIN frames)
           /\ LeftToCall(frames) \in Nat
<1>1. DOMAIN frames = 1..Len(frames) /\ Len(frames) \in Nat
    OBVIOUS
<1>2. IsFiniteSet(DOMAIN frames)
    BY <1>1, FS_Interval
<1>3. \A i \in DOMAIN frames : frames[i] \in Activation
    OBVIOUS
<1>4. LeftAt(frames) \in [DOMAIN frames -> Nat] /\ NatOn(LeftAt(frames), DOMAIN frames)
    BY <1>3, Zenon DEF LeftAt, Activation, NatOn
<1>5. LeftToCall(frames) = SumFunctionOnSet(LeftAt(frames), DOMAIN frames)
    BY Zenon DEF LeftToCall, LeftAt
<1> QED
    BY <1>1, <1>2, <1>4, <1>5, SumNat, Zenon

\* An activation of on_response brings its callbacks.
LEMMA LeftAppend ==
    ASSUME NEW frames \in Seq(Activation), NEW a \in Activation
    PROVE  LeftToCall(Append(frames, a)) = LeftToCall(frames) + a.left
<1>1. PICK q, n : q = Append(frames, a) /\ n = Len(frames) + 1
    BY Zenon
<1>2. /\ q \in Seq(Activation) /\ DOMAIN q = DOMAIN frames \cup {n} /\ n \notin DOMAIN frames
      /\ \A i \in DOMAIN frames : q[i] = frames[i]
      /\ q[n] = a
    BY <1>1
<1>3. /\ IsFiniteSet(DOMAIN frames) /\ IntOn(LeftAt(q), DOMAIN frames \cup {n})
      /\ IntOn(LeftAt(frames), DOMAIN frames)
    BY <1>2, LeftType DEF IntOn
<1>4. SumFunctionOnSet(LeftAt(q), DOMAIN frames \cup {n})
        = SumFunctionOnSet(LeftAt(q), DOMAIN frames) + LeftAt(q)[n]
    BY <1>2, <1>3, SumAdd, Zenon
<1>5. \A i \in DOMAIN frames : LeftAt(frames)[i] = LeftAt(q)[i]
    BY <1>2, Zenon DEF LeftAt
<1>6. SumFunctionOnSet(LeftAt(frames), DOMAIN frames) = SumFunctionOnSet(LeftAt(q), DOMAIN frames)
    BY <1>3, <1>5, SumSame, Zenon
<1>7. LeftAt(q)[n] = a.left
    BY <1>2, Zenon DEF LeftAt
<1> QED
    BY <1>1, <1>2, <1>4, <1>6, <1>7, LeftType, Zenon

\* fan_out runs one callback of the innermost activation.
LEMMA LeftCalled ==
    ASSUME stack \in Seq(Activation), stack # <<>>, Top.left > 0
    PROVE  Called \in Seq(Activation) /\ LeftToCall(Called) = LeftToCall(stack) - 1
<1>1. PICK q, n : q = Called /\ n = Len(stack)
    BY Zenon
<1>2. /\ DOMAIN stack = 1..Len(stack) /\ n \in DOMAIN stack /\ stack[n] \in Activation
      /\ Top = stack[n]
    BY <1>1 DEF Top
<1>3. stack[n].left \in Nat /\ stack[n].left - 1 \in Nat /\ stack[n].cred \in Credential
    BY <1>2 DEF Activation
<1>4. q = [stack EXCEPT ![n] = [stack[n] EXCEPT !.left = stack[n].left - 1]]
    BY <1>1, Zenon DEF Called
<1>5. [stack[n] EXCEPT !.left = stack[n].left - 1] \in Activation
    BY <1>2, <1>3, Zenon DEF Activation
<1>6. /\ q \in Seq(Activation) /\ DOMAIN q = DOMAIN stack
      /\ \A i \in DOMAIN stack \ {n} : q[i] = stack[i]
    BY <1>2, <1>4, <1>5
<1>7. q[n].left = stack[n].left - 1
    BY <1>2, <1>4, Zenon DEF Activation
<1>9. LeftAt(stack)[n] = stack[n].left
    BY <1>2, Zenon DEF LeftAt
<1>10. /\ IsFiniteSet(DOMAIN stack) /\ LeftAt(stack) \in [DOMAIN stack -> Nat]
       /\ LeftToCall(stack) = SumFunctionOnSet(LeftAt(stack), DOMAIN stack)
       /\ LeftToCall(stack) \in Nat
    BY LeftType, Zenon
<1>11. LeftToCall(q) = SumFunctionOnSet(LeftAt(q), DOMAIN stack)
    BY <1>6, LeftType, Zenon
<1>12. SumFunctionOnSet(LeftAt(q), DOMAIN stack)
         = SumFunctionOnSet(LeftAt(stack), DOMAIN stack) - stack[n].left + (stack[n].left - 1)
  <2>1. LeftAt(q) \in [DOMAIN stack -> Nat] /\ LeftAt(q)[n] = stack[n].left - 1
      BY <1>2, <1>6, <1>7, LeftType, Zenon DEF LeftAt
  <2>2. \A x \in DOMAIN stack \ {n} : LeftAt(q)[x] = LeftAt(stack)[x]
      BY <1>6, Zenon DEF LeftAt
  <2>3. PICK D, f, g : D = DOMAIN stack /\ f = LeftAt(stack) /\ g = LeftAt(q)
      BY Zenon
  <2>4. /\ IsFiniteSet(D) /\ f \in [D -> Nat] /\ g \in [D -> Nat] /\ n \in D
        /\ \A x \in D \ {n} : g[x] = f[x]
      BY <1>2, <1>10, <2>1, <2>2, <2>3, Zenon
  <2>5. SumFunctionOnSet(g, D) = SumFunctionOnSet(f, D) - f[n] + g[n]
      BY <2>4, SumChanges
  <2> QED
      BY <1>9, <2>1, <2>3, <2>5, Zenon
<1> QED
    BY <1>1, <1>3, <1>6, <1>10, <1>11, <1>12, SMTT(30)

\* The innermost activation returns when it has no callback left.
LEMMA LeftReturned ==
    ASSUME stack \in Seq(Activation), stack # <<>>, Top.left = 0
    PROVE  /\ SubSeq(stack, 1, Len(stack) - 1) \in Seq(Activation)
           /\ LeftToCall(SubSeq(stack, 1, Len(stack) - 1)) = LeftToCall(stack)
<1>1. PICK q : q = SubSeq(stack, 1, Len(stack) - 1)
    BY Zenon
<1>2. q \in Seq(Activation) /\ Top \in Activation /\ stack = Append(q, Top)
    BY <1>1 DEF Top
<1>3. LeftToCall(stack) = LeftToCall(q) + Top.left
    BY <1>2, LeftAppend, Zenon
<1>4. LeftToCall(q) \in Nat
    BY <1>2, LeftType, Zenon
<1> QED
    BY <1>1, <1>2, <1>3, <1>4

\* free_helper finds one when there is one.
LEMMA FreeHelperIsFree ==
    ASSUME next_helper \in Helper, FreeHelpers # {}
    PROVE  FreeHelper \in FreeHelpers
<1> DEFINE Turn(h) == (h + Helpers - next_helper) % Helpers
<1>1. PICK turn : turn = [h \in FreeHelpers |-> Turn(h)]
    BY Zenon
<1>2. Helpers \in Nat \ {0} /\ FreeHelpers \subseteq 0..(Helpers - 1)
    BY AuthConstants, Zenon DEF FreeHelpers, Helper
<1>3. \A h \in FreeHelpers : turn[h] \in Int
    BY <1>1, <1>2 DEF Helper
<1>4. IsFiniteSet(FreeHelpers)
  <2>1. IsFiniteSet(0..(Helpers - 1))
      BY <1>2, FS_Interval
  <2> QED
      BY <1>2, <2>1, FS_Subset, Zenon
<1>5. PICK T : T = {turn[h] : h \in FreeHelpers}
    BY Zenon
<1>6. IsFiniteSet(T)
    BY <1>4, <1>5, FiniteImage, Zenon
<1>7. T # {} /\ T \subseteq Int
    BY <1>3, <1>5, Zenon
<1>8. Min(T) \in T /\ \A t \in T : Min(T) <= t
    BY <1>6, <1>7, MinIsSmallest, Zenon
<1>9. \E h \in FreeHelpers : \A g \in FreeHelpers : turn[h] <= turn[g]
    BY <1>5, <1>8, Zenon
<1>10. \E h \in FreeHelpers : \A g \in FreeHelpers : Turn(h) <= Turn(g)
    BY <1>1, <1>9, Zenon
<1> QED
    BY <1>10, Zenon DEF FreeHelper

-----------------------------------------------------------------------------
(* What the steps do to the caches and to the requests.                    *)

\* A cache is a part of itself.
LEMMA PartSelf ==
    ASSUME NEW cache \in Seq(Entry)
    PROVE  PartOf(cache, cache)
<1>1. Bytes(cache) \in Nat /\ Len(cache) \in Nat
    BY BytesType, SMTT(30)
<1> QED
    BY <1>1 DEF PartOf

\* Caches that lose or move entries stay right, provided that a credential
\* that starts to wait is in neither.
LEMMA CachesShrink ==
    ASSUME AuthTypeOK, CachesInv, PartOf(positive', positive), PartOf(negative', negative),
           granted' = granted,
           \A c \in Credential :
              waiters'[c] > 0 => \/ waiters[c] > 0
                                 \/ c \notin Keys(positive') \cup Keys(negative')
    PROVE  CachesInv'
<1>1. positive \in Seq(Entry) /\ negative \in Seq(Entry)
    BY Zenon DEF AuthTypeOK
<1>2. InBudget(positive', PositiveCapacity) /\ InBudget(negative', NegativeCapacity)
    BY <1>1, PartInBudget, AuthConstants, Zenon DEF CachesInv
<1>3. /\ \A i \in DOMAIN positive' : \E j \in DOMAIN positive : positive'[i] = positive[j]
      /\ \A i \in DOMAIN negative' : \E j \in DOMAIN negative : negative'[i] = negative[j]
    BY Zenon DEF PartOf
<1>4. /\ \A i \in DOMAIN positive' : GrantBacked(positive[i])'
      /\ \A i \in DOMAIN negative' : DenialBacked(negative[i])'
  <2>1. ASSUME NEW i \in DOMAIN positive' PROVE GrantBacked(positive[i])'
    <3>1. PICK j \in DOMAIN positive : positive'[i] = positive[j]
        BY <1>3, Zenon
    <3>2. GrantBacked(positive[j])
        BY Zenon DEF CachesInv
    <3> QED
        BY <3>1, <3>2, Zenon DEF GrantBacked
  <2>2. ASSUME NEW i \in DOMAIN negative' PROVE DenialBacked(negative[i])'
    <3>1. PICK j \in DOMAIN negative : negative'[i] = negative[j]
        BY <1>3, Zenon
    <3>2. DenialBacked(negative[j])
        BY Zenon DEF CachesInv
    <3> QED
        BY <3>1, <3>2, Zenon DEF DenialBacked
  <2> QED
      BY <2>1, <2>2, Zenon
<1>5. Keys(positive') \subseteq Keys(positive) /\ Keys(negative') \subseteq Keys(negative)
    BY <1>3 DEF Keys
<1>6. Keys(positive') \cap Keys(negative') = {}
    BY <1>5, Zenon DEF CachesInv
<1>7. \A c \in Credential : waiters'[c] > 0 => c \notin Keys(positive') \cup Keys(negative')
    BY <1>5, Zenon DEF CachesInv
<1> QED
    BY <1>2, <1>4, <1>6, <1>7, Zenon DEF CachesInv

\* Nothing changes for the caches when neither they nor the waiters grow.
LEMMA CachesStay ==
    ASSUME AuthTypeOK, CachesInv, UNCHANGED <<positive, negative, granted>>,
           \A c \in Credential : waiters'[c] > 0 => waiters[c] > 0
    PROVE  CachesInv'
<1>1. PartOf(positive', positive) /\ PartOf(negative', negative)
    BY PartSelf, Zenon DEF AuthTypeOK
<1> QED
    BY <1>1, CachesShrink, Zenon

\* The callbacks that have to come: the waiters, and those of the activations.
ToCall(w, frames) == SumFunctionOnSet(w, Credential) + LeftToCall(frames)

\* Giving one credential another number of waiters.
LEMMA WaitersChange ==
    ASSUME AuthTypeOK, NEW c \in Credential, NEW n \in Nat, waiters' = [waiters EXCEPT ![c] = n]
    PROVE  /\ SumFunctionOnSet(waiters, Credential) \in Nat /\ waiters[c] \in Nat
           /\ SumFunctionOnSet(waiters', Credential)
                = SumFunctionOnSet(waiters, Credential) - waiters[c] + n
           /\ waiters' \in [Credential -> Nat] /\ waiters'[c] = n
           /\ \A d \in Credential : d # c => waiters'[d] = waiters[d]
<1>1. PICK w, g : w = waiters /\ g = waiters'
    BY Zenon
<1>2. /\ IsFiniteSet(Credential) /\ w \in [Credential -> Nat] /\ g \in [Credential -> Nat]
      /\ \A x \in Credential \ {c} : g[x] = w[x]
      /\ g[c] = n
    BY <1>1, AuthConstants, Zenon DEF AuthTypeOK
<1>3. /\ SumFunctionOnSet(w, Credential) \in Nat
      /\ SumFunctionOnSet(g, Credential) = SumFunctionOnSet(w, Credential) - w[c] + g[c]
    BY <1>2, SumChanges, SMTT(30)
<1> QED
    BY <1>1, <1>2, <1>3, Zenon

\* dispatch() hands a credential that nobody is resolving to a helper with a
\* free slot, or calls its waiters back at once.
LEMMA DispatchKeeps ==
    ASSUME AuthTypeOK, OneRequestEach, SlotsAreCounted, FreeHelpers # {},
           NEW c \in Credential, NEW n \in Nat, n > 0, NEW frames \in Seq(Activation),
           Dispatch(c, n, frames), UNCHANGED closed,
           \A h \in Helper : c \notin outstanding[h],
           pending' \in Seq(Credential),
           \A i \in DOMAIN pending' : pending'[i] # c /\ \E j \in DOMAIN pending : pending'[i] = pending[j],
           \A i, j \in DOMAIN pending' : pending'[i] = pending'[j] => i = j
    PROVE  /\ OneRequestEach' /\ SlotsAreCounted'
           /\ waiters' \in [Credential -> Nat]
           /\ outstanding' \in [Helper -> SUBSET Credential]
           /\ inflight' \in [Helper -> Nat] /\ next_helper' \in Helper
           /\ stack' \in Seq(Activation)
           /\ \A d \in Credential : d # c => waiters'[d] = waiters[d]
           /\ ToCall(waiters', stack') = ToCall(waiters, frames) - waiters[c] + n
<1>0. /\ waiters \in [Credential -> Nat] /\ outstanding \in [Helper -> SUBSET Credential]
      /\ inflight \in [Helper -> Nat] /\ next_helper \in Helper
    BY Zenon DEF AuthTypeOK
<1>1. PICK h : h = FreeHelper
    BY Zenon
<1>2. h \in Helper /\ inflight[h] < Depth
    BY <1>0, <1>1, FreeHelperIsFree, Zenon DEF FreeHelpers
<1>3. next_helper' = (h + 1) % Helpers /\ next_helper' \in Helper
    BY <1>1, <1>2, AuthConstants, SMTT(30) DEF Dispatch, Helper
<1>4. LeftToCall(frames) \in Nat
    BY LeftType, Zenon
<1>5. CASE closed[h]
  <2>1. /\ waiters' = [waiters EXCEPT ![c] = 0] /\ stack' = Append(frames, Frame(c, n))
        /\ UNCHANGED <<outstanding, inflight>>
      BY <1>1, <1>5, Zenon DEF Dispatch
  <2>2. Frame(c, n) \in Activation /\ Frame(c, n).left = n
      BY Zenon DEF Frame, Activation
  <2>3. LeftToCall(stack') = LeftToCall(frames) + n
      BY <2>1, <2>2, LeftAppend, Zenon
  <2>4. /\ SumFunctionOnSet(waiters, Credential) \in Nat /\ waiters[c] \in Nat
        /\ SumFunctionOnSet(waiters', Credential)
             = SumFunctionOnSet(waiters, Credential) - waiters[c] + 0
      BY <2>1, WaitersChange, Zenon
  <2>5. ToCall(waiters', stack') = ToCall(waiters, frames) - waiters[c] + n
      BY <1>4, <2>3, <2>4 DEF ToCall
  <2>6. waiters' \in [Credential -> Nat] /\ \A d \in Credential : d # c => waiters'[d] = waiters[d]
      BY <2>1, WaitersChange, ZenonT(60)
  <2>7. OneRequestEach'
    <3>1. \A g \in Helper : \A d \in outstanding'[g] : waiters'[d] > 0
        BY <1>0, <2>1, <2>6 DEF OneRequestEach
    <3>2. \A i \in DOMAIN pending' : waiters'[pending'[i]] > 0
        BY <2>6, SMTT(30) DEF OneRequestEach, AuthTypeOK
    <3>3. \A g \in Helper : \A i \in DOMAIN pending' : pending'[i] \notin outstanding'[g]
        BY <2>1, Zenon DEF OneRequestEach
    <3>4. \A g, k \in Helper : g # k => outstanding'[g] \cap outstanding'[k] = {}
        BY <2>1, Zenon DEF OneRequestEach
    <3> QED
        BY <3>1, <3>2, <3>3, <3>4, Zenon DEF OneRequestEach
  <2>8. SlotsAreCounted'
      BY <2>1, Zenon DEF SlotsAreCounted
  <2>9. stack' \in Seq(Activation)
      BY <2>1, <2>2, SMTT(30)
  <2> QED
      BY <1>0, <1>3, <2>1, <2>5, <2>6, <2>7, <2>8, <2>9, Zenon
<1>6. CASE ~closed[h]
  <2>1. /\ waiters' = [waiters EXCEPT ![c] = n] /\ stack' = frames
        /\ outstanding' = [outstanding EXCEPT ![h] = outstanding[h] \cup {c}]
        /\ inflight' = [inflight EXCEPT ![h] = inflight[h] + 1]
      BY <1>1, <1>6, Zenon DEF Dispatch
  <2>2. ToCall(waiters', stack') = ToCall(waiters, frames) - waiters[c] + n
    <3>1. /\ SumFunctionOnSet(waiters, Credential) \in Nat /\ waiters[c] \in Nat
          /\ SumFunctionOnSet(waiters', Credential)
               = SumFunctionOnSet(waiters, Credential) - waiters[c] + n
        BY <2>1, WaitersChange, Zenon
    <3> QED
        BY <1>4, <2>1, <3>1, SMTT(30) DEF ToCall
  <2>3. /\ waiters' \in [Credential -> Nat] /\ waiters'[c] = n
        /\ \A d \in Credential : d # c => waiters'[d] = waiters[d]
      BY <1>0, <2>1, Zenon
  <2>4. /\ outstanding' \in [Helper -> SUBSET Credential]
        /\ outstanding'[h] = outstanding[h] \cup {c}
        /\ \A g \in Helper : g # h => outstanding'[g] = outstanding[g]
      BY <1>0, <1>2, <2>1, Zenon
  <2>5. /\ inflight' \in [Helper -> Nat] /\ inflight'[h] = inflight[h] + 1
        /\ \A g \in Helper : g # h => inflight'[g] = inflight[g]
      BY <1>0, <1>2, <2>1, SMTT(30)
  <2>6. OneRequestEach'
    <3>1. \A g \in Helper : \A d \in outstanding'[g] : waiters'[d] > 0
        BY <1>0, <1>2, <2>3, <2>4, Zenon DEF OneRequestEach
    <3>2. \A i \in DOMAIN pending' : waiters'[pending'[i]] > 0
        BY <2>3 DEF OneRequestEach, AuthTypeOK
    <3>3. \A g \in Helper : \A i \in DOMAIN pending' : pending'[i] \notin outstanding'[g]
        BY <1>2, <2>4 DEF OneRequestEach
    <3>4. \A g, k \in Helper : g # k => outstanding'[g] \cap outstanding'[k] = {}
        BY <1>2, <2>4, SMTT(30) DEF OneRequestEach
    <3> QED
        BY <3>1, <3>2, <3>3, <3>4, Zenon DEF OneRequestEach
  <2>7. SlotsAreCounted'
    <3>1. IsFiniteSet(outstanding[h])
        BY <1>0, <1>2, FS_Subset, AuthConstants, Zenon
    <3>2. Cardinality(outstanding[h] \cup {c}) = Cardinality(outstanding[h]) + 1
        BY <1>2, <3>1, FS_AddElement, Zenon
    <3>3. inflight[h] = Cardinality(outstanding[h]) /\ inflight[h] \in Nat /\ Depth \in Nat
        BY <1>0, <1>2, AuthConstants, Zenon DEF SlotsAreCounted
    <3>4. \A g \in Helper : inflight'[g] = Cardinality(outstanding'[g]) /\ inflight'[g] <= Depth
      <4> SUFFICES ASSUME NEW g \in Helper
                   PROVE  inflight'[g] = Cardinality(outstanding'[g]) /\ inflight'[g] <= Depth
          BY Zenon
      <4>1. CASE g = h
        <5>1. Cardinality(outstanding'[g]) = Cardinality(outstanding[h] \cup {c})
            BY <2>4, <4>1, Zenon
        <5> QED
            BY <1>2, <2>5, <3>2, <3>3, <4>1, <5>1, SMTT(30)
      <4>2. CASE g # h
          BY <2>4, <2>5, <4>2, Zenon DEF SlotsAreCounted
      <4> QED
          BY <4>1, <4>2, Zenon
    <3> QED
        BY <3>4, Zenon DEF SlotsAreCounted
  <2> QED
      BY <1>3, <2>1, <2>2, <2>3, <2>4, <2>5, <2>6, <2>7, Zenon
<1> QED
    BY <1>5, <1>6, Zenon

\* A credential that neither cache knows joins the request for it, waits for a
\* helper, or is dispatched.
LEMMA MissKeeps ==
    ASSUME AuthTypeOK, OneRequestEach, SlotsAreCounted, NEW c \in Credential,
           NEW frames \in Seq(Activation), Miss(c, frames), UNCHANGED closed
    PROVE  /\ OneRequestEach' /\ SlotsAreCounted'
           /\ waiters' \in [Credential -> Nat] /\ pending' \in Seq(Credential)
           /\ outstanding' \in [Helper -> SUBSET Credential]
           /\ inflight' \in [Helper -> Nat] /\ next_helper' \in Helper
           /\ stack' \in Seq(Activation)
           /\ \A d \in Credential : d # c => waiters'[d] = waiters[d]
           /\ ToCall(waiters', stack') = ToCall(waiters, frames) + 1
<1>0. /\ waiters \in [Credential -> Nat] /\ pending \in Seq(Credential)
      /\ outstanding \in [Helper -> SUBSET Credential]
      /\ inflight \in [Helper -> Nat] /\ next_helper \in Helper
    BY Zenon DEF AuthTypeOK
<1>1. LeftToCall(frames) \in Nat
    BY LeftType, Zenon
<1>2. CASE waiters[c] > 0 \/ FreeHelpers = {}
  <2>1. /\ waiters' = [waiters EXCEPT ![c] = waiters[c] + 1] /\ stack' = frames
        /\ pending' = IF waiters[c] > 0 THEN pending ELSE Append(pending, c)
        /\ UNCHANGED <<outstanding, inflight, next_helper>>
      BY <1>2, Zenon DEF Miss
  <2>2. waiters[c] + 1 \in Nat
      BY <1>0
  <2>3. /\ SumFunctionOnSet(waiters, Credential) \in Nat /\ waiters[c] \in Nat
        /\ SumFunctionOnSet(waiters', Credential)
             = SumFunctionOnSet(waiters, Credential) - waiters[c] + (waiters[c] + 1)
        /\ waiters' \in [Credential -> Nat] /\ waiters'[c] = waiters[c] + 1
        /\ \A d \in Credential : d # c => waiters'[d] = waiters[d]
      BY <2>1, <2>2, WaitersChange, Zenon
  <2>4. ToCall(waiters', stack') = ToCall(waiters, frames) + 1
      BY <1>1, <2>1, <2>3 DEF ToCall
  <2>5. \A d \in Credential : waiters[d] > 0 => waiters'[d] > 0
    <3> SUFFICES ASSUME NEW d \in Credential, waiters[d] > 0 PROVE waiters'[d] > 0
        BY Zenon
    <3>1. CASE d = c
        BY <2>3, <3>1
    <3>2. CASE d # c
        BY <2>3, <3>2, Zenon
    <3> QED
        BY <3>1, <3>2, Zenon
  <2>6. OneRequestEach' /\ pending' \in Seq(Credential)
    <3>1. CASE waiters[c] > 0
      <4>1. pending' = pending
          BY <2>1, <3>1, Zenon
      <4>2. \A h \in Helper : \A d \in outstanding'[h] : waiters'[d] > 0
          BY <1>0, <2>1, <2>5, Zenon DEF OneRequestEach
      <4>3. \A i \in DOMAIN pending' : waiters'[pending'[i]] > 0
          BY <1>0, <2>5, <4>1, SMTT(30) DEF OneRequestEach
      <4> QED
          BY <1>0, <2>1, <4>1, <4>2, <4>3, Zenon DEF OneRequestEach
    <3>2. CASE ~(waiters[c] > 0)
      <4>1. /\ pending' \in Seq(Credential) /\ DOMAIN pending = 1..Len(pending) /\ Len(pending) \in Nat
            /\ DOMAIN pending' = 1..(Len(pending) + 1)
            /\ \A i \in DOMAIN pending : pending'[i] = pending[i]
            /\ pending'[Len(pending) + 1] = c
          BY <1>0, <2>1, <3>2, SMTT(30)
      <4>2. /\ \A h \in Helper : c \notin outstanding[h]
            /\ \A i \in DOMAIN pending : pending[i] # c
          BY <3>2, Zenon DEF OneRequestEach
      <4>3. \A i \in DOMAIN pending' : i \in DOMAIN pending \/ i = Len(pending) + 1
          BY <4>1, SMTT(30)
      <4>4. \A h \in Helper : \A d \in outstanding'[h] : waiters'[d] > 0
          BY <1>0, <2>1, <2>5, Zenon DEF OneRequestEach
      <4>5. \A i \in DOMAIN pending' : waiters'[pending'[i]] > 0
        <5> SUFFICES ASSUME NEW i \in DOMAIN pending' PROVE waiters'[pending'[i]] > 0
            BY Zenon
        <5>1. CASE i \in DOMAIN pending
            BY <1>0, <2>5, <4>1, <5>1, SMTT(30) DEF OneRequestEach
        <5>2. CASE i = Len(pending) + 1
            BY <2>3, <4>1, <5>2, SMTT(30)
        <5> QED
            BY <4>3, <5>1, <5>2, Zenon
      <4>6. \A i, j \in DOMAIN pending' : pending'[i] = pending'[j] => i = j
          BY <4>1, <4>2, <4>3, Zenon DEF OneRequestEach
      <4>7. \A h \in Helper : \A i \in DOMAIN pending' : pending'[i] \notin outstanding'[h]
          BY <2>1, <4>1, <4>2, <4>3, SMTT(30) DEF OneRequestEach
      <4> QED
          BY <2>1, <4>1, <4>4, <4>5, <4>6, <4>7, Zenon DEF OneRequestEach
    <3> QED
        BY <3>1, <3>2, Zenon
  <2>7. SlotsAreCounted'
      BY <2>1, Zenon DEF SlotsAreCounted
  <2> QED
      BY <1>0, <2>1, <2>3, <2>4, <2>6, <2>7, Zenon
<1>3. CASE ~(waiters[c] > 0 \/ FreeHelpers = {})
  <2>1. Dispatch(c, 1, frames) /\ pending' = pending /\ FreeHelpers # {} /\ waiters[c] = 0
      BY <1>0, <1>3 DEF Miss
  <2>2. /\ \A h \in Helper : c \notin outstanding[h]
        /\ \A i \in DOMAIN pending : pending[i] # c
      BY <1>3, Zenon DEF OneRequestEach
  <2>3. /\ pending' \in Seq(Credential)
        /\ \A i \in DOMAIN pending' : pending'[i] # c /\ \E j \in DOMAIN pending : pending'[i] = pending[j]
        /\ \A i, j \in DOMAIN pending' : pending'[i] = pending'[j] => i = j
      BY <1>0, <2>1, <2>2, Zenon DEF OneRequestEach
  <2>4. PICK n : n = 1
      BY Zenon
  <2>5. Dispatch(c, n, frames) /\ n \in Nat /\ n > 0
      BY <2>1, <2>4, SMTT(30)
  <2>6. /\ OneRequestEach' /\ SlotsAreCounted'
        /\ waiters' \in [Credential -> Nat]
        /\ outstanding' \in [Helper -> SUBSET Credential]
        /\ inflight' \in [Helper -> Nat] /\ next_helper' \in Helper
        /\ stack' \in Seq(Activation)
        /\ \A d \in Credential : d # c => waiters'[d] = waiters[d]
        /\ ToCall(waiters', stack') = ToCall(waiters, frames) - waiters[c] + n
      BY <2>1, <2>2, <2>3, <2>5, DispatchKeeps, SMTT(30)
  <2>7. ToCall(waiters, frames) \in Int
    <3>1. NatOn(waiters, Credential) /\ IsFiniteSet(Credential)
        BY <1>0, AuthConstants, Zenon DEF NatOn
    <3> QED
        BY <1>1, <3>1, SumNat DEF ToCall
  <2> QED
      BY <2>1, <2>3, <2>4, <2>6, <2>7, SMTT(30)
<1> QED
    BY <1>2, <1>3, Zenon

\* resolve(), between events or inside a callback that counts as `done`.
LEMMA ResolveKeeps ==
    ASSUME AuthInv, NEW c \in Credential, NEW frames \in Seq(Activation), NEW done \in Nat,
           LeftToCall(frames) = LeftToCall(stack) - done, Resolve(c, frames, done)
    PROVE  AuthInv'
<1>0. AuthTypeOK /\ OneRequestEach /\ SlotsAreCounted /\ CachesInv /\ CalledBackOncePerResolve
    BY Zenon DEF AuthInv
<1>1. /\ positive \in Seq(Entry) /\ negative \in Seq(Entry) /\ now \in Nat
      /\ waiters \in [Credential -> Nat] /\ asked \in Nat /\ answered \in Nat
      /\ stack \in Seq(Activation)
    BY <1>0, Zenon DEF AuthTypeOK
<1>2. PICK hit, denied : /\ hit = Live(positive, c, now)
                         /\ denied = (~hit /\ Live(negative, c, now))
    BY Zenon
<1>3. /\ asked' = asked + 1 /\ UNCHANGED <<now, closed, granted>>
      /\ positive' = Lookup(positive, c, now)
      /\ negative' = IF hit THEN negative ELSE Lookup(negative, c, now)
      /\ answered' = answered + done + (IF hit \/ denied THEN 1 ELSE 0)
      /\ IF hit \/ denied THEN Hit(c, hit, frames) ELSE Miss(c, frames)
    BY <1>2, Zenon DEF Resolve
<1>4. PartOf(positive', positive) /\ PartOf(negative', negative)
    BY <1>1, <1>3, LookupKeepsParts, PartSelf, Zenon
<1>5. positive' \in Seq(Entry) /\ negative' \in Seq(Entry)
    BY <1>4, Zenon DEF PartOf
<1>6. /\ asked = answered + ToCall(waiters, stack) /\ LeftToCall(stack) \in Nat
      /\ SumFunctionOnSet(waiters, Credential) \in Nat
  <2>1. NatOn(waiters, Credential) /\ IsFiniteSet(Credential)
      BY <1>1, AuthConstants, Zenon DEF NatOn
  <2>2. LeftToCall(stack) \in Nat /\ SumFunctionOnSet(waiters, Credential) \in Nat
      BY <1>1, <2>1, LeftType, SumNat, Zenon
  <2> QED
      BY <1>0, <1>1, <2>2 DEF CalledBackOncePerResolve, ToCall
<1>7. asked' = asked + 1 /\ asked \in Nat /\ answered \in Nat
    BY <1>1, <1>3, Zenon
<1>8. CASE hit \/ denied
  <2>1. stack' = frames /\ UNCHANGED <<waiters, pending, outstanding, inflight, next_helper>>
      BY <1>3, <1>8, Zenon DEF Hit
  <2>2. OneRequestEach' /\ SlotsAreCounted'
      BY <1>0, <2>1, Zenon DEF OneRequestEach, SlotsAreCounted
  <2>3. CachesInv'
      BY <1>0, <1>3, <1>4, <2>1, CachesShrink, Zenon
  <2>4. answered' = answered + done + 1
      BY <1>3, <1>8, Zenon
  <2>5. CalledBackOncePerResolve'
    <3>1. /\ SumFunctionOnSet(waiters', Credential) = SumFunctionOnSet(waiters, Credential)
          /\ LeftToCall(stack') = LeftToCall(stack) - done
        BY <2>1, Zenon
    <3>2. asked = answered + (SumFunctionOnSet(waiters, Credential) + LeftToCall(stack))
        BY <1>6, Zenon DEF ToCall
    <3>3. asked' = answered' + SumFunctionOnSet(waiters', Credential) + LeftToCall(stack')
        BY <1>6, <1>7, <2>4, <3>1, <3>2, SMTT(30)
    <3> QED
        BY <3>3, Zenon DEF CalledBackOncePerResolve
  <2>6. AuthTypeOK'
      BY <1>0, <1>3, <1>5, <2>1, <2>4, SMTT(30) DEF AuthTypeOK
  <2> QED
      BY <2>2, <2>3, <2>5, <2>6, Zenon DEF AuthInv
<1>9. CASE ~(hit \/ denied)
  <2>1. Miss(c, frames) /\ answered' = answered + done
      BY <1>1, <1>3, <1>9
  <2>2. c \notin Keys(positive') \cup Keys(negative')
      BY <1>1, <1>2, <1>3, <1>9, LookupKeepsParts, Zenon
  <2>3. /\ OneRequestEach' /\ SlotsAreCounted'
        /\ waiters' \in [Credential -> Nat] /\ pending' \in Seq(Credential)
        /\ outstanding' \in [Helper -> SUBSET Credential]
        /\ inflight' \in [Helper -> Nat] /\ next_helper' \in Helper
        /\ stack' \in Seq(Activation)
        /\ \A d \in Credential : d # c => waiters'[d] = waiters[d]
        /\ ToCall(waiters', stack') = ToCall(waiters, frames) + 1
      BY <1>0, <1>3, <2>1, MissKeeps, Zenon
  <2>4. CachesInv'
      BY <1>0, <1>3, <1>4, <2>2, <2>3, CachesShrink, Zenon
  <2>5. CalledBackOncePerResolve'
    <3>0. answered' = answered + done
        BY <2>1, Zenon
    <3>1. SumFunctionOnSet(waiters', Credential) \in Nat /\ LeftToCall(stack') \in Nat
      <4>1. NatOn(waiters', Credential) /\ IsFiniteSet(Credential)
          BY <2>3, AuthConstants, Zenon DEF NatOn
      <4> QED
          BY <2>3, <4>1, LeftType, SumNat, Zenon
    <3>2. SumFunctionOnSet(waiters', Credential) + LeftToCall(stack')
            = SumFunctionOnSet(waiters, Credential) + (LeftToCall(stack) - done) + 1
        BY <2>3, Zenon DEF ToCall
    <3>3. asked = answered + (SumFunctionOnSet(waiters, Credential) + LeftToCall(stack))
        BY <1>6, Zenon DEF ToCall
    <3>4. asked' = answered' + SumFunctionOnSet(waiters', Credential) + LeftToCall(stack')
      <4>1. PICK w, l, v, k : /\ w = SumFunctionOnSet(waiters, Credential) /\ l = LeftToCall(stack)
                              /\ v = SumFunctionOnSet(waiters', Credential) /\ k = LeftToCall(stack')
          BY Zenon
      <4>2. /\ w \in Nat /\ l \in Nat /\ v \in Nat /\ k \in Nat
            /\ v + k = w + (l - done) + 1 /\ asked = answered + (w + l)
          BY <1>6, <3>1, <3>2, <3>3, <4>1, Zenon
      <4>3. asked' = answered' + v + k
          BY <1>7, <3>0, <4>2, SMTT(30)
      <4> QED
          BY <4>1, <4>3, Zenon
    <3> QED
        BY <3>4, Zenon DEF CalledBackOncePerResolve
  <2>6. AuthTypeOK'
      BY <1>0, <1>3, <1>5, <2>1, <2>3, SMTT(30) DEF AuthTypeOK
  <2> QED
      BY <2>3, <2>4, <2>5, <2>6, Zenon DEF AuthInv
<1> QED
    BY <1>8, <1>9, Zenon

\* on_response gives the slot back and takes the waiters, caches apart.
LEMMA AnsweredKeeps ==
    ASSUME AuthInv, NEW h \in Helper, NEW c \in outstanding[h], stack = <<>>, Answered(h, c)
    PROVE  /\ OneRequestEach' /\ SlotsAreCounted' /\ CalledBackOncePerResolve'
           /\ positive' \in Seq(Entry) /\ negative' \in Seq(Entry)
              /\ granted' \in [Credential -> Answer] => AuthTypeOK'
           /\ c \in Credential /\ waiters[c] > 0
           /\ waiters'[c] = 0 /\ \A d \in Credential : d # c => waiters'[d] = waiters[d]
<1>0. AuthTypeOK /\ OneRequestEach /\ SlotsAreCounted /\ CalledBackOncePerResolve
    BY Zenon DEF AuthInv
<1>1. /\ waiters \in [Credential -> Nat] /\ pending \in Seq(Credential)
      /\ outstanding \in [Helper -> SUBSET Credential]
      /\ inflight \in [Helper -> Nat] /\ next_helper \in Helper /\ asked \in Nat /\ answered \in Nat
    BY <1>0, Zenon DEF AuthTypeOK
<1>2. c \in Credential /\ waiters[c] > 0
    BY <1>0, <1>1, Zenon DEF OneRequestEach
<1>3. /\ outstanding' = [outstanding EXCEPT ![h] = outstanding[h] \ {c}]
      /\ inflight' = [inflight EXCEPT ![h] = inflight[h] - 1]
      /\ waiters' = [waiters EXCEPT ![c] = 0]
      /\ stack' = <<Frame(c, waiters[c])>>
      /\ UNCHANGED <<now, pending, next_helper, closed, asked, answered>>
    BY Zenon DEF Answered
<1>4. /\ SumFunctionOnSet(waiters, Credential) \in Nat /\ waiters[c] \in Nat
      /\ SumFunctionOnSet(waiters', Credential)
           = SumFunctionOnSet(waiters, Credential) - waiters[c] + 0
      /\ waiters' \in [Credential -> Nat] /\ waiters'[c] = 0
      /\ \A d \in Credential : d # c => waiters'[d] = waiters[d]
    BY <1>0, <1>2, <1>3, WaitersChange, ZenonT(60)
<1>5. /\ outstanding' \in [Helper -> SUBSET Credential]
      /\ outstanding'[h] = outstanding[h] \ {c}
      /\ \A g \in Helper : g # h => outstanding'[g] = outstanding[g]
    BY <1>1, <1>3, Zenon
<1>6. CalledBackOncePerResolve' /\ stack' \in Seq(Activation)
  <2>1. Frame(c, waiters[c]) \in Activation /\ Frame(c, waiters[c]).left = waiters[c]
      BY <1>2, <1>4, Zenon DEF Frame, Activation
  <2>2. stack' = Append(<<>>, Frame(c, waiters[c])) /\ <<>> \in Seq(Activation)
      BY <1>3, SMTT(30)
  <2>3. LeftToCall(stack') = LeftToCall(<<>>) + waiters[c] /\ LeftToCall(<<>>) \in Nat
      BY <2>1, <2>2, LeftAppend, LeftType, Zenon
  <2>4. asked = answered + SumFunctionOnSet(waiters, Credential) + LeftToCall(<<>>)
      BY <1>0, Zenon DEF CalledBackOncePerResolve
  <2>5. asked' = answered' + SumFunctionOnSet(waiters', Credential) + LeftToCall(stack')
    <3>1. asked' = asked /\ answered' = answered
        BY <1>3, Zenon
    <3> QED
        BY <1>1, <1>4, <2>3, <2>4, <3>1, SMTT(30)
  <2> QED
      BY <2>1, <2>2, <2>5 DEF CalledBackOncePerResolve
<1>7. OneRequestEach'
  <2>1. /\ \A g \in Helper : c \notin outstanding'[g]
        /\ \A g \in Helper : outstanding'[g] \subseteq outstanding[g]
        /\ \A i \in DOMAIN pending : pending[i] # c
      BY <1>0, <1>5, SMTT(30) DEF OneRequestEach
  <2>2. \A g \in Helper : \A d \in outstanding'[g] : waiters'[d] > 0
    <3> SUFFICES ASSUME NEW g \in Helper, NEW d \in outstanding'[g] PROVE waiters'[d] > 0
        BY Zenon
    <3>1. d \in outstanding[g] /\ d # c /\ d \in Credential
        BY <1>1, <2>1, Zenon
    <3> QED
        BY <1>0, <1>4, <3>1, Zenon DEF OneRequestEach
  <2>3. \A i \in DOMAIN pending' : waiters'[pending'[i]] > 0
      BY <1>0, <1>1, <1>3, <1>4, <2>1, SMTT(30) DEF OneRequestEach
  <2>4. \A i, j \in DOMAIN pending' : pending'[i] = pending'[j] => i = j
      BY <1>0, <1>3, Zenon DEF OneRequestEach
  <2>5. \A g \in Helper : \A i \in DOMAIN pending' : pending'[i] \notin outstanding'[g]
      BY <1>0, <1>3, <2>1, Zenon DEF OneRequestEach
  <2>6. \A g, k \in Helper : g # k => outstanding'[g] \cap outstanding'[k] = {}
      BY <1>0, <2>1, Zenon DEF OneRequestEach
  <2> QED
      BY <2>2, <2>3, <2>4, <2>5, <2>6, Zenon DEF OneRequestEach
<1>8. IsFiniteSet(outstanding[h]) /\ Cardinality(outstanding[h] \ {c}) = Cardinality(outstanding[h]) - 1
  <2>1. IsFiniteSet(outstanding[h])
      BY <1>1, FS_Subset, AuthConstants, Zenon
  <2> QED
      BY <2>1, FS_RemoveElement, Zenon
<1>9. inflight[h] = Cardinality(outstanding[h]) /\ inflight[h] > 0 /\ inflight[h] <= Depth
      /\ inflight[h] \in Nat /\ Depth \in Nat
  <2>1. Cardinality(outstanding[h]) # 0
      BY <1>8, FS_EmptySet, Zenon
  <2>2. inflight[h] \in Nat /\ Depth \in Nat /\ inflight[h] = Cardinality(outstanding[h])
        /\ inflight[h] <= Depth
      BY <1>0, <1>1, AuthConstants, Zenon DEF SlotsAreCounted
  <2> QED
      BY <2>1, <2>2
<1>10. SlotsAreCounted' /\ inflight' \in [Helper -> Nat]
  <2>1. /\ inflight'[h] = inflight[h] - 1 /\ inflight' \in [Helper -> Nat]
        /\ \A g \in Helper : g # h => inflight'[g] = inflight[g]
      BY <1>1, <1>3, <1>9, SMTT(30)
  <2>2. ASSUME NEW g \in Helper
        PROVE  inflight'[g] = Cardinality(outstanding'[g]) /\ inflight'[g] <= Depth
    <3>1. CASE g = h
      <4>1. Cardinality(outstanding'[g]) = Cardinality(outstanding[h] \ {c})
          BY <1>5, <3>1, Zenon
      <4> QED
          BY <1>8, <1>9, <2>1, <3>1, <4>1, SMTT(30)
    <3>2. CASE g # h
        BY <1>0, <1>5, <2>1, <3>2, Zenon DEF SlotsAreCounted
    <3> QED
        BY <3>1, <3>2, Zenon
  <2> QED
      BY <2>1, <2>2, Zenon DEF SlotsAreCounted
<1>11. ASSUME positive' \in Seq(Entry), negative' \in Seq(Entry), granted' \in [Credential -> Answer]
       PROVE  AuthTypeOK'
    BY <1>0, <1>3, <1>4, <1>5, <1>6, <1>10, <1>11, Zenon DEF AuthTypeOK
<1> QED
    BY <1>2, <1>4, <1>6, <1>7, <1>10, <1>11, Zenon

\* A grant is cached for as long as it lives.
LEMMA GrantedKeeps ==
    ASSUME AuthInv, NEW h \in Helper, NEW c \in outstanding[h], NEW until \in Int, Granted(h, c, until)
    PROVE  AuthInv'
<1>0. /\ AuthTypeOK /\ CachesInv /\ positive \in Seq(Entry) /\ negative \in Seq(Entry) /\ now \in Nat
      /\ granted \in [Credential -> Answer]
    BY Zenon DEF AuthInv, AuthTypeOK
<1>1. stack = <<>> /\ Answered(h, c)
    BY Zenon DEF Granted, Idle
<1>2. /\ OneRequestEach' /\ SlotsAreCounted' /\ CalledBackOncePerResolve'
      /\ positive' \in Seq(Entry) /\ negative' \in Seq(Entry)
         /\ granted' \in [Credential -> Answer] => AuthTypeOK'
      /\ c \in Credential /\ waiters[c] > 0
      /\ waiters'[c] = 0 /\ \A d \in Credential : d # c => waiters'[d] = waiters[d]
    BY <1>1, AnsweredKeeps, Zenon
<1>3. PICK e : e = [key |-> c, expiry |-> Expiry(until), bytes |-> SizeOf(c)]
    BY Zenon
<1>4. /\ Expiry(until) \in Int /\ Expiry(until) <= now + PositiveTtl
      /\ until # -1 => Expiry(until) <= until
  <2>1. PICK m \in Int : m = now + PositiveTtl
      BY <1>0, AuthConstants
  <2>2. Min({m, until}) = IF m <= until THEN m ELSE until
      BY MaxMinOfTwo, Zenon
  <2> QED
      BY <2>1, <2>2 DEF Expiry
<1>5. e \in Entry /\ e.key = c /\ e.expiry = Expiry(until)
    BY <1>2, <1>3, <1>4, AuthConstants, Zenon DEF Entry
<1>6. /\ positive' = Insert(positive, PositiveCapacity, e, now) /\ negative' = negative
      /\ granted' = [granted EXCEPT ![c] = [ok |-> TRUE, at |-> now, until |-> until]]
    BY <1>3, Zenon DEF Granted
<1>7. InBudget(positive, PositiveCapacity) /\ InBudget(negative, NegativeCapacity) /\ PositiveCapacity \in Nat
    BY <1>0, AuthConstants, Zenon DEF CachesInv
<1>8. /\ positive' \in Seq(Entry) /\ InBudget(positive', PositiveCapacity)
      /\ \A i \in DOMAIN positive' :
            positive'[i] = e \/ \E j \in DOMAIN positive : positive'[i] = positive[j]
    BY <1>0, <1>5, <1>6, <1>7, InsertKeeps, SMTT(30)
<1>9. /\ granted' \in [Credential -> Answer]
      /\ granted'[c] = [ok |-> TRUE, at |-> now, until |-> until]
      /\ \A d \in Credential : d # c => granted'[d] = granted[d]
  <2>1. [ok |-> TRUE, at |-> now, until |-> until] \in Answer
      BY <1>0 DEF Answer
  <2> QED
      BY <1>0, <1>2, <1>6, <2>1, Zenon
<1>10. /\ c \notin Keys(positive) /\ c \notin Keys(negative)
       /\ \A i \in DOMAIN positive : positive[i].key # c /\ positive[i].key \in Credential
       /\ \A i \in DOMAIN negative : negative[i].key # c /\ negative[i].key \in Credential
  <2>1. c \notin Keys(positive) /\ c \notin Keys(negative)
      BY <1>0, <1>2, Zenon DEF CachesInv
  <2>2. /\ \A i \in DOMAIN positive : positive[i] \in Entry
        /\ \A i \in DOMAIN negative : negative[i] \in Entry
      BY <1>0
  <2> QED
      BY <2>1, <2>2, Zenon DEF Keys, Entry
<1>11. \A i \in DOMAIN positive' : GrantBacked(positive[i])'
  <2> SUFFICES ASSUME NEW i \in DOMAIN positive' PROVE GrantBacked(positive[i])'
      BY Zenon
  <2>1. CASE positive'[i] = e
      BY <1>0, <1>4, <1>5, <1>9, <2>1, SMTT(30) DEF GrantBacked
  <2>2. CASE \E j \in DOMAIN positive : positive'[i] = positive[j]
    <3>1. PICK j \in DOMAIN positive : positive'[i] = positive[j]
        BY <2>2, Zenon
    <3>2. GrantBacked(positive[j])
        BY <1>0, Zenon DEF CachesInv
    <3>3. granted'[positive[j].key] = granted[positive[j].key]
        BY <1>9, <1>10, Zenon
    <3> QED
        BY <3>1, <3>2, <3>3, Zenon DEF GrantBacked
  <2> QED
      BY <1>8, <2>1, <2>2, Zenon
<1>12. \A i \in DOMAIN negative' : DenialBacked(negative[i])'
  <2> SUFFICES ASSUME NEW i \in DOMAIN negative PROVE DenialBacked(negative[i])'
      BY <1>6, Zenon
  <2>1. DenialBacked(negative[i])
      BY <1>0, Zenon DEF CachesInv
  <2>2. granted'[negative[i].key] = granted[negative[i].key]
      BY <1>9, <1>10, Zenon
  <2> QED
      BY <1>6, <2>1, <2>2, Zenon DEF DenialBacked
<1>13. /\ Keys(positive') \cap Keys(negative') = {}
       /\ \A d \in Credential : waiters'[d] > 0 => d \notin Keys(positive') \cup Keys(negative')
  <2>1. Keys(positive') \subseteq Keys(positive) \cup {c}
      BY <1>5, <1>8, Zenon DEF Keys
  <2>2. Keys(negative') = Keys(negative)
      BY <1>6, Zenon
  <2> QED
      BY <1>0, <1>2, <1>10, <2>1, <2>2, SMTT(30) DEF CachesInv
<1>14. CachesInv'
    BY <1>6, <1>7, <1>8, <1>11, <1>12, <1>13, Zenon DEF CachesInv
<1> QED
    BY <1>0, <1>2, <1>6, <1>8, <1>9, <1>14, Zenon DEF AuthInv

\* A denial is cached for the configured lifetime.
LEMMA DeniedKeeps ==
    ASSUME AuthInv, NEW h \in Helper, NEW c \in outstanding[h], Denied(h, c)
    PROVE  AuthInv'
<1>0. /\ AuthTypeOK /\ CachesInv /\ negative \in Seq(Entry) /\ positive \in Seq(Entry) /\ now \in Nat
      /\ granted \in [Credential -> Answer]
    BY Zenon DEF AuthInv, AuthTypeOK
<1>1. stack = <<>> /\ Answered(h, c)
    BY ZenonT(60) DEF Denied, Idle
<1>2. /\ OneRequestEach' /\ SlotsAreCounted' /\ CalledBackOncePerResolve'
      /\ positive' \in Seq(Entry) /\ negative' \in Seq(Entry)
         /\ granted' \in [Credential -> Answer] => AuthTypeOK'
      /\ c \in Credential /\ waiters[c] > 0
      /\ waiters'[c] = 0 /\ \A d \in Credential : d # c => waiters'[d] = waiters[d]
    BY <1>1, AnsweredKeeps, ZenonT(60)
<1>3. PICK e : e = [key |-> c, expiry |-> now + NegativeTtl, bytes |-> SizeOf(c)]
    BY ZenonT(60)
<1>4. now + NegativeTtl \in Int
  <2>1. now \in Nat /\ NegativeTtl \in Nat
      BY <1>0, AuthConstants, Zenon
  <2> QED
      BY <2>1, SMTT(30)
<1>5. e \in Entry /\ e.key = c /\ e.expiry = now + NegativeTtl
    BY <1>2, <1>3, <1>4, AuthConstants, Zenon DEF Entry
<1>6. /\ negative' = Insert(negative, NegativeCapacity, e, now) /\ positive' = positive
      /\ granted' = [granted EXCEPT ![c] = [ok |-> FALSE, at |-> now, until |-> -1]]
    BY <1>3, Zenon DEF Denied
<1>7. InBudget(negative, NegativeCapacity) /\ InBudget(positive, PositiveCapacity) /\ NegativeCapacity \in Nat
    BY <1>0, AuthConstants, Zenon DEF CachesInv
<1>8. /\ negative' \in Seq(Entry) /\ InBudget(negative', NegativeCapacity)
      /\ \A i \in DOMAIN negative' :
            negative'[i] = e \/ \E j \in DOMAIN negative : negative'[i] = negative[j]
    BY <1>0, <1>5, <1>6, <1>7, InsertKeeps, SMTT(30)
<1>9. /\ granted' \in [Credential -> Answer]
      /\ granted'[c] = [ok |-> FALSE, at |-> now, until |-> -1]
      /\ \A d \in Credential : d # c => granted'[d] = granted[d]
  <2>1. [ok |-> FALSE, at |-> now, until |-> -1] \in Answer
      BY <1>0, SMTT(30) DEF Answer
  <2> QED
      BY <1>0, <1>2, <1>6, <2>1, ZenonT(60)
<1>10. /\ c \notin Keys(negative) /\ c \notin Keys(positive)
       /\ \A i \in DOMAIN negative : negative[i].key # c /\ negative[i].key \in Credential
       /\ \A i \in DOMAIN positive : positive[i].key # c /\ positive[i].key \in Credential
  <2>1. c \notin Keys(negative) /\ c \notin Keys(positive)
      BY <1>0, <1>2, Zenon DEF CachesInv
  <2>2. /\ \A i \in DOMAIN negative : negative[i] \in Entry
        /\ \A i \in DOMAIN positive : positive[i] \in Entry
      BY <1>0, SMTT(30)
  <2> QED
      BY <2>1, <2>2, Zenon DEF Keys, Entry
<1>11. \A i \in DOMAIN negative' : DenialBacked(negative[i])'
  <2> SUFFICES ASSUME NEW i \in DOMAIN negative' PROVE DenialBacked(negative[i])'
      BY Zenon
  <2>1. CASE negative'[i] = e
      BY <1>0, <1>4, <1>5, <1>9, <2>1, SMTT(30) DEF DenialBacked
  <2>2. CASE \E j \in DOMAIN negative : negative'[i] = negative[j]
    <3>1. PICK j \in DOMAIN negative : negative'[i] = negative[j]
        BY <2>2, Zenon
    <3>2. DenialBacked(negative[j])
        BY <1>0, Zenon DEF CachesInv
    <3>3. granted'[negative[j].key] = granted[negative[j].key]
        BY <1>9, <1>10, Zenon
    <3> QED
        BY <3>1, <3>2, <3>3, Zenon DEF DenialBacked
  <2> QED
      BY <1>8, <2>1, <2>2, Zenon
<1>12. \A i \in DOMAIN positive' : GrantBacked(positive[i])'
  <2> SUFFICES ASSUME NEW i \in DOMAIN positive PROVE GrantBacked(positive[i])'
      BY <1>6, Zenon
  <2>1. GrantBacked(positive[i])
      BY <1>0, Zenon DEF CachesInv
  <2>2. granted'[positive[i].key] = granted[positive[i].key]
      BY <1>9, <1>10, Zenon
  <2> QED
      BY <1>6, <2>1, <2>2, Zenon DEF GrantBacked
<1>13. /\ Keys(negative') \cap Keys(positive') = {}
       /\ \A d \in Credential : waiters'[d] > 0 => d \notin Keys(negative') \cup Keys(positive')
  <2>1. Keys(negative') \subseteq Keys(negative) \cup {c} /\ Keys(positive') = Keys(positive)
      BY <1>5, <1>6, <1>8, SMTT(30) DEF Keys
  <2> QED
      BY <1>0, <1>2, <1>10, <2>1, SMTT(30) DEF CachesInv
<1>14. CachesInv'
    BY <1>6, <1>7, <1>8, <1>11, <1>12, <1>13, Zenon DEF CachesInv
<1> QED
    BY <1>0, <1>2, <1>6, <1>8, <1>9, <1>14, Zenon DEF AuthInv

\* A failed request changes no cache.
LEMMA FailedKeeps ==
    ASSUME AuthInv, NEW h \in Helper, NEW c \in outstanding[h], stack = <<>>, Failed(h, c)
    PROVE  AuthInv'
<1>0. /\ AuthTypeOK /\ CachesInv /\ positive \in Seq(Entry) /\ negative \in Seq(Entry)
      /\ granted \in [Credential -> Answer]
    BY Zenon DEF AuthInv, AuthTypeOK
<1>1. Answered(h, c) /\ UNCHANGED <<positive, negative, granted>>
    BY Zenon DEF Failed
<1>2. /\ OneRequestEach' /\ SlotsAreCounted' /\ CalledBackOncePerResolve'
      /\ positive' \in Seq(Entry) /\ negative' \in Seq(Entry)
         /\ granted' \in [Credential -> Answer] => AuthTypeOK'
      /\ waiters'[c] = 0 /\ \A d \in Credential : d # c => waiters'[d] = waiters[d]
    BY <1>1, AnsweredKeeps, Zenon
<1>3. \A d \in Credential : waiters'[d] > 0 => waiters[d] > 0
    BY <1>2
<1>4. CachesInv'
    BY <1>0, <1>1, <1>3, CachesStay, Zenon
<1> QED
    BY <1>0, <1>1, <1>2, <1>4, Zenon DEF AuthInv

\* fan_out runs a callback.
LEMMA FanOutKeeps ==
    ASSUME AuthInv, FanOut
    PROVE  AuthInv'
<1>0. /\ AuthTypeOK /\ OneRequestEach /\ SlotsAreCounted /\ CachesInv /\ CalledBackOncePerResolve
    BY Zenon DEF AuthInv
<1>1. /\ stack \in Seq(Activation) /\ waiters \in [Credential -> Nat]
      /\ asked \in Nat /\ answered \in Nat
    BY <1>0, Zenon DEF AuthTypeOK
<1>2. /\ stack # <<>> /\ Top.left > 0 /\ stack' = Called /\ answered' = answered + 1
      /\ UNCHANGED <<now, positive, negative, waiters, pending, outstanding, inflight, next_helper,
                     closed, granted, asked>>
    BY Zenon DEF FanOut
<1>3. stack' \in Seq(Activation) /\ LeftToCall(stack') = LeftToCall(stack) - 1
    BY <1>1, <1>2, LeftCalled, Zenon
<1>4. LeftToCall(stack) \in Nat /\ SumFunctionOnSet(waiters, Credential) \in Nat
  <2>1. NatOn(waiters, Credential) /\ IsFiniteSet(Credential)
      BY <1>1, AuthConstants, Zenon DEF NatOn
  <2> QED
      BY <1>1, <2>1, LeftType, SumNat, Zenon
<1>5. CalledBackOncePerResolve'
  <2>1. asked = answered + SumFunctionOnSet(waiters, Credential) + LeftToCall(stack)
      BY <1>0, Zenon DEF CalledBackOncePerResolve
  <2>2. asked' = asked /\ answered' = answered + 1
        /\ SumFunctionOnSet(waiters', Credential) = SumFunctionOnSet(waiters, Credential)
      BY <1>2, Zenon
  <2>3. asked' = answered' + SumFunctionOnSet(waiters', Credential) + LeftToCall(stack')
      BY <1>1, <1>3, <1>4, <2>1, <2>2, SMTT(30)
  <2> QED
      BY <2>3, Zenon DEF CalledBackOncePerResolve
<1>6. CachesInv'
    BY <1>0, <1>2, CachesStay, Zenon
<1>7. OneRequestEach' /\ SlotsAreCounted'
    BY <1>0, <1>2, Zenon DEF OneRequestEach, SlotsAreCounted
<1>8. AuthTypeOK'
    BY <1>0, <1>2, <1>3 DEF AuthTypeOK
<1> QED
    BY <1>5, <1>6, <1>7, <1>8, Zenon DEF AuthInv

\* drain_pending hands the oldest pending credential to a free helper, or
\* returns from the activation.
LEMMA DrainPendingKeeps ==
    ASSUME AuthInv, DrainPending
    PROVE  AuthInv'
<1>0. /\ AuthTypeOK /\ OneRequestEach /\ SlotsAreCounted /\ CachesInv /\ CalledBackOncePerResolve
    BY Zenon DEF AuthInv
<1>1. /\ stack \in Seq(Activation) /\ waiters \in [Credential -> Nat] /\ pending \in Seq(Credential)
      /\ asked \in Nat /\ answered \in Nat
    BY <1>0, Zenon DEF AuthTypeOK
<1>2. /\ stack # <<>> /\ Top.left = 0
      /\ UNCHANGED <<now, positive, negative, closed, granted, asked, answered>>
    BY Zenon DEF DrainPending
<1>3. /\ asked = answered + SumFunctionOnSet(waiters, Credential) + LeftToCall(stack)
      /\ LeftToCall(stack) \in Nat /\ SumFunctionOnSet(waiters, Credential) \in Nat
  <2>1. NatOn(waiters, Credential) /\ IsFiniteSet(Credential)
      BY <1>1, AuthConstants, Zenon DEF NatOn
  <2>2. LeftToCall(stack) \in Nat /\ SumFunctionOnSet(waiters, Credential) \in Nat
      BY <1>1, <2>1, LeftType, SumNat, Zenon
  <2> QED
      BY <1>0, <2>2, Zenon DEF CalledBackOncePerResolve
<1>4. CASE pending = <<>> \/ FreeHelpers = {}
  <2>1. /\ stack' = SubSeq(stack, 1, Len(stack) - 1)
        /\ UNCHANGED <<pending, waiters, outstanding, inflight, next_helper>>
      BY <1>4, Zenon DEF DrainPending
  <2>2. stack' \in Seq(Activation) /\ LeftToCall(stack') = LeftToCall(stack)
      BY <1>1, <1>2, <2>1, LeftReturned, Zenon
  <2>3. CalledBackOncePerResolve'
      BY <1>2, <1>3, <2>1, <2>2, Zenon DEF CalledBackOncePerResolve
  <2>4. CachesInv'
      BY <1>0, <1>2, <2>1, CachesStay, Zenon
  <2>5. OneRequestEach' /\ SlotsAreCounted'
      BY <1>0, <2>1, Zenon DEF OneRequestEach, SlotsAreCounted
  <2>6. AuthTypeOK'
      BY <1>0, <1>2, <2>1, <2>2, Zenon DEF AuthTypeOK
  <2> QED
      BY <2>3, <2>4, <2>5, <2>6, Zenon DEF AuthInv
<1>5. CASE ~(pending = <<>> \/ FreeHelpers = {})
  <2>1. PICK c, n : c = Head(pending) /\ n = waiters[Head(pending)]
      BY Zenon
  <2>2. /\ Dispatch(c, n, stack) /\ pending' = Tail(pending) /\ FreeHelpers # {} /\ pending # <<>>
        /\ UNCHANGED closed
      BY <1>2, <1>5, <2>1, Zenon DEF DrainPending
  <2>3. /\ c \in Credential /\ 1 \in DOMAIN pending /\ pending[1] = c
        /\ pending' \in Seq(Credential)
        /\ \A i \in DOMAIN pending' : i + 1 \in DOMAIN pending /\ i + 1 # 1 /\ pending'[i] = pending[i + 1]
      BY <1>1, <2>1, <2>2, SMTT(30)
  <2>4. n \in Nat /\ n > 0 /\ n = waiters[c]
      BY <1>0, <1>1, <2>1, <2>3, Zenon DEF OneRequestEach
  <2>5. \A h \in Helper : c \notin outstanding[h]
      BY <1>0, <2>3, Zenon DEF OneRequestEach
  <2>6. \A i \in DOMAIN pending' : pending'[i] # c /\ \E j \in DOMAIN pending : pending'[i] = pending[j]
      BY <1>0, <2>3, Zenon DEF OneRequestEach
  <2>7. \A i, j \in DOMAIN pending' : pending'[i] = pending'[j] => i = j
    <3>1. \A i \in DOMAIN pending' : i \in Int
        BY <2>3, SMTT(30)
    <3>2. \A i, j \in DOMAIN pending' : pending[i + 1] = pending[j + 1] => i + 1 = j + 1
        BY <1>0, <2>3, Zenon DEF OneRequestEach
    <3> QED
        BY <2>3, <3>1, <3>2
  <2>8. /\ OneRequestEach' /\ SlotsAreCounted'
        /\ waiters' \in [Credential -> Nat]
        /\ outstanding' \in [Helper -> SUBSET Credential]
        /\ inflight' \in [Helper -> Nat] /\ next_helper' \in Helper
        /\ stack' \in Seq(Activation)
        /\ \A d \in Credential : d # c => waiters'[d] = waiters[d]
        /\ ToCall(waiters', stack') = ToCall(waiters, stack) - waiters[c] + n
      BY <1>0, <1>1, <2>2, <2>3, <2>4, <2>5, <2>6, <2>7, DispatchKeeps, ZenonT(60)
  <2>9. CachesInv'
    <3>1. \A d \in Credential : waiters'[d] > 0 => waiters[d] > 0
        BY <2>4, <2>8, Zenon
    <3> QED
        BY <1>0, <1>2, <3>1, CachesStay, Zenon
  <2>10. CalledBackOncePerResolve'
    <3>1. SumFunctionOnSet(waiters', Credential) \in Nat /\ LeftToCall(stack') \in Nat
      <4>1. NatOn(waiters', Credential) /\ IsFiniteSet(Credential)
          BY <2>8, AuthConstants, Zenon DEF NatOn
      <4> QED
          BY <2>8, <4>1, LeftType, SumNat, Zenon
    <3>2. SumFunctionOnSet(waiters', Credential) + LeftToCall(stack')
            = SumFunctionOnSet(waiters, Credential) + LeftToCall(stack)
        BY <1>3, <2>4, <2>8 DEF ToCall
    <3>3. asked' = asked /\ answered' = answered
        BY <1>2, Zenon
    <3>4. asked' = answered' + SumFunctionOnSet(waiters', Credential) + LeftToCall(stack')
        BY <1>1, <1>3, <3>1, <3>2, <3>3, SMTT(30)
    <3> QED
        BY <3>4, Zenon DEF CalledBackOncePerResolve
  <2>11. AuthTypeOK'
      BY <1>0, <1>2, <2>3, <2>8, Zenon DEF AuthTypeOK
  <2> QED
      BY <2>8, <2>9, <2>10, <2>11, Zenon DEF AuthInv
<1> QED
    BY <1>4, <1>5, Zenon

\* Time passes, or a helper closes.
LEMMA ClockAndCloseKeep ==
    ASSUME AuthInv, Tick \/ \E h \in Helper : HelperCloses(h)
    PROVE  AuthInv'
<1>0. /\ AuthTypeOK /\ OneRequestEach /\ SlotsAreCounted /\ CachesInv /\ CalledBackOncePerResolve
    BY Zenon DEF AuthInv
<1>1. /\ UNCHANGED <<positive, negative, waiters, pending, outstanding, inflight, next_helper,
                     stack, granted, asked, answered>>
      /\ now' \in Nat /\ closed' \in [Helper -> BOOLEAN]
  <2>1. CASE Tick
      BY <1>0, <2>1 DEF Tick, AuthTypeOK
  <2>2. ASSUME NEW h \in Helper, HelperCloses(h)
        PROVE  /\ UNCHANGED <<now, positive, negative, waiters, pending, outstanding, inflight,
                              next_helper, stack, granted, asked, answered>>
               /\ closed' = [closed EXCEPT ![h] = TRUE]
      BY <2>2, Zenon DEF HelperCloses
  <2> QED
      BY <1>0, <2>1, <2>2, Zenon DEF AuthTypeOK
<1>2. CachesInv'
    BY <1>0, <1>1, CachesStay, Zenon
<1>3. OneRequestEach' /\ SlotsAreCounted'
    BY <1>0, <1>1, Zenon DEF OneRequestEach, SlotsAreCounted
<1>4. CalledBackOncePerResolve'
    BY <1>0, <1>1, Zenon DEF CalledBackOncePerResolve
<1>5. AuthTypeOK'
    BY <1>0, <1>1, Zenon DEF AuthTypeOK
<1> QED
    BY <1>2, <1>3, <1>4, <1>5, Zenon DEF AuthInv

\* A new client has empty caches and no requests.
LEMMA AuthInitEstablishes ==
    ASSUME AuthInit
    PROVE  AuthInv
<1>1. Helpers \in Nat \ {0} /\ 0 \in Helper
    BY AuthConstants DEF Helper
<1>2. AuthTypeOK
  <2>1. Never \in Answer
      BY DEF Never, Answer
  <2> QED
      BY <1>1, <2>1, SMTT(30) DEF AuthInit, AuthTypeOK
<1>3. OneRequestEach
    BY DEF AuthInit, OneRequestEach
<1>4. SlotsAreCounted
    BY FS_EmptySet, AuthConstants, SMTT(30) DEF AuthInit, SlotsAreCounted
<1>5. CachesInv
  <2>0. PICK none : none = <<>>
      BY Zenon
  <2>1. none = <<>> /\ none \in Seq(Entry)
      BY <2>0
  <2>2. DOMAIN none = {} /\ Len(none) = 0 /\ positive = none /\ negative = none
      BY <2>1, SMTT(30) DEF AuthInit
  <2>3. Bytes(none) = 0
      BY <2>1, <2>2, SumRec, BytesType, FS_EmptySet, Zenon
  <2>4. InBudget(none, PositiveCapacity) /\ InBudget(none, NegativeCapacity)
      BY <2>2, <2>3, AuthConstants, CacheConstants DEF InBudget, DistinctKeys
  <2>5. Keys(none) = {}
      BY <2>2, Zenon DEF Keys
  <2> QED
      BY <2>2, <2>4, <2>5, Zenon DEF CachesInv
<1>6. CalledBackOncePerResolve
  <2>1. waiters = [c \in Credential |-> 0] /\ stack = <<>> /\ asked = 0 /\ answered = 0
      BY Zenon DEF AuthInit
  <2>2. SumFunctionOnSet(waiters, Credential) = 0
    <3> DEFINE F == {s \in SUBSET Credential : SumFunctionOnSet(waiters, s) = 0}
    <3>1. {} \in F
        BY SumRec, FS_EmptySet, Zenon
    <3>2. ASSUME NEW T \in SUBSET Credential, NEW x \in Credential \ T, T \in F
          PROVE  T \cup {x} \in F
      <4>1. IsFiniteSet(T) /\ IntOn(waiters, T \cup {x})
          BY <2>1, AuthConstants, FS_Subset, SMTT(30) DEF IntOn
      <4>2. SumFunctionOnSet(waiters, T \cup {x}) = SumFunctionOnSet(waiters, T) + waiters[x]
          BY <4>1, SumAdd, Zenon
      <4> QED
          BY <2>1, <3>2, <4>2, SMTT(30)
    <3>3. Credential \in F
      <4> HIDE DEF F
      <4> QED
          BY <3>1, <3>2, FiniteSetInduction, AuthConstants, Zenon
    <3> QED
        BY <3>3, Zenon
  <2>3. LeftToCall(stack) = 0
    <3>1. stack \in Seq(Activation) /\ DOMAIN stack = {}
        BY <2>1
    <3> QED
        BY <3>1, LeftType, SumRec, FS_EmptySet, ZenonT(60)
  <2> QED
      BY <2>1, <2>2, <2>3 DEF CalledBackOncePerResolve
<1> QED
    BY <1>2, <1>3, <1>4, <1>5, <1>6, Zenon DEF AuthInv

\* Every step of the client keeps the invariant.
LEMMA AuthNextKeeps ==
    ASSUME AuthInv, [AuthNext]_authVars
    PROVE  AuthInv'
<1>0. AuthTypeOK
    BY Zenon DEF AuthInv
<1>1. ASSUME NEW c \in Credential, Request(c) PROVE AuthInv'
  <2>1. stack = <<>> /\ Resolve(c, <<>>, 0)
      BY <1>1, Zenon DEF Request, Idle
  <2>2. PICK frames : frames = <<>>
      BY Zenon
  <2>3. frames \in Seq(Activation)
      BY <2>2
  <2>4. LeftToCall(frames) = LeftToCall(stack) /\ LeftToCall(frames) \in Nat
      BY <2>1, <2>2, <2>3, LeftType, Zenon
  <2>5. LeftToCall(frames) = LeftToCall(stack) - 0
      BY <2>4
  <2> QED
      BY <2>1, <2>2, <2>3, <2>5, ResolveKeeps, Zenon
<1>2. ASSUME NEW c \in Credential, FanOutResolves(c) PROVE AuthInv'
  <2>1. stack # <<>> /\ Top.left > 0 /\ Resolve(c, Called, 1)
      BY <1>2, Zenon DEF FanOutResolves
  <2>2. Called \in Seq(Activation) /\ LeftToCall(Called) = LeftToCall(stack) - 1
      BY <1>0, <2>1, LeftCalled, Zenon DEF AuthTypeOK
  <2> QED
      BY <2>1, <2>2, ResolveKeeps, Zenon
<1>3. ASSUME NEW h \in Helper, NEW c \in outstanding[h], NEW until \in {-1, now, now + 1},
             Granted(h, c, until)
      PROVE  AuthInv'
  <2>1. until \in Int
      BY <1>0, SMTT(30) DEF AuthTypeOK
  <2> QED
      BY <1>3, <2>1, GrantedKeeps, Zenon
<1>4. ASSUME NEW h \in Helper, NEW c \in outstanding[h], Denied(h, c) PROVE AuthInv'
    BY <1>4, DeniedKeeps, Zenon
<1>5. ASSUME NEW h \in Helper, NEW c \in outstanding[h], TimeOut(h, c) PROVE AuthInv'
    BY <1>5, FailedKeeps, Zenon DEF TimeOut, Idle
<1>6. ASSUME NEW h \in Helper, NEW c \in outstanding[h], FailOnClose(h, c) PROVE AuthInv'
    BY <1>6, FailedKeeps, Zenon DEF FailOnClose
<1>7. CASE FanOut
    BY <1>7, FanOutKeeps, Zenon
<1>8. CASE DrainPending
    BY <1>8, DrainPendingKeeps, Zenon
<1>9. CASE Tick \/ \E h \in Helper : HelperCloses(h)
    BY <1>9, ClockAndCloseKeep, Zenon
<1>10. CASE UNCHANGED authVars
    BY <1>10, Zenon DEF AuthInv, AuthTypeOK, OneRequestEach, SlotsAreCounted, CachesInv, GrantBacked,
                 DenialBacked, CalledBackOncePerResolve, authVars
<1> QED
    BY <1>1, <1>2, <1>3, <1>4, <1>5, <1>6, <1>7, <1>8, <1>9, <1>10, ZenonT(60) DEF AuthNext

-----------------------------------------------------------------------------
(* The theorems.                                                           *)

\* The invariant holds throughout: types, one request per credential at most,
\* slots counted, caches backed by answers, callbacks counted.
THEOREM AuthInvariant == AuthSpec => []AuthInv
<1>1. AuthInit => AuthInv
    BY AuthInitEstablishes, Zenon
<1>2. AuthInv /\ [AuthNext]_authVars => AuthInv'
    BY AuthNextKeeps, Zenon
<1> QED
    BY <1>1, <1>2, PTL DEF AuthSpec

\* A cache with one entry per key has as many keys as entries.
LEMMA KeysAreCounted ==
    ASSUME NEW cache \in Seq(Entry), DistinctKeys(cache)
    PROVE  Cardinality(Keys(cache)) = Len(cache)
<1>1. IsFiniteSet(DOMAIN cache) /\ Cardinality(DOMAIN cache) = Len(cache)
    BY BytesType, Zenon
<1>2. PICK b : b = [i \in DOMAIN cache |-> cache[i].key]
    BY Zenon
<1>3. b \in Bijection(DOMAIN cache, Keys(cache))
  <2>1. b \in [DOMAIN cache -> Keys(cache)]
      BY <1>2, Zenon DEF Keys
  <2>2. \A i, j \in DOMAIN cache : b[i] = b[j] => i = j
      BY <1>2, Zenon DEF DistinctKeys
  <2>3. \A k \in Keys(cache) : \E i \in DOMAIN cache : b[i] = k
      BY <1>2, Zenon DEF Keys
  <2> QED
      BY <2>1, <2>2, <2>3, Zenon DEF Bijection, Injection, Surjection, IsInjective
<1> QED
    BY <1>1, <1>3, FS_Bijection, Zenon DEF ExistsBijection

\* The two caches of AuthClient stay in their budgets and never hold the same
\* credential, nor one that on_response has yet to answer, for every number of
\* helpers, slots and credentials, every capacity and every lifetime.
THEOREM CachesNeverDisagreeHolds == AuthSpec => []CachesNeverDisagree
<1>1. AuthInv => CachesNeverDisagree
  <2> SUFFICES ASSUME AuthInv PROVE CachesNeverDisagree
      BY Zenon
  <2>1. positive \in Seq(Entry) /\ negative \in Seq(Entry) /\ CachesInv
      BY Zenon DEF AuthInv, AuthTypeOK
  <2>2. InBudget(positive, PositiveCapacity) /\ InBudget(negative, NegativeCapacity)
      BY <2>1, Zenon DEF CachesInv
  <2>3. IsCache(positive, PositiveCapacity) /\ IsCache(negative, NegativeCapacity)
      BY <2>1, <2>2, KeysAreCounted, Zenon DEF InBudget, IsCache
  <2> QED
      BY <2>1, <2>3, Zenon DEF CachesNeverDisagree, CachesInv
<1> QED
    BY <1>1, AuthInvariant, PTL

\* Each resolve() is called back exactly once, whether a cache, a helper, a
\* closed helper or a deadline answers it, and however resolve() is called from
\* the callbacks of another.
THEOREM CalledBackOncePerResolveHolds == AuthSpec => []CalledBackOncePerResolve
<1>1. AuthInv => CalledBackOncePerResolve
    BY Zenon DEF AuthInv
<1> QED
    BY <1>1, AuthInvariant, PTL

\* What resolve() serves from a cache is what a helper last said of the
\* credential, within not_after and the lifetimes of the configuration.
THEOREM ServedIsGrantedHolds == AuthSpec => ServedIsGranted
<1> DEFINE Backed ==
        served' # <<>> =>
          LET a == served'[1]  g == granted[a.cred]
          IN /\ g.at >= 0 /\ g.ok = a.ok
             /\ a.ok => now < g.at + PositiveTtl /\ (g.until # -1 => now < g.until)
             /\ ~a.ok => now < g.at + NegativeTtl
<1>1. ASSUME AuthInv, NEW c \in Credential, NEW frames, NEW done, Resolve(c, frames, done)
      PROVE  Backed
  <2>0. /\ positive \in Seq(Entry) /\ negative \in Seq(Entry) /\ now \in Nat
        /\ granted \in [Credential -> Answer] /\ CachesInv
      BY <1>1, Zenon DEF AuthInv, AuthTypeOK
  <2>1. granted[c].ok \in BOOLEAN /\ granted[c].at \in Int /\ granted[c].until \in Int
      BY <2>0, Zenon DEF Answer
  <2>2. CASE Live(positive, c, now)
    <3>1. served' = <<[cred |-> c, ok |-> TRUE, at |-> now]>>
        BY <1>1, <2>2, Zenon DEF Resolve, Hit
    <3>2. PICK i \in DOMAIN positive : positive[i].key = c /\ now < positive[i].expiry
        BY <2>0, <2>2, PositionIs, Zenon DEF Live
    <3>3. GrantBacked(positive[i]) /\ positive[i] \in Entry
        BY <2>0 DEF CachesInv
    <3>4. /\ granted[c].ok /\ granted[c].at >= 0 /\ now < granted[c].at + PositiveTtl
          /\ granted[c].until # -1 => now < granted[c].until
      <4>1. PICK e : e = positive[i].expiry
          BY Zenon
      <4>2. e \in Int /\ now < e
          BY <3>2, <3>3, <4>1, Zenon DEF Entry
      <4>3. /\ granted[c].ok /\ granted[c].at >= 0 /\ e <= granted[c].at + PositiveTtl
            /\ granted[c].until # -1 => e <= granted[c].until
          BY <3>2, <3>3, <4>1, Zenon DEF GrantBacked
      <4> QED
          BY <2>0, <2>1, <4>2, <4>3, AuthConstants, SMTT(30)
    <3> QED
        BY <2>1, <3>1, <3>4, ZenonT(60)
  <2>3. CASE ~Live(positive, c, now) /\ Live(negative, c, now)
    <3>1. served' = <<[cred |-> c, ok |-> FALSE, at |-> now]>>
      <4>1. Hit(c, Live(positive, c, now), frames)
          BY <1>1, <2>3, Zenon DEF Resolve
      <4>2. Live(positive, c, now) = FALSE
          BY <2>3, Zenon DEF Live
      <4>3. Hit(c, FALSE, frames)
          BY <4>1, <4>2, Zenon
      <4> QED
          BY <4>3, Zenon DEF Hit
    <3>2. PICK i \in DOMAIN negative : negative[i].key = c /\ now < negative[i].expiry
        BY <2>0, <2>3, PositionIs, Zenon DEF Live
    <3>3. DenialBacked(negative[i]) /\ negative[i] \in Entry
        BY <2>0, SMTT(30) DEF CachesInv
    <3>4. ~granted[c].ok /\ granted[c].at >= 0 /\ now < granted[c].at + NegativeTtl
        BY <2>0, <2>1, <3>2, <3>3, AuthConstants, SMTT(30) DEF DenialBacked, Entry
    <3> QED
        BY <2>1, <3>1, <3>4, Zenon
  <2>4. CASE ~Live(positive, c, now) /\ ~Live(negative, c, now)
      BY <1>1, <2>4, ZenonT(60) DEF Resolve
  <2> QED
      BY <2>2, <2>3, <2>4, Zenon
<1>2. ASSUME AuthInv, AuthNext PROVE Backed
  <2>1. ASSUME NEW c \in Credential, Request(c) \/ FanOutResolves(c) PROVE Backed
      BY <1>1, <1>2, <2>1, ZenonT(60) DEF Request, FanOutResolves
  <2>2. CASE ~\E c \in Credential : Request(c) \/ FanOutResolves(c)
    <3>1. served' = <<>>
        BY <1>2, <2>2, ZenonT(60) DEF AuthNext, Granted, Denied, TimeOut, FailOnClose, Failed, Answered,
                          HelperCloses, FanOut, DrainPending, Tick
    <3> QED
        BY <3>1, ZenonT(60)
  <2> QED
      BY <2>1, <2>2, ZenonT(60)
<1>3. AuthInv /\ [AuthNext]_authVars => [Backed]_authVars
    BY <1>2, Zenon
<1>4. ServedIsGranted <=> [][Backed]_authVars
    BY Zenon DEF ServedIsGranted
<1> QED
    BY <1>3, <1>4, AuthInvariant, PTL DEF AuthSpec

\* At no time does a helper have more requests than its depth, and inflight is
\* what it has: no answer, deadline or close leaks a slot or gives one back
\* twice, and no credential is with two helpers or with one and pending.
THEOREM SlotsAreNeverLeaked == AuthSpec => [](SlotsAreCounted /\ OneRequestEach)
<1>1. AuthInv => SlotsAreCounted /\ OneRequestEach
    BY Zenon DEF AuthInv
<1> QED
    BY <1>1, AuthInvariant, PTL
=============================================================================
