--------------------------- MODULE ExactCountsProofs ---------------------------
(***************************************************************************)
(* The counts of QuotaStore and LimitState are exact, for any keys,        *)
(* messages, limits, spans, bucket sizes and clock lag: what a window      *)
(* counts is what was delivered in the buckets of its span, also across    *)
(* restarts.  Hence the enforced store implements SendingLimit.            *)
(***************************************************************************)
EXTENDS LimitStateProofs

\* What a window counts in a bucket, and what a store counts there for a key.
CountAt(count, s, b) == IF b \in DOMAIN count[s] THEN count[s][b] ELSE 0
KeyAt(store, t, s, b) == IF t \in DOMAIN store THEN CountAt(store[t].count, s, b) ELSE 0

\* The messages of K delivered in a bucket.
In(K, s, b) == {m \in K : Bucket(s, committed[m]) = b}
PartOf(U, s, b) == {u \in U : Bucket(s, committed[u[1]]) = b}

\* In each bucket the spans still have, the store counts the deliveries of K.
Exact(K) ==
  \A s \in Spans : \A b \in Nat : Fresh(s, b, clock) =>
    /\ \A t \in Texts : KeyAt(keys, t, s, b) = Cardinality(KeyUnits(In(K, s, b), t))
    /\ CountAt(local.count, s, b) = Cardinality(LocalUnits(In(K, s, b)))
-----------------------------------------------------------------------------
(* A sum of bucket counts is the size of a set that has as many elements   *)
(* in each bucket.                                                         *)
LEMMA SumOfBuckets ==
  ASSUME NEW counts, IsFiniteSet(DOMAIN counts), \A b \in DOMAIN counts : counts[b] \in Nat,
         NEW U, NEW at, \A u \in U : at[u] \in DOMAIN counts,
         \A b \in DOMAIN counts :
           /\ IsFiniteSet({u \in U : at[u] = b})
           /\ counts[b] = Cardinality({u \in U : at[u] = b})
  PROVE  Total(counts) = Cardinality(U)
<1> DEFINE Part(b) == {u \in U : at[u] = b}
           numbering == [b \in DOMAIN counts |->
                           CHOOSE f : f \in Bijection(1 .. counts[b], Part(b))]
           G(u) == numbering[u[1]][u[2]]
           g == [u \in Units(counts) |-> G(u)]
<1>1. ASSUME NEW b \in DOMAIN counts
      PROVE  /\ \A i \in 1 .. counts[b] : numbering[b][i] \in Part(b)
             /\ \A i, j \in 1 .. counts[b] : numbering[b][i] = numbering[b][j] => i = j
             /\ \A u \in Part(b) : \E i \in 1 .. counts[b] : numbering[b][i] = u
  <2>1. ExistsBijection(1 .. counts[b], Part(b))
    BY FS_CardinalityType
  <2>2. numbering[b] \in Bijection(1 .. counts[b], Part(b))
    BY <2>1 DEF ExistsBijection
  <2> HIDE DEF numbering, Part
  <2>3. /\ numbering[b] \in [1 .. counts[b] -> Part(b)]
        /\ \A i, j \in 1 .. counts[b] : numbering[b][i] = numbering[b][j] => i = j
        /\ \A u \in Part(b) : \E i \in 1 .. counts[b] : numbering[b][i] = u
    BY <2>2, Fun_BijectionProperties
  <2> QED  BY <2>3
<1> HIDE DEF numbering
<1>2. /\ \A u \in Units(counts) :
           /\ u[1] \in DOMAIN counts /\ u[2] \in 1 .. counts[u[1]] /\ u = <<u[1], u[2]>>
      /\ \A b \in DOMAIN counts : \A i \in 1 .. counts[b] : <<b, i>> \in Units(counts)
  BY DEF Units
<1>3. \A u \in Units(counts) : G(u) \in U /\ at[G(u)] = u[1]
  BY <1>1, <1>2
<1>4. g \in [Units(counts) -> U]
  BY <1>3
<1>5. \A u, v \in Units(counts) : g[u] = g[v] => u = v
  <2> SUFFICES ASSUME NEW u \in Units(counts), NEW v \in Units(counts), G(u) = G(v)
               PROVE  u = v
    OBVIOUS
  <2>1. u[1] = v[1]
    BY <1>3
  <2>2. u[2] = v[2]
    BY <1>1, <1>2, <2>1
  <2> QED  BY <1>2, <2>1, <2>2
<1>6. \A x \in U : \E u \in Units(counts) : g[u] = x
  <2> SUFFICES ASSUME NEW x \in U PROVE \E u \in Units(counts) : G(u) = x
    OBVIOUS
  <2>1. x \in Part(at[x]) /\ at[x] \in DOMAIN counts
    OBVIOUS
  <2>2. PICK i \in 1 .. counts[at[x]] : numbering[at[x]][i] = x
    BY <1>1, <2>1
  <2>3. <<at[x], i>> \in Units(counts) /\ G(<<at[x], i>>) = x
    BY <1>2, <2>1, <2>2
  <2> QED  BY <2>3
<1>7. ExistsBijection(Units(counts), U)
  <2> HIDE DEF g
  <2>1. g \in Bijection(Units(counts), U)
    BY <1>4, <1>5, <1>6, Fun_IsBij
  <2> QED  BY <2>1 DEF ExistsBijection
<1>8. IsFiniteSet(Units(counts))
  BY UnitsFinite
<1> QED  BY <1>7, <1>8, FS_Bijection DEF Total

(* The total of a window is the number of deliveries still fresh, when it  *)
(* is exact bucket by bucket.                                              *)
LEMMA WindowSum ==
  ASSUME NEW w, IsWindow(w), NEW s \in Spans, clock \in Nat,
         NEW U, IsFiniteSet(U), NEW at,
         \A u \in U : at[u] \in Nat /\ Fresh(s, at[u], clock),
         \A b \in Nat : Fresh(s, b, clock) =>
           CountAt(w.count, s, b) = Cardinality({u \in U : at[u] = b})
  PROVE  Total(Expire(w, clock).count[s]) = Cardinality(U)
<1> DEFINE counts == Expire(w, clock).count[s]
           Part(b) == {u \in U : at[u] = b}
<1>1. /\ DOMAIN counts = {x \in DOMAIN w.count[s] : Fresh(s, x, clock)}
      /\ \A b \in DOMAIN counts : counts[b] = w.count[s][b]
  BY DEF Expire
<1>2. IsCounts(s, w.count[s]) /\ IsCounts(s, counts)
  <2>1. IsWindow(Expire(w, clock))
    BY ExpireWindow
  <2> QED  BY <2>1 DEF IsWindow
<1>3. \A b \in Nat : IsFiniteSet(Part(b))
  <2> TAKE b \in Nat
  <2>1. Part(b) \in SUBSET U
    OBVIOUS
  <2> QED  BY <2>1, FS_Subset
<1> HIDE DEF counts
<1>4. \A b \in DOMAIN counts :
        /\ b \in Nat /\ counts[b] \in Nat /\ counts[b] = Cardinality(Part(b))
        /\ IsFiniteSet(Part(b))
  BY <1>1, <1>2, <1>3 DEF IsCounts, CountAt
<1>5. ASSUME NEW u \in U PROVE at[u] \in DOMAIN counts
  <2>1. at[u] \in Nat /\ Fresh(s, at[u], clock) /\ u \in Part(at[u])
    OBVIOUS
  <2>2. CountAt(w.count, s, at[u]) # 0
    <3> DEFINE P == Part(at[u])
    <3>1. IsFiniteSet(P) /\ P # {}
      BY <1>3, <2>1
    <3> HIDE DEF P
    <3>2. Cardinality(P) # 0
      BY <3>1, FS_EmptySet
    <3> QED  BY <2>1, <3>2 DEF P
  <2> QED  BY <1>1, <2>1, <2>2 DEF CountAt
<1>6. IsFiniteSet(DOMAIN counts)
  BY <1>2 DEF IsCounts
<1>7. Total(counts) = Cardinality(U)
  BY <1>4, <1>5, <1>6, SumOfBuckets
<1> QED  BY <1>7 DEF counts
-----------------------------------------------------------------------------
(* What expiry, the sweep and the settling of reservations do to a bucket. *)
LEMMA FreshBefore ==
  ASSUME NEW s \in Spans, NEW b \in Nat, NEW now \in Nat, NEW later \in Nat, now <= later,
         Fresh(s, b, later)
  PROVE  Fresh(s, b, now)
<1>1. Size[s] \in Nat /\ Span[s] \in Nat
  BY ConstantsAssumption
<1> QED  BY <1>1 DEF Fresh

LEMMA ExpireKeeps ==
  ASSUME NEW w, NEW now, NEW s \in Spans, NEW b, Fresh(s, b, now)
  PROVE  CountAt(Expire(w, now).count, s, b) = CountAt(w.count, s, b)
BY DEF Expire, CountAt

LEMMA EmptyAt ==
  ASSUME NEW s \in Spans, NEW b
  PROVE  CountAt(EmptyWindow.count, s, b) = 0
BY DEF EmptyWindow, NoCounts, CountAt

LEMMA StoreForCounts ==
  ASSUME NEW text \in Texts, NEW now \in Int,
         NEW s \in Spans, NEW b \in Nat, Fresh(s, b, now), NEW t \in Texts
  PROVE  KeyAt(StoreFor(text, now), t, s, b) = KeyAt(keys, t, s, b)
<1> DEFINE base == IF Sweeps(text, now) THEN Swept(now) ELSE keys
<1>1. KeyAt(Swept(now), t, s, b) = KeyAt(keys, t, s, b)
  <2> DEFINE kept == {x \in DOMAIN keys : ~Idle(Expire(keys[x], now))}
  <2>1. /\ DOMAIN Swept(now) = kept
        /\ \A x \in kept : Swept(now)[x] = Expire(keys[x], now)
    BY DEF Swept
  <2>2. CASE t \in kept
    BY <2>1, <2>2, ExpireKeeps DEF KeyAt
  <2>3. CASE t \in DOMAIN keys /\ t \notin kept
    <3>1. b \notin DOMAIN Expire(keys[t], now).count[s]
      BY <2>3 DEF Idle
    <3>2. CountAt(Expire(keys[t], now).count, s, b) = 0
      BY <3>1 DEF CountAt
    <3> QED  BY <2>1, <2>3, <3>2, ExpireKeeps DEF KeyAt
  <2>4. CASE t \notin DOMAIN keys
    BY <2>1, <2>4 DEF KeyAt
  <2> QED  BY <2>2, <2>3, <2>4
<1>2. KeyAt(base, t, s, b) = KeyAt(keys, t, s, b)
  BY <1>1
<1> HIDE DEF base
<1>3. \/ StoreFor(text, now) = base
      \/ /\ text \notin DOMAIN base
         /\ StoreFor(text, now) = [x \in DOMAIN base \cup {text} |->
                                     IF x = text THEN EmptyWindow ELSE base[x]]
  BY DEF StoreFor, base
<1> QED  BY <1>2, <1>3, EmptyAt DEF KeyAt

LEMMA SettleAt ==
  ASSUME NEW w, IsWindow(w), NEW now \in Nat, NEW n \in Nat, NEW s \in Spans, NEW b \in Nat
  PROVE  CountAt(Settle(w, now, n).count, s, b) =
           CountAt(w.count, s, b) + (IF b = Bucket(s, now) THEN n ELSE 0)
<1>1. Settle(w, now, n).count[s] = AddCount(s, w.count[s], now, n)
  BY DEF Settle
<1>2. IsCounts(s, w.count[s])
  BY DEF IsWindow
<1>3. CountAt(w.count, s, b) \in Nat
  BY <1>2 DEF CountAt, IsCounts
<1> QED  BY <1>1, <1>3 DEF AddCount, CountAt
-----------------------------------------------------------------------------
(* A step that leaves the deliveries and the buckets of the spans alone    *)
(* keeps the counts exact.                                                 *)
LEMMA CountsStay ==
  ASSUME NEW K, Exact(K), clock \in Nat, clock' \in Nat, clock <= clock',
         \A m \in K : /\ committed'[m] = committed[m] /\ res'[m].key = res[m].key
                      /\ res'[m].keyed = res[m].keyed /\ res'[m].local = res[m].local,
         \A s \in Spans : \A b \in Nat : Fresh(s, b, clock') =>
           /\ \A t \in Texts : KeyAt(keys', t, s, b) = KeyAt(keys, t, s, b)
           /\ CountAt(local'.count, s, b) = CountAt(local.count, s, b)
  PROVE  Exact(K)'
<1> SUFFICES ASSUME NEW s \in Spans, NEW b \in Nat, Fresh(s, b, clock')
             PROVE  /\ \A t \in Texts : KeyAt(keys', t, s, b)
                                          = Cardinality(KeyUnits(In(K, s, b), t)')
                    /\ CountAt(local'.count, s, b) = Cardinality(LocalUnits(In(K, s, b))')
  BY DEF Exact
<1>1. Fresh(s, b, clock)
  BY FreshBefore
<1>2. In(K, s, b)' = In(K, s, b)
  BY DEF In
<1>3. /\ \A t \in Texts : KeyUnits(In(K, s, b), t)' = KeyUnits(In(K, s, b), t)
      /\ LocalUnits(In(K, s, b))' = LocalUnits(In(K, s, b))
  BY <1>2 DEF KeyUnits, LocalUnits, In
<1> QED  BY <1>1, <1>3 DEF Exact

(* A window, and a store, that is exact bucket by bucket is exact in total.*)
LEMMA ExactWindow ==
  ASSUME TypeOK, NEW K, K \subseteq DOMAIN committed, NEW s \in Spans,
         NEW w, IsWindow(w), NEW U, U \subseteq (InBuckets(s) \cap K) \X (1 .. MaxRecipients),
         \A b \in Nat : Fresh(s, b, clock) =>
           CountAt(w.count, s, b) = Cardinality(PartOf(U, s, b))
  PROVE  /\ IsFiniteSet(U)
         /\ Total(Expire(w, clock).count[s]) = Cardinality(U)
<1> DEFINE at == [u \in U |-> Bucket(s, committed[u[1]])]
<1>1. K \in SUBSET Messages /\ clock \in Nat /\ \A m \in K : committed[m] \in Nat
  BY DEF TypeOK
<1>2. \A m \in InBuckets(s) : Fresh(s, Bucket(s, committed[m]), clock)
  BY DEF InBuckets, Delivered
<1>3. \A u \in U : at[u] \in Nat /\ Fresh(s, at[u], clock)
  BY <1>1, <1>2, BucketAligned
<1>4. IsFiniteSet(U)
  <2>1. IsFiniteSet(K) /\ IsFiniteSet(1 .. MaxRecipients)
    BY <1>1, ConstantsAssumption, FS_Subset, FS_Interval
  <2>2. IsFiniteSet(K \X (1 .. MaxRecipients)) /\ U \in SUBSET (K \X (1 .. MaxRecipients))
    BY <2>1, FS_Product
  <2> QED  BY <2>2, FS_Subset
<1>5. \A b \in Nat : PartOf(U, s, b) = {u \in U : at[u] = b}
  BY DEF PartOf
<1> HIDE DEF at
<1>6. \A b \in Nat : Fresh(s, b, clock) =>
        CountAt(w.count, s, b) = Cardinality({u \in U : at[u] = b})
  BY <1>5
<1> QED  BY <1>1, <1>3, <1>4, <1>6, WindowSum

LEMMA PartsOfUnits ==
  ASSUME NEW K, K \subseteq DOMAIN committed, NEW s \in Spans, NEW b \in Nat, Fresh(s, b, clock)
  PROVE  /\ \A t \in Texts :
              KeyUnits(In(K, s, b), t) =
                PartOf(KeyUnits(InBuckets(s) \cap K, t), s, b)
         /\ LocalUnits(In(K, s, b)) =
              PartOf(LocalUnits(InBuckets(s) \cap K), s, b)
<1> DEFINE M == InBuckets(s) \cap K
<1>1. In(K, s, b) = {m \in M : Bucket(s, committed[m]) = b}
  BY DEF In, InBuckets, Delivered
<1> HIDE DEF M
<1>2. /\ \A t \in Texts : KeyUnits(In(K, s, b), t)
                         = PartOf(KeyUnits(M, t), s, b)
      /\ LocalUnits(In(K, s, b)) = PartOf(LocalUnits(M), s, b)
  BY <1>1 DEF KeyUnits, LocalUnits, PartOf
<1> QED  BY <1>2 DEF M

\* A store S that counts in each bucket what the deliveries of K are.
LEMMA ExactKey ==
  ASSUME TypeOK, NEW K, K \subseteq DOMAIN committed, NEW s \in Spans,
         NEW S, NEW t \in Texts, t \in DOMAIN S => IsWindow(S[t]),
         \A b \in Nat : Fresh(s, b, clock) =>
           KeyAt(S, t, s, b) = Cardinality(KeyUnits(In(K, s, b), t))
  PROVE  Cardinality(KeyUnits(InBuckets(s) \cap K, t)) =
           IF t \in DOMAIN S THEN Total(Expire(S[t], clock).count[s]) ELSE 0
<1> DEFINE U == KeyUnits(InBuckets(s) \cap K, t)
           w == IF t \in DOMAIN S THEN S[t] ELSE EmptyWindow
<1>1. IsWindow(w)
  BY EmptyIsWindow
<1>2. U \subseteq (InBuckets(s) \cap K) \X (1 .. MaxRecipients)
  BY DEF KeyUnits
<1>3. \A b \in Nat : Fresh(s, b, clock) =>
        CountAt(w.count, s, b) = Cardinality(PartOf(U, s, b))
  <2> TAKE b \in Nat
  <2> HAVE Fresh(s, b, clock)
  <2>1. CountAt(w.count, s, b) = KeyAt(S, t, s, b)
    BY EmptyAt DEF KeyAt
  <2>2. KeyUnits(In(K, s, b), t) = PartOf(U, s, b)
    BY PartsOfUnits
  <2>3. KeyAt(S, t, s, b) = Cardinality(KeyUnits(In(K, s, b), t))
    OBVIOUS
  <2> HIDE DEF U, w
  <2> QED  BY <2>1, <2>2, <2>3
<1> HIDE DEF U, w
<1>4. Total(Expire(w, clock).count[s]) = Cardinality(U)
  BY <1>1, <1>2, <1>3, ExactWindow
<1>5. Total(Expire(EmptyWindow, clock).count[s]) = 0
  <2>1. Expire(EmptyWindow, clock).count[s] = NoCounts /\ EmptyWindow.count[s] = NoCounts
    BY DEF Expire, EmptyWindow, NoCounts
  <2> QED  BY <2>1, EmptyIsWindow
<1> QED  BY <1>4, <1>5 DEF U, w

LEMMA ExactTotals ==
  ASSUME TypeOK, NEW K, K \subseteq DOMAIN committed, Exact(K), NEW s \in Spans
  PROVE  /\ \A t \in Texts :
              Cardinality(KeyUnits(InBuckets(s) \cap K, t)) =
                IF t \in DOMAIN keys THEN Total(Expire(keys[t], clock).count[s]) ELSE 0
         /\ Total(Expire(local, clock).count[s])
              = Cardinality(LocalUnits(InBuckets(s) \cap K))
<1>1. ASSUME NEW t \in Texts
      PROVE  Cardinality(KeyUnits(InBuckets(s) \cap K, t)) =
               IF t \in DOMAIN keys THEN Total(Expire(keys[t], clock).count[s]) ELSE 0
  <2>1. /\ t \in DOMAIN keys => IsWindow(keys[t])
        /\ \A b \in Nat : Fresh(s, b, clock) =>
             KeyAt(keys, t, s, b) = Cardinality(KeyUnits(In(K, s, b), t))
    BY DEF TypeOK, Exact
  <2> QED  BY <2>1, ExactKey
<1>2. Total(Expire(local, clock).count[s]) = Cardinality(LocalUnits(InBuckets(s) \cap K))
  <2> DEFINE U == LocalUnits(InBuckets(s) \cap K)
  <2>1. IsWindow(local) /\ U \subseteq (InBuckets(s) \cap K) \X (1 .. MaxRecipients)
    BY DEF TypeOK, LocalUnits
  <2>2. \A b \in Nat : Fresh(s, b, clock) =>
          CountAt(local.count, s, b) = Cardinality(PartOf(U, s, b))
    <3> TAKE b \in Nat
    <3> HAVE Fresh(s, b, clock)
    <3>1. LocalUnits(In(K, s, b)) = PartOf(U, s, b)
      BY PartsOfUnits
    <3>2. CountAt(local.count, s, b) = Cardinality(LocalUnits(In(K, s, b)))
      BY DEF Exact
    <3> HIDE DEF U
    <3> QED  BY <3>1, <3>2
  <2> HIDE DEF U
  <2>3. Total(Expire(local, clock).count[s]) = Cardinality(U)
    BY <2>1, <2>2, ExactWindow
  <2> QED  BY <2>3 DEF U
<1> QED  BY <1>1, <1>2
-----------------------------------------------------------------------------
(* The calls that deliver nothing.                                         *)
LEMMA CallStep ==
  ASSUME IInv, NEW K, K \subseteq DOMAIN committed, Exact(K), NEW m \in Messages,
         \/ \E k \in LimitKeys : Begin(m, k)
         \/ \E now \in Times : Reserve(m, now)
         \/ Release(m)
  PROVE  Exact(K)'
<1>1. /\ clock \in Nat /\ clock' = clock /\ committed' = committed
      /\ DOMAIN committed \subseteq {x \in DOMAIN res : res[x].closed}
      /\ res \in [DOMAIN res -> Reservations]
  BY DEF IInv, TypeOK, Begin, Reserve, Release
<1>2. \A x \in K : x \in DOMAIN res /\ res[x].closed
  BY <1>1
<1>3. CASE \E k \in LimitKeys : Begin(m, k)
  <2>1. /\ keys' = keys /\ local' = local
        /\ \A x \in DOMAIN res : res'[x] = res[x]
    BY <1>3 DEF Begin
  <2> QED  BY <1>1, <1>2, <2>1, CountsStay
<1>4. CASE \E now \in Times : Reserve(m, now)
  <2>1. PICK now \in Times : Reserve(m, now)
    BY <1>4
  <2> DEFINE k == res[m].key
             S == StoreFor(k.text, now)
             take == IF Granted(k, S, now) THEN 1 ELSE 0
  <2>2. /\ keys' = IF k.text \in DOMAIN S
                   THEN [S EXCEPT ![k.text] = AddReserved(Expire(@, now), take)]
                   ELSE S
        /\ local' = IF AsksLocal(k, S, now) THEN AddReserved(Expire(local, now), take)
                    ELSE local
        /\ m \in DOMAIN res /\ ~res[m].closed
    BY <2>1 DEF Reserve
  <2>3. \A x \in K : res'[x] = res[x]
    BY <1>2, <2>1 DEF Reserve
  <2>4. now \in Nat /\ now <= clock /\ k.text \in Texts
    BY <1>1, <2>2 DEF Times, Reservations, Texts
  <2> HIDE DEF S, take, k
  <2>5. ASSUME NEW s \in Spans, NEW b \in Nat, Fresh(s, b, clock)
        PROVE  /\ \A t \in Texts : KeyAt(keys', t, s, b) = KeyAt(keys, t, s, b)
               /\ CountAt(local'.count, s, b) = CountAt(local.count, s, b)
    <3>1. Fresh(s, b, now)
      BY <1>1, <2>4, <2>5, FreshBefore
    <3>2. \A t \in Texts : KeyAt(S, t, s, b) = KeyAt(keys, t, s, b)
      BY <2>4, <3>1, StoreForCounts DEF S
    <3>3. \A w : CountAt(AddReserved(Expire(w, now), take).count, s, b)
                   = CountAt(w.count, s, b)
      BY <3>1, ExpireKeeps DEF AddReserved
    <3>4. \A t \in Texts : KeyAt(keys', t, s, b) = KeyAt(S, t, s, b)
      <4> TAKE t \in Texts
      <4>1. CASE k.text \in DOMAIN S /\ t = k.text
        <5>1. t \in DOMAIN keys' /\ keys'[t] = AddReserved(Expire(S[t], now), take)
          BY <2>2, <4>1
        <5> QED  BY <3>3, <4>1, <5>1 DEF KeyAt
      <4>2. CASE ~(k.text \in DOMAIN S /\ t = k.text)
        <5>1. DOMAIN keys' = DOMAIN S /\ (t \in DOMAIN S => keys'[t] = S[t])
          BY <2>2, <4>2
        <5> QED  BY <5>1 DEF KeyAt
      <4> QED  BY <4>1, <4>2
    <3> QED  BY <2>2, <3>2, <3>3, <3>4
  <2> QED  BY <1>1, <2>3, <2>5, CountsStay
<1>5. CASE Release(m)
  <2>1. /\ keys' = IF HoldsKey(m)
                   THEN [keys EXCEPT ![res[m].key.text] = AddReserved(@, -res[m].keyed)]
                   ELSE keys
        /\ local' = AddReserved(local, -res[m].local)
        /\ m \in DOMAIN res /\ ~res[m].closed
    BY <1>5 DEF Release, Closing
  <2>2. \A x \in K : res'[x] = res[x]
    BY <1>2, <1>5 DEF Release, Closing
  <2>3. \A w, n : AddReserved(w, n).count = w.count
    BY DEF AddReserved
  <2>4. \A s \in Spans : \A b \in Nat :
          /\ \A t \in Texts : KeyAt(keys', t, s, b) = KeyAt(keys, t, s, b)
          /\ CountAt(local'.count, s, b) = CountAt(local.count, s, b)
    BY <2>1, <2>3 DEF KeyAt
  <2> QED  BY <1>1, <2>2, <2>4, CountsStay
<1> QED  BY <1>3, <1>4, <1>5

(* A commit adds the places of its message to one bucket of each span, and *)
(* its message to the deliveries of that bucket.                           *)
LEMMA CommitCounts ==
  ASSUME IInv, NEW K, K \subseteq DOMAIN committed, Exact(K),
         NEW m \in Messages, NEW now \in Times, Commit(m, now)
  PROVE  Exact(K \cup {m})'
<1> DEFINE k == res[m].key
           n == res[m].keyed
           l == res[m].local
           Row(i) == {m} \X (1 .. i)
<1>1. /\ clock \in Nat /\ clock' = clock /\ now \in Nat /\ m \in DOMAIN res /\ ~res[m].closed
      /\ DOMAIN committed \subseteq {x \in DOMAIN res : res[x].closed}
      /\ res \in [DOMAIN res -> Reservations] /\ DOMAIN res \subseteq Messages
      /\ IsWindow(local) /\ \A t \in DOMAIN keys : IsWindow(keys[t])
  BY DEF IInv, TypeOK, Commit, Closing, Times
<1>2. /\ m \notin K /\ K \in SUBSET Messages
      /\ \A x \in K : res'[x] = res[x] /\ committed'[x] = committed[x]
      /\ res'[m].key = k /\ res'[m].keyed = n /\ res'[m].local = l /\ committed'[m] = now
  BY <1>1 DEF Commit, Closing, Reservations
<1>3. /\ k.text \in Texts /\ n \in Nat /\ l \in Nat /\ n <= MaxRecipients /\ l <= MaxRecipients
      /\ MaxRecipients \in Nat
  BY <1>1, ConstantsAssumption DEF Reservations, Texts
<1>4. /\ keys' = IF HoldsKey(m) THEN [keys EXCEPT ![k.text] = Settle(@, now, n)] ELSE keys
      /\ local' = IF l > 0 THEN Settle(local, now, l) ELSE local
  BY DEF Commit
<1>5. n > 0 => HoldsKey(m) /\ k.text \in DOMAIN keys
  <2>1. n <= HeldIn(keys, k.text)
    BY <1>1, PlacesReserved DEF IInv, Open
  <2> QED  BY <1>3, <2>1 DEF HeldIn, HoldsKey
<1> HIDE DEF k, n, l
<1>6. \A i \in Nat : IsFiniteSet(Row(i)) /\ Cardinality(Row(i)) = i
  BY FirstN, RowCount
<1> SUFFICES ASSUME NEW s \in Spans, NEW b \in Nat, Fresh(s, b, clock)
             PROVE  /\ \A t \in Texts : KeyAt(keys', t, s, b)
                                 = Cardinality(KeyUnits(In(K \cup {m}, s, b), t)')
                    /\ CountAt(local'.count, s, b)
                         = Cardinality(LocalUnits(In(K \cup {m}, s, b))')
  BY <1>1 DEF Exact
<1> DEFINE M == In(K, s, b)
           mine(i) == IF b = Bucket(s, now) THEN Row(i) ELSE {}
           more(i) == IF b = Bucket(s, now) THEN i ELSE 0
<1>7. M \in SUBSET Messages /\ m \notin M
  BY <1>2 DEF In
<1>8. In(K \cup {m}, s, b)' = M \cup (IF b = Bucket(s, now) THEN {m} ELSE {})
  BY <1>2 DEF In
<1>9. /\ \A t \in Texts : KeyUnits(In(K \cup {m}, s, b), t)'
                            = KeyUnits(M, t) \cup (IF t = k.text THEN mine(n) ELSE {})
      /\ LocalUnits(In(K \cup {m}, s, b))' = LocalUnits(M) \cup mine(l)
  <2>1. \A x \in M : res'[x] = res[x]
    BY <1>2 DEF In
  <2> HIDE DEF M
  <2>2. \A t \in Texts : KeyUnits(In(K \cup {m}, s, b), t)'
                            = KeyUnits(M, t) \cup (IF t = k.text THEN mine(n) ELSE {})
    BY <1>2, <1>3, <1>8, <2>1 DEF KeyUnits
  <2>3. LocalUnits(In(K \cup {m}, s, b))' = LocalUnits(M) \cup mine(l)
    BY <1>2, <1>3, <1>8, <2>1 DEF LocalUnits
  <2> QED  BY <2>2, <2>3
<1>10. \A i \in Nat : IsFiniteSet(mine(i)) /\ Cardinality(mine(i)) = more(i)
  BY <1>6, FS_EmptySet
<1>11. ASSUME NEW A, IsFiniteSet(A), \A u \in A : u[1] # m, NEW i \in Nat
       PROVE  Cardinality(A \cup mine(i)) = Cardinality(A) + more(i)
  <2>1. A \cap mine(i) = {}
    BY <1>11
  <2>2. Cardinality(A) \in Nat
    BY <1>11, FS_CardinalityType
  <2> DEFINE B == mine(i)
  <2>3. IsFiniteSet(B) /\ Cardinality(B) = more(i)
    BY <1>10
  <2>4. more(i) \in Nat
    OBVIOUS
  <2> HIDE DEF B, more
  <2>5. Cardinality(A \cup B) = Cardinality(A) + Cardinality(B) - Cardinality(A \cap B)
    BY <1>11, <2>3, FS_Union
  <2>6. Cardinality(A \cap B) = 0
    BY <2>1, FS_EmptySet DEF B
  <2>7. Cardinality(A \cup B) = Cardinality(A) + more(i)
    BY <2>2, <2>3, <2>4, <2>5, <2>6
  <2> QED  BY <2>7 DEF B
<1>12. \A u \in LocalUnits(M) : u[1] # m
  BY <1>7 DEF LocalUnits
<1>13. \A t \in Texts : \A u \in KeyUnits(M, t) : u[1] # m
  BY <1>7 DEF KeyUnits
<1>14. /\ CountAt(local.count, s, b) = Cardinality(LocalUnits(M))
       /\ \A t \in Texts : KeyAt(keys, t, s, b) = Cardinality(KeyUnits(M, t))
  BY DEF Exact
<1> HIDE DEF M, mine, more
<1>15. CountAt(local'.count, s, b) = CountAt(local.count, s, b) + more(l)
  <2>1. CASE l > 0
    BY <1>1, <1>3, <1>4, <2>1, SettleAt DEF more
  <2>2. CASE l = 0
    <3>1. CountAt(local.count, s, b) \in Nat
      BY <1>1 DEF CountAt, IsWindow, IsCounts
    <3> QED  BY <1>4, <2>2, <3>1 DEF more
  <2> QED  BY <1>3, <2>1, <2>2
<1>16. ASSUME NEW t \in Texts
       PROVE  KeyAt(keys', t, s, b) = KeyAt(keys, t, s, b)
                                        + (IF t = k.text THEN more(n) ELSE 0)
  <2>1. KeyAt(keys, t, s, b) \in Nat
    <3>1. \A w : IsWindow(w) => CountAt(w.count, s, b) \in Nat
      BY DEF CountAt, IsWindow, IsCounts
    <3> QED  BY <1>1, <3>1 DEF KeyAt
  <2>2. CASE HoldsKey(m) /\ t = k.text
    <3>1. t \in DOMAIN keys
      BY <2>2 DEF HoldsKey, k
    <3>2. t \in DOMAIN keys' /\ keys'[t] = Settle(keys[t], now, n)
      BY <1>4, <2>2, <3>1
    <3>3. CountAt(Settle(keys[t], now, n).count, s, b) = CountAt(keys[t].count, s, b) + more(n)
      BY <1>1, <1>3, <3>1, SettleAt DEF more
    <3> QED  BY <2>2, <3>1, <3>2, <3>3 DEF KeyAt
  <2>3. CASE HoldsKey(m) /\ t # k.text
    <3>1. DOMAIN keys' = DOMAIN keys /\ (t \in DOMAIN keys => keys'[t] = keys[t])
      BY <1>4, <2>3
    <3> QED  BY <2>1, <2>3, <3>1 DEF KeyAt
  <2>4. CASE ~HoldsKey(m)
    <3>1. n = 0 /\ keys' = keys
      BY <1>3, <1>4, <1>5, <2>4
    <3> QED  BY <2>1, <3>1 DEF more
  <2> QED  BY <2>2, <2>3, <2>4
<1>17. CountAt(local'.count, s, b) = Cardinality(LocalUnits(In(K \cup {m}, s, b))')
  <2>1. Cardinality(LocalUnits(M) \cup mine(l)) = Cardinality(LocalUnits(M)) + more(l)
    BY <1>3, <1>7, <1>11, <1>12, UnitsOfMessages
  <2> QED  BY <1>9, <1>14, <1>15, <2>1
<1>18. ASSUME NEW t \in Texts
       PROVE  KeyAt(keys', t, s, b) = Cardinality(KeyUnits(In(K \cup {m}, s, b), t)')
  <2>1. IsFiniteSet(KeyUnits(M, t)) /\ Cardinality(KeyUnits(M, t)) \in Nat
    BY <1>7, UnitsOfMessages
  <2>2. Cardinality(KeyUnits(M, t) \cup mine(n)) = Cardinality(KeyUnits(M, t)) + more(n)
    BY <1>3, <1>11, <1>13, <2>1
  <2> QED  BY <1>9, <1>14, <1>16, <2>1, <2>2
<1> QED  BY <1>17, <1>18
-----------------------------------------------------------------------------
ExactInv == IInv /\ Exact(DOMAIN committed)

\* Nothing is counted before anything is delivered.
LEMMA ExactAtFirst ==
  ASSUME DOMAIN keys = {}, local = EmptyWindow
  PROVE  Exact({})
<1>1. ASSUME NEW s, NEW b, NEW t
      PROVE  KeyUnits(In({}, s, b), t) = {} /\ LocalUnits(In({}, s, b)) = {}
  BY DEF In, KeyUnits, LocalUnits
<1> QED  BY <1>1, EmptyAt, FS_EmptySet DEF Exact, KeyAt

LEMMA InitExact == Init => ExactInv
<1> SUFFICES ASSUME Init PROVE ExactInv
  OBVIOUS
<1>1. DOMAIN keys = {} /\ local = EmptyWindow /\ DOMAIN committed = {}
  BY DEF Init
<1> QED  BY <1>1, ExactAtFirst, InitIInv DEF ExactInv

LEMMA TickCounts ==
  ASSUME IInv, NEW K, Exact(K), Tick
  PROVE  Exact(K)'
<1>1. /\ UNCHANGED <<keys, local, res, committed>> /\ clock \in Nat /\ clock' = clock + 1
  BY DEF Tick, IInv, TypeOK
<1> QED  BY <1>1, CountsStay

LEMMA NextExact == ExactInv /\ [Next]_vars => ExactInv'
<1> SUFFICES ASSUME ExactInv, [Next]_vars PROVE ExactInv'
  OBVIOUS
<1>1. IInv'
  BY NextIInv DEF ExactInv
<1> PICK K : K = DOMAIN committed
  OBVIOUS
<1>2. K \subseteq DOMAIN committed /\ Exact(K)
  BY DEF ExactInv
<1>3. CASE Tick
  <2>1. Exact(K)' /\ DOMAIN committed' = K
    BY <1>2, <1>3, TickCounts DEF Tick, ExactInv
  <2> QED  BY <1>1, <2>1 DEF ExactInv, Exact, In
<1>4. ASSUME NEW m \in Messages,
             \/ \E k \in LimitKeys : Begin(m, k)
             \/ \E now \in Times : Reserve(m, now)
             \/ Release(m)
      PROVE  ExactInv'
  <2>1. Exact(K)'
    BY <1>2, <1>4, CallStep DEF ExactInv
  <2>2. DOMAIN committed' = K
    BY <1>4 DEF Begin, Reserve, Release
  <2> QED  BY <1>1, <2>1, <2>2 DEF ExactInv, Exact, In
<1>5. ASSUME NEW m \in Messages, NEW now \in Times, Commit(m, now)
      PROVE  ExactInv'
  <2>1. Exact(K \cup {m})'
    BY <1>2, <1>5, CommitCounts DEF ExactInv
  <2>2. DOMAIN committed' = K \cup {m}
    BY <1>5 DEF Commit
  <2> QED  BY <1>1, <2>1, <2>2 DEF ExactInv, Exact, In
<1>6. CASE UNCHANGED vars
  BY <1>1, <1>6 DEF ExactInv, Exact, In, vars, KeyUnits, LocalUnits
<1> QED  BY <1>3, <1>4, <1>5, <1>6 DEF Next

LEMMA ExactInvariance == Spec => []ExactInv
BY InitExact, NextExact, PTL DEF Spec

(* The rolling counts are exact up to the bucket for any spans, bucket     *)
(* sizes and lag, in either mode and under every interleaving (commit,     *)
(* _Window.add, expire, _sweep).                                           *)
THEOREM CountsAlwaysExact == Spec => []CountsExact
<1>1. ExactInv => CountsExact
  <2> SUFFICES ASSUME ExactInv PROVE CountsExact
    OBVIOUS
  <2>1. \A s \in Spans : InBuckets(s) \cap DOMAIN committed = InBuckets(s)
    BY DEF InBuckets, Delivered
  <2>2. TypeOK /\ Exact(DOMAIN committed)
    BY DEF ExactInv, IInv
  <2> QED  BY <2>1, <2>2, ExactTotals DEF CountsExact
<1> QED  BY <1>1, ExactInvariance, PTL
-----------------------------------------------------------------------------
(* What an enforced limit must leave room for is among what a window       *)
(* counts and reserves, whenever the window was last expired.              *)
LEMMA BucketEnds ==
  ASSUME NEW s \in Spans, NEW t \in Nat
  PROVE  Bucket(s, t) + Size[s] > t
<1>1. \A z \in Nat \ {0} : (t \div z) * z + z > t
  <2> TAKE z \in Nat \ {0}
  <2> DEFINE q == t \div z
             r == t % z
  <2>1. q \in Int /\ r \in Nat /\ r < z /\ t = z * q + r
    OBVIOUS
  <2> HIDE DEF q, r
  <2>2. z * q = q * z
    BY <2>1
  <2>3. q * z + z > t
    BY <2>1, <2>2
  <2> QED  BY <2>3 DEF q
<1>2. Size[s] \in Nat \ {0}
  BY ConstantsAssumption
<1> QED  BY <1>1, <1>2 DEF Bucket

LEMMA ExpireLater ==
  ASSUME NEW w, IsWindow(w), NEW now \in Nat, NEW later \in Nat, now <= later,
         NEW s \in Spans
  PROVE  /\ Total(Expire(w, later).count[s]) <= Total(Expire(w, now).count[s])
         /\ Total(Expire(w, later).count[s]) \in Nat /\ Total(Expire(w, now).count[s]) \in Nat
<1> DEFINE counts == Expire(w, now).count[s]
           D == {x \in DOMAIN w.count[s] : Fresh(s, x, later)}
<1>1. IsWindow(Expire(w, now)) /\ IsWindow(Expire(w, later))
  BY ExpireWindow
<1>2. IsCounts(s, counts) /\ IsCounts(s, w.count[s])
  BY <1>1 DEF IsWindow
<1>3. /\ DOMAIN counts = {x \in DOMAIN w.count[s] : Fresh(s, x, now)}
      /\ \A b \in DOMAIN counts : counts[b] = w.count[s][b]
      /\ Expire(w, later).count[s] = [b \in D |-> w.count[s][b]]
  BY DEF Expire
<1>4. D \in SUBSET DOMAIN counts
  BY <1>2, <1>3, FreshBefore DEF IsCounts
<1>5. Expire(w, later).count[s] = [b \in D |-> counts[b]]
  BY <1>3, <1>4
<1> HIDE DEF counts, D
<1>6. IsFiniteSet(DOMAIN counts) /\ \A b \in DOMAIN counts : counts[b] \in Nat
  BY <1>2 DEF IsCounts
<1>7. Total([b \in D |-> counts[b]]) <= Total(counts)
  BY <1>4, <1>6, TotalShrinks
<1>8. Total(Expire(w, later).count[s]) <= Total(counts)
  BY <1>5, <1>7
<1> QED  BY <1>1, <1>8, WindowTotals DEF counts

\* The messages of K delivered in the rolling span, and those in flight.
Live(K, s) == (Recent(s) \cap K) \cup Open

LEMMA LiveUnits ==
  ASSUME IInv, NEW K, K \subseteq DOMAIN committed, NEW s \in Spans
  PROVE  /\ \A t \in Texts :
              /\ Cardinality(KeyUnits(Live(K, s), t)) \in Nat
              /\ Cardinality(KeyUnits(InBuckets(s) \cap K, t)) \in Nat
              /\ Cardinality(KeyUnits(Live(K, s), t)) <=
                   Cardinality(KeyUnits(InBuckets(s) \cap K, t)) + HeldIn(keys, t)
         /\ Cardinality(LocalUnits(Live(K, s))) \in Nat
         /\ Cardinality(LocalUnits(InBuckets(s) \cap K)) \in Nat
         /\ Cardinality(LocalUnits(Live(K, s))) <=
              Cardinality(LocalUnits(InBuckets(s) \cap K)) + local.reserved
<1> DEFINE M == InBuckets(s) \cap K
           L == Live(K, s)
<1>1. /\ K \in SUBSET Messages /\ Open \in SUBSET Messages /\ clock \in Nat
      /\ \A m \in K : committed[m] \in Nat
      /\ \A t \in Texts : HeldIn(keys, t) = Cardinality(KeyUnits(Open, t))
      /\ local.reserved = Cardinality(LocalUnits(Open))
  BY IInvParts DEF IInv, TypeOK, Open
<1>2. L \subseteq M \cup Open
  <2>1. ASSUME NEW m \in K, m \in Recent(s)
        PROVE  m \in InBuckets(s)
    <3>1. m \in DOMAIN committed /\ committed[m] >= clock - Span[s] /\ committed[m] \in Nat
      BY <1>1, <2>1 DEF Recent, Delivered
    <3>2. Bucket(s, committed[m]) + Size[s] > committed[m]
      BY <3>1, BucketEnds
    <3>3. Bucket(s, committed[m]) \in Nat /\ Size[s] \in Nat /\ Span[s] \in Nat
      BY <3>1, BucketAligned, ConstantsAssumption
    <3>4. Fresh(s, Bucket(s, committed[m]), clock)
      BY <1>1, <3>1, <3>2, <3>3 DEF Fresh
    <3> QED  BY <3>1, <3>4 DEF InBuckets, Delivered
  <2> QED  BY <2>1 DEF Live
<1>3. M \in SUBSET Messages /\ L \in SUBSET Messages
  BY <1>1 DEF Live
<1> HIDE DEF M, L
<1>4. ASSUME NEW A, NEW B, NEW C, A \subseteq B \cup C, IsFiniteSet(B), IsFiniteSet(C),
             IsFiniteSet(A)
      PROVE  Cardinality(A) <= Cardinality(B) + Cardinality(C)
  <2>1. /\ IsFiniteSet(B \cup C)
        /\ Cardinality(B \cup C) = Cardinality(B) + Cardinality(C) - Cardinality(B \cap C)
    BY <1>4, FS_Union
  <2>2. IsFiniteSet(B \cap C)
    <3>1. B \cap C \in SUBSET B
      OBVIOUS
    <3> QED  BY <1>4, <3>1, FS_Subset
  <2>3. Cardinality(A) <= Cardinality(B \cup C)
    BY <1>4, <2>1, FS_Subset
  <2>4. /\ Cardinality(A) \in Nat /\ Cardinality(B) \in Nat /\ Cardinality(C) \in Nat
        /\ Cardinality(B \cap C) \in Nat
    BY <1>4, <2>2, FS_CardinalityType
  <2> QED  BY <2>1, <2>3, <2>4
<1>5. ASSUME NEW t \in Texts
      PROVE  /\ Cardinality(KeyUnits(L, t)) \in Nat /\ Cardinality(KeyUnits(M, t)) \in Nat
             /\ Cardinality(KeyUnits(L, t)) <= Cardinality(KeyUnits(M, t)) + HeldIn(keys, t)
  <2>1. KeyUnits(L, t) \subseteq KeyUnits(M, t) \cup KeyUnits(Open, t)
    BY <1>2 DEF KeyUnits
  <2> QED  BY <1>1, <1>3, <1>4, <2>1, UnitsOfMessages
<1>6. /\ Cardinality(LocalUnits(L)) \in Nat /\ Cardinality(LocalUnits(M)) \in Nat
      /\ Cardinality(LocalUnits(L)) <= Cardinality(LocalUnits(M)) + local.reserved
  <2>1. LocalUnits(L) \subseteq LocalUnits(M) \cup LocalUnits(Open)
    BY <1>2 DEF LocalUnits
  <2> QED  BY <1>1, <1>3, <1>4, <2>1, UnitsOfMessages
<1> QED  BY <1>5, <1>6 DEF M, L
-----------------------------------------------------------------------------
(* A recipient the enforced store grants is one the rolling span has room  *)
(* for, although the time the store works with may be late.                *)
LEMMA GrantedFits ==
  ASSUME ~Observe, ExactInv, NEW m \in Open, NEW now \in Times,
         NEW k, k = res[m].key, NEW S, S = StoreFor(k.text, now), Granted(k, S, now)
  PROVE  /\ k.text \in DOMAIN S
         /\ \A s \in Spans :
              Cardinality(KeyUnits(Live(DOMAIN committed, s), k.text)) < k.limit[s]
         /\ k.local => \A s \in Spans :
              Cardinality(LocalUnits(Live(DOMAIN committed, s))) < LocalLimit[s]
<1> DEFINE t == k.text
           K == DOMAIN committed
<1>1. /\ IInv /\ TypeOK /\ Exact(K) /\ clock \in Nat /\ now \in Nat /\ now <= clock
      /\ IsWindow(local)
  BY DEF ExactInv, IInv, TypeOK, Times
<1>2. k \in LimitKeys /\ t \in Texts
  BY <1>1 DEF TypeOK, Open, Reservations, Texts
<1>3. k.limit \in [Spans -> Nat] /\ LocalLimit \in [Spans -> Nat]
  BY <1>2, ConstantsAssumption
<1>4. IsStore(S) /\ HeldIn(S, t) = HeldIn(keys, t)
  BY <1>1, <1>2, TypeOfStore, StoreForKeeps
<1>5. /\ KeyVerdict(k, S, now) = "none"
      /\ k.local => LocalVerdict(now) = "none"
  BY DEF Granted
<1>6. t \in DOMAIN S /\ Refusal(Expire(S[t], now), k.limit, "per_hour", "per_day") = "none"
  BY <1>5 DEF KeyVerdict
<1>7. \A s \in Spans : ~Over(Expire(S[t], now), s, k.limit)
  BY <1>6 DEF Refusal, Spans
<1>8. k.local => \A s \in Spans : ~Over(Expire(local, now), s, LocalLimit)
  BY <1>5 DEF LocalVerdict, Refusal, Spans
<1> HIDE DEF t, K
<1>9. ASSUME NEW s \in Spans
      PROVE  Cardinality(KeyUnits(Live(K, s), t)) < k.limit[s]
  <2> DEFINE w == S[t]
             live == Cardinality(KeyUnits(Live(K, s), t))
             counted == Cardinality(KeyUnits(InBuckets(s) \cap K, t))
             later == Total(Expire(w, clock).count[s])
             total == Total(Expire(w, now).count[s])
  <2>1. IsWindow(w) /\ w.reserved = HeldIn(keys, t)
    BY <1>4, <1>6 DEF IsStore, HeldIn, t
  <2>2. \A b \in Nat : Fresh(s, b, clock) =>
          KeyAt(S, t, s, b) = Cardinality(KeyUnits(In(K, s, b), t))
    <3> TAKE b \in Nat
    <3> HAVE Fresh(s, b, clock)
    <3>1. Fresh(s, b, now)
      BY <1>1, FreshBefore
    <3>2. KeyAt(S, t, s, b) = KeyAt(keys, t, s, b)
      BY <1>1, <1>2, <3>1, StoreForCounts DEF t
    <3>3. KeyAt(keys, t, s, b) = Cardinality(KeyUnits(In(K, s, b), t))
      BY <1>1, <1>2 DEF Exact
    <3> QED  BY <3>2, <3>3
  <2>3. counted = later
    <3>1. K \subseteq DOMAIN committed
      BY DEF K
    <3>2. t \in DOMAIN S => IsWindow(S[t])
      BY <2>1
    <3>3. \A x \in Texts :
            /\ x \in DOMAIN S => IsWindow(S[x])
            /\ \A b \in Nat : Fresh(s, b, clock) =>
                 KeyAt(S, x, s, b) = Cardinality(KeyUnits(In(K, s, b), x))
            => Cardinality(KeyUnits(InBuckets(s) \cap K, x)) =
                 IF x \in DOMAIN S THEN Total(Expire(S[x], clock).count[s]) ELSE 0
      <4> TAKE x \in Texts
      <4> HAVE /\ x \in DOMAIN S => IsWindow(S[x])
               /\ \A b \in Nat : Fresh(s, b, clock) =>
                    KeyAt(S, x, s, b) = Cardinality(KeyUnits(In(K, s, b), x))
      <4> QED  BY <1>1, <3>1, ExactKey
    <3>4. counted = IF t \in DOMAIN S THEN Total(Expire(S[t], clock).count[s]) ELSE 0
      BY <1>2, <2>2, <3>2, <3>3 DEF t
    <3> QED  BY <1>6, <3>4 DEF w, t
  <2>4. later <= total /\ later \in Nat /\ total \in Nat
    BY <1>1, <2>1, ExpireLater
  <2>5. live \in Nat /\ counted \in Nat /\ live <= counted + HeldIn(keys, t)
    BY <1>1, <1>2, LiveUnits DEF K
  <2>6. total + w.reserved < k.limit[s]
    <3>1. Expire(w, now).reserved = w.reserved /\ w.reserved \in Nat
      <4>1. Expire(w, now).reserved = w.reserved
        BY <1>1, <2>1, ExpireWindow
      <4> QED  BY <2>1, <4>1 DEF IsWindow
    <3>2. ~(total + w.reserved >= k.limit[s])
      BY <1>7, <3>1 DEF Over, t
    <3> QED  BY <1>3, <2>4, <3>1, <3>2
  <2>7. w.reserved \in Nat /\ k.limit[s] \in Nat
    BY <1>3, <2>1 DEF IsWindow
  <2> HIDE DEF live, counted, later, total, w
  <2>8. live < k.limit[s]
    BY <2>1, <2>3, <2>4, <2>5, <2>6, <2>7
  <2> QED  BY <2>8 DEF live
<1>10. ASSUME k.local, NEW s \in Spans
       PROVE  Cardinality(LocalUnits(Live(K, s))) < LocalLimit[s]
  <2> DEFINE live == Cardinality(LocalUnits(Live(K, s)))
             counted == Cardinality(LocalUnits(InBuckets(s) \cap K))
             later == Total(Expire(local, clock).count[s])
             total == Total(Expire(local, now).count[s])
  <2>1. counted = later
    BY <1>1, ExactTotals DEF K
  <2>2. later <= total /\ later \in Nat /\ total \in Nat
    BY <1>1, ExpireLater
  <2>3. live \in Nat /\ counted \in Nat /\ live <= counted + local.reserved
    BY <1>1, LiveUnits DEF K
  <2>4. /\ Expire(local, now).reserved = local.reserved /\ local.reserved \in Nat
        /\ LocalLimit[s] \in Nat
    <3>1. Expire(local, now).reserved = local.reserved
      BY <1>1, ExpireWindow
    <3> QED  BY <1>1, <1>3, <3>1 DEF IsWindow
  <2>5. ~(total + local.reserved >= LocalLimit[s])
    BY <1>8, <1>10, <2>4 DEF Over
  <2> HIDE DEF live, counted, later, total
  <2>6. live < LocalLimit[s]
    BY <2>1, <2>2, <2>3, <2>4, <2>5
  <2> QED  BY <2>6 DEF live
<1> QED  BY <1>6, <1>9, <1>10 DEF t, K
-----------------------------------------------------------------------------
(* Each step of the enforced store is a step of its promise, or none.      *)
Owner == [m \in DOMAIN res |-> res[m].key]
Held == [m \in DOMAIN res |-> [keyed |-> res[m].keyed, local |-> res[m].local]]

\* What the promise sees of a step, by its parts.
LEMMA PromiseStutter ==
  ASSUME Owner' = Owner, Held' = Held, Open' = Open, committed' = committed, clock' = clock
  PROVE  UNCHANGED Promise!vars
BY DEF Owner, Held, Promise!vars

\* Counting is the same there as here.
LEMMA SameCardinality ==
  ASSUME NEW S
  PROVE  Promise!Cardinality(S) = Cardinality(S)
BY DEF Promise!Cardinality, Cardinality

LEMMA PromisePlaces ==
  ASSUME TypeOK, NEW s \in Spans
  PROVE  /\ \A t : Promise!KeyPlaces(t, s)
                     = Cardinality(KeyUnits(Live(DOMAIN committed, s), t))
         /\ Promise!LocalPlaces(s) = Cardinality(LocalUnits(Live(DOMAIN committed, s)))
<1>1. Promise!Live(s) = Live(DOMAIN committed, s)
  BY DEF Promise!Live, Live, Recent, Delivered
<1>2. Live(DOMAIN committed, s) \subseteq DOMAIN res
  BY DEF Live, Open, TypeOK
<1> DEFINE L == Live(DOMAIN committed, s)
<1>3. \A u \in L \X (1 .. MaxRecipients) :
        /\ Owner[u[1]] = res[u[1]].key
        /\ Held[u[1]].keyed = res[u[1]].keyed /\ Held[u[1]].local = res[u[1]].local
  BY <1>2 DEF Owner, Held
<1> HIDE DEF L
<1>4. ASSUME NEW t
      PROVE  {u \in L \X (1 .. MaxRecipients) : Owner[u[1]].text = t /\ u[2] <= Held[u[1]].keyed}
               = KeyUnits(L, t)
  BY <1>3 DEF KeyUnits
<1>5. {u \in L \X (1 .. MaxRecipients) : u[2] <= Held[u[1]].local} = LocalUnits(L)
  BY <1>3 DEF LocalUnits
<1>6. ASSUME NEW t PROVE Promise!KeyPlaces(t, s) = Cardinality(KeyUnits(L, t))
  BY <1>1, <1>4, SameCardinality DEF Promise!KeyPlaces, Owner, Held, L
<1>7. Promise!LocalPlaces(s) = Cardinality(LocalUnits(L))
  BY <1>1, <1>5, SameCardinality DEF Promise!LocalPlaces, Owner, Held, L
<1> QED  BY <1>6, <1>7 DEF L
-----------------------------------------------------------------------------
LEMMA PromiseInit == Init => Promise!Init
<1> SUFFICES ASSUME Init PROVE Promise!Init
  OBVIOUS
<1>1. Open = {} /\ Owner = [m \in {} |-> 0] /\ Held = [m \in {} |-> 0]
  BY DEF Init, Open, Owner, Held
<1> QED  BY <1>1 DEF Init, Promise!Init, Owner, Held

\* The reservations of a step that replaces one of them.
LEMMA PromiseBegin ==
  ASSUME TypeOK, NEW m \in Messages, NEW k \in LimitKeys, Begin(m, k)
  PROVE  Promise!Next
<1>1. /\ m \notin DOMAIN Owner
      /\ DOMAIN Owner = DOMAIN res
      /\ committed' = committed /\ clock' = clock
  BY DEF Begin, Owner
<1>2. DOMAIN res' = DOMAIN res \cup {m}
  BY DEF Begin
<1>3. \A x \in DOMAIN res \cup {m} :
        res'[x] = IF x = m THEN [key |-> k, keyed |-> 0, local |-> 0, closed |-> FALSE]
                  ELSE res[x]
  BY DEF Begin
<1>4. Owner' = [x \in DOMAIN Owner \cup {m} |-> IF x = m THEN k ELSE Owner[x]]
  BY <1>2, <1>3 DEF Owner
<1>5. Held' = [x \in DOMAIN Owner \cup {m} |->
                 IF x = m THEN [keyed |-> 0, local |-> 0] ELSE Held[x]]
  BY <1>2, <1>3 DEF Owner, Held
<1>6. Open' = Open \cup {m}
  BY <1>2, <1>3 DEF Open
<1>7. Promise!Start(m, k)
  BY <1>1, <1>4, <1>5, <1>6 DEF Promise!Start, Owner, Held
<1> QED  BY <1>7 DEF Promise!Next

LEMMA PromiseClosing ==
  ASSUME TypeOK, NEW m \in Messages, Closing(m)
  PROVE  Owner' = Owner /\ Held' = Held /\ Open' = Open \ {m} /\ m \in Open
<1>1. DOMAIN res' = DOMAIN res /\ m \in DOMAIN res /\ ~res[m].closed
  BY DEF Closing
<1>2. \A x \in DOMAIN res : res[x] \in Reservations
  BY DEF TypeOK
<1>3. \A x \in DOMAIN res :
        /\ res'[x].key = res[x].key /\ res'[x].keyed = res[x].keyed
        /\ res'[x].local = res[x].local
        /\ res'[x].closed <=> (x = m \/ res[x].closed)
  BY <1>1, <1>2 DEF Closing, Reservations
<1> QED  BY <1>1, <1>3 DEF Owner, Held, Open

LEMMA PromiseCommit ==
  ASSUME TypeOK, NEW m \in Messages, NEW now \in Times, Commit(m, now)
  PROVE  Promise!Next
<1>1. Owner' = Owner /\ Held' = Held /\ Open' = Open \ {m} /\ m \in Open
  BY PromiseClosing DEF Commit
<1>2. /\ committed' = [x \in DOMAIN committed \cup {m} |-> IF x = m THEN now ELSE committed[x]]
      /\ clock' = clock /\ now \in 0 .. clock /\ now <= clock
  BY DEF Commit, Times, TypeOK
<1>3. Promise!Deliver(m, now)
  BY <1>1, <1>2 DEF Promise!Deliver, Owner, Held
<1> QED  BY <1>2, <1>3 DEF Promise!Next

LEMMA PromiseRelease ==
  ASSUME TypeOK, NEW m \in Messages, Release(m)
  PROVE  Promise!Next
<1>1. Owner' = Owner /\ Held' = Held /\ Open' = Open \ {m} /\ m \in Open
  BY PromiseClosing DEF Release
<1>2. Promise!GiveUp(m)
  BY <1>1 DEF Promise!GiveUp, Owner, Held, Release
<1> QED  BY <1>2 DEF Promise!Next

LEMMA PromiseReserve ==
  ASSUME ~Observe, ExactInv, NEW m \in Messages, NEW now \in Times, Reserve(m, now)
  PROVE  Promise!Next \/ UNCHANGED Promise!vars
<1> DEFINE k == res[m].key
           S == StoreFor(k.text, now)
           take == IF Granted(k, S, now) THEN 1 ELSE 0
           keyed == res[m].keyed + (IF k.text \in DOMAIN S THEN take ELSE 0)
           local_ == res[m].local + (IF k.local THEN take ELSE 0)
<1>1. m \in DOMAIN res /\ ~res[m].closed /\ m \in Open
  BY DEF Reserve, Open
<1>2. res' = [res EXCEPT ![m] =
                [key |-> k, keyed |-> keyed, local |-> local_, closed |-> FALSE]]
      /\ committed' = committed /\ clock' = clock
  BY DEF Reserve
<1>3. TypeOK /\ \A x \in DOMAIN res : res[x] \in Reservations
  BY DEF ExactInv, IInv, TypeOK
<1>4. k \in LimitKeys /\ k.local \in BOOLEAN /\ res[m].keyed \in Nat /\ res[m].local \in Nat
  BY <1>1, <1>3, ConstantsAssumption DEF Reservations
<1> HIDE DEF keyed, local_
<1>5. /\ DOMAIN res' = DOMAIN res
      /\ \A x \in DOMAIN res :
           res'[x] = IF x = m THEN [key |-> k, keyed |-> keyed, local |-> local_, closed |-> FALSE]
                     ELSE res[x]
  BY <1>1, <1>2
<1>6. Owner' = Owner
  BY <1>5 DEF Owner
<1>7. Open' = Open
  BY <1>1, <1>5 DEF Open
<1>8. Held' = [Held EXCEPT ![m] = [keyed |-> keyed, local |-> local_]]
  <2>1. \A x \in DOMAIN res :
          [keyed |-> res'[x].keyed, local |-> res'[x].local]
            = IF x = m THEN [keyed |-> keyed, local |-> local_] ELSE Held[x]
    BY <1>5 DEF Held
  <2>2. Held' = [x \in DOMAIN res |->
                   IF x = m THEN [keyed |-> keyed, local |-> local_] ELSE Held[x]]
    <3>1. Held' = [x \in DOMAIN res |-> [keyed |-> res'[x].keyed, local |-> res'[x].local]]
      BY <1>5 DEF Held
    <3> QED  BY <2>1, <3>1
  <2>3. Held = [x \in DOMAIN res |-> Held[x]]
    BY DEF Held
  <2> HIDE DEF Held
  <2> QED  BY <2>2, <2>3
<1>9. Owner[m] = k /\ Held[m] = [keyed |-> res[m].keyed, local |-> res[m].local]
      /\ m \in DOMAIN Held /\ Held = [x \in DOMAIN res |-> Held[x]]
  BY <1>1 DEF Owner, Held
<1>10. CASE Granted(k, S, now)
  <2>1. /\ k.text \in DOMAIN S
        /\ \A s \in Spans :
             Cardinality(KeyUnits(Live(DOMAIN committed, s), k.text)) < k.limit[s]
        /\ k.local => \A s \in Spans :
             Cardinality(LocalUnits(Live(DOMAIN committed, s))) < LocalLimit[s]
    BY <1>1, <1>10, GrantedFits
  <2>2. /\ keyed = res[m].keyed + 1
        /\ local_ = IF k.local THEN res[m].local + 1 ELSE res[m].local
    BY <1>4, <1>10, <2>1 DEF keyed, local_
  <2> HIDE DEF k, S
  <2>3. /\ \A s \in Spans : Promise!KeyPlaces(Owner[m].text, s) < Owner[m].limit[s]
        /\ Owner[m].local => \A s \in Spans : Promise!LocalPlaces(s) < LocalLimit[s]
    BY <1>3, <1>9, <2>1, PromisePlaces
  <2>4. Held' = [Held EXCEPT ![m] =
                   [keyed |-> Held[m].keyed + 1,
                    local |-> IF Owner[m].local THEN Held[m].local + 1 ELSE Held[m].local]]
    BY <1>8, <1>9, <2>2
  <2>5. Promise!Grant(m)
    BY <1>1, <1>2, <1>6, <1>7, <2>3, <2>4 DEF Promise!Grant, Owner, Held, Spans, Promise!Spans
  <2> QED  BY <2>5 DEF Promise!Next
<1>11. CASE ~Granted(k, S, now)
  <2>1. keyed = res[m].keyed /\ local_ = res[m].local
    BY <1>4, <1>11 DEF keyed, local_
  <2>2. Held' = Held
    BY <1>8, <1>9, <2>1
  <2> QED  BY <1>2, <1>6, <1>7, <2>2, PromiseStutter
<1> QED  BY <1>10, <1>11

LEMMA PromiseStep ==
  ASSUME ~Observe
  PROVE  ExactInv /\ [Next]_vars => [Promise!Next]_Promise!vars
<1> SUFFICES ASSUME ExactInv, [Next]_vars PROVE Promise!Next \/ UNCHANGED Promise!vars
  OBVIOUS
<1>1. TypeOK
  BY DEF ExactInv, IInv
<1>2. CASE Tick
  <2>1. Owner' = Owner /\ Held' = Held /\ Open' = Open
    BY <1>2 DEF Tick, Owner, Held, Open
  <2>2. Promise!Tick
    BY <1>2, <2>1 DEF Tick, Promise!Tick, Owner, Held
  <2> QED  BY <2>2 DEF Promise!Next
<1>3. ASSUME NEW m \in Messages, NEW k \in LimitKeys, Begin(m, k)
      PROVE  Promise!Next
  BY <1>1, <1>3, PromiseBegin
<1>4. ASSUME NEW m \in Messages, NEW now \in Times, Reserve(m, now)
      PROVE  Promise!Next \/ UNCHANGED Promise!vars
  BY <1>4, PromiseReserve
<1>5. ASSUME NEW m \in Messages, NEW now \in Times, Commit(m, now)
      PROVE  Promise!Next
  BY <1>1, <1>5, PromiseCommit
<1>6. ASSUME NEW m \in Messages, Release(m)
      PROVE  Promise!Next
  BY <1>1, <1>6, PromiseRelease
<1>7. CASE UNCHANGED vars
  <2>1. Owner' = Owner /\ Held' = Held /\ Open' = Open /\ committed' = committed /\ clock' = clock
    BY <1>7 DEF vars, Owner, Held, Open
  <2> QED  BY <2>1, PromiseStutter
<1> QED  BY <1>2, <1>3, <1>4, <1>5, <1>6, <1>7 DEF Next

(* An enforced store implements its promise (quota.py, reserve, commit,    *)
(* release): a recipient is granted only while what was delivered in the   *)
(* rolling span and what open messages hold leave room for it, and every   *)
(* place is delivered or given back once.                                  *)
THEOREM StoreKeepsPromise ==
  ASSUME ~Observe
  PROVE  Spec => KeepsPromise
<1>1. Spec => []ExactInv
  BY ExactInvariance
<1>2. Init => Promise!Init
  BY PromiseInit
<1>3. ExactInv /\ [Next]_vars => [Promise!Next]_Promise!vars
  BY PromiseStep
<1> QED  BY <1>1, <1>2, <1>3, PTL DEF Spec, KeepsPromise, Promise!Spec
-----------------------------------------------------------------------------
(* Across restarts: the files are exact like the memory, each for the      *)
(* deliveries it knows.                                                    *)
FileAt(file, t, s, b) == IF t \in DOMAIN file.keys THEN CountAt(file.keys[t], s, b) ELSE 0

FileExact(file) ==
  \A s \in Spans : \A b \in Nat : Fresh(s, b, clock) =>
    /\ \A t \in Texts : FileAt(file, t, s, b) = Cardinality(KeyUnits(In(file.knows, s, b), t))
    /\ CountAt(file.local, s, b) = Cardinality(LocalUnits(In(file.knows, s, b)))

SavedExact ==
  /\ SaverInv
  /\ Exact(known)
  /\ writing # NoFile => FileExact(writing)
  /\ disk # NoFile => FileExact(disk)

\* What a delivery was stays.
DeliveriesStay ==
  \A m \in DOMAIN committed :
    /\ m \in DOMAIN committed' /\ committed'[m] = committed[m]
    /\ res'[m].key = res[m].key /\ res'[m].keyed = res[m].keyed /\ res'[m].local = res[m].local

LEMMA FileStaysExact ==
  ASSUME NEW file, FileExact(file), file.knows \subseteq DOMAIN committed, DeliveriesStay,
         clock \in Nat, clock' \in Nat, clock <= clock'
  PROVE  FileExact(file)'
<1> SUFFICES ASSUME NEW s \in Spans, NEW b \in Nat, Fresh(s, b, clock')
             PROVE  /\ \A t \in Texts : FileAt(file, t, s, b)
                                 = Cardinality(KeyUnits(In(file.knows, s, b), t)')
                    /\ CountAt(file.local, s, b)
                         = Cardinality(LocalUnits(In(file.knows, s, b))')
  BY DEF FileExact, FileAt, CountAt
<1>1. Fresh(s, b, clock)
  BY FreshBefore
<1> PICK K : K = file.knows
  OBVIOUS
<1>2. In(K, s, b)' = In(K, s, b)
  BY DEF In, DeliveriesStay
<1>3. \A m \in In(K, s, b) :
        /\ res'[m].key = res[m].key /\ res'[m].keyed = res[m].keyed
        /\ res'[m].local = res[m].local
  BY DEF In, DeliveriesStay
<1>4. /\ \A t \in Texts : KeyUnits(In(K, s, b), t)' = KeyUnits(In(K, s, b), t)
      /\ LocalUnits(In(K, s, b))' = LocalUnits(In(K, s, b))
  BY <1>2, <1>3 DEF KeyUnits, LocalUnits
<1> QED  BY <1>1, <1>4 DEF FileExact

\* The files after a step that moves them or drops one.
LEMMA FilesStayExact ==
  ASSUME SavedExact, DeliveriesStay, clock' \in Nat, clock <= clock',
         writing' \in {writing, disk, NoFile}, disk' \in {writing, disk}
  PROVE  /\ writing' # NoFile => FileExact(writing)'
         /\ disk' # NoFile => FileExact(disk)'
<1>1. ASSUME NEW file, file \in {writing, disk}, file # NoFile
      PROVE  FileExact(file)'
  <2>1. clock \in Nat /\ file.knows \subseteq DOMAIN committed
    BY <1>1 DEF SavedExact, SaverInv, IInv, TypeOK, Files, FileOk
  <2>2. FileExact(file)
    BY <1>1 DEF SavedExact
  <2> QED  BY <2>1, <2>2, FileStaysExact
<1> PICK w, d : w = writing' /\ d = disk'
  OBVIOUS
<1>2. (w # NoFile => FileExact(w)') /\ (d # NoFile => FileExact(d)')
  BY <1>1
<1> QED  BY <1>2 DEF FileExact, FileAt

\* A step of the memory that delivers nothing and leaves the buckets alone.
LEMMA KnownStay ==
  ASSUME SavedExact, DeliveriesStay, known' = known, clock' \in Nat, clock <= clock',
         UNCHANGED <<keys, local>>
  PROVE  Exact(known)'
<1> PICK K : K = known
  OBVIOUS
<1>1. Exact(K) /\ clock \in Nat /\ K \subseteq DOMAIN committed
  BY DEF SavedExact, SaverInv, SaverShape, IInv, TypeOK
<1>2. Exact(K)'
  BY <1>1, CountsStay DEF DeliveriesStay
<1> QED  BY <1>2 DEF Exact, In

LEMMA SnapshotExact ==
  ASSUME SavedExact, NEW now \in Times, TakeSnapshot(now), known' = known
  PROVE  Exact(known)' /\ FileExact(writing)'
<1> PICK K : K = known
  OBVIOUS
<1>1. /\ keys' = [t \in DOMAIN keys |-> Expire(keys[t], now)] /\ local' = Expire(local, now)
      /\ UNCHANGED <<lastSweep, res, committed, clock>> /\ writing' = Snapshot(now)
  BY DEF TakeSnapshot
<1>2. /\ Exact(K) /\ clock \in Nat /\ now \in Nat /\ now <= clock
      /\ K \subseteq DOMAIN committed
  BY DEF SavedExact, SaverInv, SaverShape, IInv, TypeOK, Times
<1>3. ASSUME NEW s \in Spans, NEW b \in Nat, Fresh(s, b, clock)
      PROVE  /\ \A t \in Texts : KeyAt(keys', t, s, b) = KeyAt(keys, t, s, b)
             /\ CountAt(local'.count, s, b) = CountAt(local.count, s, b)
             /\ \A t \in Texts : FileAt(writing', t, s, b) = KeyAt(keys', t, s, b)
             /\ CountAt(writing'.local, s, b) = CountAt(local'.count, s, b)
  <2>1. Fresh(s, b, now)
    BY <1>2, <1>3, FreshBefore
  <2>2. \A w : CountAt(Expire(w, now).count, s, b) = CountAt(w.count, s, b)
    BY <2>1, ExpireKeeps
  <2>3. /\ DOMAIN writing'.keys = {x \in DOMAIN keys : HasCounts(Expire(keys[x], now))}
        /\ \A t \in DOMAIN writing'.keys : writing'.keys[t] = Expire(keys[t], now).count
        /\ writing'.local = Expire(local, now).count
    BY <1>1 DEF Snapshot
  <2>4. \A w : ~HasCounts(w) => CountAt(w.count, s, b) = 0
    BY DEF HasCounts, CountAt
  <2>5. /\ \A t \in Texts : KeyAt(keys', t, s, b) = KeyAt(keys, t, s, b)
        /\ CountAt(local'.count, s, b) = CountAt(local.count, s, b)
    BY <1>1, <2>2 DEF KeyAt
  <2>6. \A t \in Texts : FileAt(writing', t, s, b) = KeyAt(keys', t, s, b)
    BY <1>1, <2>3, <2>4 DEF KeyAt, FileAt
  <2>7. CountAt(writing'.local, s, b) = CountAt(local'.count, s, b)
    BY <1>1, <2>3
  <2> QED  BY <2>5, <2>6, <2>7
<1>4. Exact(K)'
  <2>1. \A m \in K : /\ committed'[m] = committed[m] /\ res'[m].key = res[m].key
                     /\ res'[m].keyed = res[m].keyed /\ res'[m].local = res[m].local
    BY <1>1
  <2> QED  BY <1>1, <1>2, <1>3, <2>1, CountsStay
<1>5. FileExact(writing)'
  <2>1. writing'.knows = K
    BY <1>1 DEF Snapshot
  <2> QED  BY <1>1, <1>3, <1>4, <2>1 DEF FileExact, Exact, In
<1> QED  BY <1>4, <1>5 DEF Exact, In

\* A start takes over what the file counts in the buckets the spans still have:
\* the file counts nothing in the future.
LEMMA StartExact ==
  ASSUME SavedExact, Start
  PROVE  Exact(known)'
<1>1. /\ UNCHANGED <<lastSweep, res, committed, clock, writing, disk>> /\ clock \in Nat
      /\ SaverInv
  BY DEF Start, SavedExact, SaverInv, IInv, TypeOK
<1>2. CASE UNCHANGED <<keys, local, known>>
  BY <1>1, <1>2, KnownStay DEF DeliveriesStay
<1>3. CASE Load
  <2> DEFINE loaded(t) == Restored(disk.keys[t], clock)
             restored == [t \in DOMAIN disk.keys |-> loaded(t)]
             kept == {x \in DOMAIN restored : HasCounts(restored[x])}
  <2>1. /\ keys' = [t \in kept |-> restored[t]] /\ local' = Restored(disk.local, clock)
        /\ known' = disk.knows
    BY <1>3 DEF Load
  <2>2. /\ DOMAIN keys' = {x \in DOMAIN disk.keys : HasCounts(loaded(x))}
        /\ \A t \in DOMAIN keys' : keys'[t] = loaded(t)
    BY <2>1
  <2>3. FileOk(disk) /\ FileExact(disk)
    BY <1>3 DEF Load, Loads, SavedExact, SaverInv, Files
  <2> PICK K : K = disk.knows
    OBVIOUS
  <2>4. \A m \in K : committed[m] \in Nat /\ committed[m] <= clock
    BY <2>3 DEF FileOk, SavedExact, SaverInv, IInv, TypeOK
  <2> HIDE DEF kept, restored, loaded
  <2>5. ASSUME NEW s \in Spans, NEW b \in Nat, Fresh(s, b, clock)
        PROVE  /\ \A t \in Texts : KeyAt(keys', t, s, b) = FileAt(disk, t, s, b)
               /\ CountAt(local'.count, s, b) = CountAt(disk.local, s, b)
    <3>1. \A count : CountAt(Restored(count, clock).count, s, b)
                       = IF b <= clock THEN CountAt(count, s, b) ELSE 0
      BY <2>5 DEF Restored, Expire, CountAt
    <3>2. ASSUME b > clock
          PROVE  /\ \A t \in Texts : FileAt(disk, t, s, b) = 0
                 /\ CountAt(disk.local, s, b) = 0
      <4>1. In(K, s, b) = {}
        <5> SUFFICES ASSUME NEW m \in K, Bucket(s, committed[m]) = b PROVE FALSE
          BY DEF In
        <5> QED  BY <1>1, <2>4, <3>2, BucketStarts
      <4>2. /\ \A t \in Texts : KeyUnits(In(K, s, b), t) = {}
            /\ LocalUnits(In(K, s, b)) = {}
        BY <4>1 DEF KeyUnits, LocalUnits
      <4> QED  BY <2>3, <2>5, <4>2, FS_EmptySet DEF FileExact
    <3>3. CountAt(local'.count, s, b) = CountAt(disk.local, s, b)
      BY <1>1, <2>1, <3>1, <3>2
    <3>4. ASSUME NEW t \in Texts
          PROVE  KeyAt(keys', t, s, b) = FileAt(disk, t, s, b)
      <4>1. CASE t \in DOMAIN keys'
        <5>1. KeyAt(keys', t, s, b) = CountAt(loaded(t).count, s, b)
          BY <2>2, <4>1 DEF KeyAt
        <5>2. FileAt(disk, t, s, b) = CountAt(disk.keys[t], s, b)
          BY <2>2, <4>1 DEF FileAt
        <5> QED  BY <1>1, <3>1, <3>2, <5>1, <5>2 DEF loaded
      <4>2. CASE t \in DOMAIN disk.keys /\ ~HasCounts(loaded(t))
        <5>1. CountAt(loaded(t).count, s, b) = 0
          BY <4>2 DEF HasCounts, CountAt
        <5>2. FileAt(disk, t, s, b) = CountAt(disk.keys[t], s, b)
          BY <4>2 DEF FileAt
        <5>3. FileAt(disk, t, s, b) = 0
          BY <1>1, <3>1, <3>2, <5>1, <5>2 DEF loaded
        <5> QED  BY <2>2, <4>2, <5>3 DEF KeyAt
      <4>3. CASE t \notin DOMAIN disk.keys
        BY <2>2, <4>3 DEF KeyAt, FileAt
      <4> QED  BY <2>2, <4>1, <4>2, <4>3
    <3> QED  BY <3>3, <3>4
  <2>6. known' = K
    BY <2>1
  <2> QED  BY <1>1, <2>3, <2>5, <2>6 DEF Exact, FileExact, In, KeyUnits, LocalUnits
<1> QED  BY <1>2, <1>3 DEF Start

\* The end of the process: nothing is known and nothing counted.
LEMMA ForgetExact ==
  ASSUME Forget
  PROVE  Exact(known)'
<1>1. DOMAIN keys' = {} /\ local' = EmptyWindow /\ known' = {}
  BY DEF Forget
<1> SUFFICES ASSUME NEW s \in Spans, NEW b \in Nat
             PROVE  /\ \A t \in Texts : KeyAt(keys', t, s, b)
                                            = Cardinality(KeyUnits(In(known, s, b), t)')
                    /\ CountAt(local'.count, s, b)
                         = Cardinality(LocalUnits(In(known, s, b))')
  BY DEF Exact
<1>2. /\ \A t \in Texts : KeyUnits(In(known, s, b), t)' = {}
      /\ LocalUnits(In(known, s, b))' = {}
  BY <1>1 DEF In, KeyUnits, LocalUnits
<1>3. CountAt(local'.count, s, b) = 0 /\ \A t \in Texts : KeyAt(keys', t, s, b) = 0
  BY <1>1, EmptyAt DEF KeyAt
<1> QED  BY <1>2, <1>3, FS_EmptySet

LEMMA SessionExact ==
  ASSUME SavedExact, NEW m \in Messages, Session(m)
  PROVE  DeliveriesStay /\ Exact(known)'
<1> PICK K : K = known
  OBVIOUS
<1>1. IInv /\ Exact(K) /\ K \subseteq DOMAIN committed
  BY DEF SavedExact, SaverInv, SaverShape
<1>2. /\ DOMAIN committed \subseteq {x \in DOMAIN res : res[x].closed}
      /\ res \in [DOMAIN res -> Reservations]
  BY <1>1 DEF IInv, TypeOK
<1>3. ASSUME /\ \/ \E k \in LimitKeys : Begin(m, k)
                \/ \E now \in Times : Reserve(m, now)
                \/ Release(m)
             /\ known' = known
      PROVE  DeliveriesStay /\ Exact(known)'
  <2>1. Exact(K)'
    BY <1>1, <1>3, CallStep
  <2>2. committed' = committed /\ \A x \in DOMAIN committed : res'[x] = res[x]
    BY <1>2, <1>3 DEF Begin, Reserve, Release, Closing
  <2> QED  BY <1>3, <2>1, <2>2 DEF DeliveriesStay, Exact, In
<1>4. ASSUME NEW now \in Times, Commit(m, now), known' = known \cup {m}
      PROVE  DeliveriesStay /\ Exact(known)'
  <2>1. Exact(K \cup {m})'
    BY <1>1, <1>4, CommitCounts
  <2>2. \A x \in DOMAIN committed : /\ x \in DOMAIN committed' /\ res'[x] = res[x]
                                    /\ committed'[x] = committed[x]
    BY <1>2, <1>4 DEF Commit, Closing
  <2> QED  BY <1>4, <2>1, <2>2 DEF DeliveriesStay, Exact, In
<1> QED  BY <1>3, <1>4 DEF Session

LEMMA InitSaved == LSInit => SavedExact
<1> SUFFICES ASSUME LSInit PROVE SavedExact
  OBVIOUS
<1>1. /\ DOMAIN keys = {} /\ local = EmptyWindow /\ known = {}
      /\ writing = NoFile /\ disk = NoFile
  BY DEF LSInit, Init
<1> QED  BY <1>1, InitSaver, ExactAtFirst DEF SavedExact

LEMMA NextSaved == SavedExact /\ [LSNext]_allVars => SavedExact'
<1> SUFFICES ASSUME SavedExact, [LSNext]_allVars PROVE SavedExact'
  OBVIOUS
<1>1. SaverInv' /\ clock \in Nat /\ clock' \in Nat
  <2>1. SaverInv'
    BY NextSaver DEF SavedExact
  <2> QED  BY <2>1 DEF SavedExact, SaverInv, IInv, TypeOK
<1>2. CASE \E m \in Messages : Session(m)
  <2>1. DeliveriesStay /\ Exact(known)'
    BY <1>2, SessionExact
  <2>2. clock' = clock /\ writing' = writing /\ disk' = disk
    BY <1>2 DEF Session, Begin, Reserve, Commit, Release
  <2> QED  BY <1>1, <2>1, <2>2, FilesStayExact DEF SavedExact
<1>3. CASE Pass
  <2>1. /\ UNCHANGED <<keys, local, res, committed, writing, disk, known>>
        /\ clock <= clock'
    BY <1>1, <1>3 DEF Pass, Tick, saverVars
  <2>2. DeliveriesStay
    BY <2>1 DEF DeliveriesStay
  <2> QED  BY <1>1, <2>1, <2>2, KnownStay, FilesStayExact DEF SavedExact
<1>4. CASE \E now \in Times : Export(now) \/ FinalExport(now)
  <2>1. PICK now \in Times : Export(now) \/ FinalExport(now)
    BY <1>4
  <2>2. TakeSnapshot(now) /\ known' = known /\ disk' = disk
    BY <2>1 DEF Export, FinalExport
  <2>3. Exact(known)' /\ FileExact(writing)'
    BY <2>2, SnapshotExact
  <2>4. DeliveriesStay /\ clock' = clock
    BY <2>2 DEF TakeSnapshot, DeliveriesStay
  <2>5. disk' # NoFile => FileExact(disk)'
    BY <1>1, <2>2, <2>4, FileStaysExact
      DEF SavedExact, SaverInv, Files, FileOk, FileExact, FileAt
  <2> QED  BY <1>1, <2>3, <2>5 DEF SavedExact
<1>5. CASE Replace \/ SaveFails \/ Stop
  <2>1. /\ UNCHANGED <<keys, local, res, committed, clock, known>>
        /\ writing' \in {writing, disk, NoFile} /\ disk' \in {writing, disk}
    BY <1>5 DEF Replace, SaveFails, Stop
  <2>2. DeliveriesStay
    BY <2>1 DEF DeliveriesStay
  <2> QED  BY <1>1, <2>1, <2>2, KnownStay, FilesStayExact DEF SavedExact
<1>6. CASE Exit \/ Crash
  <2>1. /\ Forget /\ UNCHANGED <<committed, clock, disk>> /\ writing' = NoFile
        /\ res' = [m \in DOMAIN committed |-> res[m]]
    BY <1>6 DEF Exit, Crash, Forget
  <2>2. DeliveriesStay
    BY <2>1 DEF DeliveriesStay
  <2> QED  BY <1>1, <2>1, <2>2, ForgetExact, FilesStayExact DEF SavedExact
<1>7. CASE Start
  <2>1. UNCHANGED <<res, committed, clock, writing, disk>>
    BY <1>7 DEF Start
  <2>2. DeliveriesStay
    BY <2>1 DEF DeliveriesStay
  <2> QED  BY <1>1, <1>7, <2>1, <2>2, StartExact, FilesStayExact DEF SavedExact
<1>8. CASE UNCHANGED allVars
  <2>1. UNCHANGED <<keys, local, res, committed, clock, writing, disk, known>>
    BY <1>8 DEF allVars
  <2>2. DeliveriesStay
    BY <2>1 DEF DeliveriesStay
  <2> QED  BY <1>1, <2>1, <2>2, KnownStay, FilesStayExact DEF SavedExact
<1> QED  BY <1>2, <1>3, <1>4, <1>5, <1>6, <1>7, <1>8 DEF LSNext

LEMMA SavedInvariance == LSSpec => []SavedExact
BY InitSaved, NextSaved, PTL DEF LSSpec

(* After any saves, failing saves, stops, crashes and starts the memory    *)
(* counts exactly the deliveries it was told of, each once and in its own  *)
(* bucket (export, restore).                                               *)
THEOREM MemoryStaysExact == LSSpec => []MemoryExact
<1>1. SavedExact => MemoryExact
  <2> SUFFICES ASSUME SavedExact PROVE MemoryExact
    OBVIOUS
  <2> PICK K : K = known
    OBVIOUS
  <2>1. TypeOK /\ K \subseteq DOMAIN committed /\ Exact(K)
    BY DEF SavedExact, SaverInv, SaverShape, IInv
  <2> QED  BY <2>1, ExactTotals DEF MemoryExact
<1> QED  BY <1>1, SavedInvariance, PTL

(* The limit binds over the rolling span across restarts: what the memory  *)
(* was told of and what is in flight never exceed it (restore, reserve).   *)
THEOREM RestartsKeepLimits == LSSpec => []LimitsOutliveRestarts
<1>1. SavedExact => LimitsOutliveRestarts
  <2> SUFFICES ASSUME SavedExact, ~Observe, NEW s \in Spans
               PROVE  /\ \A t \in Texts :
                           Allows(t, s, Cardinality(KeyUnits(Live(known, s), t)))
                      /\ Cardinality(LocalUnits(Live(known, s))) <= LocalLimit[s]
    BY DEF LimitsOutliveRestarts, Live
  <2> PICK K : K = known
    OBVIOUS
  <2>1. /\ IInv /\ TypeOK /\ WithinLimits /\ K \subseteq DOMAIN committed /\ Exact(K)
        /\ clock \in Nat
    BY DEF SavedExact, SaverInv, SaverShape, IInv, TypeOK
  <2>2. /\ \A t \in DOMAIN keys : Allows(t, s, Total(keys[t].count[s]) + keys[t].reserved)
        /\ Total(local.count[s]) + local.reserved <= LocalLimit[s]
    BY <2>1 DEF WithinLimits
  <2>3. ASSUME NEW t \in Texts
        PROVE  Allows(t, s, Cardinality(KeyUnits(Live(K, s), t)))
    <3> DEFINE live == Cardinality(KeyUnits(Live(K, s), t))
               counted == Cardinality(KeyUnits(InBuckets(s) \cap K, t))
    <3>1. live \in Nat /\ counted \in Nat /\ live <= counted + HeldIn(keys, t)
      BY <2>1, LiveUnits
    <3>2. counted = IF t \in DOMAIN keys THEN Total(Expire(keys[t], clock).count[s]) ELSE 0
      BY <2>1, ExactTotals
    <3> HIDE DEF live, counted
    <3>3. ASSUME t \in DOMAIN keys PROVE Allows(t, s, live)
      <4> DEFINE total == Total(keys[t].count[s])
                 held == keys[t].reserved
      <4>1. IsWindow(keys[t]) /\ HeldIn(keys, t) = held
        BY <2>1, <3>3 DEF TypeOK, HeldIn
      <4>2. total \in Nat /\ held \in Nat /\ counted <= total
        <5>1. held \in Nat
          BY <4>1 DEF IsWindow
        <5>2. total \in Nat
          BY <4>1, WindowTotals
        <5>3. Total(Expire(keys[t], clock).count[s]) <= total
          <6>1. IsWindow(keys[t]) /\ clock \in Int
            BY <2>1, <4>1
          <6>2. \A x \in Spans : Total(Expire(keys[t], clock).count[x]) <= Total(keys[t].count[x])
            BY ONLY <6>1, ExpireWindow
          <6> QED  BY <6>2
        <5> QED  BY <3>2, <3>3, <5>1, <5>2, <5>3
      <4>3. Allows(t, s, total + held)
        BY <2>2, <3>3
      <4> HIDE DEF total, held
      <4>4. total + held \in Nat /\ live <= total + held
        BY <3>1, <4>1, <4>2
      <4> QED  BY <3>1, <4>3, <4>4, AllowsFewer
    <3>4. ASSUME t \notin DOMAIN keys PROVE Allows(t, s, live)
      <4>1. counted = 0 /\ HeldIn(keys, t) = 0
        BY <3>2, <3>4 DEF HeldIn
      <4>2. live = 0
        BY <3>1, <4>1
      <4> QED  BY <4>2 DEF Allows
    <3>5. Allows(t, s, live)
      BY <3>3, <3>4
    <3> QED  BY <3>5 DEF live
  <2>4. Cardinality(LocalUnits(Live(K, s))) <= LocalLimit[s]
    <3> DEFINE live == Cardinality(LocalUnits(Live(K, s)))
               counted == Cardinality(LocalUnits(InBuckets(s) \cap K))
               total == Total(local.count[s])
    <3>1. live \in Nat /\ counted \in Nat /\ live <= counted + local.reserved
      BY <2>1, LiveUnits
    <3>2. IsWindow(local) /\ local.reserved \in Nat /\ LocalLimit[s] \in Nat
      BY <2>1, ConstantsAssumption DEF TypeOK, IsWindow
    <3>3. counted <= total /\ total \in Nat
      <4>1. counted = Total(Expire(local, clock).count[s])
        BY <2>1, ExactTotals
      <4>2. total \in Nat
        BY <3>2, WindowTotals
      <4>3. Total(Expire(local, clock).count[s]) <= total
        <5>1. IsWindow(local) /\ clock \in Int
          BY <2>1, <3>2
        <5>2. \A x \in Spans : Total(Expire(local, clock).count[x]) <= Total(local.count[x])
          BY ONLY <5>1, ExpireWindow
        <5> QED  BY <5>2
      <4> QED  BY <4>1, <4>2, <4>3
    <3> HIDE DEF live, counted, total
    <3>4. live <= LocalLimit[s]
      BY <2>2, <3>1, <3>2, <3>3 DEF total
    <3> QED  BY <3>4 DEF live
  <2> QED  BY <2>3, <2>4
<1> QED  BY <1>1, SavedInvariance, PTL
=============================================================================
