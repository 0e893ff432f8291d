--------------------------- MODULE QuotaStoreProofs ---------------------------
(***************************************************************************)
(* Theorems about QuotaStore, for every value of its constants: the shape  *)
(* of the store, the accounting of reservations, and the enforced bound on *)
(* what each window counts and reserves.                                   *)
(***************************************************************************)
EXTENDS QuotaStore, FiniteSetTheorems, FunctionTheorems, TLAPS

(* The recipients of a dict of bucket counts are a finite set.             *)
LEMMA UnitsFinite ==
  ASSUME NEW counts, IsFiniteSet(DOMAIN counts),
         \A b \in DOMAIN counts : counts[b] \in Nat
  PROVE  /\ IsFiniteSet(Units(counts))
         /\ Total(counts) \in Nat
<1> DEFINE Row(b) == {b} \X (1 .. counts[b])
           Rows   == {Row(b) : b \in DOMAIN counts}
           f      == [b \in DOMAIN counts |-> Row(b)]
<1>1. IsFiniteSet(Rows)
  <2>1. f \in Surjection(DOMAIN counts, Rows)
    <3>1. f \in [DOMAIN counts -> Rows]
      OBVIOUS
    <3>2. \A r \in Rows : \E b \in DOMAIN counts : f[b] = r
      OBVIOUS
    <3> HIDE DEF f, Rows
    <3> QED BY <3>1, <3>2, Fun_IsSurj
  <2> HIDE DEF f, Rows
  <2> QED BY <2>1, FS_Surjection
<1>2. \A r \in Rows : IsFiniteSet(r)
  <2> SUFFICES ASSUME NEW b \in DOMAIN counts PROVE IsFiniteSet(Row(b))
    OBVIOUS
  <2>1. IsFiniteSet({b})
    BY FS_Singleton
  <2>2. IsFiniteSet(1 .. counts[b])
    BY FS_Interval
  <2> QED BY <2>1, <2>2, FS_Product
<1>3. IsFiniteSet(UNION Rows)
  <2> HIDE DEF Rows
  <2> QED BY <1>1, <1>2, FS_UNION
<1>4. Units(counts) = UNION Rows
  BY DEF Units
<1> QED BY <1>3, <1>4, FS_CardinalityType DEF Total

(* Dropping buckets never raises the count.                                *)
LEMMA TotalShrinks ==
  ASSUME NEW counts, IsFiniteSet(DOMAIN counts),
         \A b \in DOMAIN counts : counts[b] \in Nat,
         NEW D \in SUBSET DOMAIN counts
  PROVE  Total([b \in D |-> counts[b]]) <= Total(counts)
<1>1. Units([b \in D |-> counts[b]]) \subseteq Units(counts)
  BY DEF Units
<1> QED BY <1>1, UnitsFinite, FS_Subset DEF Total

(* Two multiples of z are never less than z apart.                         *)
LEMMA NoRemainder ==
  ASSUME NEW z \in Nat, NEW q \in Int, NEW d \in Int, NEW r \in Nat,
         r < z, q * z = z * d + r
  PROVE  r = 0
<1>1. CASE q = d
  <2>1. q * z = z * d
    BY <1>1
  <2> QED BY <2>1
<1>2. CASE q >= d + 1
  <2>1. PICK e \in Nat : q = d + 1 + e
    <3>1. q - d - 1 \in Nat /\ q = d + 1 + (q - d - 1)
      BY <1>2
    <3> QED BY <3>1
  <2>2. q * z = z * d + z + e * z
    BY <2>1
  <2>3. e * z >= 0
    BY <2>1
  <2>4. e * z \in Int /\ z * d \in Int
    BY <2>1
  <2> QED BY <2>2, <2>3, <2>4
<1>3. CASE q + 1 <= d
  <2>1. PICK e \in Nat : d = q + 1 + e
    <3>1. d - q - 1 \in Nat /\ d = q + 1 + (d - q - 1)
      BY <1>3
    <3> QED BY <3>1
  <2>2. z * d = q * z + z + e * z
    BY <2>1
  <2>3. e * z >= 0
    BY <2>1
  <2>4. e * z \in Int /\ q * z \in Int
    BY <2>1
  <2> QED BY <2>2, <2>3, <2>4
<1> QED BY <1>1, <1>2, <1>3

(* Every time falls in a bucket that starts at a multiple of the size.     *)
LEMMA BucketAligned ==
  ASSUME NEW s \in Spans, NEW t \in Nat
  PROVE  Bucket(s, t) \in Nat /\ Bucket(s, t) % Size[s] = 0
<1>1. \A z \in Nat \ {0} : \A q \in Nat : (q * z) % z = 0
  <2> SUFFICES ASSUME NEW z \in Nat \ {0}, NEW q \in Nat
               PROVE  (q * z) % z = 0
    OBVIOUS
  <2>1. PICK x \in Nat : x = q * z
    OBVIOUS
  <2>2. /\ x % z \in Nat /\ x % z < z
        /\ x \div z \in Int
        /\ x = (z * (x \div z)) + (x % z)
    OBVIOUS
  <2>3. x % z = 0
    BY <2>1, <2>2, NoRemainder
  <2> QED BY <2>1, <2>3
<1>2. t \div Size[s] \in Nat /\ Size[s] \in Nat \ {0}
  BY ConstantsAssumption
<1> QED BY <1>1, <1>2 DEF Bucket

(* And starts no later.                                                    *)
LEMMA BucketStarts ==
  ASSUME NEW s \in Spans, NEW t \in Nat
  PROVE  Bucket(s, t) \in Nat /\ Bucket(s, t) <= t
<1>1. \A z \in Nat \ {0} : (t \div z) * z <= t
  <2> TAKE z \in Nat \ {0}
  <2> DEFINE q == t \div z
             r == t % z
  <2>1. q \in Int /\ r \in Nat /\ t = z * q + r
    OBVIOUS
  <2> HIDE DEF q, r
  <2>2. z * q = q * z
    BY <2>1
  <2>3. q * z <= t
    BY <2>1, <2>2
  <2> QED  BY <2>3 DEF q
<1>2. Size[s] \in Nat \ {0}
  BY ConstantsAssumption
<1> QED  BY <1>1, <1>2, BucketAligned DEF Bucket

LEMMA FirstN ==
  ASSUME NEW n \in Nat
  PROVE  IsFiniteSet(1 .. n) /\ Cardinality(1 .. n) = n
BY FS_Interval

(* A row of a grid has as many cells as there are columns.                 *)
LEMMA RowCount ==
  ASSUME NEW x, NEW C, IsFiniteSet(C)
  PROVE  IsFiniteSet({x} \X C) /\ Cardinality({x} \X C) = Cardinality(C)
<1>1. IsFiniteSet({x}) /\ Cardinality({x}) = 1
  BY FS_Singleton
<1>2. Cardinality(C) \in Nat
  BY FS_CardinalityType
<1>3. IsFiniteSet({x} \X C) /\ Cardinality({x} \X C) = 1 * Cardinality(C)
  BY <1>1, FS_Product
<1> QED BY <1>2, <1>3

(* Adding n recipients to a dict of counts raises its count by n.          *)
LEMMA TotalAdds ==
  ASSUME NEW s \in Spans, NEW counts, IsCounts(s, counts),
         NEW now \in Nat, NEW n \in Nat \ {0}
  PROVE  /\ IsCounts(s, AddCount(s, counts, now, n))
         /\ Total(AddCount(s, counts, now, n)) = Total(counts) + n
<1> DEFINE at   == Bucket(s, now)
           old  == IF at \in DOMAIN counts THEN counts[at] ELSE 0
           sum  == AddCount(s, counts, now, n)
           more == {at} \X (old + 1 .. old + n)
<1>1. at \in Nat /\ at % Size[s] = 0
  BY BucketAligned
<1>2. old \in Nat
  BY DEF IsCounts
<1>3. /\ DOMAIN sum = DOMAIN counts \cup {at}
      /\ sum[at] = old + n
      /\ \A b \in DOMAIN counts \ {at} : sum[b] = counts[b]
  BY <1>2 DEF AddCount, IsCounts
<1>4. IsCounts(s, sum)
  <2>1. IsFiniteSet(DOMAIN sum)
    BY <1>3, FS_AddElement DEF IsCounts
  <2>2. sum = [b \in DOMAIN sum |-> sum[b]]
    BY DEF AddCount
  <2>3. \A b \in DOMAIN sum : sum[b] \in Nat \ {0}
    BY <1>2, <1>3 DEF IsCounts
  <2>4. \A b \in DOMAIN sum : b \in Nat /\ b % Size[s] = 0
    BY <1>1, <1>3 DEF IsCounts
  <2> HIDE DEF sum
  <2> QED BY <2>1, <2>2, <2>3, <2>4 DEF IsCounts
<1>5. Units(sum) = Units(counts) \cup more /\ Units(counts) \cap more = {}
  <2>1. \A b \in DOMAIN counts : counts[b] \in Nat
    BY DEF IsCounts
  <2> HIDE DEF sum, at
  <2> QED BY <1>2, <1>3, <2>1 DEF Units
<1>6. IsFiniteSet(more) /\ Cardinality(more) = n
  <2>1. IsFiniteSet(old + 1 .. old + n) /\ Cardinality(old + 1 .. old + n) = n
    BY <1>2, FS_Interval
  <2> HIDE DEF old, at
  <2> QED BY <2>1, RowCount
<1>7. IsFiniteSet(Units(counts)) /\ Cardinality(Units(counts)) \in Nat
  BY UnitsFinite DEF IsCounts, Total
<1>8. Cardinality(Units(sum)) = Cardinality(Units(counts)) + n
  <2> HIDE DEF sum, more
  <2> QED BY <1>5, <1>6, <1>7, FS_Union, FS_EmptySet
<1> QED BY <1>4, <1>8 DEF Total
-----------------------------------------------------------------------------
(* What the operations on one window preserve.                             *)

LEMMA WindowTotals ==
  ASSUME NEW w, IsWindow(w), NEW s \in Spans
  PROVE  Total(w.count[s]) \in Nat
BY UnitsFinite DEF IsWindow, IsCounts

(* Expiry keeps the reservations and never raises a count.                 *)
LEMMA ExpireWindow ==
  ASSUME NEW w, IsWindow(w), NEW now \in Int
  PROVE  /\ IsWindow(Expire(w, now))
         /\ Expire(w, now).reserved = w.reserved
         /\ \A s \in Spans : Total(Expire(w, now).count[s]) <= Total(w.count[s])
<1> DEFINE kept(s) == {x \in DOMAIN w.count[s] : Fresh(s, x, now)}
           v == Expire(w, now)
<1>1. /\ v = [count |-> v.count, reserved |-> v.reserved]
      /\ v.reserved = w.reserved
      /\ v.count = [s \in Spans |-> v.count[s]]
      /\ \A s \in Spans : v.count[s] = [b \in kept(s) |-> w.count[s][b]]
  BY DEF Expire, IsWindow
<1>2. ASSUME NEW s \in Spans
      PROVE  IsCounts(s, v.count[s]) /\ Total(v.count[s]) <= Total(w.count[s])
  <2>1. IsCounts(s, w.count[s])
    BY DEF IsWindow
  <2>2. kept(s) \in SUBSET DOMAIN w.count[s] /\ DOMAIN v.count[s] = kept(s)
    BY <1>1
  <2>3. IsFiniteSet(kept(s))
    BY <2>1, <2>2, FS_Subset DEF IsCounts
  <2>4. Total([b \in kept(s) |-> w.count[s][b]]) <= Total(w.count[s])
    <3>1. IsFiniteSet(DOMAIN w.count[s])
          /\ \A b \in DOMAIN w.count[s] : w.count[s][b] \in Nat
      BY <2>1 DEF IsCounts
    <3> QED BY <2>2, <3>1, TotalShrinks
  <2>5. IsCounts(s, [b \in kept(s) |-> w.count[s][b]])
    BY <2>1, <2>3 DEF IsCounts
  <2> QED BY <1>1, <2>4, <2>5
<1>3. v.reserved \in Nat
  BY <1>1 DEF IsWindow
<1> QED BY <1>1, <1>2, <1>3 DEF IsWindow

(* Taking or giving back reservations leaves the counts alone.             *)
LEMMA AddReservedWindow ==
  ASSUME NEW w, IsWindow(w), NEW n \in Int, w.reserved + n \in Nat
  PROVE  /\ IsWindow(AddReserved(w, n))
         /\ AddReserved(w, n).reserved = w.reserved + n
         /\ AddReserved(w, n).count = w.count
BY DEF IsWindow, AddReserved

(* Settling moves n recipients from the reservations to the counts.        *)
LEMMA SettleWindow ==
  ASSUME NEW w, IsWindow(w), NEW now \in Nat, NEW n \in Nat \ {0}, n <= w.reserved
  PROVE  /\ IsWindow(Settle(w, now, n))
         /\ Settle(w, now, n).reserved = w.reserved - n
         /\ \A s \in Spans :
              Total(Settle(w, now, n).count[s]) = Total(w.count[s]) + n
<1> DEFINE v == Settle(w, now, n)
<1>1. /\ v = [count |-> v.count, reserved |-> v.reserved]
      /\ v.reserved = w.reserved - n
      /\ v.count = [s \in Spans |-> v.count[s]]
      /\ \A s \in Spans : v.count[s] = AddCount(s, w.count[s], now, n)
  BY DEF Settle, IsWindow
<1>2. w.reserved - n \in Nat
  BY DEF IsWindow
<1>3. \A s \in Spans : IsCounts(s, v.count[s]) /\ Total(v.count[s]) = Total(w.count[s]) + n
  <2> HIDE DEF v
  <2> QED BY <1>1, TotalAdds DEF IsWindow
<1> QED BY <1>1, <1>2, <1>3 DEF IsWindow

LEMMA EmptyIsWindow ==
  /\ IsWindow(EmptyWindow)
  /\ EmptyWindow.reserved = 0
  /\ \A s \in Spans : Total(EmptyWindow.count[s]) = 0
<1>1. Units(NoCounts) = {}
  BY DEF Units, NoCounts
<1>2. Total(NoCounts) = 0
  BY <1>1, FS_EmptySet DEF Total
<1>3. \A s \in Spans : IsCounts(s, NoCounts)
  BY FS_EmptySet DEF IsCounts, NoCounts
<1> QED BY <1>2, <1>3 DEF EmptyWindow, IsWindow
-----------------------------------------------------------------------------
(* The store as _window leaves it: the same reservations, and no count     *)
(* that was not there.                                                     *)

IsStore(S) ==
  /\ DOMAIN S \subseteq Texts
  /\ S = [t \in DOMAIN S |-> S[t]]
  /\ \A t \in DOMAIN S : IsWindow(S[t])
  /\ Cardinality(DOMAIN S) <= Capacity

HeldIn(S, t) == IF t \in DOMAIN S THEN S[t].reserved ELSE 0

LEMMA StoreFinite ==
  ASSUME NEW S, IsStore(S)
  PROVE  IsFiniteSet(DOMAIN S) /\ Cardinality(DOMAIN S) \in Nat
BY ConstantsAssumption, FS_Subset, FS_CardinalityType DEF IsStore

(* A sweep drops windows without reservations or counts, and no others.    *)
LEMMA SweptStore ==
  ASSUME IsStore(keys), NEW now \in Int
  PROVE  /\ IsStore(Swept(now))
         /\ \A t \in Texts : HeldIn(Swept(now), t) = HeldIn(keys, t)
         /\ \A t \in DOMAIN Swept(now) :
              /\ t \in DOMAIN keys
              /\ \A s \in Spans : Total(Swept(now)[t].count[s]) <= Total(keys[t].count[s])
<1>1. \A t \in DOMAIN keys :
        /\ IsWindow(Expire(keys[t], now))
        /\ Expire(keys[t], now).reserved = keys[t].reserved
        /\ \A s \in Spans :
             Total(Expire(keys[t], now).count[s]) <= Total(keys[t].count[s])
  BY ExpireWindow DEF IsStore
<1>2. /\ DOMAIN Swept(now) = {x \in DOMAIN keys : ~Idle(Expire(keys[x], now))}
      /\ \A t \in DOMAIN Swept(now) : Swept(now)[t] = Expire(keys[t], now)
      /\ Swept(now) = [t \in DOMAIN Swept(now) |-> Swept(now)[t]]
  BY DEF Swept
<1>3. Cardinality(DOMAIN Swept(now)) <= Capacity
  <2>1. Cardinality(DOMAIN Swept(now)) <= Cardinality(DOMAIN keys)
        /\ Cardinality(DOMAIN Swept(now)) \in Nat
    BY <1>2, StoreFinite, FS_Subset, FS_CardinalityType
  <2> QED BY <2>1, StoreFinite, ConstantsAssumption DEF IsStore
<1>4. IsStore(Swept(now))
  BY <1>1, <1>2, <1>3 DEF IsStore
<1>5. \A t \in Texts : HeldIn(Swept(now), t) = HeldIn(keys, t)
  BY <1>1, <1>2 DEF HeldIn, Idle
<1> QED BY <1>1, <1>2, <1>4, <1>5

LEMMA StoreForKeeps ==
  ASSUME IsStore(keys), NEW text \in Texts, NEW now \in Int
  PROVE  /\ IsStore(StoreFor(text, now))
         /\ \A t \in Texts : HeldIn(StoreFor(text, now), t) = HeldIn(keys, t)
         /\ \A t \in DOMAIN StoreFor(text, now) :
              \/ /\ t \in DOMAIN keys
                 /\ \A s \in Spans :
                      Total(StoreFor(text, now)[t].count[s]) <= Total(keys[t].count[s])
              \/ StoreFor(text, now)[t] = EmptyWindow
<1> DEFINE base == IF Sweeps(text, now) THEN Swept(now) ELSE keys
           S    == StoreFor(text, now)
<1>1. /\ IsStore(base)
      /\ \A t \in Texts : HeldIn(base, t) = HeldIn(keys, t)
      /\ \A t \in DOMAIN base :
           /\ t \in DOMAIN keys
           /\ \A s \in Spans : Total(base[t].count[s]) <= Total(keys[t].count[s])
  BY SweptStore, WindowTotals DEF IsStore
<1>2. CASE text \in DOMAIN base \/ Full(base)
  <2>1. S = base
    BY <1>2 DEF StoreFor
  <2> HIDE DEF base, S
  <2> QED BY <1>1, <2>1 DEF S
<1>3. CASE text \notin DOMAIN base /\ ~Full(base)
  <2>1. S = [t \in DOMAIN base \cup {text} |-> IF t = text THEN EmptyWindow ELSE base[t]]
    BY <1>3 DEF StoreFor
  <2> HIDE DEF base, S
  <2>2. Cardinality(DOMAIN S) <= Capacity
    <3>1. Cardinality(DOMAIN S) = Cardinality(DOMAIN base) + 1
      BY <1>1, <1>3, <2>1, StoreFinite, FS_AddElement
    <3> QED BY <1>1, <1>3, <3>1, StoreFinite, ConstantsAssumption DEF Full
  <2>3. /\ DOMAIN S = DOMAIN base \cup {text}
        /\ S[text] = EmptyWindow
        /\ \A t \in DOMAIN base : S[t] = base[t]
        /\ S = [t \in DOMAIN S |-> S[t]]
    BY <1>3, <2>1
  <2>4. IsStore(S)
    BY <1>1, <2>2, <2>3, EmptyIsWindow DEF IsStore
  <2>5. \A t \in Texts : HeldIn(S, t) = HeldIn(keys, t)
    BY <1>1, <1>3, <2>3, EmptyIsWindow DEF HeldIn
  <2> QED BY <1>1, <2>3, <2>4, <2>5 DEF S
<1> QED BY <1>2, <1>3
-----------------------------------------------------------------------------
(* The units of the open messages, as finite sets.                         *)

LEMMA UnitsOfMessages ==
  ASSUME NEW M \in SUBSET Messages, NEW t
  PROVE  /\ IsFiniteSet(KeyUnits(M, t)) /\ Cardinality(KeyUnits(M, t)) \in Nat
         /\ IsFiniteSet(LocalUnits(M)) /\ Cardinality(LocalUnits(M)) \in Nat
<1>1. IsFiniteSet(M \X (1 .. MaxRecipients))
  <2>1. IsFiniteSet(M)
    BY ConstantsAssumption, FS_Subset
  <2>2. IsFiniteSet(1 .. MaxRecipients)
    BY ConstantsAssumption, FS_Interval
  <2> QED BY <2>1, <2>2, FS_Product
<1>2. /\ KeyUnits(M, t) \in SUBSET (M \X (1 .. MaxRecipients))
      /\ LocalUnits(M) \in SUBSET (M \X (1 .. MaxRecipients))
  BY DEF KeyUnits, LocalUnits
<1> QED BY <1>1, <1>2, FS_Subset, FS_CardinalityType

(* An open message's places are among those its window reserves.           *)
LEMMA PlacesReserved ==
  ASSUME TypeOK, ReservationsAccounted, NEW m \in Open
  PROVE  /\ res[m].keyed <= HeldIn(keys, res[m].key.text)
         /\ res[m].local <= local.reserved
<1> DEFINE text == res[m].key.text
<1>1. /\ m \in Messages /\ res[m] \in Reservations /\ Open \in SUBSET Messages
      /\ text \in Texts
  BY DEF TypeOK, Open, Reservations, Texts
<1>2. res[m].keyed \in Nat /\ res[m].local \in Nat
      /\ res[m].keyed <= MaxRecipients /\ res[m].local <= MaxRecipients
  BY <1>1, ConstantsAssumption DEF Reservations
<1>3. /\ Cardinality({m} \X (1 .. res[m].keyed)) = res[m].keyed
      /\ Cardinality({m} \X (1 .. res[m].local)) = res[m].local
  <2>1. /\ IsFiniteSet(1 .. res[m].keyed) /\ Cardinality(1 .. res[m].keyed) = res[m].keyed
        /\ IsFiniteSet(1 .. res[m].local) /\ Cardinality(1 .. res[m].local) = res[m].local
    BY <1>2, FirstN
  <2> QED BY <2>1, RowCount
<1>4. {m} \X (1 .. res[m].keyed) \in SUBSET KeyUnits(Open, text)
  BY <1>1, <1>2, ConstantsAssumption DEF KeyUnits
<1>5. {m} \X (1 .. res[m].local) \in SUBSET LocalUnits(Open)
  BY <1>1, <1>2, ConstantsAssumption DEF LocalUnits
<1>6. /\ res[m].keyed <= Cardinality(KeyUnits(Open, text))
      /\ res[m].local <= Cardinality(LocalUnits(Open))
  BY <1>1, <1>3, <1>4, <1>5, UnitsOfMessages, FS_Subset
<1> QED BY <1>1, <1>6 DEF ReservationsAccounted, HeldIn
-----------------------------------------------------------------------------
(* The inductive invariant: ReservationsAccounted says a commit moves no   *)
(* more than the window reserves, so that WithinLimits survives it.        *)
IInv == TypeOK /\ ReservationsAccounted /\ WithinLimits

LEMMA TypeOfStore == TypeOK => IsStore(keys)
BY DEF TypeOK, IsStore

(* A limit that allows some recipients allows fewer.                       *)
LEMMA AllowsFewer ==
  ASSUME NEW t, NEW s \in Spans, NEW n \in Nat, Allows(t, s, n),
         NEW i \in Nat, i <= n
  PROVE  Allows(t, s, i)
<1>1. \A k \in LimitKeys : k.limit[s] \in Nat
  BY ConstantsAssumption
<1> QED BY <1>1 DEF Allows

(* What granting one recipient, or refusing it, does to the windows.       *)
LEMMA ReserveWindows ==
  ASSUME IInv, NEW m \in Open, NEW now \in Int,
         NEW k, k = res[m].key, NEW S, S = StoreFor(k.text, now),
         NEW take, take = (IF Granted(k, S, now) THEN 1 ELSE 0),
         NEW S2, S2 = (IF k.text \in DOMAIN S
                       THEN [S EXCEPT ![k.text] = AddReserved(Expire(@, now), take)]
                       ELSE S),
         NEW L2, L2 = (IF AsksLocal(k, S, now)
                       THEN AddReserved(Expire(local, now), take)
                       ELSE local)
  PROVE  /\ take \in {0, 1}
         /\ k \in LimitKeys
         /\ IsStore(S2)
         /\ \A t \in Texts :
              HeldIn(S2, t) = HeldIn(keys, t)
                + (IF t = k.text /\ k.text \in DOMAIN S THEN take ELSE 0)
         /\ ~Observe => \A t \in DOMAIN S2 : \A s \in Spans :
              Allows(t, s, Total(S2[t].count[s]) + S2[t].reserved)
         /\ IsWindow(L2)
         /\ L2.reserved = local.reserved + (IF k.local THEN take ELSE 0)
         /\ ~Observe => \A s \in Spans :
              Total(L2.count[s]) + L2.reserved <= LocalLimit[s]
<1>1. take \in {0, 1} /\ take \in Nat
  OBVIOUS
<1>2. k \in LimitKeys /\ k.text \in Texts
  BY DEF IInv, TypeOK, Open, Reservations, Texts
<1>3. k.limit \in [Spans -> Nat] /\ k.local \in BOOLEAN /\ LocalLimit \in [Spans -> Nat]
  BY <1>2, ConstantsAssumption
<1>4. /\ IsStore(S)
      /\ \A t \in Texts : HeldIn(S, t) = HeldIn(keys, t)
      /\ \A t \in DOMAIN S :
           \/ /\ t \in DOMAIN keys
              /\ \A s \in Spans : Total(S[t].count[s]) <= Total(keys[t].count[s])
           \/ S[t] = EmptyWindow
  BY <1>2, TypeOfStore, StoreForKeeps DEF IInv
<1>5. \A t \in DOMAIN S : t \in Texts /\ IsWindow(S[t]) /\ S[t].reserved \in Nat
  BY <1>4 DEF IsStore, IsWindow
<1>6. ~Observe => \A t \in DOMAIN S : \A s \in Spans :
        Allows(t, s, Total(S[t].count[s]) + S[t].reserved)
  <2> SUFFICES ASSUME ~Observe, NEW t \in DOMAIN S, NEW s \in Spans
               PROVE  Allows(t, s, Total(S[t].count[s]) + S[t].reserved)
    OBVIOUS
  <2>1. CASE S[t] = EmptyWindow
    BY <2>1, EmptyIsWindow DEF Allows
  <2>2. CASE t \in DOMAIN keys /\ Total(S[t].count[s]) <= Total(keys[t].count[s])
    <3>1. S[t].reserved = keys[t].reserved /\ keys[t].reserved \in Nat
      BY <1>4, <1>5, <2>2 DEF HeldIn, IInv, TypeOK, IsWindow
    <3>2. Total(S[t].count[s]) \in Nat /\ Total(keys[t].count[s]) \in Nat
      BY <1>5, <2>2, WindowTotals DEF IInv, TypeOK
    <3>3. Allows(t, s, Total(keys[t].count[s]) + keys[t].reserved)
      BY <2>2 DEF IInv, WithinLimits
    <3> QED BY <2>2, <3>1, <3>2, <3>3, AllowsFewer
  <2> QED BY <1>4, <2>1, <2>2
<1> DEFINE E == Expire(S[k.text], now)
           W == AddReserved(E, take)
<1>7. ASSUME k.text \in DOMAIN S
      PROVE  /\ IsWindow(E) /\ IsWindow(W)
             /\ W.reserved = S[k.text].reserved + take
             /\ E.reserved = S[k.text].reserved
             /\ W.count = E.count
             /\ \A s \in Spans : Total(E.count[s]) <= Total(S[k.text].count[s])
  <2>1. IsWindow(E) /\ E.reserved = S[k.text].reserved
        /\ \A s \in Spans : Total(E.count[s]) <= Total(S[k.text].count[s])
    BY <1>5, <1>7, ExpireWindow
  <2>2. E.reserved + take \in Nat
    BY <1>1, <1>5, <1>7, <2>1
  <2> HIDE DEF E
  <2> QED BY <1>1, <2>1, <2>2, AddReservedWindow
<1>8. /\ DOMAIN S2 = DOMAIN S
      /\ S2 = [t \in DOMAIN S2 |-> S2[t]]
      /\ k.text \in DOMAIN S => S2[k.text] = W
      /\ \A t \in DOMAIN S : t # k.text => S2[t] = S[t]
  BY <1>4 DEF IsStore
<1>9. IsStore(S2)
  BY <1>4, <1>7, <1>8 DEF IsStore
<1>10. \A t \in Texts :
         HeldIn(S2, t) = HeldIn(keys, t)
           + (IF t = k.text /\ k.text \in DOMAIN S THEN take ELSE 0)
  <2> HIDE DEF W
  <2> QED BY <1>1, <1>4, <1>5, <1>7, <1>8 DEF HeldIn
<1>11. ASSUME ~Observe, NEW t \in DOMAIN S2, NEW s \in Spans
       PROVE  Allows(t, s, Total(S2[t].count[s]) + S2[t].reserved)
  <2>1. CASE t # k.text
    BY <1>6, <1>8, <1>11, <2>1
  <2>2. CASE t = k.text
    <3>1. /\ Total(E.count[s]) \in Nat /\ Total(S[t].count[s]) \in Nat
          /\ S[t].reserved \in Nat
      BY <1>5, <1>7, <1>8, <2>2, WindowTotals
    <3>2. S2[t].count = E.count /\ S2[t].reserved = E.reserved + take
      BY <1>7, <1>8, <2>2
    <3>3. CASE take = 0
      <4>1. Allows(t, s, Total(S[t].count[s]) + S[t].reserved)
        BY <1>6, <1>8, <1>11
      <4>k. k.text \in DOMAIN S /\ t = k.text
        BY <1>8, <2>2
      <4>e. Total(E.count[s]) <= Total(S[t].count[s]) /\ E.reserved = S[t].reserved
        BY <1>7, <4>k
      <4>r. S2[t].reserved = S[t].reserved
        BY <3>1, <3>2, <3>3, <4>e
      <4> DEFINE a == Total(E.count[s])
                 b == Total(S[t].count[s])
      <4>n. a \in Nat /\ b \in Nat /\ a <= b /\ S[t].reserved \in Nat
        BY <3>1, <4>e
      <4>2. a + S2[t].reserved <= b + S[t].reserved
        <5> HIDE DEF a, b
        <5> QED BY <4>n, <4>r
      <4>3. a + S2[t].reserved \in Nat
        <5> HIDE DEF a, b
        <5> QED BY <4>n, <4>r
      <4> HIDE DEF E
      <4> QED BY <3>1, <3>2, <4>1, <4>2, <4>3, AllowsFewer
    <3>4. CASE take = 1
      <4>1. KeyVerdict(k, S, now) = "none"
        BY <1>11, <3>4 DEF Granted
      <4>2. ~Over(E, s, k.limit)
        BY <1>8, <2>2, <4>1 DEF KeyVerdict, Refusal, Spans
      <4>3. Total(E.count[s]) + E.reserved + 1 <= k.limit[s]
        <5>1. E.reserved \in Nat /\ k.limit[s] \in Nat
          BY <1>3, <1>5, <1>7, <1>8, <2>2
        <5> HIDE DEF E
        <5> QED BY <3>1, <4>2, <5>1 DEF Over
      <4> HIDE DEF E
      <4>4. Total(S2[t].count[s]) + S2[t].reserved <= k.limit[s]
        BY <1>7, <1>8, <2>2, <3>1, <3>2, <3>4, <4>3
      <4> QED BY <1>2, <2>2, <4>4 DEF Allows
    <3> QED BY <1>1, <3>3, <3>4
  <2> QED BY <2>1, <2>2
<1> DEFINE F == Expire(local, now)
<1>12. /\ IsWindow(F) /\ F.reserved = local.reserved /\ local.reserved \in Nat
       /\ IsWindow(AddReserved(F, take))
       /\ AddReserved(F, take).reserved = local.reserved + take
       /\ AddReserved(F, take).count = F.count
       /\ \A s \in Spans : Total(F.count[s]) <= Total(local.count[s])
  <2>1. IsWindow(local)
    BY DEF IInv, TypeOK
  <2>2. IsWindow(F) /\ F.reserved = local.reserved /\ local.reserved \in Nat
        /\ \A s \in Spans : Total(F.count[s]) <= Total(local.count[s])
    BY <2>1, ExpireWindow DEF IsWindow
  <2>3. F.reserved + take \in Nat
    BY <1>1, <2>2
  <2> HIDE DEF F
  <2> QED BY <1>1, <2>2, <2>3, AddReservedWindow
<1>13. IsWindow(L2) /\ L2.reserved = local.reserved + (IF k.local THEN take ELSE 0)
  <2>1. CASE AsksLocal(k, S, now)
    <3>1. k.local
      BY <2>1 DEF AsksLocal
    <3> HIDE DEF F
    <3> QED BY <1>12, <2>1, <3>1 DEF F
  <2>2. CASE ~AsksLocal(k, S, now)
    <3>1. L2 = local
      BY <2>2
    <3>2. k.local => take = 0
      BY <2>2 DEF AsksLocal, Granted
    <3> QED BY <1>12, <3>1, <3>2 DEF IInv, TypeOK
  <2> QED BY <2>1, <2>2
<1>14. ASSUME ~Observe, NEW s \in Spans
       PROVE  Total(L2.count[s]) + L2.reserved <= LocalLimit[s]
  <2>1. Total(local.count[s]) + local.reserved <= LocalLimit[s]
    BY <1>14 DEF IInv, WithinLimits
  <2>2. IsWindow(local)
    BY DEF IInv, TypeOK
  <2>3. Total(local.count[s]) \in Nat /\ Total(F.count[s]) \in Nat /\ LocalLimit[s] \in Nat
    BY <1>3, <1>12, <2>2, WindowTotals
  <2>4. CASE ~AsksLocal(k, S, now)
    BY <2>1, <2>4
  <2>5. CASE AsksLocal(k, S, now) /\ take = 0
    <3>1. L2.count = F.count /\ L2.reserved = local.reserved
      BY <1>12, <2>5
    <3> HIDE DEF F
    <3> QED BY <1>12, <2>1, <2>3, <3>1
  <2>6. CASE AsksLocal(k, S, now) /\ take = 1
    <3>1. LocalVerdict(now) = "none"
      BY <1>14, <2>6 DEF AsksLocal, Granted
    <3>2. ~Over(F, s, LocalLimit)
      BY <3>1 DEF LocalVerdict, Refusal, Spans
    <3>3. L2.count = F.count /\ L2.reserved = F.reserved + 1
      BY <1>12, <2>6
    <3> HIDE DEF F
    <3> QED BY <1>12, <2>3, <3>2, <3>3 DEF Over
  <2> QED BY <1>1, <2>4, <2>5, <2>6
<1> QED BY <1>1, <1>2, <1>9, <1>10, <1>11, <1>12, <1>13, <1>14
-----------------------------------------------------------------------------
(* One lemma per action.                                                   *)

(* The parts of IInv that speak of a store and the reservations on it.     *)
LEMMA IInvParts ==
  /\ IInv => IsStore(keys) /\ \A t \in Texts : HeldIn(keys, t) \in Nat
  /\ ReservationsAccounted <=>
       /\ \A t \in Texts : Cardinality(KeyUnits(Open, t)) = HeldIn(keys, t)
       /\ local.reserved = Cardinality(LocalUnits(Open))
<1>1. ReservationsAccounted <=>
        /\ \A t \in Texts : Cardinality(KeyUnits(Open, t)) = HeldIn(keys, t)
        /\ local.reserved = Cardinality(LocalUnits(Open))
  BY DEF ReservationsAccounted, HeldIn
<1>2. IInv => IsStore(keys)
  BY TypeOfStore DEF IInv
<1>3. IInv => \A t \in Texts : HeldIn(keys, t) \in Nat
  BY <1>2 DEF IsStore, IsWindow, HeldIn
<1> QED BY <1>1, <1>2, <1>3

LEMMA BeginStep ==
  ASSUME IInv, NEW m \in Messages, NEW k \in LimitKeys, Begin(m, k)
  PROVE  IInv'
<1>1. /\ DOMAIN res' = DOMAIN res \cup {m}
      /\ res'[m] = [key |-> k, keyed |-> 0, local |-> 0, closed |-> FALSE]
      /\ \A x \in DOMAIN res : res'[x] = res[x] /\ x # m
      /\ res' = [x \in DOMAIN res' |-> res'[x]]
  BY DEF Begin
<1>2. UNCHANGED <<keys, local, lastSweep, committed, clock>>
  BY DEF Begin
<1>3. TypeOK'
  <2>1. res'[m] \in Reservations
    BY <1>1, ConstantsAssumption DEF Reservations
  <2>2. \A x \in DOMAIN res : res[x] \in Reservations
    BY DEF IInv, TypeOK
  <2>3. res' \in [DOMAIN res' -> Reservations]
    BY <1>1, <2>1, <2>2
  <2>4. DOMAIN res' \subseteq Messages
    BY <1>1 DEF IInv, TypeOK
  <2>5. DOMAIN committed \subseteq {x \in DOMAIN res' : res'[x].closed}
    BY <1>1 DEF IInv, TypeOK
  <2> QED BY <1>2, <2>3, <2>4, <2>5 DEF IInv, TypeOK
<1>4. ReservationsAccounted'
  <2>1. Open' = Open \cup {m}
    BY <1>1 DEF Open
  <2>2. \A t \in Texts : KeyUnits(Open, t)' = KeyUnits(Open, t)
    BY <1>1, <2>1, ConstantsAssumption DEF KeyUnits, Open
  <2>3. LocalUnits(Open)' = LocalUnits(Open)
    BY <1>1, <2>1, ConstantsAssumption DEF LocalUnits, Open
  <2> QED BY <1>2, <2>2, <2>3 DEF IInv, ReservationsAccounted
<1>5. WithinLimits'
  BY <1>2 DEF IInv, WithinLimits
<1> QED BY <1>3, <1>4, <1>5 DEF IInv

LEMMA ReserveStep ==
  ASSUME IInv, NEW m \in Messages, NEW now \in Int, Reserve(m, now)
  PROVE  IInv'
<1> DEFINE k    == res[m].key
           S    == StoreFor(k.text, now)
           take == IF Granted(k, S, now) THEN 1 ELSE 0
           kept == IF k.text \in DOMAIN S THEN take ELSE 0
           cap  == IF k.local THEN take ELSE 0
<1>1. m \in Open /\ res[m] \in Reservations
  BY DEF Reserve, Open, IInv, TypeOK
<1>2. /\ take \in {0, 1}
      /\ k \in LimitKeys
      /\ IsStore(keys')
      /\ \A t \in Texts :
           HeldIn(keys', t) = HeldIn(keys, t)
             + (IF t = k.text /\ k.text \in DOMAIN S THEN take ELSE 0)
      /\ ~Observe => \A t \in DOMAIN keys' : \A s \in Spans :
           Allows(t, s, Total(keys'[t].count[s]) + keys'[t].reserved)
      /\ IsWindow(local')
      /\ local'.reserved = local.reserved + cap
      /\ ~Observe => \A s \in Spans :
           Total(local'.count[s]) + local'.reserved <= LocalLimit[s]
  <2>1. keys' = (IF k.text \in DOMAIN S
                 THEN [S EXCEPT ![k.text] = AddReserved(Expire(@, now), take)]
                 ELSE S)
    BY DEF Reserve
  <2>2. local' = (IF AsksLocal(k, S, now)
                  THEN AddReserved(Expire(local, now), take)
                  ELSE local)
    BY DEF Reserve
  <2> HIDE DEF k, S, take
  <2>3. k = res[m].key /\ S = StoreFor(k.text, now)
        /\ take = (IF Granted(k, S, now) THEN 1 ELSE 0)
    BY DEF k, S, take
  <2> QED BY <1>1, <2>1, <2>2, <2>3, ReserveWindows
<1>3. /\ UNCHANGED <<committed, clock>>
      /\ lastSweep' = IF Sweeps(k.text, now) THEN now ELSE lastSweep
      /\ res[m].keyed < MaxRecipients /\ res[m].local < MaxRecipients
      /\ ~res[m].closed
  BY DEF Reserve
<1>4. res' = [res EXCEPT ![m] = [key |-> k, keyed |-> res[m].keyed + kept,
                                 local |-> res[m].local + cap, closed |-> FALSE]]
  BY DEF Reserve
<1>5. kept \in {0, 1} /\ cap \in {0, 1} /\ k.local \in BOOLEAN
  BY <1>2, ConstantsAssumption
<1> HIDE DEF S, take, kept, cap
<1>6. /\ DOMAIN res' = DOMAIN res
      /\ res' = [x \in DOMAIN res |-> res'[x]]
      /\ \A x \in DOMAIN res \ {m} : res'[x] = res[x]
      /\ res'[m].key = res[m].key /\ res'[m].closed = FALSE
      /\ res'[m].keyed = res[m].keyed + kept
      /\ res'[m].local = res[m].local + cap
      /\ res'[m] \in Reservations
  <2>1. res \in [DOMAIN res -> Reservations] /\ m \in DOMAIN res
    BY <1>1 DEF IInv, TypeOK, Open
  <2>2. res[m].keyed \in Nat /\ res[m].local \in Nat /\ MaxRecipients \in Nat
    BY <1>1, ConstantsAssumption DEF Reservations
  <2>3. res'[m] = [key |-> k, keyed |-> res[m].keyed + kept,
                   local |-> res[m].local + cap, closed |-> FALSE]
    BY <1>4, <2>1
  <2>4. res'[m] \in Reservations
    <3>1. /\ res[m].keyed + kept \in 0 .. MaxRecipients
          /\ res[m].local + cap \in 0 .. MaxRecipients
      BY <1>3, <1>5, <2>2
    <3> QED BY <1>2, <2>3, <3>1 DEF Reservations
  <2> QED BY <1>1, <1>3, <1>4, <2>1, <2>3, <2>4 DEF Reservations
<1>7. Open' = Open
  BY <1>3, <1>6 DEF Open
<1>8. \A t \in Texts :
        KeyUnits(Open, t)' =
          IF t = k.text /\ kept = 1
          THEN KeyUnits(Open, t) \cup {<<m, res[m].keyed + 1>>}
          ELSE KeyUnits(Open, t)
  <2> SUFFICES ASSUME NEW t \in Texts
               PROVE  KeyUnits(Open, t)' =
                        IF t = k.text /\ kept = 1
                        THEN KeyUnits(Open, t) \cup {<<m, res[m].keyed + 1>>}
                        ELSE KeyUnits(Open, t)
    OBVIOUS
  <2>1. \A x \in Open : \A i \in 1 .. MaxRecipients :
          (res'[x].key.text = t /\ i <= res'[x].keyed) <=>
            \/ res[x].key.text = t /\ i <= res[x].keyed
            \/ t = k.text /\ kept = 1 /\ x = m /\ i = res[m].keyed + 1
    <3> SUFFICES ASSUME NEW x \in Open, NEW i \in 1 .. MaxRecipients
                 PROVE  (res'[x].key.text = t /\ i <= res'[x].keyed) <=>
                          \/ res[x].key.text = t /\ i <= res[x].keyed
                          \/ t = k.text /\ kept = 1 /\ x = m /\ i = res[m].keyed + 1
      OBVIOUS
    <3>1. CASE x # m
      BY <1>6, <3>1 DEF Open
    <3>2. CASE x = m
      <4>1. res[m].keyed \in Nat /\ i \in Nat
        BY <1>1, ConstantsAssumption DEF Reservations
      <4> QED BY <1>5, <1>6, <3>2, <4>1
    <3> QED BY <3>1, <3>2
  <2>2. <<m, res[m].keyed + 1>> \in Open \X (1 .. MaxRecipients)
    BY <1>1, <1>3, ConstantsAssumption DEF Reservations
  <2> QED BY <1>7, <2>1, <2>2 DEF KeyUnits
<1>9. LocalUnits(Open)' =
        IF cap = 1 THEN LocalUnits(Open) \cup {<<m, res[m].local + 1>>}
        ELSE LocalUnits(Open)
  <2>1. \A x \in Open : \A i \in 1 .. MaxRecipients :
          i <= res'[x].local <=>
            \/ i <= res[x].local
            \/ cap = 1 /\ x = m /\ i = res[m].local + 1
    <3> SUFFICES ASSUME NEW x \in Open, NEW i \in 1 .. MaxRecipients
                 PROVE  i <= res'[x].local <=>
                          \/ i <= res[x].local
                          \/ cap = 1 /\ x = m /\ i = res[m].local + 1
      OBVIOUS
    <3>1. CASE x # m
      BY <1>6, <3>1 DEF Open
    <3>2. CASE x = m
      <4>1. res[m].local \in Nat /\ i \in Nat
        BY <1>1, ConstantsAssumption DEF Reservations
      <4> QED BY <1>5, <1>6, <3>2, <4>1
    <3> QED BY <3>1, <3>2
  <2>2. <<m, res[m].local + 1>> \in Open \X (1 .. MaxRecipients)
    BY <1>1, <1>3, ConstantsAssumption DEF Reservations
  <2> QED BY <1>7, <2>1, <2>2 DEF LocalUnits
<1>10. TypeOK'
  <2>1. lastSweep' \in Int
    BY <1>3 DEF IInv, TypeOK
  <2>2. res' \in [DOMAIN res' -> Reservations]
    BY <1>6 DEF IInv, TypeOK
  <2>3. DOMAIN committed' \subseteq {x \in DOMAIN res' : res'[x].closed}
    BY <1>3, <1>6 DEF IInv, TypeOK
  <2> QED BY <1>2, <1>3, <1>6, <2>1, <2>2, <2>3 DEF IInv, TypeOK, IsStore
<1>11. ReservationsAccounted'
  <2>1. Open \in SUBSET Messages
    BY DEF Open, IInv, TypeOK
  <2>2. ASSUME NEW t \in Texts
        PROVE  Cardinality(KeyUnits(Open, t))' = HeldIn(keys, t)'
    <3>1. /\ IsFiniteSet(KeyUnits(Open, t))
          /\ Cardinality(KeyUnits(Open, t)) = HeldIn(keys, t)
          /\ HeldIn(keys, t) \in Nat
      BY <2>1, UnitsOfMessages, IInvParts DEF IInv
    <3>2. HeldIn(keys, t)' = HeldIn(keys, t) + (IF t = k.text THEN kept ELSE 0)
      BY <1>2, <3>1 DEF kept
    <3>3. CASE t = k.text /\ kept = 1
      <4>1. <<m, res[m].keyed + 1>> \notin KeyUnits(Open, t)
        BY <1>1 DEF KeyUnits, Reservations
      <4> QED BY <1>8, <3>1, <3>2, <3>3, <4>1, FS_AddElement
    <3>4. CASE ~(t = k.text /\ kept = 1)
      BY <1>5, <1>8, <3>1, <3>2, <3>4
    <3> QED BY <3>3, <3>4
  <2>3. local'.reserved = Cardinality(LocalUnits(Open))'
    <3>1. /\ IsFiniteSet(LocalUnits(Open))
          /\ Cardinality(LocalUnits(Open)) = local.reserved
          /\ local.reserved \in Nat
      BY <2>1, UnitsOfMessages, IInvParts DEF IInv
    <3>2. CASE cap = 1
      <4>1. <<m, res[m].local + 1>> \notin LocalUnits(Open)
        BY <1>1 DEF LocalUnits, Reservations
      <4> QED BY <1>2, <1>9, <3>1, <3>2, <4>1, FS_AddElement
    <3>3. CASE cap # 1
      BY <1>2, <1>5, <1>9, <3>1, <3>3
    <3> QED BY <3>2, <3>3
  <2> QED BY <2>2, <2>3 DEF ReservationsAccounted, HeldIn
<1>12. WithinLimits'
  BY <1>2 DEF WithinLimits
<1> QED BY <1>10, <1>11, <1>12 DEF IInv

(* Closing a reservation takes exactly its places off the open ones.       *)
LEMMA ClosingUnits ==
  ASSUME IInv, NEW m \in Messages, Closing(m)
  PROVE  /\ m \in Open /\ res[m] \in Reservations
         /\ DOMAIN res' = DOMAIN res
         /\ res' \in [DOMAIN res' -> Reservations]
         /\ \A x \in DOMAIN res : res[x].closed => res'[x].closed
         /\ res'[m].closed
         /\ \A t \in Texts :
              Cardinality(KeyUnits(Open, t))' =
                HeldIn(keys, t) - (IF t = res[m].key.text THEN res[m].keyed ELSE 0)
         /\ Cardinality(LocalUnits(Open))' = local.reserved - res[m].local
<1> DEFINE text == res[m].key.text
           Row(n) == {m} \X (1 .. n)
<1>1. /\ m \in Open /\ m \in DOMAIN res /\ res[m] \in Reservations
      /\ res \in [DOMAIN res -> Reservations]
      /\ Open \in SUBSET Messages
  BY DEF Closing, Open, IInv, TypeOK
<1>2. /\ res[m].keyed \in Nat /\ res[m].local \in Nat
      /\ res[m].keyed <= MaxRecipients /\ res[m].local <= MaxRecipients
      /\ MaxRecipients \in Nat
  BY <1>1, ConstantsAssumption DEF Reservations
<1>3. /\ DOMAIN res' = DOMAIN res
      /\ res' \in [DOMAIN res' -> Reservations]
      /\ res'[m].closed
      /\ \A x \in DOMAIN res \ {m} : res'[x] = res[x]
  BY <1>1 DEF Closing, Reservations
<1>4. Open' = Open \ {m}
  BY <1>1, <1>3 DEF Open
<1>5. \A n \in Nat : IsFiniteSet(Row(n)) /\ Cardinality(Row(n)) = n
  BY FirstN, RowCount
<1>6. ASSUME NEW t \in Texts
      PROVE  Cardinality(KeyUnits(Open, t))' =
               HeldIn(keys, t) - (IF t = text THEN res[m].keyed ELSE 0)
  <2> DEFINE mine == IF t = text THEN Row(res[m].keyed) ELSE {}
  <2>1. KeyUnits(Open, t)' = KeyUnits(Open, t) \ mine
    <3>1. \A x \in Open \ {m} : res'[x] = res[x]
      BY <1>1, <1>3 DEF Open
    <3> QED BY <1>2, <1>4, <3>1 DEF KeyUnits
  <2>2. KeyUnits(Open, t) \cap mine = mine
    BY <1>1, <1>2 DEF KeyUnits
  <2>3. Cardinality(mine) = (IF t = text THEN res[m].keyed ELSE 0)
    BY <1>2, <1>5, FS_EmptySet
  <2>4. IsFiniteSet(KeyUnits(Open, t)) /\ Cardinality(KeyUnits(Open, t)) = HeldIn(keys, t)
    BY <1>1, UnitsOfMessages, IInvParts DEF IInv
  <2> HIDE DEF mine
  <2>5. Cardinality(KeyUnits(Open, t) \ mine) = HeldIn(keys, t) - Cardinality(mine)
    BY <2>2, <2>4, FS_Difference
  <2> QED BY <2>1, <2>3, <2>5
<1>7. Cardinality(LocalUnits(Open))' = local.reserved - res[m].local
  <2> DEFINE mine == Row(res[m].local)
  <2>1. LocalUnits(Open)' = LocalUnits(Open) \ mine
    <3>1. \A x \in Open \ {m} : res'[x] = res[x]
      BY <1>1, <1>3 DEF Open
    <3> QED BY <1>2, <1>4, <3>1 DEF LocalUnits
  <2>2. LocalUnits(Open) \cap mine = mine
    BY <1>1, <1>2 DEF LocalUnits
  <2>3. Cardinality(mine) = res[m].local
    BY <1>2, <1>5
  <2>4. IsFiniteSet(LocalUnits(Open)) /\ Cardinality(LocalUnits(Open)) = local.reserved
    BY <1>1, UnitsOfMessages, IInvParts DEF IInv
  <2> HIDE DEF mine
  <2> QED BY <2>1, <2>2, <2>3, <2>4, FS_Difference
<1> QED BY <1>1, <1>3, <1>6, <1>7

(* A window whose reservations for m are settled or dropped keeps the      *)
(* invariant: the reservations fall with the open places, the sum of       *)
(* counts and reservations does not rise.                                  *)
LEMMA ClosingStep ==
  ASSUME IInv, NEW m \in Messages, Closing(m),
         NEW V,
         HoldsKey(m) =>
           /\ IsWindow(V)
           /\ V.reserved = keys[res[m].key.text].reserved - res[m].keyed
           /\ \A s \in Spans :
                Total(V.count[s]) + V.reserved <=
                  Total(keys[res[m].key.text].count[s]) + keys[res[m].key.text].reserved,
         keys' = (IF HoldsKey(m) THEN [keys EXCEPT ![res[m].key.text] = V] ELSE keys),
         IsWindow(local'),
         local'.reserved = local.reserved - res[m].local,
         \A s \in Spans :
           Total(local'.count[s]) + local'.reserved <= Total(local.count[s]) + local.reserved,
         DOMAIN committed' \subseteq DOMAIN committed \cup {m},
         committed' \in [DOMAIN committed' -> 0 .. clock],
         UNCHANGED <<lastSweep, clock>>
  PROVE  IInv'
<1> DEFINE text == res[m].key.text
           n    == res[m].keyed
<1>1. /\ m \in Open /\ res[m] \in Reservations /\ text \in Texts /\ n \in Nat
  <2>1. m \in Open /\ res[m] \in Reservations
    BY ClosingUnits
  <2> QED BY <2>1, ConstantsAssumption DEF Reservations, Texts
<1>2. IsStore(keys) /\ IsWindow(local)
  BY IInvParts DEF IInv, TypeOK
<1>3. \A t \in DOMAIN keys : IsWindow(keys[t]) /\ keys[t].reserved \in Nat /\ t \in Texts
  BY <1>2 DEF IsStore, IsWindow
<1>4. ~HoldsKey(m) => n = 0
  <2>1. n <= HeldIn(keys, text)
    BY <1>1, PlacesReserved DEF IInv
  <2> QED BY <1>1, <1>2, <2>1 DEF HoldsKey, HeldIn
<1>5. /\ IsStore(keys')
      /\ DOMAIN keys' = DOMAIN keys
      /\ \A t \in Texts :
           HeldIn(keys', t) = HeldIn(keys, t) - (IF t = text THEN n ELSE 0)
      /\ \A t \in DOMAIN keys : \A s \in Spans :
           Total(keys'[t].count[s]) + keys'[t].reserved <=
             Total(keys[t].count[s]) + keys[t].reserved
  <2>1. CASE HoldsKey(m)
    <3>1. /\ text \in DOMAIN keys
          /\ DOMAIN keys' = DOMAIN keys
          /\ keys' = [t \in DOMAIN keys' |-> keys'[t]]
          /\ keys'[text] = V
          /\ \A t \in DOMAIN keys : t # text => keys'[t] = keys[t]
      BY <1>2, <2>1 DEF IsStore, HoldsKey
    <3>2. IsStore(keys')
      BY <1>2, <2>1, <3>1 DEF IsStore
    <3>3. \A t \in Texts :
            HeldIn(keys', t) = HeldIn(keys, t) - (IF t = text THEN n ELSE 0)
      BY <1>3, <2>1, <3>1 DEF HeldIn
    <3>4. ASSUME NEW t \in DOMAIN keys, NEW s \in Spans
          PROVE  Total(keys'[t].count[s]) + keys'[t].reserved <=
                   Total(keys[t].count[s]) + keys[t].reserved
      <4>1. Total(keys[t].count[s]) + keys[t].reserved \in Nat
        BY <1>3, WindowTotals
      <4>2. CASE t = text
        BY <2>1, <3>1, <4>2
      <4>3. CASE t # text
        BY <3>1, <4>1, <4>3
      <4> QED BY <4>2, <4>3
    <3> HIDE DEF text, n
    <3> QED BY <3>1, <3>2, <3>3, <3>4
  <2>2. CASE ~HoldsKey(m)
    <3>1. n = 0 /\ keys' = keys
      BY <1>4, <2>2
    <3>2. ASSUME NEW t \in Texts
          PROVE  HeldIn(keys', t) = HeldIn(keys, t) - (IF t = text THEN n ELSE 0)
      <4>1. HeldIn(keys, t) \in Nat /\ HeldIn(keys', t) = HeldIn(keys, t)
        BY <3>1, IInvParts
      <4> HIDE DEF text, n
      <4> QED BY <3>1, <4>1
    <3>3. ASSUME NEW t \in DOMAIN keys, NEW s \in Spans
          PROVE  Total(keys'[t].count[s]) + keys'[t].reserved <=
                   Total(keys[t].count[s]) + keys[t].reserved
      <4>1. Total(keys[t].count[s]) + keys[t].reserved \in Nat
        BY <1>3, WindowTotals
      <4> QED BY <3>1, <4>1
    <3> HIDE DEF text, n
    <3> QED BY <1>2, <3>1, <3>2, <3>3
  <2> QED BY <2>1, <2>2
<1>6. TypeOK'
  <2>1. DOMAIN committed' \subseteq {x \in DOMAIN res' : res'[x].closed}
    BY ClosingUnits DEF IInv, TypeOK, Closing
  <2>2. res' \in [DOMAIN res' -> Reservations] /\ DOMAIN res' \subseteq Messages
    BY ClosingUnits DEF IInv, TypeOK
  <2> QED BY <1>5, <2>1, <2>2 DEF IInv, TypeOK, IsStore
<1>7. ReservationsAccounted'
  <2>1. \A t \in Texts : Cardinality(KeyUnits(Open, t))' =
                            HeldIn(keys, t) - (IF t = text THEN n ELSE 0)
    BY ClosingUnits
  <2>3. ASSUME NEW t \in Texts
        PROVE  Cardinality(KeyUnits(Open, t))' = HeldIn(keys', t)
    <3> HIDE DEF text, n
    <3> QED BY <1>5, <2>1
  <2>2. local'.reserved = Cardinality(LocalUnits(Open))'
    BY ClosingUnits
  <2> QED BY <2>2, <2>3 DEF ReservationsAccounted, HeldIn
<1>8. WithinLimits'
  <2>1. ASSUME ~Observe, NEW t \in DOMAIN keys, NEW s \in Spans
        PROVE  Allows(t, s, Total(keys'[t].count[s]) + keys'[t].reserved)
    <3>1. /\ Total(keys[t].count[s]) + keys[t].reserved \in Nat
          /\ Total(keys'[t].count[s]) + keys'[t].reserved \in Nat
      <4>1. IsWindow(keys'[t]) /\ keys'[t].reserved \in Nat
        BY <1>5 DEF IsStore, IsWindow
      <4> QED BY <1>3, <4>1, WindowTotals
    <3>2. Allows(t, s, Total(keys[t].count[s]) + keys[t].reserved)
      BY <2>1 DEF IInv, WithinLimits
    <3> QED BY <1>5, <3>1, <3>2, AllowsFewer
  <2>2. ASSUME ~Observe, NEW s \in Spans
        PROVE  Total(local'.count[s]) + local'.reserved <= LocalLimit[s]
    <3>1. /\ Total(local.count[s]) + local.reserved \in Nat
          /\ Total(local'.count[s]) + local'.reserved \in Nat
          /\ LocalLimit[s] \in Nat
      BY <1>2, WindowTotals, ConstantsAssumption DEF IsWindow
    <3>2. Total(local.count[s]) + local.reserved <= LocalLimit[s]
      BY <2>2 DEF IInv, WithinLimits
    <3> QED BY <3>1, <3>2
  <2> QED BY <1>5, <2>1, <2>2 DEF WithinLimits
<1> QED BY <1>6, <1>7, <1>8 DEF IInv

(* What a closing message holds is there to be settled or dropped.         *)
LEMMA ClosingHolds ==
  ASSUME IInv, NEW m \in Messages, Closing(m)
  PROVE  /\ res[m].keyed \in Nat /\ res[m].local \in Nat
         /\ IsWindow(local) /\ local.reserved \in Nat /\ res[m].local <= local.reserved
         /\ HoldsKey(m) =>
              /\ res[m].keyed > 0
              /\ IsWindow(keys[res[m].key.text])
              /\ keys[res[m].key.text].reserved \in Nat
              /\ res[m].keyed <= keys[res[m].key.text].reserved
<1>1. m \in Open /\ res[m] \in Reservations
  BY ClosingUnits
<1>2. res[m].keyed \in Nat /\ res[m].local \in Nat
  BY <1>1, ConstantsAssumption DEF Reservations
<1>3. res[m].keyed <= HeldIn(keys, res[m].key.text) /\ res[m].local <= local.reserved
  BY <1>1, PlacesReserved DEF IInv
<1>4. IsStore(keys) /\ IsWindow(local)
  BY IInvParts DEF IInv, TypeOK
<1> QED BY <1>2, <1>3, <1>4 DEF IsStore, IsWindow, HoldsKey, HeldIn

LEMMA ReleaseStep ==
  ASSUME IInv, NEW m \in Messages, Release(m)
  PROVE  IInv'
<1> DEFINE w == keys[res[m].key.text]
           n == res[m].keyed
           V == AddReserved(w, -n)
<1>1. /\ Closing(m) /\ UNCHANGED <<lastSweep, committed, clock>>
      /\ keys' = IF HoldsKey(m) THEN [keys EXCEPT ![res[m].key.text] = V] ELSE keys
      /\ local' = AddReserved(local, -res[m].local)
  BY DEF Release
<1>2. HoldsKey(m) =>
        /\ IsWindow(V) /\ V.reserved = w.reserved - n
        /\ \A s \in Spans :
             Total(V.count[s]) + V.reserved <= Total(w.count[s]) + w.reserved
  <2> SUFFICES ASSUME HoldsKey(m)
               PROVE  /\ IsWindow(V) /\ V.reserved = w.reserved - n
                      /\ \A s \in Spans :
                           Total(V.count[s]) + V.reserved <= Total(w.count[s]) + w.reserved
    OBVIOUS
  <2>1. /\ IsWindow(w) /\ n \in Nat /\ w.reserved \in Nat /\ n <= w.reserved
        /\ -n \in Int /\ w.reserved + (-n) \in Nat
    BY <1>1, ClosingHolds
  <2>2. \A s \in Spans : Total(w.count[s]) \in Nat
    BY <2>1, WindowTotals
  <2> HIDE DEF w, n
  <2>3. IsWindow(V) /\ V.reserved = w.reserved + (-n) /\ V.count = w.count
    BY <2>1, AddReservedWindow
  <2> HIDE DEF V
  <2> QED BY <2>1, <2>2, <2>3
<1>3. /\ IsWindow(local') /\ local'.reserved = local.reserved - res[m].local
      /\ \A s \in Spans :
           Total(local'.count[s]) + local'.reserved <= Total(local.count[s]) + local.reserved
  <2>1. /\ IsWindow(local) /\ res[m].local \in Nat /\ local.reserved \in Nat
        /\ -res[m].local \in Int /\ local.reserved + (-res[m].local) \in Nat
    BY <1>1, ClosingHolds
  <2>2. \A s \in Spans : Total(local.count[s]) \in Nat
    BY <2>1, WindowTotals
  <2>3. /\ IsWindow(local') /\ local'.reserved = local.reserved + (-res[m].local)
        /\ local'.count = local.count
    BY <1>1, <2>1, AddReservedWindow
  <2> QED BY <2>1, <2>2, <2>3
<1>4. committed' \in [DOMAIN committed' -> 0 .. clock]
  BY <1>1 DEF IInv, TypeOK
<1> HIDE DEF V
<1> QED BY <1>1, <1>2, <1>3, <1>4, ClosingStep

LEMMA CommitStep ==
  ASSUME IInv, NEW m \in Messages, NEW now \in 0 .. clock, Commit(m, now)
  PROVE  IInv'
<1> DEFINE w == keys[res[m].key.text]
           n == res[m].keyed
           V == Settle(w, now, n)
<1>1. /\ Closing(m) /\ UNCHANGED <<lastSweep, clock>>
      /\ keys' = IF HoldsKey(m) THEN [keys EXCEPT ![res[m].key.text] = V] ELSE keys
      /\ local' = IF res[m].local > 0 THEN Settle(local, now, res[m].local) ELSE local
      /\ committed' = [x \in DOMAIN committed \cup {m} |->
                         IF x = m THEN now ELSE committed[x]]
  BY DEF Commit
<1>2. now \in Nat /\ clock \in Nat
  BY DEF IInv, TypeOK
<1>3. HoldsKey(m) =>
        /\ IsWindow(V) /\ V.reserved = w.reserved - n
        /\ \A s \in Spans :
             Total(V.count[s]) + V.reserved <= Total(w.count[s]) + w.reserved
  <2> SUFFICES ASSUME HoldsKey(m)
               PROVE  /\ IsWindow(V) /\ V.reserved = w.reserved - n
                      /\ \A s \in Spans :
                           Total(V.count[s]) + V.reserved <= Total(w.count[s]) + w.reserved
    OBVIOUS
  <2>1. IsWindow(w) /\ n \in Nat \ {0} /\ w.reserved \in Nat /\ n <= w.reserved
    BY <1>1, ClosingHolds
  <2>2. \A s \in Spans : Total(w.count[s]) \in Nat
    BY <2>1, WindowTotals
  <2> HIDE DEF w, n
  <2>3. /\ IsWindow(V) /\ V.reserved = w.reserved - n
        /\ \A s \in Spans : Total(V.count[s]) = Total(w.count[s]) + n
    BY <1>2, <2>1, SettleWindow
  <2> HIDE DEF V
  <2> QED BY <2>1, <2>2, <2>3
<1>4. /\ IsWindow(local') /\ local'.reserved = local.reserved - res[m].local
      /\ \A s \in Spans :
           Total(local'.count[s]) + local'.reserved <= Total(local.count[s]) + local.reserved
  <2>1. /\ IsWindow(local) /\ res[m].local \in Nat /\ local.reserved \in Nat
        /\ res[m].local <= local.reserved
    BY <1>1, ClosingHolds
  <2>2. \A s \in Spans : Total(local.count[s]) \in Nat
    BY <2>1, WindowTotals
  <2>3. CASE res[m].local > 0
    <3>1. /\ IsWindow(local') /\ local'.reserved = local.reserved - res[m].local
          /\ \A s \in Spans :
               Total(local'.count[s]) = Total(local.count[s]) + res[m].local
      BY <1>1, <1>2, <2>1, <2>3, SettleWindow
    <3> QED BY <2>1, <2>2, <3>1
  <2>4. CASE ~(res[m].local > 0)
    BY <1>1, <2>1, <2>2, <2>4
  <2> QED BY <2>3, <2>4
<1>5. /\ DOMAIN committed' \subseteq DOMAIN committed \cup {m}
      /\ committed' \in [DOMAIN committed' -> 0 .. clock]
  BY <1>1 DEF IInv, TypeOK
<1> HIDE DEF V
<1> QED BY <1>1, <1>3, <1>4, <1>5, ClosingStep

LEMMA TickStep == IInv /\ Tick => IInv'
<1> SUFFICES ASSUME IInv, Tick PROVE IInv'
  OBVIOUS
<1>1. /\ UNCHANGED <<keys, local, lastSweep, res, committed>>
      /\ clock' = clock + 1 /\ clock \in Nat
  BY DEF Tick, IInv, TypeOK
<1>2. TypeOK'
  BY <1>1 DEF IInv, TypeOK
<1>3. ReservationsAccounted' /\ WithinLimits'
  BY <1>1 DEF IInv, ReservationsAccounted, WithinLimits, KeyUnits, LocalUnits, Open
<1> QED BY <1>2, <1>3 DEF IInv
-----------------------------------------------------------------------------
LEMMA InitIInv == Init => IInv
<1> SUFFICES ASSUME Init PROVE IInv
  OBVIOUS
<1>1. /\ DOMAIN keys = {} /\ local = EmptyWindow /\ DOMAIN res = {}
      /\ DOMAIN committed = {} /\ clock = 0 /\ lastSweep = -SweepInterval
  BY DEF Init, Never
<1>2. Capacity \in Nat /\ SweepInterval \in Nat
  BY ConstantsAssumption
<1>3. TypeOK
  BY <1>1, <1>2, EmptyIsWindow, FS_EmptySet DEF TypeOK, Init
<1>4. /\ \A t \in Texts : KeyUnits(Open, t) = {}
      /\ LocalUnits(Open) = {}
  BY <1>1 DEF KeyUnits, LocalUnits, Open
<1>5. ReservationsAccounted
  BY <1>1, <1>4, EmptyIsWindow, FS_EmptySet DEF ReservationsAccounted
<1>6. WithinLimits
  BY <1>1, EmptyIsWindow, ConstantsAssumption DEF WithinLimits
<1> QED BY <1>3, <1>5, <1>6 DEF IInv

LEMMA NextIInv == IInv /\ [Next]_vars => IInv'
<1> SUFFICES ASSUME IInv, [Next]_vars PROVE IInv'
  OBVIOUS
<1>1. CASE Tick
  BY <1>1, TickStep
<1>2. ASSUME NEW m \in Messages, NEW k \in LimitKeys, Begin(m, k)
      PROVE  IInv'
  BY <1>2, BeginStep
<1>3. ASSUME NEW m \in Messages, NEW now \in Times, Reserve(m, now)
      PROVE  IInv'
  BY <1>3, ReserveStep DEF Times
<1>4. ASSUME NEW m \in Messages, NEW now \in Times, Commit(m, now)
      PROVE  IInv'
  BY <1>4, CommitStep DEF Times
<1>5. ASSUME NEW m \in Messages, Release(m)
      PROVE  IInv'
  BY <1>5, ReleaseStep
<1>6. CASE UNCHANGED vars
  BY <1>6 DEF vars, IInv, TypeOK, ReservationsAccounted, WithinLimits, KeyUnits,
              LocalUnits, Open
<1> QED BY <1>1, <1>2, <1>3, <1>4, <1>5, <1>6 DEF Next

LEMMA Invariance == Spec => []IInv
BY InitIInv, NextIInv, PTL DEF Spec

(* The store always has the shape TypeOK describes: whatever the limits,   *)
(* the capacity, the spans, the bucket sizes and the lag of the clock, it  *)
(* never grows beyond its capacity and never reserves a negative number    *)
(* (QuotaStore and _Window, quota.py).                                     *)
THEOREM TypeCorrect == Spec => []TypeOK
BY Invariance, PTL DEF IInv

(* Every window reserves exactly what the open messages hold on it, for    *)
(* any number of messages, keys and sweeps (reserve, commit, release).     *)
THEOREM ReservationsNeverLeak == Spec => []ReservationsAccounted
BY Invariance, PTL DEF IInv

(* In enforce mode no window ever counts and reserves more than a limit of *)
(* its key, nor the local window more than the local cap (reserve).        *)
THEOREM LimitsNeverExceeded == Spec => []WithinLimits
BY Invariance, PTL DEF IInv
=============================================================================
