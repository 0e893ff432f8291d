------------------------------ MODULE QuotaStore ------------------------------
(***************************************************************************)
(* The sending-limit store of quota.py: one rolling window per limit key,  *)
(* the window of the local cap, and the reservations of the messages in    *)
(* flight.  Every method runs under one lock and is one action here; the   *)
(* caller reads the clock BEFORE it takes the lock, so an action works     *)
(* with a `now' that may lag the clock by up to MaxLag.                    *)
(*                                                                         *)
(* Left out: the `first' flag of a verdict and the times it is computed    *)
(* from (notified, _last_full_warning), which only choose log lines.       *)
(***************************************************************************)
EXTENDS Integers, FiniteSets

CONSTANTS
  LimitKeys,      \* the limit keys messages count against: [text, limit, local]
  LocalLimit,     \* the local cap, [hour |-> local_per_hour, day |-> local_per_day]
  Messages,       \* the transactions of all sessions; each has one reservation
  Capacity,       \* how many keys the store holds
  Observe,        \* TRUE iff the sending_limits section is not in enforce mode
  Span,           \* [hour |-> HOUR, day |-> DAY]
  Size,           \* [hour |-> HOUR_BUCKET, day |-> DAY_BUCKET]
  SweepInterval,  \* SWEEP_INTERVAL
  MaxRecipients,  \* bound: recipients of one message
  MaxClock,       \* bound: the last value of the clock
  MaxLag          \* bound: the age of a clock value when it is used

Spans == {"hour", "day"}
Texts == {k.text : k \in LimitKeys}

ASSUME ConstantsAssumption ==
  /\ \A k \in LimitKeys : k.limit \in [Spans -> Nat] /\ k.local \in BOOLEAN
  /\ LimitKeys # {}
  /\ LocalLimit \in [Spans -> Nat]
  /\ Observe \in BOOLEAN
  /\ Span \in [Spans -> Nat \ {0}]
  /\ Size \in [Spans -> Nat \ {0}]
  /\ SweepInterval \in Nat
  /\ IsFiniteSet(Messages)
  /\ IsFiniteSet(Texts)
  /\ {Capacity, MaxRecipients, MaxClock, MaxLag} \subseteq Nat

VARIABLES
  keys,       \* _keys: a function from the texts in the store to their windows
  local,      \* _local, the window of the local cap
  lastSweep,  \* _last_sweep
  res,        \* the Reservation objects: a function from the messages that began
  committed,  \* history: the `now' of each commit, by message
  clock       \* the wall clock

vars == <<keys, local, lastSweep, res, committed, clock>>
-----------------------------------------------------------------------------
(* Windows.  A dict from bucket start to count is a function; its sum is   *)
(* the number of counted recipients, so that sums are cardinalities.       *)

Units(counts) == UNION {{b} \X (1 .. counts[b]) : b \in DOMAIN counts}
Total(counts) == Cardinality(Units(counts))

NoCounts == [b \in {} |-> 0]
EmptyWindow == [count |-> [s \in Spans |-> NoCounts], reserved |-> 0]

\* The start of the bucket a time falls in.
Bucket(s, t) == (t \div Size[s]) * Size[s]

\* A bucket stays while some instant of it lies in the span that ends now.
Fresh(s, b, now) == b + Size[s] > now - Span[s]

\* Mutant of Expire: a bucket goes when it starts, not when it ends, outside the span.
ExpireEarly(w, now) ==
  [count |-> [s \in Spans |->
                [b \in {x \in DOMAIN w.count[s] : x > now - Span[s]} |-> w.count[s][b]]],
   reserved |-> w.reserved]

Expire(w, now) ==
  [count |-> [s \in Spans |->
                [b \in {x \in DOMAIN w.count[s] : Fresh(s, x, now)} |-> w.count[s][b]]],
   reserved |-> w.reserved]

AddCount(s, counts, now, n) ==
  [b \in DOMAIN counts \cup {Bucket(s, now)} |->
     (IF b \in DOMAIN counts THEN counts[b] ELSE 0)
       + (IF b = Bucket(s, now) THEN n ELSE 0)]

\* n more reservations, or fewer.
AddReserved(w, n) == [count |-> w.count, reserved |-> w.reserved + n]

\* Reserved recipients that become counted ones.
Settle(w, now, n) ==
  [count |-> [s \in Spans |-> AddCount(s, w.count[s], now, n)],
   reserved |-> w.reserved - n]

\* Mutant of Idle: a window with reservations only is swept.
IdleCounts(w) == \A s \in Spans : DOMAIN w.count[s] = {}

Idle(w) == w.reserved = 0 /\ \A s \in Spans : DOMAIN w.count[s] = {}

\* Mutants of Over: one recipient too many; reservations forgotten.
OverByOne(w, s, limit) == Total(w.count[s]) + w.reserved > limit[s]
OverCounted(w, s, limit) == Total(w.count[s]) >= limit[s]

\* The count of an expired window against a limit.
Over(w, s, limit) == Total(w.count[s]) + w.reserved >= limit[s]
-----------------------------------------------------------------------------
(* Finding the window of a key, making one if the store has room.          *)

\* Mutant of Full: one key too many.
FullLate(store) == Cardinality(DOMAIN store) > Capacity

Full(store) == Cardinality(DOMAIN store) >= Capacity

Sweeps(text, now) ==
  text \notin DOMAIN keys /\ Full(keys) /\ now - lastSweep >= SweepInterval

Swept(now) ==
  [t \in {x \in DOMAIN keys : ~Idle(Expire(keys[x], now))} |-> Expire(keys[t], now)]

\* The store after _window(text, now).
StoreFor(text, now) ==
  LET store == IF Sweeps(text, now) THEN Swept(now) ELSE keys
  IN  IF text \in DOMAIN store \/ Full(store)
      THEN store
      ELSE [t \in DOMAIN store \cup {text} |->
              IF t = text THEN EmptyWindow ELSE store[t]]

\* Why a window refuses one more recipient; "none" when it does not.
Refusal(w, limit, hour, day) ==
  IF Over(w, "hour", limit) THEN hour
  ELSE IF Over(w, "day", limit) THEN day
  ELSE "none"

\* What the key says and, when that does not settle it, what the local cap says.
KeyVerdict(k, store, now) ==
  IF k.text \in DOMAIN store
  THEN Refusal(Expire(store[k.text], now), k.limit, "per_hour", "per_day")
  ELSE "key_store_full"

LocalVerdict(now) ==
  Refusal(Expire(local, now), LocalLimit, "local_per_hour", "local_per_day")

\* The local cap is asked unless the key refused, and a recipient is reserved
\* unless an enforced limit refuses it.
AsksLocal(k, store, now) ==
  k.local /\ (Observe \/ KeyVerdict(k, store, now) = "none")

\* Mutant of Granted: the local cap is counted and not enforced.
GrantedByKey(k, store, now) == Observe \/ KeyVerdict(k, store, now) = "none"

Granted(k, store, now) ==
  \/ Observe
  \/ /\ KeyVerdict(k, store, now) = "none"
     /\ k.local => LocalVerdict(now) = "none"

\* The times a caller may have read before it got the lock.
Times == {t \in 0 .. clock : t + MaxLag >= clock}
-----------------------------------------------------------------------------
Never == -SweepInterval

Init ==
  /\ keys = [t \in {} |-> EmptyWindow]
  /\ local = EmptyWindow
  /\ lastSweep = Never
  /\ res = [m \in {} |-> 0]
  /\ committed = [m \in {} |-> 0]
  /\ clock = 0

Tick ==
  /\ clock < MaxClock
  /\ clock' = clock + 1
  /\ UNCHANGED <<keys, local, lastSweep, res, committed>>

\* begin: MAIL starts a message that is limited.
Begin(m, k) ==
  /\ m \notin DOMAIN res
  /\ res' = [x \in DOMAIN res \cup {m} |->
               IF x = m THEN [key |-> k, keyed |-> 0, local |-> 0, closed |-> FALSE]
               ELSE res[x]]
  /\ UNCHANGED <<keys, local, lastSweep, committed, clock>>

\* reserve: one recipient, on the key and on the local cap, both or neither.
Reserve(m, now) ==
  /\ m \in DOMAIN res /\ ~res[m].closed
  /\ res[m].keyed < MaxRecipients /\ res[m].local < MaxRecipients
  /\ LET k     == res[m].key
         store == StoreFor(k.text, now)
         found == k.text \in DOMAIN store
         take  == IF Granted(k, store, now) THEN 1 ELSE 0
     IN  /\ keys' = IF found
                    THEN [store EXCEPT ![k.text] = AddReserved(Expire(@, now), take)]
                    ELSE store
         /\ local' = IF AsksLocal(k, store, now)
                     THEN AddReserved(Expire(local, now), take)
                     ELSE local
         /\ lastSweep' = IF Sweeps(k.text, now) THEN now ELSE lastSweep
         /\ res' = [res EXCEPT ![m] =
                      [key    |-> k,
                       keyed  |-> @.keyed + (IF found THEN take ELSE 0),
                       local  |-> @.local + (IF k.local THEN take ELSE 0),
                       closed |-> FALSE]]
  /\ UNCHANGED <<committed, clock>>

\* Mutant of Closing: a reservation can be settled twice.
ClosingAgain(m) ==
  /\ m \in DOMAIN res
  /\ res' = [res EXCEPT ![m].closed = TRUE]

\* A closed reservation returns early from commit and release: nothing happens.
Closing(m) ==
  /\ m \in DOMAIN res /\ ~res[m].closed
  /\ res' = [res EXCEPT ![m].closed = TRUE]

HoldsKey(m) == res[m].keyed > 0 /\ res[m].key.text \in DOMAIN keys

\* Mutant of Commit: what a full store left unmeasured is not counted locally.
CommitMeasured(m, now) ==
  /\ Closing(m)
  /\ keys' = IF HoldsKey(m)
             THEN [keys EXCEPT ![res[m].key.text] = Settle(@, now, res[m].keyed)]
             ELSE keys
  /\ local' = IF HoldsKey(m) THEN Settle(local, now, res[m].local)
              ELSE AddReserved(local, -res[m].local)
  /\ committed' = [x \in DOMAIN committed \cup {m} |->
                     IF x = m THEN now ELSE committed[x]]
  /\ UNCHANGED <<lastSweep, clock>>

Commit(m, now) ==
  /\ Closing(m)
  /\ keys' = IF HoldsKey(m)
             THEN [keys EXCEPT ![res[m].key.text] = Settle(@, now, res[m].keyed)]
             ELSE keys
  /\ local' = IF res[m].local > 0 THEN Settle(local, now, res[m].local) ELSE local
  /\ committed' = [x \in DOMAIN committed \cup {m} |->
                     IF x = m THEN now ELSE committed[x]]
  /\ UNCHANGED <<lastSweep, clock>>

\* Mutant of Release: the local cap keeps what the message reserved.
ReleaseKey(m) ==
  /\ Closing(m)
  /\ keys' = IF HoldsKey(m)
             THEN [keys EXCEPT ![res[m].key.text] = AddReserved(@, -res[m].keyed)]
             ELSE keys
  /\ UNCHANGED <<local, lastSweep, committed, clock>>

Release(m) ==
  /\ Closing(m)
  /\ keys' = IF HoldsKey(m)
             THEN [keys EXCEPT ![res[m].key.text] = AddReserved(@, -res[m].keyed)]
             ELSE keys
  /\ local' = AddReserved(local, -res[m].local)
  /\ UNCHANGED <<lastSweep, committed, clock>>

Next ==
  \/ Tick
  \/ \E m \in Messages :
       \/ \E k \in LimitKeys : Begin(m, k)
       \/ \E now \in Times : Reserve(m, now) \/ Commit(m, now)
       \/ Release(m)

Spec == Init /\ [][Next]_vars
-----------------------------------------------------------------------------
(* What the store owes its callers, stated over the messages' history.     *)

Open == {m \in DOMAIN res : ~res[m].closed}

\* The recipients of the messages in M that count on a key, and on the local cap.
KeyUnits(M, text) ==
  {u \in M \X (1 .. MaxRecipients) :
     res[u[1]].key.text = text /\ u[2] <= res[u[1]].keyed}
LocalUnits(M) == {u \in M \X (1 .. MaxRecipients) : u[2] <= res[u[1]].local}

\* The messages delivered at a time that satisfies the test.
Delivered(Test(_)) == {m \in DOMAIN committed : Test(committed[m])}

\* The committed messages a span still has to count, by its buckets.
InBuckets(s) == Delivered(LAMBDA t : Fresh(s, Bucket(s, t), clock))

\* The messages delivered in the span that ends now, to the second.
Recent(s) == Delivered(LAMBDA t : t >= clock - Span[s])

IsCounts(s, counts) ==
  /\ IsFiniteSet(DOMAIN counts)
  /\ counts \in [DOMAIN counts -> Nat \ {0}]
  /\ \A b \in DOMAIN counts : b \in Nat /\ b % Size[s] = 0

IsWindow(w) ==
  /\ w = [count |-> w.count, reserved |-> w.reserved]
  /\ w.count = [s \in Spans |-> w.count[s]]
  /\ \A s \in Spans : IsCounts(s, w.count[s])
  /\ w.reserved \in Nat

Reservations ==
  [key : LimitKeys, keyed : 0 .. MaxRecipients, local : 0 .. MaxRecipients,
   closed : BOOLEAN]

(* The shape of the state: a store of at most Capacity windows of positive *)
(* bucket counts, never a negative reservation count (quota.py, QuotaStore *)
(* and _Window).                                                           *)
TypeOK ==
  /\ DOMAIN keys \subseteq Texts
  /\ keys = [t \in DOMAIN keys |-> keys[t]]
  /\ \A t \in DOMAIN keys : IsWindow(keys[t])
  /\ IsWindow(local)
  /\ lastSweep \in Int
  /\ DOMAIN res \subseteq Messages
  /\ res \in [DOMAIN res -> Reservations]
  /\ DOMAIN committed \subseteq {m \in DOMAIN res : res[m].closed}
  /\ committed \in [DOMAIN committed -> 0 .. clock]
  /\ clock \in Nat
  /\ Cardinality(DOMAIN keys) <= Capacity

(* A window reserves exactly what the open messages hold on it, whatever   *)
(* order messages reserve, commit, release and sweep in: no reservation    *)
(* leaks (the key would stay refused) and none is dropped with a window    *)
(* (the limit would be exceeded).                                          *)
ReservationsAccounted ==
  /\ \A t \in Texts :
       Cardinality(KeyUnits(Open, t)) = IF t \in DOMAIN keys THEN keys[t].reserved ELSE 0
  /\ local.reserved = Cardinality(LocalUnits(Open))

(* The rolling counts are exact up to the bucket: what the store counts at *)
(* any moment is what was delivered in the buckets of the span, although   *)
(* clock values are used late and idle windows are swept away.             *)
CountsExact ==
  \A s \in Spans :
    /\ \A t \in Texts :
         Cardinality(KeyUnits(InBuckets(s), t)) =
           IF t \in DOMAIN keys THEN Total(Expire(keys[t], clock).count[s]) ELSE 0
    /\ Total(Expire(local, clock).count[s]) = Cardinality(LocalUnits(InBuckets(s)))

\* Some limit key with this text allows n recipients in the span.
Allows(text, s, n) == n = 0 \/ \E k \in LimitKeys : k.text = text /\ n <= k.limit[s]

(* In enforce mode no window ever counts and reserves more than a limit of *)
(* its key, nor the local window more than the local cap, whichever        *)
(* sessions reserve, commit, expire and sweep in between (reserve).        *)
WithinLimits ==
  ~Observe =>
    \A s \in Spans :
      /\ \A t \in DOMAIN keys : Allows(t, s, Total(keys[t].count[s]) + keys[t].reserved)
      /\ Total(local.count[s]) + local.reserved <= LocalLimit[s]

(* The enforced store keeps the promise of SendingLimit: a reservation is  *)
(* a place, a commit delivers it, a release gives it back.                 *)
Promise ==
  INSTANCE SendingLimit WITH
    owner <- [m \in DOMAIN res |-> res[m].key],
    held  <- [m \in DOMAIN res |-> [keyed |-> res[m].keyed, local |-> res[m].local]],
    open  <- Open,
    done  <- committed

(* An enforced store implements the promise (quota.py, reserve, commit,    *)
(* release): it grants no recipient the rolling span has no room for.      *)
KeepsPromise == Promise!Spec
=============================================================================
