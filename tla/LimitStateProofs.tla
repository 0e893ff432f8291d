---------------------------- MODULE LimitStateProofs ----------------------------
(***************************************************************************)
(* Theorems about LimitState, for any keys, messages, limits, intervals    *)
(* and clock lag: what the store and the snapshot files look like across   *)
(* saves, failing saves, stops, crashes and starts, what an enforced limit *)
(* still bounds after them, and what a stop or a crash loses.              *)
(***************************************************************************)
EXTENDS LimitState, QuotaStoreProofs

\* The counts of a file, as a window without reservations.
AsWindow(count) == [count |-> count, reserved |-> 0]

\* The counts of a file pass no limit that is enforced.
FileWithin(file) ==
  ~Observe =>
    \A s \in Spans :
      /\ \A t \in DOMAIN file.keys : Allows(t, s, Total(file.keys[t][s]))
      /\ Total(file.local[s]) <= LocalLimit[s]

FileOk(file) ==
  /\ file.saved \in 0 .. clock /\ file.knows \subseteq DOMAIN committed
  /\ DOMAIN file.keys \subseteq Texts
  /\ \A t \in DOMAIN file.keys : IsWindow(AsWindow(file.keys[t]))
  /\ IsWindow(AsWindow(file.local))
  /\ FileWithin(file)

Files ==
  /\ writing = NoFile \/ FileOk(writing)
  /\ disk = NoFile \/ FileOk(disk)

SaverShape ==
  /\ phase \in {"up", "stopping", "final", "down"}
  /\ wakes \in Nat /\ failed \in BOOLEAN /\ known \subseteq DOMAIN committed
  /\ phase = "down" => known = {} /\ writing = NoFile /\ Open = {}

\* The last save of a stop writes all that is known.
LastSave ==
  phase = "final" =>
    /\ writing # NoFile => writing.knows = known
    /\ writing = NoFile /\ ~failed => disk.knows = known

\* What a save leaves out was delivered after it.
Unsaved ==
  /\ writing # NoFile =>
       \A m \in known \ writing.knows : committed[m] + MaxLag >= clock
  /\ phase = "up" =>
       /\ clock <= wakes /\ wakes <= clock + SaveInterval
       /\ ~failed => \A m \in known \ disk.knows :
                       committed[m] + MaxLag >= wakes - SaveInterval

SaverInv == IInv /\ Files /\ SaverShape /\ LastSave /\ Unsaved
-----------------------------------------------------------------------------
(* Windows without what starts in the future, or without reservations, are *)
(* windows, and count no more.                                             *)
LEMMA CountsAsWindow ==
  ASSUME NEW w, IsWindow(w)
  PROVE  IsWindow(AsWindow(w.count)) /\ AsWindow(w.count).count = w.count
BY DEF IsWindow, AsWindow

LEMMA RestoredWindow ==
  ASSUME NEW count, IsWindow(AsWindow(count)), NEW now \in Nat
  PROVE  /\ IsWindow(Restored(count, now)) /\ Restored(count, now).reserved = 0
         /\ \A s \in Spans : Total(Restored(count, now).count[s]) <= Total(count[s])
<1> DEFINE past(s) == {x \in DOMAIN count[s] : x <= now}
           w == AsWindow([s \in Spans |-> [b \in past(s) |-> count[s][b]]])
<1>1. Restored(count, now) = Expire(w, now)
  BY DEF Restored, AsWindow
<1>2. ASSUME NEW s \in Spans
      PROVE  IsCounts(s, w.count[s]) /\ Total(w.count[s]) <= Total(count[s])
  <2>1. IsCounts(s, count[s]) /\ w.count[s] = [b \in past(s) |-> count[s][b]]
    BY DEF IsWindow, AsWindow
  <2>2. past(s) \in SUBSET DOMAIN count[s] /\ IsFiniteSet(past(s))
    BY <2>1, FS_Subset DEF IsCounts
  <2>3. Total([b \in past(s) |-> count[s][b]]) <= Total(count[s])
    <3>1. IsFiniteSet(DOMAIN count[s]) /\ \A b \in DOMAIN count[s] : count[s][b] \in Nat
      BY <2>1 DEF IsCounts
    <3> QED  BY <2>2, <3>1, TotalShrinks
  <2>4. IsCounts(s, [b \in past(s) |-> count[s][b]])
    BY <2>1, <2>2 DEF IsCounts
  <2> QED  BY <2>1, <2>3, <2>4
<1>3. IsWindow(w) /\ w.reserved = 0
  BY <1>2 DEF IsWindow, AsWindow
<1> HIDE DEF w
<1>4. /\ IsWindow(Expire(w, now)) /\ Expire(w, now).reserved = 0
      /\ \A s \in Spans : Total(Expire(w, now).count[s]) <= Total(w.count[s])
  BY <1>3, ExpireWindow
<1>5. \A s \in Spans : Total(Expire(w, now).count[s]) <= Total(count[s])
  <2> SUFFICES ASSUME NEW s \in Spans
               PROVE  Total(Expire(w, now).count[s]) <= Total(count[s])
    OBVIOUS
  <2>1. /\ Total(Expire(w, now).count[s]) \in Nat /\ Total(w.count[s]) \in Nat
        /\ Total(AsWindow(count).count[s]) \in Nat
    BY <1>3, <1>4, WindowTotals
  <2>2. AsWindow(count).count[s] = count[s]
    BY DEF AsWindow
  <2> QED  BY <1>2, <1>4, <2>1, <2>2
<1> QED  BY <1>1, <1>4, <1>5
-----------------------------------------------------------------------------
(* export: what it writes is a file within the limits, and what it leaves  *)
(* in memory is the store, expired.                                        *)
LEMMA SnapshotStep ==
  ASSUME IInv, known \subseteq DOMAIN committed, NEW now \in Times, TakeSnapshot(now)
  PROVE  /\ IInv' /\ Open' = Open
         /\ FileOk(writing') /\ writing' # NoFile /\ writing'.knows = known
<1> DEFINE file == Snapshot(now)
           expired(t) == Expire(keys[t], now)
           here == Expire(local, now)
<1>1. /\ writing' = file /\ keys' = [t \in DOMAIN keys |-> expired(t)] /\ local' = here
      /\ UNCHANGED <<lastSweep, res, committed, clock>>
  BY DEF TakeSnapshot
<1>2. /\ DOMAIN keys \subseteq Texts /\ \A t \in DOMAIN keys : IsWindow(keys[t])
      /\ IsWindow(local) /\ now \in Nat /\ now <= clock /\ clock \in Nat
      /\ Cardinality(DOMAIN keys) <= Capacity
  BY DEF IInv, TypeOK, Times
<1>3. ASSUME NEW t \in DOMAIN keys
      PROVE  /\ IsWindow(expired(t)) /\ expired(t).reserved = keys[t].reserved
             /\ \A s \in Spans : Total(expired(t).count[s]) <= Total(keys[t].count[s])
  BY <1>2, ExpireWindow
<1>4. /\ IsWindow(here) /\ here.reserved = local.reserved
      /\ \A s \in Spans : Total(here.count[s]) <= Total(local.count[s])
  BY <1>2, ExpireWindow
<1>5. ASSUME ~Observe, NEW s \in Spans
      PROVE  /\ \A t \in DOMAIN keys :
                  /\ Allows(t, s, Total(expired(t).count[s]) + expired(t).reserved)
                  /\ Allows(t, s, Total(expired(t).count[s]))
             /\ Total(here.count[s]) + here.reserved <= LocalLimit[s]
             /\ Total(here.count[s]) <= LocalLimit[s]
  <2>1. /\ \A t \in DOMAIN keys : Allows(t, s, Total(keys[t].count[s]) + keys[t].reserved)
        /\ Total(local.count[s]) + local.reserved <= LocalLimit[s]
    BY <1>5 DEF IInv, WithinLimits
  <2>2. ASSUME NEW t \in DOMAIN keys
        PROVE  /\ Allows(t, s, Total(expired(t).count[s]) + expired(t).reserved)
               /\ Allows(t, s, Total(expired(t).count[s]))
    <3> DEFINE before == Total(keys[t].count[s])
               after  == Total(expired(t).count[s])
               held   == keys[t].reserved
    <3>1. before \in Nat /\ after \in Nat /\ after <= before
      BY <1>2, <1>3, WindowTotals
    <3>2. held \in Nat /\ expired(t).reserved = held
      BY <1>2, <1>3 DEF IsWindow
    <3>3. Allows(t, s, before + held)
      BY <2>1
    <3> HIDE DEF before, after, held
    <3>4. /\ before + held \in Nat /\ after + held \in Nat /\ after + held <= before + held
          /\ after <= before + held
      BY <3>1, <3>2
    <3>5. Allows(t, s, after + held) /\ Allows(t, s, after)
      BY <3>1, <3>3, <3>4, AllowsFewer
    <3> QED  BY <3>2, <3>5 DEF after
  <2>3. /\ Total(local.count[s]) \in Nat /\ Total(here.count[s]) \in Nat
        /\ local.reserved \in Nat /\ LocalLimit[s] \in Nat
    BY <1>2, <1>4, WindowTotals, ConstantsAssumption DEF IsWindow
  <2> QED  BY <1>4, <2>1, <2>2, <2>3
<1>6. IInv' /\ Open' = Open
  <2>1. TypeOK'
    <3>1. /\ DOMAIN keys' = DOMAIN keys
          /\ \A t \in DOMAIN keys : keys'[t] = expired(t)
      BY <1>1
    <3>2. keys' = [t \in DOMAIN keys' |-> keys'[t]]
      BY <1>1
    <3> HIDE DEF expired, here
    <3> QED  BY <1>1, <1>2, <1>3, <1>4, <3>1, <3>2 DEF IInv, TypeOK
  <2>2. ReservationsAccounted'
    BY <1>1, <1>3, <1>4 DEF IInv, ReservationsAccounted, KeyUnits, LocalUnits, Open
  <2>3. WithinLimits'
    BY <1>1, <1>5 DEF WithinLimits
  <2> QED  BY <1>1, <2>1, <2>2, <2>3 DEF IInv, Open
<1>7. /\ file.saved = now /\ file.knows = known /\ file.local = here.count
      /\ DOMAIN file.keys \subseteq DOMAIN keys
      /\ \A t \in DOMAIN file.keys : file.keys[t] = expired(t).count
      /\ "saved" \in DOMAIN file
  BY DEF Snapshot
<1>8. file # NoFile
  <2>1. "saved" \notin DOMAIN NoFile
    BY DEF NoFile
  <2> QED  BY <1>7, <2>1
<1> HIDE DEF file, expired, here
<1>9. FileOk(file)
  <2>1. \A t \in DOMAIN file.keys : IsWindow(AsWindow(file.keys[t]))
    BY <1>3, <1>7, CountsAsWindow
  <2>2. IsWindow(AsWindow(file.local))
    BY <1>4, <1>7, CountsAsWindow
  <2>3. FileWithin(file)
    BY <1>5, <1>7 DEF FileWithin
  <2> QED  BY <1>2, <1>7, <2>1, <2>2, <2>3 DEF FileOk
<1> QED  BY <1>1, <1>6, <1>7, <1>8, <1>9

(* A file stays one while the clock and the deliveries only grow.          *)
LEMMA FileStays ==
  ASSUME NEW file, FileOk(file), clock \in Nat, clock' \in Nat, clock <= clock',
         DOMAIN committed \subseteq DOMAIN committed'
  PROVE  FileOk(file)'
BY DEF FileOk, FileWithin

LEMMA FilesStay ==
  ASSUME Files, clock \in Nat, clock' \in Nat, clock <= clock',
         DOMAIN committed \subseteq DOMAIN committed',
         writing' \in {writing, disk, NoFile}, disk' \in {writing, disk}
  PROVE  Files'
<1>1. writing' = NoFile \/ FileOk(writing)'
  BY FileStays DEF Files, FileOk, FileWithin
<1>2. disk' = NoFile \/ FileOk(disk)'
  BY FileStays DEF Files, FileOk, FileWithin
<1> QED  BY <1>1, <1>2 DEF Files

(* The end of the process: what memory had is gone, open messages with it. *)
LEMMA ForgetStep ==
  ASSUME IInv, Forget
  PROVE  IInv' /\ Open' = {}
<1>1. /\ DOMAIN keys' = {} /\ keys' = [t \in {} |-> EmptyWindow] /\ local' = EmptyWindow
      /\ lastSweep' = -SweepInterval /\ res' = [m \in DOMAIN committed |-> res[m]]
      /\ UNCHANGED <<committed, clock>>
  BY DEF Forget, Never
<1>2. /\ DOMAIN committed \subseteq {m \in DOMAIN res : res[m].closed}
      /\ DOMAIN res \subseteq Messages /\ res \in [DOMAIN res -> Reservations]
  BY DEF IInv, TypeOK
<1>3. Open' = {}
  BY <1>1, <1>2 DEF Open
<1>4. TypeOK'
  <2>1. Capacity \in Nat /\ SweepInterval \in Nat
    BY ConstantsAssumption
  <2>2. DOMAIN res' \subseteq Messages /\ res' \in [DOMAIN res' -> Reservations]
    BY <1>1, <1>2
  <2>3. DOMAIN committed' \subseteq {m \in DOMAIN res' : res'[m].closed}
    BY <1>1, <1>2
  <2> QED  BY <1>1, <2>1, <2>2, <2>3, EmptyIsWindow, FS_EmptySet DEF IInv, TypeOK
<1>5. ReservationsAccounted'
  <2>1. (\A t \in Texts : KeyUnits(Open, t)' = {}) /\ LocalUnits(Open)' = {}
    BY <1>3 DEF KeyUnits, LocalUnits
  <2> QED  BY <1>1, <2>1, EmptyIsWindow, FS_EmptySet DEF ReservationsAccounted
<1>6. WithinLimits'
  BY <1>1, EmptyIsWindow, ConstantsAssumption DEF WithinLimits
<1> QED  BY <1>3, <1>4, <1>5, <1>6 DEF IInv

(* The start of a daemon: what it takes from a file is a store within the  *)
(* limits, on which no message holds a place.                              *)
LEMMA StartStep ==
  ASSUME IInv, Files, SaverShape, Start
  PROVE  IInv' /\ known' \subseteq disk.knows /\ known' \subseteq DOMAIN committed
<1>1. /\ UNCHANGED <<lastSweep, res, committed, clock, writing, disk>>
      /\ phase = "down" /\ Open = {} /\ known = {}
  BY DEF Start, SaverShape
<1>2. CASE UNCHANGED <<keys, local, known>>
  BY <1>1, <1>2 DEF IInv, TypeOK, ReservationsAccounted, WithinLimits, KeyUnits,
                         LocalUnits, Open
<1>3. CASE Load
  <2> DEFINE loaded(t) == Restored(disk.keys[t], clock)
             restored == [t \in DOMAIN disk.keys |-> loaded(t)]
             kept == {x \in DOMAIN restored : HasCounts(restored[x])}
             here == Restored(disk.local, clock)
  <2>1. /\ keys' = [t \in kept |-> restored[t]] /\ local' = here /\ known' = disk.knows
    BY <1>3 DEF Load
  <2>2. /\ kept \subseteq DOMAIN disk.keys /\ DOMAIN keys' = kept
        /\ \A t \in kept : keys'[t] = loaded(t)
        /\ keys' = [t \in DOMAIN keys' |-> keys'[t]]
    BY <2>1
  <2>3. FileOk(disk) /\ Cardinality(DOMAIN disk.keys) <= Capacity /\ clock \in Nat
    BY <1>3 DEF Load, Loads, Files, IInv, TypeOK
  <2>4. ASSUME NEW t \in DOMAIN disk.keys
        PROVE  /\ IsWindow(loaded(t)) /\ loaded(t).reserved = 0
               /\ \A s \in Spans : Total(loaded(t).count[s]) <= Total(disk.keys[t][s])
    BY <2>3, RestoredWindow DEF FileOk
  <2>5. /\ IsWindow(here) /\ here.reserved = 0
        /\ \A s \in Spans : Total(here.count[s]) <= Total(disk.local[s])
    BY <2>3, RestoredWindow DEF FileOk
  <2> HIDE DEF kept, here, loaded
  <2>6. TypeOK'
    <3>1. Cardinality(kept) <= Capacity
      <4>1. IsFiniteSet(DOMAIN disk.keys)
        BY <2>3, ConstantsAssumption, FS_Subset DEF FileOk
      <4>2. Cardinality(kept) <= Cardinality(DOMAIN disk.keys)
        BY <2>2, <4>1, FS_Subset
      <4>3. /\ Cardinality(kept) \in Nat /\ Cardinality(DOMAIN disk.keys) \in Nat
            /\ Capacity \in Nat
        BY <2>2, <4>1, FS_Subset, FS_CardinalityType, ConstantsAssumption
      <4> QED  BY <2>3, <4>2, <4>3
    <3>2. DOMAIN disk.keys \subseteq Texts
      BY <2>3 DEF FileOk
    <3> QED  BY <1>1, <2>1, <2>2, <2>4, <2>5, <3>1, <3>2 DEF IInv, TypeOK
  <2>7. ReservationsAccounted'
    <3>1. (\A t \in Texts : KeyUnits(Open, t)' = {}) /\ LocalUnits(Open)' = {}
      BY <1>1 DEF KeyUnits, LocalUnits, Open
    <3> QED  BY <2>1, <2>2, <2>4, <2>5, <3>1, FS_EmptySet DEF ReservationsAccounted
  <2>8. WithinLimits'
    <3> SUFFICES ASSUME ~Observe, NEW s \in Spans
                 PROVE  /\ \A t \in kept :
                             Allows(t, s, Total(loaded(t).count[s]) + loaded(t).reserved)
                        /\ Total(here.count[s]) + here.reserved <= LocalLimit[s]
      BY <2>1, <2>2 DEF WithinLimits
    <3>1. /\ \A t \in DOMAIN disk.keys : Allows(t, s, Total(disk.keys[t][s]))
          /\ Total(disk.local[s]) <= LocalLimit[s]
      BY <2>3 DEF FileOk, FileWithin
    <3>2. ASSUME NEW t \in kept
          PROVE  Allows(t, s, Total(loaded(t).count[s]) + loaded(t).reserved)
      <4> DEFINE before == Total(disk.keys[t][s])
                 after  == Total(loaded(t).count[s])
      <4>1. before \in Nat
        <5>1. /\ IsWindow(AsWindow(disk.keys[t]))
              /\ AsWindow(disk.keys[t]).count = disk.keys[t]
          BY <2>2, <2>3 DEF FileOk, AsWindow
        <5>2. Total(AsWindow(disk.keys[t]).count[s]) \in Nat
          BY <5>1, WindowTotals
        <5> QED  BY <5>1, <5>2
      <4>2. after \in Nat /\ after <= before /\ loaded(t).reserved = 0
        BY <2>2, <2>4, WindowTotals
      <4>3. Allows(t, s, before)
        BY <2>2, <3>1
      <4> HIDE DEF before, after
      <4>4. Allows(t, s, after) /\ after + 0 = after
        BY <4>1, <4>2, <4>3, AllowsFewer
      <4> QED  BY <4>2, <4>4 DEF after
    <3>3. Total(here.count[s]) + here.reserved <= LocalLimit[s]
      <4>1. Total(disk.local[s]) \in Nat
        <5>1. /\ IsWindow(AsWindow(disk.local)) /\ AsWindow(disk.local).count = disk.local
          BY <2>3 DEF FileOk, AsWindow
        <5>2. Total(AsWindow(disk.local).count[s]) \in Nat
          BY <5>1, WindowTotals
        <5> QED  BY <5>1, <5>2
      <4>2. Total(here.count[s]) \in Nat /\ LocalLimit[s] \in Nat
        BY <2>5, WindowTotals, ConstantsAssumption
      <4> QED  BY <2>5, <3>1, <4>1, <4>2
    <3> QED  BY <3>2, <3>3
  <2>9. known' \subseteq DOMAIN committed
    BY <2>1, <2>3 DEF FileOk
  <2> QED  BY <2>1, <2>6, <2>7, <2>8, <2>9 DEF IInv
<1> QED  BY <1>2, <1>3 DEF Start
-----------------------------------------------------------------------------
(* A session's call: only a commit adds to what is known, and what it adds *)
(* was delivered no longer ago than the session lags the clock.            *)
LEMMA SessionStep ==
  ASSUME SaverInv, NEW m \in Messages, Session(m)
  PROVE  SaverInv'
<1>1. /\ phase = "up" /\ UNCHANGED <<phase, writing, disk, wakes, failed>>
  BY DEF Session
<1>2. IInv'
  <2>1. Next
    BY DEF Session, Next
  <2> QED  BY <2>1, NextIInv DEF SaverInv
<1>3. /\ clock' = clock /\ clock \in Nat
      /\ \/ known' = known /\ committed' = committed
         \/ /\ known' = known \cup {m} /\ DOMAIN committed' = DOMAIN committed \cup {m}
            /\ committed'[m] + MaxLag >= clock
            /\ \A x \in DOMAIN committed : x # m => committed'[x] = committed[x]
  <2>1. clock \in Nat
    BY DEF SaverInv, IInv, TypeOK
  <2>2. CASE ((\E k \in LimitKeys : Begin(m, k)) \/ Release(m)) /\ UNCHANGED known
    BY <2>1, <2>2 DEF Begin, Release
  <2>3. CASE \E now \in Times : Reserve(m, now) /\ UNCHANGED known
    BY <2>1, <2>3 DEF Reserve
  <2>4. CASE \E now \in Times : Commit(m, now) /\ known' = known \cup {m}
    <3>1. PICK now \in Times : Commit(m, now) /\ known' = known \cup {m}
      BY <2>4
    <3>2. /\ committed' = [x \in DOMAIN committed \cup {m} |->
                             IF x = m THEN now ELSE committed[x]]
          /\ clock' = clock
      BY <3>1 DEF Commit
    <3>3. now + MaxLag >= clock
      BY DEF Times
    <3> QED  BY <2>1, <3>1, <3>2, <3>3
  <2> QED  BY <2>2, <2>3, <2>4 DEF Session
<1>4. /\ MaxLag \in Nat /\ SaveInterval \in Nat /\ wakes \in Nat
      /\ known \subseteq DOMAIN committed
  BY ConstantsAssumption, SaverAssumption DEF SaverInv, SaverShape
<1>5. Files'
  BY <1>1, <1>3, FilesStay DEF SaverInv
<1>6. SaverShape' /\ LastSave'
  BY <1>1, <1>3 DEF SaverInv, SaverShape, LastSave
<1>7. Unsaved'
  <2>1. /\ clock <= wakes /\ wakes <= clock + SaveInterval
        /\ writing # NoFile =>
             \A x \in known \ writing.knows : committed[x] + MaxLag >= clock
        /\ ~failed => \A x \in known \ disk.knows :
                        committed[x] + MaxLag >= wakes - SaveInterval
    BY <1>1 DEF SaverInv, Unsaved
  <2>2. CASE known' = known /\ committed' = committed
    BY <1>1, <1>3, <2>1, <2>2 DEF Unsaved
  <2>3. CASE /\ known' = known \cup {m} /\ DOMAIN committed' = DOMAIN committed \cup {m}
             /\ committed'[m] + MaxLag >= clock
             /\ \A x \in DOMAIN committed : x # m => committed'[x] = committed[x]
    <3>1. \A x \in known' : x # m => x \in known /\ committed'[x] = committed[x]
      BY <1>4, <2>3
    <3>2. committed'[m] \in Nat
      BY <1>2, <2>3 DEF IInv, TypeOK
    <3>3. committed'[m] + MaxLag >= wakes - SaveInterval
      <4> DEFINE at == committed'[m]
      <4>1. at \in Nat /\ at + MaxLag >= clock
        BY <2>3, <3>2
      <4> HIDE DEF at
      <4>2. at + MaxLag >= wakes - SaveInterval
        BY <1>3, <1>4, <2>1, <4>1
      <4> QED  BY <4>2 DEF at
    <3>4. writing # NoFile =>
            \A x \in known' \ writing.knows : committed'[x] + MaxLag >= clock
      BY <2>1, <2>3, <3>1
    <3>5. ~failed => \A x \in known' \ disk.knows :
                       committed'[x] + MaxLag >= wakes - SaveInterval
      BY <2>1, <3>1, <3>3
    <3> QED  BY <1>1, <1>3, <2>1, <3>4, <3>5 DEF Unsaved
  <2> QED  BY <1>3, <2>2, <2>3
<1> QED  BY <1>2, <1>5, <1>6, <1>7 DEF SaverInv

LEMMA PassStep ==
  ASSUME SaverInv, Pass
  PROVE  SaverInv'
<1>1. /\ Tick /\ ~SaveDue /\ writing = NoFile /\ phase # "stopping"
      /\ UNCHANGED <<phase, writing, disk, wakes, failed, known>>
  BY DEF Pass, Urgent, saverVars
<1>2. /\ UNCHANGED <<keys, local, lastSweep, res, committed>> /\ clock' = clock + 1
      /\ clock \in Nat /\ wakes \in Nat /\ SaveInterval \in Nat
  BY <1>1, SaverAssumption DEF Tick, SaverInv, IInv, TypeOK, SaverShape
<1>3. IInv'
  BY <1>1, TickStep DEF SaverInv
<1>4. Files'
  BY <1>1, <1>2, FilesStay DEF SaverInv
<1>5. SaverShape' /\ LastSave'
  BY <1>1, <1>2 DEF SaverInv, SaverShape, LastSave, Open
<1>6. Unsaved'
  <2>1. phase = "up" => clock + 1 <= wakes
    BY <1>1, <1>2 DEF SaveDue
  <2> QED  BY <1>1, <1>2, <2>1 DEF SaverInv, Unsaved
<1> QED  BY <1>3, <1>4, <1>5, <1>6 DEF SaverInv

LEMMA ExportStep ==
  ASSUME SaverInv, NEW now \in Times, Export(now) \/ FinalExport(now)
  PROVE  SaverInv'
<1>1. /\ TakeSnapshot(now) /\ UNCHANGED <<disk, wakes, failed, known>>
      /\ \/ phase = "up" /\ phase' = phase
         \/ phase = "stopping" /\ phase' = "final"
  BY DEF Export, FinalExport, SaveDue
<1>2. UNCHANGED <<lastSweep, res, committed, clock>>
  BY <1>1 DEF TakeSnapshot
<1>3. /\ IInv' /\ Open' = Open
      /\ FileOk(writing') /\ writing' # NoFile /\ writing'.knows = known
  BY <1>1, SnapshotStep DEF SaverInv, SaverShape
<1>4. Files'
  <2>1. clock \in Nat
    BY DEF SaverInv, IInv, TypeOK
  <2>2. FileOk(writing)'
    BY <1>2, <1>3 DEF FileOk, FileWithin
  <2>3. disk' = NoFile \/ FileOk(disk)'
    BY <1>1, <1>2, <2>1, FileStays DEF SaverInv, Files, FileOk, FileWithin
  <2> QED  BY <2>2, <2>3 DEF Files
<1>5. SaverShape'
  BY <1>1, <1>2 DEF SaverInv, SaverShape
<1>6. LastSave'
  BY <1>1, <1>3 DEF LastSave
<1>7. Unsaved'
  <2>1. known' \ writing'.knows = {}
    BY <1>1, <1>3
  <2>2. phase' = "up" => phase = "up"
    BY <1>1
  <2> QED  BY <1>1, <1>2, <2>1, <2>2 DEF SaverInv, Unsaved
<1> QED  BY <1>3, <1>4, <1>5, <1>6, <1>7 DEF SaverInv

\* Saves that end, well or not, a stop, and the end of the process leave the
\* deliveries and the clock alone.
LEMMA SaverStep ==
  ASSUME SaverInv, Replace \/ SaveFails \/ Stop
  PROVE  SaverInv'
<1>1. /\ UNCHANGED <<keys, local, lastSweep, res, committed, clock, known>>
      /\ writing' \in {writing, disk, NoFile} /\ disk' \in {writing, disk}
  BY DEF Replace, SaveFails, Stop
<1>2. clock \in Nat /\ wakes \in Nat /\ SaveInterval \in Nat /\ known \subseteq DOMAIN committed
  BY SaverAssumption DEF SaverInv, IInv, TypeOK, SaverShape
<1>3. IInv' /\ Open' = Open
  BY <1>1 DEF SaverInv, IInv, TypeOK, ReservationsAccounted, WithinLimits, KeyUnits,
              LocalUnits, Open
<1>4. Files'
  BY <1>1, <1>2, FilesStay DEF SaverInv
<1>5. SaverShape' /\ LastSave'
  <2>1. CASE Replace \/ SaveFails
    <3>1. /\ writing # NoFile /\ phase' = phase /\ failed' \in BOOLEAN
          /\ wakes' = clock + SaveInterval /\ writing' = NoFile
          /\ disk' = writing \/ failed' = TRUE
      BY <2>1 DEF Replace, SaveFails
    <3>2. phase # "down"
      BY <3>1 DEF SaverInv, SaverShape
    <3>3. phase = "final" => writing.knows = known
      BY <3>1 DEF SaverInv, LastSave
    <3>4. SaverShape'
      BY <1>1, <1>2, <3>1, <3>2 DEF SaverInv, SaverShape
    <3>5. LastSave'
      BY <1>1, <3>1, <3>3 DEF LastSave
    <3> QED  BY <3>4, <3>5
  <2>2. CASE Stop
    <3>1. phase' = "stopping" /\ wakes' = wakes /\ failed' = failed
      BY <2>2 DEF Stop
    <3>2. SaverShape'
      BY <1>1, <3>1 DEF SaverInv, SaverShape
    <3>3. LastSave'
      BY <3>1 DEF LastSave
    <3> QED  BY <3>2, <3>3
  <2> QED  BY <2>1, <2>2
<1>6. Unsaved'
  <2>1. CASE Replace
    <3>1. /\ writing # NoFile /\ disk' = writing /\ writing' = NoFile /\ failed' = FALSE
          /\ wakes' = clock + SaveInterval /\ phase' = phase
      BY <2>1 DEF Replace
    <3>2. \A m \in known \ writing.knows : committed[m] + MaxLag >= clock
      BY <3>1 DEF SaverInv, Unsaved
    <3>3. wakes' - SaveInterval = clock
      BY <1>2, <3>1
    <3> QED  BY <1>1, <1>2, <3>1, <3>2, <3>3 DEF Unsaved
  <2>2. CASE SaveFails
    BY <1>1, <1>2, <2>2 DEF Unsaved, SaveFails
  <2>3. CASE Stop
    BY <1>1, <2>3 DEF SaverInv, Unsaved, Stop
  <2> QED  BY <2>1, <2>2, <2>3
<1> QED  BY <1>3, <1>4, <1>5, <1>6 DEF SaverInv

LEMMA EndStep ==
  ASSUME SaverInv, Exit \/ Crash
  PROVE  SaverInv'
<1>1. /\ Forget /\ phase' = "down" /\ writing' = NoFile /\ known' = {}
      /\ UNCHANGED <<committed, clock, disk, wakes, failed>>
  BY DEF Exit, Crash, Forget
<1>2. IInv' /\ Open' = {}
  BY <1>1, ForgetStep DEF SaverInv
<1>3. clock \in Nat
  BY DEF SaverInv, IInv, TypeOK
<1>4. Files'
  BY <1>1, <1>3, FilesStay DEF SaverInv
<1>5. SaverShape' /\ LastSave' /\ Unsaved'
  BY <1>1, <1>2 DEF SaverInv, SaverShape, LastSave, Unsaved
<1> QED  BY <1>2, <1>4, <1>5 DEF SaverInv

LEMMA RestartStep ==
  ASSUME SaverInv, Start
  PROVE  SaverInv'
<1>1. /\ phase' = "up" /\ wakes' = clock + SaveInterval /\ writing = NoFile
      /\ UNCHANGED <<res, committed, clock, writing, disk>> /\ failed' = FALSE
  BY DEF Start, SaverInv, SaverShape
<1>2. IInv' /\ known' \subseteq disk.knows /\ known' \subseteq DOMAIN committed
  BY StartStep DEF SaverInv
<1>3. clock \in Nat /\ SaveInterval \in Nat
  BY SaverAssumption DEF SaverInv, IInv, TypeOK
<1>4. Files'
  BY <1>1, <1>3, FilesStay DEF SaverInv
<1>5. SaverShape' /\ LastSave'
  <2>1. wakes' \in Nat /\ failed' \in BOOLEAN
    <3>1. wakes' \in Nat
      BY <1>1, <1>3
    <3>2. failed' \in BOOLEAN
      BY <1>1, Zenon
    <3> QED  BY <3>1, <3>2
  <2>2. known' \subseteq DOMAIN committed'
    BY <1>1, <1>2
  <2>3. SaverShape'
    BY <1>1, <2>1, <2>2 DEF SaverShape
  <2>4. LastSave'
    BY <1>1 DEF LastSave
  <2> QED  BY <2>3, <2>4
<1>6. Unsaved'
  <2>1. known' \ disk'.knows = {}
    BY <1>1, <1>2
  <2>2. writing' = NoFile /\ clock <= wakes' /\ wakes' <= clock + SaveInterval
    BY <1>1, <1>3
  <2> QED  BY <1>1, <2>1, <2>2 DEF Unsaved
<1> QED  BY <1>2, <1>4, <1>5, <1>6 DEF SaverInv
-----------------------------------------------------------------------------
LEMMA InitSaver == LSInit => SaverInv
<1> SUFFICES ASSUME LSInit PROVE SaverInv
  OBVIOUS
<1>1. /\ IInv /\ clock = 0 /\ phase = "up" /\ writing = NoFile /\ disk = NoFile
      /\ wakes = SaveInterval /\ failed = FALSE /\ known = {}
  BY InitIInv DEF LSInit, Init
<1>2. SaveInterval \in Nat
  BY SaverAssumption
<1>3. Files /\ SaverShape /\ LastSave
  BY <1>1, <1>2 DEF Files, SaverShape, LastSave
<1>4. Unsaved
  BY <1>1, <1>2 DEF Unsaved
<1> QED  BY <1>1, <1>3, <1>4 DEF SaverInv

LEMMA NextSaver == SaverInv /\ [LSNext]_allVars => SaverInv'
<1> SUFFICES ASSUME SaverInv, [LSNext]_allVars PROVE SaverInv'
  OBVIOUS
<1>1. CASE \E m \in Messages : Session(m)
  BY <1>1, SessionStep
<1>2. CASE Pass
  BY <1>2, PassStep
<1>3. CASE \E now \in Times : Export(now) \/ FinalExport(now)
  BY <1>3, ExportStep
<1>4. CASE Replace \/ SaveFails \/ Stop
  BY <1>4, SaverStep
<1>5. CASE Exit \/ Crash
  BY <1>5, EndStep
<1>6. CASE Start
  BY <1>6, RestartStep
<1>7. CASE UNCHANGED allVars
  BY <1>7 DEF allVars, SaverInv, Files, FileOk, FileWithin, SaverShape, LastSave, Unsaved,
              IInv, TypeOK, ReservationsAccounted, WithinLimits, KeyUnits, LocalUnits, Open
<1> QED  BY <1>1, <1>2, <1>3, <1>4, <1>5, <1>6, <1>7 DEF LSNext

LEMMA SaverInvariance == LSSpec => []SaverInv
BY InitSaver, NextSaver, PTL DEF LSSpec

(* The store, the file and the file being written keep their shape through *)
(* saves, failures, stops, crashes and starts (save, load, Saver).         *)
THEOREM SaverTypeCorrect == LSSpec => []SaverTypeOK
<1>1. ASSUME NEW file, FileOk(file)
      PROVE  IsSnapshot(file)
  BY <1>1 DEF FileOk, IsSnapshot, IsWindow, AsWindow
<1>2. SaverInv => SaverTypeOK
  BY <1>1 DEF SaverInv, IInv, Files, SaverShape, SaverTypeOK
<1> QED  BY <1>2, SaverInvariance, PTL

(* No mix of saves, crashes and starts takes a window over an enforced     *)
(* limit: what a start loads and what sessions reserve on top of it stay   *)
(* within (restore, reserve).                                              *)
THEOREM RestartsStayWithinLimits == LSSpec => []WithinLimits
<1>1. SaverInv => WithinLimits
  BY DEF SaverInv, IInv
<1> QED  BY <1>1, SaverInvariance, PTL

(* A restart leaves no reservation behind, and sessions after it account   *)
(* for theirs (restore, reserve, commit, release).                         *)
THEOREM RestartsLeakNothing == LSSpec => []ReservationsAccounted
<1>1. SaverInv => ReservationsAccounted
  BY DEF SaverInv, IInv
<1> QED  BY <1>1, SaverInvariance, PTL

(* A crash loses no more than one save interval and the lag of the clock,  *)
(* unless saves fail (Saver._run).                                         *)
THEOREM CrashLosesLittle == LSSpec => []LossBounded
<1>1. SaverInv => LossBounded
  <2> SUFFICES ASSUME SaverInv, phase = "up", ~failed, NEW m \in known, m \notin disk.knows
               PROVE  committed[m] + MaxLag >= clock - SaveInterval
    BY DEF LossBounded, OnDisk
  <2>1. clock <= wakes /\ committed[m] + MaxLag >= wakes - SaveInterval
    BY DEF SaverInv, Unsaved
  <2>2. /\ clock \in Nat /\ wakes \in Nat /\ SaveInterval \in Nat /\ MaxLag \in Nat
        /\ committed[m] \in Nat
    BY SaverAssumption, ConstantsAssumption DEF SaverInv, SaverShape, IInv, TypeOK
  <2> QED  BY <2>1, <2>2
<1> QED  BY <1>1, SaverInvariance, PTL

(* A clean stop whose last save succeeds loses no counted delivery, also   *)
(* when it interrupts a periodic save or follows one that failed           *)
(* (Saver.stop).                                                           *)
THEOREM CleanStopLosesNothing == LSSpec => CleanStopKeepsAll
<1> DEFINE Kept == phase = "final" /\ writing = NoFile /\ phase' = "down" /\ ~failed
                     => OnDisk' = known
<1>1. SaverInv /\ [LSNext]_allVars => [Kept]_allVars
  <2> SUFFICES ASSUME SaverInv, LSNext, phase = "final", writing = NoFile, phase' = "down",
                      ~failed
               PROVE  disk'.knows = known
    BY DEF OnDisk
  <2>1. disk.knows = known
    BY DEF SaverInv, LastSave
  <2>2. disk' = disk
    <3>1. CASE Exit \/ Crash
      BY <3>1 DEF Exit, Crash, Forget
    <3>2. CASE ~(Exit \/ Crash)
      BY <3>2 DEF LSNext, Session, Pass, saverVars, Export, SaveDue, FinalExport, Replace,
                  SaveFails, Stop, Start
    <3> QED  BY <3>1, <3>2
  <2> QED  BY <2>1, <2>2
<1> QED  BY <1>1, SaverInvariance, PTL DEF LSSpec, CleanStopKeepsAll
-----------------------------------------------------------------------------
(* A file lists no more buckets than a full span has, and those that       *)
(* sessions entered since the save read its clock: how many loads() can    *)
(* expect.                                                                 *)

\* The multiples of a bucket's size that lie in a span, up to some later time, are few.
LEMMA BucketsBetween ==
  ASSUME NEW s \in Spans, Span[s] % Size[s] = 0,
         NEW from \in Nat, NEW upto \in Nat, from <= upto,
         NEW B, \A b \in B : b \in Nat /\ b % Size[s] = 0 /\ Fresh(s, b, from) /\ b <= upto
  PROVE  /\ IsFiniteSet(B) /\ Cardinality(B) \in Nat
         /\ Cardinality(B) <= Span[s] \div Size[s] + 1 + (upto \div Size[s] - from \div Size[s])
<1> DEFINE z == Size[s]
           nth == [t \in Nat |-> t \div z]
           start == [t \in Nat |-> z * nth[t]]
           first == nth[from] - nth[Span[s]]
           last == nth[upto]
           index == [b \in B |-> nth[b]]
<1>1. z \in Nat \ {0} /\ Span[s] \in Nat /\ \A b \in B : b \in Nat
  BY ConstantsAssumption
<1>2. \A t \in Nat : nth[t] \in Nat
  BY <1>1
<1>3. \A t \in Nat : start[t] \in Nat /\ start[t] <= t /\ t < start[t] + z
  <2> TAKE t \in Nat
  <2> DEFINE q == t \div z
             r == t % z
  <2>1. q \in Nat /\ r \in 0 .. (z - 1) /\ t = z * q + r
    BY <1>1
  <2>2. start[t] = z * q
    OBVIOUS
  <2> HIDE DEF q, r, start
  <2>3. z * q \in Nat
    BY <1>1, <2>1
  <2> QED  BY <1>1, <2>1, <2>2, <2>3
<1>4. \A t \in Nat : t % z = 0 => start[t] = t
  BY <1>1
<1>5. \A t, u, v \in Nat : start[t] - start[u] < start[v] + z => nth[t] - nth[u] <= nth[v]
  <2> SUFFICES ASSUME NEW p \in Nat, NEW q \in Nat, NEW r \in Nat, z * p - z * q < z * r + z,
                      p - q >= r + 1
               PROVE  FALSE
    BY <1>2
  <2>1. z * (p - q - r - 1) >= 0
    BY <1>1
  <2>2. z * (p - q - r - 1) = z * p - z * q - z * r - z
    BY <1>1
  <2>3. z * p \in Int /\ z * q \in Int /\ z * r \in Int
    BY <1>1
  <2> QED  BY <1>1, <2>1, <2>2, <2>3
<1>6. nth[0] = 0 /\ start[0] = 0
  BY <1>1
<1>7. start[Span[s]] = Span[s] /\ \A b \in B : start[b] = b /\ b + z > from - Span[s] /\ b <= upto
  BY <1>1, <1>4 DEF Fresh
<1>8. nth[Span[s]] = Span[s] \div Size[s] /\ first = nth[from] - nth[Span[s]] /\ last = nth[upto]
  BY <1>1
<1> HIDE DEF z, nth, start, first, last
<1>9. ASSUME NEW b \in B PROVE nth[b] \in first .. last
  <2>1. nth[b] <= nth[upto]
    <3>1. start[b] - start[0] < start[upto] + z
      BY <1>1, <1>3, <1>6, <1>7
    <3>2. nth[b] - nth[0] <= nth[upto]
      BY <1>1, <1>5, <3>1
    <3> QED  BY <1>1, <1>2, <1>6, <3>2
  <2>2. nth[from] - nth[Span[s]] <= nth[b]
    <3>1. start[from] - start[Span[s]] < start[b] + z
      BY <1>1, <1>3, <1>7
    <3> QED  BY <1>1, <1>5, <3>1
  <2> QED  BY <1>1, <1>2, <1>8, <2>1, <2>2
<1>10. index \in Injection(B, first .. last)
  <2>1. index \in [B -> first .. last]
    BY <1>9
  <2>2. \A b, c \in B : index[b] = index[c] => b = c
    BY <1>1, <1>7 DEF start
  <2> QED  BY <2>1, <2>2 DEF Injection, IsInjective
<1>11. first \in Int /\ last \in Int /\ first <= last + 1
  <2>1. start[from] - start[0] < start[upto] + z
    BY <1>1, <1>3, <1>6
  <2>2. nth[from] - nth[0] <= nth[upto]
    BY <1>5, <2>1
  <2> QED  BY <1>1, <1>2, <1>6, <1>8, <2>2
<1>12. IsFiniteSet(first .. last) /\ Cardinality(first .. last) = last - first + 1
  BY <1>11, FS_Interval
<1>13. IsFiniteSet(B) /\ Cardinality(B) <= Cardinality(first .. last)
  BY <1>10, <1>12, FS_Injection
<1>14. Cardinality(B) \in Nat
  BY <1>13, FS_CardinalityType
<1>15. last - first + 1 = Span[s] \div Size[s] + 1 + (nth[upto] - nth[from])
  BY <1>1, <1>2, <1>8
<1>16. nth[upto] = upto \div Size[s] /\ nth[from] = from \div Size[s]
  BY DEF z, nth
<1> QED  BY <1>12, <1>13, <1>14, <1>15, <1>16

\* No bucket of a count starts after t.
StartedBy(count, t) == \A s \in Spans : \A b \in DOMAIN count[s] : b <= t

\* The buckets of a file: those of a span that ended when the save read the clock, or
\* later ones that were begun when it had the lock.
Listed(count, saved) ==
  \A s \in Spans : \A b \in DOMAIN count[s] : Fresh(s, b, saved) /\ b <= saved + MaxLag

FileFits(file) ==
  /\ Cardinality(DOMAIN file.keys) <= Capacity
  /\ \A t \in DOMAIN file.keys : Listed(file.keys[t], file.saved)
  /\ Listed(file.local, file.saved)

FileInv ==
  /\ \A t \in DOMAIN keys : StartedBy(keys[t].count, clock)
  /\ StartedBy(local.count, clock)
  /\ writing # NoFile => FileFits(writing)
  /\ disk # NoFile => FileFits(disk)

LEMMA StartedWindows ==
  ASSUME NEW w, NEW t \in Nat, StartedBy(w.count, t), NEW now
  PROVE  /\ StartedBy(Expire(w, now).count, t)
         /\ \A n : StartedBy(AddReserved(w, n).count, t)
         /\ \A n : StartedBy(AddReserved(Expire(w, now), n).count, t)
         /\ now \in Nat /\ now <= t => \A n : StartedBy(Settle(w, now, n).count, t)
<1>1. StartedBy(Expire(w, now).count, t)
  BY DEF StartedBy, Expire
<1>2. ASSUME now \in Nat, now <= t, NEW n PROVE StartedBy(Settle(w, now, n).count, t)
  <2> SUFFICES ASSUME NEW s \in Spans, NEW b \in DOMAIN Settle(w, now, n).count[s]
               PROVE  b <= t
    BY DEF StartedBy
  <2>1. b \in DOMAIN w.count[s] \cup {Bucket(s, now)}
    BY DEF Settle, AddCount
  <2>2. Bucket(s, now) \in Nat /\ Bucket(s, now) <= now
    BY <1>2, BucketStarts
  <2> QED  BY <1>2, <2>1, <2>2 DEF StartedBy
<1> QED  BY <1>1, <1>2 DEF AddReserved

\* A session's call begins no bucket of the future.
LEMMA SessionFits ==
  ASSUME SaverInv, FileInv, NEW m \in Messages, Session(m)
  PROVE  FileInv'
<1>1. UNCHANGED <<writing, disk, clock>> /\ clock \in Nat
  BY DEF Session, Begin, Release, Reserve, Commit, SaverInv, IInv, TypeOK
<1>2. /\ \A t \in DOMAIN keys' : StartedBy(keys'[t].count, clock)
      /\ StartedBy(local'.count, clock)
  <2>1. CASE (\E k \in LimitKeys : Begin(m, k)) \/ Release(m)
    <3>1. CASE \E k \in LimitKeys : Begin(m, k)
      BY <3>1 DEF Begin, FileInv
    <3>2. CASE Release(m)
      <4>1. /\ DOMAIN keys' = DOMAIN keys
            /\ \A t \in DOMAIN keys : keys'[t].count = keys[t].count
            /\ local'.count = local.count
        BY <3>2 DEF Release, AddReserved
      <4> QED  BY <4>1 DEF FileInv
    <3> QED  BY <2>1, <3>1, <3>2
  <2>2. ASSUME NEW now \in Times, Reserve(m, now)
        PROVE  /\ \A t \in DOMAIN keys' : StartedBy(keys'[t].count, clock)
               /\ StartedBy(local'.count, clock)
    <3> DEFINE k == res[m].key
               store == StoreFor(k.text, now)
               take == IF Granted(k, store, now) THEN 1 ELSE 0
    <3>1. \A t \in DOMAIN store : StartedBy(store[t].count, clock)
      <4>1. StartedBy(EmptyWindow.count, clock)
        BY DEF StartedBy, EmptyWindow, NoCounts
      <4>2. \A t \in DOMAIN Swept(now) : StartedBy(Swept(now)[t].count, clock)
        BY <1>1, StartedWindows DEF Swept, FileInv
      <4> QED  BY <4>1, <4>2 DEF StoreFor, FileInv
    <3>2. /\ keys' = IF k.text \in DOMAIN store
                     THEN [store EXCEPT ![k.text] = AddReserved(Expire(@, now), take)]
                     ELSE store
          /\ local' = IF AsksLocal(k, store, now)
                      THEN AddReserved(Expire(local, now), take)
                      ELSE local
      BY <2>2 DEF Reserve
    <3> HIDE DEF store, take, k
    <3>3. ASSUME NEW t \in DOMAIN keys' PROVE StartedBy(keys'[t].count, clock)
      <4>1. t \in DOMAIN store /\ keys'[t] \in {store[t], AddReserved(Expire(store[t], now), take)}
        BY <3>2, <3>3
      <4> QED  BY <1>1, <3>1, <4>1, StartedWindows
    <3>4. StartedBy(local'.count, clock)
      BY <1>1, <3>2, StartedWindows DEF FileInv
    <3> QED  BY <3>3, <3>4
  <2>3. ASSUME NEW now \in Times, Commit(m, now)
        PROVE  /\ \A t \in DOMAIN keys' : StartedBy(keys'[t].count, clock)
               /\ StartedBy(local'.count, clock)
    <3>1. now \in Nat /\ now <= clock
      BY <1>1 DEF Times
    <3>2. ASSUME NEW t \in DOMAIN keys' PROVE StartedBy(keys'[t].count, clock)
      <4>1. t \in DOMAIN keys /\ keys'[t] \in {keys[t], Settle(keys[t], now, res[m].keyed)}
        BY <2>3, <3>2 DEF Commit
      <4> QED  BY <1>1, <3>1, <4>1, StartedWindows DEF FileInv
    <3>3. local' \in {local, Settle(local, now, res[m].local)}
      BY <2>3 DEF Commit
    <3>4. StartedBy(local'.count, clock)
      BY <1>1, <3>1, <3>3, StartedWindows DEF FileInv
    <3> QED  BY <3>2, <3>4
  <2> QED  BY <2>1, <2>2, <2>3 DEF Session
<1> QED  BY <1>1, <1>2 DEF FileInv

\* An export lists what the windows hold once they are expired.
LEMMA ExportFits ==
  ASSUME SaverInv, FileInv, NEW now \in Times, Export(now) \/ FinalExport(now)
  PROVE  FileInv'
<1>1. /\ TakeSnapshot(now) /\ writing' = Snapshot(now) /\ UNCHANGED <<disk, clock>>
      /\ keys' = [t \in DOMAIN keys |-> Expire(keys[t], now)] /\ local' = Expire(local, now)
  BY DEF Export, FinalExport, TakeSnapshot
<1>2. /\ clock \in Nat /\ now \in Nat /\ now <= clock /\ clock <= now + MaxLag /\ MaxLag \in Nat
      /\ Cardinality(DOMAIN keys) <= Capacity /\ DOMAIN keys \subseteq Texts
      /\ \A t \in DOMAIN keys : IsWindow(keys[t])
      /\ IsWindow(local)
  BY ConstantsAssumption DEF Times, SaverInv, IInv, TypeOK
<1>3. /\ \A t \in DOMAIN keys : StartedBy(Expire(keys[t], now).count, clock)
      /\ StartedBy(Expire(local, now).count, clock)
  BY <1>2, StartedWindows DEF FileInv
<1>4. ASSUME NEW w, IsWindow(w), StartedBy(Expire(w, now).count, clock)
      PROVE  Listed(Expire(w, now).count, now)
  <2> SUFFICES ASSUME NEW s \in Spans, NEW b \in DOMAIN Expire(w, now).count[s]
               PROVE  Fresh(s, b, now) /\ b <= now + MaxLag
    BY DEF Listed
  <2>1. b \in DOMAIN w.count[s] /\ Fresh(s, b, now)
    BY DEF Expire
  <2>2. b \in Nat /\ b <= clock
    BY <1>4, <2>1 DEF IsWindow, IsCounts, StartedBy
  <2> QED  BY <1>2, <2>1, <2>2
<1>5. /\ writing'.saved = now /\ writing'.local = Expire(local, now).count
      /\ DOMAIN writing'.keys \subseteq DOMAIN keys
      /\ \A t \in DOMAIN writing'.keys : writing'.keys[t] = Expire(keys[t], now).count
  BY <1>1 DEF Snapshot
<1>6. Cardinality(DOMAIN writing'.keys) <= Capacity
  <2>1. IsFiniteSet(DOMAIN keys)
    BY <1>2, ConstantsAssumption, FS_Subset
  <2>2. /\ Cardinality(DOMAIN writing'.keys) <= Cardinality(DOMAIN keys)
        /\ Cardinality(DOMAIN writing'.keys) \in Nat /\ Cardinality(DOMAIN keys) \in Nat
    BY <1>5, <2>1, FS_Subset, FS_CardinalityType
  <2> QED  BY <1>2, <2>2, ConstantsAssumption
<1>7. FileFits(writing')
  BY <1>2, <1>3, <1>4, <1>5, <1>6 DEF FileFits
<1> QED  BY <1>1, <1>3, <1>7 DEF FileInv, FileFits

\* A start drops what is of the future.
LEMMA StartFits ==
  ASSUME SaverInv, FileInv, Start
  PROVE  FileInv'
<1>1. UNCHANGED <<writing, disk, clock>> /\ clock \in Nat
  BY DEF Start, SaverInv, IInv, TypeOK
<1>2. \A count : StartedBy(Restored(count, clock).count, clock)
  BY DEF StartedBy, Restored, Expire
<1>3. CASE Load
  <2>1. /\ \A t \in DOMAIN keys' : keys'[t] = Restored(disk.keys[t], clock)
        /\ local' = Restored(disk.local, clock)
    BY <1>3 DEF Load
  <2> QED  BY <1>1, <1>2, <2>1 DEF FileInv
<1>4. CASE UNCHANGED <<keys, local, known>>
  BY <1>1, <1>4 DEF FileInv
<1> QED  BY <1>3, <1>4 DEF Start

LEMMA InitFits == LSInit => FileInv
BY DEF LSInit, Init, FileInv, StartedBy, EmptyWindow, NoCounts

LEMMA NextFits == SaverInv /\ FileInv /\ [LSNext]_allVars => FileInv'
<1> SUFFICES ASSUME SaverInv, FileInv, [LSNext]_allVars PROVE FileInv'
  OBVIOUS
<1>1. CASE \E m \in Messages : Session(m)
  BY <1>1, SessionFits
<1>2. CASE Pass
  <2>1. /\ UNCHANGED <<keys, local, writing, disk>> /\ clock' = clock + 1 /\ clock \in Nat
        /\ \A t \in DOMAIN keys : IsWindow(keys[t])
        /\ IsWindow(local)
    BY <1>2 DEF Pass, Tick, saverVars, SaverInv, IInv, TypeOK
  <2>2. ASSUME NEW w, IsWindow(w), StartedBy(w.count, clock) PROVE StartedBy(w.count, clock + 1)
    BY <2>1, <2>2 DEF StartedBy, IsWindow, IsCounts
  <2> QED  BY <2>1, <2>2 DEF FileInv
<1>3. CASE \E now \in Times : Export(now) \/ FinalExport(now)
  BY <1>3, ExportFits
<1>4. CASE Replace \/ SaveFails \/ Stop
  BY <1>4 DEF Replace, SaveFails, Stop, FileInv
<1>5. CASE Exit \/ Crash
  <2>1. /\ keys' = [t \in {} |-> EmptyWindow] /\ local' = EmptyWindow /\ writing' = NoFile
        /\ UNCHANGED <<clock, disk>>
    BY <1>5 DEF Exit, Crash, Forget
  <2> QED  BY <2>1 DEF FileInv, StartedBy, EmptyWindow, NoCounts
<1>6. CASE Start
  BY <1>6, StartFits
<1>7. CASE UNCHANGED allVars
  BY <1>7 DEF allVars, FileInv
<1> QED  BY <1>1, <1>2, <1>3, <1>4, <1>5, <1>6, <1>7 DEF LSNext

LEMMA FilesFit == LSSpec => [](SaverInv /\ FileInv)
<1>1. LSInit => SaverInv /\ FileInv
  BY InitSaver, InitFits
<1>2. SaverInv /\ FileInv /\ [LSNext]_allVars => (SaverInv /\ FileInv)'
  BY NextSaver, NextFits
<1> QED  BY <1>1, <1>2, PTL DEF LSSpec

\* How many buckets later ones can begin in the time that a session may lag.
Late(s, saved) == (saved + MaxLag) \div Size[s] - saved \div Size[s]

LEMMA FilesListFew ==
  ASSUME SaverInv, FileInv, disk # NoFile, NEW s \in Spans, Span[s] % Size[s] = 0,
         NEW count \in {disk.local} \cup {disk.keys[t] : t \in DOMAIN disk.keys}
  PROVE  /\ Cardinality(DOMAIN count[s]) \in Nat
         /\ Cardinality(DOMAIN count[s]) <= Span[s] \div Size[s] + 1 + Late(s, disk.saved)
<1>1. FileOk(disk) /\ FileFits(disk) /\ MaxLag \in Nat
  BY ConstantsAssumption DEF SaverInv, Files, FileInv
<1>2. Listed(count, disk.saved) /\ IsWindow(AsWindow(count))
  BY <1>1 DEF FileFits, FileOk
<1>3. IsCounts(s, count[s]) /\ disk.saved \in Nat
  <2>1. clock \in Nat
    BY DEF SaverInv, IInv, TypeOK
  <2> QED  BY <1>1, <1>2, <2>1 DEF IsWindow, AsWindow, FileOk
<1>4. \A b \in DOMAIN count[s] : /\ b \in Nat /\ b % Size[s] = 0
                                 /\ Fresh(s, b, disk.saved) /\ b <= disk.saved + MaxLag
  BY <1>2, <1>3 DEF IsCounts, Listed
<1>5. disk.saved + MaxLag \in Nat /\ disk.saved <= disk.saved + MaxLag
  BY <1>1, <1>3
<1> QED  BY <1>3, <1>4, <1>5, BucketsBetween DEF Late

\* A list that names no bucket later than its file is short enough for the loader.
LEMMA OnTimeIsPlausible ==
  ASSUME SaverInv, FileInv, disk # NoFile, \A s \in Spans : Span[s] % Size[s] = 0,
         NEW count \in {disk.local} \cup {disk.keys[t] : t \in DOMAIN disk.keys},
         ~ListsLater(count, disk.saved)
  PROVE  Plausible(count)
<1> SUFFICES ASSUME NEW s \in Spans
             PROVE  Cardinality(DOMAIN count[s]) <= Span[s] \div Size[s] + 1
  BY DEF Plausible
<1> DEFINE n == disk.saved
<1>1. FileOk(disk) /\ FileFits(disk) /\ clock \in Nat
  BY DEF SaverInv, Files, FileInv, IInv, TypeOK
<1>2. Listed(count, n) /\ IsWindow(AsWindow(count)) /\ n \in Nat
  BY <1>1 DEF FileFits, FileOk
<1>3. IsCounts(s, count[s])
  BY <1>2 DEF IsWindow, AsWindow
<1>4. \A b \in DOMAIN count[s] : /\ b \in Nat /\ b % Size[s] = 0
                                 /\ Fresh(s, b, n) /\ b <= n
  BY <1>2, <1>3 DEF IsCounts, Listed, ListsLater
<1> HIDE DEF n
<1>5. n <= n
  BY <1>2
<1>6. /\ Cardinality(DOMAIN count[s]) \in Nat
      /\ Cardinality(DOMAIN count[s])
           <= Span[s] \div Size[s] + 1 + (n \div Size[s] - n \div Size[s])
  BY <1>2, <1>4, <1>5, BucketsBetween
<1>7. n \div Size[s] \in Int /\ Span[s] \div Size[s] \in Int
  BY <1>2, ConstantsAssumption
<1> QED  BY <1>6, <1>7

(* A start refuses a file this program wrote only because it is too big,   *)
(* because of a key text the store takes and the loader does not, or       *)
(* because of a bucket begun after save() read the clock, whatever the     *)
(* lag, the texts and the sizes.  The buckets divide the hour and the day, *)
(* as they do in the code (save, load, _window_from, restore).             *)
THEOREM RefusalsExplained ==
  ASSUME \A s \in Spans : Span[s] % Size[s] = 0
  PROVE  LSSpec => []RefusalExplained
<1>1. SaverInv /\ FileInv => RefusalExplained
  <2> SUFFICES ASSUME SaverInv, FileInv, disk # NoFile PROVE RefusalExplained
    BY DEF RefusalExplained
  <2> DEFINE lists == {disk.local} \cup {disk.keys[t] : t \in DOMAIN disk.keys}
  <2>1. FileOk(disk) /\ FileFits(disk) /\ clock \in Nat /\ ClockSkew \in Nat
    BY SaverAssumption DEF SaverInv, Files, FileInv, IInv, TypeOK
  <2>2. disk.saved <= clock + ClockSkew /\ Cardinality(DOMAIN disk.keys) <= Capacity
    BY <2>1 DEF FileOk, FileFits
  <2>3. \A count \in lists : Plausible(count) \/ ListsLater(count, disk.saved)
    BY OnTimeIsPlausible
  <2>4. ASSUME ~Oversized(disk), DOMAIN disk.keys \cap BadTexts = {},
               \A count \in lists : ~ListsLater(count, disk.saved)
        PROVE  Loads(disk, clock)
    <3>1. Plausible(disk.local) /\ \A t \in DOMAIN disk.keys : Plausible(disk.keys[t])
      BY <2>3, <2>4
    <3> QED  BY <2>2, <2>4, <3>1 DEF Loads
  <2> QED  BY <2>2, <2>3, <2>4 DEF RefusalExplained
<1> QED  BY <1>1, FilesFit, PTL

(* However late a save or a session read the clock, a file lists at most   *)
(* the buckets of a full span and those that begin in the time of a lag:   *)
(* one more than the loader takes, if that is shorter than a bucket.       *)
THEOREM SavedFilesNearlyLoad ==
  ASSUME \A s \in Spans : Span[s] % Size[s] = 0 /\ MaxLag <= Size[s]
  PROVE  LSSpec => [](disk # NoFile =>
           /\ Cardinality(DOMAIN disk.keys) <= Capacity
           /\ \A s \in Spans :
                /\ Cardinality(DOMAIN disk.local[s]) <= Span[s] \div Size[s] + 2
                /\ \A t \in DOMAIN disk.keys :
                     Cardinality(DOMAIN disk.keys[t][s]) <= Span[s] \div Size[s] + 2)
<1> DEFINE Few(count) == \A s \in Spans : Cardinality(DOMAIN count[s]) <= Span[s] \div Size[s] + 2
           Fits == disk # NoFile =>
             /\ Cardinality(DOMAIN disk.keys) <= Capacity
             /\ \A s \in Spans :
                  /\ Cardinality(DOMAIN disk.local[s]) <= Span[s] \div Size[s] + 2
                  /\ \A t \in DOMAIN disk.keys :
                       Cardinality(DOMAIN disk.keys[t][s]) <= Span[s] \div Size[s] + 2
<1>1. SaverInv /\ FileInv => Fits
  <2> SUFFICES ASSUME SaverInv, FileInv, disk # NoFile
               PROVE  /\ Cardinality(DOMAIN disk.keys) <= Capacity
                      /\ \A count \in {disk.local} \cup {disk.keys[t] : t \in DOMAIN disk.keys} :
                           Few(count)
    OBVIOUS
  <2>1. FileOk(disk) /\ FileFits(disk) /\ clock \in Nat
    BY DEF SaverInv, Files, FileInv, IInv, TypeOK
  <2>2. disk.saved \in Nat
    BY <2>1 DEF FileOk
  <2>3. ASSUME NEW s \in Spans PROVE Late(s, disk.saved) \in Int /\ Late(s, disk.saved) <= 1
    <3> DEFINE z == Size[s]
               n == disk.saved
    <3>1. z \in Nat \ {0} /\ MaxLag \in Nat /\ MaxLag <= z /\ n \in Nat
      BY <2>2, ConstantsAssumption
    <3> HIDE DEF z, n
    <3> DEFINE p == (n + MaxLag) \div z
               q == n \div z
               g == (n + MaxLag) % z
               h == n % z
    <3>2. /\ p \in Int /\ q \in Int /\ g \in 0 .. (z - 1) /\ h \in 0 .. (z - 1)
          /\ n + MaxLag = z * p + g /\ n = z * q + h
      BY <3>1
    <3> HIDE DEF p, q, g, h
    <3>3. z * (p - q - 1) = z * p - z * q - z
      BY <3>1, <3>2
    <3>4. z * p \in Int /\ z * q \in Int
      BY <3>1, <3>2
    <3>5. z * (p - q - 1) < z
      BY <3>1, <3>2, <3>3, <3>4
    <3>6. ASSUME p - q - 1 >= 1 PROVE FALSE
      <4>1. \A x \in Int : x >= 1 => z * x >= z
        BY <3>1
      <4> QED  BY <3>1, <3>2, <3>5, <3>6, <4>1
    <3> QED  BY <3>2, <3>6 DEF Late, z, n, p, q
  <2>4. \A s \in Spans : Span[s] \div Size[s] \in Int
    BY ConstantsAssumption
  <2> QED  BY <2>1, <2>3, <2>4, FilesListFew DEF FileFits
<1> HIDE DEF Fits
<1>2. LSSpec => []Fits
  BY <1>1, FilesFit, PTL
<1> QED  BY <1>2 DEF Fits
=============================================================================
