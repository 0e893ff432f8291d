------------------------------ MODULE LimitState ------------------------------
(***************************************************************************)
(* The sending-limit windows across restarts: limitstate.py beside the     *)
(* store of QuotaStore.  A saver thread exports the committed counts every *)
(* SaveInterval and replaces the snapshot file; a clean stop saves once    *)
(* more; a crash loses the memory; a start loads the file strictly, or     *)
(* starts empty.                                                           *)
(***************************************************************************)
EXTENDS QuotaStore

CONSTANTS
  SaveInterval,  \* SAVE_INTERVAL
  ClockSkew,     \* CLOCK_SKEW
  BadTexts,      \* the texts restore() refuses: empty, or longer than MAX_KEY_TEXT
  MaxBytes       \* MAX_STATE_BYTES, in the units of Bytes

ASSUME SaverAssumption ==
  /\ SaveInterval \in Nat \ {0} /\ {ClockSkew, MaxBytes} \subseteq Nat
  /\ BadTexts \subseteq Texts

VARIABLES
  phase,    \* "up", "stopping" (libmilter returned), "final" (last export taken), "down"
  writing,  \* the snapshot the saver exported and has not written yet, or NoFile
  disk,     \* the snapshot file, or NoFile
  wakes,    \* when the saver's wait ends
  failed,   \* history: the last save failed
  known     \* history: the committed messages the memory was told of

saverVars == <<phase, writing, disk, wakes, failed, known>>
allVars == <<keys, local, lastSweep, res, committed, clock,
             phase, writing, disk, wakes, failed, known>>

\* No snapshot: it knows of no message.
NoFile == [knows |-> {}]
-----------------------------------------------------------------------------
\* Mutant of HasCounts: a key is saved for its hour only.
HasHourCounts(w) == DOMAIN w.count["hour"] # {}

HasCounts(w) == \E s \in Spans : DOMAIN w.count[s] # {}

\* Mutant of Snapshot: what memory holds is written without being expired.
SnapshotUnexpired(now) ==
  [saved |-> now,
   keys  |-> [t \in {x \in DOMAIN keys : HasCounts(keys[x])} |-> keys[t].count],
   local |-> local.count,
   knows |-> known]

\* export(now): committed counts only; `knows' is history, not part of the file.
Snapshot(now) ==
  [saved |-> now,
   keys  |-> [t \in {x \in DOMAIN keys : HasCounts(Expire(keys[x], now))} |->
                Expire(keys[t], now).count],
   local |-> Expire(local, now).count,
   knows |-> known]

TakeSnapshot(now) ==
  /\ writing' = Snapshot(now)
  /\ keys' = [t \in DOMAIN keys |-> Expire(keys[t], now)]
  /\ local' = Expire(local, now)
  /\ UNCHANGED <<lastSweep, res, committed, clock>>

\* The bucket lists restore() accepts: no longer than a full span.
Plausible(count) ==
  \A s \in Spans : Cardinality(DOMAIN count[s]) <= Span[s] \div Size[s] + 1

Listings(count) == UNION {{s} \X DOMAIN count[s] : s \in Spans}

\* The size of a file, in units: one for each key and one for each bucket it lists.
Bytes(file) ==
  Cardinality(DOMAIN file.keys) + Cardinality(Listings(file.local))
    + Cardinality(UNION {{t} \X Listings(file.keys[t]) : t \in DOMAIN file.keys})

Oversized(file) == Bytes(file) > MaxBytes

\* What load() and restore() accept of a file they can read.
Loads(file, now) ==
  /\ file # NoFile
  /\ ~Oversized(file)
  /\ file.saved <= now + ClockSkew
  /\ Cardinality(DOMAIN file.keys) <= Capacity
  /\ \A t \in DOMAIN file.keys : t \notin BadTexts /\ Plausible(file.keys[t])
  /\ Plausible(file.local)

\* Mutant of Restored: the bucket that starts now is taken for a future one.
RestoredPast(count, now) ==
  Expire([count |-> [s \in Spans |->
                       [b \in {x \in DOMAIN count[s] : x < now} |-> count[s][b]]],
          reserved |-> 0], now)

\* _window_from: buckets of the future are dropped, then the old ones.
Restored(count, now) ==
  Expire([count |-> [s \in Spans |->
                       [b \in {x \in DOMAIN count[s] : x <= now} |-> count[s][b]]],
          reserved |-> 0], now)
-----------------------------------------------------------------------------
LSInit ==
  /\ Init
  /\ phase = "up" /\ writing = NoFile /\ disk = NoFile
  /\ wakes = SaveInterval /\ failed = FALSE /\ known = {}

\* A session's call on the store of the running daemon.
Session(m) ==
  /\ phase = "up"
  /\ \/ /\ (\E k \in LimitKeys : Begin(m, k)) \/ Release(m)
        /\ UNCHANGED known
     \/ \E now \in Times : Reserve(m, now) /\ UNCHANGED known
     \/ \E now \in Times : Commit(m, now) /\ known' = known \cup {m}
  /\ UNCHANGED <<phase, writing, disk, wakes, failed>>

\* Mutant of SaveDue: the timer fires one unit late.
SaveLate == phase = "up" /\ clock > wakes

\* The saver is scheduled when its wait ends, and a save takes no time.
SaveDue == phase = "up" /\ clock >= wakes
Urgent == SaveDue \/ writing # NoFile \/ phase = "stopping"

Pass ==
  /\ ~Urgent
  /\ Tick
  /\ UNCHANGED saverVars

\* _run: the wait timed out; export under the store's lock.
Export(now) ==
  /\ SaveDue /\ writing = NoFile
  /\ TakeSnapshot(now)
  /\ UNCHANGED <<phase, disk, wakes, failed, known>>

\* The temporary file is complete and renamed over the old one.
Replace ==
  /\ writing # NoFile
  /\ disk' = writing /\ writing' = NoFile
  /\ wakes' = clock + SaveInterval /\ failed' = FALSE
  /\ UNCHANGED <<keys, local, lastSweep, res, committed, clock, phase, known>>

\* An OSError, before the rename or in the sync of the directory after it: reported,
\* retried at the next interval.
SaveFails ==
  /\ writing # NoFile
  /\ disk' \in {disk, writing} /\ writing' = NoFile
  /\ wakes' = clock + SaveInterval /\ failed' = TRUE
  /\ UNCHANGED <<keys, local, lastSweep, res, committed, clock, phase, known>>

\* SIGTERM: runmilter returns and no session runs any more.
Stop ==
  /\ phase = "up"
  /\ phase' = "stopping"
  /\ UNCHANGED <<keys, local, lastSweep, res, committed, clock,
                 writing, disk, wakes, failed, known>>

\* Mutant of FinalExport: the save in progress is taken for the last one.
FinalExportOnce(now) ==
  /\ phase = "stopping"
  /\ phase' = "final"
  /\ IF writing = NoFile
     THEN TakeSnapshot(now)
     ELSE UNCHANGED <<keys, local, lastSweep, res, committed, clock, writing>>
  /\ UNCHANGED <<disk, wakes, failed, known>>

\* Saver.stop: the thread is joined, then one more save.
FinalExport(now) ==
  /\ phase = "stopping" /\ writing = NoFile
  /\ phase' = "final"
  /\ TakeSnapshot(now)
  /\ UNCHANGED <<disk, wakes, failed, known>>

Forget ==
  /\ phase' = "down" /\ writing' = NoFile /\ known' = {}
  /\ keys' = [t \in {} |-> EmptyWindow] /\ local' = EmptyWindow
  /\ lastSweep' = Never
  /\ res' = [m \in DOMAIN committed |-> res[m]]
  /\ UNCHANGED <<committed, clock, disk, wakes, failed>>

Exit == phase = "final" /\ writing = NoFile /\ Forget

Crash == phase # "down" /\ Forget

\* restore() replaces the windows by those of the file.
Load ==
  /\ Loads(disk, clock)
  /\ LET restored == [t \in DOMAIN disk.keys |-> Restored(disk.keys[t], clock)]
     IN  keys' = [t \in {x \in DOMAIN restored : HasCounts(restored[x])} |-> restored[t]]
  /\ local' = Restored(disk.local, clock)
  /\ known' = disk.knows

\* A new store, load(), and the saver thread starts waiting.  Without a file, with one
\* that is refused or with one that cannot be read (an OSError) the windows stay empty.
Start ==
  /\ phase = "down"
  /\ phase' = "up" /\ wakes' = clock + SaveInterval /\ failed' = FALSE
  /\ Load \/ UNCHANGED <<keys, local, known>>
  /\ UNCHANGED <<lastSweep, res, committed, clock, writing, disk>>

LSNext ==
  \/ \E m \in Messages : Session(m)
  \/ Pass
  \/ \E now \in Times : Export(now) \/ FinalExport(now)
  \/ Replace \/ SaveFails \/ Stop \/ Exit \/ Crash \/ Start

LSSpec == LSInit /\ [][LSNext]_allVars
-----------------------------------------------------------------------------
OnDisk == disk.knows

IsSnapshot(file) ==
  /\ file.saved \in 0 .. clock
  /\ DOMAIN file.keys \subseteq Texts
  /\ \A t \in DOMAIN file.keys : \A s \in Spans : IsCounts(s, file.keys[t][s])
  /\ \A s \in Spans : IsCounts(s, file.local[s])
  /\ file.knows \subseteq DOMAIN committed

(* The shape of the saver's state and of the files it writes (Saver, save).*)
SaverTypeOK ==
  /\ TypeOK
  /\ phase \in {"up", "stopping", "final", "down"}
  /\ writing = NoFile \/ IsSnapshot(writing)
  /\ disk = NoFile \/ IsSnapshot(disk)
  /\ wakes \in Nat /\ failed \in BOOLEAN /\ known \subseteq DOMAIN committed

(* What the running daemon counts is exactly what was delivered in the     *)
(* span by the messages it was told of, by its own commits or by the file  *)
(* it loaded: a restart neither doubles nor mixes counts, and downtime     *)
(* ages them.                                                              *)
MemoryExact ==
  phase = "up" =>
    \A s \in Spans :
      LET counted == InBuckets(s) \cap known
      IN  /\ \A t \in Texts :
               Cardinality(KeyUnits(counted, t)) =
                 IF t \in DOMAIN keys THEN Total(Expire(keys[t], clock).count[s]) ELSE 0
          /\ Total(Expire(local, clock).count[s]) = Cardinality(LocalUnits(counted))

(* The limit binds across restarts: only deliveries that a crash, a failed *)
(* save or a start without the file lost escape it.                        *)
LimitsOutliveRestarts ==
  phase = "up" /\ ~Observe =>
    \A s \in Spans :
      LET live == (Recent(s) \cap known) \cup Open
      IN  /\ \A t \in Texts : Allows(t, s, Cardinality(KeyUnits(live, t)))
          /\ Cardinality(LocalUnits(live)) <= LocalLimit[s]

(* A file this program wrote is one it accepts: the windows are never      *)
(* reset by a start that finds a snapshot it can read.                     *)
SnapshotLoads == disk # NoFile => Loads(disk, clock)

\* A list names a bucket that began after the time the file says it was saved at.
ListsLater(count, saved) == \E s \in Spans : \E b \in DOMAIN count[s] : b > saved

(* The loader refuses a file this program wrote for three reasons only: it *)
(* is too big, it holds a key text the store takes and the loader does     *)
(* not, or save() read the clock before a commit in a later bucket got the *)
(* lock.  No interleaving of sessions, saves and restarts makes a file     *)
(* fail what restore() checks otherwise: the number of its keys, its time, *)
(* the length of each list (export, restore, _window_from).                *)
RefusalExplained ==
  disk # NoFile =>
    LET lists == {disk.local} \cup {disk.keys[t] : t \in DOMAIN disk.keys}
    IN  /\ Cardinality(DOMAIN disk.keys) <= Capacity
        /\ \A count \in lists : Plausible(count) \/ ListsLater(count, disk.saved)
        /\ \/ Loads(disk, clock)
           \/ Oversized(disk)
           \/ DOMAIN disk.keys \cap BadTexts # {}
           \/ \E count \in lists : ListsLater(count, disk.saved)

(* A crash right now would lose at most the deliveries of the last save    *)
(* interval, and the time a session may lag the clock by, unless saves     *)
(* fail (Saver._run, _eom).                                                *)
LossBounded ==
  phase = "up" /\ ~failed =>
    \A m \in known \ OnDisk : committed[m] + MaxLag >= clock - SaveInterval

(* A clean stop whose last save succeeds leaves every counted delivery on  *)
(* disk, also when it interrupts a periodic save.                          *)
CleanStopKeepsAll ==
  [][phase = "final" /\ writing = NoFile /\ phase' = "down" /\ ~failed
       => OnDisk' = known]_allVars
=============================================================================
