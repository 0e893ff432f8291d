---------------------------- MODULE ActivationProofs ----------------------------
(***************************************************************************)
(* The activation history, for any number of runs, configurations, edits,  *)
(* failures and killed runs: a record never changes, every record's        *)
(* predecessor is an older record, and the first record is of the state    *)
(* before the attachment, which a rollback to it restores in main.cf.  The *)
(* variables keep their types, and what a run overwrites is kept.  For one *)
(* run at a time that nobody kills, and whatever fails: rules the daemon   *)
(* enforces are never open, a record describes what runs, a failed run     *)
(* restores what it found; and, also through killed runs, the history is a *)
(* stack.                                                                  *)
(***************************************************************************)
EXTENDS Activation, SequenceTheorems, TLAPS

\* What the directories, the plans and the work look like, as far as records go.
IsHistory == \E S : backups \in Seq(S)
Shape ==
  /\ IsHistory
  /\ \A i \in DOMAIN backups :
       DOMAIN backups[i] = DOMAIN NewBackup /\ backups[i].sequence \in Nat
  /\ lock \in Runs \cup {"none"}
  /\ DOMAIN plan = Runs
  /\ DOMAIN work = DOMAIN NoWork

\* The sequence numbers have a greatest one.
HasNewest ==
  Records # {} => \E i \in Records : \A j \in Records : backups[j].sequence <= backups[i].sequence

\* A rollback is planned for a record that is not the first.
PlansRecords ==
  \A r \in Runs : plan[r].op = "rollback" =>
    plan[r].record \in Records /\ backups[plan[r].record].predecessor # 0

\* The run at work fills a directory that is not a record yet, after an older record.
FillsFresh ==
  /\ work.dir \in 0..Len(backups) /\ work.dir \notin Records
  /\ work.predecessor \in Records \cup {0}
  /\ work.dir # 0 => work.predecessor < work.dir

HistoryInv == Shape /\ HistoryWellFounded /\ HasNewest /\ PlansRecords /\ FillsFresh
-----------------------------------------------------------------------------
(* The directories are numbered from 1.                                    *)
LEMMA Numbered ==
  ASSUME IsHistory
  PROVE  Len(backups) \in Nat /\ DOMAIN backups = 1..Len(backups)
<1>1. PICK S : backups \in Seq(S)
  BY DEF IsHistory
<1> QED  BY <1>1

(* A new directory is the next one; it is no record.                       *)
LEMMA Appended ==
  ASSUME IsHistory, backups' = Append(backups, NewBackup)
  PROVE  /\ IsHistory' /\ Len(backups)' = Len(backups) + 1
         /\ \A i \in DOMAIN backups : backups'[i] = backups[i]
         /\ backups'[Len(backups) + 1] = NewBackup
<1>1. PICK S : backups \in Seq(S)
  BY DEF IsHistory
<1>2. backups \in Seq(S \cup {NewBackup}) /\ NewBackup \in S \cup {NewBackup}
  BY <1>1
<1>3. backups' \in Seq(S \cup {NewBackup})
  BY <1>2
<1> QED  BY <1>1, <1>2, <1>3 DEF IsHistory

(* Writing into one directory leaves the others; there is no directory 0.  *)
LEMMA Written ==
  ASSUME IsHistory, NEW d \in 0..Len(backups), NEW b, backups' = [backups EXCEPT ![d] = b]
  PROVE  /\ IsHistory' /\ Len(backups)' = Len(backups)
         /\ \A i \in DOMAIN backups : i # d => backups'[i] = backups[i]
         /\ d \in DOMAIN backups => backups'[d] = b
<1>1. PICK S : backups \in Seq(S)
  BY DEF IsHistory
<1> DEFINE T == S \cup {b}
<1>2. backups \in Seq(T) /\ b \in T /\ Len(backups) \in Nat /\ DOMAIN backups = 1..Len(backups)
  BY <1>1
<1> HIDE DEF T
<1>3. CASE d = 0
  <2>1. backups' = backups
    BY <1>2, <1>3
  <2> QED  BY <1>2, <1>3, <2>1 DEF IsHistory
<1>4. CASE d \in 1..Len(backups)
  BY <1>2, <1>4, ExceptSeq DEF IsHistory
<1> QED  BY <1>2, <1>3, <1>4

(* The active record is a record, and the newest one.                      *)
LEMMA ActiveIsNewest ==
  ASSUME Shape, HasNewest
  PROVE  /\ Active \in Records \cup {0}
         /\ Records # {} => /\ Active \in Records
                            /\ \A j \in Records : backups[j].sequence <= backups[Active].sequence
         /\ Records = {} => Active = 0
  BY DEF HasNewest, Active

(* A record is a numbered directory, so never 0.                           *)
LEMMA RecordsAreNumbered ==
  ASSUME Shape
  PROVE  Records \subseteq 1..Len(backups) /\ Len(backups) \in Nat /\ 0 \notin Records
  BY Numbered DEF Shape, Records

(* What a step leaves of the work: nothing, or the rest of it.             *)
LEMMA StartingKeeps ==
  ASSUME NEW w, DOMAIN w = DOMAIN NoWork
  PROVE  /\ DOMAIN Starting(w) = DOMAIN NoWork
         /\ Starting(w).dir = w.dir /\ Starting(w).predecessor = w.predecessor
  BY DEF Starting, NoWork

(* A step keeps the plans and the work: what is left of them is w's, or nothing. *)
Keeps(w) ==
  /\ DOMAIN work' = DOMAIN NoWork
  /\ lock' \in Runs \cup {"none"}
  /\ DOMAIN plan' = Runs
  /\ \A r \in Runs : plan'[r] = plan[r] \/ plan'[r].op # "rollback"
  /\ \/ work'.dir = 0 /\ work'.predecessor = 0
     \/ work'.dir = w.dir /\ work'.predecessor = w.predecessor

LEMMA ContinueKeeps ==
  ASSUME Shape, NEW w, DOMAIN w = DOMAIN NoWork, Continue(w)
  PROVE  Keeps(w)
  BY DEF Shape, Continue, Keeps, NoWork, NoPlan

LEMMA DoneKeeps ==
  ASSUME Shape, Done
  PROVE  Keeps(work)
<1>1. /\ DOMAIN Starting(work) = DOMAIN NoWork
      /\ Starting(work).dir = work.dir /\ Starting(work).predecessor = work.predecessor
  BY StartingKeeps DEF Shape
<1>2. /\ DOMAIN Rest(Starting(work)) = DOMAIN NoWork
      /\ Rest(Starting(work)).dir = work.dir
      /\ Rest(Starting(work)).predecessor = work.predecessor
  BY <1>1 DEF Rest, NoWork
<1>3. Keeps(Rest(Starting(work)))
  BY <1>2, ContinueKeeps DEF Done
<1> QED  BY <1>2, <1>3 DEF Keeps

(* A step that writes no directory.                                        *)
LEMMA NothingWritten ==
  ASSUME HistoryInv, UNCHANGED backups, Keeps(work)
  PROVE  HistoryInv'
<1>1. Records' = Records
  BY DEF Records
<1>2. Shape'
  BY DEF HistoryInv, Shape, IsHistory, Keeps
<1>3. HistoryWellFounded' /\ HasNewest'
  BY <1>1 DEF HistoryInv, HistoryWellFounded, HasNewest
<1>4. PlansRecords'
  BY <1>1 DEF HistoryInv, PlansRecords, Keeps, NoPlan
<1>5. FillsFresh'
  BY <1>1, Numbered, RecordsAreNumbered DEF HistoryInv, Shape, FillsFresh, Keeps
<1> QED  BY <1>2, <1>3, <1>4, <1>5 DEF HistoryInv

(* A new directory, after an older record: no record changes.              *)
LEMMA DirectoryAdded ==
  ASSUME HistoryInv, NEW kind, NEW predecessor \in Records \cup {0}, NewDirectory(kind, predecessor)
  PROVE  /\ HistoryInv' /\ \A i \in Records : i \in Records' /\ backups'[i] = backups[i]
         /\ Records' = Records
<1> DEFINE w == [Rest(work) EXCEPT !.dir = Len(backups) + 1, !.kind = kind, !.predecessor = predecessor]
<1>1. backups' = Append(backups, NewBackup) /\ Continue(w)
  BY DEF NewDirectory
<1>2. /\ IsHistory' /\ Len(backups)' = Len(backups) + 1 /\ Len(backups) \in Nat
      /\ DOMAIN backups = 1..Len(backups) /\ DOMAIN backups' = 1..(Len(backups) + 1)
      /\ \A i \in DOMAIN backups : backups'[i] = backups[i]
      /\ backups'[Len(backups) + 1] = NewBackup
  BY <1>1, Numbered, Appended DEF HistoryInv, Shape, IsHistory
<1>3. Records' = Records
  BY <1>2 DEF Records, NewBackup, RecordKinds
<1>4. \A i \in Records : i \in DOMAIN backups /\ backups'[i] = backups[i]
  BY <1>2 DEF Records
<1>5. DOMAIN w = DOMAIN NoWork /\ w.dir = Len(backups) + 1 /\ w.predecessor = predecessor
  BY DEF HistoryInv, Shape, Rest, NoWork
<1> HIDE DEF w
<1>6. Keeps(w)
  BY <1>1, <1>5, ContinueKeeps DEF HistoryInv
<1>7. Shape'
  <2>1. \A i \in DOMAIN backups' :
          DOMAIN backups'[i] = DOMAIN NewBackup /\ backups'[i].sequence \in Nat
    BY <1>2 DEF HistoryInv, Shape, NewBackup
  <2> QED  BY <1>2, <1>6, <2>1 DEF Shape, Keeps
<1>8. HistoryWellFounded' /\ HasNewest'
  BY <1>3, <1>4 DEF HistoryInv, HistoryWellFounded, HasNewest
<1>9. PlansRecords'
  BY <1>3, <1>4, <1>6 DEF HistoryInv, PlansRecords, Keeps
<1>10. FillsFresh'
  BY <1>2, <1>3, <1>5, <1>6, RecordsAreNumbered DEF HistoryInv, FillsFresh, Keeps
<1> QED  BY <1>3, <1>4, <1>7, <1>8, <1>9, <1>10 DEF HistoryInv

(* Writing into the directory of the work, of which no record is made.     *)
LEMMA DirectoryWritten ==
  ASSUME HistoryInv, NEW field, NEW value, Put(field, value), Keeps(work),
         field \in {"before", "files"} \/ (field = "kind" /\ value = "failed")
  PROVE  /\ HistoryInv' /\ \A i \in Records : i \in Records' /\ backups'[i] = backups[i]
         /\ Records' = Records
<1> DEFINE b == [backups[work.dir] EXCEPT ![field] = value]
<1>1. backups' = [backups EXCEPT ![work.dir] = b]
  BY DEF Put
<1>2. IsHistory /\ work.dir \in 0..Len(backups)
  BY DEF HistoryInv, Shape, FillsFresh
<1>3. work.dir \in DOMAIN backups =>
        /\ DOMAIN b = DOMAIN NewBackup /\ b.sequence = backups[work.dir].sequence
        /\ b.kind \notin RecordKinds
  BY DEF HistoryInv, Shape, FillsFresh, Records, RecordKinds, NewBackup
<1> HIDE DEF b
<1>4. /\ IsHistory' /\ Len(backups)' = Len(backups)
      /\ \A i \in DOMAIN backups : i # work.dir => backups'[i] = backups[i]
      /\ work.dir \in DOMAIN backups => backups'[work.dir] = b
  BY <1>1, <1>2, Written
<1>5. DOMAIN backups' = DOMAIN backups
  BY <1>1
<1>6. Records' = Records /\ \A i \in Records : backups'[i] = backups[i]
  BY <1>3, <1>4, <1>5 DEF HistoryInv, FillsFresh, Records
<1>7. Shape'
  <2>1. \A i \in DOMAIN backups' :
          DOMAIN backups'[i] = DOMAIN NewBackup /\ backups'[i].sequence \in Nat
    BY <1>3, <1>4, <1>5 DEF HistoryInv, Shape
  <2> QED  BY <1>4, <2>1 DEF Shape, Keeps
<1>8. HistoryWellFounded' /\ HasNewest'
  BY <1>6 DEF HistoryInv, HistoryWellFounded, HasNewest
<1>9. PlansRecords'
  BY <1>6 DEF HistoryInv, PlansRecords, Keeps
<1>10. FillsFresh'
  BY <1>4, <1>6, Numbered, RecordsAreNumbered DEF HistoryInv, Shape, FillsFresh, Keeps
<1> QED  BY <1>6, <1>7, <1>8, <1>9, <1>10 DEF HistoryInv

(* The manifest: one record more, with a sequence number of its own.       *)
LEMMA RecordAdded ==
  ASSUME HistoryInv, WriteManifest
  PROVE  /\ HistoryInv' /\ \A i \in Records : i \in Records' /\ backups'[i] = backups[i]
         /\ Records' \subseteq Records \cup {work.dir}
<1> DEFINE
      next == IF Active = 0 THEN 1 ELSE backups[Active].sequence + 1
      b == [backups[work.dir] EXCEPT
              !.kind = work.kind, !.how = plan[lock].op, !.predecessor = work.predecessor,
              !.state = files, !.sequence = next]
      w == [Rest(work) EXCEPT !.dir = 0]
<1>1. backups' = [backups EXCEPT ![work.dir] = b] /\ Continue(w)
  BY DEF WriteManifest
<1>2. /\ IsHistory /\ work.dir \in 0..Len(backups) /\ work.dir \notin Records
      /\ DOMAIN backups = 1..Len(backups) /\ Len(backups) \in Nat
  BY Numbered DEF HistoryInv, Shape, FillsFresh
<1>3. next \in Nat /\ \A j \in Records : backups[j].sequence < next
  <2>1. \A j \in Records : backups[j].sequence \in Nat
    BY DEF HistoryInv, Shape, Records
  <2>2. CASE Records = {}
    BY <2>2, ActiveIsNewest DEF HistoryInv
  <2>3. CASE Records # {}
    BY <2>1, <2>3, ActiveIsNewest, RecordsAreNumbered DEF HistoryInv
  <2> QED  BY <2>2, <2>3
<1> HIDE DEF next
<1>4. work.dir \in DOMAIN backups =>
        /\ DOMAIN b = DOMAIN NewBackup /\ b.sequence = next
        /\ b.predecessor = work.predecessor
  BY DEF HistoryInv, Shape, NewBackup
<1>5. DOMAIN w = DOMAIN NoWork /\ w.dir = 0 /\ w.predecessor = work.predecessor
  BY DEF HistoryInv, Shape, Rest, NoWork
<1> HIDE DEF b, w
<1>6. Keeps(w)
  BY <1>1, <1>5, ContinueKeeps DEF HistoryInv
<1>7. /\ IsHistory' /\ Len(backups)' = Len(backups) /\ DOMAIN backups' = DOMAIN backups
      /\ \A i \in DOMAIN backups : i # work.dir => backups'[i] = backups[i]
      /\ work.dir \in DOMAIN backups => backups'[work.dir] = b
  BY <1>1, <1>2, Written
<1>8. /\ Records \subseteq Records' /\ Records' \subseteq Records \cup {work.dir}
      /\ work.dir \in Records' => work.dir \in DOMAIN backups
      /\ \A i \in Records : backups'[i] = backups[i]
  BY <1>2, <1>7 DEF Records
<1>9. Shape'
  <2>1. \A i \in DOMAIN backups' :
          DOMAIN backups'[i] = DOMAIN NewBackup /\ backups'[i].sequence \in Nat
    BY <1>3, <1>4, <1>7 DEF HistoryInv, Shape
  <2> QED  BY <1>6, <1>7, <2>1 DEF Shape, Keeps
<1>10. HistoryWellFounded'
  BY <1>2, <1>4, <1>7, <1>8 DEF HistoryInv, HistoryWellFounded, FillsFresh
<1>11. HasNewest'
  <2>1. \A j \in Records : backups[j].sequence \in Nat
    BY DEF HistoryInv, Shape, Records
  <2>2. CASE work.dir \in Records'
    BY <1>3, <1>4, <1>7, <1>8, <2>1, <2>2 DEF HasNewest
  <2>3. CASE work.dir \notin Records'
    BY <1>8, <2>3 DEF HistoryInv, HasNewest
  <2> QED  BY <2>2, <2>3
<1>12. PlansRecords'
  BY <1>6, <1>8 DEF HistoryInv, PlansRecords, Keeps
<1>13. FillsFresh'
  BY <1>2, <1>5, <1>6, <1>7, <1>8, RecordsAreNumbered DEF HistoryInv, Shape, FillsFresh, Keeps
<1> QED  BY <1>8, <1>9, <1>10, <1>11, <1>12, <1>13 DEF HistoryInv
-----------------------------------------------------------------------------
LEMMA HistoryInit == Init => HistoryInv
<1> SUFFICES ASSUME Init PROVE HistoryInv
  OBVIOUS
<1>1. backups = <<>> /\ backups \in Seq({}) /\ Len(backups) = 0 /\ DOMAIN backups = {}
  BY DEF Init
<1>2. Records = {}
  BY <1>1 DEF Records
<1>3. Shape
  BY <1>1 DEF Init, Shape, IsHistory
<1> QED
  BY <1>1, <1>2, <1>3 DEF Init, HistoryInv, HistoryWellFounded, HasNewest, PlansRecords,
       FillsFresh, NoPlan, NoWork

(* One step per action.  A step either writes no directory, or is one of   *)
(* the three that the lemmas are about.                                    *)
LEMMA HistoryStep ==
  ASSUME HistoryInv, [Next]_vars
  PROVE  HistoryInv' /\ \A i \in Records : i \in Records' /\ backups'[i] = backups[i]
<1> DEFINE Goal == HistoryInv' /\ \A i \in Records : i \in Records' /\ backups'[i] = backups[i]
<1>a. Shape /\ PlansRecords /\ 0 \notin Records
  BY RecordsAreNumbered DEF HistoryInv
<1>b. ASSUME UNCHANGED backups, Keeps(work) PROVE Goal
  BY <1>b, NothingWritten DEF Records
<1>c. ASSUME UNCHANGED backups, UNCHANGED <<lock, plan, work>> PROVE Goal
  BY <1>a, <1>b, <1>c DEF Shape, Keeps
<1>d. ASSUME UNCHANGED backups, Done PROVE Goal
  BY <1>a, <1>b, <1>d, DoneKeeps
<1>1. ASSUME NEW r \in Runs, Inspect(r) \/ PlanApply(r) PROVE Goal
  <2>1. /\ UNCHANGED <<backups, lock, work>>
        /\ \E p : plan' = [plan EXCEPT ![r] = p] /\ p.op \in {"inspected", "apply"}
    <3>1. Inspected.op = "inspected" /\ StagedPlan(plan[r]).op = "apply"
      BY DEF Inspected, StagedPlan, NoPlan
    <3>2. CASE Inspect(r)
      BY <3>1, <3>2 DEF Inspect, NoPlan
    <3>3. CASE PlanApply(r)
      BY <3>1, <3>3 DEF PlanApply
    <3> QED  BY <1>1, <3>2, <3>3
  <2> QED  BY <1>a, <1>b, <2>1 DEF Shape, Keeps
<1>2. ASSUME NEW r \in Runs, PlanRollback(r) PROVE Goal
  <2> DEFINE target == backups[backups[Active].predecessor]
             p == [NoPlan EXCEPT
                     !.op = "rollback", !.record = Active,
                     !.changes = {n \in DOMAIN files : target.files[n] # files[n]},
                     !.restart = daemon.config # target.state.config]
  <2>1. /\ plan' = [plan EXCEPT ![r] = p] /\ Active # 0 /\ backups[Active].predecessor # 0
        /\ UNCHANGED <<backups, lock, work>>
    BY <1>2 DEF PlanRollback
  <2>2. Active \in Records /\ p.record = Active
    BY <2>1, ActiveIsNewest DEF HistoryInv, NoPlan
  <2> HIDE DEF p
  <2>3. Records' = Records
    BY <2>1 DEF Records
  <2>4. PlansRecords'
    BY <1>a, <2>1, <2>2, <2>3 DEF Shape, PlansRecords
  <2> QED
    BY <2>1, <2>3, <2>4 DEF HistoryInv, Shape, IsHistory, HistoryWellFounded, HasNewest, FillsFresh
<1>3. ASSUME NEW r \in Runs, Withdraw(r) PROVE Goal
  BY <1>3, <1>a, <1>b DEF Withdraw, NoPlan, Shape, Keeps
<1>4. ASSUME NEW r \in Runs, NEW todo, NEW source, NEW installs, NEW expected,
             Take(r, todo, source, installs, expected)
      PROVE Goal
  BY <1>4, <1>a, <1>b DEF Take, NoWork, Shape, Keeps
<1>5. ASSUME NEW r \in Runs, Apply(r) PROVE Goal
  BY <1>5, <1>4 DEF Apply
<1>6. ASSUME NEW r \in Runs, Rollback(r) PROVE Goal
  BY <1>6, <1>4 DEF Rollback
<1>7. CASE NewRoot
  BY <1>7, DirectoryAdded DEF NewRoot
<1>8. CASE NewAttempt
  <2>1. Active \in Records \cup {0}
    BY ActiveIsNewest DEF HistoryInv
  <2>2. lock \in Runs
    BY <1>8, <1>a DEF NewAttempt, At, Shape
  <2>3. ASSUME plan[lock].op = "rollback"
        PROVE  Target(plan[lock]).predecessor \in Records \cup {0}
    <3>1. plan[lock].record \in Records /\ backups[plan[lock].record].predecessor # 0
      BY <1>a, <2>2, <2>3 DEF PlansRecords
    <3>2. backups[plan[lock].record].predecessor \in Records
      BY <3>1 DEF HistoryInv, HistoryWellFounded
    <3> QED  BY <3>2 DEF Target, HistoryInv, HistoryWellFounded
  <2> QED  BY <1>8, <2>1, <2>3, DirectoryAdded DEF NewAttempt
<1>9. CASE SaveBefore
  BY <1>9, <1>a, DoneKeeps, DirectoryWritten DEF SaveBefore, Filing
<1>10. CASE CopyRecord
  BY <1>10, <1>a, DoneKeeps, DirectoryWritten DEF CopyRecord, Filing
<1>11. CASE WriteManifest
  BY <1>11, RecordAdded
<1>12. CASE MarkFailed
  BY <1>12, <1>a, DoneKeeps, DirectoryWritten DEF MarkFailed
<1>13. ASSUME NEW name \in {"config", "main", "master"}, Install(name) PROVE Goal
  BY <1>13, <1>d DEF Install
<1>14. CASE ReloadPostfix
  BY <1>14, <1>d DEF ReloadPostfix
<1>15. CASE RestartDaemon
  BY <1>15, <1>d DEF RestartDaemon
<1>16. CASE VerifyConfig
  BY <1>16, <1>d DEF VerifyConfig
<1>17. CASE StepFails
  <2> DEFINE halt == [work EXCEPT !.todo = <<>>]
  <2>1. UNCHANGED backups /\ (Continue(halt) \/ Continue(Undo))
    BY <1>17 DEF StepFails
  <2>2. /\ DOMAIN halt = DOMAIN NoWork /\ halt.dir = work.dir
        /\ halt.predecessor = work.predecessor
    BY <1>a DEF Shape, NoWork
  <2>3. /\ DOMAIN Undo = DOMAIN NoWork /\ Undo.dir = work.dir
        /\ Undo.predecessor = work.predecessor
    BY <1>a, StartingKeeps DEF Shape, Undo, NoWork
  <2> HIDE DEF halt
  <2>4. Keeps(halt) \/ Keeps(Undo)
    BY <1>a, <2>1, <2>2, <2>3, ContinueKeeps
  <2>5. Keeps(work)
    BY <2>2, <2>3, <2>4 DEF Keeps
  <2> QED  BY <1>b, <2>1, <2>5
<1>18. CASE Crash
  <2> DEFINE halt == [work EXCEPT !.todo = <<>>]
  <2>1. UNCHANGED backups /\ Continue(halt)
    BY <1>18 DEF Crash
  <2>2. /\ DOMAIN halt = DOMAIN NoWork /\ halt.dir = work.dir
        /\ halt.predecessor = work.predecessor
    BY <1>a DEF Shape, NoWork
  <2> HIDE DEF halt
  <2>3. Keeps(work)
    BY <1>a, <2>1, <2>2, ContinueKeeps DEF Keeps
  <2> QED  BY <1>b, <2>1, <2>3
<1>19. CASE RecoveryFails
  <2> DEFINE stuck == [work EXCEPT !.todo = <<"mark">>, !.outcome = "stuck"]
  <2>1. UNCHANGED backups /\ Continue(stuck)
    BY <1>19 DEF RecoveryFails
  <2>2. /\ DOMAIN stuck = DOMAIN NoWork /\ stuck.dir = work.dir
        /\ stuck.predecessor = work.predecessor
    BY <1>a DEF Shape, NoWork
  <2> HIDE DEF stuck
  <2>3. Keeps(work)
    BY <1>a, <2>1, <2>2, ContinueKeeps DEF Keeps
  <2> QED  BY <1>b, <2>1, <2>3
<1>20. ASSUME NEW config \in Configs, EditConfig(config) PROVE Goal
  BY <1>20, <1>c DEF EditConfig
<1>21. CASE EditMain
  BY <1>21, <1>c DEF EditMain
<1>22. CASE RestartByHand
  BY <1>22, <1>c DEF RestartByHand
<1>23. CASE UNCHANGED vars
  BY <1>23, <1>c DEF vars
<1> QED
  BY <1>1, <1>2, <1>3, <1>5, <1>6, <1>7, <1>8, <1>9, <1>10, <1>11, <1>12, <1>13, <1>14, <1>15,
     <1>16, <1>17, <1>18, <1>19, <1>20, <1>21, <1>22, <1>23 DEF Next

(* Every record leads back, by older and older records, to a first one.    *)
THEOREM HistoryWellFoundedAlways == Spec => []HistoryWellFounded
<1>1. HistoryInv /\ [Next]_vars => HistoryInv'
  BY HistoryStep
<1>2. HistoryInv => HistoryWellFounded
  BY DEF HistoryInv
<1> QED  BY HistoryInit, <1>1, <1>2, PTL DEF Spec

(* No run, failure, killed run or edit changes or drops a record.          *)
THEOREM RecordsNeverChange == Spec => RecordsImmutable
<1>1. HistoryInv /\ [Next]_vars => HistoryInv'
  BY HistoryStep
<1>2. HistoryInv /\ [Next]_vars => [\A i \in Records : i \in Records' /\ backups'[i] = backups[i]]_vars
  BY HistoryStep
<1> QED  BY HistoryInit, <1>1, <1>2, PTL DEF Spec, RecordsImmutable
-----------------------------------------------------------------------------
(* The restorable start, for rollbacks that are not forced.                *)

SwitchSteps == {"config", "restart", "main", "master", "reload"}

\* The steps of a run, and what is left of them: the root record is filed first, a
\* manifest follows its copies, and a rollback copies the files it has switched.
InOrder(op, todo) ==
  /\ todo \in Seq(Steps)
  /\ \A i \in DOMAIN todo :
       /\ todo[i] = "root" =>
            /\ i = 1 /\ op = "apply" /\ Len(todo) >= 4
            /\ todo[2] = "copy" /\ todo[3] = "manifest" /\ todo[4] = "new"
       /\ todo[i] = "manifest" /\ i > 1 => todo[i - 1] = "copy"
       /\ op = "rollback" /\ todo[i] = "copy" => \A j \in DOMAIN todo : todo[j] = "main" => j < i

Among(step, todo) == \E i \in DOMAIN todo : todo[i] = step
OnlyUndoes(todo) == \A i \in DOMAIN todo : todo[i] \in SwitchSteps \cup {"mark"}
Ahead(step) == Among(step, work.todo)
Detached(f) == f.main.action = "none"
Op == plan[lock].op

\* Until the first record exists nothing has attached Postfix.
StartsDetached == Records = {} /\ ~ByHand => Detached(files) /\ files.master = FALSE

\* A rollback that leaves main.cf alone was planned for the main.cf it goes back to.
PlansFit ==
  \A r \in Runs : plan[r].op = "rollback" =>
    "main" \in plan[r].changes \/ Target(plan[r]).files.main = backups[plan[r].record].state.main

\* What is staged for a host without postwarden differs from its files.
PlansAttach ==
  \A r \in Runs : plan[r].op = "apply" /\ Records = {} /\ ~ByHand => plan[r].diff

WorkShape ==
  /\ Op \in {"apply", "rollback"}
  /\ work.todo # <<>> /\ InOrder(Op, work.todo)
  /\ work.undo \in Seq(SwitchSteps)
  /\ work.outcome # "forward" => OnlyUndoes(work.todo)

\* While the root record is made, nothing has been switched.
RootPhase ==
  Op = "apply" /\ (Head(work.todo) = "root" \/ work.kind = "detached") =>
    /\ work.outcome = "forward" /\ Detached(files) /\ ~Switching
    /\ work.kind = "detached" =>
         \/ /\ Head(work.todo) = "copy" /\ work.dir # 0
            /\ Len(work.todo) >= 3 /\ work.todo[2] = "manifest" /\ work.todo[3] = "new"
         \/ /\ Head(work.todo) = "manifest" /\ work.dir # 0
            /\ Len(work.todo) >= 2 /\ work.todo[2] = "new"
         \/ Head(work.todo) = "new"

\* The first activation makes the root record first.
RootFirst ==
  Op = "apply" /\ Records = {} /\ ~ByHand =>
    Head(work.todo) = "root" \/ (work.kind = "detached" /\ Head(work.todo) # "new")

\* A rollback to the root record detaches Postfix before it copies the files.
GoesDetached ==
  Op = "rollback" =>
    /\ work.kind = "detached" => Target(plan[lock]).kind = "detached"
    /\ work.outcome = "forward" /\ Target(plan[lock]).kind = "detached" =>
         IF Ahead("main") THEN Detached(work.source) ELSE Detached(files)

\* The directory that is filled: one without a predecessor is the root's, and the
\* root's copies do not use postwarden.
FillsRestorable ==
  /\ work.dir # 0 /\ work.predecessor = 0 => work.kind = "detached" \/ ByHand
  /\ work.dir # 0 /\ work.kind = "detached" /\ Head(work.todo) = "manifest" =>
       Detached(backups[work.dir].files)

WorkSound ==
  lock # "none" => WorkShape /\ RootPhase /\ RootFirst /\ GoesDetached /\ FillsRestorable

StartInv ==
  /\ DOMAIN files = DOMAIN NoFiles
  /\ RestorableStart /\ StartsDetached /\ PlansFit /\ WorkSound

(* What is left of the steps after one of them is in order too.            *)
LEMMA TodoTail ==
  ASSUME NEW op, NEW t, InOrder(op, t), t # <<>>
  PROVE  /\ Len(t) \in Nat \ {0} /\ DOMAIN t = 1..Len(t) /\ Head(t) = t[1]
         /\ Len(Tail(t)) = Len(t) - 1 /\ DOMAIN Tail(t) = 1..(Len(t) - 1)
         /\ \A i \in 1..(Len(t) - 1) : Tail(t)[i] = t[i + 1]
         /\ Tail(t) # <<>> => Len(t) >= 2 /\ Head(Tail(t)) = t[2]
         /\ \A i \in DOMAIN Tail(t) : Tail(t)[i] # "root"
         /\ InOrder(op, Tail(t))
         /\ \A i \in DOMAIN Tail(t) : i + 1 \in DOMAIN t /\ Tail(t)[i] = t[i + 1]
<1>1. /\ t \in Seq(Steps) /\ Len(t) \in Nat \ {0} /\ DOMAIN t = 1..Len(t) /\ Head(t) = t[1]
      /\ Tail(t) \in Seq(Steps) /\ Len(Tail(t)) = Len(t) - 1 /\ DOMAIN Tail(t) = 1..(Len(t) - 1)
      /\ \A i \in 1..(Len(t) - 1) : Tail(t)[i] = t[i + 1]
      /\ Tail(t) # <<>> => Len(t) >= 2 /\ Head(Tail(t)) = t[2]
  BY DEF InOrder
<1>2. \A i \in DOMAIN Tail(t) : i + 1 \in DOMAIN t /\ Tail(t)[i] = t[i + 1] /\ i + 1 > 1
  BY <1>1
<1>3. \A i \in DOMAIN Tail(t) : Tail(t)[i] # "root"
  BY <1>1, <1>2 DEF InOrder
<1>4. \A i \in DOMAIN Tail(t) : Tail(t)[i] = "manifest" /\ i > 1 => Tail(t)[i - 1] = "copy"
  BY <1>1, <1>2 DEF InOrder
<1>5. \A i, j \in DOMAIN Tail(t) :
        op = "rollback" /\ Tail(t)[i] = "copy" /\ Tail(t)[j] = "main" => j < i
  BY <1>1, <1>2 DEF InOrder
<1> QED  BY <1>1, <1>2, <1>3, <1>4, <1>5 DEF InOrder

\* How the steps that are left, u, follow from those before, t.
Shortened(op, t, u) ==
  /\ InOrder(op, u) /\ ~Among("root", u) /\ Head(u) # "root"
  /\ Among("main", t) <=> Among("main", u) \/ Head(t) = "main"
  /\ OnlyUndoes(t) => OnlyUndoes(u) /\ Head(t) \in SwitchSteps \cup {"mark"}
  /\ Head(u) = "manifest" => Head(t) = "copy"
  /\ op = "rollback" /\ Head(t) = "copy" => ~Among("main", t)
  /\ Head(t) = "root" => /\ op = "apply" /\ Head(u) = "copy"
                         /\ Len(u) >= 3 /\ u[2] = "manifest" /\ u[3] = "new"
  /\ Head(u) = t[2]
  /\ Len(t) >= 3 => Len(u) >= 2 /\ u[2] = t[3]

LEMMA TailShortens ==
  ASSUME NEW op, NEW t, InOrder(op, t), t # <<>>, Tail(t) # <<>>
  PROVE  Shortened(op, t, Tail(t))
<1> DEFINE u == Tail(t)
<1>1. /\ Len(t) \in Nat \ {0} /\ DOMAIN t = 1..Len(t) /\ Head(t) = t[1]
      /\ Len(u) = Len(t) - 1 /\ DOMAIN u = 1..(Len(t) - 1)
      /\ \A i \in 1..(Len(t) - 1) : u[i] = t[i + 1]
      /\ \A i \in DOMAIN u : i + 1 \in DOMAIN t /\ u[i] = t[i + 1]
      /\ Len(t) >= 2 /\ Head(u) = t[2]
      /\ \A i \in DOMAIN u : u[i] # "root"
      /\ InOrder(op, u)
  BY TodoTail
<1> HIDE DEF u
<1>2. \A i \in DOMAIN t : i = 1 \/ (i - 1 \in DOMAIN u /\ u[i - 1] = t[i])
  <2>1. ASSUME NEW i \in DOMAIN t, i # 1 PROVE i - 1 \in 1..(Len(t) - 1) /\ (i - 1) + 1 = i
    BY <1>1, <2>1
  <2> QED  BY <1>1, <2>1
<1>3. 1 \in DOMAIN t /\ 2 \in DOMAIN t /\ 1 \in DOMAIN u /\ u[1] = t[2]
  BY <1>1
<1>4. Among("main", t) <=> Among("main", u) \/ Head(t) = "main"
  BY <1>1, <1>2, <1>3 DEF Among
<1>5. OnlyUndoes(t) => OnlyUndoes(u) /\ Head(t) \in SwitchSteps \cup {"mark"}
  BY <1>1, <1>3 DEF OnlyUndoes
<1>6. Head(u) = "manifest" => Head(t) = "copy"
  <2>1. t[2] = "manifest" => t[2 - 1] = "copy"
    BY <1>3 DEF InOrder
  <2> QED  BY <1>1, <2>1
<1>7. op = "rollback" /\ Head(t) = "copy" => ~Among("main", t)
  <2>1. op = "rollback" /\ t[1] = "copy" => \A j \in DOMAIN t : t[j] = "main" => j < 1
    BY <1>3 DEF InOrder
  <2> QED  BY <1>1, <2>1 DEF Among
<1>8. Len(t) >= 3 => Len(u) >= 2 /\ u[2] = t[3]
  BY <1>1
<1>9. Head(t) = "root" => /\ op = "apply" /\ Head(u) = "copy"
                         /\ Len(u) >= 3 /\ u[2] = "manifest" /\ u[3] = "new"
  <2>1. t[1] = "root" => /\ op = "apply" /\ Len(t) >= 4
                         /\ t[2] = "copy" /\ t[3] = "manifest" /\ t[4] = "new"
    BY <1>3 DEF InOrder
  <2> QED  BY <1>1, <2>1
<1>10. ~Among("root", u) /\ Head(u) # "root"
  BY <1>1, <1>3 DEF Among
<1> QED  BY <1>1, <1>4, <1>5, <1>6, <1>7, <1>8, <1>9, <1>10 DEF Shortened, u

(* The places of two sequences in their concatenation.                     *)
Joins(s, t, u) ==
  /\ Len(u) = Len(s) + Len(t)
  /\ DOMAIN u = 1..(Len(s) + Len(t))
  /\ \A i \in 1..Len(s) : u[i] = s[i]
  /\ \A i \in 1..Len(t) : u[i + Len(s)] = t[i]
  /\ \A i \in 1..(Len(s) + Len(t)) : u[i] = IF i <= Len(s) THEN s[i] ELSE t[i - Len(s)]

LEMMA Joined ==
  ASSUME NEW S, NEW s \in Seq(S), NEW t \in Seq(S)
  PROVE  s \o t \in Seq(S) /\ Joins(s, t, s \o t)
  BY DEF Joins

LEMMA JoinedHolds ==
  ASSUME NEW S, NEW s \in Seq(S), NEW t \in Seq(S), NEW u, Joins(s, t, u), NEW x
  PROVE  Among(x, u) <=> Among(x, s) \/ Among(x, t)
<1>1. Len(s) \in Nat /\ Len(t) \in Nat /\ DOMAIN s = 1..Len(s) /\ DOMAIN t = 1..Len(t)
  OBVIOUS
<1>2. \A i \in DOMAIN s : i \in DOMAIN u /\ u[i] = s[i]
  BY <1>1 DEF Joins
<1>3. \A i \in DOMAIN t : i + Len(s) \in DOMAIN u /\ u[i + Len(s)] = t[i]
  BY <1>1 DEF Joins
<1>4. \A i \in DOMAIN u :
        \/ i \in DOMAIN s /\ u[i] = s[i]
        \/ i - Len(s) \in DOMAIN t /\ u[i] = t[i - Len(s)]
  BY <1>1 DEF Joins
<1> QED  BY <1>2, <1>3, <1>4 DEF Among

(* The steps with which configure-postfix and rollback start.              *)
LEMMA SwitchSequence ==
  ASSUME NEW p, NEW d, NEW stricter
  PROVE  /\ Switch(p, d, stricter) \in Seq(SwitchSteps)
         /\ Among("main", Switch(p, d, stricter)) <=> p
<1> DEFINE P == IF p THEN PostfixSteps ELSE <<>>
           D == IF d THEN DaemonSteps ELSE <<>>
           t == Switch(p, d, stricter)
<1>1. PostfixSteps \in Seq(SwitchSteps) /\ DaemonSteps \in Seq(SwitchSteps) /\ <<>> \in Seq(SwitchSteps)
  BY DEF PostfixSteps, DaemonSteps, SwitchSteps
<1>2. P \in Seq(SwitchSteps) /\ D \in Seq(SwitchSteps)
  BY <1>1
<1>3. Among("main", PostfixSteps)
  BY DEF PostfixSteps, Among
<1>4. Among("main", P) <=> p
  BY <1>3 DEF Among
<1>5. ~Among("main", D)
  BY DEF DaemonSteps, Among
<1>6. t = P \o D \/ t = D \o P
  BY DEF Switch
<1> HIDE DEF P, D, t
<1>7. CASE t = P \o D
  <2>1. t \in Seq(SwitchSteps) /\ Joins(P, D, t)
    BY <1>2, <1>7, Joined
  <2>2. Among("main", t) <=> Among("main", P) \/ Among("main", D)
    BY <1>2, <2>1, JoinedHolds
  <2> QED  BY <1>4, <1>5, <2>1, <2>2 DEF t
<1>8. CASE t = D \o P
  <2>1. t \in Seq(SwitchSteps) /\ Joins(D, P, t)
    BY <1>2, <1>8, Joined
  <2>2. Among("main", t) <=> Among("main", D) \/ Among("main", P)
    BY <1>2, <2>1, JoinedHolds
  <2> QED  BY <1>4, <1>5, <2>1, <2>2 DEF t
<1> QED  BY <1>6, <1>7, <1>8

LEMMA AttemptInOrder ==
  ASSUME NEW op, NEW s \in Seq(SwitchSteps)
  PROVE  /\ InOrder(op, Attempt(s)) /\ Attempt(s) # <<>> /\ Attempt(s)[1] = "new"
         /\ Len(Attempt(s)) = Len(s) + 5 /\ Len(s) \in Nat
         /\ Among("main", Attempt(s)) <=> Among("main", s)
<1> DEFINE a == <<"new", "save">>
           b == <<"verify">>
           c == <<"copy", "manifest">>
<1>1. /\ a \in Seq(Steps) /\ b \in Seq(Steps) /\ c \in Seq(Steps)
      /\ Len(a) = 2 /\ a[1] = "new" /\ a[2] = "save"
      /\ Len(b) = 1 /\ b[1] = "verify"
      /\ Len(c) = 2 /\ c[1] = "copy" /\ c[2] = "manifest"
  BY DEF Steps
<1>2. SwitchSteps \subseteq Steps
  BY DEF Steps, SwitchSteps
<1>3. s \in Seq(Steps) /\ Len(s) \in Nat /\ DOMAIN s = 1..Len(s)
  BY <1>2
<1>4. \A i \in 1..Len(s) : s[i] \in SwitchSteps
  BY <1>3
<1>5. Attempt(s) = ((a \o s) \o b) \o c
  BY DEF Attempt, RecordSteps
<1> HIDE DEF a, b, c
<1> DEFINE u == a \o s
           v == u \o b
           t == v \o c
<1>a. u = a \o s /\ v = u \o b /\ t = v \o c /\ Attempt(s) = t
  BY <1>5
<1> HIDE DEF u, v, t
<1>6. /\ u \in Seq(Steps) /\ Len(u) = Len(s) + 2
      /\ u[1] = "new" /\ u[2] = "save" /\ \A i \in 1..Len(s) : u[i + 2] = s[i]
  <2>a. u \in Seq(Steps) /\ Joins(a, s, u)
    BY <1>1, <1>3, <1>a, Joined
  <2>1. /\ Len(u) = Len(a) + Len(s)
        /\ \A i \in 1..Len(a) : u[i] = a[i]
        /\ \A i \in 1..Len(s) : u[i + Len(a)] = s[i]
    BY <2>a DEF Joins
  <2> QED  BY <1>1, <1>3, <2>a, <2>1
<1>7. /\ v \in Seq(Steps) /\ Len(v) = Len(s) + 3
      /\ v[1] = "new" /\ v[2] = "save" /\ \A i \in 1..Len(s) : v[i + 2] = s[i]
      /\ v[Len(s) + 3] = "verify"
  <2>a. v \in Seq(Steps) /\ Joins(u, b, v)
    BY <1>1, <1>6, <1>a, Joined
  <2>1. /\ Len(v) = Len(u) + Len(b)
        /\ \A i \in 1..Len(u) : v[i] = u[i]
        /\ \A i \in 1..Len(b) : v[i + Len(u)] = b[i]
    BY <2>a DEF Joins
  <2>2. v[1 + Len(u)] = "verify" /\ 1 + Len(u) = Len(s) + 3
    BY <1>1, <1>3, <1>6, <2>1
  <2>3. \A i \in 1..Len(s) : i + 2 \in 1..Len(u)
    BY <1>3, <1>6
  <2> QED  BY <1>1, <1>3, <1>6, <2>a, <2>1, <2>2, <2>3
<1>8. /\ t \in Seq(Steps) /\ Len(t) = Len(s) + 5 /\ DOMAIN t = 1..(Len(s) + 5) /\ t # <<>>
      /\ t[1] = "new" /\ t[2] = "save" /\ \A i \in 1..Len(s) : t[i + 2] = s[i]
      /\ t[Len(s) + 3] = "verify" /\ t[Len(s) + 4] = "copy" /\ t[Len(s) + 5] = "manifest"
  <2>a. t \in Seq(Steps) /\ Joins(v, c, t)
    BY <1>1, <1>7, <1>a, Joined
  <2>1. /\ Len(t) = Len(v) + Len(c) /\ DOMAIN t = 1..(Len(v) + Len(c))
        /\ \A i \in 1..Len(v) : t[i] = v[i]
        /\ \A i \in 1..Len(c) : t[i + Len(v)] = c[i]
    BY <2>a DEF Joins
  <2>2. /\ t[1 + Len(v)] = "copy" /\ 1 + Len(v) = Len(s) + 4
        /\ t[2 + Len(v)] = "manifest" /\ 2 + Len(v) = Len(s) + 5
    BY <1>1, <1>3, <1>7, <2>1
  <2>3. \A i \in 1..Len(s) : i + 2 \in 1..Len(v)
    BY <1>3, <1>7
  <2>4. Len(t) = Len(s) + 5 /\ Len(t) # 0
    BY <1>1, <1>3, <1>7, <2>1
  <2>5. 1 \in 1..Len(v) /\ 2 \in 1..Len(v) /\ Len(s) + 3 \in 1..Len(v)
    BY <1>3, <1>7
  <2> QED  BY <1>7, <2>a, <2>1, <2>2, <2>3, <2>4, <2>5
<1>10. \A i \in DOMAIN t :
        i \in {1, 2, Len(s) + 3, Len(s) + 4, Len(s) + 5} \/ (i - 2 \in DOMAIN s /\ t[i] = s[i - 2])
  <2>1. ASSUME NEW i \in DOMAIN t, i \notin {1, 2, Len(s) + 3, Len(s) + 4, Len(s) + 5}
        PROVE  i - 2 \in 1..Len(s) /\ (i - 2) + 2 = i
    BY <1>3, <1>8, <2>1
  <2> QED  BY <1>3, <1>8, <2>1
<1>11. \A i \in DOMAIN t : /\ t[i] # "root"
                           /\ t[i] = "manifest" => i = Len(s) + 5
                           /\ t[i] = "copy" => i = Len(s) + 4
                           /\ t[i] = "main" => i - 2 \in DOMAIN s /\ t[i] = s[i - 2]
  BY <1>3, <1>4, <1>8, <1>10 DEF SwitchSteps
<1>12. InOrder(op, t)
  <2>1. \A i \in DOMAIN t : t[i] = "manifest" /\ i > 1 => t[i - 1] = "copy"
    BY <1>3, <1>8, <1>11
  <2>2. \A i, j \in DOMAIN t : t[i] = "copy" /\ t[j] = "main" => j < i
    BY <1>3, <1>8, <1>11
  <2> QED  BY <1>8, <1>11, <2>1, <2>2 DEF InOrder
<1>13. Among("main", t) <=> Among("main", s)
  <2>1. \A i \in DOMAIN s : i + 2 \in DOMAIN t /\ t[i + 2] = s[i]
    BY <1>3, <1>8
  <2> QED  BY <1>11, <2>1 DEF Among
<1> QED  BY <1>3, <1>8, <1>a, <1>12, <1>13

LEMMA AfterRoot ==
  ASSUME NEW r \in Seq(Steps), NEW a, NEW t \in Seq(Steps), Joins(r, a, t),
         Len(r) = 3, r[1] = "root", r[2] = "copy", r[3] = "manifest",
         InOrder("apply", a), a[1] = "new", Len(a) \in Nat, Len(a) >= 5
  PROVE  InOrder("apply", t) /\ t # <<>> /\ t[1] = "root"
<1>3. a \in Seq(Steps) /\ DOMAIN a = 1..Len(a)
  BY DEF InOrder
<1>4. /\ t \in Seq(Steps) /\ Len(t) = Len(a) + 3 /\ DOMAIN t = 1..(Len(a) + 3) /\ t # <<>>
      /\ t[1] = "root" /\ t[2] = "copy" /\ t[3] = "manifest" /\ t[4] = "new"
      /\ \A i \in DOMAIN a : i + 3 \in DOMAIN t /\ t[i + 3] = a[i]
  <2>1. /\ Len(t) = Len(r) + Len(a) /\ DOMAIN t = 1..(Len(r) + Len(a))
        /\ \A i \in 1..Len(r) : t[i] = r[i]
        /\ \A i \in 1..Len(a) : t[i + Len(r)] = a[i]
    BY DEF Joins
  <2>2. t[1 + 3] = "new"
    BY <1>3, <2>1
  <2>3. Len(t) # 0
    BY <1>3, <2>1
  <2> QED  BY <1>3, <2>1, <2>2, <2>3
<1>5. \A i \in DOMAIN t : i \in {1, 2, 3} \/ (i - 3 \in DOMAIN a /\ t[i] = a[i - 3])
  <2>1. ASSUME NEW i \in DOMAIN t, i \notin {1, 2, 3}
        PROVE  i - 3 \in DOMAIN a /\ (i - 3) + 3 = i
    BY <1>3, <1>4, <2>1
  <2> QED  BY <1>4, <2>1
<1>6. \A i \in DOMAIN a : a[i] # "root" \/ i = 1
  BY DEF InOrder
<1>7. \A i \in DOMAIN t : t[i] = "root" => i = 1
  <2>1. ASSUME NEW i \in DOMAIN t, t[i] = "root" PROVE i = 1
    <3>1. CASE i \in {1, 2, 3}
      BY <1>4, <2>1, <3>1
    <3>2. CASE i - 3 \in DOMAIN a /\ t[i] = a[i - 3]
      BY <1>6, <2>1, <3>2
    <3> QED  BY <1>5, <3>1, <3>2
  <2> QED  BY <2>1
<1>8. \A i \in DOMAIN t : t[i] = "manifest" /\ i > 1 => t[i - 1] = "copy"
  <2>1. ASSUME NEW i \in DOMAIN t, t[i] = "manifest", i > 1 PROVE t[i - 1] = "copy"
    <3>1. CASE i \in {1, 2, 3}
      BY <1>4, <2>1, <3>1
    <3>2. CASE i - 3 \in DOMAIN a /\ t[i] = a[i - 3]
      <4> DEFINE k == i - 3
      <4>1. k \in DOMAIN a /\ a[k] = "manifest" /\ k # 1 /\ k \in Nat /\ k > 1 /\ k - 1 \in DOMAIN a
        BY <1>3, <1>4, <2>1, <3>2
      <4>2. a[k - 1] = "copy"
        BY <4>1 DEF InOrder
      <4>3. t[(k - 1) + 3] = a[k - 1] /\ (k - 1) + 3 = i - 1
        BY <1>3, <1>4, <4>1
      <4> QED  BY <4>2, <4>3
    <3> QED  BY <1>5, <3>1, <3>2
  <2> QED  BY <2>1
<1>9. InOrder("apply", t)
  BY <1>3, <1>4, <1>7, <1>8 DEF InOrder
<1> QED  BY <1>4, <1>9

LEMMA RootInOrder ==
  ASSUME NEW s \in Seq(SwitchSteps), NEW t, t = (<<"root">> \o RecordSteps) \o Attempt(s)
  PROVE  InOrder("apply", t) /\ t # <<>> /\ t[1] = "root"
<1> DEFINE r == <<"root">> \o RecordSteps
           a == Attempt(s)
<1>1. r \in Seq(Steps) /\ Len(r) = 3 /\ r[1] = "root" /\ r[2] = "copy" /\ r[3] = "manifest"
  BY DEF RecordSteps, Steps
<1>2. InOrder("apply", a) /\ a[1] = "new" /\ Len(a) = Len(s) + 5 /\ Len(s) \in Nat
  BY AttemptInOrder
<1>3. Len(a) \in Nat /\ Len(a) >= 5
  BY <1>2
<1>4. a \in Seq(Steps)
  BY <1>2 DEF InOrder
<1>5. t = r \o a
  OBVIOUS
<1> HIDE DEF r, a
<1>6. t \in Seq(Steps) /\ Joins(r, a, t)
  BY <1>1, <1>4, <1>5, Joined
<1> QED  BY <1>1, <1>2, <1>3, <1>6, AfterRoot
-----------------------------------------------------------------------------
(* The shortest run only makes a record.                                   *)
LEMMA RecordOnlyInOrder ==
  ASSUME NEW op, NEW t, t = <<"new">> \o RecordSteps
  PROVE  InOrder(op, t) /\ t # <<>> /\ t[1] = "new"
<1>1. <<"new">> \in Seq(Steps) /\ RecordSteps \in Seq(Steps)
  BY DEF RecordSteps, Steps
<1>2. t \in Seq(Steps) /\ Len(t) = 3 /\ DOMAIN t = 1..3
  BY <1>1 DEF RecordSteps, Steps
<1>3. t[1] = "new" /\ t[2] = "copy" /\ t[3] = "manifest" /\ t # <<>>
  BY DEF RecordSteps
<1>4. \A i \in 1..3 : i = 1 \/ i = 2 \/ i = 3
  OBVIOUS
<1> QED  BY <1>2, <1>3, <1>4 DEF InOrder

(* What undoes a switch is made of its steps.                              *)
LEMMA UndoInOrder ==
  ASSUME NEW op, NEW s \in Seq(SwitchSteps), NEW t, t = s \o <<"mark">>
  PROVE  InOrder(op, t) /\ t # <<>> /\ OnlyUndoes(t)
<1>1. SwitchSteps \cup {"mark"} \subseteq Steps
  BY DEF Steps, SwitchSteps
<1>2. s \in Seq(SwitchSteps \cup {"mark"}) /\ <<"mark">> \in Seq(SwitchSteps \cup {"mark"})
  OBVIOUS
<1>3. t \in Seq(SwitchSteps \cup {"mark"}) /\ Len(t) = Len(s) + Len(<<"mark">>)
  BY <1>2, Joined DEF Joins
<1>4. Len(t) # 0 /\ t \in Seq(Steps) /\ \A i \in DOMAIN t : t[i] \in SwitchSteps \cup {"mark"}
  BY <1>1, <1>3
<1> QED  BY <1>4 DEF InOrder, SwitchSteps, OnlyUndoes

LEMMA StartingSound ==
  ASSUME NEW w, DOMAIN w = DOMAIN NoWork, w.undo \in Seq(SwitchSteps)
  PROVE  /\ DOMAIN Starting(w) = DOMAIN NoWork
         /\ Starting(w).undo \in Seq(SwitchSteps)
         /\ Starting(w).todo = w.todo /\ Starting(w).dir = w.dir /\ Starting(w).kind = w.kind
         /\ Starting(w).predecessor = w.predecessor /\ Starting(w).outcome = w.outcome
         /\ Starting(w).source = w.source
<1>1. PostfixSteps \in Seq(SwitchSteps) /\ DaemonSteps \in Seq(SwitchSteps)
  BY DEF PostfixSteps, DaemonSteps, SwitchSteps
<1>2. PostfixSteps \o w.undo \in Seq(SwitchSteps) /\ DaemonSteps \o w.undo \in Seq(SwitchSteps)
  BY <1>1, Joined
<1> QED  BY <1>2 DEF Starting, NoWork

(* A run goes on with what Continue is given, or it has ended.             *)
LEMMA Resumed ==
  ASSUME NEW w, Continue(w)
  PROVE  lock' = "none" \/ (w.todo # <<>> /\ lock' = lock /\ plan' = plan /\ work' = w)
  BY DEF Continue

(* Plans keep fitting while no record changes.                             *)
LEMMA PlansKeepFitting ==
  ASSUME HistoryInv, PlansFit, \A i \in Records : backups'[i] = backups[i],
         \A r \in Runs : plan'[r] = plan[r] \/ plan'[r].op # "rollback"
  PROVE  PlansFit'
<1>1. ASSUME NEW r \in Runs, plan[r].op = "rollback"
      PROVE  plan[r].record \in Records /\ backups[plan[r].record].predecessor \in Records
  BY <1>1 DEF HistoryInv, PlansRecords, HistoryWellFounded
<1> QED  BY <1>1 DEF PlansFit, Target

(* A step of somebody else: the run at work finds its state unchanged.     *)
LEMMA OthersStep ==
  ASSUME HistoryInv, StartInv, UNCHANGED <<backups, lock, work>>,
         lock # "none" => plan'[lock] = plan[lock],
         DOMAIN files' = DOMAIN NoFiles, files'.main.action = files.main.action,
         UNCHANGED files.master, PlansFit'
  PROVE  StartInv'
<1>1. Records' = Records /\ (Detached(files)' <=> Detached(files))
  BY DEF Records, Detached
<1>2. RestorableStart' /\ StartsDetached'
  BY <1>1 DEF StartInv, RestorableStart, StartsDetached
<1>3. ASSUME lock # "none"
      PROVE  /\ Op' = Op /\ Target(plan[lock])' = Target(plan[lock])
             /\ (Switching' <=> Switching) /\ (Ahead("main")' <=> Ahead("main"))
  BY <1>3 DEF Op, Target, Switching, Ahead
<1>4. WorkSound'
  <2> SUFFICES ASSUME lock' # "none"
               PROVE  (WorkShape /\ RootPhase /\ RootFirst /\ GoesDetached /\ FillsRestorable)'
    BY DEF WorkSound
  <2>1. lock # "none" /\ WorkShape /\ RootPhase /\ RootFirst /\ GoesDetached /\ FillsRestorable
    BY DEF StartInv, WorkSound
  <2>2. WorkShape'
    BY <1>3, <2>1 DEF WorkShape
  <2>a. work' = work /\ Op' = Op /\ (Switching' <=> Switching)
    BY <1>3, <2>1
  <2>b. RootPhase'
    BY <1>1, <2>1, <2>a DEF RootPhase
  <2>3. RootFirst'
    BY <1>1, <2>1, <2>a DEF RootFirst
  <2>4. GoesDetached'
    BY <1>3, <2>1 DEF GoesDetached, Detached
  <2>5. FillsRestorable'
    BY <2>1 DEF FillsRestorable, Detached
  <2> QED  BY <2>2, <2>b, <2>3, <2>4, <2>5
<1> QED  BY <1>2, <1>4 DEF StartInv

LEMMA StartInit == Init => StartInv
<1> SUFFICES ASSUME Init PROVE StartInv
  OBVIOUS
<1>1. backups = <<>> /\ Records = {} /\ lock = "none"
  BY DEF Init, Records
<1>2. PICK config \in Configs :
        files = Files(config, Main(0, IF ByHand THEN FailureAction[config] ELSE "none"), ByHand)
  BY DEF Init
<1>3. DOMAIN files = DOMAIN NoFiles
  BY <1>2 DEF Files, NoFiles
<1>4. StartsDetached
  BY <1>2, ActivationAssumption DEF StartsDetached, Detached, Files, Main
<1>5. PlansFit
  BY DEF Init, PlansFit, NoPlan
<1> QED  BY <1>1, <1>3, <1>4, <1>5 DEF StartInv, RestorableStart, WorkSound

LEMMA PlansAttachInit == Init => PlansAttach
BY DEF Init, PlansAttach, NoPlan

(* What a step of the run at work leaves alone, whichever it is.           *)
LEMMA RunsStep ==
  ASSUME HistoryInv, StartInv, lock # "none",
         \A i \in Records : i \in Records' /\ backups'[i] = backups[i], NEW w, Continue(w)
  PROVE  /\ PlansFit'
         /\ lock' # "none" =>
              /\ work' = w /\ Op' = Op /\ lock' = lock /\ w.todo # <<>>
              /\ Op = "rollback" => /\ Target(plan[lock])' = Target(plan[lock])
                                   /\ backups[plan[lock].record].predecessor \in Records
<1>1. \A r \in Runs : plan'[r] = plan[r] \/ plan'[r].op # "rollback"
  BY DEF Continue, HistoryInv, Shape, NoPlan
<1>2. PlansFit'
  BY <1>1, PlansKeepFitting DEF StartInv
<1>3. ASSUME Op = "rollback"
      PROVE  /\ plan[lock].record \in Records
             /\ backups[plan[lock].record].predecessor \in Records
  BY <1>3 DEF Op, HistoryInv, Shape, PlansRecords, HistoryWellFounded
<1>4. ASSUME lock' # "none"
      PROVE  work' = w /\ Op' = Op /\ lock' = lock /\ plan' = plan /\ w.todo # <<>>
  BY <1>4, Resumed DEF Op
<1>5. ASSUME lock' # "none", Op = "rollback"
      PROVE  Target(plan[lock])' = Target(plan[lock])
  BY <1>3, <1>4, <1>5 DEF Target
<1> QED  BY <1>2, <1>3, <1>4, <1>5

(* A step between the ones that make directories and records.              *)
LEMMA DoneSound ==
  ASSUME HistoryInv, StartInv, lock # "none", Done,
         Head(work.todo) \notin {"root", "new", "manifest"},
         \A i \in Records : i \in Records' /\ backups'[i] = backups[i], Records' = Records,
         Head(work.todo) = "save" \/ lock' = "none" \/ (Switching' <=> Switching),
         Head(work.todo) = "copy" /\ work.dir # 0 => backups'[work.dir].files = files,
         IF Head(work.todo) = "main" THEN files'.main = work.source.main
                                     ELSE files'.main.action = files.main.action
  PROVE  WorkSound' /\ PlansFit'
<1> DEFINE w == Rest(Starting(work))
<1>1. WorkShape /\ RootPhase /\ RootFirst /\ GoesDetached /\ FillsRestorable /\ DOMAIN work = DOMAIN NoWork
  BY DEF StartInv, WorkSound, HistoryInv, Shape
<1>2. /\ w.todo = Tail(work.todo) /\ w.undo \in Seq(SwitchSteps)
      /\ w.dir = work.dir /\ w.kind = work.kind /\ w.predecessor = work.predecessor
      /\ w.outcome = work.outcome /\ w.source = work.source
  BY <1>1, StartingSound DEF Rest, NoWork, WorkShape
<1>3. Continue(w)
  BY DEF Done
<1> HIDE DEF w
<1>4. PlansFit'
  BY <1>3, RunsStep
<1>5. ASSUME lock' # "none"
      PROVE  (WorkShape /\ RootPhase /\ RootFirst /\ GoesDetached /\ FillsRestorable)'
  <2>1. /\ work' = w /\ Op' = Op /\ w.todo # <<>>
        /\ Op = "rollback" => Target(plan[lock])' = Target(plan[lock])
    BY <1>3, <1>5, RunsStep
  <2> DEFINE t == work.todo
  <2>2. Shortened(Op, t, w.todo)
    BY <1>1, <1>2, <2>1, TailShortens DEF WorkShape
  <2>3. WorkShape'
    <3>1. InOrder(Op, w.todo) /\ (work.outcome # "forward" => OnlyUndoes(w.todo))
      BY <1>1, <2>2 DEF WorkShape, Shortened
    <3> QED  BY <1>1, <1>2, <2>1, <3>1 DEF WorkShape
  <2>4. Head(w.todo) # "root"
    BY <2>2 DEF Shortened
  <2>5. ASSUME Op = "apply", work.kind = "detached"
        PROVE  /\ Head(t) = "copy" /\ work.dir # 0 /\ work.outcome = "forward" /\ ~Switching
               /\ Detached(files) /\ Detached(files') /\ ~Switching'
               /\ Head(w.todo) = "manifest" /\ Len(w.todo) >= 2 /\ w.todo[2] = "new"
    <3>1. Head(t) = "copy" /\ work.dir # 0 /\ Len(t) >= 3 /\ t[2] = "manifest" /\ t[3] = "new"
      BY <1>1, <2>5 DEF RootPhase
    <3>2. work.outcome = "forward" /\ Detached(files) /\ ~Switching
      BY <1>1, <2>5 DEF RootPhase
    <3>3. Head(w.todo) = "manifest" /\ Len(w.todo) >= 2 /\ w.todo[2] = "new"
      BY <2>2, <3>1 DEF Shortened
    <3>4. Detached(files')
      BY <3>1, <3>2 DEF Detached
    <3>5. ~Switching'
      BY <1>5, <3>1, <3>2
    <3> QED  BY <3>1, <3>2, <3>3, <3>4, <3>5
  <2>6. RootPhase'
    <3>1. ASSUME Op' = "apply", work'.kind = "detached"
          PROVE  /\ work'.outcome = "forward" /\ Detached(files') /\ ~Switching'
                 /\ Head(work'.todo) = "manifest" /\ work'.dir # 0
                 /\ Len(work'.todo) >= 2 /\ work'.todo[2] = "new"
      BY <1>2, <2>1, <2>5, <3>1
    <3>2. Head(work'.todo) # "root"
      BY <2>1, <2>4
    <3> QED  BY <3>1, <3>2 DEF RootPhase
  <2>7. RootFirst'
    BY <1>1, <1>2, <2>1, <2>5 DEF RootFirst
  <2>8. Ahead("main") <=> Ahead("main")' \/ Head(t) = "main"
    BY <2>1, <2>2 DEF Ahead, Shortened
  <2>11. GoesDetached'
    <3> SUFFICES ASSUME Op = "rollback"
                 PROVE  /\ work'.kind = "detached" => Target(plan[lock])'.kind = "detached"
                        /\ work'.outcome = "forward" /\ Target(plan[lock])'.kind = "detached" =>
                             IF Ahead("main")' THEN Detached(work'.source) ELSE Detached(files')
      BY <2>1 DEF GoesDetached, Detached
    <3>1. work.kind = "detached" => Target(plan[lock]).kind = "detached"
      BY <1>1 DEF GoesDetached
    <3>2. ASSUME work.outcome = "forward", Target(plan[lock]).kind = "detached"
          PROVE  IF Ahead("main")' THEN Detached(work.source) ELSE Detached(files')
      <4>1. IF Ahead("main") THEN Detached(work.source) ELSE Detached(files)
        BY <1>1, <3>2 DEF GoesDetached
      <4>2. CASE Head(t) = "main"
        BY <2>8, <4>1, <4>2 DEF Detached
      <4>3. CASE Head(t) # "main"
        BY <2>8, <4>1, <4>3 DEF Detached
      <4> QED  BY <4>2, <4>3
    <3> QED  BY <1>2, <2>1, <3>1, <3>2
  <2>12. FillsRestorable'
    <3>1. ASSUME work.dir # 0, work.kind = "detached", Head(w.todo) = "manifest"
          PROVE  Detached(backups'[work.dir].files)
      <4>1. Head(t) = "copy"
        BY <2>2, <3>1 DEF Shortened
      <4>2. backups'[work.dir].files = files
        BY <3>1, <4>1
      <4>3. work.outcome = "forward"
        BY <1>1, <2>2, <4>1 DEF WorkShape, Shortened, SwitchSteps
      <4>4. CASE Op = "apply"
        BY <2>5, <3>1, <4>2, <4>4 DEF Detached
      <4>5. CASE Op = "rollback"
        <5>1. ~Ahead("main")
          BY <2>2, <4>1, <4>5 DEF Ahead, Shortened
        <5>2. Detached(files)
          BY <1>1, <3>1, <4>3, <4>5, <5>1 DEF GoesDetached
        <5> QED  BY <4>2, <5>2 DEF Detached
      <4> QED  BY <1>1, <4>4, <4>5 DEF WorkShape
    <3>2. work.dir # 0 /\ work.predecessor = 0 => work.kind = "detached" \/ ByHand
      BY <1>1 DEF FillsRestorable
    <3> QED  BY <1>2, <2>1, <3>1, <3>2 DEF FillsRestorable, Detached
  <2> QED  BY <2>3, <2>6, <2>7, <2>11, <2>12
<1> QED  BY <1>4, <1>5 DEF WorkSound

(* A new directory: the root's, or that of the run's own record.           *)
LEMMA NewDirectorySound ==
  ASSUME HistoryInv, StartInv, NewRoot \/ NewAttempt,
         \A i \in Records : i \in Records' /\ backups'[i] = backups[i], Records' = Records
  PROVE  WorkSound' /\ PlansFit'
<1>1. PICK kind, predecessor :
        /\ NewDirectory(kind, predecessor)
        /\ \/ At("root") /\ kind = "detached" /\ predecessor = 0
           \/ At("new") /\ Op = "apply" /\ kind = "activation" /\ predecessor = Active
           \/ /\ At("new") /\ Op = "rollback"
              /\ kind = Target(plan[lock]).kind /\ predecessor = Target(plan[lock]).predecessor
  BY DEF NewRoot, NewAttempt, Op
<1> DEFINE w == [Rest(work) EXCEPT !.dir = Len(backups) + 1, !.kind = kind, !.predecessor = predecessor]
<1>2. /\ backups' = Append(backups, NewBackup) /\ Continue(w) /\ UNCHANGED files /\ lock # "none"
  BY <1>1 DEF NewDirectory, At
<1>3. /\ WorkShape /\ RootPhase /\ RootFirst /\ GoesDetached /\ FillsRestorable
      /\ DOMAIN work = DOMAIN NoWork
  BY <1>2 DEF StartInv, WorkSound, HistoryInv, Shape
<1>4. /\ w.todo = Tail(work.todo) /\ w.undo = work.undo /\ w.dir = Len(backups) + 1
      /\ w.kind = kind /\ w.predecessor = predecessor
      /\ w.outcome = work.outcome /\ w.source = work.source
  BY <1>3 DEF Rest, NoWork
<1>5. Len(backups) \in Nat /\ backups'[Len(backups) + 1] = NewBackup
  BY <1>2, Numbered, Appended DEF HistoryInv, Shape
<1> HIDE DEF w
<1>6. PlansFit'
  BY <1>2, RunsStep
<1>7. ASSUME lock' # "none"
      PROVE  (WorkShape /\ RootPhase /\ RootFirst /\ GoesDetached /\ FillsRestorable)'
  <2>1. /\ work' = w /\ Op' = Op /\ w.todo # <<>>
        /\ Op = "rollback" => /\ Target(plan[lock])' = Target(plan[lock])
                             /\ backups[plan[lock].record].predecessor \in Records
    BY <1>2, <1>7, RunsStep
  <2> DEFINE t == work.todo
  <2>2. Shortened(Op, t, w.todo)
    BY <1>3, <1>4, <2>1, TailShortens DEF WorkShape
  <2>3. WorkShape'
    <3>1. InOrder(Op, w.todo) /\ (work.outcome # "forward" => OnlyUndoes(w.todo))
      BY <1>3, <2>2 DEF WorkShape, Shortened
    <3> QED  BY <1>3, <1>4, <2>1, <3>1 DEF WorkShape
  <2>4. Head(w.todo) # "root" /\ Head(w.todo) # "manifest"
    BY <1>1, <2>2 DEF Shortened, At
  <2>5. ~Switching'
    BY <1>4, <1>5, <2>1 DEF Switching, NewBackup
  <2>6. CASE At("root")
    <3>1. /\ Op = "apply" /\ Head(w.todo) = "copy" /\ Len(w.todo) >= 3
          /\ w.todo[2] = "manifest" /\ w.todo[3] = "new"
      BY <2>2, <2>6 DEF Shortened, At
    <3>2. work.outcome = "forward" /\ Detached(files)
      BY <1>3, <2>6, <3>1 DEF RootPhase, At
    <3>3. w.kind = "detached" /\ w.dir # 0
      BY <1>1, <1>4, <1>5, <2>6 DEF At
    <3>4. RootPhase'
      <4>1. /\ work'.outcome = "forward" /\ Detached(files') /\ ~Switching'
            /\ Head(work'.todo) = "copy" /\ work'.dir # 0
            /\ Len(work'.todo) >= 3 /\ work'.todo[2] = "manifest" /\ work'.todo[3] = "new"
        BY <1>2, <1>4, <2>1, <2>5, <3>1, <3>2, <3>3
      <4> QED  BY <4>1 DEF RootPhase
    <3>5. RootFirst'
      BY <2>1, <3>1, <3>3 DEF RootFirst
    <3>6. GoesDetached'
      BY <2>1, <3>1 DEF GoesDetached
    <3>7. FillsRestorable'
      BY <2>1, <2>4, <3>3 DEF FillsRestorable
    <3> QED  BY <2>3, <3>4, <3>5, <3>6, <3>7
  <2>7. CASE At("new") /\ Op = "apply"
    <3>1. w.kind = "activation" /\ w.predecessor = Active
      BY <1>1, <1>4, <2>7 DEF At
    <3>2. Records = {} => ByHand
      BY <1>3, <2>7 DEF RootFirst, At
    <3>3. RootPhase'
      BY <2>1, <2>4, <3>1 DEF RootPhase
    <3>4. RootFirst'
      BY <3>2 DEF RootFirst
    <3>5. GoesDetached'
      BY <2>1, <2>7 DEF GoesDetached
    <3>6. FillsRestorable'
      <4>1. Active = 0 => Records = {}
        BY ActiveIsNewest, RecordsAreNumbered DEF HistoryInv
      <4> QED  BY <2>1, <3>1, <3>2, <4>1 DEF FillsRestorable
    <3> QED  BY <2>3, <3>3, <3>4, <3>5, <3>6
  <2>8. CASE At("new") /\ Op = "rollback"
    <3>1. w.kind = Target(plan[lock]).kind /\ w.predecessor = Target(plan[lock]).predecessor
      BY <1>1, <1>4, <2>8 DEF At
    <3>2. RootPhase' /\ RootFirst'
      BY <2>1, <2>8 DEF RootPhase, RootFirst
    <3>3. GoesDetached'
      <4>1. Ahead("main")' <=> Ahead("main")
        BY <2>1, <2>2, <2>8 DEF Ahead, Shortened, At
      <4>2. work.outcome = "forward" /\ Target(plan[lock]).kind = "detached" =>
              IF Ahead("main") THEN Detached(work.source) ELSE Detached(files)
        BY <1>3, <2>8 DEF GoesDetached
      <4> QED  BY <1>2, <1>4, <2>1, <2>8, <3>1, <4>1, <4>2 DEF GoesDetached, Detached
    <3>4. FillsRestorable'
      <4>1. Target(plan[lock]).predecessor = 0 => Target(plan[lock]).kind = "detached" \/ ByHand
        BY <2>1, <2>8 DEF StartInv, RestorableStart, Target
      <4> QED  BY <2>1, <2>4, <3>1, <4>1 DEF FillsRestorable
    <3> QED  BY <2>3, <3>2, <3>3, <3>4
  <2> QED  BY <1>1, <2>6, <2>7, <2>8
<1> QED  BY <1>6, <1>7 DEF WorkSound

(* A new record.                                                           *)
LEMMA ManifestSound ==
  ASSUME HistoryInv, StartInv, WriteManifest,
         \A i \in Records : i \in Records' /\ backups'[i] = backups[i],
         Records' \subseteq Records \cup {work.dir}
  PROVE  WorkSound' /\ PlansFit' /\ RestorableStart'
<1> DEFINE
      b == [backups[work.dir] EXCEPT
              !.kind = work.kind, !.how = plan[lock].op, !.predecessor = work.predecessor,
              !.state = files, !.sequence = IF Active = 0 THEN 1 ELSE backups[Active].sequence + 1]
      w == [Rest(work) EXCEPT !.dir = 0]
<1>1. /\ At("manifest") /\ backups' = [backups EXCEPT ![work.dir] = b] /\ Continue(w)
      /\ UNCHANGED files /\ lock # "none" /\ Head(work.todo) = "manifest"
  BY DEF WriteManifest, At
<1>2. /\ WorkShape /\ RootPhase /\ RootFirst /\ GoesDetached /\ FillsRestorable
      /\ DOMAIN work = DOMAIN NoWork
  BY <1>1 DEF StartInv, WorkSound, HistoryInv, Shape
<1>3. /\ w.todo = Tail(work.todo) /\ w.undo = work.undo /\ w.dir = 0 /\ w.kind = work.kind
      /\ w.outcome = work.outcome /\ w.source = work.source
  BY <1>2 DEF Rest, NoWork
<1>4. /\ work.dir \in 0..Len(backups) /\ work.dir \notin Records /\ Len(backups) \in Nat
      /\ DOMAIN backups = 1..Len(backups) /\ IsHistory
  BY Numbered DEF HistoryInv, FillsFresh, Shape
<1>5. work.dir \in DOMAIN backups =>
        b.kind = work.kind /\ b.predecessor = work.predecessor /\ b.files = backups[work.dir].files
  BY DEF HistoryInv, Shape, NewBackup
<1> HIDE DEF b, w
<1>6. DOMAIN backups' = DOMAIN backups /\ (work.dir \in DOMAIN backups => backups'[work.dir] = b)
  BY <1>1, <1>4, Written
<1>7. RestorableStart'
  <2>1. ASSUME work.dir \in Records'
        PROVE  /\ b.predecessor = 0 => b.kind = "detached" \/ ByHand
               /\ b.kind = "detached" => b.files.main.action = "none"
    <3>1. work.dir \in DOMAIN backups /\ work.dir # 0
      BY <1>4, <1>6, <2>1 DEF Records
    <3> QED  BY <1>1, <1>2, <1>5, <3>1 DEF FillsRestorable, Detached
  <2>2. \A i \in Records' : (i \in Records /\ backups'[i] = backups[i]) \/ (i = work.dir /\ backups'[i] = b)
    BY <1>6 DEF Records
  <2> QED  BY <2>1, <2>2 DEF StartInv, RestorableStart
<1>8. PlansFit'
  BY <1>1, RunsStep
<1>9. ASSUME lock' # "none"
      PROVE  (WorkShape /\ RootPhase /\ RootFirst /\ GoesDetached /\ FillsRestorable)'
  <2>1. /\ work' = w /\ Op' = Op /\ w.todo # <<>>
        /\ Op = "rollback" => Target(plan[lock])' = Target(plan[lock])
    BY <1>1, <1>9, RunsStep
  <2> DEFINE t == work.todo
  <2>2. Shortened(Op, t, w.todo)
    BY <1>2, <1>3, <2>1, TailShortens DEF WorkShape
  <2>3. WorkShape'
    <3>1. InOrder(Op, w.todo) /\ (work.outcome # "forward" => OnlyUndoes(w.todo))
      BY <1>2, <2>2 DEF WorkShape, Shortened
    <3> QED  BY <1>2, <1>3, <2>1, <3>1 DEF WorkShape
  <2>4. ASSUME Op = "apply", work.kind = "detached"
        PROVE  /\ Head(w.todo) = "new" /\ work.dir # 0 /\ work.outcome = "forward" /\ Detached(files)
    <3>1. work.dir # 0 /\ t[2] = "new" /\ work.outcome = "forward" /\ Detached(files)
      BY <1>1, <1>2, <2>4 DEF RootPhase
    <3> QED  BY <2>2, <3>1 DEF Shortened
  <2>5. ~Switching' /\ Head(w.todo) # "root"
    BY <1>3, <2>1, <2>2 DEF Switching, Shortened
  <2>6. RootPhase'
    BY <1>1, <1>3, <2>1, <2>4, <2>5 DEF RootPhase, Detached
  <2>7. RootFirst'
    <3>1. ASSUME Op = "apply", Records' = {}, ~ByHand PROVE FALSE
      <4>1. Records = {}
        BY <3>1
      <4>2. work.kind = "detached" /\ work.dir # 0
        BY <1>1, <1>2, <2>4, <3>1, <4>1 DEF RootFirst
      <4>3. work.dir \in DOMAIN backups
        BY <1>4, <4>2
      <4>4. work.dir \in Records'
        BY <1>5, <1>6, <4>2, <4>3 DEF Records, RecordKinds
      <4> QED  BY <3>1, <4>4
    <3> QED  BY <2>1, <3>1 DEF RootFirst
  <2>8. GoesDetached'
    <3>1. Ahead("main")' <=> Ahead("main")
      BY <1>1, <2>1, <2>2 DEF Ahead, Shortened
    <3>2. Op = "rollback" =>
            /\ work.kind = "detached" => Target(plan[lock]).kind = "detached"
            /\ work.outcome = "forward" /\ Target(plan[lock]).kind = "detached" =>
                 IF Ahead("main") THEN Detached(work.source) ELSE Detached(files)
      BY <1>2 DEF GoesDetached
    <3> QED  BY <1>1, <1>3, <2>1, <3>1, <3>2 DEF GoesDetached, Detached
  <2>9. FillsRestorable'
    BY <1>3, <2>1 DEF FillsRestorable
  <2> QED  BY <2>3, <2>6, <2>7, <2>8, <2>9
<1> QED  BY <1>7, <1>8, <1>9 DEF WorkSound

(* A step that fails, and a run that is killed.                            *)
LEMMA FailureSound ==
  ASSUME HistoryInv, StartInv, StepFails \/ RecoveryFails \/ Crash,
         \A i \in Records : i \in Records' /\ backups'[i] = backups[i]
  PROVE  WorkSound' /\ PlansFit'
<1>1. PICK w :
        /\ Continue(w)
        /\ \/ w.todo = <<>>
           \/ Switching /\ w = Undo
           \/ work.outcome # "forward" /\ w = [work EXCEPT !.todo = <<"mark">>, !.outcome = "stuck"]
  <2>1. [work EXCEPT !.todo = <<>>].todo = <<>>
    BY DEF HistoryInv, Shape, NoWork
  <2> QED  BY <2>1 DEF StepFails, RecoveryFails, Crash
<1>2. lock # "none" /\ UNCHANGED <<files, backups>>
  BY DEF StepFails, RecoveryFails, Crash
<1>3. /\ WorkShape /\ RootPhase /\ RootFirst /\ GoesDetached /\ FillsRestorable
      /\ DOMAIN work = DOMAIN NoWork
  BY <1>2 DEF StartInv, WorkSound, HistoryInv, Shape
<1>4. PlansFit'
  BY <1>1, <1>2, RunsStep
<1>5. ASSUME lock' # "none"
      PROVE  (WorkShape /\ RootPhase /\ RootFirst /\ GoesDetached /\ FillsRestorable)'
  <2>1. /\ work' = w /\ Op' = Op /\ w.todo # <<>>
        /\ Op = "rollback" => Target(plan[lock])' = Target(plan[lock])
    BY <1>1, <1>2, <1>5, RunsStep
  <2>2. ~(Op = "apply" /\ (Head(work.todo) = "root" \/ work.kind = "detached"))
    BY <1>1, <1>3, <2>1 DEF RootPhase
  <2>3. /\ w.outcome # "forward" /\ w.dir = work.dir /\ w.kind = work.kind
        /\ w.predecessor = work.predecessor /\ w.undo \in Seq(SwitchSteps)
        /\ InOrder(Op, w.todo) /\ OnlyUndoes(w.todo)
    <3>1. CASE Switching /\ w = Undo
      <4> DEFINE v == Starting(work)
      <4>1. /\ DOMAIN v = DOMAIN NoWork /\ v.undo \in Seq(SwitchSteps)
            /\ v.dir = work.dir /\ v.kind = work.kind /\ v.predecessor = work.predecessor
        BY <1>3, StartingSound DEF WorkShape
      <4>2. /\ w.todo = v.undo \o <<"mark">> /\ w.outcome = "undo" /\ w.undo = v.undo
            /\ w.dir = v.dir /\ w.kind = v.kind /\ w.predecessor = v.predecessor
        BY <3>1, <4>1 DEF Undo, NoWork
      <4> HIDE DEF v
      <4> QED  BY <4>1, <4>2, UndoInOrder
    <3>2. CASE work.outcome # "forward" /\ w = [work EXCEPT !.todo = <<"mark">>, !.outcome = "stuck"]
      <4>1. /\ w.todo = <<"mark">> /\ w.outcome = "stuck" /\ w.undo = work.undo
            /\ w.dir = work.dir /\ w.kind = work.kind /\ w.predecessor = work.predecessor
        BY <1>3, <3>2 DEF NoWork
      <4>2. <<"mark">> \in Seq(Steps)
        BY DEF Steps
      <4>3. InOrder(Op, <<"mark">>) /\ OnlyUndoes(<<"mark">>)
        BY <4>2 DEF InOrder, OnlyUndoes
      <4> QED  BY <1>3, <4>1, <4>3 DEF WorkShape
    <3> QED  BY <1>1, <2>1, <3>1, <3>2
  <2>4. WorkShape'
    BY <1>3, <2>1, <2>3 DEF WorkShape
  <2>5. Head(w.todo) \in SwitchSteps \cup {"mark"}
    <3>1. w.todo \in Seq(Steps)
      BY <2>3 DEF InOrder
    <3>2. 1 \in DOMAIN w.todo /\ Head(w.todo) = w.todo[1]
      BY <2>1, <3>1
    <3> QED  BY <2>3, <3>2 DEF OnlyUndoes
  <2>6. RootPhase'
    BY <2>1, <2>2, <2>3, <2>5 DEF RootPhase, SwitchSteps
  <2>7. Records' = Records
    BY <1>2 DEF Records
  <2>8. RootFirst'
    BY <1>3, <2>1, <2>2, <2>7 DEF RootFirst
  <2>9. GoesDetached'
    BY <1>3, <2>1, <2>3 DEF GoesDetached
  <2>10. FillsRestorable'
    BY <1>3, <2>1, <2>3, <2>5 DEF FillsRestorable, SwitchSteps
  <2> QED  BY <2>4, <2>6, <2>8, <2>9, <2>10
<1> QED  BY <1>4, <1>5 DEF WorkSound

(* A run begins, under the lock.                                           *)
LEMMA TakeSound ==
  ASSUME HistoryInv, StartInv, NEW r \in Runs, NEW todo, NEW source, NEW installs, NEW expected,
         Take(r, todo, source, installs, expected), r # "none",
         plan[r].op \in {"apply", "rollback"}, InOrder(plan[r].op, todo), todo # <<>>,
         plan[r].op = "apply" =>
           /\ Head(todo) = "root" => Detached(files)
           /\ Records = {} /\ ~ByHand => Head(todo) = "root",
         plan[r].op = "rollback" /\ Target(plan[r]).kind = "detached" =>
           IF Among("main", todo) THEN Detached(source) ELSE Detached(files)
  PROVE  StartInv'
<1>1. /\ lock' = r /\ UNCHANGED <<files, backups, plan>>
      /\ work'.todo = todo /\ work'.source = source /\ work'.undo = <<>> /\ work'.dir = 0
      /\ work'.kind = "none" /\ work'.outcome = "forward"
  BY DEF Take, NoWork
<1>2. Records' = Records /\ Op' = plan[r].op /\ Target(plan[lock])' = Target(plan[r])
  BY <1>1 DEF Records, Op, Target
<1>3. RestorableStart' /\ StartsDetached' /\ PlansFit' /\ DOMAIN files' = DOMAIN NoFiles
  BY <1>1, <1>2 DEF StartInv, RestorableStart, StartsDetached, PlansFit, Target, Detached
<1>4. <<>> \in Seq(SwitchSteps)
  OBVIOUS
<1>5. WorkShape'
  BY <1>1, <1>2, <1>4 DEF WorkShape
<1>6. RootPhase'
  BY <1>1, <1>2 DEF RootPhase, Switching, Detached
<1>7. RootFirst'
  BY <1>1, <1>2 DEF RootFirst
<1>8. GoesDetached'
  BY <1>1, <1>2 DEF GoesDetached, Ahead, Detached
<1>9. FillsRestorable'
  BY <1>1 DEF FillsRestorable
<1> QED  BY <1>3, <1>5, <1>6, <1>7, <1>8, <1>9 DEF StartInv, WorkSound

LEMMA ApplySound ==
  ASSUME HistoryInv, StartInv, PlansAttach, NEW r \in Runs, Apply(r)
  PROVE  StartInv'
<1> DEFINE p == plan[r]
           s == Switch(p.diff, p.restart, p.inspected.main.action = "accept" /\ p.staged.main.action = "tempfail")
           root == IF NeedsRoot(p) THEN <<"root">> \o RecordSteps ELSE <<>>
           todo == IF ~p.diff /\ ~p.restart THEN <<"new">> \o RecordSteps ELSE root \o Attempt(s)
<1>1. /\ p.op = "apply" /\ files = p.inspected
      /\ Take(r, todo, StagedSource(p), FALSE, p.inspected.config)
  BY DEF Apply
<1>2. s \in Seq(SwitchSteps)
  BY SwitchSequence
<1> HIDE DEF s
<1>3. InOrder("apply", Attempt(s)) /\ Attempt(s) # <<>> /\ Attempt(s)[1] = "new"
  BY <1>2, AttemptInOrder
<1>4. Attempt(s) \in Seq(Steps)
  BY <1>3 DEF InOrder
<1>5. /\ InOrder("apply", todo) /\ todo # <<>>
      /\ todo[1] = IF NeedsRoot(p) /\ ~(~p.diff /\ ~p.restart) THEN "root" ELSE "new"
  <2>1. CASE ~p.diff /\ ~p.restart
    BY <2>1, RecordOnlyInOrder
  <2>2. CASE ~(~p.diff /\ ~p.restart) /\ NeedsRoot(p)
    BY <1>2, <2>2, RootInOrder
  <2>3. CASE ~(~p.diff /\ ~p.restart) /\ ~NeedsRoot(p)
    <3>1. todo = Attempt(s)
      BY <1>4, <2>3, ConcatEmptySeq
    <3> QED  BY <1>3, <2>3, <3>1
  <2> QED  BY <2>1, <2>2, <2>3
<1> HIDE DEF todo
<1>6. Head(todo) = todo[1]
  BY <1>5 DEF InOrder
<1>7. Head(todo) = "root" => Detached(files)
  BY <1>1, <1>5, <1>6 DEF NeedsRoot, Detached
<1>8. Records = {} /\ ~ByHand => Head(todo) = "root"
  <2> SUFFICES ASSUME Records = {}, ~ByHand PROVE NeedsRoot(p) /\ p.diff
    BY <1>5, <1>6
  <2>1. Detached(files) /\ files.master = FALSE
    BY DEF StartInv, StartsDetached
  <2>2. Active = 0
    BY ActiveIsNewest DEF HistoryInv
  <2> QED  BY <1>1, <2>1, <2>2 DEF NeedsRoot, Detached, PlansAttach
<1> QED  BY <1>1, <1>5, <1>7, <1>8, ActivationAssumption, TakeSound

\* A rollback that is not forced finds the files of the record it rolls back.
LEMMA RollbackSound ==
  ASSUME HistoryInv, StartInv, ~Forced, NEW r \in Runs, Rollback(r)
  PROVE  StartInv'
<1> DEFINE p == plan[r]
           touched == {"main", "master"} \cap p.changes # {}
           installs == "config" \in p.changes
           s == Switch(touched, installs \/ p.restart,
                       files.main.action = "accept" /\ Target(p).state.main.action = "tempfail")
           todo == Attempt(s)
<1>1. /\ p.op = "rollback" /\ files = backups[p.record].state
      /\ \E expected : Take(r, todo, Target(p).files, installs, expected)
  BY DEF Rollback, Unchanged
<1>2. s \in Seq(SwitchSteps) /\ (Among("main", s) <=> touched)
  BY SwitchSequence
<1> HIDE DEF s, touched, installs
<1>3. InOrder("rollback", todo) /\ todo # <<>> /\ (Among("main", todo) <=> touched)
  BY <1>2, AttemptInOrder
<1> HIDE DEF todo
<1>4. p.record \in Records /\ backups[p.record].predecessor \in Records
  BY <1>1 DEF HistoryInv, PlansRecords, HistoryWellFounded
<1>5. ASSUME Target(p).kind = "detached"
      PROVE  IF Among("main", todo) THEN Detached(Target(p).files) ELSE Detached(files)
  <2>1. Detached(Target(p).files)
    BY <1>4, <1>5 DEF StartInv, RestorableStart, Target, Detached
  <2>2. ASSUME ~touched PROVE files.main = Target(p).files.main
    <3>1. "main" \notin p.changes
      BY <2>2 DEF touched
    <3> QED  BY <1>1, <3>1 DEF StartInv, PlansFit
  <2> QED  BY <1>3, <2>1, <2>2 DEF Detached
<1> QED  BY <1>1, <1>3, <1>5, ActivationAssumption, TakeSound

(* A plan changes as it is made or dropped, and goes with the lock.        *)
LEMMA PlansChange ==
  ASSUME Shape, NEW r \in Runs, [Next]_vars
  PROVE  \/ plan'[r] \in {plan[r], NoPlan}
         \/ Inspect(r) \/ PlanApply(r) \/ PlanRollback(r)
<1> DEFINE Goal == plan'[r] \in {plan[r], NoPlan} \/ Inspect(r) \/ PlanApply(r) \/ PlanRollback(r)
<1>a. DOMAIN plan = Runs
  BY DEF Shape
<1>b. ASSUME NEW w, Continue(w) PROVE Goal
  BY <1>a, <1>b DEF Continue
<1>1. ASSUME NEW q \in Runs, Inspect(q) \/ PlanApply(q) \/ PlanRollback(q) \/ Withdraw(q) PROVE Goal
  <2>1. CASE q = r
    BY <1>1, <1>a, <2>1 DEF Withdraw
  <2>2. CASE q # r
    BY <1>1, <1>a, <2>2 DEF Inspect, PlanApply, PlanRollback, Withdraw
  <2> QED  BY <2>1, <2>2
<1>2. ASSUME NEW q \in Runs, Apply(q) \/ Rollback(q) PROVE Goal
  BY <1>2 DEF Apply, Rollback, Take
<1>3. CASE NewRoot \/ NewAttempt
  BY <1>3, <1>b DEF NewRoot, NewAttempt, NewDirectory
<1>4. CASE SaveBefore \/ CopyRecord
  BY <1>4, <1>b DEF SaveBefore, CopyRecord, Filing, Done
<1>5. CASE WriteManifest \/ MarkFailed
  BY <1>5, <1>b DEF WriteManifest, MarkFailed, Done
<1>6. CASE (\E name \in {"config", "main", "master"} : Install(name)) \/ ReloadPostfix
             \/ RestartDaemon \/ VerifyConfig
  BY <1>6, <1>b DEF Install, ReloadPostfix, RestartDaemon, VerifyConfig, Done
<1>7. CASE StepFails \/ RecoveryFails \/ Crash
  BY <1>7, <1>b DEF StepFails, RecoveryFails, Crash
<1>8. CASE (\E config \in Configs : EditConfig(config)) \/ EditMain \/ RestartByHand \/ UNCHANGED vars
  BY <1>8 DEF EditConfig, EditMain, RestartByHand, vars
<1> QED  BY <1>1, <1>2, <1>3, <1>4, <1>5, <1>6, <1>7, <1>8 DEF Next

(* The first plan that attaches Postfix has something to switch.           *)
LEMMA PlansAttachStep ==
  ASSUME HistoryInv, StartInv, PlansAttach, [Next]_vars
  PROVE  PlansAttach'
<1> SUFFICES ASSUME NEW r \in Runs, plan'[r].op = "apply", Records' = {}, ~ByHand PROVE plan'[r].diff
  BY DEF PlansAttach
<1>1. Shape /\ DOMAIN plan = Runs
  BY DEF HistoryInv, Shape
<1>2. Records = {}
  BY HistoryStep
<1>3. NoPlan.op # "apply"
  BY DEF NoPlan
<1>4. CASE plan'[r] = plan[r]
  BY <1>2, <1>4 DEF PlansAttach
<1>5. CASE Inspect(r) \/ PlanRollback(r)
  BY <1>1, <1>5 DEF Inspect, Inspected, PlanRollback, NoPlan
<1>6. CASE PlanApply(r)
  <2>1. files.master = FALSE
    BY <1>2 DEF StartInv, StartsDetached
  <2>2. Staged(plan[r]).master = TRUE
    BY DEF Staged, Files
  <2>3. PostfixFiles(Staged(plan[r])) # PostfixFiles(files)
    BY <2>1, <2>2 DEF PostfixFiles
  <2> QED  BY <1>1, <1>6, <2>3 DEF PlanApply, StagedPlan, NoPlan
<1> QED  BY <1>1, <1>3, <1>4, <1>5, <1>6, PlansChange

(* One step per action again.                                              *)
LEMMA StartStep ==
  ASSUME HistoryInv, StartInv, PlansAttach, ~Forced, [Next]_vars
  PROVE  StartInv'
<1>a. /\ \A i \in Records : i \in Records' /\ backups'[i] = backups[i]
      /\ HistoryInv'
  BY HistoryStep
<1>b. RestorableStart /\ StartsDetached /\ PlansFit /\ WorkSound /\ DOMAIN files = DOMAIN NoFiles
  BY DEF StartInv
<1>c. Shape /\ (lock # "none" => lock \in Runs /\ WorkShape)
  BY <1>b DEF HistoryInv, Shape, WorkSound
<1>d. ASSUME UNCHANGED <<backups, lock, work, plan>>, DOMAIN files' = DOMAIN NoFiles,
             files'.main.action = files.main.action, UNCHANGED files.master
      PROVE  StartInv'
  <2>1. PlansFit'
    BY <1>b, <1>d DEF PlansFit, Target
  <2> QED  BY <1>d, <2>1, OthersStep
<1>e. ASSUME UNCHANGED <<files, backups, lock, work>>, PlansFit', lock # "none" => plan'[lock] = plan[lock]
      PROVE  StartInv'
  BY <1>b, <1>e, OthersStep
\* A step of the run that keeps the files and the records.
<1>f. ASSUME UNCHANGED files, Records' = Records, WorkSound', PlansFit' PROVE StartInv'
  BY <1>a, <1>b, <1>f DEF StartInv, RestorableStart, StartsDetached, Detached
\* The step goes on in the same directory.
<1>s. ASSUME Done, lock # "none", lock' # "none" PROVE work'.dir = work.dir
  <2>1. DOMAIN work = DOMAIN NoWork /\ work.undo \in Seq(SwitchSteps)
    BY <1>c, <1>s DEF Shape, WorkShape
  <2>2. Rest(Starting(work)).dir = work.dir
    BY <2>1, StartingSound DEF Rest, NoWork
  <2> QED  BY <1>s, <2>2, Resumed DEF Done
<1>g. ASSUME Done, Records' = Records, UNCHANGED files, lock # "none",
             Head(work.todo) \notin {"root", "new", "manifest", "main"},
             Head(work.todo) = "save" \/ lock' = "none" \/ (Switching' <=> Switching),
             Head(work.todo) = "copy" /\ work.dir # 0 => backups'[work.dir].files = files
      PROVE  StartInv'
  BY <1>a, <1>f, <1>g, DoneSound
<1>h. ASSUME Done, UNCHANGED <<files, backups>>, lock # "none",
             Head(work.todo) \notin {"root", "new", "copy", "manifest", "main"}
      PROVE  StartInv'
  <2>1. Records' = Records
    BY <1>h DEF Records
  <2>2. lock' # "none" => (Switching' <=> Switching)
    BY <1>h, <1>s DEF Switching
  <2> QED  BY <1>g, <1>h, <2>1, <2>2
<1>1. ASSUME NEW r \in Runs, Inspect(r) \/ PlanApply(r) PROVE StartInv'
  <2>1. /\ plan[r].op \in {"none", "inspected"} /\ UNCHANGED <<files, backups, lock, work>>
        /\ \E p : plan' = [plan EXCEPT ![r] = p] /\ p.op # "rollback"
    <3>1. Inspected.op = "inspected" /\ StagedPlan(plan[r]).op = "apply"
      BY DEF Inspected, StagedPlan, NoPlan
    <3>2. CASE Inspect(r)
      <4>1. plan[r].op = "none" /\ plan' = [plan EXCEPT ![r] = Inspected]
        BY <3>2 DEF Inspect, NoPlan
      <4> QED  BY <3>1, <3>2, <4>1 DEF Inspect
    <3>3. CASE PlanApply(r)
      BY <3>1, <3>3 DEF PlanApply
    <3> QED  BY <1>1, <3>2, <3>3
  <2>2. PlansFit'
    BY <1>b, <1>c, <2>1 DEF PlansFit, Target, Shape
  <2>3. lock # r
    BY <1>c, <2>1, ActivationAssumption DEF WorkShape, Op
  <2> QED  BY <1>c, <1>e, <2>1, <2>2, <2>3 DEF Shape
<1>2. ASSUME NEW r \in Runs, PlanRollback(r) PROVE StartInv'
  <2> DEFINE target == backups[backups[Active].predecessor]
             p == [NoPlan EXCEPT
                     !.op = "rollback", !.record = Active,
                     !.changes = {n \in DOMAIN files : target.files[n] # files[n]},
                     !.restart = daemon.config # target.state.config]
  <2>1. /\ plan' = [plan EXCEPT ![r] = p] /\ UNCHANGED <<files, backups, lock, work>>
        /\ plan[r] = NoPlan /\ files = backups[Active].state
    BY <1>2 DEF PlanRollback, Unchanged
  <2>2. /\ p.op = "rollback" /\ p.record = Active
        /\ p.changes = {n \in DOMAIN files : target.files[n] # files[n]}
    BY DEF NoPlan
  <2> HIDE DEF p
  <2>3. "main" \in p.changes \/ target.files.main = backups[Active].state.main
    BY <1>b, <2>1, <2>2 DEF NoFiles, Files
  <2>4. PlansFit'
    BY <1>b, <1>c, <2>1, <2>2, <2>3 DEF PlansFit, Target, Shape
  <2>5. lock # r
    BY <1>c, <2>1, ActivationAssumption DEF WorkShape, Op, NoPlan
  <2> QED  BY <1>c, <1>e, <2>1, <2>4, <2>5 DEF Shape
<1>3. ASSUME NEW r \in Runs, Withdraw(r) PROVE StartInv'
  <2>1. PlansFit'
    BY <1>3, <1>b, <1>c DEF Withdraw, PlansFit, Target, Shape, NoPlan
  <2> QED  BY <1>3, <1>c, <1>e, <2>1 DEF Withdraw, Shape
<1>4. ASSUME NEW r \in Runs, Apply(r) PROVE StartInv'
  BY <1>4, ApplySound
<1>5. ASSUME NEW r \in Runs, Rollback(r) PROVE StartInv'
  BY <1>5, RollbackSound
<1>6. CASE NewRoot \/ NewAttempt
  <2>1. backups' = Append(backups, NewBackup) /\ UNCHANGED files
    BY <1>6 DEF NewRoot, NewAttempt, NewDirectory
  <2>2. /\ DOMAIN backups' = 1..(Len(backups) + 1) /\ DOMAIN backups = 1..Len(backups)
        /\ Len(backups) \in Nat /\ \A i \in DOMAIN backups : backups'[i] = backups[i]
        /\ backups'[Len(backups) + 1] = NewBackup
    BY <1>c, <2>1, Numbered, Appended DEF Shape, IsHistory
  <2>3. Records' = Records
    BY <2>2 DEF Records, NewBackup, RecordKinds
  <2> QED  BY <1>6, <1>a, <1>f, <2>1, <2>3, NewDirectorySound
<1>8. CASE SaveBefore
  <2>1. Done /\ Put("before", files) /\ UNCHANGED files /\ lock # "none" /\ Head(work.todo) = "save"
    BY <1>8 DEF SaveBefore, Filing, At
  <2>2. Records' = Records
    BY <1>c, <2>1, DoneKeeps, DirectoryWritten
  <2> QED  BY <1>g, <2>1, <2>2
<1>9. CASE CopyRecord
  <2>1. Done /\ Put("files", files) /\ UNCHANGED files /\ lock # "none" /\ Head(work.todo) = "copy"
    BY <1>9 DEF CopyRecord, Filing, At
  <2>2. Records' = Records
    BY <1>c, <2>1, DoneKeeps, DirectoryWritten
  <2>3. /\ work.dir \in 0..Len(backups) /\ Len(backups) \in Nat /\ DOMAIN backups = 1..Len(backups)
        /\ IsHistory
    BY <1>c, Numbered DEF HistoryInv, FillsFresh, Shape
  <2>4. work.dir # 0 =>
          backups'[work.dir].files = files /\ backups'[work.dir].before = backups[work.dir].before
    <3>1. work.dir # 0 => backups'[work.dir] = [backups[work.dir] EXCEPT !["files"] = files]
      BY <2>1, <2>3, Written DEF Put
    <3>2. work.dir # 0 => DOMAIN backups[work.dir] = DOMAIN NewBackup
      BY <1>c, <2>3 DEF Shape
    <3> QED  BY <3>1, <3>2 DEF NewBackup
  <2>5. lock' # "none" => (Switching' <=> Switching)
    BY <1>s, <2>1, <2>4 DEF Switching
  <2> QED  BY <1>g, <2>1, <2>2, <2>4, <2>5
<1>10. CASE WriteManifest
  <2>1. Records' \subseteq Records \cup {work.dir} /\ Records \subseteq Records' /\ UNCHANGED files
    BY <1>10, <1>a, RecordAdded DEF WriteManifest
  <2>2. WorkSound' /\ PlansFit' /\ RestorableStart'
    BY <1>10, <1>a, <2>1, ManifestSound
  <2>3. StartsDetached' /\ DOMAIN files' = DOMAIN NoFiles
    BY <1>b, <2>1 DEF StartsDetached, Detached
  <2> QED  BY <2>2, <2>3 DEF StartInv
<1>11. CASE MarkFailed
  <2>1. Done /\ Put("kind", "failed") /\ UNCHANGED files /\ lock # "none" /\ Head(work.todo) = "mark"
    BY <1>11 DEF MarkFailed, At
  <2>2. Records' = Records
    BY <1>c, <2>1, DoneKeeps, DirectoryWritten
  <2>3. /\ work.dir \in 0..Len(backups) /\ Len(backups) \in Nat /\ DOMAIN backups = 1..Len(backups)
        /\ IsHistory
    BY <1>c, Numbered DEF HistoryInv, FillsFresh, Shape
  <2>4. work.dir # 0 => backups'[work.dir].before = backups[work.dir].before
    <3>1. work.dir # 0 => backups'[work.dir] = [backups[work.dir] EXCEPT !["kind"] = "failed"]
      BY <2>1, <2>3, Written DEF Put
    <3>2. work.dir # 0 => DOMAIN backups[work.dir] = DOMAIN NewBackup
      BY <1>c, <2>3 DEF Shape
    <3> QED  BY <3>1, <3>2 DEF NewBackup
  <2>5. lock' # "none" => (Switching' <=> Switching)
    BY <1>s, <2>1, <2>4 DEF Switching
  <2> QED  BY <1>g, <2>1, <2>2, <2>5
<1>12. ASSUME NEW name \in {"config", "main", "master"}, Install(name) PROVE StartInv'
  <2>1. /\ Done /\ UNCHANGED backups /\ lock # "none" /\ Head(work.todo) = name
        /\ files' = files \/ files' = [files EXCEPT ![name] = work.source[name]]
        /\ name = "main" => files' = [files EXCEPT ![name] = work.source[name]]
    BY <1>12 DEF Install, At
  <2>2. Records' = Records
    BY <2>1 DEF Records
  <2>3. /\ DOMAIN files' = DOMAIN NoFiles
        /\ name = "main" => files'.main = work.source.main
        /\ name # "main" => files'.main = files.main
        /\ name # "master" => files'.master = files.master
    BY <1>b, <2>1 DEF NoFiles, Files
  <2>4. lock' # "none" => (Switching' <=> Switching)
    BY <1>s, <2>1 DEF Switching
  <2>5. WorkSound' /\ PlansFit'
    BY <1>a, <2>1, <2>2, <2>3, <2>4, DoneSound
  <2>6. RestorableStart'
    BY <1>b, <2>1, <2>2 DEF RestorableStart
  <2>7. name \in {"main", "master"} => Records # {} \/ ByHand
    <3>1. Op \in {"apply", "rollback"} /\ RootFirst /\ RootPhase
      BY <1>b, <2>1 DEF WorkSound, WorkShape
    <3>2. CASE Op = "rollback"
      BY <1>c, <2>1, <3>2 DEF Op, HistoryInv, PlansRecords
    <3>3. CASE Op = "apply"
      BY <2>1, <3>1, <3>3 DEF RootFirst, RootPhase
    <3> QED  BY <3>1, <3>2, <3>3
  <2>8. StartsDetached'
    BY <1>b, <2>2, <2>3, <2>7 DEF StartsDetached, Detached
  <2> QED  BY <2>3, <2>5, <2>6, <2>8 DEF StartInv
<1>13. CASE ReloadPostfix
  BY <1>13, <1>h DEF ReloadPostfix, At
<1>14. CASE RestartDaemon
  BY <1>14, <1>h DEF RestartDaemon, At
<1>15. CASE VerifyConfig
  BY <1>15, <1>h DEF VerifyConfig, At
<1>16. CASE StepFails \/ RecoveryFails \/ Crash
  <2>1. UNCHANGED <<files, backups>>
    BY <1>16 DEF StepFails, RecoveryFails, Crash
  <2>2. Records' = Records
    BY <2>1 DEF Records
  <2> QED  BY <1>16, <1>a, <1>f, <2>1, <2>2, FailureSound
<1>17. ASSUME NEW config \in Configs, EditConfig(config) PROVE StartInv'
  <2>1. /\ files' = [files EXCEPT !.config = config] /\ UNCHANGED <<backups, lock, work, plan>>
    BY <1>17 DEF EditConfig
  <2> QED  BY <1>b, <1>d, <2>1 DEF NoFiles, Files
<1>18. CASE EditMain
  <2>1. /\ \E edit : files' = [files EXCEPT !.main = Main(edit, files.main.action)]
        /\ UNCHANGED <<backups, lock, work, plan>>
    BY <1>18 DEF EditMain
  <2> QED  BY <1>b, <1>d, <2>1 DEF NoFiles, Files, Main
<1>19. CASE RestartByHand \/ UNCHANGED vars
  <2>1. UNCHANGED <<files, backups, lock, work, plan>>
    BY <1>19 DEF RestartByHand, vars
  <2> QED  BY <1>b, <1>d, <2>1
<1> QED
  BY <1>1, <1>2, <1>3, <1>4, <1>5, <1>6, <1>8, <1>9, <1>10, <1>11, <1>12, <1>13, <1>14, <1>15,
     <1>16, <1>17, <1>18, <1>19 DEF Next

(* Every record leads back to one of the state before the attachment, whose *)
(* files do not use postwarden, however many runs overlap, fail or are      *)
(* killed.  Rollbacks are not forced: a forced one goes by a comparison of  *)
(* the files that another run may have outdated before it has the lock.     *)
THEOREM HistoryRestorable == ASSUME ~Forced PROVE Spec => []RestorableStart
<1>1. Init => HistoryInv /\ StartInv /\ PlansAttach
  BY HistoryInit, StartInit, PlansAttachInit
<1>2. HistoryInv /\ StartInv /\ PlansAttach /\ [Next]_vars => (HistoryInv /\ StartInv /\ PlansAttach)'
  BY HistoryStep, StartStep, PlansAttachStep
<1>3. StartInv => RestorableStart
  BY DEF StartInv
<1> QED  BY <1>1, <1>2, <1>3, PTL DEF Spec
-----------------------------------------------------------------------------
(* The type invariant.                                                     *)

\* Files of a host, as opposed to those of a directory that has none yet.
HostFiles == [config : Configs, main : Mains, master : BOOLEAN]
Daemons == [config : Configs \cup {"down"}, by : {"installer", "hand", "none"}]

\* The copies of a directory, if they are made; a record has them.
CopiesTyped ==
  /\ \A i \in DOMAIN backups :
       backups[i].files \in HostFiles \cup {NoFiles} /\ backups[i].before \in HostFiles \cup {NoFiles}
  /\ \A i \in Records : backups[i].files \in HostFiles

\* No two records have the same place.
Distinct == \A i, j \in Records : backups[i].sequence = backups[j].sequence => i = j

\* What is written to disk was a host's files; a manifest follows its copies.
WorkTyped ==
  /\ lock = "none" => work = NoWork
  /\ lock # "none" =>
       /\ WorkShape
       /\ work.source \in HostFiles
       /\ Head(work.todo) = "manifest" /\ work.dir # 0 => backups[work.dir].files \in HostFiles

HostTyped ==
  /\ files \in HostFiles /\ postfix \in [main : Mains, master : BOOLEAN] /\ daemon \in Daemons
  /\ edits \in 0..MaxEdits

\* What is staged are the files of a host.
PlansTyped == \A r \in Runs : plan[r].op = "apply" => plan[r].staged \in HostFiles

TypeInv == HistoryInv /\ HostTyped /\ CopiesTyped /\ Distinct /\ WorkTyped /\ PlansTyped

LEMMA MarksTyped == NoFiles \in FileSets /\ HostFiles \subseteq FileSets /\ 0 \in 0..MaxEdits
<1>1. 0 \in 0..MaxEdits
  BY ActivationAssumption
<1>2. Main(0, "none") \in Mains
  BY <1>1 DEF Mains, Main
<1> QED  BY <1>1, <1>2 DEF NoFiles, Files, FileSets, HostFiles

LEMMA InitTyped == Init => TypeInv
<1> SUFFICES ASSUME Init PROVE TypeInv
  OBVIOUS
<1>1. PICK config \in Configs :
        LET action == IF ByHand THEN FailureAction[config] ELSE "none"
        IN  /\ files = Files(config, Main(0, action), ByHand)
            /\ daemon = [config |-> config, by |-> "hand"]
  BY DEF Init
<1>2. HostTyped
  <2> DEFINE action == IF ByHand THEN FailureAction[config] ELSE "none"
  <2>1. action \in {"none", "accept", "tempfail"}
    BY ActivationAssumption
  <2>2. Main(0, action) \in Mains
    BY <2>1, MarksTyped DEF Main, Mains
  <2>3. ByHand \in BOOLEAN
    BY ActivationAssumption
  <2>4. files \in HostFiles
    BY <1>1, <2>2, <2>3 DEF HostFiles, Files
  <2>5. postfix \in [main : Mains, master : BOOLEAN]
    BY <2>4 DEF Init, PostfixFiles, HostFiles
  <2>6. daemon \in Daemons
    BY <1>1 DEF Daemons
  <2> QED  BY <2>4, <2>5, <2>6, MarksTyped DEF HostTyped, Init
<1>3. Records = {} /\ DOMAIN backups = {}
  BY DEF Init, Records
<1>4. CopiesTyped /\ Distinct
  BY <1>3 DEF CopiesTyped, Distinct
<1>5. WorkTyped
  BY DEF Init, WorkTyped
<1>6. PlansTyped
  BY DEF Init, PlansTyped, NoPlan
<1> QED  BY HistoryInit, <1>2, <1>4, <1>5, <1>6 DEF TypeInv

\* The active record's files are a host's.
LEMMA ActiveTyped ==
  ASSUME TypeInv
  PROVE  /\ Active # 0 => Active \in Records /\ backups[Active].files \in HostFiles
         /\ Shape
  BY ActiveIsNewest DEF TypeInv, HistoryInv, CopiesTyped

\* A run at work goes on, or has ended.
LEMMA WorkGoesOn ==
  ASSUME TypeInv, lock # "none", NEW w, Continue(w),
         w.todo # <<>> =>
           /\ InOrder(Op, w.todo) /\ w.undo \in Seq(SwitchSteps) /\ w.source \in HostFiles
           /\ w.outcome # "forward" => OnlyUndoes(w.todo)
           /\ Head(w.todo) = "manifest" /\ w.dir # 0 => backups'[w.dir].files \in HostFiles
  PROVE  WorkTyped'
<1>1. CASE w.todo = <<>>
  BY <1>1 DEF Continue, WorkTyped
<1>2. CASE w.todo # <<>>
  <2>1. work' = w /\ lock' = lock /\ plan' = plan
    BY <1>2 DEF Continue
  <2>2. Op' = Op /\ Op \in {"apply", "rollback"}
    BY <2>1 DEF Op, TypeInv, WorkTyped, WorkShape
  <2>3. WorkShape'
    BY <1>2, <2>1, <2>2 DEF WorkShape
  <2> QED  BY <1>2, <2>1, <2>3 DEF WorkTyped
<1> QED  BY <1>1, <1>2

\* The next step, after one that was not the copy, or whose copy was made.
LEMMA DoneTyped ==
  ASSUME TypeInv, lock # "none", Done,
         Head(work.todo) = "copy" /\ work.dir # 0 => backups'[work.dir].files \in HostFiles
  PROVE  WorkTyped'
<1> DEFINE w == Rest(Starting(work))
<1>1. WorkShape /\ DOMAIN work = DOMAIN NoWork /\ work.source \in HostFiles
  BY DEF TypeInv, WorkTyped, HistoryInv, Shape
<1>2. /\ w.todo = Tail(work.todo) /\ w.undo \in Seq(SwitchSteps) /\ w.dir = work.dir
      /\ w.outcome = work.outcome /\ w.source = work.source
  BY <1>1, StartingSound DEF Rest, NoWork, WorkShape
<1>3. Continue(w)
  BY DEF Done
<1> HIDE DEF w
<1>4. ASSUME w.todo # <<>>
      PROVE  Shortened(Op, work.todo, w.todo)
  BY <1>1, <1>2, <1>4, TailShortens DEF WorkShape
<1>5. w.todo # <<>> =>
        /\ InOrder(Op, w.todo) /\ (work.outcome # "forward" => OnlyUndoes(w.todo))
        /\ Head(w.todo) = "manifest" => Head(work.todo) = "copy"
  BY <1>1, <1>4 DEF Shortened, WorkShape
<1> QED  BY <1>1, <1>2, <1>3, <1>5, WorkGoesOn

\* A step that does not write into the backups.
LEMMA CopiesKept ==
  ASSUME TypeInv, UNCHANGED backups
  PROVE  CopiesTyped' /\ Distinct' /\ Records' = Records
<1>1. Records' = Records
  BY DEF Records
<1> QED  BY <1>1 DEF TypeInv, CopiesTyped, Distinct

\* A step of somebody else.
LEMMA OthersTyped ==
  ASSUME TypeInv, UNCHANGED <<backups, lock, work>>, lock # "none" => plan'[lock] = plan[lock]
  PROVE  CopiesTyped' /\ Distinct' /\ WorkTyped'
<1>1. lock # "none" => Op' = Op
  BY DEF Op
<1>2. lock # "none" => (WorkShape' <=> WorkShape)
  BY <1>1 DEF WorkShape
<1> QED  BY <1>2, CopiesKept DEF TypeInv, WorkTyped

\* A new directory is empty, and no record.
LEMMA AddedTyped ==
  ASSUME TypeInv, NewRoot \/ NewAttempt
  PROVE  CopiesTyped' /\ Distinct' /\ WorkTyped'
<1>1. PICK kind, predecessor : NewDirectory(kind, predecessor)
  BY DEF NewRoot, NewAttempt
<1>2. lock # "none" /\ Head(work.todo) \in {"root", "new"}
  BY DEF NewRoot, NewAttempt, At
<1> DEFINE w == [Rest(work) EXCEPT !.dir = Len(backups) + 1, !.kind = kind, !.predecessor = predecessor]
<1>3. backups' = Append(backups, NewBackup) /\ Continue(w)
  BY <1>1 DEF NewDirectory
<1>4. WorkShape /\ DOMAIN work = DOMAIN NoWork /\ work.source \in HostFiles
  BY <1>2 DEF TypeInv, WorkTyped, HistoryInv, Shape
<1>5. /\ w.todo = Tail(work.todo) /\ w.undo = work.undo /\ w.source = work.source
      /\ w.outcome = work.outcome
  BY <1>4 DEF Rest, NoWork
<1> HIDE DEF w
<1>6. /\ DOMAIN backups = 1..Len(backups) /\ DOMAIN backups' = 1..(Len(backups) + 1)
      /\ Len(backups) \in Nat /\ \A i \in DOMAIN backups : backups'[i] = backups[i]
      /\ backups'[Len(backups) + 1] = NewBackup
  BY <1>3, Numbered, Appended DEF TypeInv, HistoryInv, Shape, IsHistory
<1>7. Records' = Records
  BY <1>6 DEF Records, NewBackup, RecordKinds
<1>8. CopiesTyped' /\ Distinct'
  <2>1. NewBackup.files = NoFiles /\ NewBackup.before = NoFiles
    BY DEF NewBackup
  <2>2. \A i \in DOMAIN backups' : i \in DOMAIN backups \/ i = Len(backups) + 1
    BY <1>6
  <2>3. \A i \in Records : i \in DOMAIN backups
    BY DEF Records
  <2> QED  BY <1>6, <1>7, <2>1, <2>2, <2>3 DEF TypeInv, CopiesTyped, Distinct
<1>9. ASSUME w.todo # <<>>
      PROVE  /\ InOrder(Op, w.todo) /\ (work.outcome # "forward" => OnlyUndoes(w.todo))
             /\ Head(w.todo) # "manifest"
  <2>1. Shortened(Op, work.todo, w.todo)
    BY <1>4, <1>5, <1>9, TailShortens DEF WorkShape
  <2> QED  BY <1>2, <1>4, <2>1 DEF Shortened, WorkShape
<1>10. WorkTyped'
  BY <1>2, <1>3, <1>4, <1>5, <1>9, WorkGoesOn DEF WorkShape
<1> QED  BY <1>8, <1>10

\* One directory is written that is no record.
LEMMA WrittenTyped ==
  ASSUME TypeInv, NEW field, NEW value, Put(field, value), Records' = Records,
         (field \in {"before", "files"} /\ value \in HostFiles) \/ (field = "kind" /\ value = "failed")
  PROVE  CopiesTyped' /\ Distinct'
         /\ (field = "files" /\ work.dir # 0 => backups'[work.dir].files = value)
<1> DEFINE b == [backups[work.dir] EXCEPT ![field] = value]
<1>1. backups' = [backups EXCEPT ![work.dir] = b]
  BY DEF Put
<1>2. /\ IsHistory /\ work.dir \in 0..Len(backups) /\ work.dir \notin Records
      /\ DOMAIN backups = 1..Len(backups) /\ Len(backups) \in Nat
  BY Numbered DEF TypeInv, HistoryInv, Shape, FillsFresh
<1>3. work.dir \in DOMAIN backups =>
        /\ b.files \in HostFiles \cup {NoFiles} /\ b.before \in HostFiles \cup {NoFiles}
        /\ field = "files" => b.files = value
  BY DEF TypeInv, HistoryInv, Shape, CopiesTyped, NewBackup
<1> HIDE DEF b
<1>4. /\ \A i \in DOMAIN backups : i # work.dir => backups'[i] = backups[i]
      /\ work.dir \in DOMAIN backups => backups'[work.dir] = b
      /\ DOMAIN backups' = DOMAIN backups
  BY <1>1, <1>2, Written
<1>5. \A i \in Records : i \in DOMAIN backups /\ i # work.dir
  BY <1>2 DEF Records
<1>6. CopiesTyped' /\ Distinct'
  BY <1>3, <1>4, <1>5 DEF TypeInv, CopiesTyped, Distinct
<1> QED  BY <1>2, <1>3, <1>4, <1>6

\* The new record has its copies, and a place after all others.
LEMMA RecordTyped ==
  ASSUME TypeInv, WriteManifest
  PROVE  CopiesTyped' /\ Distinct' /\ WorkTyped'
<1> DEFINE
      next == IF Active = 0 THEN 1 ELSE backups[Active].sequence + 1
      b == [backups[work.dir] EXCEPT
              !.kind = work.kind, !.how = plan[lock].op, !.predecessor = work.predecessor,
              !.state = files, !.sequence = next]
      w == [Rest(work) EXCEPT !.dir = 0]
<1>1. /\ backups' = [backups EXCEPT ![work.dir] = b] /\ Continue(w) /\ lock # "none"
      /\ Head(work.todo) = "manifest"
  BY DEF WriteManifest, At
<1>2. /\ IsHistory /\ work.dir \in 0..Len(backups) /\ work.dir \notin Records
      /\ DOMAIN backups = 1..Len(backups) /\ Len(backups) \in Nat
  BY Numbered DEF TypeInv, HistoryInv, Shape, FillsFresh
<1>3. \A j \in Records : backups[j].sequence < next
  <2>1. \A j \in Records : backups[j].sequence \in Nat
    BY DEF TypeInv, HistoryInv, Shape, Records
  <2> QED  BY <2>1, ActiveIsNewest, RecordsAreNumbered DEF TypeInv, HistoryInv
<1> HIDE DEF next
<1>4. work.dir \in DOMAIN backups =>
        /\ b.sequence = next
        /\ b.files = backups[work.dir].files /\ b.before = backups[work.dir].before
  BY DEF TypeInv, HistoryInv, Shape, NewBackup
<1>5. WorkShape /\ DOMAIN work = DOMAIN NoWork /\ work.source \in HostFiles
  BY <1>1 DEF TypeInv, WorkTyped, HistoryInv, Shape
<1>6. /\ w.todo = Tail(work.todo) /\ w.undo = work.undo /\ w.source = work.source
      /\ w.outcome = work.outcome /\ w.dir = 0
  BY <1>5 DEF Rest, NoWork
<1> HIDE DEF b, w
<1>7. /\ DOMAIN backups' = DOMAIN backups
      /\ \A i \in DOMAIN backups : i # work.dir => backups'[i] = backups[i]
      /\ work.dir \in DOMAIN backups => backups'[work.dir] = b
  BY <1>1, <1>2, Written
<1>8. \A i \in Records' : \/ i \in Records /\ i \in DOMAIN backups /\ i # work.dir
                          \/ i = work.dir /\ i \in DOMAIN backups
  BY <1>2, <1>7 DEF Records
<1>9. work.dir \in DOMAIN backups => b.files \in HostFiles
  BY <1>1, <1>2, <1>4 DEF TypeInv, WorkTyped
<1>10. CopiesTyped'
  BY <1>4, <1>7, <1>8, <1>9 DEF TypeInv, CopiesTyped
<1>11. Distinct'
  <2>1. \A j \in Records : backups[j].sequence # next
    <3>1. \A j \in Records : backups[j].sequence \in Nat
      BY DEF TypeInv, HistoryInv, Shape, Records
    <3> QED  BY <1>3, <3>1
  <2> QED  BY <1>4, <1>7, <1>8, <2>1 DEF TypeInv, Distinct
<1>12. ASSUME w.todo # <<>>
       PROVE  InOrder(Op, w.todo) /\ (work.outcome # "forward" => OnlyUndoes(w.todo))
  <2>1. Shortened(Op, work.todo, w.todo)
    BY <1>5, <1>6, <1>12, TailShortens DEF WorkShape
  <2> QED  BY <1>5, <2>1 DEF Shortened, WorkShape
<1>13. WorkTyped'
  BY <1>1, <1>5, <1>6, <1>12, WorkGoesOn DEF WorkShape
<1> QED  BY <1>10, <1>11, <1>13

\* The undo puts back files of a host.
LEMMA FailureTyped ==
  ASSUME TypeInv, StepFails \/ RecoveryFails \/ Crash
  PROVE  HostTyped' /\ CopiesTyped' /\ Distinct' /\ WorkTyped'
<1>1. /\ lock # "none" /\ UNCHANGED <<files, postfix, backups, edits>>
      /\ daemon' \in {daemon, Down, Restarted}
  BY DEF StepFails, RecoveryFails, Crash, DaemonAfterFailure
<1>2. HostTyped'
  <2>1. Down \in Daemons /\ (files \in HostFiles => Restarted \in Daemons)
    BY DEF Daemons, Down, Restarted, HostFiles
  <2> QED  BY <1>1, <2>1 DEF TypeInv, HostTyped
<1> SUFFICES WorkTyped'
  BY <1>1, <1>2, CopiesKept
<1>3. PICK w :
        /\ Continue(w)
        /\ \/ w.todo = <<>>
           \/ Switching /\ w = Undo
           \/ work.outcome # "forward" /\ w = [work EXCEPT !.todo = <<"mark">>, !.outcome = "stuck"]
  <2>1. [work EXCEPT !.todo = <<>>].todo = <<>>
    BY DEF TypeInv, HistoryInv, Shape, NoWork
  <2> QED  BY <2>1 DEF StepFails, RecoveryFails, Crash
<1>4. WorkShape /\ DOMAIN work = DOMAIN NoWork /\ work.source \in HostFiles
  BY <1>1 DEF TypeInv, WorkTyped, HistoryInv, Shape
<1>5. CASE w.todo = <<>>
  BY <1>1, <1>3, <1>5, WorkGoesOn
<1>6. CASE Switching /\ w = Undo
  <2> DEFINE v == Starting(work)
             source == [backups[work.dir].before EXCEPT !.config = Recovery]
  <2>1. DOMAIN v = DOMAIN NoWork /\ v.undo \in Seq(SwitchSteps)
    BY <1>4, StartingSound DEF WorkShape
  <2>2. /\ w.todo = v.undo \o <<"mark">> /\ w.outcome = "undo" /\ w.undo = v.undo
        /\ w.source = source
    BY <1>6, <2>1 DEF Undo, NoWork
  <2> HIDE DEF v
  <2>3. InOrder(Op, w.todo) /\ w.todo # <<>> /\ OnlyUndoes(w.todo)
    BY <2>1, <2>2, UndoInOrder
  <2>4. source \in HostFiles
    <3>1. work.dir \in DOMAIN backups /\ backups[work.dir].before \in HostFiles
      <4>1. DOMAIN backups = 1..Len(backups) /\ Len(backups) \in Nat /\ work.dir \in 0..Len(backups)
        BY Numbered DEF TypeInv, HistoryInv, Shape, FillsFresh
      <4> QED  BY <1>6, <4>1 DEF Switching, TypeInv, CopiesTyped
    <3>2. Recovery \in Configs
      BY <3>1, ActiveTyped DEF Recovery, HostFiles
    <3> QED  BY <3>1, <3>2 DEF HostFiles
  <2>5. Head(w.todo) # "manifest"
    <3>1. w.todo \in Seq(Steps)
      BY <2>3 DEF InOrder
    <3>2. 1 \in DOMAIN w.todo /\ Head(w.todo) = w.todo[1]
      BY <2>3, <3>1
    <3> QED  BY <2>3, <3>2 DEF OnlyUndoes, SwitchSteps
  <2> QED  BY <1>1, <1>3, <2>1, <2>2, <2>3, <2>4, <2>5, WorkGoesOn
<1>7. CASE work.outcome # "forward" /\ w = [work EXCEPT !.todo = <<"mark">>, !.outcome = "stuck"]
  <2>1. /\ w.todo = <<"mark">> /\ w.undo = work.undo /\ w.source = work.source /\ w.outcome = "stuck"
    BY <1>4, <1>7 DEF NoWork
  <2>2. <<"mark">> \in Seq(Steps)
    BY DEF Steps
  <2>3. InOrder(Op, <<"mark">>) /\ OnlyUndoes(<<"mark">>) /\ Head(<<"mark">>) = "mark"
    BY <2>2 DEF InOrder, OnlyUndoes
  <2> QED  BY <1>1, <1>3, <1>4, <2>1, <2>3, WorkGoesOn DEF WorkShape
<1> QED  BY <1>3, <1>5, <1>6, <1>7

\* A run begins with the files of the host, or with those of a record.
LEMMA TakeTyped ==
  ASSUME TypeInv, NEW r \in Runs, NEW todo, NEW source, NEW installs, NEW expected,
         Take(r, todo, source, installs, expected), plan[r].op \in {"apply", "rollback"},
         InOrder(plan[r].op, todo), todo # <<>>, source \in HostFiles
  PROVE  CopiesTyped' /\ Distinct' /\ WorkTyped'
<1>1. /\ lock' = r /\ r # "none" /\ UNCHANGED <<files, backups, plan>>
      /\ work'.todo = todo /\ work'.source = source /\ work'.undo = <<>> /\ work'.dir = 0
      /\ work'.outcome = "forward"
  BY ActivationAssumption DEF Take, NoWork
<1>2. Op' = plan[r].op /\ <<>> \in Seq(SwitchSteps)
  BY <1>1 DEF Op
<1>3. WorkShape'
  BY <1>1, <1>2 DEF WorkShape
<1> QED  BY <1>1, <1>3, CopiesKept DEF WorkTyped

LEMMA ApplyTyped ==
  ASSUME TypeInv, NEW r \in Runs, Apply(r)
  PROVE  CopiesTyped' /\ Distinct' /\ WorkTyped'
<1> DEFINE p == plan[r]
           s == Switch(p.diff, p.restart, p.inspected.main.action = "accept" /\ p.staged.main.action = "tempfail")
           root == IF NeedsRoot(p) THEN <<"root">> \o RecordSteps ELSE <<>>
           todo == IF ~p.diff /\ ~p.restart THEN <<"new">> \o RecordSteps ELSE root \o Attempt(s)
<1>1. /\ p.op = "apply" /\ files = p.inspected
      /\ Take(r, todo, StagedSource(p), FALSE, p.inspected.config)
  BY DEF Apply
<1>2. s \in Seq(SwitchSteps)
  BY SwitchSequence
<1> HIDE DEF s
<1>3. InOrder("apply", Attempt(s)) /\ Attempt(s) # <<>>
  BY <1>2, AttemptInOrder
<1>4. Attempt(s) \in Seq(Steps)
  BY <1>3 DEF InOrder
<1>5. InOrder("apply", todo) /\ todo # <<>>
  <2>1. CASE ~p.diff /\ ~p.restart
    BY <2>1, RecordOnlyInOrder
  <2>2. CASE ~(~p.diff /\ ~p.restart) /\ NeedsRoot(p)
    BY <1>2, <2>2, RootInOrder
  <2>3. CASE ~(~p.diff /\ ~p.restart) /\ ~NeedsRoot(p)
    <3>1. todo = Attempt(s)
      BY <1>4, <2>3, ConcatEmptySeq
    <3> QED  BY <1>3, <2>3, <3>1
  <2> QED  BY <2>1, <2>2, <2>3
<1> HIDE DEF todo
<1>6. StagedSource(p) \in HostFiles
  BY <1>1 DEF TypeInv, PlansTyped, HostTyped, StagedSource
<1> QED  BY <1>1, <1>5, <1>6, TakeTyped

LEMMA RollbackTyped ==
  ASSUME TypeInv, NEW r \in Runs, Rollback(r)
  PROVE  CopiesTyped' /\ Distinct' /\ WorkTyped'
<1> DEFINE p == plan[r]
           touched == {"main", "master"} \cap p.changes # {}
           installs == "config" \in p.changes
           s == Switch(touched, installs \/ p.restart,
                       files.main.action = "accept" /\ Target(p).state.main.action = "tempfail")
           todo == Attempt(s)
<1>1. /\ p.op = "rollback"
      /\ \E expected : Take(r, todo, Target(p).files, installs, expected)
  BY DEF Rollback
<1>2. s \in Seq(SwitchSteps)
  BY SwitchSequence
<1> HIDE DEF s, touched, installs
<1>3. InOrder("rollback", todo) /\ todo # <<>>
  BY <1>2, AttemptInOrder
<1> HIDE DEF todo
<1>4. Target(p).files \in HostFiles
  <2>1. p.record \in Records /\ backups[p.record].predecessor \in Records
    BY <1>1 DEF TypeInv, HistoryInv, PlansRecords, HistoryWellFounded
  <2> QED  BY <2>1 DEF TypeInv, CopiesTyped, Target
<1> QED  BY <1>1, <1>3, <1>4, TakeTyped

(* What is staged is rendered from files of a host, for one of Configs.    *)
LEMMA PlansTypedStep ==
  ASSUME TypeInv, [Next]_vars
  PROVE  PlansTyped'
<1> SUFFICES ASSUME NEW r \in Runs, plan'[r].op = "apply" PROVE plan'[r].staged \in HostFiles
  BY DEF PlansTyped
<1>1. Shape /\ DOMAIN plan = Runs
  BY DEF TypeInv, HistoryInv, Shape
<1>2. NoPlan.op # "apply"
  BY DEF NoPlan
<1>3. CASE plan'[r] = plan[r]
  BY <1>3 DEF TypeInv, PlansTyped
<1>4. CASE Inspect(r) \/ PlanRollback(r)
  BY <1>1, <1>4 DEF Inspect, Inspected, PlanRollback, NoPlan
<1>5. CASE PlanApply(r)
  <2>1. files \in HostFiles /\ FailureAction[files.config] \in {"accept", "tempfail"}
    BY ActivationAssumption DEF TypeInv, HostTyped, HostFiles
  <2>2. plan[r].inspected.config = files.config
    BY <1>5 DEF PlanApply
  <2>3. Main(files.main.edit, FailureAction[files.config]) \in Mains
    BY <2>1 DEF HostFiles, Mains, Main
  <2>4. Staged(plan[r]) = [config |-> files.config, main |-> Main(files.main.edit, FailureAction[files.config]), master |-> TRUE]
    BY <2>2 DEF Staged, Files
  <2>5. Staged(plan[r]) \in HostFiles
    BY <2>1, <2>3, <2>4 DEF HostFiles
  <2> QED  BY <1>1, <1>5, <2>5 DEF PlanApply, StagedPlan, NoPlan
<1> QED  BY <1>1, <1>2, <1>3, <1>4, <1>5, PlansChange

(* One step per action once more.                                          *)
LEMMA NextTyped == TypeInv /\ [Next]_vars => TypeInv'
<1> SUFFICES ASSUME TypeInv, [Next]_vars PROVE TypeInv'
  OBVIOUS
<1>1. HistoryInv' /\ HistoryInv /\ Shape /\ (lock # "none" => WorkShape /\ work.source \in HostFiles)
  BY HistoryStep DEF TypeInv, HistoryInv, WorkTyped
<1>2. files \in HostFiles /\ edits \in 0..MaxEdits
  BY DEF TypeInv, HostTyped
<1> DEFINE Goal == HostTyped' /\ CopiesTyped' /\ Distinct' /\ WorkTyped'
<1> SUFFICES Goal
  BY <1>1, PlansTypedStep DEF TypeInv
<1>a. ASSUME UNCHANGED <<files, postfix, daemon, edits>> PROVE HostTyped'
  BY <1>a DEF TypeInv, HostTyped
<1>3. ASSUME NEW r \in Runs, Inspect(r) \/ PlanApply(r) \/ PlanRollback(r) \/ Withdraw(r) PROVE Goal
  <2>1. /\ UNCHANGED <<files, postfix, daemon, backups, lock, work, edits>>
        /\ \E p : plan' = [plan EXCEPT ![r] = p]
        /\ plan[r] = NoPlan \/ plan[r].op = "inspected" \/ lock # r
    BY <1>3 DEF Inspect, PlanApply, PlanRollback, Withdraw
  <2>2. lock # "none" => lock # r
    BY <1>1, <2>1 DEF WorkShape, Op, NoPlan
  <2> QED  BY <1>1, <1>a, <2>1, <2>2, OthersTyped DEF Shape
<1>4. ASSUME NEW r \in Runs, Apply(r) PROVE Goal
  BY <1>4, <1>a, ApplyTyped DEF Apply, Take
<1>5. ASSUME NEW r \in Runs, Rollback(r) PROVE Goal
  BY <1>5, <1>a, RollbackTyped DEF Rollback, Take
<1>6. CASE NewRoot \/ NewAttempt
  BY <1>6, <1>a, AddedTyped DEF NewRoot, NewAttempt, NewDirectory
<1>7. CASE SaveBefore
  <2>1. /\ Done /\ Put("before", files) /\ UNCHANGED <<files, postfix, daemon, edits>>
        /\ lock # "none" /\ Head(work.todo) = "save"
    BY <1>7 DEF SaveBefore, Filing, At
  <2>2. Records' = Records
    BY <1>1, <2>1, DoneKeeps, DirectoryWritten
  <2> QED  BY <1>2, <1>a, <2>1, <2>2, WrittenTyped, DoneTyped
<1>8. CASE CopyRecord
  <2>1. /\ Done /\ Put("files", files) /\ UNCHANGED <<files, postfix, daemon, edits>>
        /\ lock # "none" /\ Head(work.todo) = "copy"
    BY <1>8 DEF CopyRecord, Filing, At
  <2>2. Records' = Records
    BY <1>1, <2>1, DoneKeeps, DirectoryWritten
  <2> QED  BY <1>2, <1>a, <2>1, <2>2, WrittenTyped, DoneTyped
<1>9. CASE WriteManifest
  BY <1>9, <1>a, RecordTyped DEF WriteManifest
<1>10. CASE MarkFailed
  <2>1. /\ Done /\ Put("kind", "failed") /\ UNCHANGED <<files, postfix, daemon, edits>>
        /\ lock # "none" /\ Head(work.todo) = "mark"
    BY <1>10 DEF MarkFailed, At
  <2>2. Records' = Records
    BY <1>1, <2>1, DoneKeeps, DirectoryWritten
  <2> QED  BY <1>2, <1>a, <2>1, <2>2, WrittenTyped, DoneTyped
<1>11. ASSUME NEW name \in {"config", "main", "master"}, Install(name) PROVE Goal
  <2>1. /\ Done /\ UNCHANGED <<postfix, daemon, backups, edits>> /\ lock # "none"
        /\ Head(work.todo) = name
        /\ files' = files \/ files' = [files EXCEPT ![name] = work.source[name]]
    BY <1>11 DEF Install, At
  <2>2. files' \in HostFiles
    BY <1>1, <1>2, <2>1 DEF HostFiles
  <2>3. HostTyped'
    BY <2>1, <2>2 DEF TypeInv, HostTyped
  <2> QED  BY <2>1, <2>3, CopiesKept, DoneTyped
<1>12. CASE ReloadPostfix
  <2>1. /\ Done /\ UNCHANGED <<files, daemon, backups, edits>> /\ lock # "none"
        /\ Head(work.todo) = "reload" /\ postfix' = PostfixFiles(files)
    BY <1>12 DEF ReloadPostfix, At
  <2>2. postfix' \in [main : Mains, master : BOOLEAN]
    BY <1>2, <2>1 DEF HostFiles, PostfixFiles
  <2>3. HostTyped'
    BY <2>1, <2>2 DEF TypeInv, HostTyped
  <2> QED  BY <2>1, <2>3, CopiesKept, DoneTyped
<1>13. CASE RestartDaemon
  <2>1. /\ Done /\ UNCHANGED <<files, postfix, backups, edits>> /\ lock # "none"
        /\ Head(work.todo) = "restart" /\ daemon' \in {daemon, Restarted}
    BY <1>13 DEF RestartDaemon, At
  <2>2. Restarted \in Daemons
    BY <1>2 DEF HostFiles, Daemons, Restarted
  <2>3. HostTyped'
    BY <2>1, <2>2 DEF TypeInv, HostTyped
  <2> QED  BY <2>1, <2>3, CopiesKept, DoneTyped
<1>14. CASE VerifyConfig
  <2>1. /\ Done /\ UNCHANGED <<files, postfix, daemon, backups, edits>> /\ lock # "none"
        /\ Head(work.todo) = "verify"
    BY <1>14 DEF VerifyConfig, At
  <2> QED  BY <2>1, <1>a, CopiesKept, DoneTyped
<1>15. CASE StepFails \/ RecoveryFails \/ Crash
  BY <1>15, FailureTyped
<1>16. ASSUME NEW config \in Configs, EditConfig(config) PROVE Goal
  <2>1. /\ files' = [files EXCEPT !.config = config]
        /\ UNCHANGED <<postfix, daemon, backups, edits, lock, plan, work>>
    BY <1>16 DEF EditConfig
  <2>2. files' \in HostFiles
    BY <1>2, <2>1 DEF HostFiles
  <2>3. HostTyped'
    BY <2>1, <2>2 DEF TypeInv, HostTyped
  <2> QED  BY <2>1, <2>3, OthersTyped
<1>17. CASE EditMain
  <2>1. /\ edits < MaxEdits /\ edits' = edits + 1
        /\ postfix' = PostfixFiles(files') /\ UNCHANGED <<daemon, backups, lock, plan, work>>
    BY <1>17 DEF EditMain
  <2>a. PICK edit \in 0 .. edits + 1 : files' = [files EXCEPT !.main = Main(edit, files.main.action)]
    BY <1>17 DEF EditMain
  <2>2. edits' \in 0..MaxEdits /\ edit \in 0..MaxEdits
    BY <1>2, <2>1, ActivationAssumption
  <2>3. Main(edit, files.main.action) \in Mains
    BY <1>2, <2>2 DEF HostFiles, Mains, Main
  <2>4. files' \in HostFiles
    BY <1>2, <2>a, <2>3 DEF HostFiles
  <2>5. postfix' \in [main : Mains, master : BOOLEAN]
    BY <2>1, <2>4 DEF HostFiles, PostfixFiles
  <2>6. HostTyped'
    BY <2>1, <2>2, <2>4, <2>5 DEF TypeInv, HostTyped
  <2> QED  BY <2>1, <2>6, OthersTyped
<1>18. CASE RestartByHand
  <2>1. /\ daemon' = [config |-> files.config, by |-> "hand"]
        /\ UNCHANGED <<files, postfix, backups, lock, plan, work, edits>>
    BY <1>18 DEF RestartByHand
  <2>2. daemon' \in Daemons
    BY <1>2, <2>1 DEF HostFiles, Daemons
  <2>3. HostTyped'
    BY <2>1, <2>2 DEF TypeInv, HostTyped
  <2> QED  BY <2>1, <2>3, OthersTyped
<1>19. CASE UNCHANGED vars
  <2>1. UNCHANGED <<files, postfix, daemon, backups, edits, lock, plan, work>>
    BY <1>19 DEF vars
  <2> QED  BY <2>1, <1>a, OthersTyped
<1> QED
  BY <1>3, <1>4, <1>5, <1>6, <1>7, <1>8, <1>9, <1>10, <1>11, <1>12, <1>13, <1>14, <1>15,
     <1>16, <1>17, <1>18, <1>19 DEF Next

(* Whatever overlaps, fails, is killed or edited: what is on disk, in force *)
(* or recorded are the files of a host, a run works exactly while it holds *)
(* the lock, in a directory of its own, and no two records have the same   *)
(* place in the history.                                                   *)
THEOREM ActivationTyped == Spec => []TypeOK
<1>1. TypeInv => TypeOK
  <2> SUFFICES ASSUME TypeInv PROVE TypeOK
    OBVIOUS
  <2>1. files \in FileSets /\ files.config # "none"
    BY MarksTyped, ActivationAssumption DEF TypeInv, HostTyped, HostFiles
  <2>2. postfix \in [main : Mains, master : BOOLEAN] /\ daemon \in Daemons
    BY DEF TypeInv, HostTyped
  <2>3. lock \in Runs \cup {"none"} /\ work.dir \in 0..Len(backups)
    BY DEF TypeInv, HistoryInv, Shape, FillsFresh
  <2>4. lock # "none" => work # NoWork /\ plan[lock] # NoPlan
    BY DEF TypeInv, WorkTyped, WorkShape, Op, NoWork, NoPlan
  <2>5. lock = "none" => work = NoWork
    BY DEF TypeInv, WorkTyped
  <2>6. \A i \in DOMAIN work.todo : work.todo[i] \in Steps
    <3>1. CASE lock = "none"
      BY <2>5, <3>1 DEF NoWork
    <3>2. CASE lock # "none"
      <4>1. work.todo \in Seq(Steps)
        BY <3>2 DEF TypeInv, WorkTyped, WorkShape, InOrder
      <4> QED  BY <4>1
    <3> QED  BY <3>1, <3>2
  <2>7. \A i \in DOMAIN backups : backups[i].files \in FileSets /\ backups[i].before \in FileSets
    BY MarksTyped DEF TypeInv, CopiesTyped
  <2>8. \A i, j \in Records : backups[i].sequence = backups[j].sequence => i = j
    BY DEF TypeInv, Distinct
  <2> QED  BY <2>1, <2>2, <2>3, <2>4, <2>5, <2>6, <2>7, <2>8 DEF TypeOK, Daemons
<1> QED  BY <1>1, InitTyped, NextTyped, PTL DEF Spec
-----------------------------------------------------------------------------
(* What a run overwrites is kept.                                          *)

\* The order of a run's steps: one part of the switch goes first, o.
Parts == {"postfix", "daemon"}
Rank(o, step) ==
  LET first == IF o = "postfix" THEN 3 ELSE 5
      second == IF o = "postfix" THEN 6 ELSE 3
  IN  CASE step = "new" -> 1 [] step = "save" -> 2
        [] step = "main" -> first [] step = "master" -> first + 1 [] step = "reload" -> first + 2
        [] step = "config" -> second [] step = "restart" -> second + 1
        [] step = "verify" -> 8 [] step = "copy" -> 9 [] step = "manifest" -> 10
        [] step = "mark" -> 11 [] OTHER -> 0

Ranked(o, t) ==
  /\ \A i, j \in DOMAIN t : i < j /\ t[j] = "new" => t[i] \in {"root", "copy", "manifest"}
  /\ \A i, j \in DOMAIN t :
       i < j /\ (\A k \in DOMAIN t : t[k] = "new" => k <= i) => Rank(o, t[i]) < Rank(o, t[j])

\* The parts of the switch are whole, and the files are saved before it.
Whole(t) ==
  /\ Among("main", t) => Among("master", t)
  /\ Among("master", t) => Among("reload", t)
  /\ Among("config", t) => Among("restart", t)
  /\ Among("root", t) => Among("new", t)
  /\ Among("new", t) /\ (\E x \in SwitchSteps : Among(x, t)) => Among("save", t)

\* What of the files is kept by a record, or in the directory of the run at work.
OfRecord(config) == \E i \in Records : config = backups[i].files.config
EditOfRecord(edit) == \E i \in Records : edit = backups[i].files.main.edit

\* The edit of main.cf that the run at work has staged, once it is installed.
OwnEdit ==
  /\ Op = "apply" /\ files.main.edit = plan[lock].staged.main.edit
  /\ work.outcome = "forward" => ~Ahead("main")

\* What the run at work puts on disk.
SourceKept ==
  IF work.outcome = "forward"
  THEN \/ ~work.installs /\ work.source.main.edit = files.main.edit
       \/ ~work.installs /\ Op = "apply" /\ work.source.main.edit = plan[lock].staged.main.edit
       \/ OfRecord(work.source.config) /\ EditOfRecord(work.source.main.edit)
  ELSE /\ work.source.main.edit = backups[work.dir].before.main.edit
       /\ work.source.config = backups[work.dir].before.config \/ OfRecord(work.source.config)

\* What is to be undone when a step fails: the parts that have begun.
Both == {<<>>, PostfixSteps, DaemonSteps, PostfixSteps \o DaemonSteps, DaemonSteps \o PostfixSteps}
UndoFits ==
  work.outcome = "forward" =>
    /\ work.undo \in Both
    /\ Ahead("main") => work.undo \in {<<>>, DaemonSteps}
    /\ Ahead("config") => work.undo \in {<<>>, PostfixSteps}

KeptInv ==
  lock # "none" =>
    /\ (\E o \in Parts : Ranked(o, work.todo)) /\ Whole(work.todo)
    /\ Ahead("save") /\ ~Ahead("new") => work.dir # 0
    /\ work.outcome # "forward" => Switching
    /\ UndoFits
    /\ (\E x \in SwitchSteps : Ahead(x)) /\ ~Ahead("save") => Switching
    /\ SourceKept
    /\ Switching =>
         /\ files.config = backups[work.dir].before.config \/ OfRecord(files.config)
         /\ files.main.edit = backups[work.dir].before.main.edit \/ EditOfRecord(files.main.edit) \/ OwnEdit

\* The ranks, one by one.
LEMMA Ranks ==
  ASSUME NEW o \in Parts
  PROVE  /\ Rank(o, "root") = 0 /\ Rank(o, "new") = 1 /\ Rank(o, "save") = 2
         /\ Rank(o, "main") = (IF o = "postfix" THEN 3 ELSE 5)
         /\ Rank(o, "master") = Rank(o, "main") + 1 /\ Rank(o, "reload") = Rank(o, "main") + 2
         /\ Rank(o, "config") = (IF o = "postfix" THEN 6 ELSE 3)
         /\ Rank(o, "restart") = Rank(o, "config") + 1
         /\ Rank(o, "verify") = 8 /\ Rank(o, "copy") = 9 /\ Rank(o, "manifest") = 10
         /\ Rank(o, "mark") = 11
         /\ \A x \in Steps : Rank(o, x) \in 0..11 /\ (x # "root" => Rank(o, x) >= 1)
         /\ \A x \in SwitchSteps : Rank(o, x) \in 3..7
         /\ {"main", "master", "reload", "config", "restart"} \subseteq Steps
<1>1. /\ Rank(o, "root") = 0 /\ Rank(o, "new") = 1 /\ Rank(o, "save") = 2
      /\ Rank(o, "main") = (IF o = "postfix" THEN 3 ELSE 5)
      /\ Rank(o, "master") = Rank(o, "main") + 1 /\ Rank(o, "reload") = Rank(o, "main") + 2
      /\ Rank(o, "config") = (IF o = "postfix" THEN 6 ELSE 3)
      /\ Rank(o, "restart") = Rank(o, "config") + 1
      /\ Rank(o, "verify") = 8 /\ Rank(o, "copy") = 9 /\ Rank(o, "manifest") = 10
      /\ Rank(o, "mark") = 11
  BY DEF Rank
<1> QED  BY <1>1 DEF Steps, SwitchSteps, Parts

\* The steps that are left, u, once the first of t is taken.
Stepped(o, t, u) ==
  /\ Ranked(o, u) /\ Whole(u)
  /\ \A x \in Steps : Among(x, t) <=> x = Head(t) \/ Among(x, u)
  /\ Head(t) \in Steps
  /\ Head(t) \notin {"root", "copy", "manifest"} => ~Among("new", u)
  /\ ~Among("new", u) => \A x \in Steps : Among(x, u) => Rank(o, Head(t)) < Rank(o, x)

LEMMA TailSteps ==
  ASSUME NEW o \in Parts, NEW t \in Seq(Steps), t # <<>>, Ranked(o, t), Whole(t)
  PROVE  Stepped(o, t, Tail(t))
<1> DEFINE u == Tail(t)
<1>1. /\ Len(t) \in Nat \ {0} /\ DOMAIN t = 1..Len(t) /\ Head(t) = t[1]
      /\ u \in Seq(Steps) /\ DOMAIN u = 1..(Len(t) - 1)
      /\ \A i \in 1..(Len(t) - 1) : u[i] = t[i + 1]
      /\ t[1] \in Steps
  OBVIOUS
<1> HIDE DEF u
<1>2. \A i \in DOMAIN u : i + 1 \in DOMAIN t /\ u[i] = t[i + 1] /\ i \in Nat /\ i >= 1
  BY <1>1
<1>3. \A i \in DOMAIN t : i = 1 \/ (i - 1 \in DOMAIN u /\ u[i - 1] = t[i])
  <2>1. ASSUME NEW i \in DOMAIN t, i # 1 PROVE i - 1 \in 1..(Len(t) - 1) /\ (i - 1) + 1 = i
    BY <1>1, <2>1
  <2> QED  BY <1>1, <2>1
<1>4. 1 \in DOMAIN t
  BY <1>1
<1>5. \A x \in Steps : Among(x, t) <=> x = Head(t) \/ Among(x, u)
  BY <1>1, <1>2, <1>3, <1>4 DEF Among
<1>6. Ranked(o, u)
  <2>1. ASSUME NEW i \in DOMAIN u, NEW j \in DOMAIN u, i < j, u[j] = "new"
        PROVE  u[i] \in {"root", "copy", "manifest"}
    <3>1. i + 1 \in DOMAIN t /\ j + 1 \in DOMAIN t /\ i + 1 < j + 1 /\ t[j + 1] = "new"
      BY <1>2, <2>1
    <3>2. t[i + 1] \in {"root", "copy", "manifest"}
      BY <3>1 DEF Ranked
    <3> QED  BY <1>2, <3>2
  <2>2. ASSUME NEW i \in DOMAIN u, NEW j \in DOMAIN u, i < j, \A k \in DOMAIN u : u[k] = "new" => k <= i
        PROVE  Rank(o, u[i]) < Rank(o, u[j])
    <3>1. i + 1 \in DOMAIN t /\ j + 1 \in DOMAIN t /\ i + 1 < j + 1
      BY <1>2, <2>2
    <3>2. ASSUME NEW k \in DOMAIN t, t[k] = "new" PROVE k <= i + 1
      <4>1. CASE k = 1
        BY <1>2, <4>1
      <4>2. CASE k - 1 \in DOMAIN u /\ u[k - 1] = t[k]
        <5>1. k - 1 <= i
          BY <2>2, <3>2, <4>2
        <5> QED  BY <1>1, <1>2, <5>1
      <4> QED  BY <1>3, <4>1, <4>2
    <3>3. Rank(o, t[i + 1]) < Rank(o, t[j + 1])
      BY <3>1, <3>2 DEF Ranked
    <3> QED  BY <1>2, <3>3
  <2> QED  BY <2>1, <2>2 DEF Ranked
<1>7. ASSUME Head(t) \notin {"root", "copy", "manifest"} PROVE ~Among("new", u)
  <2> SUFFICES ASSUME NEW i \in DOMAIN u, u[i] = "new" PROVE FALSE
    BY DEF Among
  <2>1. i + 1 \in DOMAIN t /\ t[i + 1] = "new" /\ 1 < i + 1
    BY <1>2
  <2> QED  BY <1>1, <1>4, <1>7, <2>1 DEF Ranked
<1>8. ASSUME ~Among("new", u), NEW x \in Steps, Among(x, u)
      PROVE  Rank(o, Head(t)) < Rank(o, x)
  <2>1. PICK i \in DOMAIN u : u[i] = x
    BY <1>8 DEF Among
  <2>2. i + 1 \in DOMAIN t /\ t[i + 1] = x /\ 1 < i + 1
    BY <1>2, <2>1
  <2>3. ASSUME NEW k \in DOMAIN t, t[k] = "new" PROVE k <= 1
    <3>1. ~(k - 1 \in DOMAIN u /\ u[k - 1] = t[k])
      BY <1>8, <2>3 DEF Among
    <3> QED  BY <1>1, <1>3, <3>1
  <2> QED  BY <1>1, <1>4, <2>2, <2>3 DEF Ranked
<1>9. Whole(u)
  <2>1. {"main", "master", "reload", "config", "restart", "root", "new", "save"} \subseteq Steps
        /\ SwitchSteps \subseteq Steps
    BY DEF Steps, SwitchSteps
  <2>2. \A x \in SwitchSteps : Among(x, u) => Among(x, t)
    BY <1>5, <2>1
  <2>3. Among("main", u) => Among("master", u)
    <3>1. Among("main", u) => Head(t) # "master"
      BY <1>7, <1>8, <2>1, Ranks
    <3> QED  BY <1>5, <2>1, <3>1 DEF Whole
  <2>4. Among("master", u) => Among("reload", u)
    <3>1. Among("master", u) => Head(t) # "reload"
      BY <1>7, <1>8, <2>1, Ranks
    <3> QED  BY <1>5, <2>1, <3>1 DEF Whole
  <2>5. Among("config", u) => Among("restart", u)
    <3>1. Among("config", u) => Head(t) # "restart"
      BY <1>7, <1>8, <2>1, Ranks
    <3> QED  BY <1>5, <2>1, <3>1 DEF Whole
  <2>6. Among("root", u) => Among("new", u)
    <3>1. Among("root", u) => Head(t) # "new"
      BY <1>7, <1>8, <2>1, Ranks
    <3> QED  BY <1>5, <2>1, <3>1 DEF Whole
  <2>7. Among("new", u) /\ (\E x \in SwitchSteps : Among(x, u)) => Among("save", u)
    <3>1. Among("new", u) => Head(t) # "save"
      BY <1>7
    <3> QED  BY <1>5, <2>1, <2>2, <3>1 DEF Whole
  <2> QED  BY <2>3, <2>4, <2>5, <2>6, <2>7 DEF Whole
<1> QED  BY <1>1, <1>5, <1>6, <1>7, <1>8, <1>9 DEF Stepped, u
-----------------------------------------------------------------------------
(* The steps a run begins with are in order.                               *)

Rising(o, t) == \A i, j \in DOMAIN t : i < j => Rank(o, t[i]) < Rank(o, t[j])
Within(o, t, low, high) == \A i \in DOMAIN t : Rank(o, t[i]) \in low..high

\* Low steps, then high steps.
LEMMA JoinedRises ==
  ASSUME NEW o \in Parts, NEW s \in Seq(Steps), NEW t \in Seq(Steps), NEW u, Joins(s, t, u),
         NEW a \in Nat, NEW b \in Nat, NEW c \in Nat, NEW d \in Nat, a <= c, b < c, b <= d,
         Rising(o, s), Within(o, s, a, b), Rising(o, t), Within(o, t, c, d)
  PROVE  Rising(o, u) /\ Within(o, u, a, d)
<1>1. Len(s) \in Nat /\ Len(t) \in Nat /\ DOMAIN s = 1..Len(s) /\ DOMAIN t = 1..Len(t)
  OBVIOUS
<1>2. \A i \in DOMAIN u :
        \/ i \in DOMAIN s /\ u[i] = s[i]
        \/ i - Len(s) \in DOMAIN t /\ u[i] = t[i - Len(s)]
  BY <1>1 DEF Joins
<1>3. Within(o, u, a, d)
  <2>1. \A i \in DOMAIN s : Rank(o, s[i]) \in a..d
    BY DEF Within
  <2>2. \A i \in DOMAIN t : Rank(o, t[i]) \in a..d
    BY DEF Within
  <2> QED  BY <1>2, <2>1, <2>2 DEF Within
<1>4. ASSUME NEW i \in DOMAIN u, NEW j \in DOMAIN u, i < j
      PROVE  Rank(o, u[i]) < Rank(o, u[j])
  <2>1. i \in 1..(Len(s) + Len(t)) /\ j \in 1..(Len(s) + Len(t))
    BY DEF Joins
  <2>2. CASE j <= Len(s)
    <3>1. i \in DOMAIN s /\ j \in DOMAIN s /\ u[i] = s[i] /\ u[j] = s[j]
      BY <1>1, <1>4, <2>1, <2>2 DEF Joins
    <3> QED  BY <1>4, <3>1 DEF Rising
  <2>3. CASE i > Len(s)
    <3>1. /\ i - Len(s) \in DOMAIN t /\ j - Len(s) \in DOMAIN t /\ i - Len(s) < j - Len(s)
          /\ u[i] = t[i - Len(s)] /\ u[j] = t[j - Len(s)]
      BY <1>1, <1>4, <2>1, <2>3 DEF Joins
    <3> QED  BY <3>1 DEF Rising
  <2>4. CASE i <= Len(s) /\ j > Len(s)
    <3>1. i \in DOMAIN s /\ j - Len(s) \in DOMAIN t /\ u[i] = s[i] /\ u[j] = t[j - Len(s)]
      BY <1>1, <2>1, <2>4 DEF Joins
    <3>2. Rank(o, s[i]) \in a..b /\ Rank(o, t[j - Len(s)]) \in c..d
      BY <3>1 DEF Within
    <3> QED  BY <3>1, <3>2
  <2> QED  BY <1>1, <2>1, <2>2, <2>3, <2>4
<1> QED  BY <1>3, <1>4 DEF Rising

\* Steps in order, of which only the first may be "new".
LEMMA RisingIsRanked ==
  ASSUME NEW o \in Parts, NEW t \in Seq(Steps), Rising(o, t), Within(o, t, 1, 11)
  PROVE  Ranked(o, t)
<1>1. ASSUME NEW i \in DOMAIN t, NEW j \in DOMAIN t, i < j, t[j] = "new" PROVE FALSE
  <2>1. Rank(o, t[i]) < 1 /\ Rank(o, t[i]) \in 1..11
    BY <1>1, Ranks DEF Rising, Within
  <2> QED  BY <2>1
<1> QED  BY <1>1 DEF Ranked, Rising

\* What a sequence of steps holds, and that its parts of the switch are whole.
Holds(t, postfix_, daemon_) ==
  /\ \A x \in {"main", "master", "reload"} : Among(x, t) <=> postfix_
  /\ \A x \in {"config", "restart"} : Among(x, t) <=> daemon_

LEMMA PartsRise ==
  ASSUME NEW o \in Parts
  PROVE  /\ PostfixSteps \in Seq(SwitchSteps) /\ Rising(o, PostfixSteps)
         /\ Within(o, PostfixSteps, IF o = "postfix" THEN 3 ELSE 5, IF o = "postfix" THEN 5 ELSE 7)
         /\ Holds(PostfixSteps, TRUE, FALSE)
         /\ DaemonSteps \in Seq(SwitchSteps) /\ Rising(o, DaemonSteps)
         /\ Within(o, DaemonSteps, IF o = "postfix" THEN 6 ELSE 3, IF o = "postfix" THEN 7 ELSE 4)
         /\ Holds(DaemonSteps, FALSE, TRUE)
         /\ <<>> \in Seq(SwitchSteps) /\ Rising(o, <<>>) /\ Within(o, <<>>, 3, 7)
         /\ Holds(<<>>, FALSE, FALSE)
<1>1. /\ PostfixSteps \in Seq(SwitchSteps) /\ DOMAIN PostfixSteps = 1..3
      /\ PostfixSteps[1] = "main" /\ PostfixSteps[2] = "master" /\ PostfixSteps[3] = "reload"
  BY DEF PostfixSteps, SwitchSteps
<1>2. /\ DaemonSteps \in Seq(SwitchSteps) /\ DOMAIN DaemonSteps = 1..2
      /\ DaemonSteps[1] = "config" /\ DaemonSteps[2] = "restart"
  BY DEF DaemonSteps, SwitchSteps
<1>3. <<>> \in Seq(SwitchSteps) /\ DOMAIN <<>> = {}
  OBVIOUS
<1>4. \A i \in 1..3 : i = 1 \/ i = 2 \/ i = 3
  OBVIOUS
<1>5. \A i \in 1..2 : i = 1 \/ i = 2
  OBVIOUS
<1>6. /\ Rising(o, PostfixSteps)
      /\ Within(o, PostfixSteps, IF o = "postfix" THEN 3 ELSE 5, IF o = "postfix" THEN 5 ELSE 7)
  BY <1>1, <1>4, Ranks DEF Rising, Within
<1>7. /\ Rising(o, DaemonSteps)
      /\ Within(o, DaemonSteps, IF o = "postfix" THEN 6 ELSE 3, IF o = "postfix" THEN 7 ELSE 4)
  BY <1>2, <1>5, Ranks DEF Rising, Within
<1>8. Holds(PostfixSteps, TRUE, FALSE)
  <2>1. 1 \in 1..3 /\ 2 \in 1..3 /\ 3 \in 1..3
    OBVIOUS
  <2>2. Among("main", PostfixSteps) /\ Among("master", PostfixSteps) /\ Among("reload", PostfixSteps)
    BY <1>1, <2>1 DEF Among
  <2>3. ~Among("config", PostfixSteps) /\ ~Among("restart", PostfixSteps)
    BY <1>1, <1>4 DEF Among
  <2> QED  BY <2>2, <2>3 DEF Holds
<1>9. Holds(DaemonSteps, FALSE, TRUE)
  <2>1. 1 \in 1..2 /\ 2 \in 1..2
    OBVIOUS
  <2>2. Among("config", DaemonSteps) /\ Among("restart", DaemonSteps)
    BY <1>2, <2>1 DEF Among
  <2>3. ~Among("main", DaemonSteps) /\ ~Among("master", DaemonSteps) /\ ~Among("reload", DaemonSteps)
    BY <1>2, <1>5 DEF Among
  <2> QED  BY <2>2, <2>3 DEF Holds
<1>10. Rising(o, <<>>) /\ Within(o, <<>>, 3, 7) /\ Holds(<<>>, FALSE, FALSE)
  BY <1>3 DEF Rising, Within, Holds, Among
<1> QED  BY <1>1, <1>2, <1>3, <1>6, <1>7, <1>8, <1>9, <1>10

LEMMA PartsWithin ==
  ASSUME NEW o \in Parts
  PROVE  Within(o, <<>>, 3, 7) /\ Within(o, PostfixSteps, 3, 7) /\ Within(o, DaemonSteps, 3, 7)
<1>0. {3, 4, 5, 6, 7} \subseteq 3..7 /\ Within(o, <<>>, 3, 7)
  <2>1. {3, 4, 5, 6, 7} \subseteq 3..7
    OBVIOUS
  <2> QED  BY <2>1, PartsRise
<1>1. ASSUME NEW t, NEW a \in 3..7, NEW b \in 3..7, Within(o, t, a, b) PROVE Within(o, t, 3, 7)
  <2>1. a..b \subseteq 3..7
    OBVIOUS
  <2> QED  BY <1>1, <2>1 DEF Within
<1>2. CASE o = "postfix"
  <2>1. Within(o, PostfixSteps, 3, 5) /\ Within(o, DaemonSteps, 6, 7)
    BY <1>2, PartsRise
  <2> QED  BY <1>0, <1>1, <2>1
<1>3. CASE o = "daemon"
  <2>1. Within(o, PostfixSteps, 5, 7) /\ Within(o, DaemonSteps, 3, 4)
    BY <1>3, PartsRise
  <2> QED  BY <1>0, <1>1, <2>1
<1> QED  BY <1>2, <1>3 DEF Parts

\* One part after the other.
LEMMA BothRise ==
         /\ PostfixSteps \o DaemonSteps \in Seq(SwitchSteps)
         /\ Rising("postfix", PostfixSteps \o DaemonSteps)
         /\ Within("postfix", PostfixSteps \o DaemonSteps, 3, 7)
         /\ Holds(PostfixSteps \o DaemonSteps, TRUE, TRUE)
         /\ DaemonSteps \o PostfixSteps \in Seq(SwitchSteps)
         /\ Rising("daemon", DaemonSteps \o PostfixSteps)
         /\ Within("daemon", DaemonSteps \o PostfixSteps, 3, 7)
         /\ Holds(DaemonSteps \o PostfixSteps, TRUE, TRUE)
<1>1. "postfix" \in Parts /\ "daemon" \in Parts /\ SwitchSteps \subseteq Steps
  BY DEF Parts, SwitchSteps, Steps
<1>2. ASSUME NEW s \in Seq(SwitchSteps), NEW t \in Seq(SwitchSteps)
      PROVE  /\ s \o t \in Seq(SwitchSteps) /\ Joins(s, t, s \o t)
             /\ s \in Seq(Steps) /\ t \in Seq(Steps)
             /\ \A x \in Steps : Among(x, s \o t) <=> Among(x, s) \/ Among(x, t)
  <2>1. s \o t \in Seq(SwitchSteps) /\ Joins(s, t, s \o t)
    BY Joined
  <2>2. s \in Seq(Steps) /\ t \in Seq(Steps)
    BY <1>1
  <2> QED  BY <2>1, <2>2, JoinedHolds
<1>3. /\ PostfixSteps \in Seq(SwitchSteps) /\ DaemonSteps \in Seq(SwitchSteps)
      /\ Rising("postfix", PostfixSteps) /\ Within("postfix", PostfixSteps, 3, 5)
      /\ Rising("postfix", DaemonSteps) /\ Within("postfix", DaemonSteps, 6, 7)
      /\ Rising("daemon", PostfixSteps) /\ Within("daemon", PostfixSteps, 5, 7)
      /\ Rising("daemon", DaemonSteps) /\ Within("daemon", DaemonSteps, 3, 4)
      /\ Holds(PostfixSteps, TRUE, FALSE) /\ Holds(DaemonSteps, FALSE, TRUE)
  <2>1. /\ Within("postfix", PostfixSteps, 3, 5) /\ Within("postfix", DaemonSteps, 6, 7)
        /\ Within("daemon", PostfixSteps, 5, 7) /\ Within("daemon", DaemonSteps, 3, 4)
    BY <1>1, PartsRise
  <2> QED  BY <1>1, <2>1, PartsRise
<1>4. {"main", "master", "reload", "config", "restart"} \subseteq Steps
  BY DEF Steps
<1>5. /\ Rising("postfix", PostfixSteps \o DaemonSteps)
      /\ Within("postfix", PostfixSteps \o DaemonSteps, 3, 7)
  <2>1. Joins(PostfixSteps, DaemonSteps, PostfixSteps \o DaemonSteps)
        /\ PostfixSteps \in Seq(Steps) /\ DaemonSteps \in Seq(Steps)
    BY <1>2, <1>3
  <2>2. 3 \in Nat /\ 5 \in Nat /\ 6 \in Nat /\ 7 \in Nat /\ 3 <= 6 /\ 5 < 6 /\ 5 <= 7
    OBVIOUS
  <2> QED  BY <1>1, <1>3, <2>1, <2>2, JoinedRises
<1>6. /\ Rising("daemon", DaemonSteps \o PostfixSteps)
      /\ Within("daemon", DaemonSteps \o PostfixSteps, 3, 7)
  <2>1. Joins(DaemonSteps, PostfixSteps, DaemonSteps \o PostfixSteps)
        /\ PostfixSteps \in Seq(Steps) /\ DaemonSteps \in Seq(Steps)
    BY <1>2, <1>3
  <2>2. 3 \in Nat /\ 4 \in Nat /\ 5 \in Nat /\ 7 \in Nat /\ 3 <= 5 /\ 4 < 5 /\ 4 <= 7
    OBVIOUS
  <2> QED  BY <1>1, <1>3, <2>1, <2>2, JoinedRises
<1>7. Holds(PostfixSteps \o DaemonSteps, TRUE, TRUE) /\ Holds(DaemonSteps \o PostfixSteps, TRUE, TRUE)
  <2>1. \A x \in Steps :
          /\ Among(x, PostfixSteps \o DaemonSteps) <=> Among(x, PostfixSteps) \/ Among(x, DaemonSteps)
          /\ Among(x, DaemonSteps \o PostfixSteps) <=> Among(x, DaemonSteps) \/ Among(x, PostfixSteps)
    BY <1>2, <1>3
  <2> QED  BY <1>3, <1>4, <2>1 DEF Holds
<1> QED  BY <1>2, <1>3, <1>5, <1>6, <1>7

\* The steps of a switch, with the part first that goes first.
LEMMA SwitchRises ==
  ASSUME NEW p, NEW d, NEW stricter, NEW o, o = IF stricter THEN "postfix" ELSE "daemon", NEW s, s = Switch(p, d, stricter)
  PROVE  o \in Parts /\ s \in Seq(SwitchSteps) /\ Rising(o, s) /\ Within(o, s, 3, 7) /\ Holds(s, p, d)
<1> DEFINE P == IF p THEN PostfixSteps ELSE <<>>
           D == IF d THEN DaemonSteps ELSE <<>>
<1>1. o \in Parts
  BY DEF Parts
<1>2. s = IF stricter THEN P \o D ELSE D \o P
  BY DEF Switch
<1>3. /\ PostfixSteps \o <<>> = PostfixSteps /\ <<>> \o PostfixSteps = PostfixSteps
      /\ DaemonSteps \o <<>> = DaemonSteps /\ <<>> \o DaemonSteps = DaemonSteps
      /\ <<>> \o <<>> = <<>>
  <2>1. PostfixSteps \in Seq(SwitchSteps) /\ DaemonSteps \in Seq(SwitchSteps) /\ <<>> \in Seq(SwitchSteps)
    BY DEF PostfixSteps, DaemonSteps, SwitchSteps
  <2> QED  BY <2>1, ConcatEmptySeq
<1>4. CASE p /\ d
  <2>1. s = IF stricter THEN PostfixSteps \o DaemonSteps ELSE DaemonSteps \o PostfixSteps
    BY <1>2, <1>4
  <2> QED  BY <1>1, <1>4, <2>1, BothRise DEF Holds
<1>5. CASE p /\ ~d
  <2>1. s = PostfixSteps
    BY <1>2, <1>3, <1>5
  <2>2. Within(o, PostfixSteps, 3, 7)
    BY <1>1, PartsWithin
  <2> QED  BY <1>1, <1>5, <2>1, <2>2, PartsRise DEF Holds
<1>6. CASE ~p /\ d
  <2>1. s = DaemonSteps
    BY <1>2, <1>3, <1>6
  <2>2. Within(o, DaemonSteps, 3, 7)
    BY <1>1, PartsWithin
  <2> QED  BY <1>1, <1>6, <2>1, <2>2, PartsRise DEF Holds
<1>7. CASE ~p /\ ~d
  <2>1. s = <<>>
    BY <1>2, <1>3, <1>7
  <2> QED  BY <1>1, <1>7, <2>1, PartsRise DEF Holds
<1> QED  BY <1>4, <1>5, <1>6, <1>7

\* A run that switches: its directory, its copies, the switch, the record.
LEMMA AttemptRises ==
  ASSUME NEW o \in Parts, NEW s \in Seq(SwitchSteps), Rising(o, s), Within(o, s, 3, 7), NEW p, NEW d, Holds(s, p, d),
         NEW t, t = Attempt(s)
  PROVE  /\ t \in Seq(Steps) /\ Rising(o, t) /\ Within(o, t, 1, 10) /\ Holds(t, p, d)
         /\ Among("new", t) /\ Among("save", t) /\ ~Among("root", t) /\ ~Among("mark", t)
<1> DEFINE a == <<"new", "save">>
           b == <<"verify">>
           c == <<"copy", "manifest">>
<1>1. /\ a \in Seq(Steps) /\ Rising(o, a) /\ Within(o, a, 1, 2)
      /\ Among("new", a) /\ Among("save", a) /\ \A x \in Steps \ {"new", "save"} : ~Among(x, a)
  <2>1. a \in Seq(Steps) /\ DOMAIN a = 1..2 /\ a[1] = "new" /\ a[2] = "save"
    BY DEF Steps
  <2>2. \A i \in 1..2 : i = 1 \/ i = 2
    OBVIOUS
  <2>3. 1 \in 1..2 /\ 2 \in 1..2
    OBVIOUS
  <2> HIDE DEF a
  <2>4. Rising(o, a) /\ Within(o, a, 1, 2)
    BY <2>1, <2>2, Ranks DEF Rising, Within
  <2> QED  BY <2>1, <2>2, <2>3, <2>4 DEF Among
<1>2. b \in Seq(Steps) /\ Rising(o, b) /\ Within(o, b, 8, 8) /\ \A x \in Steps \ {"verify"} : ~Among(x, b)
  <2>1. b \in Seq(Steps) /\ DOMAIN b = 1..1 /\ b[1] = "verify"
    BY DEF Steps
  <2>2. \A i \in 1..1 : i = 1
    OBVIOUS
  <2> HIDE DEF b
  <2>3. Rising(o, b) /\ Within(o, b, 8, 8)
    BY <2>1, <2>2, Ranks DEF Rising, Within
  <2> QED  BY <2>1, <2>2, <2>3 DEF Among
<1>3. c \in Seq(Steps) /\ Rising(o, c) /\ Within(o, c, 9, 10) /\ \A x \in Steps \ {"copy", "manifest"} : ~Among(x, c)
  <2>1. c \in Seq(Steps) /\ DOMAIN c = 1..2 /\ c[1] = "copy" /\ c[2] = "manifest"
    BY DEF Steps
  <2>2. \A i \in 1..2 : i = 1 \/ i = 2
    OBVIOUS
  <2> HIDE DEF c
  <2>3. Rising(o, c) /\ Within(o, c, 9, 10)
    BY <2>1, <2>2, Ranks DEF Rising, Within
  <2> QED  BY <2>1, <2>2, <2>3 DEF Among
<1>4. s \in Seq(Steps) /\ ~Among("root", s) /\ ~Among("mark", s)
  <2>1. SwitchSteps \subseteq Steps /\ "root" \notin SwitchSteps /\ "mark" \notin SwitchSteps
    BY DEF Steps, SwitchSteps
  <2> QED  BY <2>1 DEF Among
<1>5. t = ((a \o s) \o b) \o c
  BY DEF Attempt, RecordSteps
<1> HIDE DEF a, b, c
<1> DEFINE u == a \o s
           v == u \o b
<1>6. /\ u \in Seq(Steps) /\ Rising(o, u) /\ Within(o, u, 1, 7)
      /\ \A x \in Steps : Among(x, u) <=> Among(x, a) \/ Among(x, s)
  <2>1. u \in Seq(Steps) /\ Joins(a, s, u)
    BY <1>1, <1>4, Joined
  <2> HIDE DEF u
  <2>2. 1 \in Nat /\ 2 \in Nat /\ 3 \in Nat /\ 7 \in Nat /\ 1 <= 3 /\ 2 < 3 /\ 2 <= 7
    OBVIOUS
  <2>3. Rising(o, u) /\ Within(o, u, 1, 7)
    BY <1>1, <1>4, <2>1, <2>2, JoinedRises
  <2> QED  BY <1>1, <1>4, <2>1, <2>3, JoinedHolds
<1> HIDE DEF u
<1>7. /\ v \in Seq(Steps) /\ Rising(o, v) /\ Within(o, v, 1, 8)
      /\ \A x \in Steps : Among(x, v) <=> Among(x, u) \/ Among(x, b)
  <2>1. v \in Seq(Steps) /\ Joins(u, b, v)
    BY <1>2, <1>6, Joined
  <2> HIDE DEF v
  <2>2. 1 \in Nat /\ 7 \in Nat /\ 8 \in Nat /\ 1 <= 8 /\ 7 < 8 /\ 7 <= 8
    OBVIOUS
  <2>3. Rising(o, v) /\ Within(o, v, 1, 8)
    BY <1>2, <1>6, <2>1, <2>2, JoinedRises
  <2> QED  BY <1>2, <1>6, <2>1, <2>3, JoinedHolds
<1>8. t = v \o c
  BY <1>5 DEF u
<1> HIDE DEF v
<1>9. /\ t \in Seq(Steps) /\ Rising(o, t) /\ Within(o, t, 1, 10)
      /\ \A x \in Steps : Among(x, t) <=> Among(x, v) \/ Among(x, c)
  <2>1. t \in Seq(Steps) /\ Joins(v, c, t)
    BY <1>3, <1>7, <1>8, Joined
  <2>2. 1 \in Nat /\ 8 \in Nat /\ 9 \in Nat /\ 10 \in Nat /\ 1 <= 9 /\ 8 < 9 /\ 8 <= 10
    OBVIOUS
  <2>3. Rising(o, t) /\ Within(o, t, 1, 10)
    BY <1>3, <1>7, <2>1, <2>2, JoinedRises
  <2> QED  BY <1>3, <1>7, <2>1, <2>3, JoinedHolds
<1>10. {"main", "master", "reload", "config", "restart", "new", "save", "root", "mark"} \subseteq Steps
  BY DEF Steps
<1>11. \A x \in {"main", "master", "reload", "config", "restart", "root", "mark"} : Among(x, t) <=> Among(x, s)
  BY <1>1, <1>2, <1>3, <1>6, <1>7, <1>9, <1>10
<1>12. Among("new", t) /\ Among("save", t)
  BY <1>1, <1>6, <1>7, <1>9, <1>10
<1>13. Holds(t, p, d)
  BY <1>11 DEF Holds
<1> QED  BY <1>4, <1>9, <1>11, <1>12, <1>13

\* The last step of a sequence.
EndsWith(t, step) == t # <<>> /\ t[Len(t)] = step

LEMMA JoinedEnds ==
  ASSUME NEW S, NEW s \in Seq(S), NEW t \in Seq(S), NEW x, EndsWith(t, x)
  PROVE  EndsWith(s \o t, x)
<1>1. Joins(s, t, s \o t) /\ s \o t \in Seq(S)
  BY Joined
<1>2. Len(s) \in Nat /\ Len(t) \in Nat /\ t # <<>> /\ t[Len(t)] = x /\ Len(t) > 0
  BY DEF EndsWith
<1>3. Len(t) \in 1..Len(t) /\ Len(s \o t) = Len(t) + Len(s) /\ Len(s \o t) > 0
  BY <1>1, <1>2 DEF Joins
<1>4. (s \o t)[Len(t) + Len(s)] = x
  BY <1>1, <1>2, <1>3 DEF Joins
<1> QED  BY <1>1, <1>3, <1>4 DEF EndsWith

LEMMA AttemptEnds ==
  ASSUME NEW s \in Seq(SwitchSteps)
  PROVE  EndsWith(Attempt(s), "manifest")
<1> DEFINE a == <<"new", "save">>
           b == <<"verify">>
           c == RecordSteps
<1>1. a \in Seq(Steps) /\ b \in Seq(Steps) /\ c \in Seq(Steps) /\ EndsWith(c, "manifest")
  BY DEF Steps, RecordSteps, EndsWith
<1>2. SwitchSteps \subseteq Steps
  BY DEF Steps, SwitchSteps
<1>3. s \in Seq(Steps)
  BY <1>2
<1>4. Attempt(s) = ((a \o s) \o b) \o c
  BY DEF Attempt
<1> HIDE DEF a, b, c
<1>5. a \o s \in Seq(Steps)
  BY <1>1, <1>3, Joined
<1>6. (a \o s) \o b \in Seq(Steps)
  BY <1>1, <1>5, Joined
<1>7. EndsWith(((a \o s) \o b) \o c, "manifest")
  BY <1>1, <1>6, JoinedEnds
<1> QED  BY <1>4, <1>7

LEMMA HoldsWhole ==
  ASSUME NEW t, NEW p, NEW d, Holds(t, p, d), Among("root", t) => Among("new", t), Among("new", t) => Among("save", t) \/ (~p /\ ~d)
  PROVE  Whole(t)
BY DEF Holds, Whole, SwitchSteps

\* A run's steps, t: its order is o, the parts of its switch are p and d.
Program(o, t, p, d) ==
  /\ t \in Seq(Steps) /\ t # <<>> /\ Ranked(o, t) /\ Whole(t) /\ Holds(t, p, d)
  /\ ~Among("mark", t) /\ Among("new", t) /\ Head(t) \in {"root", "new"} /\ EndsWith(t, "manifest")
  /\ p \/ d => Among("save", t)

LEMMA AttemptProgram ==
  ASSUME NEW o \in Parts, NEW s \in Seq(SwitchSteps), Rising(o, s), Within(o, s, 3, 7), NEW p, NEW d, Holds(s, p, d),
         NEW t, t = Attempt(s)
  PROVE  Program(o, t, p, d) /\ ~Among("root", t)
<1>1. /\ t \in Seq(Steps) /\ Rising(o, t) /\ Within(o, t, 1, 10) /\ Holds(t, p, d)
      /\ Among("new", t) /\ Among("save", t) /\ ~Among("root", t) /\ ~Among("mark", t)
  BY AttemptRises
<1>2. Within(o, t, 1, 11)
  BY <1>1 DEF Within
<1>3. Ranked(o, t) /\ Whole(t)
  BY <1>1, <1>2, RisingIsRanked, HoldsWhole
<1>4. t # <<>> /\ Head(t) = "new"
  <2>1. t # <<>> /\ t[1] = "new"
    BY AttemptInOrder
  <2> QED  BY <1>1, <2>1
<1>5. EndsWith(t, "manifest")
  BY AttemptEnds
<1> QED  BY <1>1, <1>3, <1>4, <1>5 DEF Program

\* The record of the state before the attachment is made first.
LEMMA RootProgram ==
  ASSUME NEW o \in Parts, NEW s \in Seq(SwitchSteps), Rising(o, s), Within(o, s, 3, 7), NEW p, NEW d, Holds(s, p, d),
         NEW t, t = (<<"root">> \o RecordSteps) \o Attempt(s)
  PROVE  Program(o, t, p, d)
<1> DEFINE r == <<"root">> \o RecordSteps
           a == Attempt(s)
<1>1. r \in Seq(Steps) /\ Len(r) = 3 /\ r[1] = "root" /\ r[2] = "copy" /\ r[3] = "manifest"
  BY DEF RecordSteps, Steps
<1>2. /\ a \in Seq(Steps) /\ Rising(o, a) /\ Within(o, a, 1, 10) /\ Holds(a, p, d)
      /\ Among("new", a) /\ Among("save", a) /\ ~Among("root", a) /\ ~Among("mark", a)
  BY AttemptRises
<1>3. t = r \o a
  OBVIOUS
<1> HIDE DEF r, a
<1>4. t \in Seq(Steps) /\ Joins(r, a, t)
  BY <1>1, <1>2, <1>3, Joined
<1>5. \A x \in Steps : Among(x, t) <=> Among(x, r) \/ Among(x, a)
  BY <1>1, <1>2, <1>4, JoinedHolds
<1>6. \A i \in 1..3 : i = 1 \/ i = 2 \/ i = 3
  OBVIOUS
<1>7. \A x \in Steps : Among(x, r) => x \in {"root", "copy", "manifest"}
  BY <1>1, <1>6 DEF Among
<1>8. {"main", "master", "reload", "config", "restart", "new", "save", "root", "mark"} \subseteq Steps
  BY DEF Steps
<1>9. /\ Holds(t, p, d) /\ Among("new", t) /\ Among("save", t) /\ ~Among("mark", t)
  <2>1. \A x \in {"main", "master", "reload", "config", "restart", "new", "save", "mark"} : Among(x, t) <=> Among(x, a)
    BY <1>5, <1>7, <1>8
  <2> QED  BY <1>2, <2>1 DEF Holds
<1>10. \A i \in DOMAIN t :
         \/ i \in 1..3 /\ t[i] \in {"root", "copy", "manifest"}
         \/ i - 3 \in DOMAIN a /\ i > 3 /\ t[i] = a[i - 3]
  <2>1. Len(a) \in Nat /\ DOMAIN a = 1..Len(a)
    BY <1>2
  <2>2. DOMAIN t = 1..(3 + Len(a)) /\ \A i \in DOMAIN t : t[i] = IF i <= 3 THEN r[i] ELSE a[i - 3]
    BY <1>1, <1>4 DEF Joins
  <2>3. \A i \in DOMAIN t : i \in 1..3 \/ (i - 3 \in DOMAIN a /\ i > 3)
    BY <2>1, <2>2
  <2>4. \A i \in 1..3 : r[i] \in {"root", "copy", "manifest"} /\ i <= 3
    BY <1>1, <1>6
  <2>5. \A i \in DOMAIN t : i > 3 => ~(i <= 3)
    BY <2>1, <2>2
  <2> QED  BY <2>2, <2>3, <2>4, <2>5
<1>11. PICK n \in DOMAIN t : t[n] = "new"
  BY <1>9 DEF Among
<1>12. n - 3 \in DOMAIN a /\ n > 3 /\ a[n - 3] = "new"
  BY <1>10, <1>11
<1>13. ASSUME NEW i \in DOMAIN t, NEW j \in DOMAIN t, i < j, t[j] = "new"
       PROVE  t[i] \in {"root", "copy", "manifest"}
  <2>1. j - 3 \in DOMAIN a /\ a[j - 3] = "new"
    BY <1>10, <1>13
  <2>2. CASE i - 3 \in DOMAIN a /\ i > 3 /\ t[i] = a[i - 3]
    <3>1. i - 3 < j - 3
      BY <1>4, <1>13 DEF Joins
    <3>2. Rank(o, a[i - 3]) < Rank(o, "new")
      BY <1>2, <2>1, <2>2, <3>1 DEF Rising
    <3>3. Rank(o, a[i - 3]) \in 1..10
      BY <1>2, <2>2 DEF Within
    <3> QED  BY <3>2, <3>3, Ranks
  <2> QED  BY <1>10, <2>2
<1>14. ASSUME NEW i \in DOMAIN t, NEW j \in DOMAIN t, i < j, \A k \in DOMAIN t : t[k] = "new" => k <= i
       PROVE  Rank(o, t[i]) < Rank(o, t[j])
  <2>1. n <= i /\ i \in Nat /\ j \in Nat /\ n \in Nat
    <3>1. DOMAIN t \subseteq Nat
      BY <1>4
    <3> QED  BY <1>11, <1>14, <3>1
  <2>2. i > 3 /\ j > 3 /\ i - 3 < j - 3
    BY <1>12, <1>14, <2>1
  <2>3. i - 3 \in DOMAIN a /\ t[i] = a[i - 3] /\ j - 3 \in DOMAIN a /\ t[j] = a[j - 3]
    <3>1. \A k \in 1..3 : ~(k > 3)
      OBVIOUS
    <3> QED  BY <1>10, <2>2, <3>1
  <2> QED  BY <1>2, <2>2, <2>3 DEF Rising
<1>15. Ranked(o, t) /\ Whole(t)
  BY <1>9, <1>13, <1>14, HoldsWhole DEF Ranked
<1>16. t # <<>> /\ Head(t) = "root"
  <2>1. t # <<>> /\ t[1] = "root"
    BY RootInOrder
  <2> QED  BY <1>4, <2>1
<1>17. EndsWith(t, "manifest")
  <2>1. EndsWith(a, "manifest")
    BY AttemptEnds DEF a
  <2>2. EndsWith(r \o a, "manifest")
    BY <1>1, <1>2, <2>1, JoinedEnds
  <2> QED  BY <1>3, <2>2
<1> QED  BY <1>4, <1>9, <1>15, <1>16, <1>17 DEF Program

\* A run that only makes a record.
LEMMA RecordProgram ==
  ASSUME NEW o \in Parts, NEW t, t = <<"new">> \o RecordSteps
  PROVE  Program(o, t, FALSE, FALSE) /\ ~Among("root", t) /\ ~Among("save", t)
<1>1. <<"new">> \in Seq(Steps) /\ RecordSteps \in Seq(Steps)
  BY DEF RecordSteps, Steps
<1>2. t \in Seq(Steps) /\ Len(t) = 3 /\ DOMAIN t = 1..3
  BY <1>1 DEF RecordSteps, Steps
<1>3. t[1] = "new" /\ t[2] = "copy" /\ t[3] = "manifest" /\ t # <<>>
  BY DEF RecordSteps
<1>4. \A i \in 1..3 : i = 1 \/ i = 2 \/ i = 3
  OBVIOUS
<1>5. Rising(o, t) /\ Within(o, t, 1, 11)
  BY <1>2, <1>3, <1>4, Ranks DEF Rising, Within
<1>6. \A x : Among(x, t) <=> x \in {"new", "copy", "manifest"}
  <2>1. 1 \in 1..3 /\ 2 \in 1..3 /\ 3 \in 1..3
    OBVIOUS
  <2> QED  BY <1>2, <1>3, <1>4, <2>1 DEF Among
<1>7. Holds(t, FALSE, FALSE)
  BY <1>6 DEF Holds
<1>8. Whole(t)
  BY <1>6, <1>7, HoldsWhole
<1>9. Head(t) = "new"
  BY <1>2, <1>3
<1>10. Ranked(o, t)
  BY <1>2, <1>5, RisingIsRanked
<1>11. Among("new", t) /\ ~Among("mark", t) /\ ~Among("root", t) /\ ~Among("save", t)
  BY <1>6
<1>12. EndsWith(t, "manifest")
  BY <1>2, <1>3 DEF EndsWith
<1> QED  BY <1>2, <1>3, <1>7, <1>8, <1>9, <1>10, <1>11, <1>12 DEF Program

\* What undoes a switch, in the order o.
UndoOrder(u) == IF u = DaemonSteps \o PostfixSteps THEN "daemon" ELSE "postfix"
LEMMA UndoProgram ==
  ASSUME NEW u \in Both, NEW t, t = u \o <<"mark">>, NEW o, o = UndoOrder(u)
  PROVE  /\ o \in Parts /\ t \in Seq(Steps) /\ u \in Seq(SwitchSteps) /\ Ranked(o, t) /\ Whole(t)
         /\ \A x \in Steps : Among(x, t) <=> x = "mark" \/ Among(x, u)
<1>1. o \in Parts
  BY DEF UndoOrder, Parts
<1>2. /\ u \in Seq(SwitchSteps) /\ Rising(o, u) /\ Within(o, u, 3, 7)
      /\ \E p, d \in BOOLEAN : Holds(u, p, d)
  <2>1. CASE u = DaemonSteps \o PostfixSteps
    BY <2>1, BothRise DEF UndoOrder
  <2>2. CASE u # DaemonSteps \o PostfixSteps
    <3>1. o = "postfix"
      BY <2>2 DEF UndoOrder
    <3>2. CASE u = PostfixSteps \o DaemonSteps
      BY <3>1, <3>2, BothRise
    <3>3. CASE u \in {<<>>, PostfixSteps, DaemonSteps}
      <4>1. Within(o, <<>>, 3, 7) /\ Within(o, PostfixSteps, 3, 7) /\ Within(o, DaemonSteps, 3, 7)
        BY <1>1, PartsWithin
      <4> QED  BY <1>1, <3>3, <4>1, PartsRise
    <3> QED  BY <2>2, <3>2, <3>3 DEF Both
  <2> QED  BY <2>1, <2>2
<1> DEFINE m == <<"mark">>
<1>3. m \in Seq(Steps) /\ Rising(o, m) /\ Within(o, m, 11, 11) /\ \A x : Among(x, m) <=> x = "mark"
  <2>1. m \in Seq(Steps) /\ DOMAIN m = 1..1 /\ m[1] = "mark"
    BY DEF Steps
  <2>2. 1 \in 1..1 /\ \A i \in 1..1 : i = 1
    OBVIOUS
  <2> HIDE DEF m
  <2> QED  BY <1>1, <2>1, <2>2, Ranks DEF Rising, Within, Among
<1>4. t = u \o m
  OBVIOUS
<1> HIDE DEF m
<1>5. u \in Seq(Steps)
  <2>1. SwitchSteps \subseteq Steps
    BY DEF Steps, SwitchSteps
  <2> QED  BY <1>2, <2>1
<1>6. t \in Seq(Steps) /\ Joins(u, m, t)
  BY <1>3, <1>4, <1>5, Joined
<1>7. Rising(o, t) /\ Within(o, t, 3, 11)
  <2>1. 3 \in Nat /\ 7 \in Nat /\ 11 \in Nat /\ 3 <= 11 /\ 7 < 11 /\ 7 <= 11
    OBVIOUS
  <2> QED  BY <1>1, <1>2, <1>3, <1>5, <1>6, <2>1, JoinedRises
<1>8. Within(o, t, 1, 11)
  BY <1>7 DEF Within
<1>9. \A x \in Steps : Among(x, t) <=> x = "mark" \/ Among(x, u)
  BY <1>3, <1>5, <1>6, JoinedHolds
<1>10. Whole(t)
  <2>1. PICK p, d \in BOOLEAN : Holds(u, p, d)
    BY <1>2
  <2>2. {"main", "master", "reload", "config", "restart", "new", "save", "root", "mark"} \subseteq Steps
    BY DEF Steps
  <2>3. ~Among("root", u) /\ ~Among("new", u)
    <3>1. "root" \notin SwitchSteps /\ "new" \notin SwitchSteps
      BY DEF SwitchSteps
    <3> QED  BY <1>2, <3>1 DEF Among
  <2>4. ~Among("root", t) /\ ~Among("new", t)
    BY <1>9, <2>2, <2>3
  <2>5. Holds(t, p, d)
    BY <1>9, <2>1, <2>2 DEF Holds
  <2> QED  BY <2>4, <2>5, HoldsWhole
<1> QED  BY <1>1, <1>2, <1>6, <1>7, <1>8, <1>9, <1>10, RisingIsRanked
-----------------------------------------------------------------------------
\* What is written does not take from what is kept.
LEMMA KeepsKept ==
  ASSUME \A i \in Records : i \in Records' /\ backups'[i] = backups[i]
  PROVE  /\ \A c : OfRecord(c) => OfRecord(c)'
         /\ \A e : EditOfRecord(e) => EditOfRecord(e)'
BY DEF OfRecord, EditOfRecord

\* The run at work, step by step.
LEMMA KeptUnfolds ==
  ASSUME TypeInv, KeptInv, lock # "none"
  PROVE  /\ work.todo \in Seq(Steps) /\ work.todo # <<>> /\ WorkShape /\ DOMAIN work = DOMAIN NoWork
         /\ \E o \in Parts :
              /\ Ranked(o, work.todo) /\ Stepped(o, work.todo, Tail(work.todo))
         /\ work.outcome # "forward" => Head(work.todo) \in SwitchSteps \cup {"mark"}
         /\ Head(work.todo) = "save" => work.dir # 0 /\ ~Ahead("new")
         /\ Head(work.todo) \in SwitchSteps => Switching
         /\ work.dir \in 0..Len(backups) /\ DOMAIN backups = 1..Len(backups) /\ work.dir \notin Records
         /\ Len(backups) \in Nat
<1>1. WorkShape /\ DOMAIN work = DOMAIN NoWork /\ Whole(work.todo)
  BY DEF TypeInv, WorkTyped, HistoryInv, Shape, KeptInv
<1>2. work.todo \in Seq(Steps) /\ work.todo # <<>>
  BY <1>1 DEF WorkShape, InOrder
<1>3. PICK o \in Parts : Ranked(o, work.todo)
  BY DEF KeptInv
<1>4. Stepped(o, work.todo, Tail(work.todo))
  BY <1>1, <1>2, <1>3, TailSteps
<1>5. Head(work.todo) \in Steps /\ Among(Head(work.todo), work.todo)
  <2>1. 1 \in DOMAIN work.todo /\ Head(work.todo) = work.todo[1]
    BY <1>2
  <2> QED  BY <1>4, <2>1 DEF Stepped, Among
<1>6. work.outcome # "forward" => Head(work.todo) \in SwitchSteps \cup {"mark"}
  <2>1. 1 \in DOMAIN work.todo /\ Head(work.todo) = work.todo[1]
    BY <1>2
  <2> QED  BY <1>1, <2>1 DEF WorkShape, OnlyUndoes
<1>7. {"new", "save"} \subseteq Steps
  BY DEF Steps
<1>8. ASSUME Head(work.todo) \notin {"root", "new", "copy", "manifest"} PROVE ~Ahead("new")
  BY <1>4, <1>7, <1>8 DEF Stepped, Ahead
<1>9. Head(work.todo) = "save" => work.dir # 0 /\ ~Ahead("new")
  BY <1>5, <1>8 DEF KeptInv, Ahead
<1>10. ASSUME Head(work.todo) \in SwitchSteps PROVE Switching
  <2>1. Head(work.todo) \notin {"root", "new", "copy", "manifest", "save"}
    BY <1>10 DEF SwitchSteps
  <2>2. ~Among("new", Tail(work.todo))
    BY <1>4, <2>1 DEF Stepped
  <2>3. ~Among("save", Tail(work.todo))
    <3>1. Rank(o, Head(work.todo)) \in 3..7 /\ Rank(o, "save") = 2
      BY <1>10, Ranks
    <3>2. Among("save", Tail(work.todo)) => Rank(o, Head(work.todo)) < Rank(o, "save")
      BY <1>4, <1>7, <2>2 DEF Stepped
    <3> QED  BY <3>1, <3>2
  <2>4. ~Ahead("save")
    BY <1>4, <1>7, <2>1, <2>3 DEF Stepped, Ahead
  <2> QED  BY <1>5, <1>10, <2>4 DEF KeptInv, Ahead
<1>11. /\ work.dir \in 0..Len(backups) /\ DOMAIN backups = 1..Len(backups) /\ work.dir \notin Records
       /\ Len(backups) \in Nat
  BY Numbered DEF TypeInv, HistoryInv, Shape, FillsFresh
<1> QED  BY <1>1, <1>2, <1>3, <1>4, <1>6, <1>9, <1>10, <1>11

\* What is to be undone, once a step begins.
LEMMA StartingFits ==
  ASSUME TypeInv, KeptInv, lock # "none", work.outcome = "forward", NEW w, w = Starting(work)
  PROVE  /\ w.undo \in Both
         /\ Among("main", Tail(work.todo)) => w.undo \in {<<>>, DaemonSteps}
         /\ Among("config", Tail(work.todo)) => w.undo \in {<<>>, PostfixSteps}
         /\ w.todo = work.todo /\ w.dir = work.dir /\ w.kind = work.kind /\ w.source = work.source
         /\ w.installs = work.installs /\ w.outcome = "forward" /\ DOMAIN w = DOMAIN NoWork
<1>1. /\ work.undo \in Both
      /\ Ahead("main") => work.undo \in {<<>>, DaemonSteps}
      /\ Ahead("config") => work.undo \in {<<>>, PostfixSteps}
  BY DEF KeptInv, UndoFits
<1>2. PICK o \in Parts : Stepped(o, work.todo, Tail(work.todo))
  BY KeptUnfolds
<1>3. DOMAIN work = DOMAIN NoWork /\ Ahead(Head(work.todo))
  <2>1. work.todo \in Seq(Steps) /\ work.todo # <<>> /\ DOMAIN work = DOMAIN NoWork
    BY KeptUnfolds
  <2>2. 1 \in DOMAIN work.todo /\ Head(work.todo) = work.todo[1]
    BY <2>1
  <2> QED  BY <2>1, <2>2 DEF Ahead, Among
<1>4. {"main", "config"} \subseteq Steps
  BY DEF Steps
<1>5. /\ Among("main", Tail(work.todo)) => Ahead("main")
      /\ Among("config", Tail(work.todo)) => Ahead("config")
  BY <1>2, <1>4 DEF Stepped, Ahead
<1>6. Head(work.todo) = "main" => ~Among("main", Tail(work.todo))
  <2>1. ASSUME Head(work.todo) = "main", Among("main", Tail(work.todo)) PROVE FALSE
    <3>1. Rank(o, "main") < Rank(o, "main") /\ Rank(o, "main") \in 0..11
      BY <1>2, <1>4, <2>1, Ranks DEF Stepped
    <3> QED  BY <3>1
  <2> QED  BY <2>1
<1>7. Head(work.todo) = "config" => ~Among("config", Tail(work.todo))
  <2>1. ASSUME Head(work.todo) = "config", Among("config", Tail(work.todo)) PROVE FALSE
    <3>1. Rank(o, "config") < Rank(o, "config") /\ Rank(o, "config") \in 0..11
      BY <1>2, <1>4, <2>1, Ranks DEF Stepped
    <3> QED  BY <3>1
  <2> QED  BY <2>1
<1>8. PostfixSteps \o <<>> = PostfixSteps /\ DaemonSteps \o <<>> = DaemonSteps
  <2>1. PostfixSteps \in Seq(SwitchSteps) /\ DaemonSteps \in Seq(SwitchSteps)
    BY DEF PostfixSteps, DaemonSteps, SwitchSteps
  <2> QED  BY <2>1, ConcatEmptySeq
<1>9. /\ w.todo = work.todo /\ w.dir = work.dir /\ w.kind = work.kind /\ w.source = work.source
      /\ w.installs = work.installs /\ w.outcome = "forward" /\ DOMAIN w = DOMAIN NoWork
  BY <1>3 DEF Starting, NoWork
<1>10. w.undo = CASE Head(work.todo) = "main" -> PostfixSteps \o work.undo
                  [] Head(work.todo) = "config" -> DaemonSteps \o work.undo
                  [] OTHER -> work.undo
  BY <1>3 DEF Starting, NoWork
<1>11. CASE Head(work.todo) = "main"
  <2>1. w.undo = PostfixSteps \o work.undo /\ work.undo \in {<<>>, DaemonSteps}
    BY <1>1, <1>3, <1>10, <1>11
  <2>2. Among("config", Tail(work.todo)) => work.undo = <<>>
    <3>1. Among("config", Tail(work.todo)) => work.undo \in {<<>>, PostfixSteps}
      BY <1>1, <1>5
    <3>2. PostfixSteps # DaemonSteps
      BY DEF PostfixSteps, DaemonSteps
    <3> QED  BY <2>1, <3>1, <3>2
  <2> QED  BY <1>6, <1>8, <1>9, <1>11, <2>1, <2>2 DEF Both
<1>12. CASE Head(work.todo) = "config"
  <2>1. w.undo = DaemonSteps \o work.undo /\ work.undo \in {<<>>, PostfixSteps}
    BY <1>1, <1>3, <1>10, <1>12
  <2>2. Among("main", Tail(work.todo)) => work.undo = <<>>
    <3>1. Among("main", Tail(work.todo)) => work.undo \in {<<>>, DaemonSteps}
      BY <1>1, <1>5
    <3>2. PostfixSteps # DaemonSteps
      BY DEF PostfixSteps, DaemonSteps
    <3> QED  BY <2>1, <3>1, <3>2
  <2> QED  BY <1>7, <1>8, <1>9, <1>12, <2>1, <2>2 DEF Both
<1>13. CASE Head(work.todo) \notin {"main", "config"}
  <2>1. w.undo = work.undo
    BY <1>10, <1>13
  <2> QED  BY <1>1, <1>5, <1>9, <2>1
<1> QED  BY <1>11, <1>12, <1>13

\* The next step of a run, after one that makes no directory and no record.
LEMMA DoneKept ==
  ASSUME TypeInv, KeptInv, lock # "none", Done, Head(work.todo) \notin {"root", "new", "manifest"},
         \A i \in Records : i \in Records' /\ backups'[i] = backups[i],
         lock' # "none" =>
           /\ Head(work.todo) = "save" => Switching'
           /\ Head(work.todo) # "save" => (Switching' <=> Switching)
           /\ work.outcome # "forward" => backups'[work.dir].before = backups[work.dir].before
           /\ work.source.main.edit = files.main.edit => files'.main.edit = files.main.edit
           /\ Switching' =>
                /\ files'.config = backups'[work.dir].before.config \/ OfRecord(files.config)'
                /\ \/ files'.main.edit = backups'[work.dir].before.main.edit
                   \/ EditOfRecord(files.main.edit)' \/ OwnEdit'
  PROVE  KeptInv'
<1> SUFFICES ASSUME lock' # "none" PROVE KeptInv'
  BY DEF KeptInv
<1> DEFINE v == Starting(work)
           w == Rest(v)
<1>1. /\ DOMAIN work = DOMAIN NoWork /\ WorkShape
      /\ work.outcome # "forward" => Head(work.todo) \in SwitchSteps \cup {"mark"}
  BY KeptUnfolds
<1>2. /\ DOMAIN v = DOMAIN NoWork /\ v.todo = work.todo /\ v.dir = work.dir
      /\ v.source = work.source /\ v.outcome = work.outcome
      /\ v.installs = work.installs
  BY <1>1, StartingSound DEF Starting, NoWork, WorkShape
<1>3. work.outcome = "forward" =>
        /\ v.undo \in Both
        /\ Among("main", Tail(work.todo)) => v.undo \in {<<>>, DaemonSteps}
        /\ Among("config", Tail(work.todo)) => v.undo \in {<<>>, PostfixSteps}
  BY StartingFits
<1> HIDE DEF v
<1>4. /\ w.todo = Tail(work.todo) /\ w.dir = work.dir /\ w.undo = v.undo
      /\ w.source = work.source /\ w.outcome = work.outcome /\ w.installs = work.installs
  BY <1>2 DEF Rest, NoWork
<1>5. Continue(w)
  BY DEF Done, v
<1> HIDE DEF w
<1>6. work' = w /\ lock' = lock /\ plan' = plan /\ Op' = Op
  BY <1>5, Resumed DEF Op
<1>7. PICK o \in Parts : Stepped(o, work.todo, w.todo)
  BY <1>4, KeptUnfolds
<1>8. /\ Ranked(o, w.todo) /\ Whole(w.todo)
      /\ \A x \in Steps : Ahead(x) <=> x = Head(work.todo) \/ Among(x, w.todo)
  BY <1>7 DEF Stepped, Ahead
<1>9. {"new", "save", "main", "config"} \subseteq Steps /\ SwitchSteps \subseteq Steps
  BY DEF Steps, SwitchSteps
<1>10. \A x : Ahead(x)' <=> Among(x, w.todo)
  BY <1>6 DEF Ahead
<1>11. Ahead("save")' /\ ~Ahead("new")' => work'.dir # 0
  BY <1>4, <1>6, <1>8, <1>9, <1>10 DEF KeptInv
<1>12. work'.outcome # "forward" => Switching'
  <2>1. ASSUME work.outcome # "forward" PROVE Switching'
    <3>1. Head(work.todo) # "save"
      BY <1>1, <2>1 DEF SwitchSteps
    <3> QED  BY <2>1, <3>1 DEF KeptInv
  <2> QED  BY <1>4, <1>6, <2>1
<1>13. UndoFits'
  BY <1>3, <1>4, <1>6, <1>10 DEF UndoFits
<1>14. (\E x \in SwitchSteps : Ahead(x)') /\ ~Ahead("save")' => Switching'
  <2>1. ASSUME NEW x \in SwitchSteps, Ahead(x)', ~Ahead("save")', Head(work.todo) # "save" PROVE Switching'
    <3>1. Ahead(x) /\ ~Ahead("save")
      BY <1>8, <1>9, <1>10, <2>1
    <3> QED  BY <2>1, <3>1 DEF KeptInv
  <2> QED  BY <2>1
<1>15. SourceKept'
  <2>1. SourceKept /\ (\A c : OfRecord(c) => OfRecord(c)') /\ (\A e : EditOfRecord(e) => EditOfRecord(e)')
    BY KeepsKept DEF KeptInv
  <2>2. work'.source = work.source /\ work'.outcome = work.outcome /\ work'.installs = work.installs /\ work'.dir = work.dir
    BY <1>4, <1>6
  <2>3. ASSUME OfRecord(work.source.config) PROVE OfRecord(work.source.config)'
    <3>1. PICK i \in Records : work.source.config = backups[i].files.config
      BY <2>3 DEF OfRecord
    <3>2. i \in Records' /\ backups'[i] = backups[i]
      BY <3>1
    <3> QED  BY <2>2, <3>1, <3>2 DEF OfRecord
  <2>4. ASSUME EditOfRecord(work.source.main.edit) PROVE EditOfRecord(work.source.main.edit)'
    <3>1. PICK i \in Records : work.source.main.edit = backups[i].files.main.edit
      BY <2>4 DEF EditOfRecord
    <3>2. i \in Records' /\ backups'[i] = backups[i]
      BY <3>1
    <3> QED  BY <2>2, <3>1, <3>2 DEF EditOfRecord
  <2>5. CASE work.outcome = "forward"
    <3>1. \/ ~work.installs /\ work.source.main.edit = files.main.edit
          \/ ~work.installs /\ Op = "apply" /\ work.source.main.edit = plan[lock].staged.main.edit
          \/ OfRecord(work.source.config) /\ EditOfRecord(work.source.main.edit)
      BY <2>1, <2>5 DEF SourceKept
    <3> QED  BY <1>6, <2>2, <2>3, <2>4, <2>5, <3>1 DEF SourceKept
  <2>6. CASE work.outcome # "forward"
    <3>1. /\ work.source.main.edit = backups[work.dir].before.main.edit
          /\ work.source.config = backups[work.dir].before.config \/ OfRecord(work.source.config)
      BY <2>1, <2>6 DEF SourceKept
    <3>2. backups'[work.dir].before = backups[work.dir].before
      BY <2>6
    <3> QED  BY <2>2, <2>3, <2>6, <3>1, <3>2 DEF SourceKept
  <2> QED  BY <2>5, <2>6
<1>16. Switching' =>
         /\ files'.config = backups'[work'.dir].before.config \/ OfRecord(files.config)'
         /\ \/ files'.main.edit = backups'[work'.dir].before.main.edit
            \/ EditOfRecord(files.main.edit)' \/ OwnEdit'
  BY <1>4, <1>6
<1>17. (\E q \in Parts : Ranked(q, work'.todo)) /\ Whole(work'.todo)
  BY <1>6, <1>8
<1> QED  BY <1>11, <1>12, <1>13, <1>14, <1>15, <1>16, <1>17 DEF KeptInv

LEMMA GoesOnIn ==
  ASSUME TypeInv, KeptInv, lock # "none", Done
  PROVE  lock' # "none" => work'.dir = work.dir
<1>1. DOMAIN work = DOMAIN NoWork /\ WorkShape
  BY KeptUnfolds
<1>2. Rest(Starting(work)).dir = work.dir
  BY <1>1, StartingSound DEF Rest, NoWork, WorkShape
<1> QED  BY <1>2, Resumed DEF Done

\* The run goes on with what it staged; main.cf is put in place once.
LEMMA OwnStays ==
  ASSUME TypeInv, KeptInv, lock # "none", lock' # "none", Done
  PROVE  /\ Op' = Op /\ plan'[lock'] = plan[lock] /\ work'.outcome = work.outcome
         /\ Head(work.todo) = "main" => ~Ahead("main")'
         /\ OwnEdit /\ files'.main.edit = files.main.edit => OwnEdit'
<1> DEFINE w == Rest(Starting(work))
<1>1. DOMAIN work = DOMAIN NoWork /\ WorkShape
  BY KeptUnfolds
<1>2. w.todo = Tail(work.todo) /\ w.outcome = work.outcome
  BY <1>1, StartingSound DEF Rest, Starting, NoWork, WorkShape
<1> HIDE DEF w
<1>3. work' = w /\ lock' = lock /\ plan' = plan
  BY Resumed DEF Done, w
<1>4. PICK o \in Parts : Stepped(o, work.todo, Tail(work.todo))
  BY KeptUnfolds
<1>5. "main" \in Steps
  BY DEF Steps
<1>6. Ahead("main")' => Ahead("main")
  BY <1>2, <1>3, <1>4, <1>5 DEF Stepped, Ahead
<1>7. ASSUME Head(work.todo) = "main" PROVE ~Among("main", Tail(work.todo))
  <2>1. ~Among("new", Tail(work.todo))
    BY <1>4, <1>7 DEF Stepped
  <2>2. Rank(o, "main") \in 3..7
    BY Ranks DEF SwitchSteps
  <2>3. Among("main", Tail(work.todo)) => Rank(o, "main") < Rank(o, "main")
    BY <1>4, <1>5, <1>7, <2>1 DEF Stepped
  <2> QED  BY <2>2, <2>3
<1>8. Head(work.todo) = "main" => ~Ahead("main")'
  BY <1>2, <1>3, <1>7 DEF Ahead
<1>9. Op' = Op
  BY <1>3 DEF Op
<1> QED  BY <1>2, <1>3, <1>6, <1>8, <1>9 DEF OwnEdit

\* A step that writes no directory and changes no file.
LEMMA QuietKept ==
  ASSUME TypeInv, KeptInv, lock # "none", Done, UNCHANGED <<files, backups>>,
         Head(work.todo) \notin {"root", "new", "save", "manifest"}
  PROVE  KeptInv'
<1>1. Records' = Records
  BY DEF Records
<1>2. (\A c : OfRecord(c)' <=> OfRecord(c)) /\ (\A e : EditOfRecord(e)' <=> EditOfRecord(e))
  BY <1>1 DEF OfRecord, EditOfRecord
<1>3. lock' # "none" => work'.dir = work.dir
  BY GoesOnIn
<1>4. lock' # "none" => (Switching' <=> Switching)
  BY <1>3 DEF Switching
<1>5. (OfRecord(files.config)' <=> OfRecord(files.config)) /\ (EditOfRecord(files.main.edit)' <=> EditOfRecord(files.main.edit))
  BY <1>1 DEF OfRecord, EditOfRecord
<1>6. Switching =>
        /\ files.config = backups[work.dir].before.config \/ OfRecord(files.config)
        /\ files.main.edit = backups[work.dir].before.main.edit \/ EditOfRecord(files.main.edit) \/ OwnEdit
  BY DEF KeptInv
<1>7. lock' # "none" /\ OwnEdit => OwnEdit'
  BY OwnStays
<1> QED  BY <1>1, <1>4, <1>5, <1>6, <1>7, DoneKept

\* One of the files is replaced: what was there is kept, and so is what comes.
LEMMA InstallKept ==
  ASSUME TypeInv, KeptInv, NEW name \in {"config", "main", "master"}, Install(name)
  PROVE  KeptInv'
<1>1. /\ Done /\ UNCHANGED backups /\ lock # "none" /\ Head(work.todo) = name
      /\ files' = IF name # "config" \/ work.installs
                  THEN [files EXCEPT ![name] = work.source[name]] ELSE files
  BY DEF Install, At
<1>2. name \in SwitchSteps /\ name \notin {"root", "new", "save", "manifest"}
  BY DEF SwitchSteps
<1>3. Switching /\ SourceKept
  BY <1>1, <1>2, KeptUnfolds DEF KeptInv
<1>4. lock' # "none" => work'.dir = work.dir
  BY <1>1, GoesOnIn
<1>5. lock' # "none" => (Switching' <=> Switching)
  BY <1>1, <1>4 DEF Switching
<1>6. Records' = Records
  BY <1>1 DEF Records
<1>7. files \in HostFiles /\ work.source \in HostFiles
  BY <1>1 DEF TypeInv, HostTyped, WorkTyped
<1>8. /\ files'.config = files.config \/ (work.installs /\ files'.config = work.source.config)
      /\ files'.main = files.main \/ files'.main = work.source.main
  BY <1>1, <1>7 DEF HostFiles
<1>9. /\ files.config = backups[work.dir].before.config \/ OfRecord(files.config)
      /\ files.main.edit = backups[work.dir].before.main.edit \/ EditOfRecord(files.main.edit) \/ OwnEdit
  BY <1>1, <1>3 DEF KeptInv
<1>10. work.installs => work.source.config = backups[work.dir].before.config \/ OfRecord(work.source.config)
  BY <1>3 DEF SourceKept
<1>11. files'.config = backups[work.dir].before.config \/ OfRecord(files.config)'
  <2>1. OfRecord(files.config)' <=> \E i \in Records : files'.config = backups[i].files.config
    BY <1>1, <1>6 DEF OfRecord
  <2> QED  BY <1>8, <1>9, <1>10, <2>1 DEF OfRecord
<1>12. ASSUME lock' # "none"
       PROVE  files'.main.edit = backups[work.dir].before.main.edit \/ EditOfRecord(files.main.edit)' \/ OwnEdit'
  <2>1. EditOfRecord(files.main.edit)' <=> \E i \in Records : files'.main.edit = backups[i].files.main.edit
    BY <1>1, <1>6 DEF EditOfRecord
  <2>2. OwnEdit /\ files'.main.edit = files.main.edit => OwnEdit'
    BY <1>1, <1>12, OwnStays
  <2>3. CASE files'.main = files.main
    BY <1>9, <2>1, <2>2, <2>3 DEF EditOfRecord
  <2>4. CASE files'.main # files.main
    <3>1. name = "main" /\ files'.main = work.source.main
      BY <1>1, <1>7, <2>4 DEF HostFiles
    <3>2. \/ work.source.main.edit = files.main.edit
          \/ work.outcome = "forward" /\ Op = "apply" /\ work.source.main.edit = plan[lock].staged.main.edit
          \/ work.source.main.edit = backups[work.dir].before.main.edit
          \/ EditOfRecord(work.source.main.edit)
      BY <1>3 DEF SourceKept
    <3>3. Op' = Op /\ plan'[lock'] = plan[lock] /\ ~Ahead("main")'
      BY <1>1, <1>12, <3>1, OwnStays
    <3>4. work.source.main.edit = files.main.edit =>
            \/ files'.main.edit = backups[work.dir].before.main.edit
            \/ EditOfRecord(files.main.edit)' \/ OwnEdit'
      BY <1>9, <2>1, <2>2, <3>1 DEF EditOfRecord
    <3> QED  BY <2>1, <3>1, <3>2, <3>3, <3>4 DEF EditOfRecord, OwnEdit
  <2> QED  BY <2>3, <2>4
<1>13. work.source.main.edit = files.main.edit => files'.main.edit = files.main.edit
  BY <1>8
<1> QED  BY <1>1, <1>2, <1>5, <1>6, <1>11, <1>12, <1>13, DoneKept

\* The files are saved.
LEMMA SaveKept ==
  ASSUME TypeInv, KeptInv, SaveBefore
  PROVE  KeptInv'
<1>1. Done /\ Put("before", files) /\ UNCHANGED files /\ lock # "none" /\ Head(work.todo) = "save"
  BY DEF SaveBefore, Filing, At
<1>2. Records' = Records /\ \A i \in Records : backups'[i] = backups[i]
  BY <1>1, DoneKeeps, DirectoryWritten DEF TypeInv, HistoryInv
<1>3. work.dir \in DOMAIN backups /\ work.dir # 0 /\ work.dir \in 0..Len(backups)
  BY <1>1, KeptUnfolds
<1>4. backups'[work.dir] = [backups[work.dir] EXCEPT !["before"] = files]
  BY <1>1, <1>3, Written DEF Put, TypeInv, HistoryInv, Shape
<1>5. backups'[work.dir].before = files
  BY <1>3, <1>4 DEF TypeInv, HistoryInv, Shape, NewBackup
<1>6. files # NoFiles
  BY ActivationAssumption DEF TypeInv, HostTyped, HostFiles, NoFiles, Files
<1>7. lock' # "none" => Switching'
  BY <1>1, <1>3, <1>5, <1>6, GoesOnIn DEF Switching
<1>8. work.outcome = "forward"
  BY <1>1, KeptUnfolds DEF SwitchSteps
<1> QED  BY <1>1, <1>2, <1>5, <1>7, <1>8, DoneKept

LEMMA CopyKept ==
  ASSUME TypeInv, KeptInv, CopyRecord
  PROVE  KeptInv'
<1>1. Done /\ Put("files", files) /\ UNCHANGED files /\ lock # "none" /\ Head(work.todo) = "copy"
  BY DEF CopyRecord, Filing, At
<1>2. Records' = Records /\ \A i \in Records : backups'[i] = backups[i]
  BY <1>1, DoneKeeps, DirectoryWritten DEF TypeInv, HistoryInv
<1>3. work.dir \in 0..Len(backups) /\ DOMAIN backups = 1..Len(backups) /\ Len(backups) \in Nat
  BY <1>1, KeptUnfolds
<1>4. ASSUME work.dir # 0 PROVE backups'[work.dir].before = backups[work.dir].before
  <2>1. work.dir \in DOMAIN backups
    BY <1>3, <1>4
  <2>2. backups'[work.dir] = [backups[work.dir] EXCEPT !["files"] = files]
    BY <1>1, <1>3, <2>1, Written DEF Put, TypeInv, HistoryInv, Shape
  <2> QED  BY <2>1, <2>2 DEF TypeInv, HistoryInv, Shape, NewBackup
<1>5. lock' # "none" => work'.dir = work.dir
  BY <1>1, GoesOnIn
<1>6. lock' # "none" => (Switching' <=> Switching)
  BY <1>4, <1>5 DEF Switching
<1>7. (OfRecord(files.config)' <=> OfRecord(files.config)) /\ (EditOfRecord(files.main.edit)' <=> EditOfRecord(files.main.edit))
  BY <1>1, <1>2 DEF OfRecord, EditOfRecord
<1>8. Switching =>
        /\ files.config = backups[work.dir].before.config \/ OfRecord(files.config)
        /\ files.main.edit = backups[work.dir].before.main.edit \/ EditOfRecord(files.main.edit) \/ OwnEdit
        /\ backups'[work.dir].before = backups[work.dir].before
  BY <1>1, <1>4 DEF KeptInv, Switching
<1>9. work.outcome = "forward"
  BY <1>1, KeptUnfolds DEF SwitchSteps
<1>10. lock' # "none" /\ OwnEdit => OwnEdit'
  BY <1>1, OwnStays
<1> QED  BY <1>1, <1>2, <1>6, <1>7, <1>8, <1>9, <1>10, DoneKept

\* A failed run is marked, and has ended.
LEMMA MarkKept ==
  ASSUME TypeInv, KeptInv, MarkFailed
  PROVE  KeptInv'
<1>1. Done /\ lock # "none" /\ Head(work.todo) = "mark"
  BY DEF MarkFailed, At
<1>2. PICK o \in Parts : Stepped(o, work.todo, Tail(work.todo))
  BY <1>1, KeptUnfolds
<1>3. work.todo \in Seq(Steps) /\ work.todo # <<>> /\ DOMAIN work = DOMAIN NoWork /\ WorkShape
  BY <1>1, KeptUnfolds
<1>4. Tail(work.todo) = <<>>
  <2> SUFFICES ASSUME Tail(work.todo) # <<>> PROVE FALSE
    OBVIOUS
  <2> DEFINE u == Tail(work.todo)
  <2>1. u \in Seq(Steps) /\ 1 \in DOMAIN u /\ u[1] \in Steps
    BY <1>3
  <2> HIDE DEF u
  <2>2. ~Among("new", u)
    BY <1>1, <1>2 DEF Stepped, u
  <2>3. Among(u[1], u)
    BY <2>1 DEF Among
  <2>4. Rank(o, "mark") < Rank(o, u[1])
    BY <1>1, <1>2, <2>1, <2>2, <2>3 DEF Stepped, u
  <2>5. Rank(o, "mark") = 11 /\ Rank(o, u[1]) \in 0..11
    BY <2>1, Ranks
  <2> QED  BY <2>4, <2>5
<1>5. Rest(Starting(work)).todo = <<>>
  BY <1>3, <1>4, StartingSound DEF Rest, NoWork, WorkShape
<1>6. lock' = "none"
  BY <1>1, <1>5 DEF Done, Continue
<1> QED  BY <1>6 DEF KeptInv

\* A new directory, or a record: nothing has been switched for it yet.
LEMMA BeginsKept ==
  ASSUME TypeInv, KeptInv, lock # "none", UNCHANGED files, Head(work.todo) \in {"root", "new", "manifest"},
         \A i \in Records : i \in Records' /\ backups'[i] = backups[i],
         NEW w, Continue(w), DOMAIN w = DOMAIN work, w.todo = Tail(work.todo), w.undo = work.undo,
         w.source = work.source, w.outcome = work.outcome, w.installs = work.installs,
         w.dir = 0 \/ backups'[w.dir].before = NoFiles, Head(work.todo) # "manifest" => w.dir # 0
  PROVE  KeptInv'
<1> SUFFICES ASSUME lock' # "none" PROVE KeptInv'
  BY DEF KeptInv
<1>1. work' = w /\ w.todo # <<>> /\ Op' = Op /\ plan'[lock'] = plan[lock]
  BY Resumed DEF Op
<1>2. PICK o \in Parts : Stepped(o, work.todo, w.todo)
  BY KeptUnfolds
<1>3. /\ Ranked(o, w.todo) /\ Whole(w.todo)
      /\ \A x \in Steps : Ahead(x) <=> x = Head(work.todo) \/ Among(x, w.todo)
  BY <1>2 DEF Stepped, Ahead
<1>4. ~Switching'
  BY <1>1 DEF Switching
<1>5. work.outcome = "forward"
  BY KeptUnfolds DEF SwitchSteps
<1>6. {"new", "save", "main", "config", "root"} \subseteq Steps /\ SwitchSteps \subseteq Steps
  BY DEF Steps, SwitchSteps
<1>7. \A x : Ahead(x)' <=> Among(x, w.todo)
  BY <1>1 DEF Ahead
\* After the manifest nothing is left but a run of its own.
<1>8. ASSUME Head(work.todo) = "manifest", NEW x \in SwitchSteps \cup {"save"}, Among(x, w.todo)
      PROVE  Among("new", w.todo)
  <2> SUFFICES ASSUME ~Among("new", w.todo) PROVE FALSE
    OBVIOUS
  <2>1. Rank(o, "manifest") < Rank(o, x)
    BY <1>2, <1>6, <1>8 DEF Stepped
  <2>2. Rank(o, "manifest") = 10 /\ (x \in SwitchSteps => Rank(o, x) \in 3..7) /\ Rank(o, "save") = 2
    BY Ranks
  <2> QED  BY <2>1, <2>2
<1>9. Ahead("save")' /\ ~Ahead("new")' => work'.dir # 0
  BY <1>1, <1>7, <1>8
<1>10. UndoFits'
  <2>1. /\ work.undo \in Both
        /\ Ahead("main") => work.undo \in {<<>>, DaemonSteps}
        /\ Ahead("config") => work.undo \in {<<>>, PostfixSteps}
    BY <1>5 DEF KeptInv, UndoFits
  <2> QED  BY <1>1, <1>3, <1>6, <1>7, <2>1 DEF UndoFits
<1>11. ASSUME NEW x \in SwitchSteps, Ahead(x)' PROVE Ahead("save")'
  <2>1. Ahead(x) /\ Among(x, w.todo)
    BY <1>3, <1>6, <1>7, <1>11
  <2>2. Ahead("new") \/ Among("new", w.todo)
    <3>1. CASE Head(work.todo) = "manifest"
      BY <1>8, <2>1, <3>1
    <3>2. CASE Head(work.todo) \in {"root", "new"}
      <4>1. Whole(work.todo)
        BY DEF KeptInv
      <4> QED  BY <1>3, <1>6, <3>2, <4>1 DEF Whole, Ahead
    <3> QED  BY <3>1, <3>2
  <2>3. Ahead("save")
    <3>1. Whole(work.todo) /\ Ahead("new")
      BY <1>3, <1>6, <2>2 DEF KeptInv
    <3> QED  BY <2>1, <3>1 DEF Whole, Ahead
  <2> QED  BY <1>3, <1>6, <1>7, <2>3
<1>12. SourceKept'
  <2>1. \/ ~work.installs /\ work.source.main.edit = files.main.edit
        \/ ~work.installs /\ Op = "apply" /\ work.source.main.edit = plan[lock].staged.main.edit
        \/ OfRecord(work.source.config) /\ EditOfRecord(work.source.main.edit)
    BY <1>5 DEF KeptInv, SourceKept
  <2>2. CASE ~work.installs /\ Op = "apply" /\ work.source.main.edit = plan[lock].staged.main.edit
    BY <1>1, <1>5, <2>2 DEF SourceKept
  <2>3. CASE OfRecord(work.source.config) /\ EditOfRecord(work.source.main.edit)
    <3>1. PICK i \in Records : work.source.config = backups[i].files.config
      BY <2>3 DEF OfRecord
    <3>2. PICK j \in Records : work.source.main.edit = backups[j].files.main.edit
      BY <2>3 DEF EditOfRecord
    <3>3. i \in Records' /\ backups'[i] = backups[i] /\ j \in Records' /\ backups'[j] = backups[j]
      BY <3>1, <3>2
    <3> QED  BY <1>1, <1>5, <3>1, <3>2, <3>3 DEF SourceKept, OfRecord, EditOfRecord
  <2>4. CASE ~work.installs /\ work.source.main.edit = files.main.edit
    BY <1>1, <1>5, <2>4 DEF SourceKept
  <2> QED  BY <2>1, <2>2, <2>3, <2>4
<1>13. (\E q \in Parts : Ranked(q, work'.todo)) /\ Whole(work'.todo)
  BY <1>1, <1>3
<1> QED  BY <1>1, <1>4, <1>5, <1>9, <1>10, <1>11, <1>12, <1>13 DEF KeptInv

LEMMA NewKept ==
  ASSUME TypeInv, KeptInv, NewRoot \/ NewAttempt
  PROVE  KeptInv'
<1>1. PICK kind, predecessor : NewDirectory(kind, predecessor)
  BY DEF NewRoot, NewAttempt
<1>2. lock # "none" /\ Head(work.todo) \in {"root", "new"}
  BY DEF NewRoot, NewAttempt, At
<1> DEFINE w == [Rest(work) EXCEPT !.dir = Len(backups) + 1, !.kind = kind, !.predecessor = predecessor]
<1>3. backups' = Append(backups, NewBackup) /\ Continue(w) /\ UNCHANGED files
  BY <1>1 DEF NewDirectory
<1>4. DOMAIN work = DOMAIN NoWork
  BY <1>2, KeptUnfolds
<1>5. /\ w.todo = Tail(work.todo) /\ w.undo = work.undo /\ w.source = work.source
      /\ w.outcome = work.outcome /\ w.dir = Len(backups) + 1 /\ w.installs = work.installs
      /\ DOMAIN w = DOMAIN work
  BY <1>4 DEF Rest, NoWork
<1> HIDE DEF w
<1>6. Len(backups) \in Nat /\ backups'[Len(backups) + 1] = NewBackup
  BY <1>3, Numbered, Appended DEF TypeInv, HistoryInv, Shape
<1>7. backups'[w.dir].before = NoFiles /\ w.dir # 0
  BY <1>5, <1>6 DEF NewBackup
<1>8. \A i \in Records : i \in Records' /\ backups'[i] = backups[i]
  <2>1. NewRoot \/ NewAttempt => [Next]_vars
    BY DEF Next
  <2> QED  BY <2>1, HistoryStep DEF TypeInv
<1> QED  BY <1>2, <1>3, <1>5, <1>7, <1>8, BeginsKept

LEMMA ManifestKept ==
  ASSUME TypeInv, KeptInv, WriteManifest
  PROVE  KeptInv'
<1> DEFINE w == [Rest(work) EXCEPT !.dir = 0]
<1>1. Continue(w) /\ lock # "none" /\ Head(work.todo) = "manifest" /\ UNCHANGED files
  BY DEF WriteManifest, At
<1>2. DOMAIN work = DOMAIN NoWork
  BY <1>1, KeptUnfolds
<1>3. /\ w.todo = Tail(work.todo) /\ w.undo = work.undo /\ w.source = work.source
      /\ w.outcome = work.outcome /\ w.dir = 0 /\ w.installs = work.installs
      /\ DOMAIN w = DOMAIN work
  BY <1>2 DEF Rest, NoWork
<1> HIDE DEF w
<1>4. \A i \in Records : i \in Records' /\ backups'[i] = backups[i]
  BY RecordAdded DEF TypeInv
<1> QED  BY <1>1, <1>3, <1>4, BeginsKept

\* A failure: the run has ended, or goes on with the undo of what has begun.
LEMMA FailureKept ==
  ASSUME TypeInv, KeptInv, StepFails \/ RecoveryFails \/ Crash
  PROVE  KeptInv'
<1> SUFFICES ASSUME lock' # "none" PROVE KeptInv'
  BY DEF KeptInv
<1>1. lock # "none" /\ UNCHANGED <<files, backups>>
  BY DEF StepFails, RecoveryFails, Crash
<1>2. DOMAIN work = DOMAIN NoWork
  BY <1>1, KeptUnfolds
<1>3. PICK w :
        /\ Continue(w)
        /\ \/ w.todo = <<>>
           \/ Switching /\ work.outcome = "forward" /\ w = Undo
           \/ work.outcome = "undo" /\ w = [work EXCEPT !.todo = <<"mark">>, !.outcome = "stuck"]
  <2>1. [work EXCEPT !.todo = <<>>].todo = <<>>
    BY <1>2 DEF NoWork
  <2> QED  BY <2>1 DEF StepFails, RecoveryFails, Crash
<1>4. work' = w /\ w.todo # <<>> /\ Op' = Op /\ plan'[lock'] = plan[lock]
  BY <1>3, Resumed DEF Op
<1>5. Records' = Records
  BY <1>1 DEF Records
<1>6. Switching =>
        /\ files.config = backups[work.dir].before.config \/ OfRecord(files.config)
        /\ files.main.edit = backups[work.dir].before.main.edit \/ EditOfRecord(files.main.edit) \/ OwnEdit
  BY <1>1 DEF KeptInv
<1>7. (OfRecord(files.config)' <=> OfRecord(files.config)) /\ (EditOfRecord(files.main.edit)' <=> EditOfRecord(files.main.edit))
  BY <1>1, <1>5 DEF OfRecord, EditOfRecord
<1>8. CASE Switching /\ work.outcome = "forward" /\ w = Undo
  <2> DEFINE v == Starting(work)
             source == [backups[work.dir].before EXCEPT !.config = Recovery]
  <2>1. v.undo \in Both /\ DOMAIN v = DOMAIN NoWork /\ v.dir = work.dir
    BY <1>1, <1>8, StartingFits
  <2>2. /\ w.todo = v.undo \o <<"mark">> /\ w.outcome = "undo" /\ w.source = source /\ w.dir = work.dir
    BY <1>8, <2>1 DEF Undo, NoWork
  <2> HIDE DEF v
  <2>3. /\ \E o \in Parts : Ranked(o, w.todo)
        /\ Whole(w.todo) /\ v.undo \in Seq(SwitchSteps)
        /\ \A x \in Steps : Among(x, w.todo) <=> x = "mark" \/ Among(x, v.undo)
    BY <2>1, <2>2, UndoProgram
  <2>4. Switching'
    BY <1>1, <1>4, <1>8, <2>2 DEF Switching
  <2>5. ~Ahead("save")'
    <3>1. "save" \in Steps /\ "save" \notin SwitchSteps
      BY DEF Steps, SwitchSteps
    <3>2. ~Among("save", v.undo)
      BY <2>3, <3>1 DEF Among
    <3> QED  BY <1>4, <2>3, <3>1, <3>2 DEF Ahead
  <2>6. SourceKept'
    <3>1. backups[work.dir].before \in HostFiles
      <4>1. work.dir \in DOMAIN backups
        BY <1>1, <1>8, KeptUnfolds DEF Switching
      <4> QED  BY <1>8, <4>1 DEF Switching, TypeInv, CopiesTyped
    <3>2. source.main = backups[work.dir].before.main /\ source.config = Recovery
      BY <3>1 DEF HostFiles
    <3> HIDE DEF source
    <3>3. Recovery = backups[work.dir].before.config \/ \E i \in Records : Recovery = backups[i].files.config
      BY ActiveTyped DEF Recovery
    <3> QED  BY <1>1, <1>4, <1>5, <2>2, <3>2, <3>3 DEF SourceKept, OfRecord
  <2>7. UndoFits'
    BY <1>4, <2>2 DEF UndoFits
  <2>8. OwnEdit => OwnEdit'
    BY <1>1, <1>4, <2>2 DEF OwnEdit
  <2> QED  BY <1>1, <1>4, <1>6, <1>7, <1>8, <2>2, <2>3, <2>4, <2>5, <2>6, <2>7, <2>8 DEF KeptInv
<1>9. CASE work.outcome = "undo" /\ w = [work EXCEPT !.todo = <<"mark">>, !.outcome = "stuck"]
  <2>1. /\ w.todo = <<"mark">> /\ w.source = work.source /\ w.outcome = "stuck" /\ w.dir = work.dir
    BY <1>2, <1>9 DEF NoWork
  <2>2. Switching /\ SourceKept
    BY <1>1, <1>9 DEF KeptInv
  <2>3. Switching'
    BY <1>1, <1>4, <2>1, <2>2 DEF Switching
  <2>4. <<>> \in Both /\ <<"mark">> = <<>> \o <<"mark">>
    <3>1. <<"mark">> \in Seq(Steps)
      BY DEF Steps
    <3> QED  BY <3>1, ConcatEmptySeq DEF Both
  <2>5. /\ \E o \in Parts : Ranked(o, <<"mark">>)
        /\ Whole(<<"mark">>)
        /\ \A x \in Steps : Among(x, <<"mark">>) <=> x = "mark" \/ Among(x, <<>>)
    BY <2>4, UndoProgram
  <2>6. ~Ahead("save")'
    <3>1. "save" \in Steps /\ ~Among("save", <<>>)
      BY DEF Steps, Among
    <3> QED  BY <1>4, <2>1, <2>5, <3>1 DEF Ahead
  <2>7. SourceKept'
    <3>1. /\ work.source.main.edit = backups[work.dir].before.main.edit
          /\ work.source.config = backups[work.dir].before.config \/ OfRecord(work.source.config)
      BY <1>9, <2>2 DEF SourceKept
    <3> QED  BY <1>1, <1>4, <1>5, <2>1, <3>1 DEF SourceKept, OfRecord
  <2>8. UndoFits'
    BY <1>4, <2>1 DEF UndoFits
  <2>9. OwnEdit => OwnEdit'
    BY <1>1, <1>4, <2>1 DEF OwnEdit
  <2> QED  BY <1>1, <1>4, <1>6, <1>7, <2>1, <2>2, <2>3, <2>5, <2>6, <2>7, <2>8, <2>9 DEF KeptInv
<1> QED  BY <1>3, <1>4, <1>8, <1>9

\* A run begins.
LEMMA TakeKept ==
  ASSUME TypeInv, KeptInv, NEW r \in Runs, NEW todo, NEW source, NEW installs, NEW expected,
         Take(r, todo, source, installs, expected), NEW o \in Parts, NEW p, NEW d, Program(o, todo, p, d),
         \/ ~installs /\ source.main.edit = files.main.edit
         \/ ~installs /\ plan[r].op = "apply" /\ source.main.edit = plan[r].staged.main.edit
         \/ OfRecord(source.config) /\ EditOfRecord(source.main.edit)
  PROVE  KeptInv'
<1>1. /\ lock' = r /\ r # "none" /\ UNCHANGED <<files, backups, plan>>
      /\ work'.todo = todo /\ work'.source = source /\ work'.undo = <<>> /\ work'.dir = 0
      /\ work'.outcome = "forward" /\ work'.installs = installs
  BY ActivationAssumption DEF Take, NoWork
<1>2. Records' = Records
  BY <1>1 DEF Records
<1>3. ~Switching'
  BY <1>1 DEF Switching
<1>4. Ranked(o, todo) /\ Whole(todo) /\ Holds(todo, p, d) /\ Among("new", todo) /\ (p \/ d => Among("save", todo))
  BY DEF Program
<1>5. UndoFits'
  BY <1>1 DEF UndoFits, Both
<1>6. (\E x \in SwitchSteps : Ahead(x)') => Ahead("save")'
  BY <1>1, <1>4 DEF Ahead, Holds, SwitchSteps
<1>7. Ahead("new")'
  BY <1>1, <1>4 DEF Ahead
<1>8. SourceKept'
  BY <1>1, <1>2 DEF SourceKept, OfRecord, EditOfRecord, Op
<1> QED  BY <1>1, <1>3, <1>4, <1>5, <1>6, <1>7, <1>8 DEF KeptInv

\* The steps with which a run begins, and the order of its switch.
LEMMA ApplyBegins ==
  ASSUME NEW r \in Runs, Apply(r)
  PROVE  /\ \E todo, p, d :
              /\ Take(r, todo, StagedSource(plan[r]), FALSE, plan[r].inspected.config)
              /\ p = plan[r].diff /\ d = plan[r].restart
              /\ Program(IF plan[r].inspected.main.action = "accept" /\ plan[r].staged.main.action = "tempfail"
                         THEN "postfix" ELSE "daemon", todo, p, d)
         /\ plan[r].op = "apply" /\ files = plan[r].inspected
<1> DEFINE p == plan[r]
           stricter == p.inspected.main.action = "accept" /\ p.staged.main.action = "tempfail"
           s == Switch(p.diff, p.restart, stricter)
           o == IF stricter THEN "postfix" ELSE "daemon"
           root == IF NeedsRoot(p) THEN <<"root">> \o RecordSteps ELSE <<>>
           todo == IF ~p.diff /\ ~p.restart THEN <<"new">> \o RecordSteps ELSE root \o Attempt(s)
<1>1. /\ p.op = "apply" /\ files = p.inspected
      /\ Take(r, todo, StagedSource(p), FALSE, p.inspected.config)
  BY DEF Apply
<1>2. o \in Parts /\ s \in Seq(SwitchSteps) /\ Rising(o, s) /\ Within(o, s, 3, 7) /\ Holds(s, p.diff, p.restart)
  BY SwitchRises
<1> HIDE DEF s, o
<1>3. Program(o, todo, p.diff, p.restart)
  <2>1. CASE ~p.diff /\ ~p.restart
    <3>1. Program(o, todo, FALSE, FALSE)
      BY <1>2, <2>1, RecordProgram
    <3> QED  BY <2>1, <3>1 DEF Program, Holds
  <2>2. CASE ~(~p.diff /\ ~p.restart) /\ NeedsRoot(p)
    <3>1. todo = (<<"root">> \o RecordSteps) \o Attempt(s)
      BY <2>2
    <3> QED  BY <1>2, <3>1, RootProgram
  <2>3. CASE ~(~p.diff /\ ~p.restart) /\ ~NeedsRoot(p)
    <3>1. Attempt(s) \in Seq(Steps)
      BY <1>2, AttemptInOrder DEF InOrder
    <3>2. todo = Attempt(s)
      BY <2>3, <3>1, ConcatEmptySeq
    <3> QED  BY <1>2, <3>2, AttemptProgram
  <2> QED  BY <2>1, <2>2, <2>3
<1> HIDE DEF todo
<1>4. o = IF plan[r].inspected.main.action = "accept" /\ plan[r].staged.main.action = "tempfail"
          THEN "postfix" ELSE "daemon"
  BY DEF o
<1> QED  BY <1>1, <1>3, <1>4

LEMMA RollbackBegins ==
  ASSUME NEW r \in Runs, Rollback(r)
  PROVE  /\ \E todo, p, d, expected :
              /\ Take(r, todo, Target(plan[r]).files, "config" \in plan[r].changes, expected)
              /\ p = ({"main", "master"} \cap plan[r].changes # {})
              /\ d = ("config" \in plan[r].changes \/ plan[r].restart)
              /\ expected = IF d THEN Target(plan[r]).state.config ELSE files.config
              /\ Program(IF files.main.action = "accept" /\ Target(plan[r]).state.main.action = "tempfail"
                         THEN "postfix" ELSE "daemon", todo, p, d)
         /\ plan[r].op = "rollback" /\ Unchanged(plan[r].record)
<1> DEFINE p == plan[r]
           touched == {"main", "master"} \cap p.changes # {}
           installs == "config" \in p.changes
           stricter == files.main.action = "accept" /\ Target(p).state.main.action = "tempfail"
           s == Switch(touched, installs \/ p.restart, stricter)
           o == IF stricter THEN "postfix" ELSE "daemon"
           expected == IF installs \/ p.restart THEN Target(p).state.config ELSE files.config
           todo == Attempt(s)
<1>1. /\ p.op = "rollback" /\ Unchanged(p.record)
      /\ Take(r, todo, Target(p).files, installs, expected)
  BY DEF Rollback
<1>2. o \in Parts /\ s \in Seq(SwitchSteps) /\ Rising(o, s) /\ Within(o, s, 3, 7) /\ Holds(s, touched, installs \/ p.restart)
  BY SwitchRises
<1> HIDE DEF s, o
<1>3. Program(o, todo, touched, installs \/ p.restart)
  BY <1>2, AttemptProgram
<1> HIDE DEF todo
<1>4. o = IF files.main.action = "accept" /\ Target(plan[r]).state.main.action = "tempfail"
          THEN "postfix" ELSE "daemon"
  BY DEF o
<1> QED  BY <1>1, <1>3, <1>4

LEMMA InitKept == Init => KeptInv
BY DEF Init, KeptInv

LEMMA NextKept == ASSUME TypeInv, KeptInv, Meddling = {}, [Next]_vars PROVE KeptInv'
<1>a. lock # "none" => Op \in {"apply", "rollback"}
  BY DEF TypeInv, WorkTyped, WorkShape
<1>b. ASSUME UNCHANGED <<files, backups, lock, work>>, lock # "none" => plan'[lock] = plan[lock] PROVE KeptInv'
  <2>1. Records' = Records
    BY <1>b DEF Records
  <2>2. lock # "none" => (SourceKept' <=> SourceKept) /\ (OwnEdit' <=> OwnEdit)
    BY <1>b, <2>1 DEF SourceKept, OfRecord, EditOfRecord, OwnEdit, Op, Ahead
  <2>3. (Switching' <=> Switching) /\ (UndoFits' <=> UndoFits) /\ (\A x : Ahead(x)' <=> Ahead(x))
    BY <1>b DEF Switching, UndoFits, Ahead
  <2>4. (OfRecord(files.config)' <=> OfRecord(files.config)) /\ (EditOfRecord(files.main.edit)' <=> EditOfRecord(files.main.edit))
    BY <1>b, <2>1 DEF OfRecord, EditOfRecord
  <2> QED  BY <1>b, <2>2, <2>3, <2>4 DEF KeptInv
<1>1. ASSUME NEW r \in Runs, Inspect(r) \/ PlanApply(r) \/ PlanRollback(r) \/ Withdraw(r) PROVE KeptInv'
  <2>1. /\ UNCHANGED <<files, backups, lock, work>> /\ \E p : plan' = [plan EXCEPT ![r] = p]
        /\ plan[r] = NoPlan \/ plan[r].op = "inspected" \/ lock # r
    BY <1>1 DEF Inspect, PlanApply, PlanRollback, Withdraw
  <2>2. lock # "none" => lock # r /\ lock \in DOMAIN plan
    BY <1>a, <2>1 DEF Op, NoPlan, TypeInv, HistoryInv, Shape
  <2> QED  BY <1>b, <2>1, <2>2
<1>2. ASSUME NEW r \in Runs, Apply(r) PROVE KeptInv'
  <2>1. plan[r].op = "apply" /\ files = plan[r].inspected
    BY <1>2, ApplyBegins
  <2>2. PICK o, todo, p, d :
          o \in Parts /\ Take(r, todo, StagedSource(plan[r]), FALSE, plan[r].inspected.config) /\ Program(o, todo, p, d)
    BY <1>2, ApplyBegins DEF Parts
  <2>3. \/ StagedSource(plan[r]).main.edit = plan[r].staged.main.edit
        \/ StagedSource(plan[r]).main.edit = files.main.edit
    BY DEF StagedSource
  <2> QED  BY <2>1, <2>2, <2>3, TakeKept
<1>3. ASSUME NEW r \in Runs, Rollback(r) PROVE KeptInv'
  <2>1. plan[r].op = "rollback"
    BY <1>3, RollbackBegins
  <2>2. PICK o, todo, p, d, expected :
          o \in Parts /\ Take(r, todo, Target(plan[r]).files, "config" \in plan[r].changes, expected) /\ Program(o, todo, p, d)
    BY <1>3, RollbackBegins DEF Parts
  <2>3. plan[r].record \in Records /\ backups[plan[r].record].predecessor \in Records
    BY <2>1 DEF TypeInv, HistoryInv, PlansRecords, HistoryWellFounded
  <2>4. OfRecord(Target(plan[r]).files.config) /\ EditOfRecord(Target(plan[r]).files.main.edit)
    BY <2>3 DEF OfRecord, EditOfRecord, Target
  <2> QED  BY <2>2, <2>4, TakeKept
<1>4. CASE NewRoot \/ NewAttempt
  BY <1>4, NewKept
<1>5. CASE SaveBefore
  BY <1>5, SaveKept
<1>6. CASE CopyRecord
  BY <1>6, CopyKept
<1>7. CASE WriteManifest
  BY <1>7, ManifestKept
<1>8. CASE MarkFailed
  BY <1>8, MarkKept
<1>9. ASSUME NEW name \in {"config", "main", "master"}, Install(name) PROVE KeptInv'
  BY <1>9, InstallKept
<1>10. CASE ReloadPostfix
  BY <1>10, QuietKept DEF ReloadPostfix, At
<1>11. CASE RestartDaemon
  BY <1>11, QuietKept DEF RestartDaemon, At
<1>12. CASE VerifyConfig
  BY <1>12, QuietKept DEF VerifyConfig, At
<1>13. CASE StepFails \/ RecoveryFails \/ Crash
  BY <1>13, FailureKept
<1>14. ASSUME (\E config \in Configs : EditConfig(config)) \/ EditMain PROVE KeptInv'
  <2>1. lock' = "none"
    BY <1>14 DEF EditConfig, EditMain
  <2> QED  BY <2>1 DEF KeptInv
<1>15. CASE RestartByHand \/ UNCHANGED vars
  BY <1>15, <1>b DEF RestartByHand, vars
<1> QED
  BY <1>1, <1>2, <1>3, <1>4, <1>5, <1>6, <1>7, <1>8, <1>9, <1>10, <1>11, <1>12, <1>13, <1>14, <1>15 DEF Next

(* Whatever a run overwrites, in its switch or in the undo of it, is kept  *)
(* in a backup directory: the configuration and the administrator's edit   *)
(* of main.cf, but for one the run itself staged before it was taken back, *)
(* however many runs overlap, fail or are killed.  The                     *)
(* administrator does not edit between a run's checks under the lock and   *)
(* its end: such an edit is overwritten, and was never copied.             *)
THEOREM OverwrittenIsKept == ASSUME Meddling = {} PROVE Spec => NothingLost
<1> DEFINE Kept == /\ Overwrites("config") =>
                        \E i \in DOMAIN backups : files.config \in {backups[i].before.config, backups[i].files.config}
                   /\ Overwrites("main") =>
                        \/ OwnStaging
                        \/ \E i \in DOMAIN backups :
                             files.main.edit \in {backups[i].before.main.edit} \cup
                               (IF i \in Records THEN {backups[i].files.main.edit} ELSE {})
<1>1. TypeInv /\ KeptInv => Kept
  <2> DEFINE ConfigKept ==
               \E i \in DOMAIN backups : files.config \in {backups[i].before.config, backups[i].files.config}
             MainKept ==
               \E i \in DOMAIN backups :
                 files.main.edit \in {backups[i].before.main.edit} \cup
                   (IF i \in Records THEN {backups[i].files.main.edit} ELSE {})
  <2> SUFFICES ASSUME TypeInv, KeptInv, At("config") \/ At("main")
               PROVE  ConfigKept /\ (At("main") => OwnStaging \/ MainKept)
    BY DEF Overwrites
  <2>1. lock # "none" /\ Switching
    BY KeptUnfolds DEF At, SwitchSteps
  <2>2. work.dir \in DOMAIN backups /\ Records \subseteq DOMAIN backups
    BY <2>1, KeptUnfolds DEF Switching, Records
  <2>3. /\ files.config = backups[work.dir].before.config \/ OfRecord(files.config)
        /\ files.main.edit = backups[work.dir].before.main.edit \/ EditOfRecord(files.main.edit) \/ OwnEdit
    BY <2>1 DEF KeptInv
  <2>4. ConfigKept
    BY <2>2, <2>3 DEF OfRecord
  <2>5. ASSUME At("main"), OwnEdit PROVE OwnStaging
    <3>1. Ahead("main")
      BY <2>1, <2>5, KeptUnfolds DEF At, Ahead, Among
    <3>2. work.outcome # "forward"
      BY <2>5, <3>1 DEF OwnEdit
    <3> QED  BY <2>5, <3>2 DEF OwnEdit, OwnStaging, Op
  <2>6. ASSUME At("main"), ~OwnEdit PROVE MainKept
    BY <2>2, <2>3, <2>6 DEF EditOfRecord
  <2> QED  BY <2>4, <2>5, <2>6
<1> HIDE DEF Kept
<1>2. TypeInv /\ KeptInv /\ [Next]_vars => (TypeInv /\ KeptInv)'
  BY NextTyped, NextKept
<1>3. TypeInv /\ KeptInv /\ [Next]_vars => [Kept]_files
  BY <1>1
<1>4. Init => TypeInv /\ KeptInv
  BY InitTyped, InitKept
<1>5. Spec => [][Kept]_files
  BY <1>2, <1>3, <1>4, PTL DEF Spec
<1> QED  BY <1>5 DEF NothingLost, Kept
-----------------------------------------------------------------------------
(* One run at a time.  The files on disk, the records and the plans agree  *)
(* whatever was killed and whoever restarts the daemon; what Postfix and   *)
(* the daemon are follows while none was killed: of a Postfix attached by  *)
(* hand as soon as there is a record, and of a daemon that somebody        *)
(* restarted not before a run restarts it again.                           *)

\* No two runs are under way together, rollbacks are not forced, and the files are
\* edited only while no run has the lock.
Sole ==
  /\ \A r, u \in Runs : r = u
  /\ ~Forced /\ Meddling = {}

\* The files the run at work started from.
Start == IF Switching THEN backups[work.dir].before ELSE files

Activated == Active # 0 /\ backups[Active].kind = "activation"
\* The failure action of a Postfix that no run works on.
ActionAtRest == IF Active = 0 THEN "none" ELSE backups[Active].files.main.action
Accepts(main) == main.action = "accept"
Enforcing(d) == d.by = "installer" /\ FailureAction[d.config] = "tempfail"
\* A daemon of which nothing is known: somebody restarted it, at any time.
Foreign(d) == HandRestarts /\ d.by = "hand"
\* Whether the records say what a Postfix at rest is: not before the first run on one
\* that was attached by hand.
Rooted == Active # 0 \/ ~ByHand

\* A record describes the files it was made of; an activation's fit together.
RecordsSound ==
  \A i \in Records :
    /\ backups[i].state = backups[i].files
    /\ backups[i].kind = "activation" =>
         backups[i].files.main.action = FailureAction[backups[i].files.config]

\* The daemon that an installer run left is the one of the active record.
OfActive(d) == d.by = "installer" /\ Activated => d.config = backups[Active].files.config

RestSound ==
  lock = "none" =>
    /\ postfix = PostfixFiles(files) /\ OfActive(daemon)
    /\ Rooted => files.main.action = ActionAtRest

\* What a plan of a rollback was made for: the files that are checked under the lock.
PlanFits(r) ==
  plan[r].op = "rollback" =>
    /\ plan[r].record = Active
    /\ plan[r].changes =
         {n \in DOMAIN NoFiles : Target(plan[r]).files[n] # backups[Active].state[n]}

\* What is staged is for the configuration that was inspected; only the edit of
\* main.cf may be another one.
PlanMeant(r) ==
  /\ plan[r].op = "inspected" => plan[r].inspected.main.action = files.main.action
  /\ plan[r].op = "apply" =>
       /\ plan[r].staged.config = plan[r].inspected.config
       /\ plan[r].staged.main.action = FailureAction[plan[r].inspected.config]
       /\ ~plan[r].diff => plan[r].inspected.main.action = FailureAction[plan[r].inspected.config]
PlansMeant == \A r \in Runs : PlanMeant(r)

\* And what a plan presumes of the daemon.
PlanSound(r) ==
  lock = "none" =>
    /\ plan[r].op \in {"inspected", "apply"} =>
         /\ daemon # Down
         /\ plan[r].restart \/ Foreign(daemon) \/ daemon.config = plan[r].inspected.config
    /\ plan[r].op = "rollback" =>
         plan[r].restart \/ Foreign(daemon) \/ daemon.config = Target(plan[r]).state.config

Stricter == Start.main.action = "accept" /\ work.source.main.action = "tempfail"
First == IF Stricter THEN "postfix" ELSE "daemon"

\* What the run at work puts on disk.
SourceSound ==
  /\ Op = "apply" => work.source.main.action = FailureAction[work.source.config]
  /\ Op = "rollback" => work.source = Target(plan[lock]).files
  /\ ~work.installs => work.source.config = Start.config

\* How far the switch of the files is.
FilesSwitched ==
  /\ files.main = IF Ahead("main") THEN Start.main ELSE work.source.main
  /\ files.master = IF Ahead("master") THEN Start.master ELSE work.source.master
  /\ files.config = IF Ahead("config") THEN Start.config ELSE work.source.config

\* The directory that is filled: the root's, then the run's own.
FillSound ==
  /\ Ahead("new") \/ Ahead("save") => ~Switching
  /\ Ahead("new") /\ Head(work.todo) \notin {"root", "new"} =>
       Op = "apply" /\ work.kind = "detached" /\ work.dir # 0
  /\ ~Ahead("new") =>
       work.dir # 0 /\ work.kind = IF Op = "apply" THEN "activation" ELSE Target(plan[lock]).kind
  /\ Op = "rollback" /\ Ahead("new") => work.kind = "none"
  /\ Head(work.todo) = "manifest" => work.dir # 0 /\ backups[work.dir].files = files

Forward ==
  lock # "none" /\ work.outcome = "forward" =>
    /\ Ranked(First, work.todo) /\ EndsWith(work.todo, "manifest") /\ ~Ahead("mark")
    /\ SourceSound /\ FilesSwitched /\ FillSound

FilesInv == RecordsSound /\ Forward /\ \A r \in Runs : PlanFits(r)

\* The run at work knows what it started from.
StartSound ==
  /\ work.was.postfix = PostfixFiles(Start) /\ work.was.daemon \in Daemons
  /\ Rooted => Start.main.action = ActionAtRest
  /\ OfActive(work.was.daemon)
  /\ Op = "rollback" => Start = backups[Active].state

\* How far the switch of Postfix and the daemon is.
HostSwitched ==
  /\ ~work.restarts => Foreign(work.was.daemon) \/ work.was.daemon.config = work.source.config
  /\ postfix = IF Ahead("reload") THEN work.was.postfix ELSE PostfixFiles(work.source)
  /\ \/ Foreign(daemon)
     \/ IF Ahead("restart") THEN daemon = work.was.daemon
        ELSE daemon.config = work.source.config /\ (daemon = work.was.daemon \/ daemon.by = "installer")
  /\ ~Switching => postfix = work.was.postfix /\ (Foreign(daemon) \/ daemon = work.was.daemon)

\* What of it is to be undone.
UndoSound ==
  /\ work.undo \in {<<>>, PostfixSteps, DaemonSteps} \cup
       (IF Stricter THEN {DaemonSteps \o PostfixSteps} ELSE {PostfixSteps \o DaemonSteps})
  /\ IF Among("main", work.undo) THEN ~Ahead("main") /\ (Ahead("restart") => Stricter)
     ELSE /\ PostfixFiles(files) = PostfixFiles(Start) /\ postfix = work.was.postfix
          /\ Ahead("reload") => Ahead("main")
  /\ IF Among("config", work.undo) THEN ~Ahead("config") /\ (Ahead("reload") => ~Stricter)
     ELSE /\ Foreign(daemon) \/ daemon = work.was.daemon
          /\ Ahead("restart") => Ahead("config")

\* How far the undo is; o: the part of Postfix and the daemon that is undone first.
Undoing ==
  /\ Switching /\ EndsWith(work.todo, "mark")
  /\ work.source = [backups[work.dir].before EXCEPT !.config = Recovery]
  /\ work.installs /\ work.restarts
  /\ Ahead("main") \/ files.main = Start.main
  /\ Ahead("master") \/ files.master = Start.master
  /\ Ahead("reload") \/ postfix = work.was.postfix
  /\ Ahead("restart") => Ahead("config") \/ files.config = Recovery
  /\ \/ Ahead("restart") \/ Foreign(daemon)
     \/ daemon = work.was.daemon \/ daemon = [config |-> Recovery, by |-> "installer"]
  /\ \E o \in Parts :
       /\ Ranked(o, work.todo)
       /\ Rooted /\ Ahead("reload") /\ Enforcing(daemon) /\ Accepts(Start.main) =>
            Detaching \/ (Ahead("restart") /\ o = "daemon")
       /\ Rooted /\ Ahead("restart") /\ FailureAction[Recovery] = "tempfail" /\ Accepts(postfix.main) =>
            Ahead("reload") /\ o = "postfix"
  /\ Rooted /\ Enforcing(daemon) /\ ~Detaching => ~Accepts(postfix.main)

Working ==
  lock # "none" =>
    /\ StartSound
    /\ work.outcome = "forward" => HostSwitched /\ UndoSound
    /\ work.outcome # "forward" => Undoing

HostInv ==
  /\ crashes \in Nat
  /\ crashes = 0 =>
       /\ RestSound /\ Working
       /\ \A r \in Runs : PlanSound(r)

\* A run is the only one.
LEMMA SoleRun ==
  ASSUME Sole, TypeInv, lock # "none", NEW r \in Runs
  PROVE  r = lock /\ plan[r] # NoPlan
<1>1. lock \in Runs /\ Op \in {"apply", "rollback"}
  BY DEF TypeInv, HistoryInv, Shape, WorkTyped, WorkShape
<1>2. r = lock
  BY <1>1 DEF Sole
<1> QED  BY <1>1, <1>2 DEF Op, NoPlan

\* The order of what is left after the first step, h.
LEMMA StepOrder ==
  ASSUME NEW o \in Parts, NEW t, NEW u, Stepped(o, t, u), NEW h, h = Head(t)
  PROVE  /\ h \notin {"root", "copy", "manifest"} => ~Among("new", u)
         /\ h = "main" => ~Among("main", u) /\ (Among("restart", u) => o = "postfix")
         /\ h = "master" => ~Among("main", u) /\ ~Among("master", u)
         /\ h = "reload" => /\ ~Among("main", u) /\ ~Among("master", u) /\ ~Among("reload", u)
                            /\ Among("restart", u) => o = "postfix"
         /\ h = "config" => ~Among("config", u) /\ (Among("reload", u) => o = "daemon")
         /\ h = "restart" => /\ ~Among("config", u) /\ ~Among("restart", u)
                             /\ Among("reload", u) => o = "daemon"
         /\ h \in {"verify", "copy", "manifest", "mark"} /\ ~Among("new", u) =>
              ~Among("save", u) /\ \A x \in SwitchSteps : ~Among(x, u)
         /\ ~Among("new", u) => ~Among(h, u)
         /\ h = "mark" => \A x \in Steps : ~Among(x, u)
<1>1. ASSUME ~Among("new", u), NEW x \in Steps, Among(x, u) PROVE Rank(o, h) < Rank(o, x)
  BY <1>1 DEF Stepped
<1>2. SwitchSteps \subseteq Steps /\ {"save", "new"} \subseteq Steps
      /\ {"main", "master", "reload", "config", "restart"} \subseteq Steps
  BY DEF Steps, SwitchSteps
<1>3. h \notin {"root", "copy", "manifest"} => ~Among("new", u)
  BY DEF Stepped
<1>4. /\ Rank(o, "new") = 1 /\ Rank(o, "save") = 2
      /\ Rank(o, "main") = (IF o = "postfix" THEN 3 ELSE 5)
      /\ Rank(o, "master") = (IF o = "postfix" THEN 4 ELSE 6)
      /\ Rank(o, "reload") = (IF o = "postfix" THEN 5 ELSE 7)
      /\ Rank(o, "config") = (IF o = "postfix" THEN 6 ELSE 3)
      /\ Rank(o, "restart") = (IF o = "postfix" THEN 7 ELSE 4)
      /\ Rank(o, "verify") = 8 /\ Rank(o, "copy") = 9 /\ Rank(o, "manifest") = 10 /\ Rank(o, "mark") = 11
      /\ \A x \in Steps : Rank(o, x) \in 0..11
      /\ \A x \in SwitchSteps : Rank(o, x) \in 3..7
  BY Ranks
<1>5. h = "main" => ~Among("main", u) /\ (Among("restart", u) => o = "postfix")
  BY <1>1, <1>2, <1>3, <1>4 DEF Parts
<1>6. h = "master" => ~Among("main", u) /\ ~Among("master", u)
  BY <1>1, <1>2, <1>3, <1>4 DEF Parts
<1>7. h = "reload" => /\ ~Among("main", u) /\ ~Among("master", u) /\ ~Among("reload", u)
                      /\ Among("restart", u) => o = "postfix"
  BY <1>1, <1>2, <1>3, <1>4 DEF Parts
<1>8. h = "config" => ~Among("config", u) /\ (Among("reload", u) => o = "daemon")
  BY <1>1, <1>2, <1>3, <1>4 DEF Parts
<1>9. h = "restart" => /\ ~Among("config", u) /\ ~Among("restart", u)
                       /\ Among("reload", u) => o = "daemon"
  BY <1>1, <1>2, <1>3, <1>4 DEF Parts
<1>10. ASSUME h \in {"verify", "copy", "manifest", "mark"}, ~Among("new", u)
       PROVE  ~Among("save", u) /\ \A x \in SwitchSteps : ~Among(x, u)
  <2>1. Rank(o, h) >= 8
    BY <1>4, <1>10
  <2>2. ASSUME NEW x \in SwitchSteps \cup {"save"}, Among(x, u) PROVE FALSE
    <3>1. Rank(o, h) < Rank(o, x) /\ Rank(o, x) \in 2..7 /\ Rank(o, h) \in 8..11
      BY <1>1, <1>2, <1>4, <1>10, <2>2
    <3> QED  BY <3>1
  <2> QED  BY <2>2
<1>11. ASSUME ~Among("new", u) PROVE ~Among(h, u)
  <2>1. h \in Steps /\ Rank(o, h) \in 0..11
    BY <1>4 DEF Stepped
  <2>2. ~(Rank(o, h) < Rank(o, h))
    BY <2>1
  <2> QED  BY <1>1, <1>11, <2>1, <2>2
<1>12. ASSUME h = "mark", NEW x \in Steps, Among(x, u) PROVE FALSE
  <2>1. Rank(o, h) < Rank(o, x) /\ Rank(o, x) \in 0..11 /\ Rank(o, h) = 11
    BY <1>1, <1>3, <1>4, <1>12
  <2> QED  BY <2>1
<1> QED  BY <1>3, <1>5, <1>6, <1>7, <1>8, <1>9, <1>10, <1>11, <1>12

\* The last step stays the last.
LEMMA EndStays ==
  ASSUME NEW t \in Seq(Steps), NEW x, EndsWith(t, x)
  PROVE  /\ Tail(t) # <<>> => EndsWith(Tail(t), x)
         /\ Tail(t) = <<>> <=> Len(t) = 1
         /\ Tail(t) = <<>> => Head(t) = x
         /\ Tail(t) # <<>> => Among(x, Tail(t))
<1>1. t # <<>> /\ t[Len(t)] = x
  BY DEF EndsWith
<1>2. /\ Len(t) \in Nat \ {0} /\ Head(t) = t[1] /\ Tail(t) \in Seq(Steps) /\ Len(Tail(t)) = Len(t) - 1
      /\ DOMAIN Tail(t) = 1..(Len(t) - 1)
      /\ \A i \in 1..(Len(t) - 1) : Tail(t)[i] = t[i + 1]
  BY <1>1
<1>3. Tail(t) = <<>> <=> Len(t) = 1
  BY <1>2
<1>4. ASSUME Tail(t) # <<>> PROVE EndsWith(Tail(t), x) /\ Among(x, Tail(t))
  <2>1. Len(t) - 1 \in 1..(Len(t) - 1) /\ (Len(t) - 1) + 1 = Len(t)
    BY <1>2, <1>3, <1>4
  <2>2. Tail(t)[Len(t) - 1] = x
    BY <1>1, <1>2, <2>1
  <2> QED  BY <1>2, <1>4, <2>1, <2>2 DEF EndsWith, Among
<1> QED  BY <1>1, <1>2, <1>3, <1>4

\* While no record is made, the active one stays.
LEMMA ActiveKept ==
  ASSUME TypeInv, HistoryInv', Records' = Records, \A i \in Records : backups'[i] = backups[i]
  PROVE  Active' = Active
<1>1. /\ Records # {} => Active \in Records /\ \A j \in Records : backups[j].sequence <= backups[Active].sequence
      /\ Records = {} => Active = 0
  BY ActiveIsNewest DEF TypeInv, HistoryInv
<1>2. /\ Records' # {} => Active' \in Records' /\ \A j \in Records' : backups'[j].sequence <= backups'[Active'].sequence
      /\ Records' = {} => Active' = 0
  BY DEF HistoryInv, HasNewest, Active
<1>3. \A j \in Records : backups[j].sequence \in Nat
  BY DEF TypeInv, HistoryInv, Shape, Records
<1>4. ASSUME Records # {} PROVE Active' = Active
  <2>1. Active \in Records /\ Active' \in Records
    BY <1>1, <1>2, <1>4
  <2>2. backups[Active'].sequence <= backups[Active].sequence /\ backups[Active].sequence <= backups[Active'].sequence
    BY <1>1, <1>2, <1>4, <2>1
  <2>3. backups[Active'].sequence = backups[Active].sequence
    BY <1>3, <2>1, <2>2
  <2> QED  BY <2>1, <2>3 DEF TypeInv, Distinct
<1> QED  BY <1>1, <1>2, <1>4

\* A step that is done: the run goes on, or has ended.
LEMMA DoneGoesOn ==
  ASSUME TypeInv, KeptInv, lock # "none", Done
  PROVE  /\ IF Tail(work.todo) = <<>>
            THEN lock' = "none" /\ plan' = [plan EXCEPT ![lock] = NoPlan]
            ELSE lock' = lock /\ plan' = plan /\ Op' = Op /\ lock' # "none"
         /\ lock' # "none" =>
              /\ work'.todo = Tail(work.todo) /\ work'.undo = Starting(work).undo
              /\ work'.dir = work.dir /\ work'.kind = work.kind /\ work'.source = work.source
              /\ work'.installs = work.installs /\ work'.restarts = work.restarts
              /\ work'.outcome = work.outcome /\ work'.was = work.was
<1> DEFINE v == Starting(work)
           w == Rest(v)
<1>1. DOMAIN work = DOMAIN NoWork
  BY KeptUnfolds
<1>2. /\ DOMAIN v = DOMAIN NoWork /\ v.todo = work.todo
      /\ v.dir = work.dir /\ v.kind = work.kind /\ v.source = work.source
      /\ v.installs = work.installs /\ v.restarts = work.restarts
      /\ v.outcome = work.outcome /\ v.was = work.was
  BY <1>1 DEF Starting, NoWork
<1> HIDE DEF v
<1>3. /\ w.todo = Tail(work.todo) /\ w.undo = v.undo
      /\ w.dir = work.dir /\ w.kind = work.kind /\ w.source = work.source
      /\ w.installs = work.installs /\ w.restarts = work.restarts
      /\ w.outcome = work.outcome /\ w.was = work.was
  BY <1>2 DEF Rest, NoWork
<1>4. Continue(w)
  BY DEF Done, v
<1> HIDE DEF w
<1>5. CASE Tail(work.todo) = <<>>
  BY <1>3, <1>4, <1>5 DEF Continue
<1>6. CASE Tail(work.todo) # <<>>
  BY <1>3, <1>4, <1>6 DEF Continue, Op, v
<1> QED  BY <1>5, <1>6

\* The switch and the directories, once a step that makes no record is done.
Moves ==
  /\ lock # "none" /\ Done /\ UNCHANGED crashes
  /\ Head(work.todo) \in {"save", "copy", "verify"} \cup SwitchSteps
  /\ files'.main = IF Head(work.todo) = "main" THEN work.source.main ELSE files.main
  /\ files'.master = IF Head(work.todo) = "master" THEN work.source.master ELSE files.master
  /\ files'.config = IF Head(work.todo) = "config" /\ work.installs THEN work.source.config ELSE files.config
  /\ Head(work.todo) \notin SwitchSteps => files' = files
  /\ postfix' = IF Head(work.todo) = "reload" THEN PostfixFiles(files) ELSE postfix
  /\ daemon' = IF Head(work.todo) = "restart" /\ work.restarts THEN Restarted ELSE daemon
  /\ Records' = Records /\ \A i \in Records : backups'[i] = backups[i]
  /\ Head(work.todo) = "save" => work.dir # 0 /\ backups'[work.dir].before = files
  /\ Head(work.todo) # "save" /\ work.dir # 0 => backups'[work.dir].before = backups[work.dir].before
  /\ Head(work.todo) = "copy" /\ work.dir # 0 => backups'[work.dir].files = files

\* A step that makes no record and is neither the first nor the last of its directory.
LEMMA StepsMove ==
  ASSUME TypeInv, KeptInv,
         \/ SaveBefore \/ CopyRecord \/ VerifyConfig \/ ReloadPostfix \/ RestartDaemon
         \/ \E name \in {"config", "main", "master"} : Install(name)
  PROVE  Moves
<1>1. files \in HostFiles /\ DOMAIN files = {"config", "main", "master"}
  BY DEF TypeInv, HostTyped, HostFiles
<1>2. UNCHANGED backups => Records' = Records
  BY DEF Records
<1>3. CASE SaveBefore \/ CopyRecord
  <2>1. PICK field \in {"before", "files"} :
          /\ Put(field, files) /\ Done /\ UNCHANGED <<files, postfix, daemon, crashes>> /\ lock # "none"
          /\ Head(work.todo) = IF field = "before" THEN "save" ELSE "copy"
    BY <1>3 DEF SaveBefore, CopyRecord, Filing, At
  <2>2. Records' = Records /\ \A i \in Records : backups'[i] = backups[i]
    BY <2>1, DoneKeeps, DirectoryWritten DEF TypeInv, HistoryInv
  <2>3. /\ work.dir \in 0..Len(backups) /\ DOMAIN backups = 1..Len(backups) /\ Len(backups) \in Nat
        /\ Head(work.todo) = "save" => work.dir # 0
    BY <2>1, KeptUnfolds
  <2>4. ASSUME work.dir # 0
        PROVE  backups'[work.dir].before = (IF field = "before" THEN files ELSE backups[work.dir].before)
               /\ (field = "files" => backups'[work.dir].files = files)
    <3>1. work.dir \in DOMAIN backups
      BY <2>3, <2>4
    <3>2. backups'[work.dir] = [backups[work.dir] EXCEPT ![field] = files]
      BY <2>1, <2>3, <3>1, Written DEF Put, TypeInv, HistoryInv, Shape
    <3> QED  BY <3>1, <3>2 DEF TypeInv, HistoryInv, Shape, NewBackup
  <2> QED  BY <2>1, <2>2, <2>3, <2>4 DEF Moves, SwitchSteps
<1>4. CASE VerifyConfig
  BY <1>2, <1>4 DEF VerifyConfig, At, Moves, SwitchSteps
<1>5. CASE ReloadPostfix
  BY <1>2, <1>5 DEF ReloadPostfix, At, Moves, SwitchSteps
<1>6. CASE RestartDaemon
  BY <1>2, <1>6 DEF RestartDaemon, At, Moves, SwitchSteps
<1>7. ASSUME NEW name \in {"config", "main", "master"}, Install(name) PROVE Moves
  BY <1>1, <1>2, <1>7 DEF Install, At, Moves, SwitchSteps
<1> QED  BY <1>3, <1>4, <1>5, <1>6, <1>7

\* What stays while a run goes on and makes no record.
Carried ==
  /\ lock # "none" /\ lock' = lock /\ plan' = plan /\ Op' = Op
  /\ Records' = Records /\ \A i \in Records : backups'[i] = backups[i]
  /\ Active' = Active /\ (Active # 0 => Active \in Records)
  /\ Op = "rollback" => /\ plan[lock].record \in Records
                        /\ backups[plan[lock].record].predecessor \in Records
  /\ Op \in {"apply", "rollback"}

\* A run that goes on and makes no record keeps what it stands on.
LEMMA CarriesOn ==
  ASSUME TypeInv, HistoryInv', lock # "none", lock' = lock, plan' = plan,
         Records' = Records, \A i \in Records : backups'[i] = backups[i]
  PROVE  Carried
<1>1. Active' = Active /\ (Active # 0 => Active \in Records)
  BY ActiveKept, ActiveTyped
<1>2. Op' = Op /\ Op \in {"apply", "rollback"}
  BY DEF Op, TypeInv, WorkTyped, WorkShape
<1>3. Op = "rollback" => /\ plan[lock].record \in Records
                         /\ backups[plan[lock].record].predecessor \in Records
  BY DEF Op, TypeInv, HistoryInv, Shape, PlansRecords, HistoryWellFounded
<1> QED  BY <1>1, <1>2, <1>3 DEF Carried

\* So the active record is the same, and the target of a rollback, and what they say.
LEMMA CarriedSame ==
  ASSUME Carried
  PROVE  /\ ActionAtRest' = ActionAtRest /\ (Activated' <=> Activated) /\ (Rooted' <=> Rooted)
         /\ Activated => backups'[Active].files.config = backups[Active].files.config
         /\ \A d : OfActive(d) => (OfActive(d))'
         /\ Op = "rollback" => Target(plan[lock])' = Target(plan[lock])
         /\ RecordsSound => RecordsSound'
         /\ \A r \in Runs : (plan[r].op = "rollback" => r = lock) /\ PlanFits(r) => (PlanFits(r))'
<1>1. Active # 0 => Active \in Records /\ backups'[Active] = backups[Active]
  BY DEF Carried
<1>2. ActionAtRest' = ActionAtRest /\ (Activated' <=> Activated) /\ (Rooted' <=> Rooted)
      /\ (Activated => backups'[Active].files.config = backups[Active].files.config)
  BY <1>1 DEF ActionAtRest, Activated, Carried, Rooted
<1>3. Op = "rollback" => Target(plan[lock])' = Target(plan[lock])
  BY DEF Carried, Target
<1>4. RecordsSound => RecordsSound'
  BY DEF Carried, RecordsSound
<1>5. ASSUME NEW d, OfActive(d) PROVE (OfActive(d))'
  BY <1>1, <1>2, <1>5 DEF OfActive, Carried
<1>6. ASSUME NEW r \in Runs, plan[r].op = "rollback" => r = lock, PlanFits(r) PROVE (PlanFits(r))'
  <2> SUFFICES ASSUME plan[r].op = "rollback" PROVE (PlanFits(r))'
    BY DEF PlanFits, Carried
  <2>1. r = lock /\ Op = "rollback"
    BY <1>6 DEF Op
  <2>2. plan'[r] = plan[r] /\ Target(plan[r])' = Target(plan[r]) /\ plan[r].record = Active /\ Active \in Records
    BY <1>3, <1>6, <2>1 DEF Carried, PlanFits
  <2>3. backups'[Active] = backups[Active] /\ Active' = Active
    BY <2>2 DEF Carried
  <2>4. plan[r].changes = {n \in DOMAIN NoFiles : Target(plan[r]).files[n] # backups[Active].state[n]}
    BY <1>6 DEF PlanFits
  <2> QED  BY <2>2, <2>3, <2>4 DEF PlanFits
<1> QED  BY <1>2, <1>3, <1>4, <1>5, <1>6

\* What stays while a run moves.
LEMMA MovesCarry ==
  ASSUME TypeInv, KeptInv, TypeInv', Moves, lock' # "none", Ahead("save") => ~Switching
  PROVE  /\ Carried /\ Start' = Start
         /\ work'.todo = Tail(work.todo) /\ work'.undo = Starting(work).undo
         /\ work'.dir = work.dir /\ work'.kind = work.kind /\ work'.source = work.source
         /\ work'.installs = work.installs /\ work'.restarts = work.restarts
         /\ work'.outcome = work.outcome /\ work'.was = work.was
         /\ Tail(work.todo) # <<>>
         /\ Head(work.todo) # "save" => (Switching' <=> Switching)
         /\ Head(work.todo) = "save" => Switching'
         /\ Switching' => work.dir # 0 /\ Start = backups'[work.dir].before
<1>1. lock # "none" /\ Done
  BY DEF Moves
<1>2. /\ lock' = lock /\ plan' = plan /\ Tail(work.todo) # <<>>
      /\ work'.todo = Tail(work.todo) /\ work'.undo = Starting(work).undo
      /\ work'.dir = work.dir /\ work'.kind = work.kind /\ work'.source = work.source
      /\ work'.installs = work.installs /\ work'.restarts = work.restarts
      /\ work'.outcome = work.outcome /\ work'.was = work.was
  BY <1>1, DoneGoesOn
<1>3. Carried
  BY <1>1, <1>2, CarriesOn DEF Moves, TypeInv
<1>4. files # NoFiles
  BY ActivationAssumption DEF TypeInv, HostTyped, HostFiles, NoFiles, Files
<1>5. CASE Head(work.todo) = "save"
  <2>1. Ahead("save")
    <3>1. work.todo \in Seq(Steps) /\ work.todo # <<>>
      BY <1>1, KeptUnfolds
    <3>2. 1 \in DOMAIN work.todo /\ Head(work.todo) = work.todo[1]
      BY <3>1
    <3> QED  BY <1>5, <3>2 DEF Ahead, Among
  <2>2. ~Switching /\ Start = files
    BY <2>1 DEF Start
  <2>3. Switching' /\ Start' = files /\ work.dir # 0 /\ backups'[work.dir].before = files
    BY <1>2, <1>4, <1>5 DEF Moves, Switching, Start
  <2> QED  BY <1>2, <1>3, <1>5, <2>2, <2>3
<1>6. CASE Head(work.todo) # "save"
  <2>1. Switching' <=> Switching
    BY <1>2, <1>6 DEF Moves, Switching
  <2>2. Switching => work.dir # 0 /\ backups'[work.dir].before = backups[work.dir].before
    BY <1>6 DEF Moves, Switching
  <2>3. ~Switching => files' = files
    BY <1>1, KeptUnfolds DEF Moves
  <2>4. Start' = Start
    BY <1>2, <2>1, <2>2, <2>3 DEF Start
  <2> QED  BY <1>2, <1>3, <1>6, <2>1, <2>2, <2>4 DEF Start
<1> QED  BY <1>5, <1>6

\* The steps of a run, t, when its next one is taken, and u is left; o: the order.
Turn(o, t, u) ==
  /\ Whole(t)
  /\ \A x \in Steps : Among(x, t) <=> x = Head(t) \/ Among(x, u)
  /\ ~Among("new", u) => ~Among(Head(t), u)
  /\ Head(t) \notin {"root", "copy", "manifest"} => ~Among("new", u)
  /\ Head(t) = "main" => ~Among("main", u) /\ (Among("restart", u) => o = "postfix")
  /\ Head(t) = "master" => ~Among("main", u) /\ ~Among("master", u)
  /\ Head(t) = "reload" => /\ ~Among("main", u) /\ ~Among("master", u) /\ ~Among("reload", u)
                           /\ Among("restart", u) => o = "postfix"
  /\ Head(t) = "config" => ~Among("config", u) /\ (Among("reload", u) => o = "daemon")
  /\ Head(t) = "restart" => /\ ~Among("config", u) /\ ~Among("restart", u)
                            /\ Among("reload", u) => o = "daemon"
  /\ Head(t) \in {"verify", "copy", "manifest", "mark"} /\ ~Among("new", u) =>
       ~Among("save", u) /\ \A x \in SwitchSteps : ~Among(x, u)
  /\ Head(t) = "mark" => \A x \in Steps : ~Among(x, u)

\* The next step of the run at work is taken.
LEMMA Turns ==
  ASSUME TypeInv, KeptInv, lock # "none", NEW o \in Parts, Ranked(o, work.todo)
  PROVE  Turn(o, work.todo, Tail(work.todo)) /\ Ranked(o, Tail(work.todo))
<1>1. work.todo \in Seq(Steps) /\ work.todo # <<>> /\ Whole(work.todo)
  BY KeptUnfolds DEF KeptInv
<1>2. Stepped(o, work.todo, Tail(work.todo))
  BY <1>1, TailSteps
<1> DEFINE t == work.todo
           u == Tail(work.todo)
           h == Head(work.todo)
<1>3. /\ h \notin {"root", "copy", "manifest"} => ~Among("new", u)
      /\ h = "main" => ~Among("main", u) /\ (Among("restart", u) => o = "postfix")
      /\ h = "master" => ~Among("main", u) /\ ~Among("master", u)
      /\ h = "reload" => /\ ~Among("main", u) /\ ~Among("master", u) /\ ~Among("reload", u)
                         /\ Among("restart", u) => o = "postfix"
      /\ h = "config" => ~Among("config", u) /\ (Among("reload", u) => o = "daemon")
      /\ h = "restart" => /\ ~Among("config", u) /\ ~Among("restart", u)
                          /\ Among("reload", u) => o = "daemon"
      /\ h \in {"verify", "copy", "manifest", "mark"} /\ ~Among("new", u) =>
           ~Among("save", u) /\ \A x \in SwitchSteps : ~Among(x, u)
      /\ ~Among("new", u) => ~Among(h, u)
      /\ h = "mark" => \A x \in Steps : ~Among(x, u)
  BY <1>2, StepOrder
<1> QED  BY <1>1, <1>2, <1>3 DEF Turn, Stepped

\* The switch of the files goes on.
LEMMA FilesMove ==
  ASSUME TypeInv, KeptInv, TypeInv', FilesInv, Moves, work.outcome = "forward", lock' # "none"
  PROVE  Forward'
<1> DEFINE t == work.todo
           u == Tail(work.todo)
           h == Head(work.todo)
<1>1. /\ lock # "none" /\ Ranked(First, t) /\ EndsWith(t, "manifest") /\ ~Ahead("mark")
      /\ SourceSound /\ FilesSwitched /\ FillSound /\ (Ahead("save") => ~Switching)
  BY DEF Moves, FilesInv, Forward, FillSound
<1>2. /\ Carried /\ Start' = Start
      /\ work'.todo = Tail(work.todo)
      /\ work'.dir = work.dir /\ work'.kind = work.kind /\ work'.source = work.source
      /\ work'.installs = work.installs /\ work'.outcome = "forward" /\ u # <<>>
      /\ h # "save" => (Switching' <=> Switching)
  BY <1>1, MovesCarry
<1>3. Op' = Op /\ (Op = "rollback" => Target(plan[lock])' = Target(plan[lock]))
  BY <1>2, CarriedSame DEF Carried
<1>4. First \in Parts
  BY DEF First, Parts
<1>5. Turn(First, t, u) /\ Ranked(First, u)
  BY <1>1, <1>4, Turns
<1>6. First' = First
  BY <1>2 DEF First, Stricter
<1>7. EndsWith(u, "manifest")
  <2>1. t \in Seq(Steps)
    BY <1>1, KeptUnfolds
  <2> QED  BY <1>1, <1>2, <2>1, EndStays
<1>8. \A x : Ahead(x)' <=> Among(x, u)
  BY <1>2 DEF Ahead
<1>9. \A x \in Steps : Ahead(x) <=> x = h \/ Among(x, u)
  BY <1>5 DEF Turn, Ahead
<1>10. SourceSound'
  BY <1>1, <1>2, <1>3 DEF SourceSound
<1>11. h \in {"save", "copy", "verify"} \cup SwitchSteps
  BY DEF Moves
<1>12. FilesSwitched'
  <2>1. /\ files'.main = IF h = "main" THEN work.source.main ELSE files.main
        /\ files'.master = IF h = "master" THEN work.source.master ELSE files.master
        /\ files'.config = IF h = "config" /\ work.installs THEN work.source.config ELSE files.config
    BY DEF Moves
  <2>2. /\ files.main = IF Ahead("main") THEN Start.main ELSE work.source.main
        /\ files.master = IF Ahead("master") THEN Start.master ELSE work.source.master
        /\ files.config = IF Ahead("config") THEN Start.config ELSE work.source.config
        /\ ~work.installs => work.source.config = Start.config
    BY <1>1 DEF FilesSwitched, SourceSound
  <2>3. /\ h = "main" => ~Among("main", u)
        /\ h = "master" => ~Among("master", u)
        /\ h = "config" => ~Among("config", u)
    BY <1>5 DEF Turn
  <2>4. {"main", "master", "config"} \subseteq Steps
    BY DEF Steps
  <2>5. files'.main = IF Among("main", u) THEN Start.main ELSE work.source.main
    BY <1>9, <2>1, <2>2, <2>3, <2>4
  <2>6. files'.master = IF Among("master", u) THEN Start.master ELSE work.source.master
    BY <1>9, <2>1, <2>2, <2>3, <2>4
  <2>7. files'.config = IF Among("config", u) THEN Start.config ELSE work.source.config
    BY <1>9, <2>1, <2>2, <2>3, <2>4
  <2> QED  BY <1>2, <1>8, <2>5, <2>6, <2>7 DEF FilesSwitched
<1>13. FillSound'
  <2>1. {"new", "save", "mark"} \subseteq Steps
    BY DEF Steps
  <2>2. /\ Among("new", u) => Ahead("new") /\ h = "copy"
        /\ Among("save", u) => Ahead("save") /\ h # "save"
        /\ Ahead("new") <=> Among("new", u)
    BY <1>5, <1>9, <1>11, <2>1 DEF Turn, SwitchSteps
  <2>3. Head(u) = "manifest" => h = "copy"
    BY <1>1, <1>2, TailShortens DEF Shortened, TypeInv, WorkTyped, WorkShape
  <2>4. Ahead("new")' \/ Ahead("save")' => ~Switching'
    BY <1>1, <1>2, <1>8, <2>2 DEF FillSound
  <2>5. h = "copy" /\ work.dir # 0 => backups'[work.dir].files = files /\ files' = files
    BY DEF Moves, SwitchSteps
  <2>6. h = "copy" => work.dir # 0
    BY <1>1 DEF FillSound
  <2>7. Ahead("new")' => Op = "apply" /\ work.kind = "detached" /\ work.dir # 0
    BY <1>1, <1>8, <2>2 DEF FillSound
  <2>8. ~Ahead("new")' =>
          work.dir # 0 /\ work.kind = IF Op = "apply" THEN "activation" ELSE Target(plan[lock]).kind
    BY <1>1, <1>8, <2>2 DEF FillSound
  <2>9. Op \in {"apply", "rollback"}
    BY <1>2 DEF Carried
  <2> QED  BY <1>2, <1>3, <2>3, <2>4, <2>5, <2>6, <2>7, <2>8, <2>9 DEF FillSound
<1>14. ~Ahead("mark")'
  BY <1>1, <1>8, <1>9 DEF Steps
<1> QED  BY <1>2, <1>5, <1>6, <1>7, <1>10, <1>12, <1>13, <1>14 DEF Forward

\* Postfix accepts on a failure only if the active configuration says so.
LEMMA AtRestAccepts ==
  ASSUME TypeInv, StartInv, RecordsSound, ActionAtRest = "accept"
  PROVE  Activated /\ Active \in Records /\ FailureAction[backups[Active].files.config] = "accept"
<1>1. Active \in Records /\ Active # 0 /\ backups[Active].files.main.action = "accept"
  BY ActiveTyped DEF ActionAtRest
<1>2. backups[Active].kind = "activation"
  BY <1>1 DEF StartInv, RestorableStart, Records, RecordKinds
<1> QED  BY <1>1, <1>2 DEF Activated, RecordsSound

\* What an undo goes back to.
LEMMA RecoverySound ==
  ASSUME TypeInv, StartInv, RecordsSound, StartSound, lock # "none", Switching
  PROVE  /\ Rooted /\ Accepts(Start.main) => FailureAction[Recovery] = "accept"
         /\ Activated => Recovery = backups[Active].files.config
<1>1. Start = backups[work.dir].before /\ Op \in {"apply", "rollback"}
  BY DEF Start, TypeInv, WorkTyped, WorkShape
<1>2. Activated => Active # 0 /\ Active \in Records
  BY ActiveTyped DEF Activated
<1>3. Activated => Recovery = backups[Active].files.config
  BY <1>1, <1>2 DEF Recovery, StartSound, RecordsSound, Op
<1>4. Rooted /\ Accepts(Start.main) => Activated /\ FailureAction[backups[Active].files.config] = "accept"
  BY AtRestAccepts DEF Accepts, StartSound
<1> QED  BY <1>3, <1>4

\* The run still knows what it started from.
LEMMA StartMoves ==
  ASSUME Carried, StartSound, Start' = Start, work'.was = work.was,
         Op = "rollback" => plan[lock].record = Active
  PROVE  StartSound'
<1>1. ActionAtRest' = ActionAtRest /\ (Rooted' <=> Rooted) /\ Op' = Op /\ Active' = Active
  BY CarriedSame DEF Carried
<1>2. OfActive(work.was.daemon)'
  <2>1. OfActive(work.was.daemon) => (OfActive(work.was.daemon))'
    <3>1. /\ Activated' <=> Activated
          /\ Activated => backups'[Active].files.config = backups[Active].files.config
      BY CarriedSame
    <3> QED  BY <1>1, <3>1 DEF OfActive
  <2> QED  BY <2>1 DEF StartSound
<1>3. Op = "rollback" => backups'[Active] = backups[Active]
  BY DEF Carried
<1> QED  BY <1>1, <1>2, <1>3 DEF StartSound

\* What holds the parts of the switch.
LEMMA PartsHold ==
  /\ \A x \in {"main", "master", "reload"} : Among(x, PostfixSteps) /\ ~Among(x, DaemonSteps)
  /\ \A x \in {"config", "restart"} : Among(x, DaemonSteps) /\ ~Among(x, PostfixSteps)
  /\ \A x : ~Among(x, <<>>)
  /\ PostfixSteps \o DaemonSteps # DaemonSteps \o PostfixSteps
  /\ PostfixSteps # DaemonSteps /\ PostfixSteps # <<>> /\ DaemonSteps # <<>>
<1>1. /\ DOMAIN PostfixSteps = 1..3 /\ DOMAIN DaemonSteps = 1..2
      /\ PostfixSteps[1] = "main" /\ PostfixSteps[2] = "master" /\ PostfixSteps[3] = "reload"
      /\ DaemonSteps[1] = "config" /\ DaemonSteps[2] = "restart"
      /\ PostfixSteps \in Seq(Steps) /\ DaemonSteps \in Seq(Steps) /\ Len(PostfixSteps) = 3 /\ Len(DaemonSteps) = 2
  BY DEF PostfixSteps, DaemonSteps, Steps
<1>2. \A i \in 1..3 : i = 1 \/ i = 2 \/ i = 3
  OBVIOUS
<1>3. \A i \in 1..2 : i = 1 \/ i = 2
  OBVIOUS
<1>4. 1 \in 1..3 /\ 2 \in 1..3 /\ 3 \in 1..3 /\ 1 \in 1..2 /\ 2 \in 1..2
  OBVIOUS
<1>5. \A x \in {"main", "master", "reload"} : Among(x, PostfixSteps) /\ ~Among(x, DaemonSteps)
  BY <1>1, <1>3, <1>4 DEF Among
<1>6. \A x \in {"config", "restart"} : Among(x, DaemonSteps) /\ ~Among(x, PostfixSteps)
  BY <1>1, <1>2, <1>4 DEF Among
<1>7. \A x : ~Among(x, <<>>)
  BY DEF Among
<1>8. Joins(PostfixSteps, DaemonSteps, PostfixSteps \o DaemonSteps) /\ Joins(DaemonSteps, PostfixSteps, DaemonSteps \o PostfixSteps)
  BY <1>1, Joined
<1>9. (PostfixSteps \o DaemonSteps)[1] = "main" /\ (DaemonSteps \o PostfixSteps)[1] = "config"
  BY <1>1, <1>4, <1>8 DEF Joins
<1> QED  BY <1>1, <1>5, <1>6, <1>7, <1>9

\* And the two together.
LEMMA BothHold ==
  ASSUME NEW u \in Both
  PROVE  /\ \A x \in {"master", "reload"} : Among(x, u) <=> Among("main", u)
         /\ Among("restart", u) <=> Among("config", u)
         /\ Among("main", u) <=> u \in {PostfixSteps, PostfixSteps \o DaemonSteps, DaemonSteps \o PostfixSteps}
         /\ Among("config", u) <=> u \in {DaemonSteps, PostfixSteps \o DaemonSteps, DaemonSteps \o PostfixSteps}
<1> DEFINE P == PostfixSteps
           D == DaemonSteps
           PD == P \o D
           DP == D \o P
<1>1. P \in Seq(Steps) /\ D \in Seq(Steps)
  BY DEF PostfixSteps, DaemonSteps, Steps
<1>2. Joins(P, D, PD) /\ Joins(D, P, DP)
  BY <1>1, Joined
<1>3. /\ \A x : Among(x, PD) <=> Among(x, P) \/ Among(x, D)
      /\ \A x : Among(x, DP) <=> Among(x, D) \/ Among(x, P)
  BY <1>1, <1>2, JoinedHolds
<1>4. /\ \A x \in {"main", "master", "reload"} : Among(x, P) /\ ~Among(x, D)
      /\ \A x \in {"config", "restart"} : Among(x, D) /\ ~Among(x, P)
      /\ \A x : ~Among(x, <<>>)
      /\ P # D /\ P # <<>> /\ D # <<>>
  BY PartsHold
<1>5. u \in {<<>>, P, D, PD, DP}
  BY DEF Both
<1> HIDE DEF P, D, PD, DP
<1>6. CASE u = <<>>
  <2>1. \A x : ~Among(x, u)
    BY <1>4, <1>6
  <2>2. Among("main", PD) /\ Among("main", DP)
    BY <1>3, <1>4
  <2> QED  BY <1>3, <1>4, <1>6, <2>1, <2>2 DEF P, D, PD, DP
<1>7. CASE u = P
  <2>1. Among("config", PD) /\ Among("config", DP)
    BY <1>3, <1>4
  <2> QED  BY <1>3, <1>4, <1>7, <2>1 DEF P, D, PD, DP
<1>8. CASE u = D
  <2>1. Among("main", PD) /\ Among("main", DP)
    BY <1>3, <1>4
  <2> QED  BY <1>3, <1>4, <1>8, <2>1 DEF P, D, PD, DP
<1>9. CASE u = PD
  BY <1>3, <1>4, <1>9 DEF P, D, PD, DP
<1>10. CASE u = DP
  BY <1>3, <1>4, <1>10 DEF P, D, PD, DP
<1> QED  BY <1>5, <1>6, <1>7, <1>8, <1>9, <1>10

\* What is to be undone, once the next step begins.
LEMMA UndoStarts ==
  ASSUME TypeInv, KeptInv, lock # "none", work.outcome = "forward", UndoSound
  PROVE  LET u == Starting(work).undo
         IN  /\ u \in Both /\ work.undo \in Both
             /\ u \in {<<>>, PostfixSteps, DaemonSteps} \cup
                  (IF Stricter THEN {DaemonSteps \o PostfixSteps} ELSE {PostfixSteps \o DaemonSteps})
             /\ Among("main", u) <=> Among("main", work.undo) \/ Head(work.todo) = "main"
             /\ Among("config", u) <=> Among("config", work.undo) \/ Head(work.todo) = "config"
<1> DEFINE P == PostfixSteps
           D == DaemonSteps
           PD == P \o D
           DP == D \o P
           u == Starting(work).undo
           h == Head(work.todo)
<1>1. work.undo \in {<<>>, P, D} \cup (IF Stricter THEN {DP} ELSE {PD})
  BY DEF UndoSound
<1>2. work.undo \in Both /\ u \in Both
  BY StartingFits DEF KeptInv, UndoFits
<1>3. work.todo \in Seq(Steps) /\ work.todo # <<>> /\ DOMAIN work = DOMAIN NoWork /\ Whole(work.todo)
  BY KeptUnfolds DEF KeptInv
<1>4. Ahead(h)
  <2>1. 1 \in DOMAIN work.todo /\ h = work.todo[1]
    BY <1>3
  <2> QED  BY <2>1 DEF Ahead, Among
<1>5. u = CASE h = "main" -> P \o work.undo [] h = "config" -> D \o work.undo [] OTHER -> work.undo
  BY <1>3 DEF Starting, NoWork
<1>6. P \o <<>> = P /\ D \o <<>> = D
  <2>1. P \in Seq(SwitchSteps) /\ D \in Seq(SwitchSteps)
    BY DEF PostfixSteps, DaemonSteps, SwitchSteps
  <2> QED  BY <2>1, ConcatEmptySeq
<1>7. /\ Among("main", work.undo) <=> work.undo \in {P, PD, DP}
      /\ Among("config", work.undo) <=> work.undo \in {D, PD, DP}
  BY <1>2, BothHold
<1>8. /\ Among("main", u) <=> u \in {P, PD, DP}
      /\ Among("config", u) <=> u \in {D, PD, DP}
  BY <1>2, BothHold
<1>9. /\ Ahead("main") => Ahead("reload") /\ ~Among("main", work.undo)
      /\ Ahead("config") => Ahead("restart") /\ ~Among("config", work.undo)
  BY <1>3 DEF Whole, Ahead, UndoSound
<1>10. /\ Among("main", work.undo) => (Ahead("restart") => Stricter)
       /\ Among("config", work.undo) => (Ahead("reload") => ~Stricter)
  BY DEF UndoSound
<1>11. /\ P \notin {D, PD, DP} /\ D \notin {P, PD, DP} /\ <<>> \notin {P, D, PD, DP}
  <2>1. P \in Both /\ D \in Both /\ <<>> \in Both
    BY DEF Both
  <2>2. ~Among("config", P) /\ ~Among("main", D) /\ ~Among("main", <<>>) /\ ~Among("config", <<>>)
    BY PartsHold
  <2>3. P \notin {D, PD, DP}
    BY <2>1, <2>2, BothHold
  <2>4. D \notin {P, PD, DP}
    BY <2>1, <2>2, BothHold
  <2>5. <<>> \notin {P, PD, DP} /\ <<>> \notin {D, PD, DP}
    BY <2>1, <2>2, BothHold
  <2> QED  BY <2>3, <2>4, <2>5
<1> DEFINE M(w) == Among("main", w)
           C(w) == Among("config", w)
           Fits == /\ u \in {<<>>, P, D} \cup (IF Stricter THEN {DP} ELSE {PD})
                   /\ M(u) <=> M(work.undo) \/ h = "main"
                   /\ C(u) <=> C(work.undo) \/ h = "config"
<1> HIDE DEF P, D, PD, DP, u
<1>12. CASE h = "main"
  <2>1. work.undo \in {<<>>, D} /\ (work.undo = D => ~Stricter) /\ u = P \o work.undo
    BY <1>1, <1>4, <1>5, <1>7, <1>9, <1>10, <1>12
  <2>2. (u = P /\ work.undo = <<>>) \/ (u = PD /\ work.undo = D /\ ~Stricter)
    BY <1>6, <2>1 DEF PD
  <2>3. Fits
    BY <1>7, <1>8, <1>11, <1>12, <2>2
  <2> QED  BY <1>2, <2>3 DEF u, P, D, PD, DP
<1>13. CASE h = "config"
  <2>1. work.undo \in {<<>>, P} /\ (work.undo = P => Stricter) /\ u = D \o work.undo
    BY <1>1, <1>4, <1>5, <1>7, <1>9, <1>10, <1>13
  <2>2. (u = D /\ work.undo = <<>>) \/ (u = DP /\ work.undo = P /\ Stricter)
    BY <1>6, <2>1 DEF DP
  <2>3. Fits
    BY <1>7, <1>8, <1>11, <1>13, <2>2
  <2> QED  BY <1>2, <2>3 DEF u, P, D, PD, DP
<1>14. CASE h \notin {"main", "config"}
  <2>1. u = work.undo
    BY <1>5, <1>14
  <2>2. Fits
    BY <1>1, <1>14, <2>1
  <2> QED  BY <1>2, <2>2 DEF u, P, D, PD, DP
<1> QED  BY <1>12, <1>13, <1>14

\* The switch of Postfix and the daemon goes on.
LEMMA HostMoves ==
  ASSUME TypeInv, KeptInv, TypeInv', FilesInv, Moves, work.outcome = "forward", lock' # "none",
         StartSound, HostSwitched, UndoSound
  PROVE  HostSwitched' /\ UndoSound'
<1> DEFINE u == Tail(work.todo)
           h == Head(work.todo)
<1>1. /\ lock # "none" /\ Ranked(First, work.todo) /\ FilesSwitched
      /\ Ahead("save") => ~Switching
  BY DEF Moves, FilesInv, Forward, FillSound
<1>2. /\ Start' = Start /\ Carried
      /\ work'.todo = u /\ work'.undo = Starting(work).undo
      /\ work'.source = work.source /\ work'.restarts = work.restarts /\ work'.was = work.was
      /\ h # "save" => (Switching' <=> Switching)
      /\ h = "save" => Switching'
  BY <1>1, MovesCarry
<1>3. First \in Parts /\ (First = "postfix" <=> Stricter) /\ (First = "daemon" <=> ~Stricter)
  BY DEF First, Parts
<1>4. Turn(First, work.todo, u)
  BY <1>1, <1>3, Turns
<1>5. /\ h \in {"save", "copy", "verify"} \cup SwitchSteps
      /\ h \in SwitchSteps => Switching
      /\ files'.main = IF h = "main" THEN work.source.main ELSE files.main
      /\ files'.master = IF h = "master" THEN work.source.master ELSE files.master
      /\ postfix' = IF h = "reload" THEN PostfixFiles(files) ELSE postfix
      /\ daemon' = IF h = "restart" /\ work.restarts THEN Restarted ELSE daemon
  BY <1>1, KeptUnfolds DEF Moves
<1>6. /\ \A x : Ahead(x)' <=> Among(x, u)
      /\ \A x \in Steps : Ahead(x) <=> x = h \/ Among(x, u)
  BY <1>2, <1>4 DEF Ahead, Turn
<1>7. {"main", "master", "reload", "config", "restart"} \subseteq Steps
      /\ {"main", "master", "reload", "config", "restart"} = SwitchSteps
  BY DEF Steps, SwitchSteps
<1>8. /\ Ahead("main") => Ahead("master") /\ Ahead("reload")
      /\ Ahead("master") => Ahead("reload")
      /\ Ahead("config") => Ahead("restart")
  BY <1>4 DEF Turn, Whole, Ahead
<1>9. /\ h = "main" => ~Among("main", u) /\ (Among("restart", u) => Stricter)
      /\ h = "master" => ~Among("main", u) /\ ~Among("master", u)
      /\ h = "reload" => /\ ~Among("main", u) /\ ~Among("master", u) /\ ~Among("reload", u)
                         /\ Among("restart", u) => Stricter
      /\ h = "config" => ~Among("config", u) /\ (Among("reload", u) => ~Stricter)
      /\ h = "restart" => /\ ~Among("config", u) /\ ~Among("restart", u)
                          /\ Among("reload", u) => ~Stricter
  BY <1>3, <1>4 DEF Turn
<1>10. /\ h = "reload" => postfix' = PostfixFiles(work.source)
       /\ h = "restart" => files.config = work.source.config
  <2>1. h = "reload" => files.main = work.source.main /\ files.master = work.source.master
    BY <1>1, <1>6, <1>7, <1>9 DEF FilesSwitched
  <2>2. h = "restart" => files.config = work.source.config
    BY <1>1, <1>6, <1>7, <1>9 DEF FilesSwitched
  <2> QED  BY <1>5, <2>1, <2>2 DEF PostfixFiles
<1>11. HostSwitched'
  <2>1. /\ ~work.restarts => Foreign(work.was.daemon) \/ work.was.daemon.config = work.source.config
        /\ postfix = IF Ahead("reload") THEN work.was.postfix ELSE PostfixFiles(work.source)
        /\ \/ Foreign(daemon)
           \/ IF Ahead("restart") THEN daemon = work.was.daemon
              ELSE daemon.config = work.source.config /\ (daemon = work.was.daemon \/ daemon.by = "installer")
        /\ ~Switching => postfix = work.was.postfix /\ (Foreign(daemon) \/ daemon = work.was.daemon)
    BY DEF HostSwitched
  <2>2. postfix' = IF Among("reload", u) THEN work.was.postfix ELSE PostfixFiles(work.source)
    BY <1>5, <1>6, <1>7, <1>9, <1>10, <2>1
  <2>3. Restarted.config = files.config /\ Restarted.by = "installer"
    BY DEF Restarted
  <2>4. \/ Foreign(daemon')
        \/ IF Among("restart", u) THEN daemon' = work.was.daemon
           ELSE daemon'.config = work.source.config /\ (daemon' = work.was.daemon \/ daemon'.by = "installer")
    BY <1>5, <1>6, <1>7, <1>9, <1>10, <2>1, <2>3
  <2>5. ~Switching' => postfix' = work.was.postfix /\ (Foreign(daemon') \/ daemon' = work.was.daemon)
    BY <1>2, <1>5, <1>7, <2>1
  <2>6. PostfixFiles(work.source)' = PostfixFiles(work.source)
    BY <1>2 DEF PostfixFiles
  <2> QED  BY <1>2, <1>6, <2>1, <2>2, <2>4, <2>5, <2>6 DEF HostSwitched, Foreign
<1>12. UndoSound'
  <2> DEFINE v == Starting(work).undo
  <2>1. /\ v \in Both /\ work.undo \in Both
        /\ v \in {<<>>, PostfixSteps, DaemonSteps} \cup
             (IF Stricter THEN {DaemonSteps \o PostfixSteps} ELSE {PostfixSteps \o DaemonSteps})
        /\ Among("main", v) <=> Among("main", work.undo) \/ h = "main"
        /\ Among("config", v) <=> Among("config", work.undo) \/ h = "config"
    BY <1>1, UndoStarts
  <2> HIDE DEF v
  <2>2. Stricter' = Stricter
    BY <1>2 DEF Stricter
  <2>3. IF Among("main", work.undo) THEN ~Ahead("main") /\ (Ahead("restart") => Stricter)
        ELSE /\ PostfixFiles(files) = PostfixFiles(Start) /\ postfix = work.was.postfix
             /\ Ahead("reload") => Ahead("main")
    BY DEF UndoSound
  <2>4. IF Among("config", work.undo) THEN ~Ahead("config") /\ (Ahead("reload") => ~Stricter)
        ELSE /\ Foreign(daemon) \/ daemon = work.was.daemon
             /\ Ahead("restart") => Ahead("config")
    BY DEF UndoSound
  <2>5. ASSUME Among("main", v)
        PROVE  ~Among("main", u) /\ (Among("restart", u) => Stricter)
    BY <1>6, <1>7, <1>9, <2>1, <2>3, <2>5
  <2>6. ASSUME ~Among("main", v)
        PROVE  /\ PostfixFiles(files)' = PostfixFiles(Start) /\ postfix' = work.was.postfix
               /\ Among("reload", u) => Among("main", u)
    <3>1. ~Among("main", work.undo) /\ h # "main"
      BY <2>1, <2>6
    <3>2. h # "master" /\ h # "reload"
      BY <1>6, <1>7, <1>8, <1>9, <2>3, <3>1
    <3> QED  BY <1>5, <1>6, <1>7, <2>3, <3>1, <3>2 DEF PostfixFiles
  <2>7. ASSUME Among("config", v)
        PROVE  ~Among("config", u) /\ (Among("reload", u) => ~Stricter)
    BY <1>6, <1>7, <1>9, <2>1, <2>4, <2>7
  <2>8. ASSUME ~Among("config", v)
        PROVE  /\ Foreign(daemon') \/ daemon' = work.was.daemon
               /\ Among("restart", u) => Among("config", u)
    <3>1. ~Among("config", work.undo) /\ h # "config"
      BY <2>1, <2>8
    <3>2. h # "restart"
      BY <1>6, <1>7, <1>9, <2>4, <3>1
    <3> QED  BY <1>5, <1>6, <1>7, <2>4, <3>1, <3>2
  <2>9. work'.undo = v /\ (PostfixFiles(Start)' = PostfixFiles(Start))
    BY <1>2 DEF v, PostfixFiles
  <2>10. IF Among("main", work'.undo) THEN ~Ahead("main")' /\ (Ahead("restart")' => Stricter')
         ELSE /\ PostfixFiles(files)' = PostfixFiles(Start)' /\ postfix' = work'.was.postfix
              /\ Ahead("reload")' => Ahead("main")'
    BY <1>2, <1>6, <2>2, <2>5, <2>6, <2>9
  <2>11. IF Among("config", work'.undo) THEN ~Ahead("config")' /\ (Ahead("reload")' => ~Stricter')
         ELSE /\ Foreign(daemon') \/ daemon' = work'.was.daemon
              /\ Ahead("restart")' => Ahead("config")'
    BY <1>2, <1>6, <2>2, <2>7, <2>8, <2>9
  <2> QED  BY <2>1, <2>2, <2>9, <2>10, <2>11 DEF UndoSound, Foreign
<1> QED  BY <1>11, <1>12

\* The undo goes on.
LEMMA UndoMoves ==
  ASSUME TypeInv, StartInv, KeptInv, TypeInv', RecordsSound, Moves, work.outcome # "forward", lock' # "none",
         StartSound, Undoing
  PROVE  Undoing' /\ Carried /\ Start' = Start /\ work'.was = work.was
<1> DEFINE u == Tail(work.todo)
           h == Head(work.todo)
           before == backups[work.dir].before
<1>1. /\ Switching /\ EndsWith(work.todo, "mark")
      /\ work.source = [before EXCEPT !.config = Recovery]
      /\ work.installs /\ work.restarts
      /\ Ahead("main") \/ files.main = Start.main
      /\ Ahead("master") \/ files.master = Start.master
      /\ Ahead("reload") \/ postfix = work.was.postfix
      /\ Ahead("restart") => Ahead("config") \/ files.config = Recovery
      /\ \/ Ahead("restart") \/ Foreign(daemon)
         \/ daemon = work.was.daemon \/ daemon = [config |-> Recovery, by |-> "installer"]
      /\ Rooted /\ Enforcing(daemon) /\ ~Detaching => ~Accepts(postfix.main)
  BY DEF Undoing
<1>2. PICK o \in Parts :
        /\ Ranked(o, work.todo)
        /\ Rooted /\ Ahead("reload") /\ Enforcing(daemon) /\ Accepts(Start.main) =>
             Detaching \/ (Ahead("restart") /\ o = "daemon")
        /\ Rooted /\ Ahead("restart") /\ FailureAction[Recovery] = "tempfail" /\ Accepts(postfix.main) =>
             Ahead("reload") /\ o = "postfix"
  BY DEF Undoing
<1>3. lock # "none" /\ h \in SwitchSteps
  BY KeptUnfolds DEF Moves, SwitchSteps
<1>4. ~Ahead("save") /\ h # "save"
  <2>1. OnlyUndoes(work.todo)
    BY <1>3 DEF TypeInv, WorkTyped, WorkShape
  <2> QED  BY <1>3, <2>1 DEF OnlyUndoes, Ahead, Among, SwitchSteps
<1>5. /\ Carried /\ Start' = Start /\ work'.todo = u
      /\ work'.dir = work.dir /\ work'.kind = work.kind /\ work'.source = work.source
      /\ work'.installs = work.installs /\ work'.restarts = work.restarts
      /\ work'.outcome = work.outcome /\ work'.was = work.was
      /\ u # <<>> /\ (Switching' <=> Switching)
  BY <1>4, MovesCarry
<1>6. Turn(o, work.todo, u) /\ Ranked(o, u)
  BY <1>2, <1>3, Turns
<1>7. /\ files'.main = IF h = "main" THEN work.source.main ELSE files.main
      /\ files'.master = IF h = "master" THEN work.source.master ELSE files.master
      /\ files'.config = IF h = "config" THEN work.source.config ELSE files.config
      /\ postfix' = IF h = "reload" THEN PostfixFiles(files) ELSE postfix
      /\ daemon' = IF h = "restart" THEN [config |-> files.config, by |-> "installer"] ELSE daemon
      /\ work.dir # 0 /\ backups'[work.dir].before = before
  BY <1>1, <1>4 DEF Moves, Restarted, Switching
<1>8. /\ \A x : Ahead(x)' <=> Among(x, u)
      /\ \A x \in Steps : Ahead(x) <=> x = h \/ Among(x, u)
  BY <1>5, <1>6 DEF Ahead, Turn
<1>9. {"main", "master", "reload", "config", "restart"} \subseteq Steps
  BY DEF Steps
<1>10. Start = before /\ before \in HostFiles
  <2>1. work.dir \in DOMAIN backups /\ backups[work.dir].before # NoFiles
    BY <1>1, <1>3, KeptUnfolds DEF Switching
  <2> QED  BY <1>1, <2>1 DEF Start, TypeInv, CopiesTyped
<1>11. work.source.main = Start.main /\ work.source.master = Start.master /\ work.source.config = Recovery
  BY <1>1, <1>10 DEF HostFiles
<1>12. Recovery' = Recovery
  BY <1>5, <1>7 DEF Recovery, Carried
<1>13. Rooted /\ Accepts(Start.main) => FailureAction[Recovery] # "tempfail"
  BY <1>1, <1>3, RecoverySound
<1>14. /\ h = "master" => ~Among("main", u)
       /\ h = "reload" => /\ ~Among("main", u) /\ ~Among("master", u) /\ ~Among("reload", u)
                          /\ Among("restart", u) => o = "postfix"
       /\ h = "restart" => /\ ~Among("config", u) /\ ~Among("restart", u)
                           /\ Among("reload", u) => o = "daemon"
  BY <1>6 DEF Turn
<1>15. EndsWith(u, "mark")
  BY <1>1, <1>3, <1>5, EndStays, KeptUnfolds
<1>16. /\ Among("main", u) \/ files'.main = Start.main
       /\ Among("master", u) \/ files'.master = Start.master
       /\ Among("restart", u) => Among("config", u) \/ files'.config = Recovery
  BY <1>1, <1>7, <1>8, <1>9, <1>11
<1>17. Among("reload", u) \/ postfix' = work.was.postfix
  <2>1. h = "reload" => PostfixFiles(files) = PostfixFiles(Start)
    BY <1>1, <1>8, <1>9, <1>14 DEF PostfixFiles
  <2> QED  BY <1>1, <1>7, <1>8, <1>9, <2>1 DEF StartSound
<1>18. h = "restart" => daemon' = [config |-> Recovery, by |-> "installer"]
  BY <1>1, <1>7, <1>8, <1>9, <1>14
<1>19. \/ Among("restart", u) \/ Foreign(daemon')
       \/ daemon' = work.was.daemon \/ daemon' = [config |-> Recovery, by |-> "installer"]
  BY <1>1, <1>7, <1>8, <1>9, <1>18
<1>20. h = "reload" => (Accepts(postfix'.main) <=> Accepts(Start.main))
  BY <1>8, <1>9, <1>14, <1>17 DEF StartSound, PostfixFiles
<1>21. (Detaching' <=> Detaching) /\ (Rooted' <=> Rooted)
  BY <1>5, CarriedSame DEF Detaching, Carried
<1>22. ("postfix" = "daemon") = FALSE /\ [config |-> Recovery, by |-> "installer"].config = Recovery
  OBVIOUS
<1>23. h = "restart" /\ Enforcing(daemon') => FailureAction[Recovery] = "tempfail"
  BY <1>18, <1>22 DEF Enforcing
<1>24. h # "restart" => daemon' = daemon
  BY <1>7
<1>25. h # "reload" => postfix' = postfix
  BY <1>7
<1>26. Rooted /\ Among("reload", u) /\ Enforcing(daemon') /\ Accepts(Start.main) =>
         Detaching \/ (Among("restart", u) /\ o = "daemon")
  <2>1. CASE h = "restart"
    BY <1>13, <1>23, <2>1
  <2>2. CASE h # "restart"
    BY <1>2, <1>8, <1>9, <1>24, <2>2
  <2> QED  BY <2>1, <2>2
<1>27. Rooted /\ Among("restart", u) /\ FailureAction[Recovery] = "tempfail" /\ Accepts(postfix'.main) =>
         Among("reload", u) /\ o = "postfix"
  <2>1. CASE h = "reload"
    BY <1>13, <1>20, <2>1
  <2>2. CASE h # "reload"
    BY <1>2, <1>8, <1>9, <1>25, <2>2
  <2> QED  BY <2>1, <2>2
<1>28. Rooted /\ Enforcing(daemon') /\ ~Detaching => ~Accepts(postfix'.main)
  <2>1. CASE h = "reload"
    <3>1. daemon' = daemon /\ Ahead("reload")
      BY <1>8, <1>9, <1>24, <2>1
    <3>2. ~(Ahead("restart") /\ o = "daemon")
      BY <1>8, <1>9, <1>14, <2>1
    <3> QED  BY <1>2, <1>20, <2>1, <3>1, <3>2
  <2>2. CASE h = "restart"
    <3>1. postfix' = postfix /\ Ahead("restart")
      BY <1>8, <1>9, <1>25, <2>2
    <3>2. ~(Ahead("reload") /\ o = "postfix")
      BY <1>8, <1>9, <1>14, <2>2
    <3> QED  BY <1>2, <1>23, <2>2, <3>1, <3>2
  <2>3. CASE h \notin {"reload", "restart"}
    BY <1>1, <1>24, <1>25, <2>3
  <2> QED  BY <2>1, <2>2, <2>3
<1>29. work'.source = [backups'[work'.dir].before EXCEPT !.config = Recovery']
  BY <1>1, <1>5, <1>7, <1>12
<1>30. /\ Switching' /\ EndsWith(work'.todo, "mark") /\ work'.installs /\ work'.restarts
       /\ Ahead("main")' \/ files'.main = Start'.main
       /\ Ahead("master")' \/ files'.master = Start'.master
       /\ Ahead("reload")' \/ postfix' = work'.was.postfix
       /\ Ahead("restart")' => Ahead("config")' \/ files'.config = Recovery'
       /\ \/ Ahead("restart")' \/ Foreign(daemon')
          \/ daemon' = work'.was.daemon \/ daemon' = [config |-> Recovery', by |-> "installer"]
  BY <1>1, <1>5, <1>8, <1>12, <1>15, <1>16, <1>17, <1>19
<1>31. \E q \in Parts :
         /\ Ranked(q, work'.todo)
         /\ Rooted' /\ Ahead("reload")' /\ Enforcing(daemon') /\ Accepts(Start'.main) =>
              Detaching' \/ (Ahead("restart")' /\ q = "daemon")
         /\ Rooted' /\ Ahead("restart")' /\ FailureAction[Recovery'] = "tempfail" /\ Accepts(postfix'.main) =>
              Ahead("reload")' /\ q = "postfix"
  BY <1>5, <1>6, <1>8, <1>12, <1>21, <1>26, <1>27
<1> QED  BY <1>5, <1>21, <1>28, <1>29, <1>30, <1>31 DEF Undoing, Enforcing, Accepts, Foreign

\* A run that ends leaves no plan behind, and no run works.
LEMMA RunEnds ==
  ASSUME Sole, TypeInv, lock # "none", lock' = "none", plan' = [plan EXCEPT ![lock] = NoPlan]
  PROVE  Forward' /\ Working' /\ \A r \in Runs : (PlanFits(r))' /\ (PlanSound(r))'
<1>1. \A r \in Runs : r = lock /\ plan'[r] = NoPlan
  BY SoleRun DEF TypeInv, HistoryInv, Shape, Sole
<1>2. \A r \in Runs : plan'[r].op = "none"
  BY <1>1 DEF NoPlan
<1>3. ASSUME NEW r \in Runs PROVE (PlanFits(r))' /\ (PlanSound(r))'
  BY <1>2 DEF PlanFits, PlanSound
<1> QED  BY <1>3 DEF Forward, Working

\* While a run goes on, the plans stay what they are.
LEMMA PlansCarry ==
  ASSUME Sole, TypeInv, Carried, \A r \in Runs : PlanFits(r)
  PROVE  \A r \in Runs : (PlanFits(r))' /\ (PlanSound(r))'
<1>1. lock # "none" /\ lock' # "none"
  BY DEF Carried
<1>2. ASSUME NEW r \in Runs PROVE (PlanFits(r))'
  <2>1. r = lock
    BY <1>1, SoleRun
  <2>2. PlanFits(r)
    OBVIOUS
  <2>3. (plan[r].op = "rollback" => r = lock) /\ PlanFits(r) => (PlanFits(r))'
    BY CarriedSame
  <2> QED  BY <2>1, <2>2, <2>3
<1> QED  BY <1>1, <1>2 DEF PlanSound

\* The steps that make no record keep all this.
LEMMA MoveSound ==
  ASSUME Sole, TypeInv, TypeInv', StartInv, KeptInv, FilesInv, HostInv, Moves
  PROVE  FilesInv' /\ HostInv'
<1>1. lock # "none" /\ Done /\ crashes' = crashes /\ RecordsSound /\ crashes \in Nat
  BY DEF Moves, FilesInv, HostInv
<1>2. RecordsSound'
  BY DEF FilesInv, Moves, RecordsSound
<1>3. work.todo \in Seq(Steps) /\ work.todo # <<>>
  BY <1>1, KeptUnfolds
<1>4. Head(work.todo) \notin {"manifest", "mark"}
  BY DEF Moves, SwitchSteps
<1>5. CASE lock' = "none"
  <2>1. Tail(work.todo) = <<>> /\ plan' = [plan EXCEPT ![lock] = NoPlan]
    BY <1>1, <1>5, DoneGoesOn
  <2>2. Forward' /\ Working' /\ \A r \in Runs : (PlanFits(r))' /\ (PlanSound(r))'
    BY <1>1, <1>5, <2>1, RunEnds
  <2>3. work.outcome # "forward"
    BY <1>1, <1>3, <1>4, <2>1, EndStays DEF FilesInv, Forward
  <2>4. crashes # 0
    BY <1>1, <1>3, <1>4, <2>1, <2>3, EndStays DEF HostInv, Working, Undoing
  <2> QED  BY <1>1, <1>2, <2>2, <2>4 DEF FilesInv, HostInv
<1>6. CASE lock' # "none"
  <2>1. lock' = lock /\ plan' = plan /\ work'.outcome = work.outcome
    BY <1>1, <1>6, DoneGoesOn
  <2>2. Carried
    BY <1>1, <2>1, CarriesOn DEF Moves, TypeInv
  <2>3. \A r \in Runs : (PlanFits(r))' /\ (PlanSound(r))'
    BY <2>2, PlansCarry DEF FilesInv
  <2>4. Forward'
    <3>1. CASE work.outcome = "forward"
      BY <1>6, <3>1, FilesMove
    <3>2. CASE work.outcome # "forward"
      BY <2>1, <3>2 DEF Forward
    <3> QED  BY <3>1, <3>2
  <2>5. ASSUME crashes = 0 PROVE Working'
    <3>1. /\ StartSound
          /\ work.outcome = "forward" => HostSwitched /\ UndoSound
          /\ work.outcome # "forward" => Undoing
      BY <1>1, <2>5 DEF HostInv, Working
    <3>2. Op = "rollback" => plan[lock].record = Active
      BY <1>1 DEF FilesInv, PlanFits, TypeInv, HistoryInv, Shape, Op
    <3>3. CASE work.outcome = "forward"
      <4>1. Start' = Start /\ work'.was = work.was
        <5>1. Ahead("save") => ~Switching
          BY <1>1, <3>3 DEF FilesInv, Forward, FillSound
        <5> QED  BY <1>6, <5>1, MovesCarry
      <4>2. StartSound'
        BY <2>2, <3>1, <3>2, <4>1, StartMoves
      <4>3. HostSwitched' /\ UndoSound'
        BY <1>6, <3>1, <3>3, HostMoves
      <4> QED  BY <2>1, <3>3, <4>2, <4>3 DEF Working
    <3>4. CASE work.outcome # "forward"
      <4>1. Undoing' /\ Start' = Start /\ work'.was = work.was
        BY <1>1, <1>6, <3>1, <3>4, UndoMoves
      <4>2. StartSound'
        BY <2>2, <3>1, <3>2, <4>1, StartMoves
      <4> QED  BY <2>1, <3>4, <4>1, <4>2 DEF Working
    <3> QED  BY <3>3, <3>4
  <2> QED  BY <1>1, <1>2, <1>6, <2>3, <2>4, <2>5 DEF FilesInv, HostInv, RestSound
<1> QED  BY <1>5, <1>6

\* Before its directory exists a run has switched nothing.
LEMMA StillWhole ==
  ASSUME TypeInv, KeptInv, FilesInv, lock # "none", work.outcome = "forward", Ahead("new")
  PROVE  /\ ~Switching /\ Start = files
         /\ First \in Parts /\ Turn(First, work.todo, Tail(work.todo)) /\ Ranked(First, Tail(work.todo))
         /\ SourceSound /\ FilesSwitched /\ FillSound /\ ~Ahead("mark")
         /\ Head(work.todo) \notin SwitchSteps
         /\ EndsWith(work.todo, "manifest") /\ work.todo \in Seq(Steps) /\ work.todo # <<>>
<1>1. /\ Ranked(First, work.todo) /\ SourceSound /\ FilesSwitched /\ FillSound /\ ~Ahead("mark")
      /\ EndsWith(work.todo, "manifest")
  BY DEF FilesInv, Forward
<1>2. ~Switching
  BY <1>1 DEF FillSound
<1>3. First \in Parts
  BY DEF First, Parts
<1> QED  BY <1>1, <1>2, <1>3, Turns, KeptUnfolds DEF Start

\* The next step of a run that has switched nothing: its directory, or the root's record.
LEMMA WholeGoesOn ==
  ASSUME TypeInv, KeptInv, FilesInv, lock # "none", work.outcome = "forward", Ahead("new"),
         \A i \in Records : backups'[i] = backups[i], Head(work.todo) \in {"root", "new", "manifest"},
         UNCHANGED <<files, postfix, daemon>>,
         Tail(work.todo) # <<>>, lock' = lock, plan' = plan, work'.todo = Tail(work.todo),
         work'.undo = work.undo, work'.source = work.source, work'.outcome = work.outcome,
         work'.installs = work.installs, work'.restarts = work.restarts, work'.was = work.was,
         ~Switching', FillSound'
  PROVE  /\ Forward' /\ Start' = Start /\ Start = files /\ ~Switching
         /\ HostSwitched => HostSwitched'
         /\ UndoSound => UndoSound'
<1>1. /\ ~Switching /\ Start = files
      /\ First \in Parts /\ Turn(First, work.todo, Tail(work.todo)) /\ Ranked(First, Tail(work.todo))
      /\ SourceSound /\ FilesSwitched /\ ~Ahead("mark")
      /\ EndsWith(work.todo, "manifest") /\ work.todo \in Seq(Steps) /\ work.todo # <<>>
  BY StillWhole
<1>2. Start' = Start
  BY <1>1 DEF Start
<1>3. First' = First /\ Stricter' = Stricter
  BY <1>2 DEF First, Stricter
<1>4. EndsWith(Tail(work.todo), "manifest")
  BY <1>1, EndStays
<1>5. /\ \A x : Ahead(x)' <=> Among(x, Tail(work.todo))
      /\ \A x \in Steps : Ahead(x) <=> x = Head(work.todo) \/ Among(x, Tail(work.todo))
  BY <1>1 DEF Ahead, Turn
<1>6. {"main", "master", "reload", "config", "restart", "mark"} \subseteq Steps
  BY DEF Steps
<1>7. \A x \in {"main", "master", "reload", "config", "restart", "mark"} : Ahead(x)' <=> Ahead(x)
  BY <1>5, <1>6
<1>8. Op' = Op /\ (Op = "rollback" => Target(plan[lock])' = Target(plan[lock]))
  <2>1. Op = "rollback" => plan[lock].record \in Records /\ backups[plan[lock].record].predecessor \in Records
    BY DEF Op, TypeInv, HistoryInv, Shape, PlansRecords, HistoryWellFounded
  <2> QED  BY <2>1 DEF Op, Target
<1>9. SourceSound'
  BY <1>1, <1>2, <1>8 DEF SourceSound
<1>10. FilesSwitched'
  BY <1>1, <1>2, <1>7 DEF FilesSwitched
<1>11. Forward'
  BY <1>1, <1>3, <1>4, <1>7, <1>9, <1>10 DEF Forward
<1>12. ASSUME HostSwitched PROVE HostSwitched'
  <2>1. PostfixFiles(work.source)' = PostfixFiles(work.source)
    BY DEF PostfixFiles
  <2> QED  BY <1>1, <1>7, <1>12, <2>1 DEF HostSwitched, Foreign
<1>13. ASSUME UndoSound PROVE UndoSound'
  <2>1. PostfixFiles(files)' = PostfixFiles(files) /\ PostfixFiles(Start)' = PostfixFiles(Start)
    BY <1>2 DEF PostfixFiles
  <2>2. /\ work.undo \in {<<>>, PostfixSteps, DaemonSteps} \cup
             (IF Stricter THEN {DaemonSteps \o PostfixSteps} ELSE {PostfixSteps \o DaemonSteps})
        /\ IF Among("main", work.undo) THEN ~Ahead("main") /\ (Ahead("restart") => Stricter)
           ELSE /\ PostfixFiles(files) = PostfixFiles(Start) /\ postfix = work.was.postfix
                /\ Ahead("reload") => Ahead("main")
        /\ IF Among("config", work.undo) THEN ~Ahead("config") /\ (Ahead("reload") => ~Stricter)
           ELSE /\ Foreign(daemon) \/ daemon = work.was.daemon
                /\ Ahead("restart") => Ahead("config")
    BY <1>13 DEF UndoSound
  <2>3. IF Among("main", work.undo) THEN ~Ahead("main")' /\ (Ahead("restart")' => Stricter)
        ELSE /\ PostfixFiles(files) = PostfixFiles(Start) /\ postfix = work.was.postfix
             /\ Ahead("reload")' => Ahead("main")'
    BY <1>7, <2>2
  <2>4. IF Among("config", work.undo) THEN ~Ahead("config")' /\ (Ahead("reload")' => ~Stricter)
        ELSE (Foreign(daemon) \/ daemon = work.was.daemon) /\ (Ahead("restart")' => Ahead("config")')
    BY <1>7, <2>2
  <2> QED  BY <1>3, <2>1, <2>2, <2>3, <2>4 DEF UndoSound, Foreign
<1> QED  BY <1>1, <1>2, <1>11, <1>12, <1>13

\* A directory is made.
LEMMA BeginSound ==
  ASSUME Sole, TypeInv, TypeInv', KeptInv, FilesInv, HostInv, NewRoot \/ NewAttempt
  PROVE  FilesInv' /\ HostInv'
<1> DEFINE u == Tail(work.todo)
           h == Head(work.todo)
<1>1. lock # "none" /\ h \in {"root", "new"} /\ Op \in {"apply", "rollback"}
  BY DEF NewRoot, NewAttempt, At, TypeInv, WorkTyped, WorkShape
<1>2. PICK kind, predecessor :
        /\ NewDirectory(kind, predecessor)
        /\ kind = IF h = "root" THEN "detached"
                  ELSE IF Op = "apply" THEN "activation" ELSE Target(plan[lock]).kind
  BY DEF NewRoot, NewAttempt, At, Op
<1> DEFINE w == [Rest(work) EXCEPT !.dir = Len(backups) + 1, !.kind = kind, !.predecessor = predecessor]
<1>3. /\ backups' = Append(backups, NewBackup) /\ Continue(w)
      /\ UNCHANGED <<files, postfix, daemon, crashes>>
  BY <1>2 DEF NewDirectory
<1>4. /\ DOMAIN work = DOMAIN NoWork /\ work.outcome = "forward" /\ WorkShape /\ Whole(work.todo)
      /\ work.todo \in Seq(Steps) /\ work.todo # <<>>
  BY <1>1, KeptUnfolds DEF SwitchSteps, KeptInv
<1>5. /\ w.todo = u /\ w.undo = work.undo /\ w.source = work.source /\ w.outcome = work.outcome
      /\ w.dir = Len(backups) + 1 /\ w.installs = work.installs /\ w.restarts = work.restarts
      /\ w.was = work.was /\ w.kind = kind
  BY <1>4 DEF Rest, NoWork
<1> HIDE DEF w
<1>6. Len(backups) \in Nat /\ backups'[Len(backups) + 1] = NewBackup
  BY <1>3, Numbered, Appended DEF TypeInv, HistoryInv, Shape
<1>7. Records' = Records /\ \A i \in Records : backups'[i] = backups[i]
  <2>1. /\ DOMAIN backups = 1..Len(backups) /\ DOMAIN backups' = 1..(Len(backups) + 1)
        /\ \A i \in DOMAIN backups : backups'[i] = backups[i]
    BY <1>3, Numbered, Appended DEF TypeInv, HistoryInv, Shape, IsHistory
  <2> QED  BY <1>6, <2>1 DEF Records, NewBackup, RecordKinds
<1>8. Ahead("new")
  <2>1. 1 \in DOMAIN work.todo /\ h = work.todo[1]
    BY <1>4
  <2> QED  BY <1>1, <1>4, <2>1 DEF Whole, Ahead, Among
<1>9. /\ ~Switching /\ Start = files /\ First \in Parts /\ Turn(First, work.todo, u) /\ FillSound
      /\ EndsWith(work.todo, "manifest")
  BY <1>1, <1>4, <1>8, StillWhole
<1>10. u # <<>>
  BY <1>1, <1>4, <1>9, EndStays
<1>11. lock' = lock /\ plan' = plan /\ work' = w
  BY <1>3, <1>5, <1>10 DEF Continue
<1>12. Carried
  BY <1>1, <1>7, <1>11, CarriesOn DEF TypeInv
<1>13. ~Switching' /\ work'.dir # 0
  BY <1>5, <1>6, <1>11 DEF Switching, NewBackup
<1>14. FillSound'
  <2>1. Op' = Op /\ (Op = "rollback" => Target(plan[lock])' = Target(plan[lock]))
    BY <1>12, CarriedSame DEF Carried
  <2>2. Shortened(Op, work.todo, u)
    BY <1>4, <1>10, TailShortens DEF WorkShape
  <2>3. h = "root" => Op = "apply" /\ Among("new", u) /\ Head(u) # "manifest"
    <3>1. h = "root" => Op = "apply" /\ Head(u) = "copy"
      BY <2>2 DEF Shortened
    <3>2. "new" \in Steps /\ \A x \in Steps : Among(x, work.todo) <=> x = h \/ Among(x, u)
      BY <1>9 DEF Turn, Steps
    <3> QED  BY <1>8, <3>1, <3>2 DEF Ahead
  <2>4. h = "new" => ~Among("new", u) /\ Head(u) # "manifest"
    BY <1>9, <2>2 DEF Turn, Shortened
  <2>5. Ahead("new")' <=> Among("new", u)
    BY <1>5, <1>11 DEF Ahead
  <2> QED  BY <1>1, <1>2, <1>5, <1>11, <1>13, <2>1, <2>3, <2>4, <2>5 DEF FillSound
<1>15. /\ Forward' /\ Start' = Start
       /\ HostSwitched => HostSwitched'
       /\ UndoSound => UndoSound'
  BY <1>1, <1>3, <1>4, <1>5, <1>7, <1>8, <1>10, <1>11, <1>13, <1>14, WholeGoesOn
<1>16. \A r \in Runs : (PlanFits(r))' /\ (PlanSound(r))'
  BY <1>12, PlansCarry DEF FilesInv
<1>17. RecordsSound'
  BY <1>12, CarriedSame DEF FilesInv
<1>18. ASSUME crashes = 0 PROVE Working'
  <2>1. StartSound /\ HostSwitched /\ UndoSound
    BY <1>1, <1>4, <1>18 DEF HostInv, Working
  <2>2. Op = "rollback" => plan[lock].record = Active
    BY <1>1 DEF FilesInv, PlanFits, TypeInv, HistoryInv, Shape, Op
  <2>3. StartSound'
    BY <1>5, <1>11, <1>12, <1>15, <2>1, <2>2, StartMoves
  <2>4. HostSwitched' /\ UndoSound'
    BY <1>15, <2>1
  <2> QED  BY <1>4, <1>5, <1>11, <2>3, <2>4 DEF Working
<1> QED  BY <1>1, <1>3, <1>11, <1>15, <1>16, <1>17, <1>18 DEF FilesInv, HostInv, RestSound

\* The new record is the active one, and describes the host.
LEMMA NewRecord ==
  ASSUME TypeInv, TypeInv', WriteManifest, work.dir # 0, work.kind \in RecordKinds
  PROVE  /\ Records' = Records \cup {work.dir} /\ Active' = work.dir /\ work.dir \notin Records
         /\ \A i \in Records : backups'[i] = backups[i]
         /\ backups'[work.dir].kind = work.kind /\ backups'[work.dir].state = files
         /\ backups'[work.dir].files = backups[work.dir].files
         /\ backups'[work.dir].before = backups[work.dir].before
<1> DEFINE
      next == IF Active = 0 THEN 1 ELSE backups[Active].sequence + 1
      b == [backups[work.dir] EXCEPT
              !.kind = work.kind, !.how = plan[lock].op, !.predecessor = work.predecessor,
              !.state = files, !.sequence = next]
<1>1. backups' = [backups EXCEPT ![work.dir] = b]
  BY DEF WriteManifest
<1>2. /\ IsHistory /\ work.dir \in 0..Len(backups) /\ work.dir \notin Records
      /\ DOMAIN backups = 1..Len(backups) /\ Len(backups) \in Nat
  BY Numbered DEF TypeInv, HistoryInv, Shape, FillsFresh
<1>3. next \in Nat /\ \A j \in Records : backups[j].sequence < next
  <2>1. \A j \in Records : backups[j].sequence \in Nat
    BY DEF TypeInv, HistoryInv, Shape, Records
  <2>2. CASE Records = {}
    BY <2>2, ActiveIsNewest DEF TypeInv, HistoryInv
  <2>3. CASE Records # {}
    BY <2>1, <2>3, ActiveIsNewest, RecordsAreNumbered DEF TypeInv, HistoryInv
  <2> QED  BY <2>2, <2>3
<1> HIDE DEF next
<1>4. work.dir \in DOMAIN backups
  BY <1>2
<1>5. /\ b.sequence = next /\ b.kind = work.kind /\ b.state = files
      /\ b.files = backups[work.dir].files /\ b.before = backups[work.dir].before
  BY <1>4 DEF TypeInv, HistoryInv, Shape, NewBackup
<1> HIDE DEF b
<1>6. /\ \A i \in DOMAIN backups : i # work.dir => backups'[i] = backups[i]
      /\ backups'[work.dir] = b /\ DOMAIN backups' = DOMAIN backups
  BY <1>1, <1>2, <1>4, Written
<1>7. Records' = Records \cup {work.dir} /\ \A i \in Records : i \in DOMAIN backups /\ backups'[i] = backups[i]
  BY <1>2, <1>4, <1>5, <1>6 DEF Records
<1>8. Active' \in Records' /\ backups'[work.dir].sequence <= backups'[Active'].sequence
  <2>1. Records' # {} => Active' \in Records' /\ \A j \in Records' : backups'[j].sequence <= backups'[Active'].sequence
    BY DEF TypeInv, HistoryInv, HasNewest, Active
  <2> QED  BY <1>7, <2>1
<1>9. Active' = work.dir
  <2> SUFFICES ASSUME Active' \in Records PROVE FALSE
    BY <1>7, <1>8
  <2>1. backups'[Active'] = backups[Active'] /\ backups[Active'].sequence < next /\ next <= backups[Active'].sequence
    BY <1>3, <1>5, <1>6, <1>7, <1>8
  <2>2. backups[Active'].sequence \in Nat
    BY DEF TypeInv, HistoryInv, Shape, Records
  <2> QED  BY <1>3, <2>1, <2>2
<1> QED  BY <1>2, <1>5, <1>6, <1>7, <1>9

\* Before the manifest of an activation or a rollback nothing is left of the switch.
LEMMA SwitchIsWhole ==
  ASSUME TypeInv, KeptInv, FilesInv, lock # "none", Head(work.todo) = "manifest", ~Ahead("new")
  PROVE  /\ work.outcome = "forward" /\ Tail(work.todo) = <<>>
         /\ files.main = work.source.main /\ files.master = work.source.master
         /\ files.config = work.source.config
         /\ work.kind \in RecordKinds /\ work.dir # 0 /\ backups[work.dir].files = files
         /\ work.kind = "activation" => files.main.action = FailureAction[files.config]
         /\ HostSwitched => /\ Foreign(daemon) \/ daemon.config = files.config
                            /\ postfix = PostfixFiles(files)
<1> DEFINE u == Tail(work.todo)
<1>1. work.outcome = "forward" /\ work.todo \in Seq(Steps) /\ work.todo # <<>>
  BY KeptUnfolds DEF SwitchSteps
<1>2. /\ Ranked(First, work.todo) /\ SourceSound /\ FilesSwitched /\ FillSound
      /\ EndsWith(work.todo, "manifest")
  BY <1>1 DEF FilesInv, Forward
<1>3. First \in Parts
  BY DEF First, Parts
<1>4. Turn(First, work.todo, u)
  BY <1>2, <1>3, Turns
<1>5. {"new", "main", "master", "reload", "config", "restart"} \subseteq Steps
      /\ {"main", "master", "reload", "config", "restart"} = SwitchSteps
  BY DEF Steps, SwitchSteps
<1>6. ~Among("new", u)
  BY <1>4, <1>5 DEF Turn, Ahead
<1>7. u = <<>>
  BY <1>1, <1>2, <1>4, <1>6, EndStays DEF Turn
<1>8. \A x \in SwitchSteps : ~Among(x, u) /\ x # "manifest" /\ x \in Steps
  BY <1>4, <1>5, <1>6 DEF Turn
<1>9. \A x \in SwitchSteps : ~Ahead(x)
  BY <1>4, <1>8 DEF Turn, Ahead
<1>10. ~Ahead("main") /\ ~Ahead("master") /\ ~Ahead("reload") /\ ~Ahead("config") /\ ~Ahead("restart")
  BY <1>5, <1>9
<1>11. /\ files.main = work.source.main /\ files.master = work.source.master
       /\ files.config = work.source.config
  BY <1>2, <1>10 DEF FilesSwitched
<1>12. /\ work.dir # 0 /\ backups[work.dir].files = files
       /\ work.kind = IF Op = "apply" THEN "activation" ELSE Target(plan[lock]).kind
  BY <1>2 DEF FillSound
<1>13. Op \in {"apply", "rollback"}
  BY DEF TypeInv, WorkTyped, WorkShape
<1>14. Op = "rollback" => /\ backups[plan[lock].record].predecessor \in Records
  BY DEF Op, TypeInv, HistoryInv, Shape, PlansRecords, HistoryWellFounded
<1>15. work.kind \in RecordKinds
  BY <1>12, <1>13, <1>14 DEF Target, Records, RecordKinds
<1>16. work.kind = "activation" => files.main.action = FailureAction[files.config]
  <2>1. CASE Op = "apply"
    BY <1>2, <1>11, <2>1 DEF SourceSound
  <2>2. CASE Op = "rollback"
    BY <1>2, <1>11, <1>12, <1>14, <2>2 DEF SourceSound, FilesInv, RecordsSound, Target
  <2> QED  BY <1>13, <2>1, <2>2
<1>17. HostSwitched => /\ Foreign(daemon) \/ daemon.config = files.config
                       /\ postfix = PostfixFiles(files)
  BY <1>10, <1>11 DEF HostSwitched, PostfixFiles
<1> QED  BY <1>1, <1>7, <1>11, <1>12, <1>15, <1>16, <1>17

\* A record is written: of the state before the attachment, or of what runs.
LEMMA RecordSound ==
  ASSUME Sole, TypeInv, TypeInv', StartInv, KeptInv, FilesInv, HostInv, WriteManifest
  PROVE  FilesInv' /\ HostInv'
<1> DEFINE u == Tail(work.todo)
           w == [Rest(work) EXCEPT !.dir = 0]
<1>1. /\ lock # "none" /\ Head(work.todo) = "manifest" /\ Op \in {"apply", "rollback"} /\ Continue(w)
      /\ UNCHANGED <<files, postfix, daemon, crashes>>
  BY DEF WriteManifest, At, TypeInv, WorkTyped, WorkShape
<1>2. /\ DOMAIN work = DOMAIN NoWork /\ work.outcome = "forward" /\ WorkShape
      /\ work.todo \in Seq(Steps) /\ work.todo # <<>>
  BY <1>1, KeptUnfolds DEF SwitchSteps
<1>3. /\ w.todo = u /\ w.undo = work.undo /\ w.source = work.source /\ w.outcome = work.outcome
      /\ w.dir = 0 /\ w.installs = work.installs /\ w.restarts = work.restarts
      /\ w.was = work.was /\ w.kind = work.kind
  BY <1>2 DEF Rest, NoWork
<1> HIDE DEF w
<1>4. FillSound /\ RecordsSound
  BY <1>1, <1>2 DEF FilesInv, Forward
<1>5. work.dir # 0 /\ backups[work.dir].files = files
  BY <1>1, <1>4 DEF FillSound
<1>6. ASSUME work.kind \in RecordKinds,
             work.kind = "activation" => files.main.action = FailureAction[files.config]
      PROVE  /\ RecordsSound' /\ Active' = work.dir /\ Active' # 0
             /\ backups'[Active'].files = files /\ backups'[Active'].kind = work.kind
  <2>1. /\ Records' = Records \cup {work.dir} /\ Active' = work.dir /\ work.dir \notin Records
        /\ \A i \in Records : backups'[i] = backups[i]
        /\ backups'[work.dir].kind = work.kind /\ backups'[work.dir].state = files
        /\ backups'[work.dir].files = backups[work.dir].files
    BY <1>5, <1>6, NewRecord
  <2> QED  BY <1>4, <1>5, <1>6, <2>1 DEF RecordsSound
<1>7. CASE Ahead("new")
  <2>1. /\ ~Switching /\ Start = files /\ First \in Parts /\ Turn(First, work.todo, u)
        /\ EndsWith(work.todo, "manifest")
    BY <1>1, <1>2, <1>7, StillWhole
  <2>2. Op = "apply" /\ work.kind = "detached"
    BY <1>1, <1>4, <1>7 DEF FillSound
  <2>3. Among("new", u)
    <3>1. "new" \in Steps
      BY DEF Steps
    <3> QED  BY <1>1, <1>7, <2>1, <3>1 DEF Turn, Ahead
  <2>4. u # <<>>
    BY <2>3 DEF Among
  <2>5. lock' = lock /\ plan' = plan /\ work' = w
    BY <1>1, <1>3, <2>4 DEF Continue
  <2>6. Head(u) = "new"
    <3>1. work.todo[2] = "new"
      BY <1>1, <2>2 DEF StartInv, WorkSound, RootPhase
    <3> QED  BY <1>2, <2>4, <3>1, TailShortens DEF Shortened, WorkShape
  <2>7. ~Switching'
    BY <1>3, <2>5 DEF Switching
  <2>8. Op' = "apply" /\ Ahead("new")'
    BY <1>3, <2>2, <2>3, <2>5 DEF Op, Ahead
  <2>9. FillSound'
    BY <1>3, <2>5, <2>6, <2>7, <2>8 DEF FillSound
  <2>10. /\ RecordsSound' /\ Active' = work.dir /\ Active' # 0
         /\ backups'[Active'].files = files /\ backups'[Active'].kind = "detached"
    BY <1>6, <2>2 DEF RecordKinds
  <2>11. \A i \in Records : backups'[i] = backups[i]
    BY <1>5, <2>2, NewRecord DEF RecordKinds
  <2>12. /\ Forward' /\ Start' = Start
         /\ HostSwitched => HostSwitched'
         /\ UndoSound => UndoSound'
    BY <1>1, <1>2, <1>3, <1>7, <2>4, <2>5, <2>7, <2>9, <2>11, WholeGoesOn
  <2>13. ASSUME NEW r \in Runs PROVE (PlanFits(r))' /\ (PlanSound(r))'
    <3>1. r = lock
      BY <1>1, SoleRun
    <3> QED  BY <1>1, <2>2, <2>5, <3>1 DEF PlanFits, PlanSound, Op
  <2>14. ASSUME crashes = 0 PROVE Working'
    <3>1. StartSound /\ HostSwitched /\ UndoSound
      BY <1>1, <1>2, <2>14 DEF HostInv, Working
    <3>2. ActionAtRest' = files.main.action
      BY <2>10 DEF ActionAtRest
    <3>3. ~Activated'
      BY <2>10 DEF Activated
    <3>4. PostfixFiles(Start)' = PostfixFiles(Start)
      BY <2>12 DEF PostfixFiles
    <3>5. StartSound'
      BY <1>3, <2>1, <2>5, <2>8, <2>12, <3>1, <3>2, <3>3, <3>4 DEF StartSound, OfActive
    <3> QED  BY <1>2, <1>3, <2>5, <2>12, <3>1, <3>5 DEF Working
  <2> QED  BY <1>1, <2>5, <2>10, <2>12, <2>13, <2>14 DEF FilesInv, HostInv, RestSound
<1>8. CASE ~Ahead("new")
  <2>1. /\ u = <<>> /\ work.kind \in RecordKinds
        /\ work.kind = "activation" => files.main.action = FailureAction[files.config]
        /\ HostSwitched => /\ Foreign(daemon) \/ daemon.config = files.config
                           /\ postfix = PostfixFiles(files)
    BY <1>1, <1>8, SwitchIsWhole
  <2>2. lock' = "none" /\ plan' = [plan EXCEPT ![lock] = NoPlan]
    BY <1>1, <1>3, <2>1 DEF Continue
  <2>3. Forward' /\ Working' /\ \A r \in Runs : (PlanFits(r))' /\ (PlanSound(r))'
    BY <1>1, <2>2, RunEnds
  <2>4. /\ RecordsSound' /\ Active' # 0
        /\ backups'[Active'].files = files /\ backups'[Active'].kind = work.kind
    BY <1>6, <2>1
  <2>5. ASSUME crashes = 0 PROVE RestSound'
    <3>1. (Foreign(daemon) \/ daemon.config = files.config) /\ postfix = PostfixFiles(files)
      BY <1>1, <1>2, <2>1, <2>5 DEF HostInv, Working
    <3>2. ActionAtRest' = files.main.action
      BY <2>4 DEF ActionAtRest
    <3>3. PostfixFiles(files)' = PostfixFiles(files)
      BY <1>1 DEF PostfixFiles
    <3> QED  BY <1>1, <2>4, <3>1, <3>2, <3>3 DEF RestSound, OfActive, Foreign
  <2> QED  BY <1>1, <2>3, <2>4, <2>5 DEF FilesInv, HostInv
<1> QED  BY <1>7, <1>8

\* When a failed run is marked, nothing is left of its undo.
LEMMA NothingLeft ==
  ASSUME TypeInv, KeptInv, lock # "none", Head(work.todo) = "mark"
  PROVE  Tail(work.todo) = <<>> /\ \A x \in SwitchSteps : ~Ahead(x)
<1> DEFINE u == Tail(work.todo)
<1>1. PICK o \in Parts : Ranked(o, work.todo)
  BY KeptUnfolds
<1>2. Turn(o, work.todo, u)
  BY <1>1, Turns
<1>3. \A x \in Steps : ~Among(x, u)
  BY <1>2 DEF Turn
<1>4. work.todo \in Seq(Steps) /\ work.todo # <<>>
  BY KeptUnfolds
<1>5. u = <<>>
  <2> SUFFICES ASSUME u # <<>> PROVE FALSE
    OBVIOUS
  <2>1. u \in Seq(Steps) /\ 1 \in DOMAIN u /\ u[1] \in Steps
    BY <1>4
  <2> QED  BY <1>3, <2>1 DEF Among
<1>6. SwitchSteps \subseteq Steps /\ "mark" \notin SwitchSteps
  BY DEF Steps, SwitchSteps
<1> QED  BY <1>2, <1>3, <1>5, <1>6 DEF Turn, Ahead

\* What an undo has brought back by then.
LEMMA UndoneIsRest ==
  ASSUME TypeInv, StartInv, KeptInv, RecordsSound, StartSound, Undoing, lock # "none",
         Head(work.todo) = "mark"
  PROVE  /\ postfix = work.was.postfix /\ postfix = PostfixFiles(files)
         /\ PostfixFiles(files) = PostfixFiles(backups[work.dir].before)
         /\ Rooted => files.main.action = ActionAtRest
         /\ OfActive(daemon)
         /\ Activated /\ work.was.daemon.by = "installer" => Foreign(daemon) \/ daemon = work.was.daemon
<1>1. ~Ahead("main") /\ ~Ahead("master") /\ ~Ahead("reload") /\ ~Ahead("restart")
  BY NothingLeft DEF SwitchSteps
<1>2. /\ Switching /\ files.main = Start.main /\ files.master = Start.master
      /\ postfix = work.was.postfix
      /\ Foreign(daemon) \/ daemon = work.was.daemon \/ daemon = [config |-> Recovery, by |-> "installer"]
  BY <1>1 DEF Undoing
<1>3. /\ work.was.postfix = PostfixFiles(Start) /\ work.was.daemon \in Daemons
      /\ Rooted => Start.main.action = ActionAtRest
      /\ OfActive(work.was.daemon)
  BY DEF StartSound
<1>4. PostfixFiles(files) = PostfixFiles(Start)
  BY <1>2 DEF PostfixFiles
<1>5. Start = backups[work.dir].before
  BY <1>2 DEF Start
<1>6. Activated => Recovery = backups[Active].files.config
  BY <1>2, RecoverySound
<1>7. OfActive(daemon)
  BY <1>2, <1>3, <1>6 DEF OfActive, Foreign
<1>8. ASSUME Activated, work.was.daemon.by = "installer" PROVE Foreign(daemon) \/ daemon = work.was.daemon
  <2>1. work.was.daemon.config = Recovery
    BY <1>3, <1>6, <1>8 DEF OfActive
  <2>2. work.was.daemon = [config |-> work.was.daemon.config, by |-> work.was.daemon.by]
    BY <1>3 DEF Daemons
  <2> QED  BY <1>2, <1>8, <2>1, <2>2
<1> QED  BY <1>2, <1>3, <1>4, <1>5, <1>7, <1>8

\* A run that ends with the records as they were, and with the host as it should be.
LEMMA EndSound ==
  ASSUME Sole, TypeInv, TypeInv', FilesInv, lock # "none", lock' = "none",
         plan' = [plan EXCEPT ![lock] = NoPlan], crashes' \in Nat,
         Records' = Records, \A i \in Records : backups'[i] = backups[i],
         crashes' = 0 =>
           /\ postfix' = PostfixFiles(files') /\ (Rooted => files'.main.action = ActionAtRest)
           /\ OfActive(daemon')
  PROVE  FilesInv' /\ HostInv'
<1>1. Forward' /\ Working' /\ \A r \in Runs : (PlanFits(r))' /\ (PlanSound(r))'
  BY RunEnds
<1>2. RecordsSound'
  BY DEF FilesInv, RecordsSound
<1>3. Active' = Active /\ (Active # 0 => Active \in Records)
  BY ActiveKept, ActiveTyped DEF TypeInv
<1>4. ActionAtRest' = ActionAtRest /\ (Activated' <=> Activated)
      /\ (Activated => backups'[Active].files.config = backups[Active].files.config)
  BY <1>3 DEF ActionAtRest, Activated
<1>5. crashes' = 0 => RestSound'
  BY <1>3, <1>4 DEF RestSound, OfActive, PostfixFiles, Rooted
<1> QED  BY <1>1, <1>2, <1>5 DEF FilesInv, HostInv

\* The run that undid itself ends as it marks its directory.
LEMMA MarkSound ==
  ASSUME Sole, TypeInv, TypeInv', StartInv, KeptInv, FilesInv, HostInv, MarkFailed
  PROVE  FilesInv' /\ HostInv'
<1>1. /\ Done /\ lock # "none" /\ Head(work.todo) = "mark" /\ Put("kind", "failed")
      /\ UNCHANGED <<files, postfix, daemon, crashes>>
  BY DEF MarkFailed, At
<1>2. Records' = Records /\ \A i \in Records : backups'[i] = backups[i]
  BY <1>1, DoneKeeps, DirectoryWritten DEF TypeInv, HistoryInv
<1>3. lock' = "none" /\ plan' = [plan EXCEPT ![lock] = NoPlan]
  BY <1>1, NothingLeft, DoneGoesOn
<1>4. work.outcome # "forward"
  <2>1. Ahead("mark")
    <3>1. work.todo \in Seq(Steps) /\ work.todo # <<>>
      BY <1>1, KeptUnfolds
    <3>2. 1 \in DOMAIN work.todo /\ work.todo[1] = "mark"
      BY <1>1, <3>1
    <3> QED  BY <3>2 DEF Ahead, Among
  <2> QED  BY <1>1, <2>1 DEF FilesInv, Forward
<1>5. crashes = 0 => /\ postfix = PostfixFiles(files) /\ OfActive(daemon)
                     /\ Rooted => files.main.action = ActionAtRest
  BY <1>1, <1>4, UndoneIsRest DEF FilesInv, HostInv, Working
<1>6. crashes' \in Nat /\ (crashes' = 0 => crashes = 0)
  BY <1>1 DEF HostInv
<1> QED  BY <1>1, <1>2, <1>3, <1>5, <1>6, EndSound

\* A daemon left by an installer never enforces while Postfix accepts, before a run.
LEMMA StartClosed ==
  ASSUME TypeInv, StartInv, RecordsSound, StartSound, Rooted, Enforcing(work.was.daemon)
  PROVE  ~Accepts(Start.main)
<1> SUFFICES ASSUME Accepts(Start.main) PROVE FALSE
  OBVIOUS
<1>1. ActionAtRest = "accept" /\ OfActive(work.was.daemon)
  BY DEF StartSound, Accepts
<1>2. Activated /\ FailureAction[backups[Active].files.config] = "accept"
  BY <1>1, AtRestAccepts
<1> QED  BY <1>1, <1>2 DEF OfActive, Enforcing

\* What a run puts on disk fits together, or does not use postwarden.
LEMMA SourceFits ==
  ASSUME TypeInv, StartInv, RecordsSound, SourceSound, lock # "none"
  PROVE  \/ work.source.main.action = FailureAction[work.source.config]
         \/ /\ work.source.main.action = "none"
            /\ Op = "rollback" /\ Target(plan[lock]).kind = "detached"
<1>1. CASE Op = "apply"
  BY <1>1 DEF SourceSound
<1>2. CASE Op = "rollback"
  <2>1. backups[plan[lock].record].predecessor \in Records
    BY <1>2 DEF Op, TypeInv, HistoryInv, Shape, PlansRecords, HistoryWellFounded
  <2> QED  BY <1>2, <2>1 DEF SourceSound, RecordsSound, StartInv, RestorableStart, Records, RecordKinds, Target
<1> QED  BY <1>1, <1>2 DEF TypeInv, WorkTyped, WorkShape

\* The daemon that runs, or that a restart of this moment brings up.
MayRun(d) ==
  d = daemon \/ (Head(work.todo) = "restart" /\ work.restarts /\ d = Restarted)

\* In a switch it is the one the run found, or runs what the run puts on disk.
LEMMA SwitchedDaemon ==
  ASSUME TypeInv, KeptInv, FilesInv, lock # "none", work.outcome = "forward", HostSwitched, UndoSound,
         NEW d, MayRun(d)
  PROVE  /\ \/ Foreign(d)
            \/ d = work.was.daemon /\ Ahead("restart")
            \/ d.config = work.source.config
         /\ ~Switching => Foreign(d) \/ d = work.was.daemon
         /\ ~Among("config", Starting(work).undo) =>
              (Foreign(d) \/ d = work.was.daemon) /\ Head(work.todo) # "restart"
<1> DEFINE u == Tail(work.todo)
<1>1. Ranked(First, work.todo) /\ FilesSwitched /\ First \in Parts
  BY DEF FilesInv, Forward, First, Parts
<1>2. Turn(First, work.todo, u)
  BY <1>1, Turns
<1>3. ASSUME Head(work.todo) = "restart"
      PROVE  /\ ~Ahead("config") /\ Ahead("restart") /\ Switching
             /\ files.config = work.source.config
  <2>1. "config" \in Steps /\ "restart" \in Steps /\ "restart" \in SwitchSteps
    BY DEF Steps, SwitchSteps
  <2>2. ~Ahead("config") /\ Ahead("restart")
    BY <1>2, <1>3, <2>1 DEF Turn, Ahead
  <2>3. Switching
    BY <1>3, <2>1, KeptUnfolds
  <2> QED  BY <1>1, <2>2, <2>3 DEF FilesSwitched
<1>4. Restarted.config = files.config
  BY DEF Restarted
<1>5. /\ \/ Foreign(daemon)
         \/ IF Ahead("restart") THEN daemon = work.was.daemon ELSE daemon.config = work.source.config
      /\ ~Switching => Foreign(daemon) \/ daemon = work.was.daemon
  BY DEF HostSwitched
<1>6. ASSUME ~Among("config", Starting(work).undo)
      PROVE  (Foreign(d) \/ d = work.was.daemon) /\ Head(work.todo) # "restart"
  <2>1. ~Among("config", work.undo)
    BY <1>6, UndoStarts
  <2>2. (Foreign(daemon) \/ daemon = work.was.daemon) /\ (Ahead("restart") => Ahead("config"))
    BY <2>1 DEF UndoSound
  <2> QED  BY <1>3, <2>2 DEF MayRun
<1> QED  BY <1>3, <1>4, <1>5, <1>6 DEF MayRun

\* So Postfix does not accept while it enforces, in a switch either.
LEMMA ForwardClosed ==
  ASSUME TypeInv, StartInv, KeptInv, FilesInv, lock # "none", work.outcome = "forward",
         StartSound, HostSwitched, UndoSound, Rooted, NEW d, MayRun(d), Enforcing(d), ~Detaching
  PROVE  ~Accepts(postfix.main)
<1>1. RecordsSound /\ SourceSound /\ FillSound
  BY DEF FilesInv, Forward
<1>2. d # work.was.daemon \/ ~Accepts(Start.main)
  BY <1>1, StartClosed
<1>3. postfix.main = IF Ahead("reload") THEN Start.main ELSE work.source.main
  BY DEF HostSwitched, StartSound, PostfixFiles
<1>4. /\ \/ d = work.was.daemon /\ Ahead("restart")
         \/ d.config = work.source.config
      /\ ~Switching => d = work.was.daemon
      /\ ~Among("config", Starting(work).undo) => d = work.was.daemon
  BY SwitchedDaemon DEF Foreign, Enforcing
<1>5. CASE d = work.was.daemon /\ Ahead("restart")
  <2>1. ~Ahead("reload") /\ Among("main", work.undo) => Stricter
    BY <1>5 DEF UndoSound
  <2>2. ~Among("main", work.undo) => postfix.main = Start.main
    BY DEF UndoSound, StartSound, PostfixFiles
  <2> QED  BY <1>2, <1>3, <1>5, <2>1, <2>2 DEF Stricter, Accepts
<1>6. CASE d.config = work.source.config
  <2>1. FailureAction[work.source.config] = "tempfail"
    BY <1>6 DEF Enforcing
  <2>2. CASE work.source.main.action = FailureAction[work.source.config]
    <3> SUFFICES ASSUME Ahead("reload"), Accepts(Start.main) PROVE FALSE
      BY <1>3, <2>1, <2>2 DEF Accepts
    <3>1. Stricter
      BY <2>1, <2>2 DEF Stricter, Accepts
    <3>2. Among("config", Starting(work).undo)
      BY <1>2, <1>4
    <3>3. ~Among("config", work.undo)
      BY <3>1 DEF UndoSound
    <3>4. Head(work.todo) = "config"
      BY <3>2, <3>3, UndoStarts
    <3>5. Foreign(daemon) \/ daemon = work.was.daemon
      BY <3>3 DEF UndoSound
    <3> QED  BY <1>2, <3>4, <3>5 DEF MayRun, Foreign, Enforcing
  <2>3. CASE work.source.main.action = "none" /\ Op = "rollback" /\ Target(plan[lock]).kind = "detached"
    <3>1. Ahead("new")
      BY <1>1, <2>3 DEF FillSound, Detaching, Op
    <3> QED  BY <1>1, <1>2, <1>3, <1>4, <2>3, <3>1 DEF FillSound, Accepts
  <2> QED  BY <1>1, <2>2, <2>3, SourceFits
<1> QED  BY <1>4, <1>5, <1>6

\* A step of the switch fails: its undo begins.
LEMMA UndoBegins ==
  ASSUME TypeInv, StartInv, KeptInv, FilesInv, lock # "none", work.outcome = "forward", Switching,
         StartSound, HostSwitched, UndoSound, Carried, DaemonAfterFailure, Start' = Start,
         UNCHANGED <<files, postfix, backups>>, NEW t, t = Starting(work).undo, DOMAIN work' = DOMAIN NoWork,
         work'.todo = t \o <<"mark">>, work'.dir = work.dir, work'.kind = work.kind, work'.was = work.was,
         work'.installs, work'.restarts,
         work'.source = [backups[work.dir].before EXCEPT !.config = Recovery]
  PROVE  Undoing'
<1> DEFINE o == UndoOrder(t)
           PD == PostfixSteps \o DaemonSteps
           DP == DaemonSteps \o PostfixSteps
<1>1. /\ t \in Both /\ work.undo \in Both
      /\ t \in {<<>>, PostfixSteps, DaemonSteps} \cup (IF Stricter THEN {DP} ELSE {PD})
      /\ Among("main", t) <=> Among("main", work.undo) \/ Head(work.todo) = "main"
      /\ Among("config", t) <=> Among("config", work.undo) \/ Head(work.todo) = "config"
  BY UndoStarts
<1>2. /\ o \in Parts /\ t \in Seq(SwitchSteps) /\ Ranked(o, work'.todo)
      /\ \A x \in Steps : Among(x, work'.todo) <=> x = "mark" \/ Among(x, t)
  BY <1>1, UndoProgram
<1>3. {"main", "master", "reload", "config", "restart"} \subseteq Steps \ {"mark"}
  BY DEF Steps
<1>4. \A x \in {"main", "master", "reload", "config", "restart"} : Ahead(x)' <=> Among(x, t)
  BY <1>2, <1>3 DEF Ahead
<1>5. /\ Among("master", t) <=> Among("main", t)
      /\ Among("reload", t) <=> Among("main", t)
      /\ Among("restart", t) <=> Among("config", t)
  BY <1>1, BothHold
<1>6. EndsWith(work'.todo, "mark")
  <2>1. SwitchSteps \subseteq Steps /\ "mark" \in Steps
    BY DEF Steps, SwitchSteps
  <2>2. t \in Seq(Steps) /\ <<"mark">> \in Seq(Steps) /\ EndsWith(<<"mark">>, "mark")
    BY <1>2, <2>1 DEF EndsWith
  <2>3. EndsWith(t \o <<"mark">>, "mark")
    BY <2>2, JoinedEnds
  <2> QED  BY <2>3
<1>7. Recovery' = Recovery
  BY DEF Recovery, Carried
<1>8. Switching'
  BY DEF Switching
<1>9. ~Among("main", t) => PostfixFiles(files) = PostfixFiles(Start) /\ postfix = work.was.postfix
  BY <1>1 DEF UndoSound
<1>10. ~Among("main", t) => files.main = Start.main /\ files.master = Start.master
  BY <1>9 DEF PostfixFiles
<1>11. daemon' = Down \/ MayRun(daemon')
  BY DEF DaemonAfterFailure, MayRun, At
<1>12. ~Enforcing(Down)
  BY DEF Enforcing, Down
<1>13. ~Among("config", t) => Foreign(daemon') \/ daemon' = work.was.daemon
  <2> SUFFICES ASSUME ~Among("config", t) PROVE Foreign(daemon') \/ daemon' = work.was.daemon
    OBVIOUS
  <2>1. MayRun(daemon)
    BY DEF MayRun
  <2>2. (Foreign(daemon) \/ daemon = work.was.daemon) /\ Head(work.todo) # "restart"
    BY <2>1, SwitchedDaemon
  <2> QED  BY <2>2 DEF DaemonAfterFailure, At
<1>14. RecordsSound /\ SourceSound /\ FillSound
  BY DEF FilesInv, Forward
<1>15. (Detaching' <=> Detaching) /\ (Rooted' <=> Rooted)
  BY CarriedSame DEF Detaching, Carried
<1>16. Among("main", t) /\ Among("config", t) => t = IF Stricter THEN DP ELSE PD
  <2>1. ~Among("main", <<>>) /\ ~Among("config", PostfixSteps) /\ ~Among("main", DaemonSteps)
    BY PartsHold
  <2> HIDE DEF PD, DP
  <2> QED  BY <1>1, <2>1
<1>17. DP # PD /\ (t = DP => Among("main", t) /\ Among("config", t))
  BY <1>1, BothHold, PartsHold
<1> HIDE DEF PD
<1>18. Rooted /\ Among("reload", t) /\ Enforcing(daemon') /\ Accepts(Start.main) => Detaching \/ (Among("restart", t) /\ o = "daemon")
  <2> SUFFICES ASSUME Rooted, Among("main", t), Enforcing(daemon'), Accepts(Start.main), ~Detaching
               PROVE  Among("config", t) /\ o = "daemon"
    BY <1>5
  <2>1. daemon' # work.was.daemon /\ ~Foreign(daemon')
    BY <1>14, StartClosed DEF Foreign, Enforcing
  <2>2. Among("config", t)
    BY <1>13, <2>1
  <2>3. MayRun(daemon')
    BY <1>11, <1>12
  <2>4. daemon'.config = work.source.config
    BY <2>1, <2>3, SwitchedDaemon
  <2>5. FailureAction[work.source.config] = "tempfail"
    BY <2>4 DEF Enforcing
  <2>6. ~(Op = "rollback" /\ Target(plan[lock]).kind = "detached")
    BY <1>14 DEF FillSound, Detaching, Op
  <2>7. Stricter
    BY <1>14, <2>5, <2>6, SourceFits DEF Stricter, Accepts
  <2>8. t = DP
    BY <1>16, <2>2, <2>7
  <2> QED  BY <2>2, <2>8 DEF UndoOrder, DP
<1>19. Rooted /\ Among("restart", t) /\ FailureAction[Recovery] = "tempfail" /\ Accepts(postfix.main) =>
         Among("reload", t) /\ o = "postfix"
  <2> SUFFICES ASSUME Rooted, FailureAction[Recovery] = "tempfail", Accepts(postfix.main)
               PROVE  Among("main", t) /\ o = "postfix"
    BY <1>5
  <2>1. ~Accepts(Start.main)
    <3>1. Accepts(Start.main) => FailureAction[Recovery] = "accept"
      BY <1>14, RecoverySound
    <3> QED  BY <3>1
  <2>2. Among("main", t)
    BY <1>9, <2>1 DEF StartSound, PostfixFiles
  <2>3. ~Stricter
    BY <2>1 DEF Stricter, Accepts
  <2>4. t # DP
    BY <1>16, <1>17, <2>3
  <2> QED  BY <2>2, <2>4 DEF UndoOrder, DP
<1>20. Rooted /\ Enforcing(daemon') /\ ~Detaching => ~Accepts(postfix.main)
  BY <1>11, <1>12, ForwardClosed
<1> HIDE DEF DP, o
<1>21. /\ Switching' /\ EndsWith(work'.todo, "mark")
       /\ work'.source = [backups'[work'.dir].before EXCEPT !.config = Recovery']
       /\ work'.installs /\ work'.restarts
       /\ Ahead("main")' \/ files'.main = Start'.main
       /\ Ahead("master")' \/ files'.master = Start'.master
       /\ Ahead("reload")' \/ postfix' = work'.was.postfix
       /\ Ahead("restart")' => Ahead("config")' \/ files'.config = Recovery'
       /\ \/ Ahead("restart")' \/ Foreign(daemon')
          \/ daemon' = work'.was.daemon \/ daemon' = [config |-> Recovery', by |-> "installer"]
  BY <1>4, <1>5, <1>6, <1>7, <1>8, <1>9, <1>10, <1>13
<1>22. \E q \in Parts :
         /\ Ranked(q, work'.todo)
         /\ Rooted' /\ Ahead("reload")' /\ Enforcing(daemon') /\ Accepts(Start'.main) =>
              Detaching' \/ (Ahead("restart")' /\ q = "daemon")
         /\ Rooted' /\ Ahead("restart")' /\ FailureAction[Recovery'] = "tempfail" /\ Accepts(postfix'.main) =>
              Ahead("reload")' /\ q = "postfix"
  BY <1>2, <1>4, <1>7, <1>15, <1>18, <1>19
<1>23. Rooted' /\ Enforcing(daemon') /\ ~Detaching' => ~Accepts(postfix'.main)
  BY <1>15, <1>20
<1> QED  BY <1>21, <1>22, <1>23 DEF Undoing, Enforcing, Accepts, Foreign

\* A step fails, before the switch, in it, or as a failed run is marked.
LEMMA FailSound ==
  ASSUME Sole, TypeInv, TypeInv', StartInv, KeptInv, FilesInv, HostInv, StepFails
  PROVE  FilesInv' /\ HostInv'
<1> DEFINE ends == [work EXCEPT !.todo = <<>>]
<1>1. /\ lock # "none" /\ (work.outcome = "forward" \/ Head(work.todo) = "mark")
      /\ DaemonAfterFailure /\ UNCHANGED <<files, postfix, backups, crashes>>
      /\ Continue(IF Switching /\ Head(work.todo) # "mark" THEN Undo ELSE ends)
  BY DEF StepFails, At
<1>2. DOMAIN work = DOMAIN NoWork /\ work.todo \in Seq(Steps) /\ work.todo # <<>>
  BY <1>1, KeptUnfolds
<1>3. Records' = Records /\ \A i \in Records : backups'[i] = backups[i]
  BY <1>1 DEF Records
<1>4. crashes' \in Nat /\ crashes' = crashes
  BY <1>1 DEF HostInv
<1>5. Head(work.todo) = "mark" => work.outcome # "forward"
  <2>1. 1 \in DOMAIN work.todo /\ Head(work.todo) = work.todo[1]
    BY <1>2
  <2> QED  BY <1>1, <2>1 DEF FilesInv, Forward, Ahead, Among
<1>6. CASE ~(Switching /\ Head(work.todo) # "mark")
  <2>1. ends.todo = <<>>
    BY <1>2 DEF NoWork
  <2>2. lock' = "none" /\ plan' = [plan EXCEPT ![lock] = NoPlan]
    BY <1>1, <1>6, <2>1 DEF Continue
  <2>3. ASSUME crashes = 0
        PROVE  /\ postfix = PostfixFiles(files) /\ OfActive(daemon)
               /\ Rooted => files.main.action = ActionAtRest
    <3>1. CASE Head(work.todo) = "mark"
      BY <1>1, <1>5, <2>3, <3>1, UndoneIsRest DEF FilesInv, HostInv, Working
    <3>2. CASE Head(work.todo) # "mark"
      <4>1. work.outcome = "forward" /\ ~Switching /\ Start = files
        BY <1>1, <1>6, <3>2 DEF Start
      <4>2. StartSound /\ postfix = work.was.postfix /\ (Foreign(daemon) \/ daemon = work.was.daemon)
        BY <1>1, <2>3, <4>1 DEF HostInv, Working, HostSwitched
      <4> QED  BY <4>1, <4>2 DEF StartSound, Foreign, OfActive
    <3> QED  BY <3>1, <3>2
  <2>4. daemon' = daemon
    <3>1. "restart" \in SwitchSteps
      BY DEF SwitchSteps
    <3>2. Head(work.todo) # "restart"
      BY <1>1, <1>6, <3>1, KeptUnfolds
    <3> QED  BY <1>1, <3>2 DEF DaemonAfterFailure, At
  <2> QED  BY <1>1, <1>3, <1>4, <2>2, <2>3, <2>4, EndSound
<1>7. CASE Switching /\ Head(work.todo) # "mark"
  <2> DEFINE v == Starting(work)
             t == v.undo
  <2>1. work.outcome = "forward" /\ Continue(Undo)
    BY <1>1, <1>7
  <2>2. /\ DOMAIN v = DOMAIN NoWork /\ v.dir = work.dir /\ v.kind = work.kind /\ v.was = work.was
    BY <1>2 DEF Starting, NoWork
  <2> HIDE DEF v
  <2>3. /\ Undo.todo = t \o <<"mark">> /\ Undo.dir = work.dir /\ Undo.kind = work.kind /\ Undo.was = work.was
        /\ Undo.installs = TRUE /\ Undo.restarts = TRUE /\ Undo.outcome = "undo" /\ DOMAIN Undo = DOMAIN NoWork
        /\ Undo.source = [backups[work.dir].before EXCEPT !.config = Recovery]
    BY <2>2 DEF Undo, NoWork, v
  <2>4. Undo.todo # <<>>
    <3>1. t \in Both
      BY <1>1, <2>1, StartingFits DEF v
    <3> QED  BY <2>3, <3>1, UndoProgram, UndoInOrder
  <2>5. lock' = lock /\ plan' = plan /\ work' = Undo
    BY <2>1, <2>4 DEF Continue
  <2>6. Carried
    BY <1>1, <1>3, <2>5, CarriesOn DEF TypeInv
  <2>7. Start' = Start
    BY <1>1, <2>3, <2>5 DEF Start, Switching
  <2>8. RecordsSound' /\ \A r \in Runs : (PlanFits(r))' /\ (PlanSound(r))'
    BY <2>6, CarriedSame, PlansCarry DEF FilesInv
  <2>9. ASSUME crashes = 0 PROVE Working'
    <3>1. StartSound /\ HostSwitched /\ UndoSound
      BY <1>1, <2>1, <2>9 DEF HostInv, Working
    <3>2. Op = "rollback" => plan[lock].record = Active
      BY <1>1 DEF FilesInv, PlanFits, TypeInv, HistoryInv, Shape, Op
    <3>3. StartSound'
      BY <2>3, <2>5, <2>6, <2>7, <3>1, <3>2, StartMoves
    <3>4. Undoing'
      BY <1>1, <1>7, <2>1, <2>3, <2>5, <2>6, <2>7, <3>1, UndoBegins DEF v
    <3> QED  BY <2>3, <2>5, <3>3, <3>4 DEF Working
  <2>10. Forward' /\ (RestSound)'
    BY <1>1, <2>3, <2>5 DEF Forward, RestSound
  <2> QED  BY <1>4, <2>8, <2>9, <2>10 DEF FilesInv, HostInv
<1> QED  BY <1>6, <1>7

\* A run is killed, or its undo fails: what it leaves is left out from then on.
LEMMA CrashSound ==
  ASSUME Sole, TypeInv, TypeInv', KeptInv, FilesInv, HostInv, RecoveryFails \/ Crash
  PROVE  FilesInv' /\ HostInv'
<1>1. /\ lock # "none" /\ UNCHANGED <<files, postfix, backups>>
      /\ crashes' = crashes + 1 /\ crashes \in Nat
  BY DEF RecoveryFails, Crash, HostInv
<1>2. crashes' \in Nat /\ crashes' # 0
  BY <1>1
<1>3. DOMAIN work = DOMAIN NoWork
  BY <1>1, KeptUnfolds
<1>4. Records' = Records /\ \A i \in Records : backups'[i] = backups[i]
  BY <1>1 DEF Records
<1>5. CASE Crash
  <2>1. lock' = "none" /\ plan' = [plan EXCEPT ![lock] = NoPlan]
    BY <1>3, <1>5 DEF Crash, Continue, NoWork
  <2> QED  BY <1>1, <1>2, <1>4, <2>1, EndSound
<1>6. CASE RecoveryFails
  <2> DEFINE w == [work EXCEPT !.todo = <<"mark">>, !.outcome = "stuck"]
  <2>1. w.todo = <<"mark">> /\ w.outcome = "stuck" /\ Continue(w)
    BY <1>3, <1>6 DEF NoWork, RecoveryFails
  <2> HIDE DEF w
  <2>2. lock' = lock /\ plan' = plan /\ work' = w
    BY <2>1 DEF Continue
  <2>3. Carried
    BY <1>1, <1>4, <2>2, CarriesOn DEF TypeInv
  <2>4. RecordsSound' /\ \A r \in Runs : (PlanFits(r))'
    BY <2>3, CarriedSame, PlansCarry DEF FilesInv
  <2>5. Forward'
    BY <2>1, <2>2 DEF Forward
  <2> QED  BY <1>2, <2>4, <2>5 DEF FilesInv, HostInv
<1> QED  BY <1>5, <1>6

\* A run takes the lock, for what it planned: for p and d, the parts of its switch, in
\* the order o.
Planned(r, source, installs, p, d, o) ==
  /\ plan[r].op \in {"apply", "rollback"}
  /\ o = IF files.main.action = "accept" /\ source.main.action = "tempfail" THEN "postfix" ELSE "daemon"
  /\ ~p => source.main = files.main /\ source.master = files.master
  /\ ~installs => source.config = files.config
  /\ ~d => ~installs /\ ~plan[r].restart
  /\ plan[r].op = "apply" => source.main.action = FailureAction[source.config]
  /\ plan[r].op = "rollback" => source = Target(plan[r]).files /\ files = backups[Active].state
  /\ crashes = 0 /\ ~plan[r].restart => Foreign(daemon) \/ daemon.config = source.config

\* A run that takes the lock for such a plan starts from a host at rest.
LEMMA BeginsSound ==
  ASSUME Sole, TypeInv, TypeInv', FilesInv, HostInv, NEW r \in Runs, NEW todo, NEW source, NEW installs,
         NEW expected, NEW p, NEW d, NEW o, Take(r, todo, source, installs, expected),
         Program(o, todo, p, d), Planned(r, source, installs, p, d, o)
  PROVE  FilesInv' /\ HostInv'
<1>0. /\ plan[r].op \in {"apply", "rollback"}
      /\ o = IF files.main.action = "accept" /\ source.main.action = "tempfail" THEN "postfix" ELSE "daemon"
      /\ ~p => source.main = files.main /\ source.master = files.master
      /\ ~installs => source.config = files.config
      /\ ~d => ~installs /\ ~plan[r].restart
      /\ plan[r].op = "apply" => source.main.action = FailureAction[source.config]
      /\ plan[r].op = "rollback" => source = Target(plan[r]).files /\ files = backups[Active].state
      /\ crashes = 0 /\ ~plan[r].restart => Foreign(daemon) \/ daemon.config = source.config
  BY DEF Planned
<1>1. /\ lock = "none" /\ lock' = r /\ r # "none"
      /\ UNCHANGED <<files, postfix, daemon, backups, plan, crashes>>
      /\ work'.todo = todo /\ work'.source = source /\ work'.undo = <<>> /\ work'.dir = 0
      /\ work'.kind = "none" /\ work'.outcome = "forward" /\ work'.installs = installs
      /\ work'.restarts = plan[r].restart /\ work'.was = [postfix |-> postfix, daemon |-> daemon]
  BY ActivationAssumption DEF Take, NoWork
<1>2. Records' = Records /\ Active' = Active /\ Op' = plan[r].op /\ Target(plan[lock])' = Target(plan[r])
      /\ ~Switching' /\ Start' = files
  BY <1>1 DEF Records, Active, Op, Target, Switching, Start
<1>3. /\ Holds(todo, p, d) /\ ~Among("mark", todo) /\ Among("new", todo) /\ Head(todo) \in {"root", "new"}
      /\ EndsWith(todo, "manifest")
  BY DEF Program
<1>4. /\ \A x \in {"main", "master", "reload"} : Ahead(x)' <=> p
      /\ \A x \in {"config", "restart"} : Ahead(x)' <=> d
      /\ Ahead("new")' /\ ~Ahead("mark")'
  BY <1>1, <1>3 DEF Ahead, Holds
<1>5. Ranked(First', work'.todo)
  BY <1>0, <1>1, <1>2 DEF Program, First, Stricter
<1>6. SourceSound'
  BY <1>0, <1>1, <1>2 DEF SourceSound
<1>7. FilesSwitched'
  BY <1>0, <1>1, <1>2, <1>4 DEF FilesSwitched
<1>8. FillSound'
  BY <1>0, <1>1, <1>2, <1>3, <1>4 DEF FillSound
<1>9. Forward'
  BY <1>1, <1>3, <1>4, <1>5, <1>6, <1>7, <1>8 DEF Forward
<1>10. RecordsSound'
  BY <1>1, <1>2 DEF FilesInv, RecordsSound
<1>11. ASSUME NEW s \in Runs PROVE (PlanFits(s))' /\ (PlanSound(s))'
  <2>1. PlanFits(s)
    BY DEF FilesInv
  <2> QED  BY <1>1, <1>2, <2>1 DEF PlanFits, PlanSound, Target
<1>12. ASSUME crashes = 0 PROVE Working'
  <2>1. postfix = PostfixFiles(files) /\ (Rooted => files.main.action = ActionAtRest) /\ OfActive(daemon)
    BY <1>1, <1>12 DEF HostInv, RestSound
  <2>2. daemon \in Daemons
    BY DEF TypeInv, HostTyped
  <2>3. StartSound'
    <3>1. ActionAtRest' = ActionAtRest /\ (Activated' <=> Activated) /\ (Rooted' <=> Rooted)
      BY <1>1, <1>2 DEF ActionAtRest, Activated, Rooted
    <3>2. (OfActive(work.was.daemon))'
      BY <1>1, <1>2, <2>1, <3>1 DEF OfActive
    <3> QED  BY <1>0, <1>1, <1>2, <1>12, <2>1, <2>2, <3>1, <3>2 DEF StartSound, PostfixFiles
  <2>4. ~p => PostfixFiles(source) = PostfixFiles(files)
    BY <1>0 DEF PostfixFiles
  <2>5. HostSwitched'
    BY <1>0, <1>1, <1>2, <1>4, <1>12, <2>1, <2>4 DEF HostSwitched, PostfixFiles, Foreign
  <2>6. ~Among("main", <<>>) /\ ~Among("config", <<>>)
    BY PartsHold
  <2>7. UndoSound'
    BY <1>0, <1>1, <1>2, <1>4, <2>6 DEF UndoSound, PostfixFiles
  <2> QED  BY <1>1, <2>3, <2>5, <2>7 DEF Working
<1> QED  BY <1>1, <1>9, <1>10, <1>11, <1>12 DEF FilesInv, HostInv, RestSound

\* configure-postfix takes the lock.
LEMMA ApplyStarts ==
  ASSUME Sole, TypeInv, TypeInv', FilesInv, HostInv, PlansMeant, NEW r \in Runs, Apply(r)
  PROVE  FilesInv' /\ HostInv'
<1> DEFINE source == StagedSource(plan[r])
<1>1. plan[r].op = "apply" /\ files = plan[r].inspected
  BY ApplyBegins
<1>a. /\ plan[r].staged.config = files.config
      /\ plan[r].staged.main.action = FailureAction[files.config]
      /\ ~plan[r].diff => files.main.action = FailureAction[files.config]
  BY <1>1 DEF PlansMeant, PlanMeant
<1>3. /\ source.config = files.config /\ source.main.action = FailureAction[source.config]
      /\ ~plan[r].diff => source = files
      /\ source.main.action = plan[r].staged.main.action
  BY <1>a DEF StagedSource
<1>2. PICK todo, p, d, o :
        /\ Take(r, todo, source, FALSE, plan[r].inspected.config)
        /\ p = plan[r].diff /\ d = plan[r].restart
        /\ o = IF files.main.action = "accept" /\ source.main.action = "tempfail" THEN "postfix" ELSE "daemon"
        /\ Program(o, todo, p, d)
  BY <1>1, <1>3, ApplyBegins
<1>4. crashes = 0 /\ ~plan[r].restart => Foreign(daemon) \/ daemon.config = source.config
  BY <1>1, <1>2, <1>3 DEF HostInv, PlanSound, Take
<1>5. p = plan[r].diff /\ d = plan[r].restart
  BY <1>2
<1> HIDE DEF source
<1>6. (~p => source.main = files.main /\ source.master = files.master) /\ (~d => ~plan[r].restart)
  BY <1>3, <1>5
<1>7. Planned(r, source, FALSE, p, d, o)
  BY <1>1, <1>2, <1>3, <1>4, <1>6 DEF Planned
<1> QED  BY <1>2, <1>7, BeginsSound

\* rollback takes the lock.
LEMMA RollbackStarts ==
  ASSUME Sole, TypeInv, TypeInv', FilesInv, HostInv, NEW r \in Runs, Rollback(r)
  PROVE  FilesInv' /\ HostInv'
<1> DEFINE source == Target(plan[r]).files
           changes == plan[r].changes
<1>1. plan[r].op = "rollback" /\ files = backups[plan[r].record].state
  BY RollbackBegins DEF Unchanged, Sole
<1>2. plan[r].record = Active /\ changes = {n \in DOMAIN NoFiles : source[n] # backups[Active].state[n]}
  BY <1>1 DEF FilesInv, PlanFits
<1>3. backups[plan[r].record].predecessor \in Records
  BY <1>1 DEF TypeInv, HistoryInv, PlansRecords, HistoryWellFounded
<1>4. Target(plan[r]).state = source
  BY <1>3 DEF FilesInv, RecordsSound, Target
<1> DEFINE ins == "config" \in changes
<1>5. PICK todo, p, d, expected, o :
        /\ Take(r, todo, source, ins, expected)
        /\ p = ({"main", "master"} \cap changes # {})
        /\ d = ("config" \in changes \/ plan[r].restart)
        /\ o = IF files.main.action = "accept" /\ source.main.action = "tempfail" THEN "postfix" ELSE "daemon"
        /\ Program(o, todo, p, d)
  BY <1>4, RollbackBegins
<1>6. /\ "main" \notin changes => source.main = files.main
      /\ "master" \notin changes => source.master = files.master
      /\ "config" \notin changes => source.config = files.config
  BY <1>1, <1>2 DEF NoFiles, Files
<1>7. crashes = 0 /\ ~plan[r].restart => Foreign(daemon) \/ daemon.config = source.config
  BY <1>1, <1>4, <1>5 DEF HostInv, PlanSound, Take
<1>8. files = backups[Active].state
  BY <1>1, <1>2
<1> HIDE DEF source, changes
<1>9. ~p => source.main = files.main /\ source.master = files.master
  BY <1>5, <1>6
<1>10. ~d => "config" \notin changes /\ ~plan[r].restart
  BY <1>5
<1>11. source = Target(plan[r]).files
  BY DEF source
<1>13. (~ins => source.config = files.config) /\ (~d => ~ins /\ ~plan[r].restart)
  BY <1>6, <1>10
<1>14. /\ Take(r, todo, source, ins, expected)
       /\ o = IF files.main.action = "accept" /\ source.main.action = "tempfail" THEN "postfix" ELSE "daemon"
       /\ Program(o, todo, p, d)
  BY <1>5
<1> HIDE DEF ins
<1>12. Planned(r, source, ins, p, d, o)
  <2>4. plan[r].op = "apply" => source.main.action = FailureAction[source.config]
    BY <1>1
  <2> QED  BY <1>1, <1>7, <1>8, <1>9, <1>11, <1>13, <1>14, <2>4 DEF Planned
<1> QED  BY <1>14, <1>12, BeginsSound

\* While no run holds the lock, the host stays at rest and the plans stay sound.
LEMMA RestStays ==
  ASSUME FilesInv, HostInv, lock = "none", UNCHANGED <<backups, lock, crashes>>,
         \A r \in Runs : (PlanFits(r))',
         crashes = 0 =>
           /\ \A r \in Runs : (PlanSound(r))'
           /\ postfix' = PostfixFiles(files') /\ (Rooted => files'.main.action = ActionAtRest)
           /\ OfActive(daemon')
  PROVE  FilesInv' /\ HostInv'
<1>1. Records' = Records /\ Active' = Active
  BY DEF Records, Active
<1>2. RecordsSound'
  BY <1>1 DEF FilesInv, RecordsSound
<1>3. (ActionAtRest' = ActionAtRest) /\ (Activated' <=> Activated)
  BY <1>1 DEF ActionAtRest, Activated
<1>4. crashes = 0 => (OfActive(daemon))'
  BY <1>1, <1>3 DEF OfActive
<1>5. Forward' /\ Working'
  BY DEF Forward, Working
<1>6. crashes = 0 => RestSound'
  BY <1>1, <1>3, <1>4 DEF RestSound, PostfixFiles, Rooted
<1> QED  BY <1>2, <1>5, <1>6 DEF FilesInv, HostInv

\* Plans are made and withdrawn only while no run holds the lock, as there is one run.
LEMMA PlanningSound ==
  ASSUME Sole, TypeInv, TypeInv', FilesInv, HostInv, NEW r \in Runs,
         Inspect(r) \/ PlanApply(r) \/ PlanRollback(r) \/ Withdraw(r)
  PROVE  FilesInv' /\ HostInv'
<1>1. lock = "none" /\ UNCHANGED <<files, postfix, daemon, backups, lock, crashes>>
  <2>1. lock # "none" => r = lock /\ plan[r] # NoPlan /\ Op \in {"apply", "rollback"}
    BY SoleRun DEF TypeInv, WorkTyped, WorkShape
  <2> QED  BY <2>1 DEF Inspect, PlanApply, PlanRollback, Withdraw, Op
<1>2. \A s \in Runs : s = r
  BY DEF Sole
<1>3. DOMAIN plan = Runs /\ Records' = Records /\ Active' = Active
      /\ DOMAIN files = DOMAIN NoFiles
  BY <1>1 DEF TypeInv, HistoryInv, Shape, HostTyped, HostFiles, Records, Active, NoFiles, Files
<1>4. CASE Inspect(r)
  <2>1. /\ plan'[r].op = "inspected" /\ plan'[r].inspected = files
        /\ plan'[r].restart = (daemon.config # files.config) /\ daemon # Down
    BY <1>3, <1>4 DEF Inspect, Inspected, NoPlan
  <2>2. (PlanFits(r))' /\ (PlanSound(r))'
    BY <1>1, <2>1 DEF PlanFits, PlanSound
  <2> QED  BY <1>1, <1>2, <2>2, RestStays DEF HostInv, RestSound
<1>7. CASE PlanApply(r)
  <2>1. /\ plan'[r].op = "apply" /\ plan'[r].inspected = plan[r].inspected
        /\ plan'[r].restart = plan[r].restart /\ plan[r].op = "inspected"
    BY <1>3, <1>7 DEF PlanApply, StagedPlan, NoPlan
  <2>2. (PlanFits(r))'
    BY <2>1 DEF PlanFits
  <2>3. crashes = 0 => (PlanSound(r))'
    BY <1>1, <2>1 DEF PlanSound, HostInv, Foreign
  <2> QED  BY <1>1, <1>2, <2>2, <2>3, RestStays DEF HostInv, RestSound
<1>5. CASE PlanRollback(r)
  <2>1. /\ plan'[r].op = "rollback" /\ plan'[r].record = Active
        /\ plan'[r].changes = {n \in DOMAIN files : Target(plan'[r]).files[n] # files[n]}
        /\ plan'[r].restart = (daemon.config # Target(plan'[r]).state.config)
        /\ Unchanged(Active)
    BY <1>3, <1>5 DEF PlanRollback, NoPlan, Target
  <2>2. Target(plan[r])' = Target(plan'[r]) /\ files = backups[Active].state
    BY <1>1, <2>1 DEF Target, Unchanged, Sole
  <2>3. (PlanFits(r))'
    BY <1>1, <1>3, <2>1, <2>2 DEF PlanFits
  <2>4. (PlanSound(r))'
    BY <1>1, <2>1, <2>2 DEF PlanSound
  <2> QED  BY <1>1, <1>2, <2>3, <2>4, RestStays DEF HostInv, RestSound
<1>6. CASE Withdraw(r)
  <2>1. plan'[r].op = "none"
    BY <1>3, <1>6 DEF Withdraw, NoPlan
  <2>2. (PlanFits(r))' /\ (PlanSound(r))'
    BY <2>1 DEF PlanFits, PlanSound
  <2> QED  BY <1>1, <1>2, <2>2, RestStays DEF HostInv, RestSound
<1> QED  BY <1>4, <1>5, <1>6, <1>7

\* A daemon that somebody restarts, also while a run works, is one of which nothing is said.
LEMMA RestartIsForeign ==
  ASSUME FilesInv, HostInv, HandRestarts, RestartByHand
  PROVE  FilesInv' /\ HostInv'
<1>1. UNCHANGED <<files, postfix, backups, lock, plan, work, crashes>> /\ daemon'.by = "hand"
  BY DEF RestartByHand
<1>2. FilesInv' <=> FilesInv
  BY <1>1 DEF FilesInv, RecordsSound, Forward, PlanFits, Records, Active, Target, First, Stricter,
              Start, Switching, Ahead, SourceSound, FilesSwitched, FillSound, Op
<1>3. /\ Records' = Records /\ Active' = Active /\ (Switching' <=> Switching) /\ Op' = Op
      /\ Start' = Start /\ ActionAtRest' = ActionAtRest /\ (Rooted' <=> Rooted) /\ Recovery' = Recovery
      /\ (Activated' <=> Activated) /\ (Detaching' <=> Detaching) /\ (Stricter' <=> Stricter)
      /\ \A x : Ahead(x)' <=> Ahead(x)
  BY <1>1 DEF Records, Active, Switching, Op, Start, ActionAtRest, Rooted, Recovery, Activated,
              Detaching, Stricter, Ahead
<1>4. Foreign(daemon') /\ ~Enforcing(daemon') /\ (Foreign(daemon))' /\ ~Enforcing(daemon)' /\ daemon' # Down
  BY <1>1 DEF Foreign, Enforcing, Down
<1>5. ASSUME RestSound PROVE RestSound'
  BY <1>1, <1>3, <1>4, <1>5 DEF RestSound, OfActive, PostfixFiles, Foreign
<1>6. ASSUME NEW r \in Runs, PlanSound(r) PROVE (PlanSound(r))'
  BY <1>1, <1>4, <1>6 DEF PlanSound
<1>7. ASSUME StartSound PROVE StartSound'
  BY <1>1, <1>3, <1>7 DEF StartSound, OfActive, PostfixFiles
<1>8. ASSUME HostSwitched PROVE HostSwitched'
  BY <1>1, <1>3, <1>4, <1>8 DEF HostSwitched, PostfixFiles, Foreign
<1>9. ASSUME UndoSound PROVE UndoSound'
  BY <1>1, <1>3, <1>4, <1>9 DEF UndoSound, PostfixFiles
<1>10. ASSUME Undoing PROVE Undoing'
  BY <1>1, <1>3, <1>4, <1>10 DEF Undoing
<1>11. ASSUME Working PROVE Working'
  BY <1>1, <1>7, <1>8, <1>9, <1>10, <1>11 DEF Working
<1> QED  BY <1>1, <1>2, <1>5, <1>6, <1>11 DEF HostInv

\* Nor do administrators edit, or systemd restart, while a run holds the lock.
LEMMA HandsOff ==
  ASSUME Sole, TypeInv, TypeInv', FilesInv, HostInv,
         \/ \E config \in Configs : EditConfig(config)
         \/ EditMain \/ (RestartByHand /\ ~HandRestarts)
  PROVE  FilesInv' /\ HostInv'
<1>1. lock = "none" /\ UNCHANGED <<backups, lock, plan, crashes>>
  BY DEF EditConfig, EditMain, RestartByHand, Sole
<1>2. Records' = Records /\ Active' = Active /\ \A r \in Runs : Target(plan[r])' = Target(plan[r])
  BY <1>1 DEF Records, Active, Target
<1>3. ASSUME NEW r \in Runs PROVE (PlanFits(r))'
  <2>1. PlanFits(r)
    BY DEF FilesInv
  <2> QED  BY <1>1, <1>2, <2>1 DEF PlanFits
<1>4. \A r \in Runs : (PlanFits(r))'
  BY <1>3
<1>5. crashes = 0 => RestSound /\ \A r \in Runs : PlanSound(r)
  BY DEF HostInv
<1>6. ASSUME daemon' = daemon, crashes = 0, NEW r \in Runs PROVE (PlanSound(r))'
  <2>1. PlanSound(r)
    BY <1>5, <1>6
  <2> QED  BY <1>1, <1>2, <1>6, <2>1 DEF PlanSound
<1>7. DOMAIN files = {"config", "main", "master"} /\ DOMAIN files' = DOMAIN files
  BY DEF TypeInv, HostTyped, HostFiles
<1>8. CASE \E config \in Configs : EditConfig(config)
  <2>1. daemon' = daemon /\ postfix' = postfix /\ files'.main = files.main /\ files'.master = files.master
    BY <1>7, <1>8 DEF EditConfig
  <2> QED  BY <1>1, <1>4, <1>5, <1>6, <2>1, RestStays DEF RestSound, PostfixFiles
<1>9. CASE EditMain
  <2>1. daemon' = daemon /\ postfix' = PostfixFiles(files') /\ files'.main.action = files.main.action
    BY <1>7, <1>9 DEF EditMain, Main
  <2> QED  BY <1>1, <1>4, <1>5, <1>6, <2>1, RestStays DEF RestSound
<1>10. CASE RestartByHand /\ ~HandRestarts
  <2>1. daemon = Down /\ UNCHANGED <<files, postfix>> /\ daemon'.by = "hand"
    BY <1>10 DEF RestartByHand, Sole
  <2>2. ASSUME crashes = 0, NEW r \in Runs PROVE (PlanSound(r))'
    <3>1. PlanSound(r)
      BY <1>5, <2>2
    <3>2. plan[r].op = "rollback" => Target(plan[r]).state.config # "down"
      <4>1. ASSUME plan[r].op = "rollback"
            PROVE  plan[r].record \in Records /\ backups[plan[r].record].predecessor \in Records
        BY <4>1 DEF TypeInv, HistoryInv, PlansRecords, HistoryWellFounded
      <4>2. \A i \in Records : backups[i].state = backups[i].files /\ backups[i].files \in HostFiles
        BY DEF FilesInv, RecordsSound, TypeInv, CopiesTyped
      <4> QED  BY <4>1, <4>2, ActivationAssumption DEF Target, HostFiles
    <3> QED  BY <1>1, <1>2, <1>10, <2>1, <3>1, <3>2 DEF PlanSound, Down, Foreign
  <2>3. OfActive(daemon')
    BY <2>1 DEF OfActive
  <2> QED  BY <1>1, <1>4, <1>5, <2>1, <2>2, <2>3, RestStays DEF RestSound
<1> QED  BY <1>8, <1>9, <1>10

\* Nobody but the only run changes what was inspected, but for the edit of main.cf.
LEMMA MeantStep ==
  ASSUME Sole, TypeInv, PlansMeant, [Next]_vars
  PROVE  PlansMeant'
<1> SUFFICES ASSUME NEW r \in Runs PROVE PlanMeant(r)'
  BY DEF PlansMeant
<1>1. Shape /\ DOMAIN plan = Runs
  BY DEF TypeInv, HistoryInv, Shape
<1>2. CASE plan'[r] = NoPlan
  BY <1>2 DEF PlanMeant, NoPlan
<1>3. CASE plan'[r] = plan[r]
  <2>1. ASSUME plan[r].op = "inspected" PROVE files'.main.action = files.main.action
    <3>1. lock = "none"
      <4>1. lock # "none" => r = lock /\ Op \in {"apply", "rollback"}
        BY SoleRun DEF TypeInv, WorkTyped, WorkShape
      <4> QED  BY <2>1, <4>1 DEF Op
    <3>2. files \in HostFiles
      BY DEF TypeInv, HostTyped
    <3>3. CASE EditMain
      BY <3>2, <3>3 DEF EditMain, Main, HostFiles
    <3>4. CASE \E config \in Configs : EditConfig(config)
      BY <3>2, <3>4 DEF EditConfig, HostFiles
    <3>5. CASE \E q \in Runs : Inspect(q) \/ PlanApply(q) \/ PlanRollback(q) \/ Withdraw(q)
      BY <3>5 DEF Inspect, PlanApply, PlanRollback, Withdraw
    <3>6. CASE \E q \in Runs : Apply(q) \/ Rollback(q)
      BY <3>6 DEF Apply, Rollback, Take
    <3>7. CASE RestartByHand \/ UNCHANGED vars
      BY <3>7 DEF RestartByHand, vars
    <3>8. CASE \/ NewRoot \/ NewAttempt \/ SaveBefore \/ CopyRecord \/ WriteManifest \/ MarkFailed
               \/ \E name \in {"config", "main", "master"} : Install(name)
               \/ ReloadPostfix \/ RestartDaemon \/ VerifyConfig \/ StepFails \/ RecoveryFails \/ Crash
      BY <3>1, <3>8 DEF NewRoot, NewAttempt, SaveBefore, CopyRecord, Filing, WriteManifest, MarkFailed, Install,
           ReloadPostfix, RestartDaemon, VerifyConfig, StepFails, RecoveryFails, Crash, At
    <3> QED  BY <3>3, <3>4, <3>5, <3>6, <3>7, <3>8 DEF Next
  <2>2. PlanMeant(r)
    BY DEF PlansMeant
  <2> QED  BY <1>3, <2>1, <2>2 DEF PlanMeant
<1>4. CASE Inspect(r)
  <2>1. plan'[r].op = "inspected" /\ plan'[r].inspected = files /\ files' = files
    BY <1>1, <1>4 DEF Inspect, Inspected, NoPlan
  <2> QED  BY <2>1 DEF PlanMeant
<1>5. CASE PlanRollback(r)
  <2>1. plan'[r].op = "rollback"
    BY <1>1, <1>5 DEF PlanRollback, NoPlan
  <2> QED  BY <2>1 DEF PlanMeant
<1>6. CASE PlanApply(r)
  <2>1. /\ plan'[r].op = "apply" /\ plan'[r].inspected = plan[r].inspected
        /\ plan'[r].staged = Staged(plan[r]) /\ plan[r].op = "inspected"
        /\ plan'[r].diff = (PostfixFiles(Staged(plan[r])) # PostfixFiles(files))
    BY <1>1, <1>6 DEF PlanApply, StagedPlan, NoPlan
  <2>2. plan[r].inspected.main.action = files.main.action
    BY <2>1 DEF PlansMeant, PlanMeant
  <2>3. /\ Staged(plan[r]).config = plan[r].inspected.config
        /\ Staged(plan[r]).main.action = FailureAction[plan[r].inspected.config]
    BY DEF Staged, Files, Main
  <2>4. PostfixFiles(Staged(plan[r])) = PostfixFiles(files) => Staged(plan[r]).main = files.main
    BY DEF PostfixFiles
  <2> QED  BY <2>1, <2>2, <2>3, <2>4 DEF PlanMeant
<1> QED  BY <1>1, <1>2, <1>3, <1>4, <1>5, <1>6, PlansChange

\* At first the host is at rest.
LEMMA SoleInit == ASSUME Sole, Init PROVE FilesInv /\ HostInv
<1>1. /\ lock = "none" /\ backups = <<>> /\ crashes = 0 /\ postfix = PostfixFiles(files)
      /\ (~ByHand => files.main.action = "none") /\ daemon.by = "hand" /\ plan = [r \in Runs |-> NoPlan]
  BY DEF Init, Sole, Files, Main
<1>2. Records = {} /\ Active = 0
  BY <1>1 DEF Records, Active
<1>3. ASSUME NEW r \in Runs PROVE PlanFits(r) /\ PlanSound(r)
  BY <1>1 DEF PlanFits, PlanSound, NoPlan
<1>4. RestSound
  BY <1>1, <1>2 DEF RestSound, ActionAtRest, OfActive, Rooted
<1> QED  BY <1>1, <1>2, <1>3, <1>4 DEF FilesInv, RecordsSound, Forward, HostInv, Working

\* Every step keeps all this.
LEMMA SoleStep ==
  ASSUME Sole, TypeInv, TypeInv', StartInv, KeptInv, FilesInv, HostInv, PlansMeant, [Next]_vars
  PROVE  FilesInv' /\ HostInv'
<1>1. ASSUME NEW r \in Runs, Inspect(r) \/ PlanApply(r) \/ PlanRollback(r) \/ Withdraw(r) PROVE FilesInv' /\ HostInv'
  BY <1>1, PlanningSound
<1>2. ASSUME NEW r \in Runs, Apply(r) PROVE FilesInv' /\ HostInv'
  BY <1>2, ApplyStarts
<1>3. ASSUME NEW r \in Runs, Rollback(r) PROVE FilesInv' /\ HostInv'
  BY <1>3, RollbackStarts
<1>4. CASE NewRoot \/ NewAttempt
  BY <1>4, BeginSound
<1>5. CASE \/ SaveBefore \/ CopyRecord \/ VerifyConfig \/ ReloadPostfix \/ RestartDaemon
           \/ \E name \in {"config", "main", "master"} : Install(name)
  <2>1. Moves
    BY <1>5, StepsMove
  <2> QED  BY <2>1, MoveSound
<1>6. CASE WriteManifest
  BY <1>6, RecordSound
<1>7. CASE MarkFailed
  BY <1>7, MarkSound
<1>8. CASE StepFails
  BY <1>8, FailSound
<1>9. CASE RecoveryFails \/ Crash
  BY <1>9, CrashSound
<1>10. CASE (\E config \in Configs : EditConfig(config)) \/ EditMain \/ RestartByHand
  BY <1>10, HandsOff, RestartIsForeign
<1>11. CASE UNCHANGED vars
  <2>1. /\ Records' = Records /\ Active' = Active /\ (Switching' <=> Switching) /\ Op' = Op
        /\ Target(plan[lock])' = Target(plan[lock]) /\ Start' = Start
        /\ \A x : Ahead(x)' <=> Ahead(x)
    BY <1>11 DEF vars, Records, Active, Switching, Op, Target, Start, Ahead
  <2>2. FilesInv' <=> FilesInv
    BY <1>11 DEF vars, FilesInv, RecordsSound, Forward, PlanFits, Records, Active, Target, First, Stricter,
                 Start, Switching, Ahead, SourceSound, FilesSwitched, FillSound, Op
  <2>3. HostInv' <=> HostInv
    BY <1>11 DEF vars, HostInv, RestSound, Working, PlanSound, Records, Active, Target, ActionAtRest,
                 OfActive, Activated, StartSound, HostSwitched, UndoSound, Undoing, Stricter, Start,
                 Switching, Ahead, Op, Recovery, Detaching, PostfixFiles, Rooted, Foreign, Enforcing
  <2> QED  BY <2>2, <2>3
<1> QED
  BY <1>1, <1>2, <1>3, <1>4, <1>5, <1>6, <1>7, <1>8, <1>9, <1>10, <1>11 DEF Next

\* All of it, in every reachable state.
SoleInv == TypeInv /\ StartInv /\ PlansAttach /\ KeptInv /\ PlansMeant /\ FilesInv /\ HostInv

LEMMA SoleAlways == ASSUME Sole PROVE Spec => []SoleInv
<1>1. Init => SoleInv
  <2>1. ASSUME Init PROVE PlansMeant
    <3>1. plan = [r \in Runs |-> NoPlan]
      BY <2>1 DEF Init
    <3>2. \A r \in Runs : plan[r].op = "none"
      BY <3>1 DEF NoPlan
    <3> QED  BY <3>2 DEF PlansMeant, PlanMeant
  <2> QED  BY <2>1, InitTyped, StartInit, PlansAttachInit, InitKept, SoleInit DEF SoleInv
<1>2. ASSUME SoleInv, [Next]_vars PROVE SoleInv'
  <2>1. /\ TypeInv /\ HistoryInv /\ StartInv /\ PlansAttach /\ KeptInv /\ PlansMeant /\ FilesInv /\ HostInv
        /\ ~Forced /\ Meddling = {}
    BY <1>2 DEF SoleInv, TypeInv, Sole
  <2>2. TypeInv' /\ StartInv' /\ KeptInv'
    BY <1>2, <2>1, NextTyped, StartStep, NextKept
  <2>3. PlansAttach' /\ PlansMeant'
    BY <1>2, <2>1, PlansAttachStep, MeantStep
  <2>4. FilesInv' /\ HostInv'
    BY <1>2, <2>1, <2>2, SoleStep
  <2> QED  BY <2>2, <2>3, <2>4 DEF SoleInv
<1> QED  BY <1>1, <1>2, PTL DEF Spec

(* While the daemon enforces, as an installer run left it, Postfix does    *)
(* not accept mail on its failure: not at rest, not between any two steps  *)
(* of a switch, nor of the undo of one that failed, whichever order of the *)
(* parts switch() took.  One run at a time is made, every rollback checks  *)
(* the files, nobody edits under the lock, and only runs attach Postfix;   *)
(* the daemon is restarted by anybody at any time.                         *)
THEOREM RulesNeverOpen == ASSUME Sole, ~ByHand PROVE Spec => []NeverOpen
<1>1. SoleInv => NeverOpen
  <2> SUFFICES ASSUME SoleInv, crashes = 0, Enforcing(daemon), ~Detaching, postfix.main.action = "accept"
               PROVE  FALSE
    BY DEF NeverOpen, Enforcing
  <2>0. Rooted
    BY DEF Rooted
  <2>1. TypeInv /\ StartInv /\ KeptInv /\ FilesInv /\ RecordsSound /\ RestSound /\ Working
    BY DEF SoleInv, HostInv, FilesInv
  <2>2. CASE lock = "none"
    <3>1. ActionAtRest = "accept" /\ OfActive(daemon)
      BY <2>0, <2>1, <2>2 DEF RestSound, PostfixFiles
    <3>2. Activated /\ FailureAction[backups[Active].files.config] = "accept"
      BY <2>1, <3>1, AtRestAccepts
    <3> QED  BY <3>1, <3>2 DEF OfActive, Enforcing
  <2>3. CASE lock # "none" /\ work.outcome = "forward"
    <3>1. StartSound /\ HostSwitched /\ UndoSound
      BY <2>1, <2>3 DEF Working
    <3>2. MayRun(daemon)
      BY DEF MayRun
    <3> QED  BY <2>0, <2>1, <2>3, <3>1, <3>2, ForwardClosed DEF Accepts
  <2>4. CASE lock # "none" /\ work.outcome # "forward"
    BY <2>0, <2>1, <2>4 DEF Working, Undoing, Accepts
  <2> QED  BY <2>2, <2>3, <2>4
<1> QED  BY <1>1, SoleAlways, PTL

(* Every record of an activation or a rollback describes the host: as its  *)
(* manifest is written, its copies are the files on disk, the daemon runs  *)
(* them and Postfix has loaded them; an activation's failure action is the *)
(* one its configuration asks for.  One run at a time is made, and only    *)
(* runs restart a daemon that runs; Postfix may be attached by hand.       *)
THEOREM RecordIsOfHost == ASSUME Sole, ~HandRestarts PROVE Spec => RecordedMeansRunning
<1> DEFINE OfHost ==
      crashes = 0 /\ At("manifest") /\ (plan[lock].op = "apply" => work.kind = "activation") =>
        /\ backups[work.dir].files = files
        /\ daemon.config = files.config
        /\ postfix = PostfixFiles(files)
        /\ work.kind = "activation" => files.main.action = FailureAction[files.config]
<1>1. SoleInv => OfHost
  <2> SUFFICES ASSUME SoleInv, crashes = 0, lock # "none", Head(work.todo) = "manifest",
                      plan[lock].op = "apply" => work.kind = "activation"
               PROVE  /\ backups[work.dir].files = files
                      /\ daemon.config = files.config
                      /\ postfix = PostfixFiles(files)
                      /\ work.kind = "activation" => files.main.action = FailureAction[files.config]
    BY DEF At
  <2>1. TypeInv /\ KeptInv /\ FilesInv /\ Forward /\ Working
    BY DEF SoleInv, HostInv, FilesInv
  <2>2. work.outcome = "forward"
    BY <2>1, KeptUnfolds DEF SwitchSteps
  <2>3. FillSound /\ HostSwitched
    BY <2>1, <2>2 DEF Forward, Working
  <2>4. ~Ahead("new")
    BY <2>3 DEF FillSound, Op
  <2>5. ~Foreign(daemon)
    BY DEF Foreign
  <2> QED  BY <2>1, <2>3, <2>4, <2>5, SwitchIsWhole
<1> HIDE DEF OfHost
<1>2. SoleInv /\ [Next]_vars => [OfHost]_backups
  BY <1>1
<1>3. Spec => [][OfHost]_backups
  BY <1>2, SoleAlways, PTL DEF Spec
<1> QED  BY <1>3 DEF RecordedMeansRunning, OfHost

(* A run that fails in its switch restores what it found: as its directory *)
(* is marked failed, Postfix and its files are what they were, and so is   *)
(* the daemon that ran an activated configuration.  One run at a time is   *)
(* made, and only runs restart a daemon that runs; Postfix may have been   *)
(* attached by hand, and the undo itself ends.                             *)
THEOREM FailureIsUndone == ASSUME Sole, ~HandRestarts PROVE Spec => FailedRunRestores
<1> DEFINE Restored ==
      crashes = 0 /\ At("mark") /\ work.outcome = "undo" =>
        /\ postfix = work.was.postfix
        /\ PostfixFiles(files) = PostfixFiles(backups[work.dir].before)
        /\ work.was.daemon.by = "installer" /\ Active # 0 /\ backups[Active].kind = "activation" =>
             daemon = work.was.daemon
<1>1. SoleInv => Restored
  <2> SUFFICES ASSUME SoleInv, crashes = 0, lock # "none", Head(work.todo) = "mark", work.outcome = "undo"
               PROVE  /\ postfix = work.was.postfix
                      /\ PostfixFiles(files) = PostfixFiles(backups[work.dir].before)
                      /\ work.was.daemon.by = "installer" /\ Active # 0 /\ backups[Active].kind = "activation" =>
                           daemon = work.was.daemon
    BY DEF At
  <2>1. TypeInv /\ StartInv /\ KeptInv /\ RecordsSound /\ Working
    BY DEF SoleInv, HostInv, FilesInv
  <2>2. StartSound /\ Undoing
    BY <2>1 DEF Working
  <2>3. ~Foreign(daemon)
    BY DEF Foreign
  <2> QED  BY <2>1, <2>2, <2>3, UndoneIsRest DEF Activated
<1> HIDE DEF Restored
<1>2. SoleInv /\ [Next]_vars => [Restored]_backups
  BY <1>1
<1>3. Spec => [][Restored]_backups
  BY <1>2, SoleAlways, PTL DEF Spec
<1> QED  BY <1>3 DEF FailedRunRestores, Restored
-----------------------------------------------------------------------------
(* The history is a stack.                                               *)

\* What defines the chains of the directories b.
ChainsOf(f, b) ==
  f = [i \in 0..Len(b) |-> IF i = 0 THEN <<>> ELSE <<b[i].files>> \o f[b[i].predecessor]]

\* And is the only one that does.
Defines(f, b) == ChainsOf(f, b) /\ \A g : ChainsOf(g, b) => g = f

\* The chains end: every directory comes after the one it names.
ChainInv ==
  /\ \A i \in DOMAIN backups :
       backups[i].predecessor \in Records \cup {0} /\ backups[i].predecessor < i
  /\ \E f \in [0..Len(backups) -> Seq(FileSets)] : Defines(f, backups)

Chains == CHOOSE f : ChainsOf(f, backups)

\* So the chain of the active record is what the recursion says.
LEMMA ChainIsDefined ==
  ASSUME ChainInv
  PROVE  /\ Chain = Chains[Active] /\ Defines(Chains, backups)
         /\ Chains \in [0..Len(backups) -> Seq(FileSets)]
<1>1. PICK f \in [0..Len(backups) -> Seq(FileSets)] : Defines(f, backups)
  BY DEF ChainInv
<1>2. Chains = f
  BY <1>1 DEF Chains, Defines
<1> QED  BY <1>1, <1>2 DEF Chain, Chains, ChainsOf

\* A directory d that none names is added or changed: the other chains stay.
Follows(c, b, d, S, f) ==
  /\ Len(b) \in Nat /\ Len(c) \in Nat
  /\ d \in 1..Len(c) /\ 0..Len(c) = (0..Len(b)) \cup {d}
  /\ \A i \in 1..Len(b) : i # d => c[i] = b[i]
  /\ \A i \in 1..Len(b) : b[i].predecessor \in (0..Len(b)) \ {d}
  /\ c[d].predecessor \in (0..Len(b)) \ {d}
  /\ c[d].files \in S /\ f \in [0..Len(b) -> Seq(S)] /\ Defines(f, b)

LEMMA ChainsChange ==
  ASSUME NEW c, NEW b, NEW d, NEW S, NEW f, Follows(c, b, d, S, f)
  PROVE  \E h \in [0..Len(c) -> Seq(S)] :
           /\ Defines(h, c)
           /\ \A i \in 0..Len(b) : i # d => h[i] = f[i]
           /\ h[d] = <<c[d].files>> \o f[c[d].predecessor]
<1> USE DEF Follows
<1> DEFINE h == [i \in 0..Len(c) |-> IF i = d THEN <<c[d].files>> \o f[c[d].predecessor] ELSE f[i]]
<1>1. h \in [0..Len(c) -> Seq(S)]
  <2>1. f[c[d].predecessor] \in Seq(S) /\ <<c[d].files>> \in Seq(S)
    OBVIOUS
  <2>2. <<c[d].files>> \o f[c[d].predecessor] \in Seq(S)
    BY <2>1
  <2> QED  BY <2>2
<1>2. /\ \A i \in 0..Len(b) : i # d => h[i] = f[i]
      /\ h[d] = <<c[d].files>> \o f[c[d].predecessor] /\ DOMAIN h = 0..Len(c)
  OBVIOUS
<1>3. \A i \in 0..Len(b) : f[i] = IF i = 0 THEN <<>> ELSE <<b[i].files>> \o f[b[i].predecessor]
  BY DEF Defines, ChainsOf
<1>0. d # 0 /\ 0 \in 0..Len(b) /\ 0 \in 0..Len(c) /\ d \in 0..Len(c)
  OBVIOUS
<1>a. f[0] = <<>> /\ h[0] = f[0]
  BY <1>0, <1>2, <1>3
<1> HIDE DEF h
<1>4. ChainsOf(h, c)
  <2>1. ASSUME NEW i \in 0..Len(c)
        PROVE  h[i] = IF i = 0 THEN <<>> ELSE <<c[i].files>> \o h[c[i].predecessor]
    <3>1. CASE i = d
      BY <1>2, <3>1
    <3>2. CASE i = 0
      BY <1>a, <3>2
    <3>3. CASE i # d /\ i # 0
      <4>1. i \in 1..Len(b) /\ c[i] = b[i] /\ b[i].predecessor \in 0..Len(b) /\ b[i].predecessor # d
        BY <3>3
      <4>2. h[i] = f[i] /\ h[b[i].predecessor] = f[b[i].predecessor]
        BY <1>2, <3>3, <4>1
      <4> QED  BY <1>3, <3>3, <4>1, <4>2
    <3> QED  BY <3>1, <3>2, <3>3
  <2>2. h = [i \in 0..Len(c) |-> h[i]]
    BY <1>1
  <2> QED  BY <2>1, <2>2 DEF ChainsOf
<1>5. ASSUME NEW g, ChainsOf(g, c) PROVE g = h
  <2> DEFINE k == [i \in 0..Len(b) |-> IF i = d THEN <<b[d].files>> \o g[b[d].predecessor] ELSE g[i]]
  <2>1. /\ DOMAIN g = 0..Len(c) /\ g = [i \in 0..Len(c) |-> g[i]]
        /\ \A i \in 0..Len(c) : g[i] = IF i = 0 THEN <<>> ELSE <<c[i].files>> \o g[c[i].predecessor]
    BY <1>5 DEF ChainsOf
  <2>2. ASSUME NEW i \in 0..Len(b)
        PROVE  k[i] = IF i = 0 THEN <<>> ELSE <<b[i].files>> \o k[b[i].predecessor]
    <3>1. CASE i = 0
      <4>1. k[0] = g[0] /\ g[0] = <<>>
        BY <1>0, <2>1
      <4> QED  BY <3>1, <4>1
    <3>2. CASE i # 0
      <4>1. i \in 1..Len(b) /\ b[i].predecessor \in 0..Len(b) /\ b[i].predecessor # d
        BY <3>2
      <4>2. k[b[i].predecessor] = g[b[i].predecessor]
        BY <4>1
      <4>3. k[i] = IF i = d THEN <<b[d].files>> \o g[b[d].predecessor] ELSE g[i]
        OBVIOUS
      <4>4. i # d => c[i] = b[i]
        BY <4>1
      <4> HIDE DEF k
      <4>5. i # d => g[i] = <<b[i].files>> \o g[b[i].predecessor]
        BY <2>1, <3>2, <4>1, <4>4
      <4> QED  BY <3>2, <4>2, <4>3, <4>5
    <3> QED  BY <3>1, <3>2
  <2>3. k = [i \in 0..Len(b) |-> k[i]]
    OBVIOUS
  <2>4. \A i \in 0..Len(b) : i # d => k[i] = g[i]
    OBVIOUS
  <2> HIDE DEF k
  <2>5. k = f
    <3>1. ChainsOf(k, b)
      BY <2>2, <2>3 DEF ChainsOf
    <3> QED  BY <3>1 DEF Defines
  <2>6. \A i \in 0..Len(b) : i # d => g[i] = f[i]
    BY <2>4, <2>5
  <2>7. g[d] = <<c[d].files>> \o f[c[d].predecessor]
    <3>1. g[d] = <<c[d].files>> \o g[c[d].predecessor]
      BY <1>0, <2>1
    <3>2. g[c[d].predecessor] = f[c[d].predecessor]
      BY <2>6
    <3> QED  BY <3>1, <3>2
  <2>8. \A i \in 0..Len(c) : g[i] = h[i]
    BY <1>2, <2>6, <2>7
  <2> QED  BY <1>1, <2>1, <2>8
<1> QED  BY <1>1, <1>2, <1>4, <1>5 DEF Defines

\* What a step does to the directories: nothing, or it adds or writes d, no record.
Writes(d, predecessor) ==
  /\ d \in (DOMAIN backups') \ Records /\ DOMAIN backups' = DOMAIN backups \cup {d}
  /\ \A i \in DOMAIN backups : i # d => backups'[i] = backups[i]
  /\ Records \subseteq Records' /\ Records' \subseteq Records \cup {d}
  /\ backups'[d].predecessor = predecessor
  /\ predecessor \in Records \cup {0} /\ predecessor < d

\* A copy is filed.
LEMMA PutWrites ==
  ASSUME TypeInv, ChainInv, NEW field \in {"before", "files", "kind"}, NEW value, Put(field, value),
         Records' = Records
  PROVE  UNCHANGED backups \/ \E d, q : Writes(d, q)
<1> DEFINE b == [backups[work.dir] EXCEPT ![field] = value]
<1>1. backups' = [backups EXCEPT ![work.dir] = b]
  BY DEF Put
<1>2. /\ IsHistory /\ work.dir \in 0..Len(backups) /\ work.dir \notin Records
      /\ DOMAIN backups = 1..Len(backups) /\ Len(backups) \in Nat
  BY Numbered DEF TypeInv, HistoryInv, Shape, FillsFresh
<1>3. CASE work.dir = 0
  <2>1. backups' = backups
    <3>1. PICK S : backups \in Seq(S)
      BY <1>2 DEF IsHistory
    <3> QED  BY <1>1, <1>2, <1>3, <3>1
  <2> QED  BY <2>1
<1>4. CASE work.dir # 0
  <2>1. work.dir \in DOMAIN backups
    BY <1>2, <1>4
  <2>2. b.predecessor = backups[work.dir].predecessor
    BY <2>1 DEF TypeInv, HistoryInv, Shape, NewBackup
  <2> HIDE DEF b
  <2>3. /\ \A i \in DOMAIN backups : i # work.dir => backups'[i] = backups[i]
        /\ backups'[work.dir] = b /\ DOMAIN backups' = DOMAIN backups
    BY <1>1, <1>2, <2>1, Written
  <2>4. Writes(work.dir, b.predecessor)
    BY <1>2, <2>1, <2>2, <2>3 DEF Writes, ChainInv
  <2> QED  BY <2>4
<1> QED  BY <1>3, <1>4

\* A directory is made.
LEMMA AddWrites ==
  ASSUME TypeInv, NEW kind, NEW predecessor, NewDirectory(kind, predecessor), Records' = Records
  PROVE  \E d, q : Writes(d, q)
<1>1. backups' = Append(backups, NewBackup)
  BY DEF NewDirectory
<1>2. /\ IsHistory /\ DOMAIN backups = 1..Len(backups) /\ Len(backups) \in Nat
      /\ Records \subseteq 1..Len(backups)
  BY Numbered, RecordsAreNumbered DEF TypeInv, HistoryInv, Shape
<1>3. /\ IsHistory' /\ Len(backups)' = Len(backups) + 1
      /\ \A i \in DOMAIN backups : backups'[i] = backups[i]
      /\ backups'[Len(backups) + 1] = NewBackup
  BY <1>1, <1>2, Appended
<1>4. DOMAIN backups' = 1..(Len(backups) + 1)
  BY <1>2, <1>3, Numbered DEF IsHistory
<1>5. Writes(Len(backups) + 1, 0)
  BY <1>2, <1>3, <1>4 DEF Writes, NewBackup
<1> QED  BY <1>5

\* The manifest is written.
LEMMA ManifestWrites ==
  ASSUME TypeInv, WriteManifest
  PROVE  UNCHANGED backups \/ Writes(work.dir, work.predecessor)
<1> DEFINE
      b == [backups[work.dir] EXCEPT
              !.kind = work.kind, !.how = plan[lock].op, !.predecessor = work.predecessor,
              !.state = files, !.sequence = IF Active = 0 THEN 1 ELSE backups[Active].sequence + 1]
<1>1. backups' = [backups EXCEPT ![work.dir] = b]
  BY DEF WriteManifest
<1>2. /\ IsHistory /\ work.dir \in 0..Len(backups) /\ work.dir \notin Records
      /\ DOMAIN backups = 1..Len(backups) /\ Len(backups) \in Nat
      /\ work.predecessor \in Records \cup {0}
      /\ work.dir # 0 => work.predecessor < work.dir
  BY Numbered DEF TypeInv, HistoryInv, Shape, FillsFresh
<1>3. CASE work.dir = 0
  <2>1. backups' = backups
    <3>1. PICK S : backups \in Seq(S)
      BY <1>2 DEF IsHistory
    <3> QED  BY <1>1, <1>2, <1>3, <3>1
  <2> QED  BY <2>1
<1>4. CASE work.dir # 0
  <2>1. work.dir \in DOMAIN backups
    BY <1>2, <1>4
  <2>2. b.predecessor = work.predecessor
    BY <2>1 DEF TypeInv, HistoryInv, Shape, NewBackup
  <2> HIDE DEF b
  <2>3. /\ \A i \in DOMAIN backups : i # work.dir => backups'[i] = backups[i]
        /\ backups'[work.dir] = b /\ DOMAIN backups' = DOMAIN backups
    BY <1>1, <1>2, <2>1, Written
  <2>4. Records \subseteq Records' /\ Records' \subseteq Records \cup {work.dir}
    BY <1>2, <2>1, <2>3 DEF Records
  <2>5. Writes(work.dir, work.predecessor)
    BY <1>2, <1>4, <2>1, <2>2, <2>3, <2>4 DEF Writes
  <2> QED  BY <2>5
<1> QED  BY <1>3, <1>4

\* The chains after such a step.
LEMMA ChainsWritten ==
  ASSUME TypeInv, TypeInv', ChainInv, NEW d, NEW q, Writes(d, q)
  PROVE  /\ ChainInv' /\ \A i \in Records \cup {0} : Chains'[i] = Chains[i]
         /\ Chains'[d] = <<backups'[d].files>> \o Chains[q]
<1>1. /\ DOMAIN backups = 1..Len(backups) /\ Len(backups) \in Nat /\ Records \subseteq 1..Len(backups)
      /\ DOMAIN backups' = 1..Len(backups') /\ Len(backups') \in Nat /\ 0 \notin Records
  <2>1. /\ DOMAIN backups' = 1..Len(backups') /\ Len(backups') \in Nat
    BY Numbered DEF TypeInv, HistoryInv, Shape, IsHistory
  <2> QED  BY <2>1, Numbered, RecordsAreNumbered DEF TypeInv, HistoryInv, Shape
<1>2. /\ Chains \in [0..Len(backups) -> Seq(FileSets)] /\ Defines(Chains, backups)
  BY ChainIsDefined
<1>3. /\ d \in 1..Len(backups') /\ 0..Len(backups') = (0..Len(backups)) \cup {d}
      /\ d \notin Records /\ d # 0
  BY <1>1 DEF Writes
<1>4. \A i \in 1..Len(backups) : i # d => backups'[i] = backups[i]
  BY <1>1 DEF Writes
<1>5. \A i \in 1..Len(backups) : backups[i].predecessor \in (0..Len(backups)) \ {d}
  BY <1>1, <1>3 DEF ChainInv
<1>6. q \in (0..Len(backups)) \ {d} /\ backups'[d].predecessor = q
  BY <1>1, <1>3 DEF Writes
<1>7. backups'[d].files \in FileSets
  <2>1. NoFiles \in FileSets /\ HostFiles \subseteq FileSets
    BY MarksTyped
  <2>2. backups'[d].files \in HostFiles \cup {NoFiles}
    BY <1>1, <1>3 DEF TypeInv, CopiesTyped
  <2> QED  BY <2>1, <2>2
<1> DEFINE b == backups
           c == backups'
           f == Chains
<1>8. PICK h \in [0..Len(c) -> Seq(FileSets)] :
        /\ Defines(h, c)
        /\ \A i \in 0..Len(b) : i # d => h[i] = f[i]
        /\ h[d] = <<c[d].files>> \o f[c[d].predecessor]
  <2>1. /\ Len(b) \in Nat /\ Len(c) \in Nat /\ d \in 1..Len(c) /\ 0..Len(c) = (0..Len(b)) \cup {d}
        /\ \A i \in 1..Len(b) : i # d => c[i] = b[i]
        /\ \A i \in 1..Len(b) : b[i].predecessor \in (0..Len(b)) \ {d}
        /\ c[d].predecessor \in (0..Len(b)) \ {d}
        /\ c[d].files \in FileSets /\ f \in [0..Len(b) -> Seq(FileSets)] /\ Defines(f, b)
    BY <1>1, <1>2, <1>3, <1>4, <1>5, <1>6, <1>7
  <2>2. Follows(c, b, d, FileSets, f)
    BY <2>1 DEF Follows
  <2> HIDE DEF b, c, f
  <2> QED  BY <2>2, ChainsChange
<1>9. Chains' = h
  BY <1>8 DEF Chains, Defines
<1>10. \A i \in DOMAIN backups' :
         backups'[i].predecessor \in Records' \cup {0} /\ backups'[i].predecessor < i
  BY <1>1 DEF ChainInv, Writes
<1>11. ChainInv'
  BY <1>8, <1>10 DEF ChainInv
<1> QED  BY <1>1, <1>3, <1>6, <1>8, <1>9, <1>11

\* What is filled follows the active record, or what the record rolled back to follows.
StackInv ==
  lock # "none" =>
    /\ Head(work.todo) = "root" => Active = 0
    /\ work.dir # 0 =>
         work.predecessor = IF Op = "apply" THEN Active ELSE Target(plan[lock]).predecessor

\* A step that makes no record is none of the stack's.
LEMMA NoRecordStutters ==
  ASSUME TypeInv, TypeInv', ChainInv, Records' = Records, \A i \in Records : backups'[i] = backups[i],
         UNCHANGED backups \/ \E d, q : Writes(d, q)
  PROVE  ChainInv' /\ Chain' = Chain /\ LastRecorded' = LastRecorded
<1>1. Active' = Active /\ (Active # 0 => Active \in Records)
  BY ActiveKept, ActiveTyped DEF TypeInv
<1>2. LastRecorded' = LastRecorded
  BY <1>1 DEF LastRecorded
<1>3. ChainInv' /\ \A i \in Records \cup {0} : Chains'[i] = Chains[i]
  <2>1. CASE UNCHANGED backups
    <3>1. Chains' = Chains
      BY <2>1 DEF Chains
    <3> QED  BY <2>1, <3>1 DEF ChainInv
  <2>2. ASSUME NEW d, NEW q, Writes(d, q) PROVE ChainInv' /\ \A i \in Records \cup {0} : Chains'[i] = Chains[i]
    BY <2>2, ChainsWritten
  <2> QED  BY <2>1, <2>2
<1>4. (Chain = Chains[Active]) /\ (Chain = Chains[Active])'
  <2>1. (Chain = Chains[Active])'
    BY <1>3 DEF Chain, Chains, ChainsOf
  <2> QED  BY <2>1, ChainIsDefined
<1> QED  BY <1>1, <1>2, <1>3, <1>4

\* A root record is the first step of a run, or none.
LEMMA RootComesFirst ==
  ASSUME TypeInv, TypeInv', lock # "none", lock' = lock,
         work'.todo = Tail(work.todo) \/ work'.outcome # "forward"
  PROVE  Head(work'.todo) # "root"
<1>1. WorkShape /\ WorkShape'
  BY DEF TypeInv, WorkTyped
<1>2. CASE work'.todo = Tail(work.todo)
  <2>1. InOrder(Op, work.todo) /\ work.todo # <<>>
    BY <1>1 DEF WorkShape
  <2>2. work'.todo # <<>> /\ work'.todo \in Seq(Steps)
    BY <1>1 DEF WorkShape, InOrder
  <2>3. \A i \in DOMAIN work'.todo : work'.todo[i] # "root"
    <3> DEFINE t == work.todo
    <3>1. InOrder(Op, t) /\ t # <<>>
      BY <2>1
    <3> HIDE DEF t
    <3>2. \A i \in DOMAIN Tail(t) : Tail(t)[i] # "root"
      BY <3>1, TodoTail
    <3> QED  BY <1>2, <3>2 DEF t
  <2>4. 1 \in DOMAIN work'.todo /\ Head(work'.todo) = work'.todo[1]
    BY <2>2
  <2> QED  BY <2>3, <2>4
<1>3. CASE work'.outcome # "forward"
  <2>1. work'.todo # <<>> /\ OnlyUndoes(work'.todo) /\ work'.todo \in Seq(Steps)
    BY <1>1, <1>3 DEF WorkShape, InOrder
  <2>2. 1 \in DOMAIN work'.todo /\ Head(work'.todo) = work'.todo[1]
    BY <2>1
  <2> QED  BY <2>1, <2>2 DEF OnlyUndoes, SwitchSteps
<1> QED  BY <1>2, <1>3

\* The run at work goes on, or has ended, without a record.
LEMMA StackGoesOn ==
  ASSUME TypeInv, TypeInv', StackInv, lock # "none",
         Records' = Records, \A i \in Records : backups'[i] = backups[i],
         lock' # "none" => /\ lock' = lock /\ plan' = plan
                           /\ work'.dir = work.dir /\ work'.predecessor = work.predecessor
                           /\ work'.todo = Tail(work.todo) \/ work'.outcome # "forward"
  PROVE  StackInv'
<1> SUFFICES ASSUME lock' # "none"
             PROVE  /\ Head(work'.todo) # "root"
                    /\ work'.dir # 0 =>
                         work'.predecessor = IF Op' = "apply" THEN Active' ELSE Target(plan[lock])'.predecessor
  BY DEF StackInv
<1>1. Carried
  BY CarriesOn DEF TypeInv
<1>2. Head(work'.todo) # "root"
  BY RootComesFirst
<1>3. /\ Op' = Op /\ Op \in {"apply", "rollback"} /\ Active' = Active
      /\ Op = "rollback" => Target(plan[lock])' = Target(plan[lock])
  BY <1>1, CarriedSame DEF Carried
<1> QED  BY <1>2, <1>3 DEF StackInv

\* The history as a stack, when nothing is recorded.
Stacked == ChainInv' /\ StackInv' /\ UNCHANGED <<Chain, LastRecorded>>

\* The steps that write into the directory of the run at work, or into none.
LEMMA MovesStacked ==
  ASSUME TypeInv, TypeInv', StartInv, KeptInv, ChainInv, StackInv,
         \/ SaveBefore \/ CopyRecord \/ VerifyConfig \/ ReloadPostfix \/ RestartDaemon \/ MarkFailed
         \/ \E name \in {"config", "main", "master"} : Install(name)
  PROVE  Stacked
<1>1. /\ lock # "none" /\ Done
      /\ UNCHANGED backups \/ \E value : \E field \in {"before", "files", "kind"} :
                                Put(field, value) /\ (field = "kind" => value = "failed")
  BY DEF SaveBefore, CopyRecord, Filing, VerifyConfig, ReloadPostfix, RestartDaemon, MarkFailed, Install, At
<1>2. Records' = Records /\ \A i \in Records : backups'[i] = backups[i]
  <2>1. CASE UNCHANGED backups
    BY <2>1 DEF Records
  <2>2. ASSUME NEW field \in {"before", "files", "kind"}, NEW value, Put(field, value),
               field = "kind" => value = "failed"
        PROVE  Records' = Records /\ \A i \in Records : backups'[i] = backups[i]
    BY <1>1, <2>2, DoneKeeps, DirectoryWritten DEF TypeInv, HistoryInv
  <2> QED  BY <1>1, <2>1, <2>2
<1>3. UNCHANGED backups \/ \E d, q : Writes(d, q)
  BY <1>1, <1>2, PutWrites
<1>4. ASSUME lock' # "none"
      PROVE  /\ lock' = lock /\ plan' = plan /\ work'.todo = Tail(work.todo)
             /\ work'.dir = work.dir /\ work'.predecessor = work.predecessor
  <2>1. DOMAIN work = DOMAIN NoWork /\ work.undo \in Seq(SwitchSteps)
    BY <1>1, KeptUnfolds DEF WorkShape
  <2>2. /\ DOMAIN Starting(work) = DOMAIN NoWork /\ Starting(work).todo = work.todo
        /\ Starting(work).dir = work.dir /\ Starting(work).predecessor = work.predecessor
    BY <2>1, StartingSound
  <2>3. lock' = lock /\ plan' = plan /\ work' = Rest(Starting(work))
    BY <1>1, <1>4, Resumed DEF Done
  <2> QED  BY <2>2, <2>3 DEF Rest, NoWork
<1>5. StackInv'
  BY <1>1, <1>2, <1>4, StackGoesOn
<1> QED  BY <1>2, <1>3, <1>5, NoRecordStutters DEF Stacked

\* Failures and killed runs.
LEMMA FailuresStacked ==
  ASSUME TypeInv, TypeInv', StartInv, KeptInv, ChainInv, StackInv, StepFails \/ RecoveryFails \/ Crash
  PROVE  Stacked
<1> DEFINE halt == [work EXCEPT !.todo = <<>>]
           stuck == [work EXCEPT !.todo = <<"mark">>, !.outcome = "stuck"]
<1>1. lock # "none" /\ UNCHANGED backups /\ (Continue(halt) \/ Continue(Undo) \/ Continue(stuck))
  BY DEF StepFails, RecoveryFails, Crash
<1>2. Records' = Records
  BY <1>1 DEF Records
<1>3. /\ DOMAIN work = DOMAIN NoWork /\ work.undo \in Seq(SwitchSteps)
  BY <1>1, KeptUnfolds DEF WorkShape
<1>4. /\ DOMAIN Starting(work) = DOMAIN NoWork
      /\ Starting(work).dir = work.dir /\ Starting(work).predecessor = work.predecessor
  BY <1>3, StartingSound
<1>5. /\ halt.todo = <<>>
      /\ stuck.outcome # "forward" /\ stuck.dir = work.dir /\ stuck.predecessor = work.predecessor
      /\ Undo.outcome # "forward" /\ Undo.dir = work.dir /\ Undo.predecessor = work.predecessor
  BY <1>3, <1>4 DEF Undo, NoWork
<1> HIDE DEF halt, stuck
<1>6. ASSUME lock' # "none"
      PROVE  /\ lock' = lock /\ plan' = plan /\ work'.outcome # "forward"
             /\ work'.dir = work.dir /\ work'.predecessor = work.predecessor
  BY <1>1, <1>5, <1>6 DEF Continue
<1>7. StackInv'
  BY <1>1, <1>2, <1>6, StackGoesOn
<1> QED  BY <1>1, <1>2, <1>7, NoRecordStutters DEF Stacked

\* New directories.
LEMMA NewStacked ==
  ASSUME TypeInv, TypeInv', ChainInv, StackInv, NewRoot \/ NewAttempt
  PROVE  Stacked
<1> DEFINE h == Head(work.todo)
<1>1. lock # "none" /\ h \in {"root", "new"} /\ Op \in {"apply", "rollback"} /\ lock \in Runs
  BY DEF NewRoot, NewAttempt, At, TypeInv, WorkTyped, WorkShape, HistoryInv, Shape
<1>2. PICK kind, predecessor :
        /\ NewDirectory(kind, predecessor)
        /\ predecessor = IF h = "root" THEN 0
                         ELSE IF Op = "apply" THEN Active ELSE Target(plan[lock]).predecessor
        /\ h = "root" => Op = "apply"
  <2>1. CASE NewRoot
    <3>1. h = "root" /\ WorkShape
      BY <1>1, <2>1 DEF NewRoot, At, TypeInv, WorkTyped
    <3>2. work.todo \in Seq(Steps) /\ work.todo # <<>> /\ InOrder(Op, work.todo)
      BY <3>1 DEF WorkShape, InOrder
    <3>3. 1 \in DOMAIN work.todo /\ work.todo[1] = "root"
      BY <3>1, <3>2
    <3> QED  BY <2>1, <3>1, <3>2, <3>3 DEF NewRoot, InOrder
  <2>2. CASE NewAttempt
    BY <2>2 DEF NewAttempt, At, Op
  <2> QED  BY <2>1, <2>2
<1>3. Active \in Records \cup {0}
  BY ActiveIsNewest DEF TypeInv, HistoryInv
<1>4. Op = "rollback" => Target(plan[lock]).predecessor \in Records \cup {0}
  <2>1. ASSUME Op = "rollback"
        PROVE  plan[lock].record \in Records /\ backups[plan[lock].record].predecessor \in Records
    BY <1>1, <2>1 DEF Op, TypeInv, HistoryInv, PlansRecords, HistoryWellFounded
  <2> QED  BY <2>1 DEF Target, TypeInv, HistoryInv, HistoryWellFounded
<1>5. Records' = Records /\ \A i \in Records : backups'[i] = backups[i]
  <2>1. predecessor \in Records \cup {0}
    BY <1>1, <1>2, <1>3, <1>4
  <2> QED  BY <1>2, <2>1, DirectoryAdded DEF TypeInv
<1>6. \E d, q : Writes(d, q)
  BY <1>2, <1>5, AddWrites
<1>7. ASSUME lock' # "none"
      PROVE  /\ Head(work'.todo) # "root"
             /\ work'.predecessor = IF Op' = "apply" THEN Active' ELSE Target(plan[lock])'.predecessor
  <2> DEFINE w == [Rest(work) EXCEPT !.dir = Len(backups) + 1, !.kind = kind, !.predecessor = predecessor]
  <2>1. Continue(w) /\ w.todo = Tail(work.todo) /\ w.predecessor = predecessor
    BY <1>2 DEF NewDirectory, Rest, TypeInv, HistoryInv, Shape, NoWork
  <2> HIDE DEF w
  <2>2. lock' = lock /\ plan' = plan /\ work' = w
    BY <1>7, <2>1 DEF Continue
  <2>3. Carried
    BY <1>1, <1>5, <2>2, CarriesOn DEF TypeInv
  <2>4. /\ Op' = Op /\ Active' = Active
        /\ Op = "rollback" => Target(plan[lock])' = Target(plan[lock])
    BY <2>3, CarriedSame DEF Carried
  <2>5. Head(work'.todo) # "root"
    BY <1>1, <2>1, <2>2, RootComesFirst
  <2>6. h = "root" => Active = 0
    BY <1>1 DEF StackInv
  <2> QED  BY <1>1, <1>2, <2>1, <2>2, <2>4, <2>5, <2>6
<1>8. StackInv'
  BY <1>7 DEF StackInv
<1> QED  BY <1>5, <1>6, <1>8, NoRecordStutters DEF Stacked

\* The first step of configure-postfix is the root record only if there is none.
LEMMA RootNeeded ==
  ASSUME NEW r \in Runs, Apply(r), work'.todo[1] = "root"
  PROVE  NeedsRoot(plan[r])
<1> DEFINE p == plan[r]
           s == Switch(p.diff, p.restart, p.inspected.main.action = "accept" /\ p.staged.main.action = "tempfail")
           root == IF NeedsRoot(p) THEN <<"root">> \o RecordSteps ELSE <<>>
           todo == IF ~p.diff /\ ~p.restart THEN <<"new">> \o RecordSteps ELSE root \o Attempt(s)
<1>1. Take(r, todo, StagedSource(p), FALSE, p.inspected.config)
  BY DEF Apply
<1>2. work'.todo = todo
  BY <1>1 DEF Take, NoWork
<1>3. s \in Seq(SwitchSteps)
  BY SwitchSequence
<1> HIDE DEF s
<1>4. InOrder("apply", Attempt(s)) /\ Attempt(s)[1] = "new"
  BY <1>3, AttemptInOrder
<1>5. Attempt(s) \in Seq(Steps)
  BY <1>4 DEF InOrder
<1>6. CASE ~p.diff /\ ~p.restart
  <2>1. todo = <<"new">> \o RecordSteps
    BY <1>6
  <2>2. todo[1] = "new"
    BY <2>1, RecordOnlyInOrder
  <2> QED  BY <1>2, <2>2
<1>7. CASE ~(~p.diff /\ ~p.restart) /\ ~NeedsRoot(p)
  <2>1. todo = Attempt(s)
    BY <1>5, <1>7, ConcatEmptySeq
  <2> QED  BY <1>2, <1>4, <2>1
<1> QED  BY <1>6, <1>7

\* A run takes the lock.
LEMMA TakesStacked ==
  ASSUME TypeInv, TypeInv', ChainInv, StackInv, NEW r \in Runs, Apply(r) \/ Rollback(r)
  PROVE  Stacked
<1>1. /\ UNCHANGED <<backups, plan>> /\ lock' = r /\ r # "none" /\ work'.dir = 0
      /\ plan[r].op = IF Apply(r) THEN "apply" ELSE "rollback"
  BY ActivationAssumption DEF Apply, Rollback, Take, NoWork
<1>2. Records' = Records /\ Active' = Active
  BY <1>1 DEF Records, Active
<1>3. Head(work'.todo) = "root" => Active = 0
  <2> SUFFICES ASSUME Head(work'.todo) = "root" PROVE Active = 0
    OBVIOUS
  <2>1. work'.todo # <<>> /\ InOrder(Op', work'.todo) /\ Op' = plan[r].op
    BY <1>1 DEF TypeInv, WorkTyped, WorkShape, Op
  <2>2. work'.todo \in Seq(Steps)
    BY <2>1 DEF InOrder
  <2>3. 1 \in DOMAIN work'.todo /\ work'.todo[1] = "root"
    BY <2>1, <2>2
  <2>4. Apply(r)
    BY <1>1, <2>1, <2>3 DEF InOrder
  <2> QED  BY <2>3, <2>4, RootNeeded DEF NeedsRoot
<1>4. StackInv'
  BY <1>1, <1>2, <1>3 DEF StackInv
<1> QED  BY <1>1, <1>2, <1>4, NoRecordStutters DEF Stacked

\* Plans, and administrators, while no run works.
LEMMA OthersStacked ==
  ASSUME TypeInv, TypeInv', ChainInv, StackInv, UNCHANGED <<backups, lock>>,
         lock = "none" \/ UNCHANGED <<work, plan>>
  PROVE  Stacked
<1>1. Records' = Records /\ Active' = Active
  BY DEF Records, Active
<1>2. StackInv'
  BY <1>1 DEF StackInv, Op, Target
<1> QED  BY <1>1, <1>2, NoRecordStutters DEF Stacked

\* A record is written: an activation pushes it, a rollback pops.
LEMMA RecordStacks ==
  ASSUME Sole, SoleInv, TypeInv', ChainInv, StackInv, WriteManifest
  PROVE  ChainInv' /\ StackInv' /\ History!Next
<1>1. TypeInv /\ StartInv /\ KeptInv /\ FilesInv /\ HistoryInv
  BY DEF SoleInv, TypeInv
<1>2. /\ lock # "none" /\ Head(work.todo) = "manifest" /\ Op \in {"apply", "rollback"} /\ lock \in Runs
      /\ WorkShape /\ DOMAIN work = DOMAIN NoWork
  BY <1>1 DEF WriteManifest, At, TypeInv, WorkTyped, WorkShape, HistoryInv, Shape
<1>3. work.outcome = "forward"
  BY <1>1, <1>2, KeptUnfolds DEF SwitchSteps
<1>4. FillSound /\ SourceSound /\ RecordsSound
  BY <1>1, <1>2, <1>3 DEF FilesInv, Forward
<1>5. work.dir # 0 /\ backups[work.dir].files = files
  BY <1>2, <1>4 DEF FillSound
<1>6. work.kind \in RecordKinds /\ (Op = "rollback" => ~Ahead("new"))
  <2>1. CASE Ahead("new")
    BY <1>2, <1>4, <2>1 DEF FillSound, RecordKinds
  <2>2. CASE ~Ahead("new")
    BY <1>1, <1>2, <2>2, SwitchIsWhole
  <2> QED  BY <2>1, <2>2
<1>7. /\ Records' = Records \cup {work.dir} /\ Active' = work.dir /\ work.dir \notin Records
      /\ backups'[work.dir].files = files /\ backups'[work.dir].kind = work.kind
  BY <1>1, <1>5, <1>6, NewRecord
<1>8. Writes(work.dir, work.predecessor) /\ work.dir \in DOMAIN backups
  <2>1. UNCHANGED backups => Records' = Records
    BY DEF Records
  <2>2. Writes(work.dir, work.predecessor)
    BY <1>1, <1>7, <2>1, ManifestWrites
  <2>3. work.dir \in 0..Len(backups) /\ DOMAIN backups = 1..Len(backups) /\ Len(backups) \in Nat
    BY <1>1, <1>2, KeptUnfolds
  <2> QED  BY <1>5, <2>2, <2>3
<1>9. /\ ChainInv' /\ \A i \in Records \cup {0} : Chains'[i] = Chains[i]
      /\ Chains'[work.dir] = <<files>> \o Chains[work.predecessor]
  BY <1>1, <1>7, <1>8, ChainsWritten
<1>10. Chain' = <<files>> \o Chains[work.predecessor]
  <2>1. (Chain = Chains[Active])'
    BY <1>9 DEF Chain, Chains, ChainsOf
  <2> QED  BY <1>7, <1>9, <2>1
<1>11. Chain = Chains[Active] /\ Chains \in [0..Len(backups) -> Seq(FileSets)] /\ ChainsOf(Chains, backups)
  BY ChainIsDefined DEF Defines
<1>12. LastRecorded' = IF Op = "apply" THEN "push" ELSE "pop"
  <2>1. backups'[work.dir].how = Op
    <3>1. DOMAIN backups[work.dir] = DOMAIN NewBackup
      BY <1>1, <1>8 DEF HistoryInv, Shape
    <3> QED  BY <1>8, <3>1 DEF WriteManifest, Op, NewBackup
  <2> QED  BY <1>2, <1>5, <1>7, <2>1 DEF LastRecorded
<1>13. work.predecessor = IF Op = "apply" THEN Active ELSE Target(plan[lock]).predecessor
  BY <1>2, <1>5 DEF StackInv
<1>14. StackInv'
  <2> DEFINE w == [Rest(work) EXCEPT !.dir = 0]
  <2>1. Continue(w) /\ w.todo = Tail(work.todo) /\ w.dir = 0
    BY <1>2 DEF WriteManifest, Rest, NoWork
  <2> HIDE DEF w
  <2>2. ASSUME lock' # "none" PROVE work'.dir = 0 /\ Head(work'.todo) # "root"
    <3>1. lock' = lock /\ work' = w
      BY <2>1, <2>2 DEF Continue
    <3> QED  BY <1>1, <1>2, <2>1, <3>1, RootComesFirst
  <2> QED  BY <2>2 DEF StackInv
<1>15. History!Next
  <2>1. CASE Op = "apply"
    <3>1. Chain \in Seq(FileSets)
      <4>1. Active \in 0..Len(backups)
        BY <1>1, ActiveIsNewest, RecordsAreNumbered DEF HistoryInv
      <4> QED  BY <1>11, <4>1
    <3>2. Chain' = <<files>> \o Chain
      BY <1>10, <1>11, <1>13, <2>1
    <3> HIDE DEF Chain
    <3>3. Chain' # <<>> /\ Tail(Chain') = Chain
      BY <3>1, <3>2
    <3> QED  BY <1>12, <2>1, <3>3 DEF History!Next, History!Push
  <2>2. CASE Op = "rollback"
    <3> DEFINE t == backups[Active].predecessor
    <3>1. /\ plan[lock].record = Active /\ Active \in Records /\ t \in Records
          /\ Target(plan[lock]) = backups[t]
      <4>1. plan[lock].record \in Records /\ backups[plan[lock].record].predecessor \in Records
        BY <1>1, <1>2, <2>2 DEF Op, HistoryInv, PlansRecords, HistoryWellFounded
      <4>2. PlanFits(lock)
        BY <1>1, <1>2 DEF FilesInv
      <4> QED  BY <2>2, <4>1, <4>2 DEF PlanFits, Op, Target
    <3>2. files = backups[t].files
      <4>1. /\ files.main = work.source.main /\ files.master = work.source.master
            /\ files.config = work.source.config
        BY <1>1, <1>2, <1>6, <2>2, SwitchIsWhole
      <4>2. work.source = backups[t].files
        BY <1>4, <2>2, <3>1 DEF SourceSound
      <4>3. files \in HostFiles /\ backups[t].files \in HostFiles
        BY <1>1, <3>1 DEF TypeInv, HostTyped, CopiesTyped
      <4> QED  BY <4>1, <4>2, <4>3 DEF HostFiles
    <3>3. t \in 1..Len(backups) /\ Active \in 1..Len(backups) /\ backups[t].predecessor \in 0..Len(backups)
      <4>1. Records \subseteq 1..Len(backups) /\ Len(backups) \in Nat
        BY <1>1, RecordsAreNumbered DEF HistoryInv
      <4>2. backups[t].predecessor \in Records \cup {0}
        BY <1>1, <3>1 DEF HistoryInv, HistoryWellFounded
      <4> HIDE DEF t
      <4>3. t \in 1..Len(backups) /\ Active \in 1..Len(backups)
        BY <3>1, <4>1
      <4>a. Records \cup {0} \subseteq 0..Len(backups)
        BY <4>1
      <4>4. backups[t].predecessor \in 0..Len(backups)
        BY <4>2, <4>a
      <4> QED  BY <4>3, <4>4
    <3>4. /\ Chains[t] = <<backups[t].files>> \o Chains[backups[t].predecessor]
          /\ Chains[Active] = <<backups[Active].files>> \o Chains[t]
      <4>1. \A i \in 0..Len(backups) :
              Chains[i] = IF i = 0 THEN <<>> ELSE <<backups[i].files>> \o Chains[backups[i].predecessor]
        <5> HIDE DEF Chains
        <5> QED  BY <1>11 DEF ChainsOf
      <4>2. t \in 0..Len(backups) /\ Active \in 0..Len(backups) /\ t # 0 /\ Active # 0
        BY <3>3
      <4> HIDE DEF Chains
      <4> QED  BY <4>1, <4>2
    <3>5. /\ Chains[t] \in Seq(FileSets) /\ Chains[backups[t].predecessor] \in Seq(FileSets)
      BY <1>11, <3>3
    <3>6. Chain' = Chains[t]
      BY <1>10, <1>13, <2>2, <3>1, <3>2, <3>4
    <3>7. Chain = <<backups[Active].files>> \o Chains[t]
      BY <1>11, <3>4
    <3>8. Len(Chains[t]) \in Nat \ {0}
      BY <3>4, <3>5
    <3> HIDE DEF Chain, Chains, t
    <3>9. Len(Chain) > 1 /\ Chain' = Tail(Chain)
      BY <3>5, <3>6, <3>7, <3>8
    <3> QED  BY <1>12, <2>2, <3>9 DEF History!Next, History!Pop
  <2> QED  BY <1>2, <2>1, <2>2
<1> QED  BY <1>9, <1>14, <1>15

\* Every step is one of the stack, or none.
LEMMA StackStep ==
  ASSUME Sole, SoleInv, SoleInv', ChainInv, StackInv, [Next]_vars
  PROVE  ChainInv' /\ StackInv' /\ [History!Next]_<<Chain, LastRecorded>>
<1> DEFINE Goal == ChainInv' /\ StackInv' /\ [History!Next]_<<Chain, LastRecorded>>
<1>1. TypeInv /\ TypeInv' /\ StartInv /\ KeptInv
  BY DEF SoleInv
<1>2. Stacked => Goal
  BY DEF Stacked
<1> SUFFICES Goal
  OBVIOUS
<1> HIDE DEF Goal
<1>3. ASSUME NEW r \in Runs, Inspect(r) \/ PlanApply(r) \/ PlanRollback(r) \/ Withdraw(r) PROVE Goal
  <2>1. lock # "none" => r = lock /\ plan[r] # NoPlan /\ plan[r].op # "inspected"
    BY <1>1, SoleRun DEF TypeInv, WorkTyped, WorkShape, Op
  <2>2. UNCHANGED <<backups, lock>> /\ lock = "none"
    BY <1>3, <2>1 DEF Inspect, PlanApply, PlanRollback, Withdraw
  <2> QED  BY <1>1, <1>2, <2>2, OthersStacked
<1>4. ASSUME NEW r \in Runs, Apply(r) \/ Rollback(r) PROVE Goal
  BY <1>1, <1>2, <1>4, TakesStacked
<1>5. CASE NewRoot \/ NewAttempt
  BY <1>1, <1>2, <1>5, NewStacked
<1>6. CASE \/ SaveBefore \/ CopyRecord \/ VerifyConfig \/ ReloadPostfix \/ RestartDaemon \/ MarkFailed
           \/ \E name \in {"config", "main", "master"} : Install(name)
  BY <1>1, <1>2, <1>6, MovesStacked
<1>7. CASE WriteManifest
  BY <1>1, <1>7, RecordStacks DEF Goal
<1>8. CASE StepFails \/ RecoveryFails \/ Crash
  BY <1>1, <1>2, <1>8, FailuresStacked
<1>9. CASE (\E config \in Configs : EditConfig(config)) \/ EditMain \/ RestartByHand \/ UNCHANGED vars
  <2>1. UNCHANGED <<backups, lock, work, plan>>
    BY <1>9 DEF EditConfig, EditMain, RestartByHand, vars
  <2> QED  BY <1>1, <1>2, <2>1, OthersStacked
<1> QED  BY <1>3, <1>4, <1>5, <1>6, <1>7, <1>8, <1>9 DEF Next

\* At first the stack is empty.
LEMMA StackInit == ASSUME Init PROVE ChainInv /\ StackInv /\ History!Init
<1>1. backups = <<>> /\ lock = "none" /\ Len(backups) = 0 /\ DOMAIN backups = {}
  BY DEF Init
<1>2. Records = {} /\ Active = 0
  BY <1>1 DEF Records, Active
<1> DEFINE f == [i \in 0..0 |-> <<>>]
<1>3. 0..Len(backups) = {0} /\ 0..0 = {0}
  BY <1>1
<1>4. f \in [0..Len(backups) -> Seq(FileSets)] /\ f = [i \in {0} |-> <<>>]
  BY <1>3
<1>5. \A g : ChainsOf(g, backups) <=> g = [i \in {0} |-> <<>>]
  <2> SUFFICES ASSUME NEW g PROVE ChainsOf(g, backups) <=> g = [i \in {0} |-> <<>>]
    OBVIOUS
  <2>1. [i \in 0..Len(backups) |-> IF i = 0 THEN <<>> ELSE <<backups[i].files>> \o g[backups[i].predecessor]]
          = [i \in {0} |-> <<>>]
    BY <1>3
  <2> QED  BY <2>1 DEF ChainsOf
<1>6. Defines(f, backups)
  BY <1>4, <1>5 DEF Defines
<1>7. ChainInv
  BY <1>1, <1>4, <1>6 DEF ChainInv
<1>8. Chain = <<>>
  <2>1. Chain = Chains[0] /\ Defines(Chains, backups)
    BY <1>2, <1>7, ChainIsDefined
  <2>2. Chains = [i \in {0} |-> <<>>]
    BY <1>5, <2>1 DEF Defines
  <2> QED  BY <2>1, <2>2
<1>9. LastRecorded = "none"
  BY <1>2 DEF LastRecorded
<1>10. StackInv
  BY <1>1 DEF StackInv
<1>11. History!Init
  BY <1>8, <1>9 DEF History!Init
<1> QED  BY <1>7, <1>10, <1>11

(* With one run at a time the history is a stack, through failed runs and  *)
(* killed ones: the files along the predecessors of the active record are  *)
(* the states the server went through, an activation pushes its own, and a *)
(* rollback pops, to exactly the files under the top.  Rollbacks are not   *)
(* forced, and nobody edits under the lock; Postfix may have been attached *)
(* by hand, and the daemon restarted at any time.                          *)
THEOREM HistoryIsUndoStack == ASSUME Sole PROVE Spec => HistoryIsStack
<1> DEFINE Inv == SoleInv /\ ChainInv /\ StackInv
<1>1. Init => ChainInv /\ StackInv /\ History!Init
  BY StackInit
<1>2. SoleInv /\ SoleInv' /\ ChainInv /\ StackInv /\ [Next]_vars =>
        (ChainInv /\ StackInv)' /\ [History!Next]_<<Chain, LastRecorded>>
  BY StackStep
<1>3. Spec => []SoleInv
  BY SoleAlways
<1> QED  BY <1>1, <1>2, <1>3, PTL DEF Spec, HistoryIsStack, History!Spec
================================================================================
