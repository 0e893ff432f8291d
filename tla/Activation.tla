------------------------------ MODULE Activation ------------------------------
(***************************************************************************)
(* How deployment.py brings a configuration into force: configure-postfix  *)
(* and rollback plan without the deployment lock, take it, check that what *)
(* they planned for is still there, save the files, switch Postfix and the *)
(* daemon in a safe order, and write a record.  A step that fails is       *)
(* undone with the steps before it; a run may also be killed anywhere.     *)
(* Administrators edit the files and restart the daemon meanwhile.         *)
(*                                                                         *)
(* main.cf is the administrator's edit of it and the failure action of the *)
(* milter entry ("none" while Postfix does not use postwarden); master.cf  *)
(* is whether its services carry the markers; config.toml is one of        *)
(* Configs, which decides the failure action.  Contents stand for hashes.  *)
(***************************************************************************)
EXTENDS Integers, Sequences

CONSTANTS
  Runs,          \* installer runs that may be under way together
  Configs,       \* contents of config.toml, all valid
  FailureAction, \* Settings.failure_action of each
  Forced,        \* rollbacks are given --force
  ByHand,        \* Postfix was attached without the installer, so without a record
  Meddling,      \* what administrators edit while a run holds the lock
  HandRestarts,  \* the daemon is also restarted without the installer
  MaxDirs, MaxEdits, MaxFailures, MaxCrashes  \* bounds

ASSUME ActivationAssumption ==
  /\ FailureAction \in [Configs -> {"accept", "tempfail"}]
  /\ {Forced, ByHand, HandRestarts} \subseteq BOOLEAN
  /\ Meddling \subseteq {"config", "main"}
  /\ {MaxDirs, MaxEdits, MaxFailures, MaxCrashes} \subseteq Nat
  /\ "none" \notin Runs /\ {"none", "down"} \cap Configs = {}

VARIABLES
  files,     \* config.toml, main.cf and master.cf on disk
  postfix,   \* main.cf and master.cf as of the last reload
  daemon,    \* [config, by]: what the daemon runs, and who started it
  backups,   \* directories under /var/backups/postwarden, oldest first
  lock,      \* the run that holds the deployment lock, or "none"
  plan,      \* by run: what it inspected and plans to do
  work,      \* the progress of the run that holds the lock
  edits, failures, \* how often each happened
  crashes    \* how many runs ended half-way: killed, or with a recovery that failed

vars == <<files, postfix, daemon, backups, lock, plan, work, edits, failures, crashes>>
-----------------------------------------------------------------------------
Main(edit, action) == [edit |-> edit, action |-> action]
Files(config, main, master) == [config |-> config, main |-> main, master |-> master]
NoFiles == Files("none", Main(0, "none"), FALSE)
PostfixFiles(f) == [main |-> f.main, master |-> f.master]

Down == [config |-> "down", by |-> "none"]

\* A backup directory before its manifest: `files' is the copy, `state' what the
\* manifest says of the files, `before' the files a run started from.
NewBackup ==
  [kind |-> "none", how |-> "none", sequence |-> 0, predecessor |-> 0,
   files |-> NoFiles, state |-> NoFiles, before |-> NoFiles]

NoPlan ==
  [op |-> "none", record |-> 0, inspected |-> NoFiles, staged |-> NoFiles, diff |-> FALSE,
   changes |-> {}, restart |-> FALSE]

NoWork ==
  [todo |-> <<>>, undo |-> <<>>, dir |-> 0, source |-> NoFiles, installs |-> FALSE,
   restarts |-> FALSE, expected |-> "none", kind |-> "none", predecessor |-> 0,
   outcome |-> "forward", was |-> [postfix |-> PostfixFiles(NoFiles), daemon |-> Down]]

RecordKinds == {"activation", "detached"}
Records == {i \in DOMAIN backups : backups[i].kind \in RecordKinds}
\* The active record, 0 when there is none.
Active ==
  IF Records = {} THEN 0
  ELSE CHOOSE i \in Records : \A j \in Records : backups[j].sequence <= backups[i].sequence

Init ==
  /\ \E config \in Configs :
       LET action == IF ByHand THEN FailureAction[config] ELSE "none"
       IN /\ files = Files(config, Main(0, action), ByHand)
          /\ daemon = [config |-> config, by |-> "hand"]
  /\ postfix = PostfixFiles(files)
  /\ backups = <<>>
  /\ lock = "none" /\ work = NoWork
  /\ plan = [r \in Runs |-> NoPlan]
  /\ edits = 0 /\ failures = 0 /\ crashes = 0
-----------------------------------------------------------------------------
(* Plans, made without the lock.                                           *)

\* Mutant: the active record decides whether the daemon needs the file.
InspectedByRecord ==
  [NoPlan EXCEPT !.op = "inspected", !.inspected = files,
                 !.restart = Active = 0 \/ backups[Active].state.config # files.config]
Inspected ==
  [NoPlan EXCEPT !.op = "inspected", !.inspected = files,
                 !.restart = daemon.config # files.config]

\* inspect, and configure-postfix's wait for the daemon.
Inspect(r) ==
  /\ plan[r] = NoPlan
  /\ daemon # Down
  /\ plan' = [plan EXCEPT ![r] = Inspected]
  /\ UNCHANGED <<files, postfix, daemon, backups, lock, work, edits, failures, crashes>>

\* The integration rendered into copies of the Postfix files as they are now.
Staged(p) ==
  Files(p.inspected.config, Main(files.main.edit, FailureAction[p.inspected.config]), TRUE)

StagedPlan(p) ==
  [NoPlan EXCEPT !.op = "apply", !.inspected = p.inspected, !.restart = p.restart,
                 !.staged = Staged(p), !.diff = PostfixFiles(Staged(p)) # PostfixFiles(files)]

NothingToChange(p) ==
  /\ ~p.diff /\ ~p.restart
  /\ Active # 0
  /\ backups[Active].kind = "activation"
  /\ backups[Active].state.config = p.inspected.config

\* configure-postfix up to the lock: stage, compare with the files of now.
PlanApply(r) ==
  /\ plan[r].op = "inspected"
  /\ files.config = plan[r].inspected.config
  /\ ~NothingToChange(StagedPlan(plan[r]))
  /\ plan' = [plan EXCEPT ![r] = StagedPlan(plan[r])]
  /\ UNCHANGED <<files, postfix, daemon, backups, lock, work, edits, failures, crashes>>

Target(p) == backups[backups[p.record].predecessor]

\* The check of a rollback, made before the lock and again under it.
Unchanged(record) == Forced \/ files = backups[record].state

\* rollback up to the lock: of the active record, to its predecessor.
PlanRollback(r) ==
  /\ plan[r] = NoPlan
  /\ Active # 0
  /\ backups[Active].predecessor # 0
  /\ Unchanged(Active)
  /\ LET target == backups[backups[Active].predecessor]
     IN plan' = [plan EXCEPT ![r] =
          [NoPlan EXCEPT !.op = "rollback", !.record = Active,
                         !.changes = {n \in DOMAIN files : target.files[n] # files[n]},
                         !.restart = daemon.config # target.state.config]]
  /\ UNCHANGED <<files, postfix, daemon, backups, lock, work, edits, failures, crashes>>

\* A dry run, the lock held by another run, a file that changed, Control-C.
Withdraw(r) ==
  /\ plan[r] # NoPlan /\ lock # r
  /\ plan' = [plan EXCEPT ![r] = NoPlan]
  /\ UNCHANGED <<files, postfix, daemon, backups, lock, work, edits, failures, crashes>>
-----------------------------------------------------------------------------
(* Under the lock: the steps a run has left to do.                         *)

PostfixSteps == <<"main", "master", "reload">>
DaemonSteps == <<"config", "restart">>
RecordSteps == <<"copy", "manifest">>

\* Mutant: the daemon always goes first.
SwitchDaemonFirst(p, d, stricter) ==
  (IF d THEN DaemonSteps ELSE <<>>) \o (IF p THEN PostfixSteps ELSE <<>>)
\* The order of switch().
Switch(p, d, stricter) ==
  LET P == IF p THEN PostfixSteps ELSE <<>>
      D == IF d THEN DaemonSteps ELSE <<>>
  IN IF stricter THEN P \o D ELSE D \o P

\* Mutant: the files are saved after the switch.
AttemptSavesLate(switch) == <<"new">> \o switch \o <<"save", "verify">> \o RecordSteps
Attempt(switch) == <<"new", "save">> \o switch \o <<"verify">> \o RecordSteps

Take(r, todo, source, installs, expected) ==
  /\ lock = "none" /\ lock' = r
  /\ Len(backups) + (IF Head(todo) = "root" THEN 2 ELSE 1) <= MaxDirs
  /\ work' = [NoWork EXCEPT
       !.todo = todo, !.source = source, !.installs = installs, !.restarts = plan[r].restart,
       !.expected = expected, !.was = [postfix |-> postfix, daemon |-> daemon]]
  /\ UNCHANGED <<files, postfix, daemon, backups, plan, edits, failures, crashes>>

\* Mutant: the first attachment is recorded without the state before it.
NoRoot(p) == FALSE
NeedsRoot(p) == Active = 0 /\ p.inspected.main.action = "none"

\* What switch() installs for configure-postfix: the staged files, if any differ.
StagedSource(p) == IF p.diff THEN p.staged ELSE files

Apply(r) ==
  LET p == plan[r]
      stricter == p.inspected.main.action = "accept" /\ p.staged.main.action = "tempfail"
      root == IF NeedsRoot(p) THEN <<"root">> \o RecordSteps ELSE <<>>
      todo == IF ~p.diff /\ ~p.restart THEN <<"new">> \o RecordSteps
              ELSE root \o Attempt(Switch(p.diff, p.restart, stricter))
  IN /\ p.op = "apply"
     /\ files = p.inspected
     /\ Take(r, todo, StagedSource(p), FALSE, p.inspected.config)

\* Mutant: the divergence check is not repeated under the lock.
RollbackUnchecked(r) ==
  LET p == plan[r]
      installs == "config" \in p.changes
  IN /\ p.op = "rollback"
     /\ Take(r, Attempt(Switch({"main", "master"} \cap p.changes # {}, installs \/ p.restart, FALSE)),
             Target(p).files, installs,
             IF installs \/ p.restart THEN Target(p).state.config ELSE files.config)
Rollback(r) ==
  LET p == plan[r]
      installs == "config" \in p.changes
      stricter == files.main.action = "accept" /\ Target(p).state.main.action = "tempfail"
      expected == IF installs \/ p.restart THEN Target(p).state.config ELSE files.config
  IN /\ p.op = "rollback"
     /\ Unchanged(p.record)
     /\ Take(r, Attempt(Switch({"main", "master"} \cap p.changes # {}, installs \/ p.restart, stricter)),
             Target(p).files, installs, expected)

\* The lock goes with the last step.
Continue(w) ==
  IF w.todo = <<>>
  THEN work' = NoWork /\ lock' = "none" /\ plan' = [plan EXCEPT ![lock] = NoPlan]
  ELSE work' = w /\ UNCHANGED <<lock, plan>>

At(step) == lock # "none" /\ Head(work.todo) = step
Rest(w) == [w EXCEPT !.todo = Tail(w.todo)]
\* Mutants: a part is undone only if its last step had begun; the oldest part first.
StartingLate(w) ==
  CASE w.outcome # "forward" -> w
    [] Head(w.todo) = "reload" -> [w EXCEPT !.undo = PostfixSteps \o @]
    [] Head(w.todo) = "restart" -> [w EXCEPT !.undo = DaemonSteps \o @]
    [] OTHER -> w
StartingOldestFirst(w) ==
  CASE w.outcome # "forward" -> w
    [] Head(w.todo) = "main" -> [w EXCEPT !.undo = @ \o PostfixSteps]
    [] Head(w.todo) = "config" -> [w EXCEPT !.undo = @ \o DaemonSteps]
    [] OTHER -> w
\* What undoes a part of the switch is put before what undoes the earlier one.
Starting(w) ==
  CASE w.outcome # "forward" -> w
    [] Head(w.todo) = "main" -> [w EXCEPT !.undo = PostfixSteps \o @]
    [] Head(w.todo) = "config" -> [w EXCEPT !.undo = DaemonSteps \o @]
    [] OTHER -> w
Done == Continue(Rest(Starting(work)))

\* Mutant: a directory of the same second is used again.
NewDirectoryReused(kind, predecessor) ==
  /\ backups' \in {Append(backups, NewBackup), backups}
  /\ backups' # <<>>
  /\ Continue([Rest(work) EXCEPT !.dir = Len(backups'), !.kind = kind, !.predecessor = predecessor])
  /\ UNCHANGED <<files, postfix, daemon, edits, failures, crashes>>
NewDirectory(kind, predecessor) ==
  /\ backups' = Append(backups, NewBackup)
  /\ Continue([Rest(work) EXCEPT !.dir = Len(backups) + 1, !.kind = kind, !.predecessor = predecessor])
  /\ UNCHANGED <<files, postfix, daemon, edits, failures, crashes>>

\* The record of the state before the first attachment.
NewRoot == At("root") /\ NewDirectory("detached", 0)
\* Mutant: a rollback is recorded on top of the record it rolls back.
NewAttemptOnTop ==
  /\ At("new")
  /\ \/ plan[lock].op = "apply" /\ NewDirectory("activation", Active)
     \/ plan[lock].op = "rollback" /\ NewDirectory(Target(plan[lock]).kind, Active)
\* Mutant: a run follows the directory before its own, whatever that is.
NewAttemptAfterLast == At("new") /\ NewDirectory("activation", Len(backups))
NewAttempt ==
  /\ At("new")
  /\ \/ plan[lock].op = "apply" /\ NewDirectory("activation", Active)
     \/ plan[lock].op = "rollback"
        /\ NewDirectory(Target(plan[lock]).kind, Target(plan[lock]).predecessor)

Put(field, value) == backups' = [backups EXCEPT ![work.dir] = [@ EXCEPT ![field] = value]]
Filing(step, field) ==
  /\ At(step)
  /\ Put(field, files) /\ Done
  /\ UNCHANGED <<files, postfix, daemon, edits, failures, crashes>>
SaveBefore == Filing("save", "before")
CopyRecord == Filing("copy", "files")

\* Mutant: the sequence number is not advanced.
WriteManifestSameSequence ==
  /\ At("manifest")
  /\ backups' = [backups EXCEPT ![work.dir] =
       [@ EXCEPT !.kind = work.kind, !.how = plan[lock].op,
                 !.predecessor = work.predecessor, !.state = files,
                 !.sequence = IF Active = 0 THEN 1 ELSE backups[Active].sequence]]
  /\ Continue([Rest(work) EXCEPT !.dir = 0])
  /\ UNCHANGED <<files, postfix, daemon, edits, failures, crashes>>
\* The manifest, written last, makes the directory a record.
WriteManifest ==
  /\ At("manifest")
  /\ backups' = [backups EXCEPT ![work.dir] =
       [@ EXCEPT !.kind = work.kind, !.how = plan[lock].op,
                 !.predecessor = work.predecessor, !.state = files,
                 !.sequence = IF Active = 0 THEN 1 ELSE backups[Active].sequence + 1]]
  /\ Continue([Rest(work) EXCEPT !.dir = 0])
  /\ UNCHANGED <<files, postfix, daemon, edits, failures, crashes>>

\* mark_failed
MarkFailed ==
  /\ At("mark")
  /\ Put("kind", "failed") /\ Done
  /\ UNCHANGED <<files, postfix, daemon, edits, failures, crashes>>

\* main.cf and master.cf are replaced one after the other, config.toml by a rollback
\* and by the undo of a switch.
Install(name) ==
  /\ At(name)
  /\ files' = IF name # "config" \/ work.installs
              THEN [files EXCEPT ![name] = work.source[name]] ELSE files
  /\ Done
  /\ UNCHANGED <<postfix, daemon, backups, edits, failures, crashes>>

ReloadPostfix ==
  /\ At("reload")
  /\ postfix' = PostfixFiles(files) /\ Done
  /\ UNCHANGED <<files, daemon, backups, edits, failures, crashes>>

\* The daemon reads config.toml as it starts; what it reports must be what was meant.
WrongConfig == work.outcome = "forward" /\ files.config # work.expected
Restarted == [config |-> files.config, by |-> "installer"]
RestartDaemon ==
  /\ At("restart")
  /\ \/ work.restarts /\ ~WrongConfig /\ daemon' = Restarted
     \/ ~work.restarts /\ UNCHANGED daemon
  /\ Done
  /\ UNCHANGED <<files, postfix, backups, edits, failures, crashes>>

\* The test of record(), before the record is written.
VerifyConfig ==
  /\ At("verify") /\ ~WrongConfig /\ Done
  /\ UNCHANGED <<files, postfix, daemon, backups, edits, failures, crashes>>
-----------------------------------------------------------------------------
(* A step fails, a run is killed.                                          *)

\* The switch, whose failures are undone, starts once the files are saved.
Switching == work.dir # 0 /\ backups[work.dir].before # NoFiles

\* config.toml of the undo: the active record's for configure-postfix, for want of one,
\* and for a rollback, the one the run started with.
Recovery ==
  IF plan[lock].op = "apply" /\ Active # 0
  THEN backups[Active].files.config ELSE backups[work.dir].before.config

Undo ==
  LET w == Starting(work)
  IN [w EXCEPT !.todo = w.undo \o <<"mark">>, !.outcome = "undo", !.installs = TRUE, !.restarts = TRUE,
               !.source = [backups[work.dir].before EXCEPT !.config = Recovery]]

MustFail ==
  /\ WrongConfig
  /\ At("verify") \/ (At("restart") /\ work.restarts)

\* A restart that fails leaves the daemon down, or running after all.
DaemonAfterFailure ==
  IF At("restart") /\ work.restarts THEN daemon' \in {Down, Restarted} ELSE UNCHANGED daemon

\* A failure before the switch ends the run, one in it starts the undo.
StepFails ==
  /\ lock # "none" /\ (work.outcome = "forward" \/ At("mark"))
  /\ ~MustFail => failures < MaxFailures
  /\ failures' = IF MustFail THEN failures ELSE failures + 1
  /\ DaemonAfterFailure
  /\ Continue(IF Switching /\ ~At("mark") THEN Undo ELSE [work EXCEPT !.todo = <<>>])
  /\ UNCHANGED <<files, postfix, backups, edits, crashes>>

\* A failure in the undo ends it; the message asks for a restore by hand.
RecoveryFails ==
  /\ lock # "none" /\ work.outcome = "undo" /\ ~At("mark")
  /\ crashes < MaxCrashes /\ crashes' = crashes + 1
  /\ DaemonAfterFailure
  /\ Continue([work EXCEPT !.todo = <<"mark">>, !.outcome = "stuck"])
  /\ UNCHANGED <<files, postfix, backups, edits, failures>>

\* kill, Control-C, a lost connection: the lock is released, nothing is undone.
Crash ==
  /\ lock # "none" /\ crashes < MaxCrashes
  /\ crashes' = crashes + 1
  /\ Continue([work EXCEPT !.todo = <<>>])
  /\ UNCHANGED <<files, postfix, daemon, backups, edits, failures>>
-----------------------------------------------------------------------------
(* Administrators, and systemd.                                            *)

EditConfig(config) ==
  /\ lock = "none" \/ "config" \in Meddling
  /\ config # files.config
  /\ files' = [files EXCEPT !.config = config]
  /\ UNCHANGED <<postfix, daemon, backups, lock, plan, work, edits, failures, crashes>>

\* An edit of main.cf that is none of postwarden's, or its return to an earlier one,
\* and its reload.
EditMain ==
  /\ lock = "none" \/ "main" \in Meddling
  /\ edits < MaxEdits /\ edits' = edits + 1
  /\ \E edit \in (0 .. edits + 1) \ {files.main.edit} :
       files' = [files EXCEPT !.main = Main(edit, files.main.action)]
  /\ postfix' = PostfixFiles(files')
  /\ UNCHANGED <<daemon, backups, lock, plan, work, failures, crashes>>

\* systemctl restart, an application install, Restart=on-failure.
RestartByHand ==
  /\ HandRestarts \/ (daemon = Down /\ lock = "none")
  /\ daemon' = [config |-> files.config, by |-> "hand"]
  /\ daemon' # daemon
  /\ UNCHANGED <<files, postfix, backups, lock, plan, work, edits, failures, crashes>>

Next ==
  \/ \E r \in Runs : Inspect(r) \/ PlanApply(r) \/ PlanRollback(r) \/ Withdraw(r) \/ Apply(r) \/ Rollback(r)
  \/ NewRoot \/ NewAttempt \/ SaveBefore \/ CopyRecord \/ WriteManifest \/ MarkFailed
  \/ \E name \in {"config", "main", "master"} : Install(name)
  \/ ReloadPostfix \/ RestartDaemon \/ VerifyConfig
  \/ StepFails \/ RecoveryFails \/ Crash
  \/ \E config \in Configs : EditConfig(config)
  \/ EditMain \/ RestartByHand

Spec == Init /\ [][Next]_vars
-----------------------------------------------------------------------------
Mains == [edit : 0..MaxEdits, action : {"none", "accept", "tempfail"}]
FileSets == [config : Configs \cup {"none"}, main : Mains, master : BOOLEAN]
Steps ==
  {"root", "new", "save", "config", "restart", "main", "master", "reload", "verify",
   "copy", "manifest", "mark"}

\* The variables keep their shape: a run works exactly while it holds the lock,
\* and no two records have the same place in the history.
TypeOK ==
  /\ files \in FileSets /\ files.config # "none"
  /\ postfix \in [main : Mains, master : BOOLEAN]
  /\ daemon \in [config : Configs \cup {"down"}, by : {"installer", "hand", "none"}]
  /\ lock \in Runs \cup {"none"}
  /\ (lock = "none") = (work = NoWork) /\ (lock # "none" => plan[lock] # NoPlan)
  /\ work.dir \in 0..Len(backups)
  /\ \A i \in DOMAIN work.todo : work.todo[i] \in Steps
  /\ \A i \in DOMAIN backups : backups[i].files \in FileSets /\ backups[i].before \in FileSets
  /\ \A i, j \in Records : backups[i].sequence = backups[j].sequence => i = j

\* ADR-0030: every record leads back, record by record, to a first one: the record
\* it names as its predecessor is an older one.
HistoryWellFounded ==
  \A i \in Records :
    backups[i].predecessor < i /\ backups[i].predecessor \in Records \cup {0}

\* ADR-0032: history has a restorable start: the first record is of the state before
\* the attachment, whose files do not use postwarden.
RestorableStart ==
  \A i \in Records :
    /\ backups[i].predecessor = 0 => backups[i].kind = "detached" \/ ByHand
    /\ backups[i].kind = "detached" => backups[i].files.main.action = "none"

\* ADR-0030: a record is immutable and history only grows, whatever run follows,
\* fails or is killed.
RecordsImmutable == [][\A i \in Records : i \in Records' /\ backups'[i] = backups[i]]_vars

\* ADR-0030: the files along the predecessors of the active record are a stack that
\* an activation pushes and a rollback pops, through failures and killed runs.
Chain ==
  LET chain[i \in 0..Len(backups)] ==
        IF i = 0 THEN <<>> ELSE <<backups[i].files>> \o chain[backups[i].predecessor]
  IN chain[Active]
LastRecorded ==
  CASE Active = 0 -> "none"
    [] Active # 0 /\ backups[Active].how = "apply" -> "push"
    [] OTHER -> "pop"
History == INSTANCE UndoStack WITH stack <- Chain, last <- LastRecorded
HistoryIsStack == History!Spec

\* ADR-0028: newly enforced rules are never open during the switch.  While the daemon
\* runs a configuration that enforces, as an installer run left it, Postfix does not
\* accept mail on its failure; neither between the steps of a switch nor of its undo.
\* A rollback that detaches Postfix ends with no rule enforced and is left out, and a
\* run that was killed, or that could not undo itself, leaves what it leaves.
Detaching == lock # "none" /\ plan[lock].op = "rollback" /\ work.kind = "detached"
NeverOpen ==
  crashes = 0 /\ daemon.by = "installer" /\ FailureAction[daemon.config] = "tempfail" /\ ~Detaching =>
    postfix.main.action # "accept"

\* Every record of an activation or a rollback describes the host: as it is written,
\* its copies are the files on disk, which are what the daemon and Postfix run, and a
\* repeated configure-postfix finds nothing to change.  (As long as no run was killed.)
RecordedMeansRunning ==
  [][crashes = 0 /\ At("manifest") /\ (plan[lock].op = "apply" => work.kind = "activation") =>
       /\ backups[work.dir].files = files
       /\ daemon.config = files.config
       /\ postfix = PostfixFiles(files)
       /\ work.kind = "activation" => files.main.action = FailureAction[files.config]]_backups

\* Operations.md: a run that fails part-way restores the previous state itself.  As
\* the run is marked failed after its undo, Postfix and its files are what they were,
\* and so is the daemon that ran an activated configuration, once there is a record
\* of one.  (As above.)
FailedRunRestores ==
  [][crashes = 0 /\ At("mark") /\ work.outcome = "undo" =>
       /\ postfix = work.was.postfix
       /\ PostfixFiles(files) = PostfixFiles(backups[work.dir].before)
       /\ work.was.daemon.by = "installer" /\ Active # 0 /\ backups[Active].kind = "activation" =>
            daemon = work.was.daemon]_backups

Overwrites(name) == At(name) /\ files'[name] # files[name]

\* What a failed configure-postfix puts back over what it had staged itself.
OwnStaging ==
  work.outcome # "forward" /\ plan[lock].op = "apply" /\ files.main.edit = plan[lock].staged.main.edit

\* Whatever a run overwrites is kept in a backup directory: the configuration, and
\* the administrator's edit of main.cf, but for one that the run itself brought back:
\* it was taken back between the staging and the lock.
NothingLost ==
  [][/\ Overwrites("config") =>
          \E i \in DOMAIN backups : files.config \in {backups[i].before.config, backups[i].files.config}
     /\ Overwrites("main") =>
          \/ OwnStaging
          \/ \E i \in DOMAIN backups :
               files.main.edit \in {backups[i].before.main.edit} \cup
                 (IF i \in Records THEN {backups[i].files.main.edit} ELSE {})]_files
================================================================================
