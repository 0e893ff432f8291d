----------------------------- MODULE Installation -----------------------------
(***************************************************************************)
(* The installation of a release and its rollback: deployment.py below     *)
(* scripts/install.py.  A run inspects the host, plans without the         *)
(* deployment lock which steps are needed, takes the lock, checks that     *)
(* what it planned for is still there, saves what it is going to replace   *)
(* and takes its steps.  A step that fails, or a run that is killed,       *)
(* leaves the host as it is then; a rollback of the run's directory brings *)
(* back what was there before.                                             *)
(*                                                                         *)
(* A release stands for the contents of its files.  The application tree   *)
(* is two parts, src and the rest of APP_FILES; "none" is a part, or a     *)
(* file, that is missing, "partial" a part whose copy or removal stopped   *)
(* between two of its files (which ones is not told).  `ready' says of     *)
(* config.toml, and `secure' of the application's files, that modes and    *)
(* owners are as they should be.                                           *)
(***************************************************************************)
EXTENDS Integers, Sequences

CONSTANTS
  Runs,      \* installer runs that may be under way together
  Releases,  \* releases that may be unpacked and installed
  Root,      \* the candidate that is the installed tree itself
  UnitOf,    \* the systemd unit of each release; often the same
  Configs,   \* contents of config.toml, all valid
  MaxDirs, MaxEdits, MaxFailures  \* bounds

ASSUME InstallationAssumption ==
  /\ "none" \notin Runs \cup Releases \cup Configs /\ "partial" \notin Releases
  /\ "none" \notin {UnitOf[c] : c \in Releases}
  /\ Root \notin Releases
  /\ {MaxDirs, MaxEdits, MaxFailures} \subseteq Nat

VARIABLES
  disk,      \* the application, config.toml, the unit and the launcher
  prepared,  \* packages, user and directories are there
  daemon,    \* the release the daemon runs, "none" while it is down
  attached,  \* Postfix uses postwarden
  attaching, \* a configure-postfix that found the daemon running waits for the lock
  backups,   \* the directories of install deployments, oldest first
  lock,      \* the run that holds the deployment lock, or "none"
  plan,      \* by run: what it inspected and plans to do
  todo,      \* the steps the run that holds the lock has left
  edits, failures  \* how often each happened

vars == <<disk, prepared, daemon, attached, attaching, backups, lock, plan, todo, edits, failures>>
-----------------------------------------------------------------------------
Config(text, ready) == [text |-> text, ready |-> ready]
NoConfig == Config("none", FALSE)
Bare(config) ==
  [src |-> "none", rest |-> "none", secure |-> TRUE, config |-> config,
   unit |-> "none", launcher |-> "none"]
\* What tree_digest sees, with metadata.
Tree(d) == <<d.src, d.rest, d.secure>>
\* The files install backs up and rollback restores.
Managed == {"config", "unit", "launcher"}
Absent(d, f) == IF f = "config" THEN d.config = NoConfig ELSE d[f] = "none"

NoPlan ==
  [op |-> "none", candidate |-> "none", import |-> "none", release |-> "none", up |-> FALSE,
   seen |-> Bare(NoConfig), needed |-> {}, record |-> 0, force |-> FALSE,
   restores |-> {}, removals |-> {}]

Startable == disk.src # "none" /\ ~\E f \in Managed : Absent(disk, f)

Init ==
  /\ \E config \in {NoConfig} \cup {Config(c, TRUE) : c \in Configs} : disk = Bare(config)
  /\ prepared = FALSE /\ daemon = "none"
  /\ attached = FALSE /\ attaching = FALSE
  /\ backups = <<>>
  /\ lock = "none" /\ todo = <<>>
  /\ plan = [r \in Runs |-> NoPlan]
  /\ edits = 0 /\ failures = 0
-----------------------------------------------------------------------------
(* Plans, made without the lock.                                           *)

\* The installed version; a partial tree may have lost the file that tells it.
Versions == IF disk.src = "partial" THEN {"none", "partial"} ELSE {disk.src}

\* inspect, and what cmd_install asks of it: a configuration, or one to import.
Inspect(r, c, i) ==
  /\ plan[r] = NoPlan
  /\ i = "none" => disk.config # NoConfig
  /\ c = Root => disk.src # "none" /\ disk.rest \in Releases
  /\ \E version \in Versions : plan' = [plan EXCEPT ![r] =
       [NoPlan EXCEPT !.op = "inspected", !.candidate = c, !.import = i,
                      !.release = version, !.up = daemon # "none"]]
  /\ UNCHANGED <<disk, prepared, daemon, attached, attaching, backups, lock, todo, edits, failures>>

\* The release whose launcher and unit a run installs; the installed tree may have lost them.
Source(p) == IF p.candidate = Root THEN disk.rest ELSE p.candidate
Offers(p) ==
  [launcher |-> Source(p),
   unit |-> IF Source(p) \in Releases THEN UnitOf[Source(p)] ELSE "none"]
Same(p) == p.candidate = Root \/ (disk.src = p.candidate /\ disk.rest = p.candidate)
Imports(p) == p.import # "none" /\ p.import # disk.config.text

\* Mutant of Restarts: the daemon is restarted for a new unit or configuration only.
RestartsForFiles(p) == disk.unit # Offers(p).unit \/ Imports(p) \/ ~p.up

Restarts(p) == ~Same(p) \/ disk.unit # Offers(p).unit \/ Imports(p) \/ ~p.up

\* The steps that are `needed'.
Needed(p) ==
  {step \in {"prepare", "secure", "copy", "import", "validate", "launcher", "unit", "start"} :
     \/ step = "prepare" /\ ~prepared
     \/ step = "secure" /\ ~disk.secure
     \/ step = "copy" /\ ~Same(p)
     \/ step = "import" /\ Imports(p)
     \/ step = "validate" /\ (p.import # "none" \/ ~disk.config.ready)
     \/ step = "launcher" /\ disk.launcher # Offers(p).launcher
     \/ step = "unit" /\ disk.unit # Offers(p).unit
     \/ step = "start" /\ Restarts(p)}

PlanInstall(r) ==
  /\ plan[r].op = "inspected" /\ Needed(plan[r]) # {}
  /\ plan' = [plan EXCEPT ![r].op = "install", ![r].seen = disk, ![r].needed = Needed(plan[r])]
  /\ UNCHANGED <<disk, prepared, daemon, attached, attaching, backups, lock, todo, edits, failures>>

\* "nothing to change; no deployment recorded"
NothingToChange(r) ==
  /\ plan[r].op = "inspected" /\ Needed(plan[r]) = {}
  /\ plan' = [plan EXCEPT ![r] = NoPlan]
  /\ UNCHANGED <<disk, prepared, daemon, attached, attaching, backups, lock, todo, edits, failures>>

Record(p) == backups[p.record]

\* rollback_divergence: what the deployment left is no longer there.
Diverged(p) ==
  \/ ~Record(p).complete
  \/ \E f \in p.restores \cup p.removals : Record(p).after[f] # disk[f]
  \/ Record(p).archive /\ Tree(Record(p).after) # Tree(disk)

\* The check of a rollback, made before the lock and again under it.
Permitted(p) ==
  /\ p.removals # {} => ~attached
  /\ p.force \/ ~Diverged(p)

\* Mutant of Restores: only what the deployment changed.
RestoresChanged(b) == {f \in Managed : ~Absent(b.before, f) /\ b.after[f] # b.before[f]}

\* What a rollback restores, and what it removes because it was absent before.
Restores(b) == {f \in Managed : ~Absent(b.before, f)}
Removals(b) == {f \in Managed \ {"config"} : Absent(b.before, f) /\ ~Absent(disk, f)}

\* rollback, up to the lock, of an install deployment.
PlanRollback(r, i, force) ==
  /\ plan[r] = NoPlan
  /\ LET p == [NoPlan EXCEPT !.op = "rollback", !.record = i, !.force = force,
                             !.restores = Restores(backups[i]),
                             !.removals = Removals(backups[i])]
     IN  Permitted(p) /\ plan' = [plan EXCEPT ![r] = p]
  /\ UNCHANGED <<disk, prepared, daemon, attached, attaching, backups, lock, todo, edits, failures>>

\* Mutant of Withdraw: a run that has the lock is withdrawn as one that has not.
WithdrawAlways(r) ==
  /\ plan[r].op \in {"install", "rollback"}
  /\ plan' = [plan EXCEPT ![r] = NoPlan]
  /\ UNCHANGED <<disk, prepared, daemon, attached, attaching, backups, lock, todo, edits, failures>>

\* A dry run, the lock held by another run, a file that changed, Control-C.
Withdraw(r) ==
  /\ plan[r].op \in {"install", "rollback"} /\ lock # r
  /\ plan' = [plan EXCEPT ![r] = NoPlan]
  /\ UNCHANGED <<disk, prepared, daemon, attached, attaching, backups, lock, todo, edits, failures>>
-----------------------------------------------------------------------------
(* Under the lock.                                                         *)

Only(condition, steps) == IF condition THEN steps ELSE <<>>

InstallSteps(p) ==
  Only("prepare" \in p.needed, << <<"prepare", "host">> >>)
  \o Only("secure" \in p.needed, << <<"secure", "root">> >>)
  \o Only("copy" \in p.needed,
          << <<"clear", "src">>, <<"copy", "src">>, <<"clear", "rest">>, <<"copy", "rest">> >>)
  \o Only("import" \in p.needed, << <<"import", "config">> >>)
  \o Only("validate" \in p.needed, << <<"validate", "config">> >>)
  \o Only("launcher" \in p.needed, << <<"install", "launcher">> >>)
  \o Only("unit" \in p.needed, << <<"install", "unit">> >>)
  \o Only("start" \in p.needed, << <<"start", "daemon">> >>)
  \o << <<"record", "deployment">> >>

RollbackSteps(p) ==
  Only(p.removals # {}, << <<"stop", "daemon">> >>)
  \o Only("config" \in p.restores, << <<"restore", "config">> >>)
  \o Only("unit" \in p.restores, << <<"restore", "unit">> >>)
  \o Only("launcher" \in p.restores, << <<"restore", "launcher">> >>)
  \o Only("unit" \in p.removals, << <<"remove", "unit">> >>)
  \o Only("launcher" \in p.removals, << <<"remove", "launcher">> >>)
  \o Only(Record(p).archive,
          << <<"clear", "src">>, <<"clear", "rest">>, <<"unpack", "archive">> >>)
  \o << <<"restart", "daemon">> >>

\* refuse_changes, and the same for the tree, if there was one.
AsPlanned(p) ==
  /\ \A f \in Managed : disk[f] = p.seen[f]
  /\ p.seen.src # "none" => Tree(disk) = Tree(p.seen)

\* Mutant of Archives: the application is kept only if it is going to be copied.
ArchivesCopied(p) == p.release # "none" /\ "copy" \in p.needed

\* The application is kept if the inspection saw a release.
Archives(p) == p.release # "none" /\ p.candidate # Root

\* The directory of an install, with its manifest: what it is going to replace.
Backup(p) ==
  [before |-> disk, candidate |-> p.candidate, archive |-> Archives(p),
   complete |-> FALSE, after |-> Bare(NoConfig)]

\* Mutant of Install: what was planned for is not compared under the lock.
InstallUnchecked(r) ==
  /\ plan[r].op = "install" /\ lock = "none" /\ Len(backups) < MaxDirs
  /\ lock' = r /\ todo' = InstallSteps(plan[r])
  /\ backups' = Append(backups, Backup(plan[r]))
  /\ UNCHANGED <<disk, prepared, daemon, attached, attaching, plan, edits, failures>>

Install(r) ==
  /\ plan[r].op = "install" /\ lock = "none" /\ Len(backups) < MaxDirs
  /\ AsPlanned(plan[r])
  /\ lock' = r /\ todo' = InstallSteps(plan[r])
  /\ backups' = Append(backups, Backup(plan[r]))
  /\ UNCHANGED <<disk, prepared, daemon, attached, attaching, plan, edits, failures>>

\* Mutant of Rollback: the check is not repeated under the lock.
RollbackUnchecked(r) ==
  /\ plan[r].op = "rollback" /\ lock = "none"
  /\ lock' = r /\ todo' = RollbackSteps(plan[r])
  /\ UNCHANGED <<disk, prepared, daemon, attached, attaching, backups, plan, edits, failures>>

Rollback(r) ==
  /\ plan[r].op = "rollback" /\ lock = "none"
  /\ Permitted(plan[r])
  /\ lock' = r /\ todo' = RollbackSteps(plan[r])
  /\ UNCHANGED <<disk, prepared, daemon, attached, attaching, backups, plan, edits, failures>>

\* The lock goes with the last step.
Continue(steps) ==
  IF steps = <<>>
  THEN lock' = "none" /\ todo' = <<>> /\ plan' = [plan EXCEPT ![lock] = NoPlan]
  ELSE todo' = steps /\ UNCHANGED <<lock, plan>>

At(do, what) == lock # "none" /\ Head(todo) = <<do, what>>
Done == Continue(Tail(todo))
Becomes(d) ==
  /\ disk' = d /\ Done
  /\ UNCHANGED <<prepared, daemon, attached, attaching, backups, edits, failures>>

\* apt-get, the user and the directories.
Prepare ==
  /\ At("prepare", "host")
  /\ prepared' = TRUE /\ Done
  /\ UNCHANGED <<disk, daemon, attached, attaching, backups, edits, failures>>

\* secure_root: entries of nobody are moved away, owners and modes set.
Secure ==
  /\ At("secure", "root")
  /\ Becomes([disk EXCEPT !.secure = TRUE, !.config.ready = disk.config # NoConfig])

\* copy_app: each part is removed and copied anew; rollback removes them as well.
Clear(part) == At("clear", part) /\ Becomes([disk EXCEPT ![part] = "none"])
Copy(part) == At("copy", part) /\ Becomes([disk EXCEPT ![part] = plan[lock].candidate])

Import ==
  /\ At("import", "config")
  /\ Becomes([disk EXCEPT !.config = Config(plan[lock].import, TRUE)])
Validate == At("validate", "config") /\ Becomes([disk EXCEPT !.config.ready = TRUE])

\* The launcher; the unit with its daemon-reload.
InstallFile(f) ==
  /\ At("install", f) /\ Source(plan[lock]) \in Releases
  /\ Becomes([disk EXCEPT ![f] = Offers(plan[lock])[f]])

DaemonIs(d) ==
  /\ daemon' = d /\ Done
  /\ UNCHANGED <<disk, prepared, attached, attaching, backups, edits, failures>>

\* enable and restart, and the wait for the socket.
Start == At("start", "daemon") /\ Startable /\ DaemonIs(disk.src)

\* record_after makes the deployment complete.
RecordAfter ==
  /\ At("record", "deployment")
  /\ backups' = [backups EXCEPT ![Len(backups)].complete = TRUE, ![Len(backups)].after = disk]
  /\ Done
  /\ UNCHANGED <<disk, prepared, daemon, attached, attaching, edits, failures>>

Stop == At("stop", "daemon") /\ DaemonIs("none")

Restore(f) ==
  /\ At("restore", f) /\ f \in plan[lock].restores
  /\ Becomes([disk EXCEPT ![f] = Record(plan[lock]).before[f]])

Remove(f) ==
  /\ At("remove", f) /\ f \in plan[lock].removals /\ ~Absent(disk, f)
  /\ Becomes([disk EXCEPT ![f] = "none"])

\* The archive is of the whole root, config.toml included.
Unpack ==
  /\ At("unpack", "archive")
  /\ LET before == Record(plan[lock]).before
     IN  Becomes([disk EXCEPT !.src = before.src, !.rest = before.rest, !.secure = before.secure,
                              !.config = IF before.config = NoConfig THEN disk.config
                                         ELSE before.config])

\* daemon-reload, and a restart where there is a unit.
Restart ==
  /\ At("restart", "daemon")
  /\ \/ disk.unit = "none" /\ DaemonIs(daemon)
     \/ disk.unit # "none" /\ Startable /\ DaemonIs(disk.src)

MustFail ==
  \/ Head(todo)[1] = "install" /\ Source(plan[lock]) \notin Releases
  \/ At("start", "daemon") /\ ~Startable
  \/ At("restart", "daemon") /\ disk.unit # "none" /\ ~Startable
  \/ \E f \in Managed : At("remove", f) /\ Absent(disk, f)

\* What a step that stops half-way leaves of a part it was copying or removing.
Stopped(part) ==
  {disk[part]}
  \cup (IF At("copy", part) \/ (At("clear", part) /\ disk[part] # "none") THEN {"partial"} ELSE {})
  \cup (IF At("unpack", "archive") THEN {"partial", Record(plan[lock]).before[part]} ELSE {})

\* A step fails or the run is killed in it: what was done stays done.  A daemon
\* that did not become ready in time may be down, or ready later.
StepFails ==
  /\ lock # "none"
  /\ ~MustFail => failures < MaxFailures
  /\ failures' = IF MustFail THEN failures ELSE failures + 1
  /\ \/ UNCHANGED daemon
     \/ (At("start", "daemon") \/ At("restart", "daemon"))
          /\ daemon' \in {"none"} \cup (IF Startable THEN {disk.src} ELSE {})
  /\ \E src \in Stopped("src"), rest \in Stopped("rest") :
       disk' = [disk EXCEPT !.src = src, !.rest = rest]
  /\ Continue(<<>>)
  /\ UNCHANGED <<prepared, attached, attaching, backups, edits>>
-----------------------------------------------------------------------------
(* Around the installer: configure-postfix, which Activation has in full,  *)
(* administrators and systemd.                                             *)

\* configure-postfix asks for a running daemon before it has the lock.
PlanAttach ==
  /\ daemon # "none" /\ ~attached /\ ~attaching
  /\ attaching' = TRUE
  /\ UNCHANGED <<disk, prepared, daemon, attached, backups, lock, plan, todo, edits, failures>>

\* It attaches Postfix, or refuses, or fails and undoes it.
Attach ==
  /\ attaching /\ lock = "none"
  /\ attached' \in BOOLEAN /\ attaching' = FALSE
  /\ UNCHANGED <<disk, prepared, daemon, backups, lock, plan, todo, edits, failures>>

\* The rollback of the first activation.
Detach ==
  /\ attached /\ lock = "none"
  /\ attached' = FALSE
  /\ UNCHANGED <<disk, prepared, daemon, attaching, backups, lock, plan, todo, edits, failures>>

\* An edit of config.toml, or of a mode or an owner in the application, while no run
\* holds the lock.
Edit ==
  /\ lock = "none" /\ edits < MaxEdits /\ edits' = edits + 1
  /\ \/ \E c \in Configs, ready \in BOOLEAN : disk' = [disk EXCEPT !.config = Config(c, ready)]
     \/ disk' = [disk EXCEPT !.secure = FALSE]
  /\ disk' # disk
  /\ UNCHANGED <<prepared, daemon, attached, attaching, backups, lock, plan, todo, failures>>

\* The daemon ends; systemd or an administrator starts it, or starts it again.
DaemonEnds ==
  /\ daemon # "none" /\ daemon' = "none"
  /\ UNCHANGED <<disk, prepared, attached, attaching, backups, lock, plan, todo, edits, failures>>
DaemonStarts ==
  /\ Startable /\ daemon # disk.src /\ daemon' = disk.src
  /\ UNCHANGED <<disk, prepared, attached, attaching, backups, lock, plan, todo, edits, failures>>

Next ==
  \/ \E r \in Runs :
       \/ \E c \in Releases \cup {Root}, i \in Configs \cup {"none"} : Inspect(r, c, i)
       \/ PlanInstall(r) \/ NothingToChange(r) \/ Withdraw(r) \/ Install(r) \/ Rollback(r)
       \/ \E i \in DOMAIN backups, force \in BOOLEAN : PlanRollback(r, i, force)
  \/ Prepare \/ Secure \/ Import \/ Validate \/ Start \/ RecordAfter \/ Stop \/ Unpack \/ Restart
  \/ \E part \in {"src", "rest"} : Clear(part) \/ Copy(part)
  \/ \E f \in Managed : Restore(f)
  \/ \E f \in {"unit", "launcher"} : InstallFile(f) \/ Remove(f)
  \/ StepFails
  \/ PlanAttach \/ Attach \/ Detach \/ Edit \/ DaemonEnds \/ DaemonStarts

Spec == Init /\ [][Next]_vars
-----------------------------------------------------------------------------
Contents == Releases \cup {"none", "partial"}
Disks ==
  [src : Contents, rest : Contents, secure : BOOLEAN,
   config : [text : Configs \cup {"none"}, ready : BOOLEAN],
   unit : {UnitOf[c] : c \in Releases} \cup {"none"}, launcher : Contents]

(* The shape of the state; a run has steps left exactly while it holds the *)
(* lock, with the plan it took it for, and only the newest directory may   *)
(* be one that is still being completed.                                   *)
ITypeOK ==
  /\ disk \in Disks
  /\ daemon \in Contents
  /\ lock \in Runs \cup {"none"}
  /\ (lock = "none") = (todo = <<>>)
  /\ lock # "none" => plan[lock].op \in {"install", "rollback"}
  /\ \A i \in DOMAIN backups : backups[i].before \in Disks /\ backups[i].after \in Disks
  /\ \A r \in Runs : plan[r].op = "rollback" => plan[r].record \in DOMAIN backups

(* A deployment that is recorded as installed is installed: every file is  *)
(* the candidate's although the steps were chosen before the lock, and the *)
(* daemon runs it, unless an earlier run failed (docs/Installation.md).    *)
CompletedInstall ==
  [][At("record", "deployment") /\ backups' # backups =>
       LET p == plan[lock]
       IN  /\ Same(p) /\ [launcher |-> disk.launcher, unit |-> disk.unit] = Offers(p)
           /\ disk.config.ready /\ p.import \in {"none", disk.config.text}
           /\ p.seen.src # "none" => disk.secure
           /\ failures = 0 => daemon \in {disk.src, "none"}]_vars

(* A rollback that completes has undone its install, wherever that, or an  *)
(* earlier rollback of it, stopped: the unit, the launcher, config.toml if *)
(* there was one and the release that was installed are as they were.      *)
RollbackRestores ==
  [][At("restart", "daemon") /\ UNCHANGED failures =>
       LET record == Record(plan[lock])
           before == record.before
       IN  /\ disk.unit = before.unit /\ disk.launcher = before.launcher
           /\ before.config \in {NoConfig, disk.config}
           /\ before.src \in Releases /\ record.candidate # Root => Tree(disk) = Tree(before)]_todo

(* What Postfix needs is not taken from under it: a rollback never removes *)
(* the unit or the launcher while Postfix uses postwarden, although        *)
(* configure-postfix may attach it between the plan and the lock.          *)
DetachedFirst ==
  [][\A f \in {"unit", "launcher"} : ~Absent(disk, f) /\ Absent(disk', f) => ~attached]_vars

(* docs/Installation.md: the new release is copied in and the daemon       *)
(* restarted.  A run that finds nothing to change finds a daemon that runs *)
(* the installed release.                                                  *)
NothingToChangeMeansRunning ==
  [][\A r \in Runs : NothingToChange(r) => daemon \in {disk.src, "none"}]_vars
=============================================================================
