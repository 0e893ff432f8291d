-------------------------- MODULE InstallationProofs --------------------------
(***************************************************************************)
(* Installation for any number of releases, configurations, failures and   *)
(* edits.  For any number of runs: the type invariant, and that no rollback *)
(* takes the unit or the launcher from under a Postfix that uses           *)
(* postwarden.  For one run at a time: a completed install has installed   *)
(* everything, and a completed rollback has undone its install.            *)
(***************************************************************************)
EXTENDS Installation, TLAPS

Files == {"unit", "launcher"}
Fields == {"src", "rest", "secure", "config"} \cup Files

Shape ==
  /\ disk = [x \in Fields |-> disk[x]]
  /\ plan = [r \in Runs |-> plan[r]]
  /\ lock \in Runs \cup {"none"}
  /\ \E S : backups \in Seq(S)
  /\ \A i \in DOMAIN backups : "before" \in DOMAIN backups[i]

\* A plan to restore a file has a copy of it; only rollbacks restore or remove.
PlanOk(r) ==
  /\ plan[r].op # "rollback" => plan[r].restores = {} /\ plan[r].removals = {}
  /\ \A f \in plan[r].restores \cap Files :
       plan[r].record \in DOMAIN backups /\ backups[plan[r].record].before[f] # "none"

\* The run that holds the lock took it while Postfix did not need what it removes.
Holds ==
  lock # "none" =>
    /\ plan[lock].op \in {"install", "rollback"}
    /\ plan[lock].removals # {} => ~attached

DetachedInv == Shape /\ Holds /\ \A r \in Runs : PlanOk(r)

LEMMA InitDetached == Init => DetachedInv
<1> SUFFICES ASSUME Init PROVE DetachedInv
  OBVIOUS
<1>1. disk = [x \in Fields |-> disk[x]]
  BY DEF Init, Bare, Fields, Files
<1>2. plan = [r \in Runs |-> NoPlan] /\ lock = "none" /\ backups = <<>>
  BY DEF Init
<1>3. backups \in Seq({}) /\ DOMAIN backups = {}
  BY <1>2
<1>4. \A r \in Runs : PlanOk(r)
  BY <1>2 DEF PlanOk, NoPlan
<1> QED  BY <1>1, <1>2, <1>3, <1>4 DEF DetachedInv, Shape, Holds

(* Steps that change one plan of a run without the lock.                   *)
LEMMA PlanStep ==
  ASSUME DetachedInv, NEW r \in Runs, NEW p, UNCHANGED <<disk, attached, backups, lock>>,
         plan' = [plan EXCEPT ![r] = p], lock # r,
         p.op # "rollback" => p.restores = {} /\ p.removals = {},
         \A f \in p.restores \cap Files :
           p.record \in DOMAIN backups /\ backups[p.record].before[f] # "none"
  PROVE  DetachedInv'
<1>1. plan'[r] = p /\ (\A u \in Runs \ {r} : plan'[u] = plan[u]) /\ DOMAIN plan' = Runs
  BY DEF DetachedInv, Shape
<1>2. plan' = [u \in Runs |-> plan'[u]]
  BY DEF DetachedInv, Shape
<1>3. \A u \in Runs : PlanOk(u)'
  BY <1>1 DEF DetachedInv, PlanOk
<1>4. Holds'
  BY <1>1 DEF DetachedInv, Holds, Shape
<1> QED  BY <1>2, <1>3, <1>4 DEF DetachedInv, Shape

(* Steps of the run that holds the lock, which is given back with the      *)
(* last.                                                                   *)
LEMMA LockStep ==
  ASSUME DetachedInv, UNCHANGED <<attached, backups>>, lock # "none",
         disk' = [x \in Fields |-> disk'[x]], NEW steps, Continue(steps)
  PROVE  DetachedInv'
<1>1. CASE lock' = lock /\ plan' = plan
  BY <1>1 DEF DetachedInv, Shape, Holds, PlanOk
<1>2. CASE lock' = "none" /\ plan' = [plan EXCEPT ![lock] = NoPlan]
  <2>1. plan' = [u \in Runs |-> plan'[u]]
    BY <1>2 DEF DetachedInv, Shape
  <2>2. \A u \in Runs : plan'[u] = plan[u] \/ plan'[u] = NoPlan
    BY <1>2 DEF DetachedInv, Shape
  <2>3. NoPlan.restores = {} /\ NoPlan.removals = {}
    BY DEF NoPlan
  <2>4. \A u \in Runs : PlanOk(u)'
    BY <2>2, <2>3 DEF DetachedInv, PlanOk
  <2> QED  BY <1>2, <2>1, <2>4 DEF DetachedInv, Shape, Holds
<1> QED  BY <1>1, <1>2 DEF Continue

(* A step on the disk keeps the unit and the launcher, or puts something   *)
(* in their place.                                                         *)
Keeps == \A f \in Files : disk'[f] = "none" => disk[f] = "none"

Shaped(d) == d = [x \in Fields |-> d[x]]

LEMMA SetPart ==
  ASSUME NEW d, Shaped(d), NEW x, NEW value
  PROVE  /\ Shaped([d EXCEPT ![x] = value])
         /\ \A f \in Fields \ {x} : [d EXCEPT ![x] = value][f] = d[f]
         /\ x \in Fields => [d EXCEPT ![x] = value][x] = value
<1> QED  BY DEF Shaped

LEMMA BecomesStep ==
  ASSUME DetachedInv, lock # "none", NEW d, Shaped(d), Becomes(d)
  PROVE  DetachedInv' /\ disk' = d
<1>1. disk' = d /\ Continue(Tail(todo)) /\ UNCHANGED <<attached, backups>>
  BY DEF Becomes, Done
<1> QED  BY <1>1, LockStep DEF Shaped

\* The steps on the disk that leave the unit and the launcher alone.
Elsewhere ==
  \/ Secure \/ Import \/ Validate \/ Unpack
  \/ \E part \in {"src", "rest"} : Clear(part) \/ Copy(part)

LEMMA ElsewhereStep ==
  ASSUME DetachedInv, Elsewhere
  PROVE  DetachedInv' /\ \A f \in Files : disk'[f] = disk[f]
<1>1. Shaped(disk)
  BY DEF DetachedInv, Shape, Shaped
<1>2. /\ {"src", "rest", "secure", "config"} \cap Files = {} /\ Files \subseteq Fields
      /\ lock # "none"
  BY DEF Elsewhere, Secure, Import, Validate, Unpack, Clear, Copy, At, Files, Fields
<1>3. CASE \E part \in {"src", "rest"} : \E value : Becomes([disk EXCEPT ![part] = value])
  <2>1. PICK part \in {"src", "rest"} : \E value : Becomes([disk EXCEPT ![part] = value])
    BY <1>3
  <2>value. PICK value : Becomes([disk EXCEPT ![part] = value])
    BY <2>1
  <2> DEFINE d == [disk EXCEPT ![part] = value]
  <2>2. Becomes(d)
    BY <2>value
  <2>3. Shaped(d) /\ \A f \in Files : d[f] = disk[f]
    BY <1>1, <1>2, SetPart
  <2> HIDE DEF d
  <2> QED  BY <1>2, <2>2, <2>3, BecomesStep
<1>4. CASE \E value : Becomes([disk EXCEPT !.config = value])
  <2>1. PICK value : Becomes([disk EXCEPT !.config = value])
    BY <1>4
  <2> DEFINE d == [disk EXCEPT !.config = value]
  <2>2. Becomes(d)
    BY <2>1
  <2>3. Shaped(d) /\ \A f \in Files : d[f] = disk[f]
    BY <1>1, <1>2 DEF Shaped
  <2> HIDE DEF d
  <2> QED  BY <1>2, <2>2, <2>3, BecomesStep
<1>5. CASE Secure
  <2> DEFINE d == [disk EXCEPT !.secure = TRUE, !.config.ready = disk.config # NoConfig]
  <2>1. Becomes(d)
    BY <1>5 DEF Secure
  <2>2. Shaped(d) /\ \A f \in Files : d[f] = disk[f]
    BY <1>1, <1>2 DEF Shaped
  <2> HIDE DEF d
  <2> QED  BY <1>2, <2>1, <2>2, BecomesStep
<1>6. CASE Unpack
  <2> DEFINE before == Record(plan[lock]).before
             d == [disk EXCEPT !.src = before.src, !.rest = before.rest,
                               !.secure = before.secure,
                               !.config = IF before.config = NoConfig THEN disk.config
                                          ELSE before.config]
  <2>1. Becomes(d)
    BY <1>6 DEF Unpack
  <2> HIDE DEF before
  <2>2. Shaped(d) /\ \A f \in Files : d[f] = disk[f]
    BY <1>1, <1>2 DEF Shaped
  <2> HIDE DEF d
  <2> QED  BY <1>2, <2>1, <2>2, BecomesStep
<1>7. CASE Validate
  <2> DEFINE d == [disk EXCEPT !.config.ready = TRUE]
  <2>1. Becomes(d)
    BY <1>7 DEF Validate
  <2>2. Shaped(d) /\ \A f \in Files : d[f] = disk[f]
    BY <1>1, <1>2 DEF Shaped
  <2> HIDE DEF d
  <2> QED  BY <1>2, <2>1, <2>2, BecomesStep
<1> QED  BY <1>3, <1>4, <1>5, <1>6, <1>7 DEF Elsewhere, Import, Clear, Copy

(* The steps that put the unit or the launcher in place.                   *)
LEMMA FileStep ==
  ASSUME DetachedInv, NEW f \in Managed, (f \in Files /\ InstallFile(f)) \/ Restore(f)
  PROVE  DetachedInv' /\ \A g \in Files : disk'[g] = "none" => disk[g] = "none"
<1>1. Shaped(disk)
  BY DEF DetachedInv, Shape, Shaped
<1>2. Managed = Files \cup {"config"} /\ Managed \subseteq Fields /\ "config" \notin Files
  BY DEF Managed, Files, Fields
<1>3. PICK value : Becomes([disk EXCEPT ![f] = value]) /\ (f \in Files => value # "none")
  <2>1. CASE f \in Files /\ InstallFile(f)
    <3>1. Source(plan[lock]) \in Releases /\ Becomes([disk EXCEPT ![f] = Offers(plan[lock])[f]])
      BY <2>1 DEF InstallFile
    <3>2. Offers(plan[lock])[f] # "none"
      <4>1. CASE f = "launcher"
        BY <3>1, <4>1, InstallationAssumption DEF Offers
      <4>2. CASE f = "unit"
        <5>1. UnitOf[Source(plan[lock])] # "none"
          BY <3>1, InstallationAssumption
        <5> QED  BY <3>1, <4>2, <5>1 DEF Offers
      <4> QED  BY <2>1, <4>1, <4>2 DEF Files
    <3> QED  BY <3>1, <3>2
  <2>2. CASE Restore(f)
    <3>1. /\ lock # "none" /\ f \in plan[lock].restores
          /\ Becomes([disk EXCEPT ![f] = Record(plan[lock]).before[f]])
      BY <2>2 DEF Restore, At
    <3>2. f \in Files => Record(plan[lock]).before[f] # "none"
      BY <3>1 DEF DetachedInv, Shape, PlanOk, Record
    <3> QED  BY <3>1, <3>2
  <2> QED  BY <2>1, <2>2
<1>4. lock # "none"
  BY DEF InstallFile, Restore, At
<1> DEFINE d == [disk EXCEPT ![f] = value]
<1>5. Shaped(d) /\ \A g \in Files : d[g] = "none" => disk[g] = "none"
  BY <1>1, <1>2, <1>3, SetPart
<1>6. Becomes(d)
  BY <1>3
<1> HIDE DEF d
<1>7. disk' = d
  BY <1>6 DEF Becomes
<1> QED  BY <1>4, <1>5, <1>6, <1>7, BecomesStep

(* The steps of the run that holds the lock, of which only a removal takes *)
(* a file away.                                                            *)
Safe == Keeps \/ ~attached

LEMMA RemoveStep ==
  ASSUME DetachedInv, NEW f \in Files, Remove(f)
  PROVE  DetachedInv' /\ ~attached
<1>1. lock # "none" /\ f \in plan[lock].removals /\ Becomes([disk EXCEPT ![f] = "none"])
  BY DEF Remove, At
<1>2. ~attached
  BY <1>1 DEF DetachedInv, Holds
<1> DEFINE d == [disk EXCEPT ![f] = "none"]
<1>3. Shaped(d)
  BY SetPart DEF DetachedInv, Shape, Shaped
<1>4. Becomes(d)
  BY <1>1
<1> HIDE DEF d
<1> QED  BY <1>1, <1>2, <1>3, <1>4, BecomesStep

\* The steps that leave the disk alone.
OffDisk == Prepare \/ Start \/ Stop \/ Restart

LEMMA OffDiskStep ==
  ASSUME DetachedInv, OffDisk
  PROVE  DetachedInv' /\ UNCHANGED disk
<1>1. lock # "none" /\ UNCHANGED <<disk, attached, backups>> /\ \E steps : Continue(steps)
  <2>1. \A d : DaemonIs(d) => Continue(Tail(todo)) /\ UNCHANGED <<disk, attached, backups>>
    BY DEF DaemonIs, Done
  <2>2. CASE Prepare
    BY <2>2 DEF Prepare, At, Done
  <2>3. CASE Start \/ Stop \/ Restart
    BY <2>1, <2>3 DEF Start, Stop, Restart, At
  <2> QED  BY <2>2, <2>3 DEF OffDisk
<1>2. disk' = [x \in Fields |-> disk'[x]]
  BY <1>1 DEF DetachedInv, Shape
<1>3. PICK steps : Continue(steps)
  BY <1>1
<1> QED  BY <1>1, <1>2, <1>3, LockStep

(* A run that fails may leave a part of the application incomplete.        *)
LEMMA FailsStep ==
  ASSUME DetachedInv, StepFails
  PROVE  DetachedInv' /\ Keeps
<1>1. /\ lock # "none" /\ UNCHANGED <<attached, backups>> /\ Continue(<<>>)
      /\ \E src, rest : disk' = [disk EXCEPT !.src = src, !.rest = rest]
  BY DEF StepFails
<1>2. PICK src, rest : disk' = [disk EXCEPT !.src = src, !.rest = rest]
  BY <1>1
<1>3. disk' = [x \in Fields |-> disk'[x]] /\ \A f \in Files : disk'[f] = disk[f]
  BY <1>2 DEF DetachedInv, Shape, Fields, Files
<1> QED  BY <1>1, <1>3, LockStep DEF Keeps

(* What the deployment leaves is recorded; what was there before stays.    *)
LEMMA RecordStep ==
  ASSUME DetachedInv, RecordAfter
  PROVE  DetachedInv' /\ UNCHANGED disk
<1> DEFINE last == Len(backups)
           record == [backups[last] EXCEPT !.complete = TRUE, !.after = disk]
<1>1. /\ lock # "none" /\ Continue(Tail(todo)) /\ UNCHANGED <<disk, attached>>
      /\ backups' = [backups EXCEPT ![last] = record]
  BY DEF RecordAfter, At, Done
<1>2. PICK S : backups \in Seq(S)
  BY DEF DetachedInv, Shape
<1>3. backups' \in Seq(S \cup {record}) /\ DOMAIN backups' = DOMAIN backups
  <2> HIDE DEF record
  <2>1. /\ last \in Nat /\ DOMAIN backups = 1..last
        /\ \A i \in 1..last : backups[i] \in S
    BY <1>2
  <2>2. backups' = [i \in DOMAIN backups |-> IF i = last THEN record ELSE backups[i]]
    BY <1>1
  <2> HIDE DEF last
  <2>3. backups' = [i \in 1..last |-> IF i = last THEN record ELSE backups[i]]
    BY <2>1, <2>2
  <2>4. backups' \in Seq(S \cup {record})
    BY <2>1, <2>3
  <2> QED  BY <2>1, <2>3, <2>4
<1>4. \A i \in DOMAIN backups : "before" \in DOMAIN backups[i]
  BY DEF DetachedInv, Shape
<1>5. \A i \in DOMAIN backups :
         "before" \in DOMAIN backups'[i] /\ backups'[i].before = backups[i].before
  BY <1>1, <1>2, <1>4
<1> HIDE DEF record
<1>6. \A r \in Runs : plan'[r] = plan[r] \/ plan'[r] = NoPlan
  BY <1>1 DEF Continue, DetachedInv, Shape
<1>7. \A r \in Runs : PlanOk(r)'
  BY <1>3, <1>5, <1>6 DEF DetachedInv, PlanOk, NoPlan
<1>8. plan' = [r \in Runs |-> plan'[r]] /\ lock' \in Runs \cup {"none"}
  BY <1>1 DEF Continue, DetachedInv, Shape
<1>9. Holds'
  BY <1>1 DEF Continue, DetachedInv, Holds
<1>10. Shape'
  BY <1>1, <1>3, <1>5, <1>8 DEF DetachedInv, Shape
<1> QED  BY <1>1, <1>7, <1>9, <1>10 DEF DetachedInv

(* A run that takes the lock.                                              *)
LEMMA TakeStep ==
  ASSUME DetachedInv, NEW r \in Runs, Install(r) \/ Rollback(r)
  PROVE  DetachedInv' /\ UNCHANGED disk
<1>1. /\ lock' = r /\ UNCHANGED <<disk, attached, plan>>
      /\ plan[r].op \in {"install", "rollback"}
  BY DEF Install, Rollback
<1>2. plan[r].removals # {} => ~attached
  BY DEF Install, Rollback, Permitted, DetachedInv, PlanOk
<1>3. Holds'
  BY <1>1, <1>2 DEF Holds
<1>4. PICK S : backups \in Seq(S)
  BY DEF DetachedInv, Shape
<1>5. CASE backups' = backups
  BY <1>1, <1>3, <1>5 DEF DetachedInv, Shape, PlanOk
<1>6. CASE backups' = Append(backups, Backup(plan[r]))
  <2> DEFINE new == Backup(plan[r])
  <2>1. "before" \in DOMAIN new
    BY DEF Backup
  <2> HIDE DEF new
  <2>2. backups' = Append(backups, new)
    BY <1>6 DEF new
  <2>3. /\ backups' \in Seq(S \cup {new}) /\ DOMAIN backups \subseteq DOMAIN backups'
        /\ \A i \in DOMAIN backups : backups'[i] = backups[i]
        /\ \A i \in DOMAIN backups' : i \in DOMAIN backups \/ backups'[i] = new
    BY <1>4, <2>2
  <2>4. Shape'
    BY <1>1, <2>1, <2>3 DEF DetachedInv, Shape
  <2>5. \A u \in Runs : PlanOk(u)'
    BY <1>1, <2>3 DEF DetachedInv, PlanOk
  <2> QED  BY <1>1, <1>3, <2>4, <2>5 DEF DetachedInv
<1> QED  BY <1>1, <1>5, <1>6 DEF Install, Rollback

(* Inspections, plans and their end, which need no lock.                   *)
Plans(r) ==
  \/ \E c, i : Inspect(r, c, i)
  \/ PlanInstall(r) \/ NothingToChange(r) \/ Withdraw(r)
  \/ \E i \in DOMAIN backups, force \in BOOLEAN : PlanRollback(r, i, force)

LEMMA PlansStep ==
  ASSUME DetachedInv, NEW r \in Runs, Plans(r)
  PROVE  DetachedInv' /\ UNCHANGED disk
<1>1. UNCHANGED <<disk, attached, backups, lock>> /\ lock # r
  <2>1. r # "none"
    BY InstallationAssumption
  <2>2. plan[r].op \notin {"install", "rollback"} => lock # r
    BY <2>1 DEF DetachedInv, Holds
  <2>3. NoPlan.op = "none"
    BY DEF NoPlan
  <2> QED  BY <2>2, <2>3 DEF Plans, Inspect, PlanInstall, NothingToChange, Withdraw, PlanRollback
<1>2. NoPlan.restores = {} /\ NoPlan.removals = {} /\ NoPlan.op # "rollback"
  BY DEF NoPlan
<1>3. CASE NothingToChange(r) \/ Withdraw(r)
  <2>1. plan' = [plan EXCEPT ![r] = NoPlan]
    BY <1>3 DEF NothingToChange, Withdraw
  <2> QED  BY <1>1, <1>2, <2>1, PlanStep
<1>4. CASE \E c, i : Inspect(r, c, i)
  <2>0. PICK c, i : Inspect(r, c, i)
    BY <1>4
  <2>1. PICK version \in Versions : plan' = [plan EXCEPT ![r] =
          [NoPlan EXCEPT !.op = "inspected", !.candidate = c, !.import = i,
                         !.release = version, !.up = daemon # "none"]]
    BY <2>0 DEF Inspect
  <2> DEFINE p == [NoPlan EXCEPT !.op = "inspected", !.candidate = c, !.import = i,
                                 !.release = version, !.up = daemon # "none"]
  <2>2. plan' = [plan EXCEPT ![r] = p]
    BY <2>1
  <2>3. p.restores = {} /\ p.removals = {}
    BY DEF NoPlan
  <2> HIDE DEF p
  <2> QED  BY <1>1, <2>2, <2>3, PlanStep
<1>5. CASE PlanInstall(r)
  <2> DEFINE p == [plan[r] EXCEPT !.op = "install", !.seen = disk, !.needed = Needed(plan[r])]
  <2>1. plan[r].op = "inspected"
    BY <1>5 DEF PlanInstall
  <2>2. plan' = [plan EXCEPT ![r] = p]
    BY <1>5 DEF PlanInstall, DetachedInv, Shape
  <2>3. plan[r].restores = {} /\ plan[r].removals = {}
    BY <2>1 DEF DetachedInv, PlanOk
  <2>4. p.restores = {} /\ p.removals = {}
    BY <2>3
  <2> HIDE DEF p
  <2> QED  BY <1>1, <2>2, <2>4, PlanStep
<1>6. CASE \E i \in DOMAIN backups, force \in BOOLEAN : PlanRollback(r, i, force)
  <2>1. PICK i \in DOMAIN backups, force \in BOOLEAN : PlanRollback(r, i, force)
    BY <1>6
  <2> DEFINE p == [NoPlan EXCEPT !.op = "rollback", !.record = i, !.force = force,
                                 !.restores = Restores(backups[i]),
                                 !.removals = Removals(backups[i])]
  <2>2. plan' = [plan EXCEPT ![r] = p]
    BY <2>1 DEF PlanRollback
  <2>3. p.op = "rollback" /\ p.record = i /\ p.restores = Restores(backups[i])
    BY DEF NoPlan
  <2>4. \A f \in p.restores \cap Files : backups[i].before[f] # "none"
    BY <2>3 DEF Restores, Absent, Files
  <2> HIDE DEF p
  <2>5. \A f \in p.restores \cap Files :
           p.record \in DOMAIN backups /\ backups[p.record].before[f] # "none"
    BY <2>3, <2>4
  <2> QED  BY <1>1, <2>2, <2>3, <2>5, PlanStep
<1> QED  BY <1>1, <1>3, <1>4, <1>5, <1>6 DEF Plans

(* Postfix is attached and detached, and configurations edited, while no   *)
(* run holds the lock.                                                     *)
Around == PlanAttach \/ Attach \/ Detach \/ Edit \/ DaemonEnds \/ DaemonStarts

LEMMA AroundStep ==
  ASSUME DetachedInv, Around
  PROVE  DetachedInv' /\ \A f \in Files : disk'[f] = disk[f]
<1>1. UNCHANGED <<backups, lock, plan>> /\ (lock = "none" \/ UNCHANGED <<disk, attached>>)
  BY DEF Around, PlanAttach, Attach, Detach, Edit, DaemonEnds, DaemonStarts
<1>2. Shaped(disk') /\ \A f \in Files : disk'[f] = disk[f]
  <2>1. Shaped(disk)
    BY DEF DetachedInv, Shape, Shaped
  <2>2. CASE Edit
    <3>1. \E part \in {"config", "secure"} : \E value : disk' = [disk EXCEPT ![part] = value]
      BY <2>2 DEF Edit
    <3>part. PICK part \in {"config", "secure"} : \E value : disk' = [disk EXCEPT ![part] = value]
      BY <3>1
    <3>2. PICK value : disk' = [disk EXCEPT ![part] = value]
      BY <3>part
    <3>3. {"config", "secure"} \cap Files = {} /\ Files \subseteq Fields
      BY DEF Files, Fields
    <3> DEFINE d == [disk EXCEPT ![part] = value]
    <3>4. disk' = d
      BY <3>2
    <3>5. Shaped(d) /\ \A f \in Files : d[f] = disk[f]
      BY <2>1, <3>3, SetPart
    <3> HIDE DEF d
    <3> QED  BY <3>4, <3>5 DEF Shaped
  <2>3. CASE UNCHANGED disk
    BY <2>1, <2>3 DEF Shaped
  <2> QED  BY <2>2, <2>3 DEF Around, PlanAttach, Attach, Detach, DaemonEnds, DaemonStarts
<1>3. Holds' /\ \A r \in Runs : PlanOk(r)'
  BY <1>1 DEF DetachedInv, Holds, PlanOk
<1> QED  BY <1>1, <1>2, <1>3 DEF DetachedInv, Shape, Shaped

LEMMA NextDetached ==
  ASSUME DetachedInv, [Next]_vars
  PROVE  DetachedInv' /\ Safe
<1>1. CASE UNCHANGED vars
  BY <1>1 DEF vars, DetachedInv, Shape, Holds, PlanOk, Safe, Keeps
<1>2. CASE \E r \in Runs : Plans(r) \/ Install(r) \/ Rollback(r)
  BY <1>2, PlansStep, TakeStep DEF Safe, Keeps
<1>3. CASE OffDisk \/ RecordAfter \/ StepFails
  BY <1>3, OffDiskStep, RecordStep, FailsStep DEF Safe, Keeps
<1>4. CASE Elsewhere
  BY <1>4, ElsewhereStep DEF Safe, Keeps
<1>5. CASE \E f \in Managed : (f \in Files /\ InstallFile(f)) \/ Restore(f)
  BY <1>5, FileStep DEF Safe, Keeps
<1>6. CASE \E f \in Files : Remove(f)
  BY <1>6, RemoveStep DEF Safe
<1>7. CASE Around
  BY <1>7, AroundStep DEF Safe, Keeps
<1>8. Next => \/ \E r \in Runs : Plans(r) \/ Install(r) \/ Rollback(r)
              \/ OffDisk \/ RecordAfter \/ StepFails \/ Elsewhere
              \/ \E f \in Managed : (f \in Files /\ InstallFile(f)) \/ Restore(f)
              \/ \E f \in Files : Remove(f)
              \/ Around
  BY DEF Next, Plans, OffDisk, Elsewhere, Around, Managed, Files
<1> QED  BY <1>1, <1>2, <1>3, <1>4, <1>5, <1>6, <1>7, <1>8

(* Whatever runs, fails or is edited, no rollback takes the unit or the    *)
(* launcher from a Postfix that is attached: the check under the lock is   *)
(* enough, because Postfix is attached only while no run holds it.         *)
THEOREM DetachedBeforeRemoval == Spec => DetachedFirst
<1> DEFINE Removed == \A f \in {"unit", "launcher"} :
                         ~Absent(disk, f) /\ Absent(disk', f) => ~attached
<1>1. Safe => Removed
  BY DEF Safe, Keeps, Absent, Files
<1>2. Init => DetachedInv
  BY InitDetached
<1>3. DetachedInv /\ [Next]_vars => DetachedInv' /\ [Removed]_vars
  BY <1>1, NextDetached
<1> QED  BY <1>2, <1>3, PTL DEF Spec, DetachedFirst

-----------------------------------------------------------------------------
(* The steps of a run that holds the lock, as a set and in their order.    *)

Steps(s) == {s[i] : i \in DOMAIN s}
Left(s, do, what) == <<do, what>> \in Steps(s)

\* The place of a step in its run; the order of restored and removed files is theirs.
PlaceOf(file, config, unit, launcher) ==
  IF file = "config" THEN config ELSE IF file = "unit" THEN unit ELSE launcher
Rank(step) ==
  CASE step[1] = "stop" -> 1
    [] step[1] = "restore" -> PlaceOf(step[2], 2, 3, 4)
    [] step[1] = "remove" -> PlaceOf(step[2], 0, 5, 6)
    [] step[1] = "prepare" -> 7
    [] step[1] = "secure" -> 8
    [] step[1] = "clear" -> IF step[2] = "src" THEN 9 ELSE 11
    [] step[1] = "copy" -> IF step[2] = "src" THEN 10 ELSE 12
    [] step[1] = "unpack" -> 13
    [] step[1] = "import" -> 14
    [] step[1] = "validate" -> 15
    [] step[1] = "install" -> PlaceOf(step[2], 0, 17, 16)
    [] step[1] = "start" -> 18
    [] step[1] = "restart" -> 19
    [] step[1] = "record" -> 20

LEMMA Ranks ==
  /\ Rank(<<"stop", "daemon">>) = 1 /\ Rank(<<"restore", "config">>) = 2
  /\ Rank(<<"restore", "unit">>) = 3 /\ Rank(<<"restore", "launcher">>) = 4
  /\ Rank(<<"remove", "unit">>) = 5 /\ Rank(<<"remove", "launcher">>) = 6
  /\ Rank(<<"prepare", "host">>) = 7 /\ Rank(<<"secure", "root">>) = 8
  /\ Rank(<<"clear", "src">>) = 9 /\ Rank(<<"copy", "src">>) = 10
  /\ Rank(<<"clear", "rest">>) = 11 /\ Rank(<<"copy", "rest">>) = 12
  /\ Rank(<<"unpack", "archive">>) = 13 /\ Rank(<<"import", "config">>) = 14
  /\ Rank(<<"validate", "config">>) = 15 /\ Rank(<<"install", "launcher">>) = 16
  /\ Rank(<<"install", "unit">>) = 17 /\ Rank(<<"start", "daemon">>) = 18
  /\ Rank(<<"restart", "daemon">>) = 19 /\ Rank(<<"record", "deployment">>) = 20
BY DEF Rank, PlaceOf

\* A sequence of steps in their order, at places from a to b - 1.
Band(s, a, b) ==
  /\ s \in Seq(Steps(s))
  /\ \A i \in DOMAIN s : Rank(s[i]) \in a..(b - 1)
  /\ \A i, j \in DOMAIN s : i < j => Rank(s[i]) < Rank(s[j])

LEMMA BandJoin ==
  ASSUME NEW a \in Nat, NEW b \in Nat, NEW c \in Nat, a <= b, b <= c,
         NEW s, NEW t, Band(s, a, b), Band(t, b, c)
  PROVE  Band(s \o t, a, c) /\ Steps(s \o t) = Steps(s) \cup Steps(t)
<1> DEFINE u == s \o t
           m == Len(s)
           n == Len(t)
           S == Steps(s) \cup Steps(t)
<1>1. s \in Seq(S) /\ t \in Seq(S)
  BY DEF Band
<1>2. m \in Nat /\ n \in Nat /\ DOMAIN s = 1..m /\ DOMAIN t = 1..n /\ DOMAIN u = 1..(m + n)
  BY <1>1
<1>3. \A i \in 1..m : u[i] = s[i]
  BY <1>1
<1>4. \A i \in 1..(m + n) : i > m => u[i] = t[i - m] /\ i - m \in 1..n
  BY <1>1, <1>2
<1>u. u \in Seq(S)
  BY <1>1
<1> HIDE DEF u, m, n
<1>5. Steps(u) = S
  <2>1. Steps(u) \subseteq S
    BY <1>u, <1>2 DEF Steps
  <2>2. \A i \in 1..m : s[i] = u[i] /\ i \in 1..(m + n)
    BY <1>2, <1>3
  <2>3. \A i \in 1..n : t[i] = u[i + m] /\ (i + m) \in 1..(m + n)
    <3> SUFFICES ASSUME NEW i \in 1..n PROVE t[i] = u[i + m] /\ (i + m) \in 1..(m + n)
      OBVIOUS
    <3>1. (i + m) \in 1..(m + n) /\ i + m > m /\ (i + m) - m = i
      BY <1>2
    <3> QED  BY <1>4, <3>1
  <2> QED  BY <1>2, <2>1, <2>2, <2>3 DEF Steps
<1>6. \A i \in 1..m : Rank(s[i]) \in a..(b - 1)
  BY <1>2 DEF Band
<1>7. \A i \in 1..n : Rank(t[i]) \in b..(c - 1)
  BY <1>2 DEF Band
<1>8. \A i \in 1..(m + n) : Rank(u[i]) \in a..(c - 1)
  <2> SUFFICES ASSUME NEW i \in 1..(m + n) PROVE Rank(u[i]) \in a..(c - 1)
    OBVIOUS
  <2>1. CASE i <= m
    BY <1>2, <1>3, <1>6, <2>1
  <2>2. CASE i > m
    BY <1>2, <1>4, <1>7, <2>2
  <2> QED  BY <1>2, <2>1, <2>2
<1>9. ASSUME NEW i \in 1..(m + n), NEW j \in 1..(m + n), i < j
      PROVE  Rank(u[i]) < Rank(u[j])
  <2>1. CASE j <= m
    <3>1. i \in 1..m /\ j \in 1..m
      BY <1>2, <1>9, <2>1
    <3>2. Rank(s[i]) < Rank(s[j])
      BY <1>2, <1>9, <3>1 DEF Band
    <3> QED  BY <1>3, <3>1, <3>2
  <2>2. CASE i <= m /\ m < j
    <3>1. i \in 1..m /\ j - m \in 1..n
      BY <1>2, <1>4, <2>2
    <3>2. Rank(s[i]) \in a..(b - 1) /\ Rank(t[j - m]) \in b..(c - 1)
      BY <1>6, <1>7, <3>1
    <3>3. u[i] = s[i] /\ u[j] = t[j - m]
      BY <1>3, <1>4, <2>2, <3>1
    <3> QED  BY <3>2, <3>3
  <2>3. CASE m < i
    <3>1. i - m \in 1..n /\ j - m \in 1..n /\ i - m < j - m /\ m < j
      BY <1>2, <1>4, <1>9, <2>3
    <3>2. Rank(t[i - m]) < Rank(t[j - m])
      BY <1>2, <3>1 DEF Band
    <3> QED  BY <1>4, <2>3, <3>1, <3>2
  <2> QED  BY <1>2, <1>9, <2>1, <2>2, <2>3
<1> QED  BY <1>2, <1>5, <1>u, <1>8, <1>9 DEF Band, u

LEMMA BandOne ==
  ASSUME NEW x, NEW a \in Nat, NEW b \in Nat, Rank(x) \in a..(b - 1)
  PROVE  Band(<<x>>, a, b) /\ Steps(<<x>>) = {x}
<1>1. DOMAIN <<x>> = {1} /\ <<x>>[1] = x
  OBVIOUS
<1>2. Steps(<<x>>) = {x}
  BY <1>1 DEF Steps
<1>3. <<x>> \in Seq(Steps(<<x>>))
  BY <1>2
<1>4. \A i, j \in DOMAIN <<x>> : ~(i < j)
  BY <1>1
<1> QED  BY <1>1, <1>2, <1>3, <1>4 DEF Band

LEMMA BandNone ==
  ASSUME NEW a \in Nat, NEW b \in Nat
  PROVE  Band(<< >>, a, b) /\ Steps(<< >>) = {}
<1>1. DOMAIN << >> = {}
  OBVIOUS
<1>2. Steps(<< >>) = {}
  BY <1>1 DEF Steps
<1>3. << >> \in Seq(Steps(<< >>))
  OBVIOUS
<1> QED  BY <1>1, <1>2, <1>3 DEF Band

\* A step that is taken only if it is wanted.
LEMMA BandOnly ==
  ASSUME NEW x, NEW S, NEW e, NEW a \in Nat, NEW b \in Nat, Rank(x) \in a..(b - 1)
  PROVE  /\ Band(Only(e \in S, <<x>>), a, b)
         /\ Steps(Only(e \in S, <<x>>)) = IF e \in S THEN {x} ELSE {}
BY BandOne, BandNone DEF Only

LEMMA BandTail ==
  ASSUME NEW a \in Nat, NEW b \in Nat, NEW s, Band(s, a, b), s # <<>>
  PROVE  /\ Band(Tail(s), a, b) /\ Head(s) \in Steps(s)
         /\ Steps(Tail(s)) = Steps(s) \ {Head(s)}
         /\ \A x \in Steps(Tail(s)) : Rank(Head(s)) < Rank(x)
<1> DEFINE t == Tail(s)
           n == Len(s)
           S == Steps(s)
<1>1. s \in Seq(S)
  BY DEF Band
<1>2. n \in Nat /\ n > 0 /\ DOMAIN s = 1..n /\ DOMAIN t = 1..(n - 1) /\ Head(s) = s[1]
  BY <1>1
<1>3. \A i \in 1..(n - 1) : t[i] = s[i + 1] /\ (i + 1) \in 1..n
  BY <1>1, <1>2
<1> HIDE DEF t, n
<1>4. \A i, j \in 1..n : i < j => Rank(s[i]) < Rank(s[j])
  BY <1>2 DEF Band
<1>5. \A i \in 1..n : Rank(s[i]) \in a..(b - 1)
  BY <1>2 DEF Band
<1>6. \A i \in 1..(n - 1) : Rank(t[i]) \in a..(b - 1) /\ Rank(s[1]) < Rank(t[i])
  <2> SUFFICES ASSUME NEW i \in 1..(n - 1)
               PROVE  Rank(t[i]) \in a..(b - 1) /\ Rank(s[1]) < Rank(t[i])
    OBVIOUS
  <2>1. t[i] = s[i + 1] /\ i + 1 \in 1..n /\ 1 \in 1..n /\ 1 < i + 1
    BY <1>2, <1>3
  <2> QED  BY <1>4, <1>5, <2>1
<1>7. ASSUME NEW i \in 1..(n - 1), NEW j \in 1..(n - 1), i < j
      PROVE  Rank(t[i]) < Rank(t[j])
  <2>1. i + 1 \in 1..n /\ j + 1 \in 1..n /\ i + 1 < j + 1
    BY <1>2, <1>7
  <2> QED  BY <1>3, <1>4, <2>1
<1>8. Steps(t) = S \ {s[1]}
  <2>1. \A x \in Steps(t) : x \in S /\ x # s[1]
    <3> SUFFICES ASSUME NEW i \in 1..(n - 1) PROVE t[i] \in S /\ t[i] # s[1]
      BY <1>2 DEF Steps
    <3>1. t[i] \in S
      BY <1>2, <1>3 DEF Steps
    <3>2. Rank(s[1]) < Rank(t[i]) /\ Rank(t[i]) \in a..(b - 1)
      BY <1>6
    <3> QED  BY <3>1, <3>2
  <2>2. \A x \in S : x = s[1] \/ x \in Steps(t)
    <3> SUFFICES ASSUME NEW i \in 1..n, i # 1 PROVE s[i] \in Steps(t)
      BY <1>2 DEF Steps
    <3>1. i - 1 \in 1..(n - 1) /\ (i - 1) + 1 = i
      BY <1>2
    <3> QED  BY <1>2, <1>3, <3>1 DEF Steps
  <2> QED  BY <2>1, <2>2
<1>9. t \in Seq(Steps(t))
  <2>1. t \in Seq(S)
    BY <1>1, <1>2 DEF t
  <2>2. \A i \in 1..(n - 1) : t[i] \in Steps(t)
    BY <1>2 DEF Steps
  <2>3. Len(t) = n - 1
    BY <1>2, <2>1
  <2> QED  BY <1>2, <2>1, <2>2, <2>3
<1>10. \A x \in Steps(t) : Rank(s[1]) < Rank(x)
  BY <1>2, <1>6 DEF Steps
<1>11. Head(s) \in Steps(s)
  BY <1>2 DEF Steps
<1> QED  BY <1>2, <1>6, <1>7, <1>8, <1>9, <1>10, <1>11 DEF Band, t

\* The steps of an install that are wanted.
InstallSet(p) ==
  {step \in {<<"prepare", "host">>, <<"secure", "root">>, <<"import", "config">>,
             <<"validate", "config">>, <<"start", "daemon">>} : step[1] \in p.needed}
  \cup {<<do, part>> : do \in {"clear", "copy"},
                        part \in IF "copy" \in p.needed THEN {"src", "rest"} ELSE {}}
  \cup {<<"install", f>> : f \in p.needed \cap {"launcher", "unit"}}
  \cup {<<"record", "deployment">>}

LEMMA InstallBand ==
  ASSUME NEW p
  PROVE  Band(InstallSteps(p), 7, 21) /\ Steps(InstallSteps(p)) = InstallSet(p)
<1> DEFINE s1 == Only("prepare" \in p.needed, << <<"prepare", "host">> >>)
           s2 == Only("secure" \in p.needed, << <<"secure", "root">> >>)
           s3 == Only("copy" \in p.needed,
                      << <<"clear", "src">>, <<"copy", "src">>, <<"clear", "rest">>, <<"copy", "rest">> >>)
           s4 == Only("import" \in p.needed, << <<"import", "config">> >>)
           s5 == Only("validate" \in p.needed, << <<"validate", "config">> >>)
           s6 == Only("launcher" \in p.needed, << <<"install", "launcher">> >>)
           s7 == Only("unit" \in p.needed, << <<"install", "unit">> >>)
           s8 == Only("start" \in p.needed, << <<"start", "daemon">> >>)
           s9 == << <<"record", "deployment">> >>
           t2 == s1 \o s2
           t3 == t2 \o s3
           t4 == t3 \o s4
           t5 == t4 \o s5
           t6 == t5 \o s6
           t7 == t6 \o s7
           t8 == t7 \o s8
           t9 == t8 \o s9
<1>0. InstallSteps(p) = t9
  BY DEF InstallSteps
<1>1. Band(s1, 7, 8) /\ Steps(s1) = IF "prepare" \in p.needed THEN {<<"prepare", "host">>} ELSE {}
  <2>1. Rank(<<"prepare", "host">>) \in 7..(8 - 1)
    BY Ranks
  <2> QED  BY <2>1, BandOnly
<1>2. Band(s2, 8, 9) /\ Steps(s2) = IF "secure" \in p.needed THEN {<<"secure", "root">>} ELSE {}
  <2>1. Rank(<<"secure", "root">>) \in 8..(9 - 1)
    BY Ranks
  <2> QED  BY <2>1, BandOnly
<1>3. /\ Band(s3, 9, 13)
      /\ Steps(s3) = IF "copy" \in p.needed
                     THEN {<<"clear", "src">>, <<"copy", "src">>, <<"clear", "rest">>, <<"copy", "rest">>}
                     ELSE {}
  <2>1. CASE "copy" \in p.needed
    <3> DEFINE s == << <<"clear", "src">>, <<"copy", "src">>, <<"clear", "rest">>, <<"copy", "rest">> >>
    <3>1. s3 = s /\ DOMAIN s = 1..4 /\ s[1] = <<"clear", "src">> /\ s[2] = <<"copy", "src">>
          /\ s[3] = <<"clear", "rest">> /\ s[4] = <<"copy", "rest">>
      BY <2>1 DEF Only
    <3> HIDE DEF s
    <3>2. Steps(s) = {s[1], s[2], s[3], s[4]}
      BY <3>1 DEF Steps
    <3>3. s \in Seq(Steps(s))
      BY <3>2 DEF s
    <3>4. Rank(s[1]) = 9 /\ Rank(s[2]) = 10 /\ Rank(s[3]) = 11 /\ Rank(s[4]) = 12
      BY <3>1, Ranks
    <3>5. /\ \A i \in DOMAIN s : Rank(s[i]) \in 9..12
          /\ \A i, j \in DOMAIN s : i < j => Rank(s[i]) < Rank(s[j])
      BY <3>1, <3>4
    <3>6. Band(s, 9, 13)
      BY <3>3, <3>5 DEF Band
    <3> HIDE DEF s3
    <3> QED  BY <2>1, <3>1, <3>2, <3>6
  <2>2. CASE "copy" \notin p.needed
    <3>1. s3 = << >>
      BY <2>2 DEF Only
    <3> HIDE DEF s3
    <3> QED  BY <2>2, <3>1, BandNone
  <2> QED  BY <2>1, <2>2
<1>4. Band(s4, 13, 15) /\ Steps(s4) = IF "import" \in p.needed THEN {<<"import", "config">>} ELSE {}
  <2>1. Rank(<<"import", "config">>) \in 13..(15 - 1)
    BY Ranks
  <2> QED  BY <2>1, BandOnly
<1>5. Band(s5, 15, 16) /\ Steps(s5) = IF "validate" \in p.needed THEN {<<"validate", "config">>} ELSE {}
  <2>1. Rank(<<"validate", "config">>) \in 15..(16 - 1)
    BY Ranks
  <2> QED  BY <2>1, BandOnly
<1>6. Band(s6, 16, 17) /\ Steps(s6) = IF "launcher" \in p.needed THEN {<<"install", "launcher">>} ELSE {}
  <2>1. Rank(<<"install", "launcher">>) \in 16..(17 - 1)
    BY Ranks
  <2> QED  BY <2>1, BandOnly
<1>7. Band(s7, 17, 18) /\ Steps(s7) = IF "unit" \in p.needed THEN {<<"install", "unit">>} ELSE {}
  <2>1. Rank(<<"install", "unit">>) \in 17..(18 - 1)
    BY Ranks
  <2> QED  BY <2>1, BandOnly
<1>8. Band(s8, 18, 20) /\ Steps(s8) = IF "start" \in p.needed THEN {<<"start", "daemon">>} ELSE {}
  <2>1. Rank(<<"start", "daemon">>) \in 18..(20 - 1)
    BY Ranks
  <2> QED  BY <2>1, BandOnly
<1>9. Band(s9, 20, 21) /\ Steps(s9) = {<<"record", "deployment">>}
  BY BandOne, Ranks
<1> HIDE DEF s1, s2, s3, s4, s5, s6, s7, s8, s9
<1>12. Band(t2, 7, 9) /\ Steps(t2) = Steps(s1) \cup Steps(s2)
  BY <1>1, <1>2, BandJoin
<1> HIDE DEF t2
<1>13. Band(t3, 7, 13) /\ Steps(t3) = Steps(t2) \cup Steps(s3)
  BY <1>12, <1>3, BandJoin
<1> HIDE DEF t3
<1>14. Band(t4, 7, 15) /\ Steps(t4) = Steps(t3) \cup Steps(s4)
  BY <1>13, <1>4, BandJoin
<1> HIDE DEF t4
<1>15. Band(t5, 7, 16) /\ Steps(t5) = Steps(t4) \cup Steps(s5)
  BY <1>14, <1>5, BandJoin
<1> HIDE DEF t5
<1>16. Band(t6, 7, 17) /\ Steps(t6) = Steps(t5) \cup Steps(s6)
  BY <1>15, <1>6, BandJoin
<1> HIDE DEF t6
<1>17. Band(t7, 7, 18) /\ Steps(t7) = Steps(t6) \cup Steps(s7)
  BY <1>16, <1>7, BandJoin
<1> HIDE DEF t7
<1>18. Band(t8, 7, 20) /\ Steps(t8) = Steps(t7) \cup Steps(s8)
  BY <1>17, <1>8, BandJoin
<1> HIDE DEF t8
<1>19. Band(t9, 7, 21) /\ Steps(t9) = Steps(t8) \cup Steps(s9)
  BY <1>18, <1>9, BandJoin
<1> HIDE DEF t9
<1>20. Steps(t9) = Steps(s1) \cup Steps(s2) \cup Steps(s3) \cup Steps(s4) \cup Steps(s5)
                   \cup Steps(s6) \cup Steps(s7) \cup Steps(s8) \cup Steps(s9)
  BY <1>12, <1>13, <1>14, <1>15, <1>16, <1>17, <1>18, <1>19
<1>21. Steps(t9) = InstallSet(p)
  <2>1. \A x \in Steps(s1) \cup Steps(s2) \cup Steps(s4) \cup Steps(s5) \cup Steps(s8) : x \in InstallSet(p)
    BY <1>1, <1>2, <1>4, <1>5, <1>8 DEF InstallSet
  <2>2. \A x \in Steps(s3) \cup Steps(s6) \cup Steps(s7) \cup Steps(s9) : x \in InstallSet(p)
    BY <1>3, <1>6, <1>7, <1>9 DEF InstallSet
  <2>3. \A x \in InstallSet(p) : x \in Steps(t9)
    BY <1>20, <1>1, <1>2, <1>3, <1>4, <1>5, <1>6, <1>7, <1>8, <1>9 DEF InstallSet
  <2> QED  BY <1>20, <2>1, <2>2, <2>3
<1> QED  BY <1>0, <1>19, <1>21

\* The steps of a rollback that are wanted.
RollbackSet(p) ==
  {<<"restore", f>> : f \in p.restores \cap Managed}
  \cup {<<"remove", f>> : f \in p.removals \cap Files}
  \cup (IF p.removals # {} THEN {<<"stop", "daemon">>} ELSE {})
  \cup (IF Record(p).archive
        THEN {<<"clear", "src">>, <<"clear", "rest">>, <<"unpack", "archive">>} ELSE {})
  \cup {<<"restart", "daemon">>}

LEMMA RollbackBand ==
  ASSUME NEW p, Record(p).archive \in BOOLEAN
  PROVE  Band(RollbackSteps(p), 1, 20) /\ Steps(RollbackSteps(p)) = RollbackSet(p)
<1> DEFINE s1 == Only(p.removals # {}, << <<"stop", "daemon">> >>)
           s2 == Only("config" \in p.restores, << <<"restore", "config">> >>)
           s3 == Only("unit" \in p.restores, << <<"restore", "unit">> >>)
           s4 == Only("launcher" \in p.restores, << <<"restore", "launcher">> >>)
           s5 == Only("unit" \in p.removals, << <<"remove", "unit">> >>)
           s6 == Only("launcher" \in p.removals, << <<"remove", "launcher">> >>)
           s7 == Only(Record(p).archive,
                      << <<"clear", "src">>, <<"clear", "rest">>, <<"unpack", "archive">> >>)
           s8 == << <<"restart", "daemon">> >>
           t2 == s1 \o s2
           t3 == t2 \o s3
           t4 == t3 \o s4
           t5 == t4 \o s5
           t6 == t5 \o s6
           t7 == t6 \o s7
           t8 == t7 \o s8
<1>0. RollbackSteps(p) = t8
  BY DEF RollbackSteps
<1>1. Band(s1, 1, 2) /\ Steps(s1) = IF p.removals # {} THEN {<<"stop", "daemon">>} ELSE {}
  <2>1. Rank(<<"stop", "daemon">>) \in 1..(2 - 1)
    BY Ranks
  <2> QED  BY <2>1, BandOne, BandNone DEF Only
<1>2. Band(s2, 2, 3) /\ Steps(s2) = IF "config" \in p.restores THEN {<<"restore", "config">>} ELSE {}
  <2>1. Rank(<<"restore", "config">>) \in 2..(3 - 1)
    BY Ranks
  <2> QED  BY <2>1, BandOnly
<1>3. Band(s3, 3, 4) /\ Steps(s3) = IF "unit" \in p.restores THEN {<<"restore", "unit">>} ELSE {}
  <2>1. Rank(<<"restore", "unit">>) \in 3..(4 - 1)
    BY Ranks
  <2> QED  BY <2>1, BandOnly
<1>4. Band(s4, 4, 5) /\ Steps(s4) = IF "launcher" \in p.restores THEN {<<"restore", "launcher">>} ELSE {}
  <2>1. Rank(<<"restore", "launcher">>) \in 4..(5 - 1)
    BY Ranks
  <2> QED  BY <2>1, BandOnly
<1>5. Band(s5, 5, 6) /\ Steps(s5) = IF "unit" \in p.removals THEN {<<"remove", "unit">>} ELSE {}
  <2>1. Rank(<<"remove", "unit">>) \in 5..(6 - 1)
    BY Ranks
  <2> QED  BY <2>1, BandOnly
<1>6. Band(s6, 6, 9) /\ Steps(s6) = IF "launcher" \in p.removals THEN {<<"remove", "launcher">>} ELSE {}
  <2>1. Rank(<<"remove", "launcher">>) \in 6..(9 - 1)
    BY Ranks
  <2> QED  BY <2>1, BandOnly
<1>7. /\ Band(s7, 9, 19)
      /\ Steps(s7) = IF Record(p).archive
                     THEN {<<"clear", "src">>, <<"clear", "rest">>, <<"unpack", "archive">>}
                     ELSE {}
  <2>1. CASE Record(p).archive
    <3> DEFINE s == << <<"clear", "src">>, <<"clear", "rest">>, <<"unpack", "archive">> >>
    <3>1. s7 = s /\ DOMAIN s = 1..3 /\ s[1] = <<"clear", "src">> /\ s[2] = <<"clear", "rest">>
          /\ s[3] = <<"unpack", "archive">>
      BY <2>1 DEF Only
    <3> HIDE DEF s
    <3>2. Steps(s) = {s[1], s[2], s[3]}
      BY <3>1 DEF Steps
    <3>3. s \in Seq(Steps(s))
      BY <3>2 DEF s
    <3>4. Rank(s[1]) = 9 /\ Rank(s[2]) = 11 /\ Rank(s[3]) = 13
      BY <3>1, Ranks
    <3>5. Band(s, 9, 19)
      BY <3>1, <3>3, <3>4 DEF Band
    <3> HIDE DEF s7
    <3> QED  BY <2>1, <3>1, <3>2, <3>5
  <2>2. CASE ~Record(p).archive
    <3>1. s7 = << >>
      BY <2>2 DEF Only
    <3> HIDE DEF s7
    <3> QED  BY <2>2, <3>1, BandNone
  <2> QED  BY <2>1, <2>2
<1>8. Band(s8, 19, 20) /\ Steps(s8) = {<<"restart", "daemon">>}
  BY BandOne, Ranks
<1> HIDE DEF s1, s2, s3, s4, s5, s6, s7, s8
<1>12. Band(t2, 1, 3) /\ Steps(t2) = Steps(s1) \cup Steps(s2)
  BY <1>1, <1>2, BandJoin
<1> HIDE DEF t2
<1>13. Band(t3, 1, 4) /\ Steps(t3) = Steps(t2) \cup Steps(s3)
  BY <1>12, <1>3, BandJoin
<1> HIDE DEF t3
<1>14. Band(t4, 1, 5) /\ Steps(t4) = Steps(t3) \cup Steps(s4)
  BY <1>13, <1>4, BandJoin
<1> HIDE DEF t4
<1>15. Band(t5, 1, 6) /\ Steps(t5) = Steps(t4) \cup Steps(s5)
  BY <1>14, <1>5, BandJoin
<1> HIDE DEF t5
<1>16. Band(t6, 1, 9) /\ Steps(t6) = Steps(t5) \cup Steps(s6)
  BY <1>15, <1>6, BandJoin
<1> HIDE DEF t6
<1>17. Band(t7, 1, 19) /\ Steps(t7) = Steps(t6) \cup Steps(s7)
  BY <1>16, <1>7, BandJoin
<1> HIDE DEF t7
<1>18. Band(t8, 1, 20) /\ Steps(t8) = Steps(t7) \cup Steps(s8)
  BY <1>17, <1>8, BandJoin
<1> HIDE DEF t8
<1>20. Steps(t8) = Steps(s1) \cup Steps(s2) \cup Steps(s3) \cup Steps(s4) \cup Steps(s5)
                   \cup Steps(s6) \cup Steps(s7) \cup Steps(s8)
  BY <1>12, <1>13, <1>14, <1>15, <1>16, <1>17, <1>18
<1>21. Steps(t8) = RollbackSet(p)
  <2>1. \A x \in Steps(s1) \cup Steps(s2) \cup Steps(s3) \cup Steps(s4) : x \in RollbackSet(p)
    BY <1>1, <1>2, <1>3, <1>4 DEF RollbackSet, Managed
  <2>2. \A x \in Steps(s5) \cup Steps(s6) \cup Steps(s7) \cup Steps(s8) : x \in RollbackSet(p)
    BY <1>5, <1>6, <1>7, <1>8 DEF RollbackSet, Files
  <2>3. \A x \in RollbackSet(p) : x \in Steps(t8)
    BY <1>20, <1>1, <1>2, <1>3, <1>4, <1>5, <1>6, <1>7, <1>8 DEF RollbackSet, Files, Managed
  <2> QED  BY <1>20, <2>1, <2>2, <2>3
<1> QED  BY <1>0, <1>18, <1>21

-----------------------------------------------------------------------------
(* The type invariant, with the shape of the plans and of the steps left.  *)

Backups ==
  [before : Disks, candidate : Releases \cup {Root}, archive : BOOLEAN, complete : BOOLEAN,
   after : Disks]
Choices == {"prepare", "secure", "copy", "import", "validate", "launcher", "unit", "start"}
PlanRecords ==
  [op : {"none", "inspected", "install", "rollback"}, candidate : Releases \cup {Root, "none"},
   import : Configs \cup {"none"}, release : Contents, up : BOOLEAN, seen : Disks,
   needed : SUBSET Choices, record : Nat, force : BOOLEAN,
   restores : SUBSET Managed, removals : SUBSET Managed]

Wanted(p) == IF p.op = "install" THEN InstallSet(p) ELSE RollbackSet(p)
\* The last step of a run, and a place behind it.
Last(p) == IF p.op = "install" THEN <<"record", "deployment">> ELSE <<"restart", "daemon">>
Limit(p) == IF p.op = "install" THEN 21 ELSE 20

\* What is inspected has a candidate; only another release is copied, and only a
\* configuration imported.
PlanTyped(p) ==
  /\ p \in PlanRecords
  /\ p.op \in {"inspected", "install"} => p.candidate \in Releases \cup {Root}
  /\ p.op = "install" =>
       /\ "copy" \in p.needed => p.candidate # Root
       /\ "import" \in p.needed => p.import # "none"

TodoTyped ==
  lock # "none" =>
    /\ Band(todo, 1, Limit(plan[lock])) /\ Last(plan[lock]) \in Steps(todo)
    /\ Steps(todo) \subseteq Wanted(plan[lock])

TypeInv ==
  /\ ITypeOK
  /\ backups \in Seq(Backups)
  /\ plan \in [Runs -> PlanRecords] /\ \A r \in Runs : PlanTyped(plan[r])
  /\ TodoTyped

LEMMA NoPlanTyped == NoPlan \in PlanRecords /\ NoPlan.op = "none" /\ PlanTyped(NoPlan)
<1>1. NoConfig \in [text : Configs \cup {"none"}, ready : BOOLEAN]
  BY DEF NoConfig, Config
<1>2. Bare(NoConfig) \in Disks
  BY <1>1 DEF Bare, Disks, Contents
<1>3. NoPlan \in PlanRecords /\ NoPlan.op = "none"
  BY <1>2 DEF NoPlan, PlanRecords, Contents, Choices
<1> QED  BY <1>3 DEF PlanTyped

LEMMA InitTyped == Init => TypeInv
<1> SUFFICES ASSUME Init PROVE TypeInv
  OBVIOUS
<1>1. NoConfig \in [text : Configs \cup {"none"}, ready : BOOLEAN]
      /\ \A c \in Configs : Config(c, TRUE) \in [text : Configs \cup {"none"}, ready : BOOLEAN]
  BY DEF NoConfig, Config
<1>2. \A config \in [text : Configs \cup {"none"}, ready : BOOLEAN] : Bare(config) \in Disks
  BY DEF Bare, Disks, Contents
<1>d. disk \in Disks
  <2>1. PICK config \in {NoConfig} \cup {Config(c, TRUE) : c \in Configs} : disk = Bare(config)
    BY DEF Init
  <2> QED  BY <1>1, <1>2, <2>1
<1>3. NoPlan \in PlanRecords /\ NoPlan.op = "none"
  BY NoPlanTyped
<1>4. backups = << >> /\ lock = "none" /\ todo = << >> /\ plan = [r \in Runs |-> NoPlan]
      /\ daemon = "none"
  BY DEF Init
<1>5. backups \in Seq(Backups) /\ DOMAIN backups = {}
  BY <1>4
<1>6. ITypeOK
  BY <1>d, <1>3, <1>4, <1>5 DEF ITypeOK, Contents
<1>7. plan \in [Runs -> PlanRecords] /\ \A r \in Runs : PlanTyped(plan[r])
  BY <1>3, <1>4 DEF PlanTyped
<1> QED  BY <1>4, <1>5, <1>6, <1>7 DEF TypeInv, TodoTyped

\* A step on one plan of a run without the lock.
LEMMA PlanTypedStep ==
  ASSUME TypeInv, NEW r \in Runs, NEW p, PlanTyped(p), lock # r,
         UNCHANGED <<disk, daemon, backups, lock, todo>>, plan' = [plan EXCEPT ![r] = p],
         p.op = "rollback" => p.record \in DOMAIN backups
  PROVE  TypeInv'
<1>1. plan' \in [Runs -> PlanRecords]
  BY DEF TypeInv, PlanTyped
<1>2. plan'[r] = p /\ \A u \in Runs \ {r} : plan'[u] = plan[u]
  BY DEF TypeInv
<1>3. \A u \in Runs : PlanTyped(plan'[u])
  BY <1>2 DEF TypeInv
<1>4. lock # "none" => plan'[lock] = plan[lock] /\ lock \in Runs
  BY <1>2 DEF TypeInv, ITypeOK
<1>5. ITypeOK'
  BY <1>2, <1>4 DEF TypeInv, ITypeOK
<1>6. TodoTyped'
  <2>1. lock' = lock /\ todo' = todo /\ backups' = backups
    BY DEF TypeInv
  <2>2. CASE lock # "none"
    <3> DEFINE q == plan[lock]
    <3>1. q' = q
      BY <1>4, <2>1, <2>2
    <3>2. Wanted(q)' = Wanted(q)
      BY <2>1, <3>1 DEF Wanted, InstallSet, RollbackSet, Record
    <3>3. Limit(q)' = Limit(q) /\ Last(q)' = Last(q)
      BY <3>1 DEF Limit, Last
    <3> QED  BY <2>1, <2>2, <3>1, <3>2, <3>3 DEF TypeInv, TodoTyped
  <2> QED  BY <2>1, <2>2 DEF TodoTyped
<1> QED  BY <1>1, <1>3, <1>5, <1>6 DEF TypeInv

\* A run that holds the lock has a step left, which is one that it wants.
LEMMA AtWanted ==
  ASSUME TypeInv, lock # "none"
  PROVE  /\ lock \in Runs /\ plan[lock] \in PlanRecords /\ PlanTyped(plan[lock])
         /\ plan[lock].op \in {"install", "rollback"}
         /\ todo # << >> /\ Head(todo) \in Steps(todo) /\ Head(todo) \in Wanted(plan[lock])
<1>1. lock \in Runs /\ todo # << >> /\ plan[lock].op \in {"install", "rollback"}
  BY DEF TypeInv, ITypeOK
<1>2. Band(todo, 1, Limit(plan[lock])) /\ Limit(plan[lock]) \in Nat
  BY DEF TypeInv, TodoTyped, Limit
<1>3. Head(todo) \in Steps(todo)
  BY <1>1, <1>2, BandTail
<1> QED  BY <1>1, <1>3 DEF TypeInv, TodoTyped

\* The end of a step under the lock.
LEMMA LockTypedStep ==
  ASSUME TypeInv, lock # "none", disk' \in Disks, daemon' \in Contents,
         backups' \in Seq(Backups), DOMAIN backups' = DOMAIN backups,
         \A i \in DOMAIN backups : backups'[i].archive = backups[i].archive,
         NEW steps \in {Tail(todo), << >>}, Continue(steps)
  PROVE  TypeInv'
<1> DEFINE p == plan[lock]
<1>1. /\ lock \in Runs /\ p \in PlanRecords /\ PlanTyped(p) /\ p.op \in {"install", "rollback"}
      /\ todo # << >>
  BY AtWanted
<1>2. \A i \in DOMAIN backups' : backups'[i].before \in Disks /\ backups'[i].after \in Disks
  <2>1. \A i \in DOMAIN backups' : backups'[i] \in Backups
    OBVIOUS
  <2> QED  BY <2>1 DEF Backups
<1>3. CASE steps = << >>
  <2>1. lock' = "none" /\ todo' = << >> /\ plan' = [plan EXCEPT ![lock] = NoPlan]
    BY <1>3 DEF Continue
  <2>2. plan' \in [Runs -> PlanRecords] /\ \A u \in Runs : plan'[u] \in {plan[u], NoPlan}
    BY <2>1, NoPlanTyped DEF TypeInv
  <2>3. \A u \in Runs : PlanTyped(plan'[u])
    BY <2>2, NoPlanTyped DEF TypeInv
  <2>4. \A u \in Runs : plan'[u].op = "rollback" => plan'[u].record \in DOMAIN backups'
    BY <2>2, NoPlanTyped DEF TypeInv, ITypeOK
  <2>5. ITypeOK'
    BY <1>2, <2>1, <2>4 DEF ITypeOK
  <2> QED  BY <2>1, <2>2, <2>3, <2>5 DEF TypeInv, TodoTyped
<1>4. CASE steps # << >>
  <2>1. steps = Tail(todo) /\ todo' = steps /\ lock' = lock /\ plan' = plan
    BY <1>4 DEF Continue
  <2>2. Band(todo, 1, Limit(p)) /\ Limit(p) \in Nat /\ Last(p) \in Steps(todo)
        /\ Steps(todo) \subseteq Wanted(p)
    BY DEF TypeInv, TodoTyped, Limit
  <2>3. Band(steps, 1, Limit(p)) /\ Steps(steps) = Steps(todo) \ {Head(todo)}
        /\ \A x \in Steps(steps) : Rank(Head(todo)) < Rank(x)
    BY <1>1, <2>1, <2>2, BandTail
  <2>4. Last(p) \in Steps(steps)
    <3>1. Head(steps) \in Steps(steps) /\ Rank(Head(todo)) < Rank(Head(steps))
      BY <1>4, <2>2, <2>3, BandTail
    <3>2. Rank(Head(steps)) \in 1..(Limit(p) - 1)
      BY <2>3, <3>1 DEF Band, Steps
    <3>3. Rank(Last(p)) = Limit(p) - 1
      BY Ranks DEF Last, Limit
    <3>4. Rank(Head(todo)) \in 1..(Limit(p) - 1)
      BY <1>1, <2>2, BandTail DEF Band, Steps
    <3>5. Head(todo) # Last(p)
      BY <2>2, <3>1, <3>2, <3>3, <3>4
    <3> QED  BY <2>2, <2>3, <3>5
  <2>5. Wanted(p)' = Wanted(p)
    <3>1. p.op = "rollback" => p.record \in DOMAIN backups
      BY <1>1 DEF TypeInv, ITypeOK
    <3>2. p' = p
      BY <2>1
    <3>3. p.op = "rollback" => Record(p)'.archive = Record(p).archive
      BY <3>1, <3>2 DEF Record
    <3> HIDE DEF p
    <3>4. InstallSet(p)' = InstallSet(p)
      BY <3>2 DEF InstallSet
    <3>5. p.op = "rollback" => RollbackSet(p)' = RollbackSet(p)
      BY <3>2, <3>3 DEF RollbackSet
    <3> QED  BY <1>1, <3>2, <3>4, <3>5 DEF Wanted, p
  <2>6. TodoTyped'
    BY <2>1, <2>2, <2>3, <2>4, <2>5 DEF TodoTyped
  <2>7. ITypeOK'
    BY <1>1, <1>2, <1>4, <2>1 DEF TypeInv, ITypeOK
  <2> QED  BY <2>1, <2>6, <2>7 DEF TypeInv
<1> QED  BY <1>3, <1>4

\* What a step that is wanted says of the plan.
LEMMA InstallMeans ==
  ASSUME NEW p, NEW do, NEW what, <<do, what>> \in InstallSet(p)
  PROVE  /\ do \in {"prepare", "secure", "clear", "copy", "import", "validate", "install",
                    "start", "record"}
         /\ do \in {"prepare", "secure", "copy", "import", "validate", "start"} => do \in p.needed
         /\ do = "clear" => "copy" \in p.needed
         /\ do \in {"clear", "copy"} => what \in {"src", "rest"}
         /\ do = "install" => what \in p.needed /\ what \in {"launcher", "unit"}
BY DEF InstallSet

LEMMA RollbackMeans ==
  ASSUME NEW p, NEW do, NEW what, <<do, what>> \in RollbackSet(p)
  PROVE  /\ do \in {"stop", "restore", "remove", "clear", "unpack", "restart"}
         /\ do = "stop" => p.removals # {}
         /\ do = "restore" => what \in p.restores \cap Managed
         /\ do = "remove" => what \in p.removals \cap Files
         /\ do \in {"clear", "unpack"} => Record(p).archive
         /\ do = "clear" => what \in {"src", "rest"}
BY DEF RollbackSet

\* What the step that is next says of the plan.
LEMMA AtMeans ==
  ASSUME TypeInv, NEW do, NEW what, At(do, what)
  PROVE  LET p == plan[lock]
         IN  /\ lock # "none" /\ Head(todo) = <<do, what>>
             /\ do \in {"prepare", "secure", "copy", "import", "validate", "start"} =>
                  p.op = "install" /\ do \in p.needed
             /\ do = "install" => p.op = "install" /\ what \in p.needed
             /\ do = "record" => p.op = "install"
             /\ do \in {"stop", "restore", "remove", "unpack", "restart"} => p.op = "rollback"
             /\ do = "restore" => what \in p.restores
             /\ do = "remove" => what \in p.removals
             /\ do = "clear" => IF p.op = "install" THEN "copy" \in p.needed
                                ELSE Record(p).archive
             /\ do = "unpack" => Record(p).archive
             /\ do = "stop" => p.removals # {}
<1> DEFINE p == plan[lock]
<1>1. lock # "none" /\ Head(todo) = <<do, what>>
  BY DEF At
<1>2. p.op \in {"install", "rollback"} /\ <<do, what>> \in Wanted(p)
  BY <1>1, AtWanted
<1> HIDE DEF p
<1>3. CASE p.op = "install"
  <2>1. <<do, what>> \in InstallSet(p)
    BY <1>2, <1>3 DEF Wanted
  <2> QED  BY <1>1, <1>3, <2>1, InstallMeans DEF p
<1>4. CASE p.op = "rollback"
  <2>1. <<do, what>> \in RollbackSet(p)
    BY <1>2, <1>4 DEF Wanted
  <2> QED  BY <1>1, <1>4, <2>1, RollbackMeans DEF p
<1> QED  BY <1>2, <1>3, <1>4

\* The steps that change the disk, seen as such.
OnDisk ==
  \/ Secure \/ Import \/ Validate \/ Unpack
  \/ \E part \in {"src", "rest"} : Clear(part) \/ Copy(part)
  \/ \E f \in Managed : Restore(f)
  \/ \E f \in Files : InstallFile(f) \/ Remove(f)

LEMMA PartTyped ==
  ASSUME disk \in Disks, NEW c \in Contents
  PROVE  /\ [disk EXCEPT !["src"] = c] \in Disks /\ [disk EXCEPT !["rest"] = c] \in Disks
         /\ [disk EXCEPT !["launcher"] = c] \in Disks
BY DEF Disks

LEMMA ConfigTyped ==
  ASSUME disk \in Disks
  PROVE  /\ disk.config \in [text : Configs \cup {"none"}, ready : BOOLEAN]
         /\ NoConfig \in [text : Configs \cup {"none"}, ready : BOOLEAN]
         /\ \A c \in Configs, b \in BOOLEAN :
              Config(c, b) \in [text : Configs \cup {"none"}, ready : BOOLEAN]
         /\ \A c \in [text : Configs \cup {"none"}, ready : BOOLEAN] :
              [disk EXCEPT !["config"] = c] \in Disks /\ [disk EXCEPT !.config = c] \in Disks
         /\ \A c \in [text : Configs \cup {"none"}, ready : BOOLEAN], b \in BOOLEAN :
              [c EXCEPT !.ready = b] \in [text : Configs \cup {"none"}, ready : BOOLEAN]
BY DEF Disks, Config, NoConfig

LEMMA OnDiskTyped ==
  ASSUME TypeInv, OnDisk
  PROVE  TypeInv'
<1> DEFINE p == plan[lock]
           before == Record(p).before
           Texts == [text : Configs \cup {"none"}, ready : BOOLEAN]
<1>1. disk \in Disks /\ lock # "none"
  BY DEF TypeInv, ITypeOK, OnDisk, Secure, Import, Validate, Unpack, Clear, Copy, Restore,
         InstallFile, Remove, At
<1>2. /\ p \in PlanRecords /\ PlanTyped(p) /\ p.op \in {"install", "rollback"} /\ lock \in Runs
      /\ Head(todo) \in Wanted(p)
  BY <1>1, AtWanted
<1>3. \A do, what : At(do, what) =>
        /\ do \in {"copy", "import"} => p.op = "install" /\ do \in p.needed
        /\ do \in {"restore", "unpack"} => p.op = "rollback"
  BY AtMeans
<1>4. p.op = "rollback" => before \in Disks
  BY <1>2 DEF TypeInv, ITypeOK, Record
<1> SUFFICES ASSUME NEW d, Becomes(d)
             PROVE  d \in Disks => TypeInv'
  <2> SUFFICES \E d \in Disks : Becomes(d)
    OBVIOUS
  <2> HIDE DEF p, before
  <2>1. CASE Secure
    <3>1. Becomes([disk EXCEPT !.secure = TRUE, !.config.ready = disk.config # NoConfig])
      BY <2>1 DEF Secure
    <3>2. [disk EXCEPT !.secure = TRUE, !.config.ready = disk.config # NoConfig] \in Disks
      BY <1>1 DEF Disks
    <3> QED  BY <3>1, <3>2
  <2>2. CASE Import
    <3>1. At("import", "config") /\ Becomes([disk EXCEPT !.config = Config(p.import, TRUE)])
      BY <2>2 DEF Import, p
    <3>2. p.op = "install" /\ "import" \in p.needed
      BY <1>3, <3>1
    <3>3. p.import \in Configs
      BY <1>2, <3>2 DEF PlanTyped, PlanRecords
    <3> QED  BY <1>1, <3>1, <3>3, ConfigTyped
  <2>3. CASE Validate
    <3>1. Becomes([disk EXCEPT !.config.ready = TRUE])
      BY <2>3 DEF Validate
    <3>2. [disk EXCEPT !.config.ready = TRUE] \in Disks
      BY <1>1 DEF Disks
    <3> QED  BY <3>1, <3>2
  <2>4. CASE Unpack
    <3> DEFINE d == [disk EXCEPT !.src = before.src, !.rest = before.rest, !.secure = before.secure,
                              !.config = IF before.config = NoConfig THEN disk.config
                                         ELSE before.config]
    <3>1. At("unpack", "archive") /\ Becomes(d)
      BY <2>4 DEF Unpack, before, p
    <3>2. p.op = "rollback"
      BY <1>3, <3>1
    <3>3. d \in Disks
      BY <1>1, <1>4, <3>2 DEF Disks
    <3> QED  BY <3>1, <3>3
  <2>5. CASE \E part \in {"src", "rest"} : Clear(part) \/ Copy(part)
    <3>1. PICK part \in {"src", "rest"} : Clear(part) \/ Copy(part)
      BY <2>5
    <3>2. CASE Clear(part)
      <4>1. Becomes([disk EXCEPT ![part] = "none"]) /\ "none" \in Contents
        BY <3>2 DEF Clear, Contents
      <4> QED  BY <1>1, <3>1, <4>1, PartTyped
    <3>3. CASE Copy(part)
      <4>1. At("copy", part) /\ Becomes([disk EXCEPT ![part] = p.candidate])
        BY <3>3 DEF Copy, p
      <4>2. p.op = "install" /\ "copy" \in p.needed
        BY <1>3, <4>1
      <4>3. p.candidate \in Contents
        BY <1>2, <4>2 DEF PlanTyped, PlanRecords, Contents
      <4> QED  BY <1>1, <3>1, <4>1, <4>3, PartTyped
    <3> QED  BY <3>1, <3>2, <3>3
  <2>6. CASE \E f \in Managed : Restore(f)
    <3>1. PICK f \in Managed : Restore(f)
      BY <2>6
    <3>2. At("restore", f) /\ Becomes([disk EXCEPT ![f] = before[f]])
      BY <3>1 DEF Restore, p, before
    <3>3. p.op = "rollback"
      BY <1>3, <3>2
    <3>4. [disk EXCEPT ![f] = before[f]] \in Disks
      BY <1>1, <1>4, <3>1, <3>3 DEF Managed, Disks
    <3> QED  BY <3>2, <3>4
  <2>7. CASE \E f \in Files : Remove(f)
    <3>1. PICK f \in Files : Remove(f)
      BY <2>7
    <3>2. Becomes([disk EXCEPT ![f] = "none"])
      BY <3>1 DEF Remove
    <3>3. [disk EXCEPT ![f] = "none"] \in Disks
      BY <1>1, <3>1 DEF Files, Disks, Contents
    <3> QED  BY <3>2, <3>3
  <2>8. CASE \E f \in Files : InstallFile(f)
    <3>1. PICK f \in Files : InstallFile(f)
      BY <2>8
    <3>2. Source(p) \in Releases /\ Becomes([disk EXCEPT ![f] = Offers(p)[f]])
      BY <3>1 DEF InstallFile, p
    <3>3. /\ Offers(p).launcher \in Releases
          /\ Offers(p).unit \in {UnitOf[c] : c \in Releases} \cup {"none"}
      BY <3>2 DEF Offers
    <3>4. [disk EXCEPT ![f] = Offers(p)[f]] \in Disks
      BY <1>1, <3>1, <3>3 DEF Files, Disks, Contents
    <3> QED  BY <3>2, <3>4
  <2> QED  BY <2>1, <2>2, <2>3, <2>4, <2>5, <2>6, <2>7, <2>8 DEF OnDisk
<1>5. disk' = d /\ Continue(Tail(todo)) /\ UNCHANGED <<daemon, backups>>
  BY DEF Becomes, Done
<1>6. daemon' \in Contents /\ backups' \in Seq(Backups)
  BY <1>5 DEF TypeInv, ITypeOK
<1> QED  BY <1>1, <1>5, <1>6, LockTypedStep

LEMMA OffDiskTyped ==
  ASSUME TypeInv, OffDisk
  PROVE  TypeInv'
<1>1. disk \in Disks /\ daemon \in Contents /\ backups \in Seq(Backups)
  BY DEF TypeInv, ITypeOK
<1>2. disk.src \in Contents /\ "none" \in Contents
  BY <1>1 DEF Disks, Contents
<1>3. /\ lock # "none" /\ UNCHANGED <<disk, backups>> /\ daemon' \in Contents
      /\ \E steps \in {Tail(todo), << >>} : Continue(steps)
  <2>1. CASE Prepare
    BY <1>1, <2>1 DEF Prepare, At, Done
  <2>2. CASE Start \/ Stop \/ Restart
    BY <1>1, <1>2, <2>2 DEF Start, Stop, Restart, At, DaemonIs, Done
  <2> QED  BY <2>1, <2>2 DEF OffDisk
<1> QED  BY <1>1, <1>3, LockTypedStep

LEMMA FailsTyped ==
  ASSUME TypeInv, StepFails
  PROVE  TypeInv'
<1> DEFINE p == plan[lock]
           before == Record(p).before
<1>1. disk \in Disks /\ daemon \in Contents /\ backups \in Seq(Backups)
      /\ disk.src \in Contents /\ disk.rest \in Contents /\ {"none", "partial"} \subseteq Contents
  BY DEF TypeInv, ITypeOK, Disks, Contents
<1>2. lock # "none" /\ UNCHANGED backups /\ daemon' \in Contents /\ Continue(<< >>)
  BY <1>1 DEF StepFails
<1>3. ASSUME NEW part \in {"src", "rest"}
      PROVE  Stopped(part) \subseteq Contents
  <2>1. disk[part] \in Contents
    BY <1>1
  <2>2. At("unpack", "archive") => before[part] \in Contents
    <3> SUFFICES ASSUME At("unpack", "archive") PROVE before[part] \in Contents
      OBVIOUS
    <3>1. p.op = "rollback" /\ PlanTyped(p)
      BY <1>2, AtMeans, AtWanted
    <3>2. before \in Disks
      BY <3>1, AtWanted, <1>2 DEF TypeInv, ITypeOK, Record
    <3> QED  BY <3>2 DEF Disks
  <2> QED  BY <1>1, <2>1, <2>2 DEF Stopped
<1>4. PICK src \in Stopped("src"), rest \in Stopped("rest") :
        disk' = [disk EXCEPT !.src = src, !.rest = rest]
  BY DEF StepFails
<1>5. disk' \in Disks
  BY <1>1, <1>3, <1>4 DEF Disks
<1> QED  BY <1>1, <1>2, <1>5, LockTypedStep

\* The newest directory becomes complete.
Completed == [backups EXCEPT ![Len(backups)].complete = TRUE, ![Len(backups)].after = disk]

LEMMA CompletedTyped ==
  ASSUME backups \in Seq(Backups), disk \in Disks
  PROVE  /\ Completed \in Seq(Backups) /\ DOMAIN Completed = DOMAIN backups
         /\ \A i \in DOMAIN backups :
              /\ Completed[i].before = backups[i].before
              /\ Completed[i].candidate = backups[i].candidate
              /\ Completed[i].archive = backups[i].archive
<1> DEFINE n == Len(backups)
           last == [backups[n] EXCEPT !.complete = TRUE, !.after = disk]
<1>1. n \in Nat /\ DOMAIN backups = 1..n /\ \A i \in 1..n : backups[i] \in Backups
  OBVIOUS
<1>2. Completed = [backups EXCEPT ![n] = last]
  BY DEF Completed
<1>3. n \in 1..n => /\ last \in Backups /\ last.before = backups[n].before
                    /\ last.candidate = backups[n].candidate
                    /\ last.archive = backups[n].archive
  BY <1>1 DEF Backups
<1> HIDE DEF last
<1>4. /\ Completed \in [1..n -> Backups]
      /\ \A i \in 1..n : Completed[i] = IF i = n THEN last ELSE backups[i]
  BY <1>1, <1>2, <1>3
<1>5. DOMAIN Completed = 1..n /\ Completed \in Seq(Backups)
  <2>1. n \in Nat
    OBVIOUS
  <2> HIDE DEF n
  <2> QED  BY <1>4, <2>1
<1>6. \A i \in 1..n : /\ Completed[i].before = backups[i].before
                     /\ Completed[i].candidate = backups[i].candidate
                     /\ Completed[i].archive = backups[i].archive
  BY <1>3, <1>4
<1> QED  BY <1>1, <1>5, <1>6

LEMMA RecordTyped ==
  ASSUME TypeInv, RecordAfter
  PROVE  TypeInv'
<1>1. /\ lock # "none" /\ UNCHANGED <<disk, daemon>> /\ Continue(Tail(todo))
      /\ backups' = Completed
  BY DEF RecordAfter, At, Done, Completed
<1>2. disk \in Disks /\ daemon \in Contents /\ backups \in Seq(Backups)
  BY DEF TypeInv, ITypeOK
<1>3. /\ backups' \in Seq(Backups) /\ DOMAIN backups' = DOMAIN backups
      /\ \A i \in DOMAIN backups : backups'[i].archive = backups[i].archive
  BY <1>1, <1>2, CompletedTyped
<1> QED  BY <1>1, <1>2, <1>3, LockTypedStep

LEMMA AppendedTyped ==
  ASSUME backups \in Seq(Backups), NEW b \in Backups
  PROVE  /\ Append(backups, b) \in Seq(Backups)
         /\ DOMAIN backups \subseteq DOMAIN Append(backups, b)
         /\ \A i \in DOMAIN backups : Append(backups, b)[i] = backups[i]
         /\ \A i \in DOMAIN Append(backups, b) : i \in DOMAIN backups \/ Append(backups, b)[i] = b
OBVIOUS

LEMMA TakeTyped ==
  ASSUME TypeInv, NEW r \in Runs, Install(r) \/ Rollback(r)
  PROVE  TypeInv'
<1> DEFINE p == plan[r]
<1>1. /\ lock = "none" /\ lock' = r /\ UNCHANGED <<disk, daemon, plan>> /\ p \in PlanRecords
      /\ PlanTyped(p) /\ r # "none" /\ disk \in Disks /\ backups \in Seq(Backups)
  BY InstallationAssumption DEF Install, Rollback, TypeInv, ITypeOK
<1>2. Band(InstallSteps(p), 7, 21) /\ Steps(InstallSteps(p)) = InstallSet(p)
  BY InstallBand
<1>3. CASE Install(r)
  <2> DEFINE b == Backup(p)
  <2>1. p.op = "install" /\ todo' = InstallSteps(p) /\ backups' = Append(backups, b)
    BY <1>3 DEF Install
  <2>2. b \in Backups
    <3>1. Bare(NoConfig) \in Disks
      BY DEF Bare, NoConfig, Config, Disks, Contents
    <3>2. Archives(p) \in BOOLEAN
      BY DEF Archives
    <3>3. p.candidate \in Releases \cup {Root}
      BY <1>1, <2>1 DEF PlanTyped, PlanRecords
    <3> QED  BY <1>1, <3>1, <3>2, <3>3 DEF Backup, Backups
  <2> HIDE DEF b, p
  <2>3. /\ backups' \in Seq(Backups) /\ DOMAIN backups \subseteq DOMAIN backups'
        /\ \A i \in DOMAIN backups' : backups'[i] \in Backups
    BY <1>1, <2>1, <2>2, AppendedTyped
  <2>4. <<"record", "deployment">> \in InstallSet(p)
    BY DEF InstallSet
  <2>5. todo' # << >>
    BY <1>2, <2>1, <2>4, BandNone
  <2>6. Band(todo', 1, 21) /\ Steps(todo') = InstallSet(p)
    BY <1>2, <2>1 DEF Band
  <2>7. TodoTyped'
    <3>1. plan'[lock'] = p /\ p' = p
      BY <1>1 DEF p
    <3> QED  BY <2>1, <2>4, <2>6, <3>1 DEF TodoTyped, Limit, Last, Wanted, InstallSet
  <2>8. ITypeOK'
    BY <1>1, <2>1, <2>3, <2>5 DEF TypeInv, ITypeOK, Backups, p
  <2> QED  BY <1>1, <2>3, <2>7, <2>8 DEF TypeInv
<1>4. CASE Rollback(r)
  <2>1. p.op = "rollback" /\ todo' = RollbackSteps(p) /\ backups' = backups
    BY <1>4 DEF Rollback
  <2>2. Record(p).archive \in BOOLEAN
    <3>1. p.record \in DOMAIN backups
      BY <2>1 DEF TypeInv, ITypeOK
    <3>2. Record(p) \in Backups
      BY <1>1, <3>1 DEF Record
    <3> QED  BY <3>2 DEF Backups
  <2>3. Band(RollbackSteps(p), 1, 20) /\ Steps(RollbackSteps(p)) = RollbackSet(p)
    BY <2>2, RollbackBand
  <2> HIDE DEF p
  <2>4. <<"restart", "daemon">> \in RollbackSet(p)
    BY DEF RollbackSet
  <2>5. todo' # << >>
    BY <2>1, <2>3, <2>4, BandNone
  <2>7. TodoTyped'
    <3>1. plan'[lock'] = p /\ p' = p
      BY <1>1 DEF p
    <3>2. Steps(todo') = RollbackSet(p) /\ RollbackSet(p)' = RollbackSet(p)
      BY <2>1, <2>3, <3>1 DEF RollbackSet, Record
    <3> QED  BY <2>1, <2>3, <2>4, <3>1, <3>2 DEF TodoTyped, Limit, Last, Wanted
  <2>8. ITypeOK'
    BY <1>1, <2>1, <2>5 DEF TypeInv, ITypeOK, p
  <2> QED  BY <1>1, <2>1, <2>7, <2>8 DEF TypeInv
<1> QED  BY <1>3, <1>4

LEMMA PlansTyped ==
  ASSUME TypeInv, NEW r \in Runs,
         \/ \E c \in Releases \cup {Root}, i \in Configs \cup {"none"} : Inspect(r, c, i)
         \/ PlanInstall(r) \/ NothingToChange(r) \/ Withdraw(r)
         \/ \E i \in DOMAIN backups, force \in BOOLEAN : PlanRollback(r, i, force)
  PROVE  TypeInv'
<1>1. UNCHANGED <<disk, daemon, backups, lock, todo>> /\ lock # r
  <2>1. r # "none"
    BY InstallationAssumption
  <2>2. plan[r].op \notin {"install", "rollback"} => lock # r
    BY <2>1 DEF TypeInv, ITypeOK
  <2>3. NoPlan.op = "none"
    BY DEF NoPlan
  <2> QED  BY <2>2, <2>3 DEF Inspect, PlanInstall, NothingToChange, Withdraw, PlanRollback
<1>2. disk \in Disks /\ daemon \in Contents /\ plan[r] \in PlanRecords /\ PlanTyped(plan[r])
      /\ disk.src \in Contents
  BY DEF TypeInv, ITypeOK, Disks
<1>3. CASE NothingToChange(r) \/ Withdraw(r)
  <2>1. plan' = [plan EXCEPT ![r] = NoPlan]
    BY <1>3 DEF NothingToChange, Withdraw
  <2> QED  BY <1>1, <2>1, NoPlanTyped, PlanTypedStep
<1>4. CASE \E c \in Releases \cup {Root}, i \in Configs \cup {"none"} : Inspect(r, c, i)
  <2>1. PICK c \in Releases \cup {Root}, i \in Configs \cup {"none"} : Inspect(r, c, i)
    BY <1>4
  <2>2. PICK version \in Versions : plan' = [plan EXCEPT ![r] =
          [NoPlan EXCEPT !.op = "inspected", !.candidate = c, !.import = i,
                         !.release = version, !.up = daemon # "none"]]
    BY <2>1 DEF Inspect
  <2> DEFINE p == [NoPlan EXCEPT !.op = "inspected", !.candidate = c, !.import = i,
                                 !.release = version, !.up = daemon # "none"]
  <2>3. p \in PlanRecords /\ p.op = "inspected" /\ p.candidate = c
    <3>1. version \in Contents
      BY <1>2 DEF Versions, Contents
    <3> QED  BY <1>2, <3>1, NoPlanTyped DEF PlanRecords
  <2>4. plan' = [plan EXCEPT ![r] = p]
    BY <2>2
  <2> HIDE DEF p
  <2>5. PlanTyped(p)
    BY <2>1, <2>3 DEF PlanTyped
  <2> QED  BY <1>1, <2>3, <2>4, <2>5, PlanTypedStep
<1>5. CASE PlanInstall(r)
  <2> DEFINE q == plan[r]
             p == [q EXCEPT !.op = "install", !.seen = disk, !.needed = Needed(q)]
  <2>1. q.op = "inspected" /\ plan' = [plan EXCEPT ![r] = p]
    BY <1>5 DEF PlanInstall, TypeInv
  <2>2. /\ Needed(q) \subseteq Choices
        /\ "copy" \in Needed(q) => ~Same(q)
        /\ "import" \in Needed(q) => Imports(q)
    BY DEF Needed, Choices
  <2>3. q \in PlanRecords /\ q.candidate \in Releases \cup {Root}
    BY <1>2, <2>1 DEF PlanTyped
  <2> HIDE DEF q
  <2>4. /\ p \in PlanRecords /\ p.op = "install" /\ p.candidate = q.candidate
        /\ p.import = q.import /\ p.needed = Needed(q)
    BY <1>2, <2>2, <2>3 DEF PlanRecords
  <2> HIDE DEF p
  <2>5. PlanTyped(p)
    BY <2>2, <2>3, <2>4 DEF PlanTyped, Same, Imports
  <2> QED  BY <1>1, <2>1, <2>4, <2>5, PlanTypedStep
<1>6. CASE \E i \in DOMAIN backups, force \in BOOLEAN : PlanRollback(r, i, force)
  <2>1. PICK i \in DOMAIN backups, force \in BOOLEAN : PlanRollback(r, i, force)
    BY <1>6
  <2> DEFINE p == [NoPlan EXCEPT !.op = "rollback", !.record = i, !.force = force,
                                 !.restores = Restores(backups[i]),
                                 !.removals = Removals(backups[i])]
  <2>2. plan' = [plan EXCEPT ![r] = p]
    BY <2>1 DEF PlanRollback
  <2>3. i \in Nat /\ Restores(backups[i]) \subseteq Managed /\ Removals(backups[i]) \subseteq Managed
    BY <2>1 DEF TypeInv, Restores, Removals
  <2>4. p \in PlanRecords /\ p.op = "rollback" /\ p.record = i
    BY <2>1, <2>3, NoPlanTyped DEF PlanRecords
  <2> HIDE DEF p
  <2>5. PlanTyped(p)
    BY <2>4 DEF PlanTyped
  <2> QED  BY <1>1, <2>1, <2>2, <2>4, <2>5, PlanTypedStep
<1> QED  BY <1>3, <1>4, <1>5, <1>6

LEMMA AroundTyped ==
  ASSUME TypeInv, Around
  PROVE  TypeInv'
<1>1. UNCHANGED <<backups, lock, plan, todo>>
  BY DEF Around, PlanAttach, Attach, Detach, Edit, DaemonEnds, DaemonStarts
<1>2. disk \in Disks /\ daemon \in Contents /\ disk.src \in Contents /\ "none" \in Contents
  BY DEF TypeInv, ITypeOK, Disks, Contents
<1>3. disk' \in Disks
  <2>1. CASE Edit
    <3>1. CASE \E c \in Configs, ready \in BOOLEAN : disk' = [disk EXCEPT !.config = Config(c, ready)]
      BY <1>2, <3>1, ConfigTyped
    <3>2. CASE disk' = [disk EXCEPT !.secure = FALSE]
      BY <1>2, <3>2 DEF Disks
    <3> QED  BY <2>1, <3>1, <3>2 DEF Edit
  <2> QED  BY <1>2, <2>1 DEF Around, PlanAttach, Attach, Detach, DaemonEnds, DaemonStarts
<1>4. daemon' \in Contents
  BY <1>2 DEF Around, PlanAttach, Attach, Detach, Edit, DaemonEnds, DaemonStarts
<1>5. ITypeOK'
  BY <1>1, <1>3, <1>4 DEF TypeInv, ITypeOK
<1>6. TodoTyped'
  <2>1. \A p : Wanted(p)' = Wanted(p)
    BY <1>1 DEF Wanted, InstallSet, RollbackSet, Record
  <2> QED  BY <1>1, <2>1 DEF TypeInv, TodoTyped, Wanted, InstallSet, RollbackSet, Record, Limit, Last
<1> QED  BY <1>1, <1>5, <1>6 DEF TypeInv

LEMMA NextTyped ==
  ASSUME TypeInv, [Next]_vars
  PROVE  TypeInv'
<1>1. CASE UNCHANGED vars
  <2>1. UNCHANGED <<disk, daemon, backups, lock, plan, todo>>
    BY <1>1 DEF vars
  <2>2. TodoTyped'
    BY <2>1 DEF TypeInv, TodoTyped, Wanted, InstallSet, RollbackSet, Record, Limit, Last
  <2> QED  BY <2>1, <2>2 DEF TypeInv, ITypeOK
<1>2. ASSUME NEW r \in Runs, Install(r) \/ Rollback(r)
      PROVE  TypeInv'
  BY <1>2, TakeTyped
<1>3. CASE OffDisk \/ StepFails
  BY <1>3, OffDiskTyped, FailsTyped
<1>4. CASE RecordAfter
  BY <1>4, RecordTyped
<1>5. CASE OnDisk
  BY <1>5, OnDiskTyped
<1>6. CASE Around
  BY <1>6, AroundTyped
<1>7. CASE Next
  BY <1>2, <1>3, <1>4, <1>5, <1>6, <1>7, PlansTyped DEF Next, OffDisk, OnDisk, Around, Files
<1> QED  BY <1>1, <1>7

(* A run holds the lock exactly while it has steps left, and everything a  *)
(* step copies, imports, installs, restores or unpacks is a release, a     *)
(* configuration or a unit: what was inspected or planned before the lock  *)
(* is still of that kind under it, whatever other runs have done.          *)
THEOREM InstallationTyped == Spec => []ITypeOK
<1>1. TypeInv => ITypeOK
  BY DEF TypeInv
<1>2. Init => TypeInv
  BY InitTyped
<1>3. TypeInv /\ [Next]_vars => TypeInv'
  BY NextTyped
<1> QED  BY <1>1, <1>2, <1>3, PTL DEF Spec

-----------------------------------------------------------------------------
(* One run at a time.  What it inspected and planned still holds when it   *)
(* has the lock, and what it has left to do is what is not done.           *)

Alone == \A r, u \in Runs : r = u

Unit(p) == Offers(p).unit

Inspected(p) ==
  /\ p.release \in Versions
  /\ p.candidate = Root => disk.src # "none" /\ disk.rest \in Releases
  /\ p.import = "none" => disk.config # NoConfig

\* What is not needed is there.
Chosen(p) ==
  /\ "secure" \notin p.needed => p.seen.secure
  /\ "copy" \notin p.needed =>
       p.candidate = Root \/ (p.seen.src = p.candidate /\ p.seen.rest = p.candidate)
  /\ "import" \notin p.needed => p.import \in {"none", p.seen.config.text}
  /\ "validate" \notin p.needed => p.seen.config.ready
  /\ "launcher" \notin p.needed => p.seen.launcher = Source(p)
  /\ "unit" \notin p.needed => p.seen.unit = Unit(p)
  /\ "start" \notin p.needed => {"copy", "unit"} \cap p.needed = {}

Undoes(p) == p.restores = Restores(Record(p)) /\ p.removals = Removals(Record(p))

\* While no run has the lock.
Waiting ==
  lock = "none" => \A r \in Runs :
    /\ plan[r].op \in {"inspected", "install"} => Inspected(plan[r])
    /\ plan[r].op = "install" => Chosen(plan[r])
    /\ plan[r].op = "rollback" => Undoes(plan[r])

Installing(p) ==
  /\ p.candidate = Root => disk.src # "none" /\ disk.rest \in Releases /\ "copy" \notin p.needed
  /\ p.candidate # Root => /\ disk.src = p.candidate \/ Left(todo, "copy", "src")
                           /\ disk.rest = p.candidate \/ Left(todo, "copy", "rest")
  /\ Left(todo, "clear", "src") => Left(todo, "copy", "src")
  /\ Left(todo, "clear", "rest") => Left(todo, "copy", "rest")
  /\ Left(todo, "copy", "src") => Left(todo, "start", "daemon")
  /\ disk.launcher = Source(p) \/ Left(todo, "install", "launcher")
  /\ disk.unit = Unit(p) \/ Left(todo, "install", "unit")
  /\ disk.config # NoConfig \/ Left(todo, "import", "config")
  /\ disk.config.ready \/ Left(todo, "validate", "config")
  /\ p.import \in {"none", disk.config.text} \/ Left(todo, "import", "config")
  /\ p.seen.src # "none" => disk.secure \/ Left(todo, "secure", "root")

\* A file is as it was, or will be.
Undone(f, before) ==
  \/ disk[f] = before[f]
  \/ before[f] # "none" /\ Left(todo, "restore", f)
  \/ before[f] = "none" /\ Left(todo, "remove", f)

RollingBack(p) ==
  LET before == Record(p).before
  IN  /\ p.restores = Restores(Record(p))
      /\ Undone("unit", before) /\ Undone("launcher", before)
      /\ Left(todo, "remove", "unit") => before.unit = "none" /\ disk.unit # "none"
      /\ Left(todo, "remove", "launcher") => before.launcher = "none" /\ disk.launcher # "none"
      /\ before.config \in {NoConfig, disk.config} \/ Left(todo, "restore", "config")
      /\ Record(p).archive => Tree(disk) = Tree(before) \/ Left(todo, "unpack", "archive")
      /\ Left(todo, "clear", "src") \/ Left(todo, "clear", "rest") => Left(todo, "unpack", "archive")

\* While a run has it.
Under ==
  lock # "none" =>
    IF plan[lock].op = "install" THEN Installing(plan[lock]) ELSE RollingBack(plan[lock])

\* The application is kept if there was a whole one that may be replaced, and only if
\* there was any.
KeptAsIs(b) ==
  /\ b.before.src \in Releases /\ b.candidate # Root => b.archive
  /\ b.archive => b.before.src # "none"
Kept == \A i \in DOMAIN backups : KeptAsIs(backups[i])

AloneInv == TypeInv /\ Waiting /\ Under /\ Kept

LEMMA InitAlone == Init => AloneInv
<1> SUFFICES ASSUME Init PROVE AloneInv
  OBVIOUS
<1>1. backups = << >> /\ lock = "none" /\ plan = [r \in Runs |-> NoPlan]
  BY DEF Init
<1>2. DOMAIN backups = {}
  BY <1>1
<1>3. Waiting
  BY <1>1, NoPlanTyped DEF Waiting
<1> QED  BY <1>1, <1>2, <1>3, InitTyped DEF AloneInv, Under, Kept

\* The steps left after one is taken.
LEMMA TailLeft ==
  ASSUME TypeInv, NEW do, NEW what, At(do, what), todo' = Tail(todo)
  PROVE  /\ Left(todo, do, what) /\ ~Left(todo', do, what)
         /\ \A d, w : <<d, w>> # <<do, what>> => (Left(todo', d, w) <=> Left(todo, d, w))
         /\ \A d, w : Left(todo', d, w) => Rank(<<do, what>>) < Rank(<<d, w>>)
<1>1. lock # "none" /\ Head(todo) = <<do, what>>
  BY DEF At
<1>2. todo # << >> /\ Head(todo) \in Steps(todo)
  BY <1>1, AtWanted
<1>3. Band(todo, 1, Limit(plan[lock])) /\ Limit(plan[lock]) \in Nat
  BY <1>1 DEF TypeInv, TodoTyped, Limit
<1>4. /\ Steps(Tail(todo)) = Steps(todo) \ {Head(todo)}
      /\ \A x \in Steps(Tail(todo)) : Rank(Head(todo)) < Rank(x)
  BY <1>2, <1>3, BandTail
<1>5. Steps(todo') = Steps(todo) \ {<<do, what>>}
  BY <1>1, <1>4
<1> QED  BY <1>1, <1>2, <1>4, <1>5 DEF Left

\* Whatever ends a run leaves nothing to show.
LEMMA EndAlone ==
  ASSUME Alone, AloneInv, TypeInv', Kept', lock # "none", lock' = "none",
         plan' = [plan EXCEPT ![lock] = NoPlan]
  PROVE  AloneInv'
<1>1. lock \in Runs /\ plan \in [Runs -> PlanRecords]
  BY AtWanted DEF AloneInv, TypeInv
<1>2. \A r \in Runs : plan'[r] = NoPlan
  BY <1>1 DEF Alone
<1>3. Waiting'
  BY <1>2, NoPlanTyped DEF Waiting
<1> QED  BY <1>3 DEF AloneInv, Under

\* A step of an install, of which there are steps left.
InstallGoesOn(do, what) ==
  /\ At(do, what) /\ todo' = Tail(todo) /\ UNCHANGED <<lock, plan>>
  /\ plan[lock].op = "install" /\ Installing(plan[lock])

\* The steps an install has left: all but the one that was taken, and only later ones.
LEMMA InstallLeft ==
  ASSUME TypeInv, NEW do, NEW what, InstallGoesOn(do, what)
  PROVE  /\ plan[lock]' = plan[lock] /\ disk \in Disks
         /\ plan[lock] \in PlanRecords /\ PlanTyped(plan[lock])
         /\ Source(plan[lock]) = IF plan[lock].candidate = Root THEN disk.rest
                                 ELSE plan[lock].candidate
         /\ Source(plan[lock])' = IF plan[lock].candidate = Root THEN disk'.rest
                                  ELSE plan[lock].candidate
         /\ Source(plan[lock])' = Source(plan[lock]) => Unit(plan[lock])' = Unit(plan[lock])
         /\ ~Left(todo', do, what)
         /\ \A d, w : Left(todo', d, w) => Left(todo, d, w) /\ Rank(<<do, what>>) < Rank(<<d, w>>)
         /\ \A d, w : Left(todo, d, w) /\ (d # do \/ w # what) => Left(todo', d, w)
<1> DEFINE p == plan[lock]
<1>1. p' = p /\ At(do, what) /\ todo' = Tail(todo) /\ disk \in Disks
  BY DEF InstallGoesOn, TypeInv, ITypeOK
<1>2. lock # "none"
  BY <1>1 DEF At
<1>3. p \in PlanRecords /\ PlanTyped(p)
  BY <1>2, AtWanted
<1> HIDE DEF p
<1>4. /\ ~Left(todo', do, what) /\ Left(todo, do, what)
      /\ \A d, w : <<d, w>> # <<do, what>> => (Left(todo', d, w) <=> Left(todo, d, w))
      /\ \A d, w : Left(todo', d, w) => Rank(<<do, what>>) < Rank(<<d, w>>)
  BY <1>1, TailLeft
<1>5. Source(p) = IF p.candidate = Root THEN disk.rest ELSE p.candidate
  BY DEF Source
<1>6. Source(p)' = IF p.candidate = Root THEN disk'.rest ELSE p.candidate
  BY <1>1 DEF Source
<1>7. Source(p)' = Source(p) => Unit(p)' = Unit(p)
  BY DEF Unit, Offers
<1>8. \A d, w : Left(todo', d, w) => Left(todo, d, w)
  <2> SUFFICES ASSUME NEW d, NEW w, Left(todo', d, w) PROVE Left(todo, d, w)
    OBVIOUS
  <2>1. CASE <<d, w>> = <<do, what>>
    <3>1. d = do /\ w = what
      BY <2>1
    <3> QED  BY <1>4, <3>1
  <2>2. CASE <<d, w>> # <<do, what>>
    BY <1>4, <2>2
  <2> QED  BY <2>1, <2>2
<1>9. \A d, w : Left(todo, d, w) /\ (d # do \/ w # what) => Left(todo', d, w)
  <2> SUFFICES ASSUME NEW d, NEW w, Left(todo, d, w), d # do \/ w # what PROVE Left(todo', d, w)
    OBVIOUS
  <2>1. <<d, w>> # <<do, what>>
    OBVIOUS
  <2> QED  BY <1>4, <2>1
<1> QED  BY <1>1, <1>3, <1>4, <1>5, <1>6, <1>7, <1>8, <1>9 DEF p

LEMMA OffDiskInstalls ==
  ASSUME TypeInv, UNCHANGED disk, NEW do, NEW what, InstallGoesOn(do, what),
         do \in {"prepare", "start", "record"}
  PROVE  Installing(plan[lock])'
<1> DEFINE p == plan[lock]
<1>a. /\ \A d, w : Left(todo', d, w) => Left(todo, d, w)
      /\ \A d, w : Left(todo, d, w) /\ (d # do \/ w # what) => Left(todo', d, w)
      /\ \A d, w : Left(todo', d, w) => Rank(<<do, what>>) < Rank(<<d, w>>)
  BY InstallLeft
<1>b. p' = p /\ disk \in Disks /\ p \in PlanRecords
  BY InstallLeft
<1>c. /\ Source(p) = IF p.candidate = Root THEN disk.rest ELSE p.candidate
      /\ Source(p)' = IF p.candidate = Root THEN disk'.rest ELSE p.candidate
      /\ Source(p)' = Source(p) => Unit(p)' = Unit(p)
  BY InstallLeft
<1>1. Installing(p)
  BY DEF InstallGoesOn
<1>2. Left(todo', "copy", "src") => Left(todo', "start", "daemon")
  <2>1. CASE do = "start"
    <3>1. Rank(<<do, what>>) = 18
      BY <2>1 DEF Rank
    <3> QED  BY <1>a, <3>1, Ranks
  <2>2. CASE do # "start"
    BY <1>1, <1>a, <2>2 DEF Installing
  <2> QED  BY <2>1, <2>2
<1>3. /\ Left(todo', "clear", "src") => Left(todo, "clear", "src")
      /\ Left(todo', "clear", "rest") => Left(todo, "clear", "rest")
      /\ Left(todo, "copy", "src") => Left(todo', "copy", "src")
      /\ Left(todo, "copy", "rest") => Left(todo', "copy", "rest")
      /\ Left(todo, "import", "config") => Left(todo', "import", "config")
      /\ Left(todo, "validate", "config") => Left(todo', "validate", "config")
      /\ Left(todo, "secure", "root") => Left(todo', "secure", "root")
      /\ Left(todo, "install", "launcher") => Left(todo', "install", "launcher")
      /\ Left(todo, "install", "unit") => Left(todo', "install", "unit")
  BY <1>a
<1>4. p' = p /\ Source(p)' = Source(p) /\ Unit(p)' = Unit(p)
  BY <1>b, <1>c
<1> HIDE DEF p
<1>5. Installing(p)'
  BY <1>1, <1>2, <1>3, <1>4 DEF Installing
<1> QED  BY <1>5 DEF p

\* Modes and owners, a configuration, or a file installed.
LEMMA ConfigInstalls ==
  ASSUME TypeInv, NEW do, NEW what, InstallGoesOn(do, what),
         \/ do = "secure" /\ disk' =
              [disk EXCEPT !.secure = TRUE, !.config.ready = disk.config # NoConfig]
         \/ do = "import" /\ disk' =
              [disk EXCEPT !.config = Config(plan[lock].import, TRUE)]
         \/ do = "validate" /\ disk' = [disk EXCEPT !.config.ready = TRUE]
  PROVE  Installing(plan[lock])'
<1> DEFINE p == plan[lock]
<1>a. /\ \A d, w : Left(todo', d, w) => Left(todo, d, w)
      /\ \A d, w : Left(todo, d, w) /\ (d # do \/ w # what) => Left(todo', d, w)
      /\ \A d, w : Left(todo', d, w) => Rank(<<do, what>>) < Rank(<<d, w>>)
  BY InstallLeft
<1>b. p' = p /\ disk \in Disks /\ p \in PlanRecords
  BY InstallLeft
<1>c. /\ Source(p) = IF p.candidate = Root THEN disk.rest ELSE p.candidate
      /\ Source(p)' = IF p.candidate = Root THEN disk'.rest ELSE p.candidate
      /\ Source(p)' = Source(p) => Unit(p)' = Unit(p)
  BY InstallLeft
<1>1. Installing(p) /\ At(do, what)
  BY DEF InstallGoesOn
<1>2. /\ Left(todo', "copy", "src") => Left(todo, "copy", "src")
      /\ Left(todo, "start", "daemon") => Left(todo', "start", "daemon")
      /\ Left(todo', "clear", "src") => Left(todo, "clear", "src")
      /\ Left(todo', "clear", "rest") => Left(todo, "clear", "rest")
      /\ Left(todo, "copy", "src") => Left(todo', "copy", "src")
      /\ Left(todo, "copy", "rest") => Left(todo', "copy", "rest")
      /\ Left(todo, "install", "launcher") => Left(todo', "install", "launcher")
      /\ Left(todo, "install", "unit") => Left(todo', "install", "unit")
      /\ do # "import" => (Left(todo, "import", "config") => Left(todo', "import", "config"))
      /\ do # "validate" => (Left(todo, "validate", "config") => Left(todo', "validate", "config"))
      /\ do # "secure" => (Left(todo, "secure", "root") => Left(todo', "secure", "root"))
  BY <1>a
<1>3. p' = p /\ disk \in Disks /\ p \in PlanRecords
  BY <1>b
<1>4. /\ disk'.src = disk.src /\ disk'.rest = disk.rest /\ disk'.launcher = disk.launcher
      /\ disk'.unit = disk.unit
  BY <1>3 DEF Disks
<1>5. Source(p)' = Source(p) /\ Unit(p)' = Unit(p)
  BY <1>4, <1>c
<1>6. disk'.secure \/ (disk'.secure = disk.secure /\ do # "secure")
  BY <1>3 DEF Disks
<1>7. /\ disk'.config # NoConfig \/ Left(todo', "import", "config")
      /\ disk'.config.ready \/ Left(todo', "validate", "config")
      /\ p.import \in {"none", disk'.config.text} \/ Left(todo', "import", "config")
  <2>1. CASE do = "import"
    <3>1. disk'.config = Config(p.import, TRUE)
      BY <1>3, <2>1 DEF Disks
    <3> QED  BY <3>1 DEF Config, NoConfig
  <2>2. CASE do = "validate"
    <3>1. disk'.config = [disk.config EXCEPT !.ready = TRUE]
      BY <1>3, <2>2 DEF Disks
    <3>2. disk'.config.ready /\ disk'.config.text = disk.config.text /\ ~NoConfig.ready
      BY <1>3, <3>1 DEF Disks, NoConfig, Config
    <3>3. disk'.config # NoConfig
      BY <3>2
    <3> QED  BY <1>1, <1>2, <2>2, <3>2, <3>3 DEF Installing
  <2>3. CASE do = "secure"
    <3>1. disk'.config = [disk.config EXCEPT !.ready = (disk.config # NoConfig)]
      BY <1>3, <2>3 DEF Disks
    <3>2. disk.config \in [text : Configs \cup {"none"}, ready : BOOLEAN]
      BY <1>3 DEF Disks
    <3>3. disk'.config.ready = (disk.config # NoConfig) /\ disk'.config.text = disk.config.text
      BY <3>1, <3>2
    <3>4. NoConfig.ready = FALSE
      BY DEF NoConfig, Config
    <3>5. disk.config # NoConfig => disk'.config # NoConfig /\ disk'.config.ready
      BY <3>3, <3>4
    <3>6. disk.config.ready => disk.config # NoConfig
      BY <3>4
    <3> QED  BY <1>1, <1>2, <2>3, <3>3, <3>5, <3>6 DEF Installing
  <2> QED  BY <2>1, <2>2, <2>3
<1>8. p.seen.src # "none" => disk'.secure \/ Left(todo', "secure", "root")
  BY <1>1, <1>2, <1>6 DEF Installing
<1> HIDE DEF p
<1>9. Installing(p)'
  BY <1>1, <1>2, <1>3, <1>4, <1>5, <1>7, <1>8 DEF Installing
<1> QED  BY <1>9 DEF p

LEMMA FileInstalls ==
  ASSUME TypeInv, NEW f \in Files, InstallGoesOn("install", f),
         disk' = [disk EXCEPT ![f] = Offers(plan[lock])[f]]
  PROVE  Installing(plan[lock])'
<1> DEFINE p == plan[lock]
<1>a. /\ \A d, w : Left(todo', d, w) => Left(todo, d, w)
      /\ \A d, w : Left(todo, d, w) /\ (d # "install" \/ w # f) => Left(todo', d, w)
      /\ \A d, w : Left(todo', d, w) => Rank(<<"install", f>>) < Rank(<<d, w>>)
  BY InstallLeft
<1>b. p' = p /\ disk \in Disks /\ p \in PlanRecords
  BY InstallLeft
<1>c. /\ Source(p) = IF p.candidate = Root THEN disk.rest ELSE p.candidate
      /\ Source(p)' = IF p.candidate = Root THEN disk'.rest ELSE p.candidate
      /\ Source(p)' = Source(p) => Unit(p)' = Unit(p)
  BY InstallLeft
<1>1. Installing(p)
  BY DEF InstallGoesOn
<1>2. /\ Left(todo', "copy", "src") => Left(todo, "copy", "src")
      /\ Left(todo, "start", "daemon") => Left(todo', "start", "daemon")
      /\ Left(todo', "clear", "src") => Left(todo, "clear", "src")
      /\ Left(todo', "clear", "rest") => Left(todo, "clear", "rest")
      /\ Left(todo, "copy", "src") => Left(todo', "copy", "src")
      /\ Left(todo, "copy", "rest") => Left(todo', "copy", "rest")
      /\ Left(todo, "import", "config") => Left(todo', "import", "config")
      /\ Left(todo, "validate", "config") => Left(todo', "validate", "config")
      /\ Left(todo, "secure", "root") => Left(todo', "secure", "root")
      /\ f # "launcher" => (Left(todo, "install", "launcher") => Left(todo', "install", "launcher"))
      /\ f # "unit" => (Left(todo, "install", "unit") => Left(todo', "install", "unit"))
  BY <1>a
<1>3. p' = p /\ disk \in Disks
  BY <1>b
<1>4. /\ disk'.src = disk.src /\ disk'.rest = disk.rest /\ disk'.secure = disk.secure
      /\ disk'.config = disk.config
      /\ f # "launcher" => disk'.launcher = disk.launcher
      /\ f # "unit" => disk'.unit = disk.unit
      /\ disk'[f] = Offers(p)[f]
  BY <1>3 DEF Disks, Files
<1>5. Source(p)' = Source(p) /\ Unit(p)' = Unit(p)
  BY <1>4, <1>c
<1>6. Offers(p).launcher = Source(p) /\ Offers(p).unit = Unit(p)
  BY DEF Offers, Unit
<1>7. disk'.launcher = Source(p) \/ Left(todo', "install", "launcher")
  BY <1>1, <1>2, <1>4, <1>6 DEF Installing
<1>8. disk'.unit = Unit(p) \/ Left(todo', "install", "unit")
  BY <1>1, <1>2, <1>4, <1>6 DEF Installing
<1> HIDE DEF p
<1>9. Installing(p)'
  BY <1>1, <1>2, <1>3, <1>4, <1>5, <1>7, <1>8 DEF Installing
<1> QED  BY <1>9 DEF p

\* A part of the application that is removed is copied anew.
LEMMA PartInstalls ==
  ASSUME TypeInv, NEW part \in {"src", "rest"}, NEW do, InstallGoesOn(do, part),
         plan[lock].candidate # Root,
         \/ do = "clear" /\ disk' = [disk EXCEPT ![part] = "none"]
         \/ do = "copy" /\ disk' = [disk EXCEPT ![part] = plan[lock].candidate]
  PROVE  Installing(plan[lock])'
<1> DEFINE p == plan[lock]
<1>a. /\ \A d, w : Left(todo', d, w) => Left(todo, d, w)
      /\ \A d, w : Left(todo, d, w) /\ (d # do \/ w # part) => Left(todo', d, w)
      /\ \A d, w : Left(todo', d, w) => Rank(<<do, part>>) < Rank(<<d, w>>)
  BY InstallLeft
<1>b. p' = p /\ disk \in Disks /\ p \in PlanRecords
  BY InstallLeft
<1>c. /\ Source(p) = IF p.candidate = Root THEN disk.rest ELSE p.candidate
      /\ Source(p)' = IF p.candidate = Root THEN disk'.rest ELSE p.candidate
      /\ Source(p)' = Source(p) => Unit(p)' = Unit(p)
  BY InstallLeft
<1>1. Installing(p) /\ At(do, part) /\ todo' = Tail(todo)
  BY DEF InstallGoesOn
<1>l. Left(todo, do, part)
  BY <1>1, TailLeft
<1>2. /\ Left(todo', "copy", "src") => Left(todo, "copy", "src")
      /\ Left(todo, "start", "daemon") => Left(todo', "start", "daemon")
      /\ Left(todo', "clear", "src") => Left(todo, "clear", "src")
      /\ Left(todo', "clear", "rest") => Left(todo, "clear", "rest")
      /\ Left(todo, "import", "config") => Left(todo', "import", "config")
      /\ Left(todo, "validate", "config") => Left(todo', "validate", "config")
      /\ Left(todo, "secure", "root") => Left(todo', "secure", "root")
      /\ Left(todo, "install", "launcher") => Left(todo', "install", "launcher")
      /\ Left(todo, "install", "unit") => Left(todo', "install", "unit")
      /\ do # "copy" \/ part # "src" => (Left(todo, "copy", "src") => Left(todo', "copy", "src"))
      /\ do # "copy" \/ part # "rest" => (Left(todo, "copy", "rest") => Left(todo', "copy", "rest"))
  BY <1>a
<1>3. p' = p /\ disk \in Disks
  BY <1>b
<1>4. /\ disk'.launcher = disk.launcher /\ disk'.unit = disk.unit /\ disk'.secure = disk.secure
      /\ disk'.config = disk.config
      /\ part # "src" => disk'.src = disk.src
      /\ part # "rest" => disk'.rest = disk.rest
      /\ do = "copy" => disk'[part] = p.candidate
  BY <1>3 DEF Disks
<1>5. Source(p)' = Source(p) /\ Unit(p)' = Unit(p)
  BY <1>c
<1>6. \A x \in {"src", "rest"} : Left(todo', "clear", x) => Left(todo', "copy", x)
  <2> SUFFICES ASSUME NEW x \in {"src", "rest"}, Left(todo', "clear", x) PROVE Left(todo', "copy", x)
    OBVIOUS
  <2>1. Left(todo, "copy", x) /\ Rank(<<do, part>>) < Rank(<<"clear", x>>)
    BY <1>1, <1>a DEF Installing
  <2>2. do # "copy" \/ part # x
    BY <2>1, Ranks
  <2> QED  BY <2>1, <1>a, <2>2
<1>7. /\ disk'.src = p.candidate \/ Left(todo', "copy", "src")
      /\ disk'.rest = p.candidate \/ Left(todo', "copy", "rest")
  <2>1. CASE do = "clear"
    BY <1>1, <1>2, <1>4, <1>l, <2>1 DEF Installing
  <2>2. CASE do = "copy"
    BY <1>1, <1>2, <1>4, <2>2 DEF Installing
  <2> QED  BY <2>1, <2>2
<1> HIDE DEF p
<1>9. Installing(p)'
  BY <1>1, <1>2, <1>3, <1>4, <1>5, <1>6, <1>7 DEF Installing, p
<1> QED  BY <1>9 DEF p

\* A step of a rollback, of which there are steps left.
RollbackGoesOn(do, what) ==
  /\ At(do, what) /\ todo' = Tail(todo) /\ UNCHANGED <<lock, plan, backups>>
  /\ plan[lock].op = "rollback" /\ RollingBack(plan[lock])

LEMMA RollbackLeft ==
  ASSUME TypeInv, NEW do, NEW what, RollbackGoesOn(do, what)
  PROVE  /\ plan[lock]' = plan[lock] /\ disk \in Disks /\ plan[lock].record \in DOMAIN backups
         /\ Record(plan[lock]) \in Backups /\ Record(plan[lock])' = Record(plan[lock])
         /\ RollingBack(plan[lock]) /\ Left(todo, do, what) /\ ~Left(todo', do, what)
         /\ do = "restore" => ~Absent(Record(plan[lock]).before, what)
         /\ \A d, w : Left(todo', d, w) => Left(todo, d, w) /\ Rank(<<do, what>>) < Rank(<<d, w>>)
         /\ \A d, w : Left(todo, d, w) /\ (d # do \/ w # what) => Left(todo', d, w)
<1> DEFINE p == plan[lock]
<1>1. p' = p /\ At(do, what) /\ todo' = Tail(todo) /\ disk \in Disks /\ backups' = backups
      /\ p.op = "rollback" /\ RollingBack(p)
  BY DEF RollbackGoesOn, TypeInv, ITypeOK
<1>2. lock # "none"
  BY <1>1 DEF At
<1>3. lock \in Runs
  BY <1>2, AtWanted
<1>4. p.record \in DOMAIN backups /\ backups \in Seq(Backups)
  BY <1>1, <1>3 DEF TypeInv, ITypeOK
<1>5. Record(p) \in Backups /\ Record(p)' = Record(p)
  BY <1>1, <1>4 DEF Record
<1> HIDE DEF p
<1>6. /\ ~Left(todo', do, what) /\ Left(todo, do, what)
      /\ \A d, w : <<d, w>> # <<do, what>> => (Left(todo', d, w) <=> Left(todo, d, w))
      /\ \A d, w : Left(todo', d, w) => Rank(<<do, what>>) < Rank(<<d, w>>)
  BY <1>1, TailLeft
<1>7. \A d, w : Left(todo', d, w) => Left(todo, d, w)
  <2> SUFFICES ASSUME NEW d, NEW w, Left(todo', d, w) PROVE Left(todo, d, w)
    OBVIOUS
  <2>1. CASE <<d, w>> = <<do, what>>
    <3>1. d = do /\ w = what
      BY <2>1
    <3> QED  BY <1>6, <3>1
  <2>2. CASE <<d, w>> # <<do, what>>
    BY <1>6, <2>2
  <2> QED  BY <2>1, <2>2
<1>8. \A d, w : Left(todo, d, w) /\ (d # do \/ w # what) => Left(todo', d, w)
  <2> SUFFICES ASSUME NEW d, NEW w, Left(todo, d, w), d # do \/ w # what PROVE Left(todo', d, w)
    OBVIOUS
  <2>1. <<d, w>> # <<do, what>>
    OBVIOUS
  <2> QED  BY <1>6, <2>1
<1>9. do = "restore" => ~Absent(Record(p).before, what)
  <2>1. do = "restore" => what \in p.restores
    BY <1>1, AtMeans DEF p
  <2>2. p.restores = Restores(Record(p))
    BY <1>1 DEF RollingBack
  <2> QED  BY <2>1, <2>2 DEF Restores
<1> QED  BY <1>1, <1>4, <1>5, <1>6, <1>7, <1>8, <1>9 DEF p

\* Everything a rollback does to the disk.
RollbackChanges(do, what) ==
  LET before == Record(plan[lock]).before
  IN  \/ do \in {"stop", "restart"} /\ UNCHANGED disk
      \/ do = "restore" /\ what \in Managed /\ disk' = [disk EXCEPT ![what] = before[what]]
      \/ do = "remove" /\ what \in Files /\ disk' = [disk EXCEPT ![what] = "none"]
      \/ do = "clear" /\ what \in {"src", "rest"} /\ disk' = [disk EXCEPT ![what] = "none"]
      \/ do = "unpack" /\ disk' =
           [disk EXCEPT !.src = before.src, !.rest = before.rest, !.secure = before.secure,
                        !.config = IF before.config = NoConfig THEN disk.config
                                   ELSE before.config]

LEMMA RollsBack ==
  ASSUME TypeInv, NEW do, NEW what, RollbackGoesOn(do, what), RollbackChanges(do, what)
  PROVE  RollingBack(plan[lock])'
<1> DEFINE p == plan[lock]
           before == Record(p).before
<1>a. \A d, w : Left(todo', d, w) => Left(todo, d, w)
  BY RollbackLeft
<1>d. \A d, w : Left(todo, d, w) /\ (d # do \/ w # what) => Left(todo', d, w)
  BY RollbackLeft
<1>e. \A d, w : Left(todo', d, w) => Rank(<<do, what>>) < Rank(<<d, w>>)
  BY RollbackLeft
<1>f. Left(todo, do, what) /\ ~Left(todo', do, what)
  BY RollbackLeft
<1>h. do = "restore" => ~Absent(before, what)
  BY RollbackLeft
<1>b. p' = p /\ disk \in Disks /\ Record(p) \in Backups /\ Record(p)' = Record(p) /\ RollingBack(p)
  BY RollbackLeft
<1>c. /\ before \in Disks /\ before' = before
      /\ p.restores = Restores(Record(p)) /\ p'.restores = Restores(Record(p)')
  BY <1>b DEF Backups, RollingBack
<1>1. /\ Left(todo', "remove", "unit") => Left(todo, "remove", "unit")
      /\ Left(todo', "remove", "launcher") => Left(todo, "remove", "launcher")
      /\ Left(todo', "clear", "src") => Left(todo, "clear", "src")
      /\ Left(todo', "clear", "rest") => Left(todo, "clear", "rest")
      /\ do # "restore" \/ what # "config" =>
           (Left(todo, "restore", "config") => Left(todo', "restore", "config"))
      /\ do # "restore" \/ what # "unit" =>
           (Left(todo, "restore", "unit") => Left(todo', "restore", "unit"))
      /\ do # "restore" \/ what # "launcher" =>
           (Left(todo, "restore", "launcher") => Left(todo', "restore", "launcher"))
      /\ do # "remove" \/ what # "unit" =>
           (Left(todo, "remove", "unit") => Left(todo', "remove", "unit"))
      /\ do # "remove" \/ what # "launcher" =>
           (Left(todo, "remove", "launcher") => Left(todo', "remove", "launcher"))
      /\ do # "unpack" =>
           (Left(todo, "unpack", "archive") => Left(todo', "unpack", "archive"))
  BY <1>a, <1>d
<1>g. \/ do \in {"stop", "restart"} /\ UNCHANGED disk
      \/ do = "restore" /\ what \in Managed /\ disk' = [disk EXCEPT ![what] = before[what]]
      \/ do = "remove" /\ what \in Files /\ disk' = [disk EXCEPT ![what] = "none"]
      \/ do = "clear" /\ what \in {"src", "rest"} /\ disk' = [disk EXCEPT ![what] = "none"]
      \/ do = "unpack" /\ disk' =
           [disk EXCEPT !.src = before.src, !.rest = before.rest, !.secure = before.secure,
                        !.config = IF before.config = NoConfig THEN disk.config
                                   ELSE before.config]
  BY DEF RollbackChanges
<1>o. /\ Undone("unit", before) /\ Undone("launcher", before)
      /\ Left(todo, "remove", "unit") => before.unit = "none" /\ disk.unit # "none"
      /\ Left(todo, "remove", "launcher") => before.launcher = "none" /\ disk.launcher # "none"
      /\ before.config \in {NoConfig, disk.config} \/ Left(todo, "restore", "config")
      /\ Record(p).archive => Tree(disk) = Tree(before) \/ Left(todo, "unpack", "archive")
      /\ Left(todo, "clear", "src") \/ Left(todo, "clear", "rest") => Left(todo, "unpack", "archive")
  BY <1>b DEF RollingBack
<1> SUFFICES /\ Undone("unit", before)' /\ Undone("launcher", before)'
             /\ Left(todo', "remove", "unit") => before.unit = "none" /\ disk'.unit # "none"
             /\ Left(todo', "remove", "launcher") => before.launcher = "none" /\ disk'.launcher # "none"
             /\ before.config \in {NoConfig, disk'.config} \/ Left(todo', "restore", "config")
             /\ Record(p).archive => Tree(disk') = Tree(before) \/ Left(todo', "unpack", "archive")
             /\ Left(todo', "clear", "src") \/ Left(todo', "clear", "rest")
                  => Left(todo', "unpack", "archive")
  <2>1. RollingBack(p)'
    BY <1>b, <1>c DEF RollingBack
  <2> QED  BY <2>1
<1> HIDE DEF before, p
<1>2. CASE do \in {"stop", "restart"}
  BY <1>1, <1>c, <1>g, <1>o, <1>2 DEF Undone
<1>3. CASE do = "restore"
  <2>1. /\ what \in Managed /\ disk'[what] = before[what]
        /\ \A f \in {"src", "rest", "secure", "config", "unit", "launcher"} \ {what} : disk'[f] = disk[f]
    BY <1>b, <1>g, <1>3 DEF Managed, Disks
  <2>2. /\ disk'.src = disk.src /\ disk'.rest = disk.rest /\ disk'.secure = disk.secure
        /\ what # "config" => disk'.config = disk.config
        /\ what # "unit" => disk'.unit = disk.unit
        /\ what # "launcher" => disk'.launcher = disk.launcher
    BY <2>1 DEF Managed
  <2>3. Tree(disk') = Tree(disk)
    BY <2>2 DEF Tree
  <2>4. Undone("unit", before)'
    BY <1>1, <1>c, <1>o, <1>3, <2>1, <2>2 DEF Undone
  <2>5. Undone("launcher", before)'
    BY <1>1, <1>c, <1>o, <1>3, <2>1, <2>2 DEF Undone
  <2>6. /\ Left(todo', "remove", "unit") => before.unit = "none" /\ disk'.unit # "none"
        /\ Left(todo', "remove", "launcher") => before.launcher = "none" /\ disk'.launcher # "none"
    <3>1. ~Absent(before, what)
      BY <1>3, <1>h
    <3>2. what # "config" => before[what] # "none"
      BY <3>1 DEF Absent
    <3> QED  BY <1>1, <1>o, <1>3, <2>1, <2>2, <3>2
  <2> QED  BY <1>1, <1>o, <1>3, <2>1, <2>2, <2>3, <2>4, <2>5, <2>6
<1>4. CASE do = "remove"
  <2>1. /\ what \in Files /\ disk'[what] = "none" /\ Left(todo, "remove", what) /\ ~Left(todo', "remove", what)
        /\ \A f \in {"src", "rest", "secure", "config", "unit", "launcher"} \ {what} : disk'[f] = disk[f]
    BY <1>b, <1>f, <1>g, <1>4 DEF Files, Disks
  <2>2. /\ disk'.src = disk.src /\ disk'.rest = disk.rest /\ disk'.secure = disk.secure
        /\ disk'.config = disk.config
        /\ what # "unit" => disk'.unit = disk.unit
        /\ what # "launcher" => disk'.launcher = disk.launcher
    BY <2>1 DEF Files
  <2>3. Tree(disk') = Tree(disk)
    BY <2>2 DEF Tree
  <2>4. Undone("unit", before)'
    BY <1>1, <1>c, <1>o, <1>4, <2>1, <2>2 DEF Undone
  <2>5. Undone("launcher", before)'
    BY <1>1, <1>c, <1>o, <1>4, <2>1, <2>2 DEF Undone
  <2> QED  BY <1>1, <1>o, <1>4, <2>1, <2>2, <2>3, <2>4, <2>5
<1>5. CASE do = "clear"
  <2>1. /\ what \in {"src", "rest"} /\ Left(todo, "clear", what)
        /\ disk'.unit = disk.unit /\ disk'.launcher = disk.launcher /\ disk'.config = disk.config
    BY <1>b, <1>f, <1>g, <1>5 DEF Disks
  <2>2. Left(todo', "unpack", "archive")
    BY <1>1, <1>o, <1>5, <2>1
  <2> QED  BY <1>1, <1>c, <1>o, <1>5, <2>1, <2>2 DEF Undone
<1>6. CASE do = "unpack"
  <2>1. /\ disk'.unit = disk.unit /\ disk'.launcher = disk.launcher
        /\ disk'.config = IF before.config = NoConfig THEN disk.config ELSE before.config
        /\ disk'.src = before.src /\ disk'.rest = before.rest /\ disk'.secure = before.secure
    BY <1>b, <1>g, <1>6 DEF Disks
  <2>2. Tree(disk') = Tree(before)
    BY <2>1 DEF Tree
  <2>3. ~Left(todo', "clear", "src") /\ ~Left(todo', "clear", "rest")
    <3>1. Rank(<<do, what>>) = 13
      BY <1>6 DEF Rank
    <3> QED  BY <1>e, <3>1, Ranks
  <2>4. Undone("unit", before)' /\ Undone("launcher", before)'
    BY <1>1, <1>c, <1>o, <1>6, <2>1 DEF Undone
  <2> QED  BY <1>1, <1>o, <1>6, <2>1, <2>2, <2>3, <2>4
<1> QED  BY <1>2, <1>3, <1>4, <1>5, <1>6, <1>g

-----------------------------------------------------------------------------
LEMMA EndOrOn ==
  ASSUME Alone, AloneInv, TypeInv', Kept', lock # "none", Done
  PROVE  AloneInv' \/ (todo' = Tail(todo) /\ UNCHANGED <<lock, plan>>)
<1>1. CASE Tail(todo) = << >>
  BY <1>1, EndAlone DEF Done, Continue
<1>2. CASE Tail(todo) # << >>
  BY <1>2 DEF Done, Continue
<1> QED  BY <1>1, <1>2

LEMMA InstallsAlone ==
  ASSUME Alone, AloneInv, TypeInv', Kept', NEW do, NEW what, At(do, what), Done,
         plan[lock].op = "install", InstallGoesOn(do, what) => Installing(plan[lock])'
  PROVE  AloneInv'
<1>1. lock # "none"
  BY DEF At
<1>2. CASE todo' = Tail(todo) /\ UNCHANGED <<lock, plan>>
  <2>1. InstallGoesOn(do, what)
    BY <1>1, <1>2 DEF InstallGoesOn, AloneInv, Under
  <2>2. Installing(plan[lock])'
    BY <2>1
  <2>3. plan'[lock'].op = "install" /\ lock' # "none"
    BY <1>1, <1>2
  <2>4. Under' /\ Waiting'
    BY <2>2, <2>3 DEF Under, Waiting
  <2> QED  BY <2>4 DEF AloneInv
<1> QED  BY <1>1, <1>2, EndOrOn

LEMMA RollsAlone ==
  ASSUME Alone, AloneInv, TypeInv', UNCHANGED backups, NEW do, NEW what, At(do, what), Done,
         plan[lock].op = "rollback", RollbackChanges(do, what)
  PROVE  AloneInv'
<1>1. lock # "none"
  BY DEF At
<1>0. Kept'
  BY DEF AloneInv, Kept
<1>2. CASE todo' = Tail(todo) /\ UNCHANGED <<lock, plan>>
  <2>1. RollbackGoesOn(do, what)
    BY <1>1, <1>2 DEF RollbackGoesOn, AloneInv, Under
  <2>2. RollingBack(plan[lock])'
    BY <2>1, RollsBack DEF AloneInv
  <2>3. plan'[lock'].op = "rollback" /\ lock' # "none"
    BY <1>1, <1>2
  <2>4. Under' /\ Waiting'
    BY <2>2, <2>3 DEF Under, Waiting
  <2> QED  BY <1>0, <2>4 DEF AloneInv
<1> QED  BY <1>0, <1>1, <1>2, EndOrOn

\* The disk as the lemmas above see it changed.
LEMMA OnDiskAlone ==
  ASSUME Alone, AloneInv, TypeInv', OnDisk
  PROVE  AloneInv'
<1> DEFINE p == plan[lock]
<1>0. TypeInv
  BY DEF AloneInv
<1>k. UNCHANGED backups => Kept'
  BY DEF AloneInv, Kept
<1>p. lock # "none" => PlanTyped(p) /\ p.op \in {"install", "rollback"}
  BY <1>0, AtWanted
<1>1. CASE Secure \/ Import \/ Validate
  <2>1. PICK do \in {"secure", "import", "validate"}, what \in {"root", "config"} :
          /\ At(do, what) /\ Done /\ UNCHANGED backups
          /\ \/ do = "secure" /\ disk' =
                   [disk EXCEPT !.secure = TRUE, !.config.ready = disk.config # NoConfig]
             \/ do = "import" /\ disk' = [disk EXCEPT !.config = Config(p.import, TRUE)]
             \/ do = "validate" /\ disk' = [disk EXCEPT !.config.ready = TRUE]
    BY <1>1 DEF Secure, Import, Validate, Becomes
  <2>2. p.op = "install"
    BY <1>0, <2>1, AtMeans
  <2>3. InstallGoesOn(do, what) => Installing(p)'
    BY <1>0, <2>1, ConfigInstalls
  <2> QED  BY <1>k, <2>1, <2>2, <2>3, InstallsAlone
<1>2. CASE \E part \in {"src", "rest"} : Clear(part) \/ Copy(part)
  <2>1. PICK part \in {"src", "rest"}, do \in {"clear", "copy"} :
          /\ At(do, part) /\ Done /\ UNCHANGED backups
          /\ \/ do = "clear" /\ disk' = [disk EXCEPT ![part] = "none"]
             \/ do = "copy" /\ disk' = [disk EXCEPT ![part] = p.candidate]
    BY <1>2 DEF Clear, Copy, Becomes
  <2>2. lock # "none"
    BY <2>1 DEF At
  <2>3. CASE p.op = "install"
    <3>1. "copy" \in p.needed
      BY <1>0, <2>1, <2>3, AtMeans
    <3>2. p.candidate # Root
      BY <1>p, <2>2, <2>3, <3>1 DEF PlanTyped
    <3>3. InstallGoesOn(do, part) => Installing(p)'
      BY <1>0, <2>1, <3>2, PartInstalls
    <3> QED  BY <1>k, <2>1, <2>3, <3>3, InstallsAlone
  <2>4. CASE p.op = "rollback"
    <3>1. do # "copy"
      BY <1>0, <2>1, <2>4, AtMeans
    <3>2. RollbackChanges(do, part)
      BY <2>1, <3>1 DEF RollbackChanges
    <3> QED  BY <2>1, <2>4, <3>2, RollsAlone
  <2> QED  BY <1>p, <2>2, <2>3, <2>4
<1>3. CASE \E f \in Files : InstallFile(f)
  <2>1. PICK f \in Files : InstallFile(f)
    BY <1>3
  <2>2. At("install", f) /\ Done /\ UNCHANGED backups /\ disk' = [disk EXCEPT ![f] = Offers(p)[f]]
    BY <2>1 DEF InstallFile, Becomes
  <2>3. p.op = "install"
    BY <1>0, <2>2, AtMeans
  <2>4. InstallGoesOn("install", f) => Installing(p)'
    BY <1>0, <2>1, <2>2, FileInstalls
  <2> QED  BY <1>k, <2>2, <2>3, <2>4, InstallsAlone
<1>4. CASE (\E f \in Managed : Restore(f)) \/ (\E f \in Files : Remove(f)) \/ Unpack
  <2>1. PICK do, what :
          /\ do \in {"restore", "remove", "unpack"} /\ At(do, what) /\ Done
          /\ UNCHANGED backups /\ RollbackChanges(do, what)
    <3>1. CASE \E f \in Managed : Restore(f)
      BY <3>1 DEF Restore, Becomes, RollbackChanges
    <3>2. CASE \E f \in Files : Remove(f)
      BY <3>2 DEF Remove, Becomes, RollbackChanges
    <3>3. CASE Unpack
      BY <3>3 DEF Unpack, Becomes, RollbackChanges
    <3> QED  BY <1>4, <3>1, <3>2, <3>3
  <2>2. p.op = "rollback"
    BY <1>0, <2>1, AtMeans
  <2> QED  BY <2>1, <2>2, RollsAlone
<1> QED  BY <1>1, <1>2, <1>3, <1>4 DEF OnDisk

LEMMA OffDiskAlone ==
  ASSUME Alone, AloneInv, TypeInv', OffDisk \/ RecordAfter
  PROVE  AloneInv'
<1> DEFINE p == plan[lock]
<1>0. TypeInv
  BY DEF AloneInv
<1>1. CASE Prepare \/ Start \/ RecordAfter
  <2>1. PICK do, what :
          /\ do \in {"prepare", "start", "record"} /\ At(do, what) /\ Done /\ UNCHANGED disk
          /\ backups' = backups \/ backups' = Completed
    BY <1>1 DEF Prepare, Start, RecordAfter, DaemonIs, Completed
  <2>2. p.op = "install"
    BY <1>0, <2>1, AtMeans
  <2>3. Kept'
    <3>1. CASE backups' = backups
      BY <3>1 DEF AloneInv, Kept
    <3>2. CASE backups' = Completed
      <4>1. /\ DOMAIN backups' = DOMAIN backups
            /\ \A i \in DOMAIN backups : /\ backups'[i].before = backups[i].before
                                         /\ backups'[i].candidate = backups[i].candidate
                                         /\ backups'[i].archive = backups[i].archive
        BY <1>0, <3>2, CompletedTyped DEF TypeInv, ITypeOK
      <4> QED  BY <4>1 DEF AloneInv, Kept, KeptAsIs
    <3> QED  BY <2>1, <3>1, <3>2
  <2>4. InstallGoesOn(do, what) => Installing(p)'
    BY <1>0, <2>1, OffDiskInstalls
  <2> QED  BY <2>1, <2>2, <2>3, <2>4, InstallsAlone
<1>2. CASE Stop \/ Restart
  <2>1. PICK do, what :
          do \in {"stop", "restart"} /\ At(do, what) /\ Done /\ UNCHANGED <<disk, backups>>
    BY <1>2 DEF Stop, Restart, DaemonIs
  <2>2. p.op = "rollback" /\ RollbackChanges(do, what)
    BY <1>0, <2>1, AtMeans DEF RollbackChanges
  <2> QED  BY <2>1, <2>2, RollsAlone
<1> QED  BY <1>1, <1>2 DEF OffDisk

LEMMA FailsAlone ==
  ASSUME Alone, AloneInv, TypeInv', StepFails
  PROVE  AloneInv'
<1>1. lock # "none" /\ UNCHANGED backups /\ Continue(<< >>)
  BY DEF StepFails
<1>2. Kept'
  BY <1>1 DEF AloneInv, Kept
<1> QED  BY <1>1, <1>2, EndAlone DEF Continue

-----------------------------------------------------------------------------
\* The steps of a whole run.
LEMMA InstallHas ==
  ASSUME NEW p
  PROVE  /\ <<"clear", "src">> \in InstallSet(p) <=> "copy" \in p.needed
         /\ <<"clear", "rest">> \in InstallSet(p) <=> "copy" \in p.needed
         /\ <<"copy", "src">> \in InstallSet(p) <=> "copy" \in p.needed
         /\ <<"copy", "rest">> \in InstallSet(p) <=> "copy" \in p.needed
         /\ "start" \in p.needed => <<"start", "daemon">> \in InstallSet(p)
         /\ "launcher" \in p.needed => <<"install", "launcher">> \in InstallSet(p)
         /\ "unit" \in p.needed => <<"install", "unit">> \in InstallSet(p)
         /\ "import" \in p.needed => <<"import", "config">> \in InstallSet(p)
         /\ "validate" \in p.needed => <<"validate", "config">> \in InstallSet(p)
         /\ "secure" \in p.needed => <<"secure", "root">> \in InstallSet(p)
<1>1. ASSUME NEW do \in {"clear", "copy"}, NEW part \in {"src", "rest"}
      PROVE  <<do, part>> \in InstallSet(p) <=> "copy" \in p.needed
  <2>1. <<do, part>> \in InstallSet(p) => "copy" \in p.needed
    BY InstallMeans
  <2>2. "copy" \in p.needed => <<do, part>> \in InstallSet(p)
    BY DEF InstallSet
  <2> QED  BY <2>1, <2>2
<1>2. ASSUME NEW step \in {<<"prepare", "host">>, <<"secure", "root">>, <<"import", "config">>,
                          <<"validate", "config">>, <<"start", "daemon">>}, step[1] \in p.needed
      PROVE  step \in InstallSet(p)
  BY <1>2 DEF InstallSet
<1>3. ASSUME NEW f \in {"launcher", "unit"}, f \in p.needed
      PROVE  <<"install", f>> \in InstallSet(p)
  BY <1>3 DEF InstallSet
<1> QED  BY <1>1, <1>2, <1>3

LEMMA RollbackHas ==
  ASSUME NEW p
  PROVE  /\ \A f \in Managed : <<"restore", f>> \in RollbackSet(p) <=> f \in p.restores
         /\ \A f \in Files : <<"remove", f>> \in RollbackSet(p) <=> f \in p.removals
         /\ <<"unpack", "archive">> \in RollbackSet(p) <=> Record(p).archive
         /\ <<"clear", "src">> \in RollbackSet(p) => Record(p).archive
         /\ <<"clear", "rest">> \in RollbackSet(p) => Record(p).archive
<1>1. ASSUME NEW f \in Managed
      PROVE  <<"restore", f>> \in RollbackSet(p) <=> f \in p.restores
  <2>1. <<"restore", f>> \in RollbackSet(p) => f \in p.restores
    BY RollbackMeans
  <2>2. f \in p.restores => <<"restore", f>> \in RollbackSet(p)
    BY DEF RollbackSet
  <2> QED  BY <2>1, <2>2
<1>2. ASSUME NEW f \in Files
      PROVE  <<"remove", f>> \in RollbackSet(p) <=> f \in p.removals
  <2>1. <<"remove", f>> \in RollbackSet(p) => f \in p.removals
    BY RollbackMeans
  <2>2. f \in p.removals => <<"remove", f>> \in RollbackSet(p)
    BY DEF RollbackSet
  <2> QED  BY <2>1, <2>2
<1>3. Record(p).archive => <<"unpack", "archive">> \in RollbackSet(p)
  BY DEF RollbackSet
<1>4. /\ <<"unpack", "archive">> \in RollbackSet(p) => Record(p).archive
      /\ <<"clear", "src">> \in RollbackSet(p) => Record(p).archive
      /\ <<"clear", "rest">> \in RollbackSet(p) => Record(p).archive
  BY RollbackMeans
<1> QED  BY <1>1, <1>2, <1>3, <1>4

\* What the run was promised before the lock it has under it.
LEMMA InstallAlone ==
  ASSUME Alone, AloneInv, TypeInv', NEW r \in Runs, Install(r)
  PROVE  AloneInv'
<1> DEFINE p == plan[r]
<1>1. /\ p.op = "install" /\ lock = "none" /\ lock' = r /\ AsPlanned(p) /\ p' = p
      /\ todo' = InstallSteps(p) /\ backups' = Append(backups, Backup(p)) /\ disk' = disk
  BY DEF Install
<1>2. /\ disk \in Disks /\ p \in PlanRecords /\ PlanTyped(p) /\ backups \in Seq(Backups)
      /\ r # "none" /\ Inspected(p) /\ Chosen(p) /\ TypeInv
  BY <1>1, InstallationAssumption DEF AloneInv, TypeInv, ITypeOK, Waiting
<1> HIDE DEF p
<1>3. \A do, what : Left(todo', do, what) <=> <<do, what>> \in InstallSet(p)
  BY <1>1, InstallBand DEF Left
<1>4. /\ Left(todo', "clear", "src") <=> "copy" \in p.needed
      /\ Left(todo', "clear", "rest") <=> "copy" \in p.needed
      /\ Left(todo', "copy", "src") <=> "copy" \in p.needed
      /\ Left(todo', "copy", "rest") <=> "copy" \in p.needed
      /\ "start" \in p.needed => Left(todo', "start", "daemon")
      /\ "launcher" \in p.needed => Left(todo', "install", "launcher")
      /\ "unit" \in p.needed => Left(todo', "install", "unit")
      /\ "import" \in p.needed => Left(todo', "import", "config")
      /\ "validate" \in p.needed => Left(todo', "validate", "config")
      /\ "secure" \in p.needed => Left(todo', "secure", "root")
  BY <1>3, InstallHas
<1>5. /\ disk.config = p.seen.config /\ disk.unit = p.seen.unit /\ disk.launcher = p.seen.launcher
      /\ p.seen.src # "none" =>
           disk.src = p.seen.src /\ disk.rest = p.seen.rest /\ disk.secure = p.seen.secure
  BY <1>1 DEF AsPlanned, Managed, Tree
<1>6. Source(p)' = Source(p) /\ Unit(p)' = Unit(p)
  BY <1>1 DEF Source, Unit, Offers
<1>7. p.candidate # Root => p.candidate \in Releases /\ p.candidate # "none"
  BY <1>1, <1>2, InstallationAssumption DEF PlanTyped
<1>8. /\ p.candidate = Root => disk.src # "none" /\ disk.rest \in Releases /\ "copy" \notin p.needed
      /\ p.candidate # Root => /\ disk.src = p.candidate \/ Left(todo', "copy", "src")
                               /\ disk.rest = p.candidate \/ Left(todo', "copy", "rest")
  BY <1>1, <1>2, <1>4, <1>5, <1>7 DEF PlanTyped, Inspected, Chosen
<1>9. /\ Left(todo', "copy", "src") => Left(todo', "start", "daemon")
      /\ disk.launcher = Source(p) \/ Left(todo', "install", "launcher")
      /\ disk.unit = Unit(p) \/ Left(todo', "install", "unit")
      /\ disk.config.ready \/ Left(todo', "validate", "config")
      /\ p.import \in {"none", disk.config.text} \/ Left(todo', "import", "config")
      /\ p.seen.src # "none" => disk.secure \/ Left(todo', "secure", "root")
  BY <1>2, <1>4, <1>5 DEF Chosen
<1>10. disk.config # NoConfig \/ Left(todo', "import", "config")
  <2>1. CASE p.import = "none"
    BY <1>2, <2>1 DEF Inspected
  <2>2. CASE p.import # "none" /\ "import" \notin p.needed
    <3>1. disk.config.text = p.import /\ NoConfig.text = "none"
      BY <1>2, <1>5, <2>2 DEF Chosen, NoConfig, Config
    <3> QED  BY <2>2, <3>1
  <2> QED  BY <1>4, <2>1, <2>2
<1>11. Installing(p)'
  BY <1>1, <1>4, <1>6, <1>8, <1>9, <1>10 DEF Installing
<1>12. plan'[lock'] = p /\ p' = p
  BY <1>1 DEF Install, p
<1>13. Under' /\ Waiting'
  BY <1>1, <1>2, <1>11, <1>12 DEF Under, Waiting
<1>14. Kept'
  <2> DEFINE b == Backup(p)
  <2>1. b \in Backups
    <3>1. Bare(NoConfig) \in Disks
      BY DEF Bare, NoConfig, Config, Disks, Contents
    <3> QED  BY <1>1, <1>2, <3>1 DEF Backup, Backups, Archives, PlanTyped
  <2>2. KeptAsIs(b)
    BY <1>2, InstallationAssumption DEF Backup, Archives, Inspected, Versions, KeptAsIs
  <2> HIDE DEF b
  <2>3. /\ \A i \in DOMAIN backups : backups'[i] = backups[i]
        /\ \A i \in DOMAIN backups' : i \in DOMAIN backups \/ backups'[i] = b
    BY <1>1, <1>2, <2>1, AppendedTyped DEF b
  <2> QED  BY <2>2, <2>3 DEF AloneInv, Kept
<1> QED  BY <1>13, <1>14 DEF AloneInv

LEMMA RollbackAlone ==
  ASSUME Alone, AloneInv, TypeInv', NEW r \in Runs, Rollback(r)
  PROVE  AloneInv'
<1> DEFINE p == plan[r]
           before == Record(p).before
<1>1. /\ p.op = "rollback" /\ lock = "none" /\ lock' = r /\ p' = p
      /\ todo' = RollbackSteps(p) /\ backups' = backups /\ disk' = disk
  BY DEF Rollback
<1>2. /\ disk \in Disks /\ p.record \in DOMAIN backups /\ backups \in Seq(Backups)
      /\ r # "none" /\ Undoes(p) /\ TypeInv
  BY <1>1, InstallationAssumption DEF AloneInv, TypeInv, ITypeOK, Waiting
<1>3. Record(p) \in Backups /\ Record(p)' = Record(p)
  BY <1>1, <1>2 DEF Record
<1> HIDE DEF p
<1>4. \A do, what : Left(todo', do, what) <=> <<do, what>> \in RollbackSet(p)
  <2>1. Record(p).archive \in BOOLEAN
    BY <1>3 DEF Backups
  <2> QED  BY <1>1, <2>1, RollbackBand DEF Left
<1>5. /\ \A f \in Managed : Left(todo', "restore", f) <=> f \in p.restores
      /\ \A f \in Files : Left(todo', "remove", f) <=> f \in p.removals
      /\ Left(todo', "unpack", "archive") <=> Record(p).archive
      /\ Left(todo', "clear", "src") => Record(p).archive
      /\ Left(todo', "clear", "rest") => Record(p).archive
  BY <1>4, RollbackHas
<1>6. /\ p.restores = {f \in Managed : ~Absent(before, f)}
      /\ p.removals = {f \in Managed \ {"config"} : Absent(before, f) /\ ~Absent(disk, f)}
      /\ before \in Disks /\ before' = before
  BY <1>2, <1>3 DEF Undoes, Restores, Removals, Backups
<1> HIDE DEF before
<1>7. /\ \A f \in Files : f \in p.restores <=> before[f] # "none"
      /\ \A f \in Files : f \in p.removals <=> before[f] = "none" /\ disk[f] # "none"
      /\ "config" \in p.restores <=> before.config # NoConfig
      /\ Files \subseteq Managed /\ "config" \in Managed
  BY <1>6 DEF Absent, Managed, Files
<1>8. /\ Left(todo', "restore", "unit") <=> before.unit # "none"
      /\ Left(todo', "restore", "launcher") <=> before.launcher # "none"
      /\ Left(todo', "restore", "config") <=> before.config # NoConfig
      /\ Left(todo', "remove", "unit") <=> before.unit = "none" /\ disk.unit # "none"
      /\ Left(todo', "remove", "launcher") <=> before.launcher = "none" /\ disk.launcher # "none"
  BY <1>5, <1>7 DEF Files
<1>9. Undone("unit", before)' /\ Undone("launcher", before)'
  BY <1>1, <1>6, <1>8 DEF Undone
<1>10. p'.restores = Restores(Record(p)')
  BY <1>1, <1>2, <1>3 DEF Undoes
<1>11. RollingBack(p)'
  BY <1>1, <1>3, <1>5, <1>6, <1>8, <1>9, <1>10 DEF RollingBack, before
<1>12. plan'[lock'] = p /\ p' = p
  BY <1>1 DEF Rollback, p
<1>13. Under' /\ Waiting'
  BY <1>1, <1>2, <1>11, <1>12 DEF Under, Waiting
<1>14. Kept'
  BY <1>1 DEF AloneInv, Kept
<1> QED  BY <1>13, <1>14 DEF AloneInv

\* A run without the lock finds nobody else with it.
LEMMA PlansAlone ==
  ASSUME Alone, AloneInv, TypeInv', NEW r \in Runs,
         \/ \E c \in Releases \cup {Root}, i \in Configs \cup {"none"} : Inspect(r, c, i)
         \/ PlanInstall(r) \/ NothingToChange(r) \/ Withdraw(r)
         \/ \E i \in DOMAIN backups, force \in BOOLEAN : PlanRollback(r, i, force)
  PROVE  AloneInv'
<1>1. UNCHANGED <<disk, backups, lock, todo>> /\ lock = "none"
  <2>1. lock \in Runs \cup {"none"} /\ (lock # "none" => plan[lock].op \in {"install", "rollback"})
    BY DEF AloneInv, TypeInv, ITypeOK
  <2>2. lock # "none" => lock = r
    BY <2>1 DEF Alone
  <2> QED  BY <2>1, <2>2, NoPlanTyped DEF Inspect, PlanInstall, NothingToChange, Withdraw, PlanRollback
<1>2. /\ disk \in Disks /\ daemon \in Contents /\ plan \in [Runs -> PlanRecords]
      /\ backups \in Seq(Backups) /\ TypeInv
  BY DEF AloneInv, TypeInv, ITypeOK
<1>3. Kept' /\ Under'
  BY <1>1 DEF AloneInv, Kept, Under
<1> SUFFICES /\ plan'[r].op \in {"inspected", "install"} => Inspected(plan'[r])
             /\ plan'[r].op = "install" => Chosen(plan'[r])
             /\ plan'[r].op = "rollback" => Undoes(plan'[r])
  <2>1. \A p : /\ Inspected(p)' <=> Inspected(p')
               /\ Chosen(p)' <=> Chosen(p')
               /\ Undoes(p)' <=> Undoes(p')
    BY <1>1 DEF Inspected, Versions, Chosen, Undoes, Source, Unit, Offers, Record, Removals
  <2>2. \A u \in Runs : u = r
    BY DEF Alone
  <2>3. Waiting'
    BY <1>1, <2>1, <2>2 DEF Waiting, Inspected, Versions, Chosen, Undoes, Source, Unit, Offers, Record,
       Removals, Absent
  <2> QED  BY <1>3, <2>3 DEF AloneInv
<1>4. CASE NothingToChange(r) \/ Withdraw(r)
  <2>1. plan'[r] = NoPlan
    BY <1>2, <1>4 DEF NothingToChange, Withdraw
  <2> QED  BY <2>1, NoPlanTyped
<1>5. CASE \E c \in Releases \cup {Root}, i \in Configs \cup {"none"} : Inspect(r, c, i)
  <2>1. PICK c \in Releases \cup {Root}, i \in Configs \cup {"none"} : Inspect(r, c, i)
    BY <1>5
  <2>2. /\ i = "none" => disk.config # NoConfig
        /\ c = Root => disk.src # "none" /\ disk.rest \in Releases
    BY <2>1 DEF Inspect
  <2>3. PICK version \in Versions : plan' = [plan EXCEPT ![r] =
          [NoPlan EXCEPT !.op = "inspected", !.candidate = c, !.import = i,
                         !.release = version, !.up = daemon # "none"]]
    BY <2>1 DEF Inspect
  <2> DEFINE p == [NoPlan EXCEPT !.op = "inspected", !.candidate = c, !.import = i,
                                 !.release = version, !.up = daemon # "none"]
  <2>4. plan'[r] = p
    BY <1>2, <2>3
  <2>5. p.op = "inspected" /\ p.candidate = c /\ p.import = i /\ p.release = version
    BY NoPlanTyped DEF PlanRecords
  <2> HIDE DEF p
  <2> QED  BY <2>2, <2>4, <2>5 DEF Inspected
<1>6. CASE PlanInstall(r)
  <2> DEFINE q == plan[r]
             p == [q EXCEPT !.op = "install", !.seen = disk, !.needed = Needed(q)]
  <2>1. q.op = "inspected" /\ plan'[r] = p
    BY <1>2, <1>6 DEF PlanInstall
  <2>2. q \in PlanRecords /\ Inspected(q)
    BY <1>1, <1>2, <2>1 DEF AloneInv, Waiting
  <2> HIDE DEF q
  <2>3. /\ p.op = "install" /\ p.candidate = q.candidate /\ p.import = q.import
        /\ p.release = q.release /\ p.seen = disk /\ p.needed = Needed(q)
    BY <2>2 DEF PlanRecords
  <2> HIDE DEF p
  <2>4. Inspected(p)
    BY <2>2, <2>3 DEF Inspected
  <2>5. Source(p) = Source(q)
    BY <2>3 DEF Source
  <2>6. Unit(p) = Unit(q) /\ Offers(q).unit = Unit(q) /\ Offers(q).launcher = Source(q)
    BY <2>5 DEF Offers, Unit
  <2>7. /\ "secure" \notin Needed(q) => disk.secure
        /\ "copy" \notin Needed(q) => Same(q)
        /\ "import" \notin Needed(q) => ~Imports(q)
        /\ "validate" \notin Needed(q) => disk.config.ready
        /\ "launcher" \notin Needed(q) => disk.launcher = Offers(q).launcher
        /\ "unit" \notin Needed(q) => disk.unit = Offers(q).unit
        /\ "start" \notin Needed(q) => ~Restarts(q)
        /\ "copy" \in Needed(q) => ~Same(q)
        /\ "unit" \in Needed(q) => disk.unit # Offers(q).unit
    BY DEF Needed
  <2>8. Chosen(p)
    BY <2>3, <2>5, <2>6, <2>7 DEF Chosen, Same, Imports, Restarts
  <2> QED  BY <2>1, <2>3, <2>4, <2>8
<1>7. CASE \E i \in DOMAIN backups, force \in BOOLEAN : PlanRollback(r, i, force)
  <2>1. PICK i \in DOMAIN backups, force \in BOOLEAN : PlanRollback(r, i, force)
    BY <1>7
  <2> DEFINE p == [NoPlan EXCEPT !.op = "rollback", !.record = i, !.force = force,
                                 !.restores = Restores(backups[i]),
                                 !.removals = Removals(backups[i])]
  <2>2. plan'[r] = p
    BY <1>2, <2>1 DEF PlanRollback
  <2>3. /\ p.op = "rollback" /\ p.record = i /\ p.restores = Restores(backups[i])
        /\ p.removals = Removals(backups[i])
    BY NoPlanTyped DEF PlanRecords
  <2> HIDE DEF p
  <2> QED  BY <2>2, <2>3 DEF Undoes, Record
<1> QED  BY <1>4, <1>5, <1>6, <1>7

LEMMA AroundAlone ==
  ASSUME Alone, AloneInv, TypeInv', Around
  PROVE  AloneInv'
<1>1. UNCHANGED <<backups, lock, plan, todo>>
  BY DEF Around, PlanAttach, Attach, Detach, Edit, DaemonEnds, DaemonStarts
<1>2. CASE disk' = disk
  BY <1>1, <1>2 DEF AloneInv, Waiting, Under, Kept, Inspected, Versions, Chosen, Undoes, Installing,
     RollingBack, Undone, Source, Unit, Offers, Record, Removals, Absent, Left
<1>3. CASE Edit
  <2>1. lock = "none" /\ disk \in Disks
    BY <1>3 DEF Edit, AloneInv, TypeInv, ITypeOK
  <2>2. /\ disk'.src = disk.src /\ disk'.rest = disk.rest /\ disk'.unit = disk.unit
        /\ disk'.launcher = disk.launcher /\ (disk.config # NoConfig => disk'.config # NoConfig)
    <3>1. CASE disk' = [disk EXCEPT !.secure = FALSE]
      BY <2>1, <3>1 DEF Disks
    <3>2. CASE \E c \in Configs, ready \in BOOLEAN : disk' = [disk EXCEPT !.config = Config(c, ready)]
      <4>1. PICK c \in Configs, ready \in BOOLEAN : disk' = [disk EXCEPT !.config = Config(c, ready)]
        BY <3>2
      <4>2. Config(c, ready).text # NoConfig.text
        BY InstallationAssumption DEF Config, NoConfig
      <4>3. disk'.config = Config(c, ready)
        BY <2>1, <4>1 DEF Disks
      <4> QED  BY <2>1, <4>1, <4>2, <4>3 DEF Disks
    <3> QED  BY <1>3, <3>1, <3>2 DEF Edit
  <2>3. Waiting
    BY DEF AloneInv
  <2>4. ASSUME NEW r \in Runs
        PROVE  /\ Inspected(plan[r]) => Inspected(plan[r])'
               /\ Chosen(plan[r]) => Chosen(plan[r])'
               /\ Undoes(plan[r]) => Undoes(plan[r])'
    <3> DEFINE p == plan[r]
    <3>1. p' = p
      BY <1>1
    <3> HIDE DEF p
    <3>2. Inspected(p) => Inspected(p)'
      BY <2>2, <3>1 DEF Inspected, Versions
    <3>3. Source(p)' = Source(p)
      BY <2>2, <3>1 DEF Source
    <3>4. Unit(p)' = Unit(p)
      BY <3>3 DEF Unit, Offers
    <3>5. Chosen(p) => Chosen(p)'
      BY <3>1, <3>3, <3>4 DEF Chosen
    <3>6. Removals(Record(p))' = Removals(Record(p)) /\ Restores(Record(p))' = Restores(Record(p))
      <4>1. Record(p)' = Record(p)
        BY <1>1, <3>1 DEF Record
      <4>2. \A f \in {"unit", "launcher"} : Absent(disk, f)' <=> Absent(disk, f)
        BY <2>2 DEF Absent
      <4>3. Managed \ {"config"} = {"unit", "launcher"}
        BY DEF Managed
      <4> QED  BY <4>1, <4>2, <4>3 DEF Removals, Restores
    <3>7. Undoes(p) => Undoes(p)'
      BY <3>1, <3>6 DEF Undoes
    <3> QED  BY <3>2, <3>5, <3>7 DEF p
  <2>5. Waiting'
    BY <1>1, <2>1, <2>3, <2>4 DEF Waiting
  <2> QED  BY <1>1, <2>1, <2>5 DEF AloneInv, Under, Kept
<1> QED  BY <1>2, <1>3 DEF Around, PlanAttach, Attach, Detach, DaemonEnds, DaemonStarts

LEMMA NextAlone ==
  ASSUME Alone, AloneInv, [Next]_vars
  PROVE  AloneInv'
<1>0. TypeInv'
  BY NextTyped DEF AloneInv
<1>1. CASE UNCHANGED vars
  BY <1>0, <1>1 DEF vars, AloneInv, Waiting, Under, Kept, Inspected, Versions, Chosen, Undoes, Installing,
     RollingBack, Undone, Source, Unit, Offers, Record, Removals, Absent, Left
<1>2. ASSUME NEW r \in Runs, Install(r) \/ Rollback(r)
      PROVE  AloneInv'
  BY <1>0, <1>2, InstallAlone, RollbackAlone
<1>3. CASE OffDisk \/ RecordAfter \/ StepFails
  BY <1>0, <1>3, OffDiskAlone, FailsAlone
<1>4. CASE OnDisk
  BY <1>0, <1>4, OnDiskAlone
<1>5. CASE Around
  BY <1>0, <1>5, AroundAlone
<1>6. CASE Next
  BY <1>0, <1>2, <1>3, <1>4, <1>5, <1>6, PlansAlone DEF Next, OffDisk, OnDisk, Around, Files
<1> QED  BY <1>1, <1>6

\* The step that is next is the first of those that are left, and the last one left if it
\* is the run's last.
LEMMA FirstLeft ==
  ASSUME TypeInv, NEW do, NEW what, At(do, what)
  PROVE  /\ Left(todo, do, what)
         /\ \A d, w : Left(todo, d, w) => (d = do /\ w = what) \/ Rank(<<do, what>>) < Rank(<<d, w>>)
         /\ Tail(todo) = << >> => <<do, what>> = Last(plan[lock])
         /\ do \in {"record", "restart"} => \A d, w : Left(todo, d, w) => d = do /\ w = what
<1> DEFINE p == plan[lock]
<1>1. lock # "none" /\ Head(todo) = <<do, what>> /\ todo # << >> /\ Head(todo) \in Steps(todo)
  BY AtWanted DEF At
<1>2. /\ Band(todo, 1, Limit(p)) /\ Limit(p) \in Nat /\ Last(p) \in Steps(todo)
  BY <1>1 DEF TypeInv, TodoTyped, Limit
<1>3. /\ Band(Tail(todo), 1, Limit(p))
      /\ Steps(Tail(todo)) = Steps(todo) \ {<<do, what>>}
      /\ \A x \in Steps(Tail(todo)) : Rank(<<do, what>>) < Rank(x)
  BY <1>1, <1>2, BandTail
<1>4. Tail(todo) = << >> => <<do, what>> = Last(p)
  <2>1. Tail(todo) = << >> => Steps(Tail(todo)) = {}
    BY BandNone
  <2> QED  BY <1>2, <1>3, <2>1
<1>5. ASSUME NEW d, NEW w, Left(todo, d, w), d # do \/ w # what
      PROVE  Rank(<<do, what>>) < Rank(<<d, w>>) /\ Rank(<<d, w>>) \in 1..(Limit(p) - 1)
  <2>1. <<d, w>> # <<do, what>> /\ <<d, w>> \in Steps(todo)
    BY <1>5 DEF Left
  <2>2. <<d, w>> \in Steps(Tail(todo))
    BY <1>3, <2>1
  <2>3. Rank(<<d, w>>) \in 1..(Limit(p) - 1)
    BY <1>3, <2>2 DEF Band, Steps
  <2> QED  BY <1>3, <2>2, <2>3
<1>6. do \in {"record", "restart"} => Rank(<<do, what>>) >= Limit(p) - 1
  <2>1. /\ do = "record" => p.op = "install" /\ Rank(<<do, what>>) = 20
        /\ do = "restart" => p.op = "rollback" /\ Rank(<<do, what>>) = 19
    BY AtMeans DEF Rank
  <2> QED  BY <2>1 DEF Limit
<1>7. do \in {"record", "restart"} => \A d, w : Left(todo, d, w) => d = do /\ w = what
  <2> SUFFICES ASSUME do \in {"record", "restart"}, NEW d, NEW w, Left(todo, d, w),
                      d # do \/ w # what
               PROVE  FALSE
    OBVIOUS
  <2>1. Rank(<<do, what>>) < Rank(<<d, w>>) /\ Rank(<<d, w>>) \in 1..(Limit(p) - 1)
    BY <1>5
  <2>2. Rank(<<do, what>>) >= Limit(p) - 1
    BY <1>6
  <2>3. Rank(<<do, what>>) \in 19..20
    BY AtMeans DEF Rank
  <2> QED  BY <1>2, <2>1, <2>2, <2>3
<1>8. Left(todo, do, what)
  BY <1>1 DEF Left
<1> QED  BY <1>4, <1>5, <1>7, <1>8

\* Before the deployment is recorded everything of the install is done but that.
LEMMA BeforeRecord ==
  ASSUME AloneInv, At("record", "deployment")
  PROVE  LET p == plan[lock]
         IN  /\ p.op = "install" /\ Same(p)
             /\ disk.launcher = Source(p) /\ disk.unit = Unit(p) /\ Source(p) \in Releases
             /\ disk.src # "none" /\ disk.config # NoConfig /\ disk.config.ready
             /\ p.import \in {"none", disk.config.text}
             /\ p.seen.src # "none" => disk.secure
             /\ ~Left(todo, "start", "daemon")
<1> DEFINE p == plan[lock]
<1>1. lock # "none" /\ p.op = "install" /\ TypeInv
  BY AtMeans DEF At, AloneInv
<1>2. Installing(p) /\ PlanTyped(p) /\ disk \in Disks
  BY <1>1, AtWanted DEF AloneInv, Under, TypeInv, ITypeOK
<1>3. \A d, w : Left(todo, d, w) => d = "record" /\ w = "deployment"
  BY <1>1, FirstLeft
<1>4. /\ ~Left(todo, "copy", "src") /\ ~Left(todo, "copy", "rest") /\ ~Left(todo, "start", "daemon")
      /\ ~Left(todo, "install", "launcher") /\ ~Left(todo, "install", "unit")
      /\ ~Left(todo, "import", "config") /\ ~Left(todo, "validate", "config")
      /\ ~Left(todo, "secure", "root")
  BY <1>3
<1> HIDE DEF p
<1>5. p.candidate = Root \/ p.candidate \in Releases
  BY <1>1, <1>2 DEF PlanTyped
<1>6. p.candidate # Root => disk.src = p.candidate /\ disk.rest = p.candidate
  BY <1>2, <1>4 DEF Installing
<1>7. p.candidate = Root => disk.src # "none" /\ disk.rest \in Releases
  BY <1>2 DEF Installing
<1>8. Source(p) \in Releases /\ disk.src # "none"
  BY <1>5, <1>6, <1>7, InstallationAssumption DEF Source
<1>9. Same(p)
  BY <1>6 DEF Same
<1> QED  BY <1>1, <1>2, <1>4, <1>8, <1>9 DEF Installing, p

\* Before the daemon is restarted everything is as it was before the install.
LEMMA BeforeRestart ==
  ASSUME AloneInv, At("restart", "daemon")
  PROVE  LET record == Record(plan[lock])
             before == record.before
         IN  /\ plan[lock].op = "rollback" /\ plan[lock].record \in DOMAIN backups
             /\ disk.unit = before.unit /\ disk.launcher = before.launcher
             /\ before.config \in {NoConfig, disk.config}
             /\ before.src \in Releases /\ record.candidate # Root => Tree(disk) = Tree(before)
             /\ ~Left(todo, "unpack", "archive")
<1> DEFINE p == plan[lock]
           before == Record(p).before
<1>1. lock # "none" /\ p.op = "rollback" /\ TypeInv
  BY AtMeans DEF At, AloneInv
<1>2. RollingBack(p) /\ p.record \in DOMAIN backups
  BY <1>1, AtWanted DEF AloneInv, Under, TypeInv, ITypeOK
<1>3. \A d, w : Left(todo, d, w) => d = "restart" /\ w = "daemon"
  BY <1>1, FirstLeft
<1>4. /\ ~Left(todo, "restore", "unit") /\ ~Left(todo, "restore", "launcher")
      /\ ~Left(todo, "restore", "config") /\ ~Left(todo, "remove", "unit")
      /\ ~Left(todo, "remove", "launcher") /\ ~Left(todo, "unpack", "archive")
  BY <1>3
<1>5. before.src \in Releases /\ Record(p).candidate # Root => Record(p).archive
  BY <1>2 DEF AloneInv, Kept, KeptAsIs, Record
<1> HIDE DEF p
<1> QED  BY <1>1, <1>2, <1>4, <1>5 DEF RollingBack, Undone, p

LEMMA RestoresStep ==
  ASSUME AloneInv
  PROVE  At("restart", "daemon") =>
       LET record == Record(plan[lock])
           before == record.before
       IN  /\ disk.unit = before.unit /\ disk.launcher = before.launcher
           /\ before.config \in {NoConfig, disk.config}
           /\ before.src \in Releases /\ record.candidate # Root => Tree(disk) = Tree(before)
BY BeforeRestart

(* While one run is under way at a time, with any number of failures, kills  *)
(* and edits: a rollback that comes to its end has undone its install,     *)
(* wherever that, or an earlier rollback of it, stopped.                   *)
THEOREM RollbackBringsBack == ASSUME Alone PROVE Spec => RollbackRestores
<1>1. Init => AloneInv
  BY InitAlone
<1>2. AloneInv /\ [Next]_vars => AloneInv'
  BY NextAlone
<1>3. AloneInv /\ [Next]_vars =>
       [At("restart", "daemon") /\ UNCHANGED failures =>
         LET record == Record(plan[lock])
             before == record.before
         IN  /\ disk.unit = before.unit /\ disk.launcher = before.launcher
             /\ before.config \in {NoConfig, disk.config}
             /\ before.src \in Releases /\ record.candidate # Root => Tree(disk) = Tree(before)]_todo
  BY RestoresStep
<1> QED  BY <1>1, <1>2, <1>3, PTL DEF Spec, RollbackRestores

-----------------------------------------------------------------------------
(* While nothing has failed, the daemon runs the installed release or is   *)
(* down, and no step has to fail.                                          *)

\* What is installed is installed as a whole.
Whole(d) ==
  /\ d.unit = "none" <=> d.launcher = "none"
  /\ d.unit # "none" => d.src # "none" /\ d.config # NoConfig

Settled ==
  /\ Whole(disk)
  /\ backups # << >> => disk.src # "none"
  /\ disk.unit # "none" => daemon \in {disk.src, "none"}

Tidy ==
  failures = 0 =>
    /\ \A i \in DOMAIN backups : Whole(backups[i].before)
    /\ lock = "none" => Settled
    /\ lock # "none" =>
         IF plan[lock].op = "install"
         THEN Left(todo, "start", "daemon") \/ daemon \in {disk.src, "none"}
         ELSE disk.src # "none" \/ Left(todo, "unpack", "archive")

TidyInv == AloneInv /\ failures \in Nat /\ Tidy

LEMMA InitTidy == Init => TidyInv
<1> SUFFICES ASSUME Init PROVE TidyInv
  OBVIOUS
<1>1. /\ backups = << >> /\ lock = "none" /\ daemon = "none" /\ failures = 0
      /\ disk.unit = "none" /\ disk.launcher = "none"
  BY DEF Init, Bare
<1>2. DOMAIN backups = {}
  BY <1>1
<1> QED  BY <1>1, <1>2, InitAlone DEF TidyInv, Tidy, Settled, Whole

\* The daemon can be started where the code starts it, and every file that is to be
\* removed is there.
LEMMA NothingMustFail ==
  ASSUME TidyInv, failures = 0, lock # "none"
  PROVE  ~MustFail
<1> DEFINE p == plan[lock]
<1>0. /\ AloneInv /\ TypeInv /\ PlanTyped(p) /\ p.op \in {"install", "rollback"} /\ disk \in Disks
      /\ (p.op = "install" => Installing(p)) /\ (p.op = "rollback" => RollingBack(p))
      /\ todo # << >> /\ Head(todo) \in Wanted(p)
  BY AtWanted DEF TidyInv, AloneInv, Under, TypeInv, ITypeOK
<1>1. ~(Head(todo)[1] = "install" /\ Source(p) \notin Releases)
  <2> SUFFICES ASSUME Head(todo)[1] = "install" PROVE Source(p) \in Releases
    OBVIOUS
  <2>1. CASE p.op = "install"
    <3>1. p.candidate = Root => disk.rest \in Releases
      BY <1>0, <2>1 DEF Installing, Disks, Contents
    <3>2. p.candidate # Root => p.candidate \in Releases
      BY <1>0, <2>1 DEF PlanTyped
    <3> QED  BY <3>1, <3>2 DEF Source
  <2>2. CASE p.op = "rollback"
    <3> HIDE DEF p
    <3>1. Head(todo) \in RollbackSet(p)
      BY <1>0, <2>2 DEF Wanted
    <3> QED  BY <3>1 DEF RollbackSet
  <2> QED  BY <1>0, <2>1, <2>2
<1>2. At("start", "daemon") => Startable
  <2> SUFFICES ASSUME At("start", "daemon") PROVE Startable
    OBVIOUS
  <2>1. p.op = "install"
    BY <1>0, AtMeans
  <2>2. \A d, w : Left(todo, d, w) => (d = "start" /\ w = "daemon") \/ 18 < Rank(<<d, w>>)
    BY <1>0, FirstLeft, Ranks
  <2>3. /\ ~Left(todo, "copy", "src") /\ ~Left(todo, "install", "launcher")
        /\ ~Left(todo, "install", "unit") /\ ~Left(todo, "import", "config")
    BY <2>2, Ranks
  <2>4. Installing(p)
    BY <1>0, <2>1
  <2> HIDE DEF p
  <2>5. /\ disk.launcher = Source(p) /\ disk.unit = Unit(p) /\ disk.config # NoConfig
        /\ disk.src # "none" /\ Source(p) \in Releases
    <3>1. p.candidate = Root => disk.rest \in Releases
      BY <1>0, <2>4 DEF Installing, Disks, Contents
    <3>2. p.candidate # Root => p.candidate \in Releases
      BY <1>0, <2>1 DEF PlanTyped
    <3>3. Source(p) \in Releases
      BY <3>1, <3>2 DEF Source
    <3>4. disk.src # "none"
      BY <2>3, <2>4, <3>2, InstallationAssumption DEF Installing
    <3> QED  BY <2>3, <2>4, <3>3, <3>4 DEF Installing
  <2>6. disk.launcher # "none" /\ disk.unit # "none"
    BY <2>5, InstallationAssumption DEF Unit, Offers
  <2> QED  BY <2>5, <2>6 DEF Startable, Absent, Managed
<1>3. At("restart", "daemon") /\ disk.unit # "none" => Startable
  <2> SUFFICES ASSUME At("restart", "daemon"), disk.unit # "none" PROVE Startable
    OBVIOUS
  <2>1. /\ p.op = "rollback" /\ p.record \in DOMAIN backups
        /\ disk.unit = Record(p).before.unit /\ disk.launcher = Record(p).before.launcher
        /\ Record(p).before.config \in {NoConfig, disk.config}
        /\ ~Left(todo, "unpack", "archive")
    BY <1>0, BeforeRestart
  <2>2. Whole(Record(p).before) /\ disk.src # "none"
    BY <2>1 DEF TidyInv, Tidy, Record
  <2> QED  BY <2>1, <2>2 DEF Whole, Startable, Absent, Managed
<1>4. ~\E f \in Managed : At("remove", f) /\ Absent(disk, f)
  <2> SUFFICES ASSUME NEW f \in Managed, At("remove", f) PROVE ~Absent(disk, f)
    OBVIOUS
  <2>1. p.op = "rollback" /\ Left(todo, "remove", f)
    BY <1>0, AtMeans, FirstLeft
  <2>2. f \in Files
    <3>1. Head(todo) = <<"remove", f>>
      BY DEF At
    <3>2. <<"remove", f>> \in RollbackSet(p)
      BY <1>0, <2>1, <3>1 DEF Wanted
    <3> QED  BY <3>2, RollbackMeans
  <2>3. RollingBack(p)
    BY <1>0, <2>1
  <2>4. disk[f] # "none"
    BY <2>1, <2>2, <2>3 DEF RollingBack, Files
  <2> QED  BY <2>2, <2>4 DEF Absent, Files
<1> QED  BY <1>1, <1>2, <1>3, <1>4 DEF MustFail

\* What a step under the lock does to the release and the daemon.
Moves(do, what) ==
  /\ At(do, what) /\ Done /\ UNCHANGED failures
  /\ backups' = backups \/ (backups' = Completed /\ do = "record")
  /\ \/ do # "unpack" /\ disk'.src = disk.src
     \/ do \in {"clear", "copy"} /\ what = "src"
     \/ do = "unpack" /\ disk'.src = Record(plan[lock]).before.src
  /\ \/ daemon' = daemon
     \/ do = "start" /\ daemon' = disk'.src
     \/ do = "stop" /\ daemon' = "none"
     \/ do = "restart" /\ daemon' = disk'.src
  /\ do \in {"record", "restart"} => disk' = disk
  /\ do = "start" => daemon' = disk'.src
  /\ do = "restart" => disk.unit = "none" \/ daemon' = disk.src
  /\ do = "record" => daemon' = daemon

LEMMA StepMoves ==
  ASSUME AloneInv, OnDisk \/ Prepare \/ Start \/ Stop \/ Restart \/ RecordAfter
  PROVE  \E do, what : Moves(do, what)
<1>0. disk \in Disks
  BY DEF AloneInv, TypeInv, ITypeOK
<1>1. CASE Prepare
  BY <1>1 DEF Prepare, Moves
<1>2. CASE Start
  BY <1>2 DEF Start, DaemonIs, Moves
<1>3. CASE Stop
  BY <1>3 DEF Stop, DaemonIs, Moves
<1>4. CASE Restart
  BY <1>4 DEF Restart, DaemonIs, Moves
<1>5. CASE RecordAfter
  BY <1>5 DEF RecordAfter, Completed, Moves
<1>6. CASE OnDisk
  <2>1. CASE Secure
    <3>1. At("secure", "root") /\ Done /\ UNCHANGED <<failures, backups, daemon>> /\ disk'.src = disk.src
      BY <1>0, <2>1 DEF Secure, Becomes, Disks
    <3> QED  BY <3>1 DEF Moves
  <2>2. CASE Import
    <3>1. At("import", "config") /\ Done /\ UNCHANGED <<failures, backups, daemon>> /\ disk'.src = disk.src
      BY <1>0, <2>2 DEF Import, Becomes, Disks
    <3> QED  BY <3>1 DEF Moves
  <2>3. CASE Validate
    <3>1. At("validate", "config") /\ Done /\ UNCHANGED <<failures, backups, daemon>> /\ disk'.src = disk.src
      BY <1>0, <2>3 DEF Validate, Becomes, Disks
    <3> QED  BY <3>1 DEF Moves
  <2>4. CASE Unpack
    <3>1. /\ At("unpack", "archive") /\ Done /\ UNCHANGED <<failures, backups, daemon>>
          /\ disk'.src = Record(plan[lock]).before.src
      BY <1>0, <2>4 DEF Unpack, Becomes, Disks
    <3> QED  BY <3>1 DEF Moves
  <2>5. ASSUME NEW part \in {"src", "rest"}, Clear(part) \/ Copy(part)
        PROVE  \E do, what : Moves(do, what)
    <3>1. PICK do \in {"clear", "copy"} :
            /\ At(do, part) /\ Done /\ UNCHANGED <<failures, backups, daemon>>
            /\ disk'.src = disk.src \/ part = "src"
      BY <1>0, <2>5 DEF Clear, Copy, Becomes, Disks
    <3> QED  BY <3>1 DEF Moves
  <2>6. ASSUME NEW f \in Managed, Restore(f)
        PROVE  \E do, what : Moves(do, what)
    <3>1. At("restore", f) /\ Done /\ UNCHANGED <<failures, backups, daemon>> /\ disk'.src = disk.src
      BY <1>0, <2>6 DEF Restore, Becomes, Disks, Managed
    <3> QED  BY <3>1 DEF Moves
  <2>7. ASSUME NEW f \in Files, InstallFile(f) \/ Remove(f)
        PROVE  \E do, what : Moves(do, what)
    <3>1. PICK do \in {"install", "remove"} :
            At(do, f) /\ Done /\ UNCHANGED <<failures, backups, daemon>> /\ disk'.src = disk.src
      BY <1>0, <2>7 DEF InstallFile, Remove, Becomes, Disks, Files
    <3> QED  BY <3>1 DEF Moves
  <2> QED  BY <1>6, <2>1, <2>2, <2>3, <2>4, <2>5, <2>6, <2>7 DEF OnDisk
<1> QED  BY <1>1, <1>2, <1>3, <1>4, <1>5, <1>6

LEMMA InstallMoves ==
  ASSUME TidyInv, AloneInv', failures = 0, NEW do, NEW what, Moves(do, what),
         plan[lock].op = "install"
  PROVE  Tidy'
<1> DEFINE p == plan[lock]
<1>1. /\ lock # "none" /\ At(do, what) /\ AloneInv /\ TypeInv /\ Installing(p)
      /\ Left(todo, "start", "daemon") \/ daemon \in {disk.src, "none"}
      /\ \A i \in DOMAIN backups : Whole(backups[i].before)
      /\ disk \in Disks /\ backups \in Seq(Backups)
  BY DEF TidyInv, Tidy, AloneInv, Under, Moves, At, TypeInv, ITypeOK
<1>2. \A i \in DOMAIN backups' : Whole(backups'[i].before)
  <2>1. backups' = backups \/ backups' = Completed
    BY DEF Moves
  <2> QED  BY <1>1, <2>1, CompletedTyped
<1>3. do \notin {"stop", "restart", "unpack"}
  BY <1>1, AtMeans
<1>4. CASE Tail(todo) # << >>
  <2>1. lock' = lock /\ todo' = Tail(todo) /\ plan' = plan
    BY <1>4 DEF Moves, Done, Continue
  <2>2. InstallGoesOn(do, what)
    BY <1>1, <2>1 DEF InstallGoesOn
  <2>3. \A d, w : Left(todo, d, w) /\ (d # do \/ w # what) => Left(todo', d, w)
    BY <1>1, <2>2, InstallLeft
  <2>4. do # "start" => (Left(todo, "start", "daemon") => Left(todo', "start", "daemon"))
    BY <2>3
  <2>5. Left(todo, do, what)
    BY <1>1, FirstLeft
  <2>6. do \in {"clear", "copy"} /\ what = "src" => Left(todo, "start", "daemon")
    BY <1>1, <2>5 DEF Installing
  <2>7. Left(todo', "start", "daemon") \/ daemon' \in {disk'.src, "none"}
    BY <1>1, <1>3, <2>4, <2>6 DEF Moves
  <2> QED  BY <1>1, <1>2, <2>1, <2>7 DEF Tidy
<1>5. CASE Tail(todo) = << >>
  <2>1. lock' = "none" /\ disk' = disk /\ daemon' = daemon /\ At("record", "deployment")
    <3>1. <<do, what>> = <<"record", "deployment">>
      BY <1>1, <1>5, FirstLeft DEF Last
    <3>2. do = "record" /\ what = "deployment"
      BY <3>1
    <3> QED  BY <1>1, <1>5, <3>2 DEF Moves, Done, Continue
  <2>2. /\ disk.launcher = Source(p) /\ disk.unit = Unit(p) /\ Source(p) \in Releases
        /\ disk.src # "none" /\ disk.config # NoConfig /\ ~Left(todo, "start", "daemon")
    BY <1>1, <2>1, BeforeRecord
  <2>3. disk.launcher # "none" /\ disk.unit # "none"
    BY <2>2, InstallationAssumption DEF Unit, Offers
  <2>4. daemon \in {disk.src, "none"}
    BY <1>1, <2>2
  <2>5. Settled'
    BY <2>1, <2>2, <2>3, <2>4 DEF Settled, Whole
  <2> QED  BY <1>2, <2>1, <2>5 DEF Tidy
<1> QED  BY <1>4, <1>5

LEMMA RollbackMoves ==
  ASSUME TidyInv, AloneInv', failures = 0, NEW do, NEW what, Moves(do, what),
         plan[lock].op = "rollback"
  PROVE  Tidy'
<1> DEFINE p == plan[lock]
           before == Record(p).before
<1>1. /\ lock # "none" /\ At(do, what) /\ AloneInv /\ TypeInv /\ RollingBack(p)
      /\ disk.src # "none" \/ Left(todo, "unpack", "archive")
      /\ \A i \in DOMAIN backups : Whole(backups[i].before)
      /\ disk \in Disks
  BY DEF TidyInv, Tidy, AloneInv, Under, Moves, At, TypeInv, ITypeOK
<1>2. /\ do \notin {"record", "copy", "start"} /\ backups' = backups
      /\ do = "unpack" => Record(p).archive
  BY <1>1, AtMeans DEF Moves
<1>3. \A i \in DOMAIN backups' : Whole(backups'[i].before)
  BY <1>1, <1>2
<1>4. Record(p).archive => before.src # "none"
  <2>1. p.record \in DOMAIN backups
    BY <1>1, AtWanted DEF TypeInv, ITypeOK
  <2> QED  BY <1>1, <2>1 DEF AloneInv, Kept, KeptAsIs, Record
<1>5. CASE Tail(todo) # << >>
  <2>1. lock' = lock /\ todo' = Tail(todo) /\ plan' = plan
    BY <1>5 DEF Moves, Done, Continue
  <2>2. RollbackGoesOn(do, what)
    BY <1>1, <1>2, <2>1 DEF RollbackGoesOn
  <2>3. \A d, w : Left(todo, d, w) /\ (d # do \/ w # what) => Left(todo', d, w)
    BY <1>1, <2>2, RollbackLeft
  <2>4. do # "unpack" => (Left(todo, "unpack", "archive") => Left(todo', "unpack", "archive"))
    BY <2>3
  <2>5. Left(todo, do, what)
    BY <1>1, FirstLeft
  <2>6. do = "clear" /\ what = "src" => Left(todo, "unpack", "archive")
    BY <1>1, <2>5 DEF RollingBack
  <2>7. CASE do = "unpack"
    <3>1. disk'.src # "none"
      BY <1>2, <1>4, <2>7 DEF Moves
    <3> QED  BY <1>1, <1>3, <2>1, <3>1 DEF Tidy
  <2>8. CASE do # "unpack"
    <3>1. disk'.src = disk.src \/ (do = "clear" /\ what = "src")
      BY <1>2, <2>8 DEF Moves
    <3>2. disk'.src # "none" \/ Left(todo', "unpack", "archive")
      BY <1>1, <2>4, <2>6, <2>8, <3>1
    <3> QED  BY <1>1, <1>3, <2>1, <3>2 DEF Tidy
  <2> QED  BY <2>7, <2>8
<1>6. CASE Tail(todo) = << >>
  <2>1. do = "restart" /\ what = "daemon" /\ At("restart", "daemon")
    <3>1. <<do, what>> = <<"restart", "daemon">>
      BY <1>1, <1>6, FirstLeft DEF Last
    <3> QED  BY <1>1, <3>1
  <2>2. lock' = "none" /\ disk' = disk /\ (disk.unit = "none" \/ daemon' = disk.src)
    BY <1>6, <2>1 DEF Moves, Done, Continue
  <2>3. /\ p.record \in DOMAIN backups /\ ~Left(todo, "unpack", "archive")
        /\ disk.unit = before.unit /\ disk.launcher = before.launcher
        /\ before.config \in {NoConfig, disk.config}
    BY <1>1, <2>1, BeforeRestart
  <2>4. Whole(before) /\ disk.src # "none"
    BY <1>1, <2>3 DEF Record
  <2>5. Settled'
    BY <2>2, <2>3, <2>4 DEF Settled, Whole
  <2> QED  BY <1>3, <2>2, <2>5 DEF Tidy
<1> QED  BY <1>5, <1>6

LEMMA TakesTidy ==
  ASSUME TidyInv, AloneInv', failures = 0, NEW r \in Runs, Install(r) \/ Rollback(r)
  PROVE  Tidy'
<1> DEFINE p == plan[r]
<1>1. /\ lock = "none" /\ lock' = r /\ UNCHANGED <<disk, daemon, plan>> /\ r # "none"
      /\ disk \in Disks /\ backups \in Seq(Backups) /\ Settled /\ TypeInv
      /\ \A i \in DOMAIN backups : Whole(backups[i].before)
  BY InstallationAssumption DEF Install, Rollback, TidyInv, AloneInv, TypeInv, ITypeOK, Tidy
<1>2. CASE Rollback(r)
  <2>1. p.op = "rollback" /\ backups' = backups /\ p.record \in DOMAIN backups
    BY <1>1, <1>2 DEF Rollback, TypeInv, ITypeOK
  <2>2. disk.src # "none"
    BY <1>1, <2>1 DEF Settled
  <2> QED  BY <1>1, <2>1, <2>2 DEF Tidy
<1>3. CASE Install(r)
  <2> DEFINE b == Backup(p)
  <2>1. /\ p.op = "install" /\ todo' = InstallSteps(p) /\ backups' = Append(backups, b)
        /\ AsPlanned(p) /\ Inspected(p) /\ Chosen(p) /\ PlanTyped(p) /\ p \in PlanRecords
    BY <1>1, <1>3 DEF Install, TidyInv, AloneInv, Waiting, TypeInv
  <2>2. b \in Backups /\ b.before = disk
    <3>1. Bare(NoConfig) \in Disks
      BY DEF Bare, NoConfig, Config, Disks, Contents
    <3> QED  BY <1>1, <2>1, <3>1 DEF Backup, Backups, Archives, PlanTyped
  <2> HIDE DEF b, p
  <2>3. \A i \in DOMAIN backups' : Whole(backups'[i].before)
    <3>1. Whole(b.before)
      BY <1>1, <2>2 DEF Settled
    <3> QED  BY <1>1, <2>1, <2>2, <3>1, AppendedTyped
  <2>4. "start" \in p.needed => Left(todo', "start", "daemon")
    BY <2>1, InstallBand, InstallHas DEF Left
  <2>5. "start" \notin p.needed => daemon \in {disk.src, "none"}
    <3>1. "start" \notin p.needed => disk.unit = Unit(p)
      BY <2>1 DEF Chosen, AsPlanned, Managed
    <3>2. Source(p) \in Releases
      BY <1>1, <2>1 DEF Source, Inspected, PlanTyped, Disks, Contents
    <3>3. Unit(p) # "none"
      BY <3>2, InstallationAssumption DEF Unit, Offers
    <3> QED  BY <1>1, <3>1, <3>3 DEF Settled
  <2>6. plan'[lock'].op = "install"
    BY <1>1, <2>1 DEF p
  <2> QED  BY <1>1, <2>3, <2>4, <2>5, <2>6 DEF Tidy
<1> QED  BY <1>2, <1>3

LEMMA PlansTidy ==
  ASSUME Alone, TidyInv, AloneInv', failures = 0, NEW r \in Runs,
         \/ \E c \in Releases \cup {Root}, i \in Configs \cup {"none"} : Inspect(r, c, i)
         \/ PlanInstall(r) \/ NothingToChange(r) \/ Withdraw(r)
         \/ \E i \in DOMAIN backups, force \in BOOLEAN : PlanRollback(r, i, force)
  PROVE  Tidy'
<1>1. UNCHANGED <<disk, daemon, backups, lock, todo>> /\ lock = "none"
  <2>1. lock \in Runs \cup {"none"} /\ (lock # "none" => plan[lock].op \in {"install", "rollback"})
    BY DEF TidyInv, AloneInv, TypeInv, ITypeOK
  <2>2. lock # "none" => lock = r
    BY <2>1 DEF Alone
  <2> QED  BY <2>1, <2>2, NoPlanTyped DEF Inspect, PlanInstall, NothingToChange, Withdraw, PlanRollback
<1> QED  BY <1>1 DEF TidyInv, Tidy, Settled, Whole

LEMMA AroundTidy ==
  ASSUME TidyInv, AloneInv', failures = 0, Around
  PROVE  Tidy'
<1>1. UNCHANGED <<backups, lock, plan, todo>>
  BY DEF Around, PlanAttach, Attach, Detach, Edit, DaemonEnds, DaemonStarts
<1>2. CASE disk' = disk /\ daemon' \in {daemon, disk.src, "none"}
  BY <1>1, <1>2 DEF TidyInv, Tidy, Settled, Whole
<1>3. CASE Edit
  <2>1. lock = "none" /\ disk \in Disks /\ daemon' = daemon
    BY <1>3 DEF Edit, TidyInv, AloneInv, TypeInv, ITypeOK
  <2>2. /\ disk'.src = disk.src /\ disk'.unit = disk.unit
        /\ disk'.launcher = disk.launcher /\ (disk.config # NoConfig => disk'.config # NoConfig)
    <3>1. CASE disk' = [disk EXCEPT !.secure = FALSE]
      BY <2>1, <3>1 DEF Disks
    <3>2. CASE \E c \in Configs, ready \in BOOLEAN : disk' = [disk EXCEPT !.config = Config(c, ready)]
      <4>1. PICK c \in Configs, ready \in BOOLEAN : disk' = [disk EXCEPT !.config = Config(c, ready)]
        BY <3>2
      <4>2. Config(c, ready).text # NoConfig.text
        BY InstallationAssumption DEF Config, NoConfig
      <4>3. disk'.config = Config(c, ready)
        BY <2>1, <4>1 DEF Disks
      <4> QED  BY <2>1, <4>1, <4>2, <4>3 DEF Disks
    <3> QED  BY <1>3, <3>1, <3>2 DEF Edit
  <2> QED  BY <1>1, <2>1, <2>2 DEF TidyInv, Tidy, Settled, Whole
<1> QED  BY <1>2, <1>3 DEF Around, PlanAttach, Attach, Detach, DaemonEnds, DaemonStarts

LEMMA NextTidy ==
  ASSUME Alone, TidyInv, [Next]_vars
  PROVE  TidyInv'
<1>0. AloneInv'
  BY NextAlone DEF TidyInv
<1>1. failures' \in Nat /\ (failures' = 0 => failures = 0)
  <2>1. failures' = failures \/ (failures' = failures + 1)
    BY DEF Next, vars, Inspect, PlanInstall, NothingToChange, Withdraw, Install, Rollback,
       PlanRollback, Prepare, Secure, Import, Validate, Start, RecordAfter, Stop, Unpack, Restart,
       Clear, Copy, Restore, InstallFile, Remove, Becomes, DaemonIs, StepFails, PlanAttach, Attach,
       Detach, Edit, DaemonEnds, DaemonStarts
  <2> QED  BY <2>1 DEF TidyInv
<1> SUFFICES ASSUME failures = 0, failures' = 0 PROVE Tidy'
  BY <1>0, <1>1 DEF TidyInv, Tidy
<1>2. CASE UNCHANGED vars
  BY <1>2 DEF TidyInv, Tidy, vars, Settled, Whole
<1>3. ASSUME NEW r \in Runs, Install(r) \/ Rollback(r)
      PROVE  Tidy'
  BY <1>0, <1>3, TakesTidy
<1>4. CASE OnDisk \/ Prepare \/ Start \/ Stop \/ Restart \/ RecordAfter
  <2>1. PICK do, what : Moves(do, what)
    BY <1>4, StepMoves DEF TidyInv
  <2>2. plan[lock].op \in {"install", "rollback"}
    BY <2>1, AtWanted DEF Moves, At, TidyInv, AloneInv
  <2> QED  BY <1>0, <2>1, <2>2, InstallMoves, RollbackMoves
<1>5. CASE StepFails
  <2>1. lock # "none"
    BY <1>5 DEF StepFails
  <2>2. ~MustFail
    BY <2>1, NothingMustFail
  <2> QED  BY <1>5, <2>2 DEF StepFails
<1>6. CASE Around
  BY <1>0, <1>6, AroundTidy
<1>7. CASE Next
  BY <1>0, <1>3, <1>4, <1>5, <1>6, <1>7, PlansTidy DEF Next, OnDisk, Around, Files
<1> QED  BY <1>2, <1>7

LEMMA CompletedStep ==
  ASSUME TidyInv, At("record", "deployment")
  PROVE  LET p == plan[lock]
         IN  /\ Same(p) /\ [launcher |-> disk.launcher, unit |-> disk.unit] = Offers(p)
             /\ disk.config.ready /\ p.import \in {"none", disk.config.text}
             /\ p.seen.src # "none" => disk.secure
             /\ failures = 0 => daemon \in {disk.src, "none"}
<1> DEFINE p == plan[lock]
<1>1. /\ p.op = "install" /\ Same(p)
      /\ disk.launcher = Source(p) /\ disk.unit = Unit(p)
      /\ disk.config.ready /\ p.import \in {"none", disk.config.text}
      /\ p.seen.src # "none" => disk.secure
      /\ ~Left(todo, "start", "daemon")
  BY BeforeRecord DEF TidyInv
<1>2. [launcher |-> disk.launcher, unit |-> disk.unit] = Offers(p)
  BY <1>1 DEF Offers, Unit
<1>3. failures = 0 => daemon \in {disk.src, "none"}
  BY <1>1 DEF TidyInv, Tidy, At
<1> QED  BY <1>1, <1>2, <1>3

(* While one run is under way at a time: a deployment that is recorded as  *)
(* installed is installed.  What was found unnecessary before the lock is  *)
(* still unnecessary under it, whatever was edited in between; and unless  *)
(* a run failed before, no run leaves a daemon of another release behind.  *)
THEOREM InstallCompletes == ASSUME Alone PROVE Spec => CompletedInstall
<1>1. Init => TidyInv
  BY InitTidy
<1>2. TidyInv /\ [Next]_vars => TidyInv'
  BY NextTidy
<1>3. TidyInv /\ [Next]_vars =>
       [At("record", "deployment") /\ backups' # backups =>
         LET p == plan[lock]
         IN  /\ Same(p) /\ [launcher |-> disk.launcher, unit |-> disk.unit] = Offers(p)
             /\ disk.config.ready /\ p.import \in {"none", disk.config.text}
             /\ p.seen.src # "none" => disk.secure
             /\ failures = 0 => daemon \in {disk.src, "none"}]_vars
  BY CompletedStep
<1> QED  BY <1>1, <1>2, <1>3, PTL DEF Spec, CompletedInstall
=============================================================================
