--------------------------- MODULE AgentReplacement ---------------------------
(***************************************************************************)
(* Replacing a protected tunnel by another one without a gap                *)
(* (usque-agent/src/coordinator/replacement.rs, journal/replacement.rs and  *)
(* the parts of coordinator.rs they call).  A persistent guard is installed *)
(* in the packet filter before the source is torn down and is removed only  *)
(* when the target is active or the replacement is aborted.  The ordinary   *)
(* life of a tunnel is AgentCoordinator; here the source is Active at first.*)
(*                                                                          *)
(* A handler holds the journal mutex from its request to its answer; it is  *)
(* a label, and one action is one journal save or one native call, because  *)
(* a failure or the end of the process can fall between any two of them.    *)
(***************************************************************************)
EXTENDS Naturals, FiniteSets, GuardExclusions

CONSTANTS
    Operations,   \* operation ids
    Source,       \* the operation that is Active at first
    KillSwitch,   \* operations whose plan has kill_switch
    Chain,        \* operations whose plan has vpn_chain
    Exclusions,   \* the effective_exclusions of each operation's plan
    Large,        \* operations whose guard needs more filters than others
    MaxFaults,    \* bound: failed saves and failed native calls
    MaxRestarts   \* bound: ends of the Agent process

ASSUME OperationsAssumption ==
    /\ Source \in KillSwitch \union Chain
    /\ KillSwitch \union Chain \subseteq Operations /\ "none" \notin Operations
    /\ Large \subseteq Operations
    /\ Width \in Nat \ {0} /\ Exclusions \in [Operations -> SUBSET Networks]
    /\ {MaxFaults, MaxRestarts} \subseteq Nat

VARIABLES
    mem,       \* the RecoveryJournal behind the mutex
    disk,      \* the journal file
    os,        \* native: whose policy `ks' and whose `guard' is installed,
               \* and whether the device exists
    attached,  \* packet_session_attached
    instance,  \* agent_instance
    job,       \* the handler that holds the mutex
    faults

vars == <<mem, disk, os, attached, instance, job, faults>>

None == "none"
Failed == {"RecoveryRequired", "Quarantined"}
Kinds == {"PacketSession", "KillSwitch", "Interface", "DefaultRoutes"}
Unresolved == {"Intended", "Applied"}
Protected(op) == op \in KillSwitch \union Chain

-----------------------------------------------------------------------------
(* The journal.  "Interface" stands for the steps that prepare_locked adds  *)
(* for every plan: endpoint bypass, addresses and DNS.  `through' is history *)
(* (no field of TunnelReplacement): every operation of a chained replacement.*)
(* The phase "Quarantined" is RecoveryRequired as a failed inspection at     *)
(* startup records it: the code does not tell the two apart, nor does a guard *)
(* here; the properties do.                                                  *)

NoReplacement ==
    [op |-> None, source |-> None, original |-> None, cleanup |-> None,
     guard |-> "Restored", phase |-> "Aborted", exclusions |-> {}, through |-> {}]
NoSteps == [k \in Kinds |-> "Absent"]

Final == {"Complete", "Aborted"}
Pending(j) == j.repl.phase \notin Final

\* RecoveryJournal::validate and TunnelReplacement::validate.
Valid(j) ==
    /\ Pending(j) => j.phase # "Clean" /\ j.op \in {j.repl.cleanup, j.repl.op}
    /\ Pending(j) <=> j.repl.guard # "Restored"
    /\ \A n \in j.repl.exclusions : \A op \in {j.repl.original, j.repl.op} :
         \E outer \in Exclusions[op] : contains_network(outer, n)

SetPhase(j, p) == [j EXCEPT !.phase = p]
SetReplacement(j, p) == [j EXCEPT !.repl.phase = p]
SetStep(j, k, s) == [j EXCEPT !.step[k] = s]
Applied(k) == mem.step[k] = "Applied"

\* RecoveryJournal::disconnected.
Disconnected(j) ==
    [phase |-> "Clean", op |-> None, step |-> NoSteps, repl |-> j.repl,
     dev |-> [j.dev EXCEPT !.state = IF @ = "InUse" THEN "Idle" ELSE @]]

Idle == [at |-> "idle", does |-> "none", left |-> {}, failed |-> FALSE]
Start(does, label) == [Idle EXCEPT !.at = label, !.does = does]
At(label) == [job EXCEPT !.at = label]

Init ==
    LET j == [phase |-> "Active", op |-> Source,
              step |-> [k \in Kinds |-> "Applied"],
              dev |-> [inst |-> 1, state |-> "InUse"],
              repl |-> NoReplacement]
    IN  /\ mem = j /\ disk = j
        /\ os = [ks |-> Source, guard |-> None, dev |-> TRUE]
        /\ attached = TRUE /\ instance = 1 /\ job = Idle /\ faults = 0

-----------------------------------------------------------------------------
(* Native state, from how the coordinator and the backend use it.           *)

Fault == faults < MaxFaults /\ faults' = faults + 1

\* replacement_guard_present: every planned key exists and both families are
\* blocked by one of them, so a guard of another size does not match.
GuardPresent(op) ==
    os.guard # None /\ (os.guard \in Large <=> op \in Large)

\* inspect_tunnel_sync
Reattachable ==
    /\ os.dev
    /\ \A k \in Kinds \ {"KillSwitch"} : Applied(k)
    /\ Protected(mem.op) => mem.step["KillSwitch"] # "Absent" /\ os.ks = mem.op

\* JournalStore::save: memory has the new journal whether or not the file has.
Save(j, next) ==
    /\ mem' = j
    /\ \/ /\ disk' = IF Valid(j) THEN j ELSE disk
          /\ job' = IF Valid(j) THEN next ELSE Idle
          /\ faults' = faults
       \/ disk' = disk /\ job' = Idle /\ Fault

\* A native call takes effect as a whole; one that fails may have, too.
Native(effect, next) ==
    \/ os' = effect /\ job' = next /\ faults' = faults
    \/ os' \in {os, effect} /\ job' = Idle /\ Fault

-----------------------------------------------------------------------------
(* replace_tunnel: what it accepts.                                         *)

GuardedSource(r) ==
    \/ GuardPresent(r.op)
    \/ /\ r.phase = "InstallingGuard" /\ Protected(mem.op)
       /\ Applied("KillSwitch") /\ os.ks = mem.op
    \/ r.phase = "Committing" /\ mem.phase = "Active"

\* A replacement that is pending may itself be replaced.
Chained(source, op) ==
    /\ Pending(mem)
    /\ mem.repl.op = source
    /\ op \notin {mem.repl.original, mem.repl.cleanup, mem.repl.source}
    /\ mem.repl.phase # "Aborting"
    /\ GuardedSource(mem.repl)

First(source, op) ==
    /\ ~Pending(mem)
    /\ mem.op = source
    /\ Protected(source) /\ Applied("KillSwitch") /\ os.ks = source

\* What the guard may let pass so far.
Allowed == IF Pending(mem) THEN mem.repl.exclusions ELSE Exclusions[mem.op]

IntentOfSource(source, op) ==
    [mem EXCEPT !.repl =
        [op |-> op, source |-> source,
         original |-> IF Pending(mem) THEN mem.repl.original ELSE source,
         cleanup |-> source, guard |-> "Intended",
         phase |-> "InstallingGuard",
         exclusions |-> intersect_exclusions(Allowed, Exclusions[op]),
         through |-> {source, op} \cup (IF Pending(mem) THEN mem.repl.through ELSE {})]]

Intent(source, op) ==
    [mem EXCEPT !.repl =
        [op |-> op, source |-> source,
         original |-> IF Pending(mem) THEN mem.repl.original ELSE source,
         cleanup |-> mem.op, guard |-> "Intended",
         phase |-> "InstallingGuard",
         exclusions |-> intersect_exclusions(Allowed, Exclusions[op]),
         through |-> {source, op} \cup (IF Pending(mem) THEN mem.repl.through ELSE {})]]

\* Where the handler goes on once the request is recorded.
Enters(j) ==
    IF j.repl.phase = "Committing" /\ j.phase = "Active" /\ attached
    THEN Start("commit", "complete")
    ELSE IF j.repl.phase = "Aborting" THEN Idle
    ELSE IF j.repl.guard = "Intended" THEN Start("replace", "intend")
    ELSE Start("replace", "readback")

NewReplacement(source, op) ==
    /\ job = Idle /\ source # op /\ op # mem.repl.op
    /\ Chained(source, op) \/ First(source, op)
    /\ Save(Intent(source, op), Enters(Intent(source, op)))
    /\ UNCHANGED <<os, attached, instance>>

\* The same request again; a finished one is answered without a step.
SameRequest ==
    /\ job = Idle /\ Pending(mem) /\ mem.repl.phase # "Aborting"
    /\ job' = Enters(mem)
    /\ UNCHANGED <<mem, disk, os, attached, instance, faults>>

-----------------------------------------------------------------------------
(* The guard.                                                               *)

Trusting ==
    /\ job.at = "intend"
    /\ job' = At("guard")
    /\ UNCHANGED <<mem, disk, os, attached, instance, faults>>

\* The intent is written again: the first write may have failed.
IntendAgain ==
    /\ job.at = "intend"
    /\ Save(mem, At("guard"))
    /\ UNCHANGED <<os, attached, instance>>

\* One filter transaction removes the old guard and installs the new one.
InstallGuard ==
    /\ job.at = "guard"
    /\ Native([os EXCEPT !.guard = mem.repl.op], At("guarded"))
    /\ UNCHANGED <<mem, disk, attached, instance>>

RecordGuard ==
    /\ job.at = "guarded"
    /\ Save([mem EXCEPT !.repl.guard = "Applied", !.repl.phase = "SourceCleanup"],
            At("readback"))
    /\ UNCHANGED <<os, attached, instance>>

AlreadyPrepared ==
    /\ mem.op = mem.repl.op /\ mem.phase = "Prepared"
    /\ mem.repl.phase = "Prepared"
    /\ mem.dev.inst = instance

Believing ==
    /\ job.at = "readback"
    /\ job' = IF AlreadyPrepared THEN Idle ELSE At("quiesce")
    /\ UNCHANGED <<mem, disk, os, attached, instance, faults>>

\* The journal's claim is never taken for protection.
Readback ==
    /\ job.at = "readback"
    /\ job' = IF GuardPresent(mem.repl.op)
              THEN IF AlreadyPrepared THEN Idle ELSE At("quiesce")
              ELSE IF mem.repl.phase = "Committing" /\ mem.phase = "Active"
              THEN At("guard") ELSE Idle
    /\ UNCHANGED <<mem, disk, os, attached, instance, faults>>

-----------------------------------------------------------------------------
(* restore_replacement_normal_locked and restore_steps_locked.              *)

Quiesce ==
    /\ job.at = "quiesce"
    /\ Save(SetPhase(mem, "Recovering"),
            [At("restore") EXCEPT
               !.left = {k \in Kinds : mem.step[k] \in Unresolved}])
    /\ UNCHANGED <<os, attached, instance>>

Rank(k) == CASE k = "PacketSession" -> 1 [] k = "KillSwitch" -> 2
             [] k = "DefaultRoutes" -> 3 [] OTHER -> 4
FirstOf(ks) == CHOOSE k \in ks : \A o \in ks : Rank(k) <= Rank(o)

RestoreStep ==
    LET k == FirstOf(job.left)
        effect == IF k = "KillSwitch" THEN [os EXCEPT !.ks = None] ELSE os
    IN
    /\ job.at = "restore" /\ job.left # {}
    /\ \/ /\ os' = effect
          /\ mem' = SetStep(mem, k, "Restored")
          /\ attached' = (attached /\ k # "PacketSession")
          /\ job' = [At("restored") EXCEPT !.left = @ \ {k}]
          /\ faults' = faults
       \/ /\ Fault /\ os' \in {os, effect}
          /\ job' = [job EXCEPT !.failed = TRUE,
                                !.left = IF k = "PacketSession" THEN {} ELSE @ \ {k}]
          /\ UNCHANGED <<mem, attached>>
    /\ UNCHANGED <<disk, instance>>

\* A save that fails here is collected and the cleanup goes on.
RecordRestore ==
    /\ job.at = "restored"
    /\ \/ disk' = mem /\ job' = At("restore") /\ faults' = faults
       \/ disk' = disk /\ job' = [At("restore") EXCEPT !.failed = TRUE] /\ Fault
    /\ UNCHANGED <<mem, os, attached, instance>>

RequireRecovery ==
    /\ job.at = "restore" /\ job.left = {}
    /\ Save(SetPhase(mem, "RecoveryRequired"), IF job.failed THEN Idle ELSE At("clear"))
    /\ UNCHANGED <<os, attached, instance>>

ClearSteps ==
    /\ job.at = "clear"
    /\ Save([mem EXCEPT !.step = NoSteps],
            At(IF job.does = "replace" THEN "device" ELSE "foreign"))
    /\ UNCHANGED <<os, attached, instance>>

-----------------------------------------------------------------------------
(* prepare_replacement_device_locked, and the retirement that abort shares. *)

NoDevice == [inst |-> 0, state |-> "none"]

CheckDevice ==
    /\ job.at \in {"device", "foreign"}
    /\ job' = At(IF job.at = "device"
                 THEN IF mem.dev = NoDevice THEN "create"
                      ELSE IF mem.dev.inst = instance /\ os.dev THEN "target" ELSE "retire"
                 ELSE IF mem.dev.inst \in {0, instance} THEN "release" ELSE "retire")
    /\ UNCHANGED <<mem, disk, os, attached, instance, faults>>

RetireDevice ==
    /\ job.at = "retire"
    /\ Save([mem EXCEPT !.dev.state = "RecoveryRequired"], At("remove"))
    /\ UNCHANGED <<os, attached, instance>>

RemoveDevice ==
    /\ job.at = "remove"
    /\ Native([os EXCEPT !.dev = FALSE], At("removed"))
    /\ UNCHANGED <<mem, disk, attached, instance>>

ForgetDevice ==
    /\ job.at = "removed"
    /\ Save([mem EXCEPT !.dev = NoDevice],
            At(IF job.does = "replace" THEN "create" ELSE "release"))
    /\ UNCHANGED <<os, attached, instance>>

IntendDevice ==
    /\ job.at = "create"
    /\ Save([mem EXCEPT !.dev = [inst |-> instance, state |-> "Creating"]], At("creating"))
    /\ UNCHANGED <<os, attached, instance>>

CreateDevice ==
    /\ job.at = "creating"
    /\ Native([os EXCEPT !.dev = TRUE], At("created"))
    /\ UNCHANGED <<mem, disk, attached, instance>>

RecordDevice ==
    /\ job.at = "created"
    /\ Save([mem EXCEPT !.dev.state = "InUse"], At("target"))
    /\ UNCHANGED <<os, attached, instance>>

-----------------------------------------------------------------------------
(* prepare_locked and apply_new_step.  A step that fails asks for recovery, *)
(* which is refused while the replacement is pending: the handler just ends.*)

BeginTarget ==
    /\ job.at = "target"
    /\ Save(SetReplacement(mem, "PreparingTarget"), At("prepare"))
    /\ UNCHANGED <<os, attached, instance>>

Prepare ==
    /\ job.at = "prepare"
    /\ Save([mem EXCEPT !.phase = "Preparing", !.op = mem.repl.op,
                        !.step = NoSteps, !.dev.state = "InUse"],
            [At("push") EXCEPT
               !.left = {"Interface"}
                        \union (IF mem.repl.op \in Chain THEN {"KillSwitch"} ELSE {})])
    /\ UNCHANGED <<os, attached, instance>>

Pushed == FirstOf(job.left)

\* apply_new_step: the write-ahead record; a second one of a kind is refused.
PushStep ==
    /\ job.at = "push" /\ job.left # {}
    /\ IF mem.step[Pushed] = "Absent"
       THEN Save(SetStep(mem, Pushed, "Intended"), At("apply"))
       ELSE job' = Idle /\ UNCHANGED <<mem, disk, faults>>
    /\ UNCHANGED <<os, attached, instance>>

ApplyStep ==
    /\ job.at = "apply"
    /\ Native(IF Pushed = "KillSwitch" THEN [os EXCEPT !.ks = mem.op] ELSE os,
              At("applied"))
    /\ UNCHANGED <<mem, disk, attached, instance>>

RecordStep ==
    /\ job.at = "applied"
    /\ Save(SetStep(mem, Pushed, "Applied"), [At("push") EXCEPT !.left = @ \ {Pushed}])
    /\ UNCHANGED <<os, attached, instance>>

FinishSteps ==
    /\ job.at = "push" /\ job.left = {}
    /\ \/ /\ job.does = "replace" /\ attached' = attached
          /\ Save(SetPhase(mem, "Prepared"), At("prepared"))
       \/ /\ job.does = "commit" /\ attached' = attached
          /\ Save(SetPhase(mem, "Active"), At("complete"))
       \/ /\ job.does = "open" /\ attached' = TRUE
          /\ job' = Idle /\ UNCHANGED <<mem, disk, faults>>
    /\ UNCHANGED <<os, instance>>

RecordPrepared ==
    /\ job.at = "prepared"
    /\ Save(SetReplacement(mem, "Prepared"), Idle)
    /\ UNCHANGED <<os, attached, instance>>

-----------------------------------------------------------------------------
(* The packet session.                                                      *)

OpenSession ==
    /\ job = Idle /\ mem.phase = "Prepared"
    /\ mem.step["PacketSession"] = "Absent"
    /\ job' = [Start("open", "push") EXCEPT !.left = {"PacketSession"}]
    /\ UNCHANGED <<mem, disk, os, attached, instance, faults>>

\* close_packet_session, when the native session ends without an error.
CloseSession ==
    /\ job = Idle /\ mem.phase \in {"Prepared", "Active"}
    /\ mem.step["PacketSession"] # "Absent"
    /\ Save(IF mem.phase = "Prepared" THEN SetStep(mem, "PacketSession", "Absent") ELSE mem, Idle)
    /\ attached' = FALSE
    /\ UNCHANGED <<os, instance>>

\* release_tunnel_lease: the Engine's pipe ended; the step stays recorded.
ReleaseLease ==
    /\ job = Idle /\ mem.phase \in {"Prepared", "Active"} /\ attached
    /\ Save(mem, Idle)
    /\ attached' = FALSE
    /\ UNCHANGED <<os, instance>>

ResumeTunnel ==
    /\ job = Idle /\ mem.phase = "Active" /\ ~attached /\ Applied("PacketSession")
    /\ Save([mem EXCEPT !.dev.inst = instance], Start("open", "resume"))
    /\ UNCHANGED <<os, attached, instance>>

\* resume_packet_session needs the device.
ResumeSession ==
    /\ job.at = "resume"
    /\ job' = Idle
    /\ \/ attached' = os.dev /\ faults' = faults
       \/ attached' = attached /\ Fault
    /\ UNCHANGED <<mem, disk, os, instance>>

-----------------------------------------------------------------------------
(* commit and complete_replacement_locked.                                  *)

CommitSteps ==
    {k \in {"KillSwitch", "DefaultRoutes"} :
        ~Applied(k) /\ (k = "KillSwitch" => Protected(mem.op))}

Commit ==
    /\ job = Idle /\ mem.phase = "Prepared" /\ Applied("PacketSession")
    /\ Save(SetReplacement(mem, "Committing"),
            [Start("commit", "push") EXCEPT !.left = CommitSteps])
    /\ UNCHANGED <<os, attached, instance>>

CommitAgain ==
    /\ job = Idle /\ mem.phase = "Active" /\ Pending(mem)
    /\ job' = Start("commit", "complete")
    /\ UNCHANGED <<mem, disk, os, attached, instance, faults>>

CompleteUnchecked ==
    /\ job.at = "complete"
    /\ Save(SetReplacement(mem, "Committing"), At("release"))
    /\ UNCHANGED <<os, attached, instance>>

Complete ==
    /\ job.at = "complete"
    /\ IF mem.op = mem.repl.op /\ attached /\ Reattachable
       THEN Save(SetReplacement(mem, "Committing"), At("release"))
       ELSE job' = Idle /\ UNCHANGED <<mem, disk, faults>>
    /\ UNCHANGED <<os, attached, instance>>

ReleaseGuard ==
    /\ job.at = "release"
    /\ Native([os EXCEPT !.guard = None], At("released"))
    /\ UNCHANGED <<mem, disk, attached, instance>>

\* The final journal is a copy: memory changes only if the file did.
Released ==
    IF job.does = "abort"
    THEN [Disconnected(mem) EXCEPT !.repl.guard = "Restored", !.repl.phase = "Aborted"]
    ELSE [mem EXCEPT !.repl.guard = "Restored", !.repl.phase = "Complete"]

RecordRelease ==
    /\ job.at = "released"
    /\ job' = Idle
    /\ \/ mem' = Released /\ disk' = Released /\ faults' = faults
       \/ UNCHANGED <<mem, disk>> /\ Fault
    /\ UNCHANGED <<os, attached, instance>>

-----------------------------------------------------------------------------
(* abort_replacement, ordinary recovery, and the end of the process.        *)

AbortOnce ==
    /\ job = Idle /\ Pending(mem) /\ mem.repl.phase # "Aborting"
    /\ Save(SetReplacement(mem, "Aborting"), Start("abort", "quiesce"))
    /\ UNCHANGED <<os, attached, instance>>

Abort ==
    /\ job = Idle /\ Pending(mem)
    /\ Save(SetReplacement(mem, "Aborting"), Start("abort", "quiesce"))
    /\ UNCHANGED <<os, attached, instance>>

\* recover_locked_with_egress is refused while a replacement is pending.
RecoverAllowed == mem.phase # "Clean" /\ ~Pending(mem)

Restorable == {k \in Kinds : mem.step[k] \in Unresolved}

\* What a recovery leaves in memory if it fails after restoring `done'.
Unfinished(done) ==
    [mem EXCEPT !.phase = "RecoveryRequired",
                !.step = [k \in Kinds |-> IF k \in done THEN "Restored" ELSE @[k]]]

\* Nothing is left to restore but the journal itself.
Reconcilable == mem.phase \in Failed /\ ~Pending(mem) /\ Restorable = {}

\* A rollback or a recovery as a whole, with the failures that end it
\* (AgentCoordinator has its steps).  Clean is published only after the file
\* has it; a packet session that does not stop ends the recovery at once.
Recover ==
    /\ job = Idle \/ job.at = "recover"
    /\ RecoverAllowed
    /\ job' = Idle
    /\ \/ /\ mem' = Disconnected(mem) /\ disk' = Disconnected(mem)
          /\ os' = [os EXCEPT !.ks = None]
          /\ attached' = FALSE /\ faults' = faults
       \/ \E done \in SUBSET Restorable :
            /\ "PacketSession" \in Restorable \ done => done = {}
            /\ mem' = Unfinished(done) /\ disk' \in {disk, Unfinished(done)}
            /\ \/ os' = [os EXCEPT !.ks = None]
               \/ os' = os /\ "KillSwitch" \notin done
            /\ attached' = (attached /\ "PacketSession" \notin done)
            /\ Fault
    /\ UNCHANGED instance

\* Filters of a chain without kill_switch belong to the process's session;
\* the device may go with the handle of its creator.
Restart ==
    /\ instance <= MaxRestarts
    /\ mem' = disk /\ attached' = FALSE /\ job' = Start("startup", "inspect")
    /\ instance' = instance + 1
    /\ \E dev \in {FALSE, os.dev} :
         os' = [os EXCEPT !.ks = IF @ \in KillSwitch THEN @ ELSE None, !.dev = dev]
    /\ UNCHANGED <<disk, faults>>

\* startup_recovery_action: an Active tunnel is inspected, even while its
\* replacement is pending; what is unfinished is recovered once, which a
\* pending replacement refuses; what has failed before is left.
InspectStartup ==
    /\ job.at = "inspect"
    /\ \/ /\ mem.phase = "Active" /\ Reattachable
          /\ job' = Idle /\ faults' = faults
       \/ /\ mem.phase \notin Failed \cup {"Clean"}
          /\ mem.phase = "Active" => ~Reattachable
          /\ job' = IF RecoverAllowed THEN At("recover") ELSE Idle
          /\ faults' = faults
       \/ /\ mem.phase = "Active"
          /\ job' = At("quarantine") /\ Fault
       \/ /\ mem.phase \in Failed \cup {"Clean"} /\ ~Reconcilable
          /\ job' = Idle /\ faults' = faults
    /\ UNCHANGED <<mem, disk, os, attached, instance>>

\* inspect_startup_tunnel, when Windows does not answer.
Quarantine ==
    /\ job.at = "quarantine"
    /\ Save(SetPhase(mem, "Quarantined"), Idle)
    /\ UNCHANGED <<os, attached, instance>>

\* reconcile_removed_adapter_dependencies; memory changes only with the file.
ReconcileStartup ==
    /\ job.at = "inspect" /\ Reconcilable
    /\ job' = Idle
    /\ \/ mem' = Disconnected(mem) /\ disk' = Disconnected(mem) /\ faults' = faults
       \/ UNCHANGED <<mem, disk>> /\ Fault
    /\ UNCHANGED <<os, attached, instance>>

Handler ==
    \/ IntendAgain \/ InstallGuard \/ RecordGuard \/ Readback
    \/ Quiesce \/ RestoreStep \/ RecordRestore \/ RequireRecovery \/ ClearSteps
    \/ CheckDevice \/ RetireDevice \/ RemoveDevice \/ ForgetDevice
    \/ IntendDevice \/ CreateDevice \/ RecordDevice
    \/ BeginTarget \/ Prepare \/ PushStep \/ ApplyStep \/ RecordStep
    \/ FinishSteps \/ RecordPrepared \/ ResumeSession
    \/ Complete \/ ReleaseGuard \/ RecordRelease
    \/ InspectStartup \/ Quarantine \/ ReconcileStartup

Next ==
    \/ \E source, op \in Operations : NewReplacement(source, op)
    \/ SameRequest \/ Handler
    \/ OpenSession \/ CloseSession \/ ReleaseLease \/ ResumeTunnel
    \/ Commit \/ CommitAgain \/ Abort \/ Recover \/ Restart

Spec == Init /\ [][Next]_vars

-----------------------------------------------------------------------------
(* Correctness.                                                             *)

\* From the accepted replacement of a tunnel with the kill switch until it is
\* complete or the abort is recorded, some policy blocks the traffic outside a
\* tunnel: the source's, the target's or the guard.  The one exception is a
\* target whose own plan has no kill switch, from the commit that makes it
\* Active until it is torn down; a startup that cannot inspect it only renames
\* its phase.  Failed calls, lost saves and restarts included.
NeverExposed ==
    Pending(disk) /\ disk.repl.original \in KillSwitch /\ disk.repl.phase # "Aborting"
    => \/ os.ks # None \/ os.guard # None
       \/ disk.phase \in {"Active", "Quarantined"} /\ disk.op \notin KillSwitch

\* The addresses that each operation's plan leaves out of its tunnel.
LeftOut == [op \in Operations |-> Cover(Exclusions[op])]

\* The guard lets pass exactly the addresses that every tunnel involved leaves
\* out, from the one replaced first to the target now: none more, which would
\* leak while no tunnel is up, and none less (intersect_exclusions, and the
\* exclusions that a chained replacement starts from).
SharedBy(j) ==
    Pending(j) =>
        /\ {j.repl.original, j.repl.source, j.repl.op} \subseteq j.repl.through
        /\ Cover(j.repl.exclusions) =
               {a \in Addresses : \A op \in j.repl.through : a \in LeftOut[op]}
ExactlyShared == SharedBy(disk)

\* While a tunnel is replaced nothing leaves the machine that the tunnels
\* involved do not let out: some policy is there, and its exceptions are theirs.
NoLeakDuringReplacement == NeverExposed /\ ExactlyShared

\* An installed guard, which blocks the machine and survives reboots, is
\* always accounted for by a pending replacement in the journal file, so the
\* next process knows to complete or to abort it; and the journal in memory is
\* one that validate accepts, so that the next save can record what follows.
GuardIsRecorded ==
    /\ os.guard # None => Pending(disk)
    /\ Valid(mem) /\ Valid(disk)

\* The guard goes only after a recorded abort, or when the target that
\* replaces the source is active with its packet session, its routes and,
\* if its plan asks for one, its own policy in the filter.
GuardReleasedToTarget ==
    [][os.guard # None /\ os'.guard = None
       => \/ disk.repl.phase = "Aborting"
          \/ /\ disk.repl.phase = "Committing" /\ disk.phase = "Active"
             /\ disk.op = disk.repl.op /\ attached
             /\ disk.step["DefaultRoutes"] = "Applied"
             /\ Protected(disk.op) => os.ks = disk.op]_vars

\* The Engine, or maintenance, repeats an abort until it is answered.
Fairness == WF_vars(Handler) /\ SF_vars(Abort)
FairSpec == Spec /\ Fairness

\* A recorded abort finishes whatever failed in between: no failure leaves
\* the guard, and with it a blocked machine, behind for good.
AbortFinishes ==
    disk.repl.phase = "Aborting" ~> ~Pending(disk) /\ os.guard = None
=============================================================================
