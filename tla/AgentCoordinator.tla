-------------------------- MODULE AgentCoordinator --------------------------
(***************************************************************************)
(* AgentCoordinator (crates/usque-agent/src/coordinator.rs and             *)
(* coordinator/device_lifecycle.rs): the write-ahead transaction that every *)
(* privileged change of the host goes through, and its recovery.           *)
(*                                                                         *)
(* Every handler locks the journal mutex, so `job' is one record: the      *)
(* handler (h), its label (pc), the Engine it works for, and the locals    *)
(* that survive between two labels.  A request whose guard fails returns   *)
(* an error and changes nothing, so it has no action.                      *)
(***************************************************************************)
EXTENDS AgentJournal

Handlers == {None, "prepare", "begin_chain", "finalize", "open", "close",
             "resume", "commit", "release", "recover", "retire",
             "proxy_join", "proxy_alone", "proxy_restore",
             "boot", "boot_retire", "shutdown"}
Labels == {"idle", "create", "created", "create_failed", "begin",
           "plan", "apply", "applied", "finish",
           "recover", "restore", "mark", "clean", "required",
           "retire", "remove", "retired",
           "switch", "switched", "switch_done", "close", "closed", "resume",
           "detach", "detached", "proxy_undo", "proxy_undone",
           "boot", "boot_retire", "halted"}
Persist == "Persist"                   \* a failed save, among the failures

Idle == [h |-> None, pc |-> "idle", e |-> None, op |-> None,
         plan |-> NoPlan, todo |-> {}, kind |-> None, failed |-> {}]
Run(h, pc, e) == [Idle EXCEPT !.h = h, !.pc = pc, !.e = e]
Goto(pc) == [job EXCEPT !.pc = pc]
At(pc, k) == [job EXCEPT !.pc = pc, !.kind = k]
Todo(j, S) == [j EXCEPT !.pc = IF S = {} THEN "finish" ELSE "plan", !.todo = S]
Ready == job.pc = "idle"

\* What follows the end of a handler: startup goes on, shutdown exits.
Done == CASE job.h = "boot"     -> Run("boot", "boot_retire", None)
          [] job.h = "shutdown" -> Goto("halted")
          [] OTHER              -> Idle

(***************************************************************************)
(* JournalStore::save and the failures of the environment.  A save is      *)
(* validated, written to a temporary file and renamed, so it happens or it *)
(* does not; the caller keeps the journal it tried to save either way.     *)
(***************************************************************************)
Fault == faults < MaxFaults /\ faults' = faults + 1
NoFault == UNCHANGED faults
Saved(j) == mem' = j /\ disk' = j /\ NoFault
SaveFailed(j) == mem' = j /\ UNCHANGED disk /\ Fault
Save(j, ok, error) ==
    \/ Saved(j) /\ job' = ok
    \/ SaveFailed(j) /\ job' = error

(***************************************************************************)
(* Leases and owners.                                                      *)
(***************************************************************************)
NoLease == [e |-> None, key |-> 0, attached |-> FALSE]
NoRetirement == [deferred |-> FALSE, result |-> None,
                 retry_pending |-> FALSE, worker |-> FALSE]

require_device_owner(e) == devLease.attached /\ devLease.e = e
DeviceOwner(e) == mem.device # "Absent" => require_device_owner(e)
ensure_owner(e, op) == mem.op = op /\ mem.owner = e
SameAccount(e) == mem.owner # None /\ Account[mem.owner] = Account[e]
Tunnel == mem.kind = "Tunnel"

\* A pipe takes a lease: history, so that a watchdog armed earlier for the
\* same operation is known to have been superseded.
Attach(p) ==
    /\ pipes' = pipes \cup {p}
    /\ watchdogs' = {[w EXCEPT !.superseded = @ \/ w.op = p.op] : w \in watchdogs}
Arm(op, ep, kind) ==
    watchdogs' = watchdogs \cup
        {[op |-> op, epoch |-> ep, lease |-> kind, superseded |-> FALSE]}

(***************************************************************************)
(* inspect_tunnel of the Windows backend: the journal and Windows agree on *)
(* every resource of an active tunnel, the blocking policy included.       *)
(***************************************************************************)
Guarded(plan) == plan.kill_switch \/ plan.vpn_chain
Configured == {"EndpointBypass", "InterfaceConfiguration", "Dns", "DefaultRoutes"}
Reattachable ==
    /\ Device \in os
    /\ \A k \in Configured \cup {"PacketSession"} : mem.step[k] = "Applied"
    /\ Configured \subseteq os
    /\ Guarded(mem.plan) => mem.step["KillSwitch"] # "Absent" /\ "KillSwitch" \in os

Init ==
    /\ mem = CleanJournal /\ disk = CleanJournal /\ os = {}
    /\ pkt = FALSE /\ lease = FALSE /\ epoch = 0
    /\ devLease = NoLease /\ devTimers = {} /\ retire = NoRetirement
    /\ watchdogs = {} /\ pipes = {} /\ used = {} /\ instance = 0
    /\ faults = 0 /\ job = Idle

(***************************************************************************)
(* apply_new_step: intent saved, native change, result saved.  All the     *)
(* lists of steps in the code agree on one order.                          *)
(***************************************************************************)
\* Mutant: the default routes are installed before the blocking policy.
ApplyOrderRoutesFirst == <<"WfpMetadata", "EndpointBypass",
                           "InterfaceConfiguration", "Dns", "PacketSession",
                           "DefaultRoutes", "KillSwitch", "SystemProxy">>
ApplyOrder == <<"WfpMetadata", "EndpointBypass", "KillSwitch",
                "InterfaceConfiguration", "Dns", "PacketSession",
                "DefaultRoutes", "SystemProxy">>
Rank(k) == CHOOSE i \in DOMAIN ApplyOrder : ApplyOrder[i] = k
First(k, S) == k \in S /\ \A x \in S : Rank(k) <= Rank(x)

\* A chain keeps its guard when a late step fails; everything else recovers.
ApplyFailed ==
    CASE job.h \in {"begin_chain", "finalize"} -> Idle
      [] job.h \in {"open", "commit"} /\ mem.plan.vpn_chain -> Idle
      [] job.h = "proxy_join" -> Goto("proxy_undo")
      [] OTHER -> Goto("recover")
PlanFailed == IF job.h = "proxy_join" THEN Idle ELSE ApplyFailed
IntentFailed ==
    IF job.h \in {"proxy_join", "proxy_alone"} THEN Idle ELSE ApplyFailed

PlanStep ==
    /\ job.pc = "plan"
    /\ \E k \in Kinds :
         /\ First(k, job.todo)
         /\ \/ /\ mem.step[k] = "Absent"
               /\ Save(Push(mem, k), At("apply", k), IntentFailed)
            \/ /\ \/ mem.step[k] # "Absent" /\ NoFault     \* DuplicateStep
                  \/ mem.step[k] = "Absent" /\ Fault       \* plan_step failed
               /\ job' = PlanFailed
               /\ UNCHANGED <<mem, disk>>
    /\ UNCHANGED <<os, session, device, clients>>

\* A native call that fails may have changed Windows or not.
ApplyStep ==
    /\ job.pc = "apply"
    /\ \/ os' = os \cup {job.kind} /\ job' = Goto("applied") /\ NoFault
       \/ os' \in {os, os \cup {job.kind}} /\ job' = ApplyFailed /\ Fault
    /\ UNCHANGED <<mem, disk, session, device, clients>>

RecordApplied ==
    LET applied == Mark(mem, job.kind, "Applied")
    IN  /\ job.pc = "applied"
        /\ Save(IF job.h = "proxy_alone" THEN InPhase(applied, "Active") ELSE applied,
                Todo(job, job.todo \ {job.kind}), ApplyFailed)
        /\ UNCHANGED <<os, session, device, clients>>

(***************************************************************************)
(* prepare_managed and prepare_locked.  The intent to create a device is   *)
(* durable before the native call; an existing idle device is inspected.   *)
(***************************************************************************)
Prepare(pc, e, op, plan) ==
    [Run("prepare", pc, e) EXCEPT !.op = op, !.plan = plan]
Creating(j, e) ==
    [j EXCEPT !.device = "Creating", !.inst = instance, !.sid = Account[e]]

PrepareManaged(e, op, plan) ==
    LET suspect == WithDevice(mem, "RecoveryRequired")
    IN  /\ Ready /\ op \notin used
        /\ require_device_owner(e)
        /\ mem.phase = "Clean"
        /\ used' = used \cup {op}
        /\ \/ /\ mem.device = "Absent"
              /\ Save(Creating(mem, e), Prepare("create", e, op, plan), Idle)
           \/ /\ mem.device = "Idle" /\ mem.inst = instance
              /\ mem.sid = Account[e] /\ ~pkt
              /\ \/ Device \in os /\ job' = Prepare("begin", e, op, plan)
                    /\ UNCHANGED <<mem, disk, faults>>
                 \/ Device \notin os /\ Saved(suspect) /\ job' = Idle
                 \/ /\ Fault                    \* inspection or save failed
                    /\ mem' = suspect /\ disk' \in {suspect, disk}
                    /\ job' = Idle
        /\ UNCHANGED <<os, session, device, watchdogs, pipes, instance>>

CreateDevice ==
    /\ job.pc = "create"
    /\ \/ os' = os \cup {Device} /\ job' = Goto("created") /\ NoFault
       \/ os' \in {os, os \cup {Device}} /\ job' = Goto("create_failed") /\ Fault
    /\ UNCHANGED <<mem, disk, session, device, clients>>

DeviceCreated ==
    /\ job.pc = "created"
    /\ \/ Saved(WithDevice(mem, "Idle")) /\ job' = Goto("begin")
       \/ SaveFailed(WithDevice(mem, "RecoveryRequired")) /\ job' = Idle
    /\ UNCHANGED <<os, session, device, clients>>

CreateFailed ==
    /\ job.pc = "create_failed"
    /\ Save(WithDevice(mem, "RecoveryRequired"), Idle, Idle)
    /\ UNCHANGED <<os, session, device, clients>>

PrepareKinds(plan) ==
    {"EndpointBypass"}
      \cup (IF plan.endpoint_policy THEN {"WfpMetadata"} ELSE {})
      \cup (IF plan.vpn_chain THEN {"KillSwitch"} ELSE {})
      \cup (IF plan.defer THEN {} ELSE {"InterfaceConfiguration", "Dns"})

\* The first save of a transaction; its failure returns without recovery.
Begun(j) ==
    [j EXCEPT !.phase = "Preparing", !.kind = "Tunnel", !.op = job.op,
              !.owner = job.e, !.plan = job.plan, !.device = "InUse",
              !.binding = TRUE, !.step = NoSteps, !.order = <<>>]

BeginTransaction ==
    /\ job.pc = "begin"
    /\ Save(Begun(mem), Todo(job, PrepareKinds(job.plan)), Idle)
    /\ UNCHANGED <<os, session, device, clients>>

FinishPrepare ==
    LET prepared == InPhase(mem, "Prepared")
    IN  /\ job.pc = "finish" /\ job.h = "prepare"
        /\ \/ /\ Saved(prepared) /\ job' = Idle
              /\ Attach([e |-> job.e, op |-> mem.op, lease |-> "startup"])
           \/ /\ SaveFailed(prepared) /\ job' = Goto("recover")
              /\ UNCHANGED <<pipes, watchdogs>>
        /\ UNCHANGED <<os, session, device, used, instance>>

(***************************************************************************)
(* begin_chain_transition: a guard for a live tunnel about to become a     *)
(* chain.  Another process of the same account may take over a detached    *)
(* tunnel; the new owner is in memory even when the save fails.            *)
(***************************************************************************)
Takeover(e) ==
    \/ mem.owner = e
    \/ SameAccount(e) /\ mem.phase = "Active" /\ ~pkt /\ ~lease /\ Reattachable

ChainLabel(policy, e) ==
    CASE policy = "Applied" -> Todo(Run("begin_chain", "plan", e), {})
      [] policy = "Absent"  -> Todo(Run("begin_chain", "plan", e), {"KillSwitch"})
      [] OTHER              -> Idle
Chained(j, e) == [j EXCEPT !.owner = e, !.plan.vpn_chain = TRUE]

\* Mutant: a retained startup pipe does not move the lease epoch.
BeginChainTransitionSameEpoch(e) ==
    /\ Ready /\ epoch < MaxEpoch
    /\ Tunnel /\ mem.phase \in {"Active", "Prepared"}
    /\ DeviceOwner(e) /\ Takeover(e)
    /\ Save(Chained(mem, e), ChainLabel(mem.step["KillSwitch"], e), Idle)
    /\ UNCHANGED <<os, session, device, clients>>

BeginChainTransition(e) ==
    /\ Ready /\ epoch < MaxEpoch
    /\ Tunnel /\ mem.phase \in {"Active", "Prepared"}
    /\ DeviceOwner(e) /\ Takeover(e)
    /\ \/ /\ Saved(Chained(mem, e))
          /\ epoch' = IF lease THEN epoch ELSE epoch + 1
          /\ job' = ChainLabel(mem.step["KillSwitch"], e)
       \/ SaveFailed(Chained(mem, e)) /\ job' = Idle /\ UNCHANGED epoch
    /\ UNCHANGED <<os, pkt, lease, device, clients>>

\* The pipe keeps a startup lease when the request asked to retain one.
FinishChain ==
    /\ job.pc = "finish" /\ job.h = "begin_chain"
    /\ job' = Idle
    /\ \/ Attach([e |-> job.e, op |-> mem.op, lease |-> "startup"])
       \/ UNCHANGED <<pipes, watchdogs>>
    /\ UNCHANGED <<mem, disk, os, session, device, used, instance, faults>>

(***************************************************************************)
(* finalize_tunnel: the final network of a chain replaces the old one,     *)
(* under the guard.  The old receipts go one by one, each with a save.     *)
(***************************************************************************)
SwitchOrder == <<"DefaultRoutes", "Dns", "InterfaceConfiguration", "PacketSession">>
SwitchNext(k) ==
    \E i \in DOMAIN SwitchOrder :
        /\ k = SwitchOrder[i] /\ mem.step[k] # "Absent"
        /\ \A n \in 1..(i - 1) : mem.step[SwitchOrder[n]] = "Absent"

FinalizeTunnel(e) ==
    LET start == Run("finalize", "switch", e)
    IN  /\ Ready /\ Tunnel /\ DeviceOwner(e)
        /\ mem.plan.vpn_chain /\ ~pkt
        /\ mem.phase \in {"Prepared", "Active"}
        /\ mem.step["KillSwitch"] = "Applied" \/ mem.owner # e
        /\ \/ mem.owner = e /\ job' = start /\ UNCHANGED <<mem, disk, faults>>
           \/ /\ mem.owner # e /\ Takeover(e)
              /\ Save(OwnedBy(mem, e),
                      IF mem.step["KillSwitch"] = "Applied" THEN start ELSE Idle,
                      Idle)
        /\ UNCHANGED <<os, session, device, clients>>

\* Mutant: the receipt goes even when the old resource could not be removed.
SwitchStepAnyway ==
    /\ job.pc = "switch"
    /\ \E k \in Kinds :
         /\ SwitchNext(k) /\ job' = At("switched", k)
         /\ (os' = os \ {k} /\ NoFault) \/ (UNCHANGED os /\ Fault)
    /\ UNCHANGED <<mem, disk, session, device, clients>>

SwitchStep ==
    /\ job.pc = "switch"
    /\ \E k \in Kinds :
         /\ SwitchNext(k)
         /\ \/ os' = os \ {k} /\ NoFault /\ job' = At("switched", k)
            \/ os' \in {os, os \ {k}} /\ Fault /\ job' = Idle
    /\ UNCHANGED <<mem, disk, session, device, clients>>

SwitchRecorded ==
    /\ job.pc = "switched"
    /\ Save(Remove(mem, job.kind), Goto("switch"), Idle)
    /\ UNCHANGED <<os, session, device, clients>>

Finalized(j) == [j EXCEPT !.phase = "Prepared", !.plan.defer = FALSE]
SwitchDone ==
    /\ job.pc = "switch" /\ \A k \in Kinds : ~SwitchNext(k)
    /\ Save(Finalized(mem), Todo(job, {"InterfaceConfiguration", "Dns"}), Idle)
    /\ UNCHANGED <<os, session, device, clients>>

\* finalize_tunnel, apply_system_proxy: nothing left to record.
FinishApply ==
    /\ job.pc = "finish" /\ job.h \in {"finalize", "proxy_join", "proxy_alone"}
    /\ job' = Idle
    /\ UNCHANGED <<mem, disk, os, session, device, clients, faults>>

(***************************************************************************)
(* Packet sessions: open, close (an active tunnel keeps the step, so that  *)
(* resume_tunnel can start the pump again), resume.                        *)
(***************************************************************************)
OpenPacketSession(e) ==
    /\ Ready /\ Tunnel /\ mem.owner = e /\ DeviceOwner(e)
    /\ mem.phase = "Prepared" /\ ~mem.plan.defer
    /\ mem.step["PacketSession"] \in {"Absent", "Restored"}
    /\ mem' = IF mem.step["PacketSession"] = "Restored"
              THEN Remove(mem, "PacketSession") ELSE mem
    /\ job' = Todo(Run("open", "plan", e), {"PacketSession"})
    /\ UNCHANGED <<disk, os, session, device, clients, faults>>

FinishOpen ==
    /\ job.pc = "finish" /\ job.h = "open"
    /\ pkt' = TRUE /\ job' = Idle
    /\ UNCHANGED <<mem, disk, os, lease, epoch, device, clients, faults>>

ClosePacketSession(e) ==
    /\ Ready /\ Tunnel /\ mem.owner = e
    /\ mem.phase \in {"Prepared", "Active"}
    /\ mem.step["PacketSession"] # "Absent"
    /\ job' = Run("close", "close", e)
    /\ UNCHANGED <<mem, disk, os, session, device, clients, faults>>

StopPacketPump ==
    /\ job.pc \in {"close", "detach"}
    /\ \/ /\ os' = os \ {"PacketSession"} /\ NoFault
          /\ job' = Goto(IF job.h = "close" THEN "closed" ELSE "detached")
          /\ UNCHANGED watchdogs
       \/ /\ os' \in {os, os \ {"PacketSession"}} /\ Fault
          /\ job' = Idle
          /\ IF job.h = "release" THEN Arm(mem.op, epoch, "stale")
                                  ELSE UNCHANGED watchdogs
    /\ UNCHANGED <<mem, disk, session, device, pipes, used, instance>>

SessionClosed ==
    /\ job.pc = "closed"
    /\ pkt' = FALSE
    /\ Save(IF mem.phase = "Active" THEN mem ELSE Remove(mem, "PacketSession"),
            Idle, Idle)
    /\ UNCHANGED <<os, lease, epoch, device, clients>>

Resumed(j, e) == [j EXCEPT !.owner = e, !.inst = instance]
ResumeTunnel(e) ==
    /\ Ready /\ Tunnel /\ DeviceOwner(e)
    /\ mem.phase = "Active" /\ SameAccount(e) /\ ~pkt
    /\ mem.device # "Absent" /\ mem.step["PacketSession"] = "Applied"
    /\ Save(Resumed(mem, e), Run("resume", "resume", e), Idle)
    /\ UNCHANGED <<os, session, device, clients>>

StartPacketPump ==
    /\ job.pc = "resume"
    /\ job' = Idle
    /\ \/ /\ Device \in os /\ "PacketSession" \notin os
          /\ os' = os \cup {"PacketSession"} /\ pkt' = TRUE /\ NoFault
       \/ UNCHANGED <<os, pkt>> /\ Fault
       \/ /\ Device \notin os \/ "PacketSession" \in os
          /\ UNCHANGED <<os, pkt, faults>>
    /\ UNCHANGED <<mem, disk, lease, epoch, device, clients>>

(***************************************************************************)
(* Liveness leases of the tunnel.  A pipe holds a startup or an active     *)
(* lease; its end arms a watchdog that names the operation and the epoch.  *)
(***************************************************************************)
AcquireTunnelLease(e) ==
    LET pipe == [e |-> e, op |-> mem.op, lease |-> "active"]
    IN  /\ Ready /\ epoch < MaxEpoch
        /\ Tunnel /\ mem.owner = e /\ DeviceOwner(e)
        /\ mem.phase = "Active" /\ pkt /\ ~lease
        /\ lease' = TRUE /\ epoch' = epoch + 1
        /\ Attach(pipe)
        /\ UNCHANGED <<mem, disk, os, pkt, device, used, instance, faults, job>>

\* Mutant: the watchdog is given the epoch before the one it replaces.
StartupPipeEndsOffByOne(p) ==
    /\ Ready /\ p.lease = "startup"
    /\ pipes' = pipes \ {p}
    /\ epoch' = epoch + 1 /\ Arm(p.op, epoch - 1, "startup")
    /\ UNCHANGED <<mem, disk, os, pkt, lease, device, used, instance, faults, job>>

\* The connection that prepared the tunnel ends: release_startup_tunnel_lease.
StartupPipeEnds(p) ==
    LET orphaned == /\ mem.phase \in {"Prepared", "Active"} /\ Tunnel
                    /\ ensure_owner(p.e, p.op) /\ ~lease
    IN  /\ Ready /\ p.lease = "startup"
        /\ pipes' = pipes \ {p}
        /\ IF orphaned THEN epoch' = epoch + 1 /\ Arm(p.op, epoch + 1, "startup")
                       ELSE UNCHANGED <<epoch, watchdogs>>
        /\ UNCHANGED <<mem, disk, os, pkt, lease, device, used, instance,
                       faults, job>>

\* The connection with the active lease ends: release_tunnel_lease.
ActivePipeEnds(p) ==
    LET orphaned == /\ mem.phase \in {"Prepared", "Active"} /\ Tunnel
                    /\ ensure_owner(p.e, p.op) /\ lease
    IN  /\ Ready /\ p.lease = "active"
        /\ pipes' = pipes \ {p}
        /\ job' = IF ~orphaned THEN Idle
                  ELSE Run("release", IF pkt THEN "detach" ELSE "detached", p.e)
        /\ UNCHANGED <<mem, disk, os, session, device, watchdogs, used,
                       instance, faults>>

\* A failed save makes the service run recover_stale instead.
LeaseReleased ==
    /\ job.pc = "detached"
    /\ pkt' = FALSE /\ lease' = FALSE /\ job' = Idle
    /\ \/ /\ Saved(mem) /\ epoch' = epoch + 1
          /\ Arm(mem.op, epoch + 1, "active")
       \/ /\ SaveFailed(mem) /\ UNCHANGED epoch
          /\ Arm(mem.op, epoch, "stale")
    /\ UNCHANGED <<os, device, pipes, used, instance>>

\* recover_orphaned_startup_tunnel and recover_orphaned_tunnel, after the
\* grace period; recover_stale for a lease that could not be released.
Orphaned(w) ==
    CASE w.lease = "stale" -> mem.phase # "Clean"
      [] OTHER -> /\ mem.phase \in {"Prepared", "Active"} /\ Tunnel
                  /\ mem.op = w.op /\ ~lease /\ epoch = w.epoch
                  /\ w.lease = "active" => ~pkt

WatchdogFires(w) ==
    /\ Ready
    /\ watchdogs' = watchdogs \ {w}
    /\ job' = IF Orphaned(w) THEN Run("recover", "recover", None) ELSE Idle
    /\ UNCHANGED <<mem, disk, os, session, device, pipes, used, instance, faults>>

(***************************************************************************)
(* commit: the blocking policy, then the default routes, then Active.      *)
(***************************************************************************)
CommitKinds ==
    {k \in {"KillSwitch", "DefaultRoutes"} :
        /\ mem.step[k] # "Applied"
        /\ k = "KillSwitch" => Guarded(mem.plan)}

Commit(e) ==
    /\ Ready /\ Tunnel /\ mem.owner = e /\ DeviceOwner(e)
    /\ mem.phase = "Prepared" /\ ~mem.plan.defer
    /\ \A k \in {"PacketSession", "EndpointBypass", "InterfaceConfiguration",
                 "Dns"} : mem.step[k] = "Applied"
    /\ job' = Todo(Run("commit", "plan", e), CommitKinds)
    /\ UNCHANGED <<mem, disk, os, session, device, clients, faults>>

FinishCommit ==
    /\ job.pc = "finish" /\ job.h = "commit"
    /\ Save(InPhase(mem, "Active"), Idle, ApplyFailed)
    /\ UNCHANGED <<os, session, device, clients>>

(***************************************************************************)
(* Requests that recover: rollback by the owner, Recover by anyone         *)
(* authenticated, and the retries of a transaction that needs recovery     *)
(* (recover_orphaned by its account, recover_automatic by the service).    *)
(***************************************************************************)
Rollback(e) ==
    /\ Ready /\ mem.owner = e /\ mem.phase # "Clean"
    /\ job' = Run("recover", "recover", e)
    /\ UNCHANGED <<mem, disk, os, session, device, clients, faults>>

RecoverStale ==
    /\ Ready /\ mem.phase # "Clean"
    /\ job' = Run("recover", "recover", None)
    /\ UNCHANGED <<mem, disk, os, session, device, clients, faults>>

RecoverAutomatic ==
    /\ Ready /\ mem.phase = "RecoveryRequired" /\ ~pkt /\ ~lease
    /\ job' = Run("recover", "recover", None)
    /\ UNCHANGED <<mem, disk, os, session, device, clients, faults>>

RecoverOrphaned(e) ==
    /\ Ready /\ mem.phase = "RecoveryRequired" /\ SameAccount(e) /\ ~pkt /\ ~lease
    /\ job' = Run("recover", "recover", e)
    /\ UNCHANGED <<mem, disk, os, session, device, clients, faults>>

(***************************************************************************)
(* recover_locked_with_egress and restore_steps_locked.  A failed save     *)
(* never stops the cleanup.  The packet pump stops first, then the policy  *)
(* goes, then the rest in reverse order; a pump that does not stop ends    *)
(* the pass and leaves the policy in place.                                *)
(***************************************************************************)
Failures(S) == [job EXCEPT !.pc = "restore", !.failed = S]
BeginRecovery ==
    /\ job.pc = "recover"
    /\ lease' = FALSE /\ epoch' = epoch + 1
    /\ Save(InPhase(mem, "Recovering"), Failures({}), Failures({}))
    /\ UNCHANGED <<os, pkt, device, clients>>

Pending == {k \in Kinds : mem.step[k] \in Unresolved} \ job.failed
\* Mutant: the policy goes first.
NextRestorePolicyFirst(k) ==
    /\ k \in Pending
    /\ "KillSwitch" \in Pending => k = "KillSwitch"
    /\ "KillSwitch" \notin Pending /\ "PacketSession" \in Pending => k = "PacketSession"
    /\ Pending \cap {"PacketSession", "KillSwitch"} = {} =>
          \A x \in Pending : Position(mem, x) <= Position(mem, k)

NextRestore(k) ==
    /\ k \in Pending
    /\ "PacketSession" \in Pending => k = "PacketSession"
    /\ "PacketSession" \notin Pending /\ "KillSwitch" \in Pending => k = "KillSwitch"
    /\ Pending \cap {"PacketSession", "KillSwitch"} = {} =>
          \A x \in Pending : Position(mem, x) <= Position(mem, k)

RestoreFailed(k) ==
    [job EXCEPT !.failed = @ \cup {k},
                !.pc = IF k = "PacketSession" THEN "required" ELSE "restore"]

RestoreStep ==
    /\ job.pc = "restore"
    /\ \E k \in Kinds :
         /\ NextRestore(k)
         /\ IF pkt /\ k # "PacketSession"            \* still attached
            THEN job' = Goto("required") /\ UNCHANGED <<os, faults>>
            ELSE \/ os' = os \ {k} /\ NoFault /\ job' = At("mark", k)
                 \/ /\ os' \in {os, os \ {k}} /\ Fault
                    /\ job' = RestoreFailed(k)
    /\ UNCHANGED <<mem, disk, session, device, clients>>

MarkRestored ==
    /\ job.pc = "mark"
    /\ pkt' = (pkt /\ job.kind # "PacketSession")
    /\ Save(Mark(mem, job.kind, "Restored"), Goto("restore"),
            Failures(job.failed \cup {Persist}))
    /\ UNCHANGED <<os, lease, epoch, device, clients>>

\* Mutant: failures of single steps are forgotten at the end of the pass.
RestoreEndedForgetful ==
    /\ job.pc = "restore" /\ Pending = {}
    /\ job' = Goto("clean")
    /\ UNCHANGED <<mem, disk, os, session, device, clients, faults>>

RestoreEnded ==
    /\ job.pc = "restore" /\ Pending = {}
    /\ job' = Goto(IF job.failed = {} /\ ~pkt THEN "clean" ELSE "required")
    /\ UNCHANGED <<mem, disk, os, session, device, clients, faults>>

\* Mutant: memory says Clean even though the save failed.
PublishCleanEarly ==
    LET clean == Disconnected(mem)
    IN  /\ job.pc = "clean" /\ Save(clean, Done, Done)
        /\ UNCHANGED <<os, session, device, clients>>

\* Clean is published in memory only once it is durable.  A device whose
\* owner is gone is retired in the same pass.
PublishClean ==
    LET clean == Disconnected(mem)
    IN  /\ job.pc = "clean"
        /\ \/ /\ Saved(clean)
              /\ job' = IF clean.device # "Absent" /\ ~devLease.attached
                        THEN Goto("retire") ELSE Done
           \/ UNCHANGED <<mem, disk>> /\ Fault /\ job' = Goto("required")
        /\ UNCHANGED <<os, session, device, clients>>

RequireRecovery ==
    /\ job.pc = "required"
    /\ Save(InPhase(mem, "RecoveryRequired"), Done, Done)
    /\ UNCHANGED <<os, session, device, clients>>

(***************************************************************************)
(* retire_device_locked.  The intent is durable before the native removal; *)
(* the outcome is remembered, so a failed save never starts a second       *)
(* removal.  A removal that times out is left running in a worker.  The    *)
(* early return for a busy journal has no disjunct: no caller reaches it.  *)
(***************************************************************************)
RetireDevice ==
    LET retiring == WithDevice(mem, "Retiring")
    IN  /\ job.pc = "retire"
        /\ \/ /\ retire.deferred \/ mem.device = "Absent"
              /\ job' = Done /\ UNCHANGED <<mem, disk, faults, retire>>
           \/ /\ ~retire.deferred /\ mem.device # "Absent"
              /\ mem.phase = "Clean" /\ ~pkt
              /\ \/ /\ retire.result # None /\ job' = Goto("retired")
                    /\ UNCHANGED <<mem, disk, faults, retire>>
                 \/ /\ retire.result = None /\ Saved(retiring)
                    /\ retire' = [retire EXCEPT !.retry_pending = FALSE,
                                                !.result = "Deferred"]
                    /\ job' = Goto("remove")
                 \/ /\ retire.result = None /\ SaveFailed(retiring)
                    /\ retire' = [retire EXCEPT !.retry_pending = TRUE]
                    /\ job' = Done
        /\ UNCHANGED <<os, session, devLease, devTimers, clients>>

RemoveDevice ==
    /\ job.pc = "remove"
    /\ job' = Goto("retired")
    /\ \/ /\ os' = os \ {Device} /\ NoFault
          /\ retire' = [retire EXCEPT !.result = "Complete"]
       \/ os' \in {os, os \ {Device}} /\ UNCHANGED retire /\ Fault
       \/ /\ UNCHANGED os /\ Fault                       \* timed out
          /\ retire' = [retire EXCEPT !.worker = TRUE]
    /\ UNCHANGED <<mem, disk, session, devLease, devTimers, clients>>

\* Mutant: a device whose removal is pending goes back to Idle.
RecordRetirementIdle ==
    /\ job.pc = "retired" /\ job' = Done
    /\ Saved(WithDevice(mem, "Idle")) /\ UNCHANGED retire
    /\ UNCHANGED <<os, session, devLease, devTimers, clients>>

RecordRetirement ==
    LET pending == WithDevice(mem, "RecoveryRequired")
        saved == [retire EXCEPT !.retry_pending = FALSE]
    IN  /\ job.pc = "retired"
        /\ job' = Done
        /\ \/ /\ retire.result = "Deferred" /\ Saved(pending)
              /\ retire' = [saved EXCEPT !.deferred = TRUE]
           \/ /\ retire.result = "Complete" /\ Saved(CleanJournal)
              /\ retire' = saved
           \/ /\ SaveFailed(pending)
              /\ retire' = [retire EXCEPT !.retry_pending = TRUE]
        /\ UNCHANGED <<os, session, devLease, devTimers, clients>>

\* The worker of a timed-out removal finishes on its own, under no lock.
WorkerFinishes ==
    /\ retire.worker
    /\ os' = os \ {Device}
    /\ retire' = [retire EXCEPT !.worker = FALSE]
    /\ UNCHANGED <<mem, disk, session, devLease, devTimers, clients, faults, job>>

\* Mutant: only a failed intent save is retried, not a failed outcome save.
RetryRetirementIntentOnly ==
    /\ Ready /\ retire.retry_pending /\ mem.device = "Retiring"
    /\ mem.phase = "Clean" /\ ~devLease.attached
    /\ job' = Run("retire", "retire", None)
    /\ UNCHANGED <<mem, disk, os, session, device, clients, faults>>

\* The service retries a retirement whose save failed.
RetryRetirement ==
    /\ Ready /\ retire.retry_pending
    /\ mem.phase = "Clean" /\ ~devLease.attached
    /\ job' = Run("retire", "retire", None)
    /\ UNCHANGED <<mem, disk, os, session, device, clients, faults>>

(***************************************************************************)
(* The device lease: one owner at a time, independent of any tunnel.       *)
(***************************************************************************)
AcquireDeviceLease(e) ==
    /\ Ready /\ devLease.key < MaxLeases /\ ~devLease.attached
    /\ mem.device # "Absent" =>
          /\ mem.sid = Account[e]
          /\ \/ mem.device = "Idle" /\ mem.inst = instance
             \/ mem.device = "InUse" /\ mem.phase = "Active"
    /\ mem.phase \in {"Clean", "Active"}
    /\ mem.phase = "Active" => ~pkt /\ ~lease
    /\ devLease' = [e |-> e, key |-> devLease.key + 1, attached |-> TRUE]
    /\ retire' = [NoRetirement EXCEPT !.worker = retire.worker]
    /\ UNCHANGED <<mem, disk, os, session, devTimers, clients, faults, job>>

\* Mutant: no orphan timer is armed when the pipe of the lease ends.
DevicePipeEndsUnwatched ==
    /\ devLease.attached
    /\ devLease' = [devLease EXCEPT !.attached = FALSE]
    /\ UNCHANGED <<mem, disk, os, session, devTimers, retire, clients, faults, job>>

\* The pipe of the lease ends: detach_device_lease takes no journal lock, so
\* it falls between any two steps of a running handler.
DevicePipeEnds ==
    /\ devLease.attached
    /\ devLease' = [devLease EXCEPT !.attached = FALSE]
    /\ devTimers' = devTimers \cup {devLease.key}
    /\ UNCHANGED <<mem, disk, os, session, retire, clients, faults, job>>

CleanUp(h, e) ==
    Run(h, IF mem.phase = "Clean" THEN "retire" ELSE "recover", e)

ReleaseDeviceLease(e) ==
    /\ Ready /\ require_device_owner(e)
    /\ devLease' = [devLease EXCEPT !.attached = FALSE]
    /\ job' = CleanUp("retire", e)
    /\ UNCHANGED <<mem, disk, os, session, devTimers, retire, clients, faults>>

\* Mutant: the timer does not compare its key with the current lease.
DeviceTimerFiresAnyLease(key) ==
    /\ Ready
    /\ devTimers' = devTimers \ {key}
    /\ job' = CleanUp("retire", None)
    /\ UNCHANGED <<mem, disk, os, session, devLease, retire, clients, faults>>

\* retire_orphaned_device: the timer of an older lease does nothing.
DeviceTimerFires(key) ==
    /\ Ready
    /\ devTimers' = devTimers \ {key}
    /\ job' = IF devLease.key = key /\ ~devLease.attached
              THEN CleanUp("retire", None) ELSE Idle
    /\ UNCHANGED <<mem, disk, os, session, devLease, retire, clients, faults>>

(***************************************************************************)
(* The system proxy: joined to an active tunnel, or a transaction alone.   *)
(***************************************************************************)
JoinSystemProxy(e) ==
    /\ Ready /\ Tunnel /\ mem.phase = "Active" /\ mem.owner = e /\ DeviceOwner(e)
    /\ mem.step["SystemProxy"] = "Absent"
    /\ job' = Todo(Run("proxy_join", "plan", e), {"SystemProxy"})
    /\ UNCHANGED <<mem, disk, os, session, device, clients, faults>>

ProxyBegun(j, op, e) ==
    [j EXCEPT !.phase = "Preparing", !.kind = "SystemProxy", !.op = op, !.owner = e]
StartSystemProxy(e, op) ==
    /\ Ready /\ op \notin used /\ used' = used \cup {op}
    /\ mem.phase = "Clean"
    /\ mem.device # "Absent" =>
          /\ require_device_owner(e)
          /\ mem.device = "Idle" /\ mem.inst = instance
    /\ Save(ProxyBegun(mem, op, e),
            Todo(Run("proxy_alone", "plan", e), {"SystemProxy"}), Idle)
    /\ UNCHANGED <<os, session, device, watchdogs, pipes, instance>>

RestoreSystemProxy(e) ==
    /\ Ready /\ mem.owner = e
    /\ \/ /\ Tunnel /\ mem.phase = "Active" /\ mem.step["SystemProxy"] # "Absent"
          /\ job' = Run("proxy_restore", "proxy_undo", e)
       \/ mem.kind = "SystemProxy" /\ job' = Run("recover", "recover", e)
    /\ UNCHANGED <<mem, disk, os, session, device, clients, faults>>

\* Mutant: the step is dropped even when the proxy could not be restored.
UndoSystemProxyAnyway ==
    /\ job.pc = "proxy_undo"
    /\ \/ os' = os \ {"SystemProxy"} /\ NoFault
       \/ UNCHANGED os /\ Fault
    /\ job' = Goto("proxy_undone")
    /\ UNCHANGED <<mem, disk, session, device, clients>>

\* restore_system_proxy_step: three attempts, then the step stays recorded.
UndoSystemProxy ==
    /\ job.pc = "proxy_undo"
    /\ \/ os' = os \ {"SystemProxy"} /\ job' = Goto("proxy_undone") /\ NoFault
       \/ os' \in {os, os \ {"SystemProxy"}} /\ job' = Idle /\ Fault
    /\ UNCHANGED <<mem, disk, session, device, clients>>

SystemProxyUndone ==
    /\ job.pc = "proxy_undone"
    /\ Save(Remove(mem, "SystemProxy"), Idle, Idle)
    /\ UNCHANGED <<os, session, device, clients>>

(***************************************************************************)
(* The Agent process ends, at any point: everything volatile is lost, and  *)
(* a new process starts from the journal file.  The packet pump and the    *)
(* filters of a chain without Kill Switch belong to the process; what is   *)
(* bound to the adapter does not survive a reboot of Windows.              *)
(***************************************************************************)
ProcessLocal ==
    {"PacketSession"} \cup (IF disk.plan.kill_switch THEN {} ELSE {"KillSwitch"})
AdapterBound == Configured \cup {Device}

Restart(lost) ==
    /\ instance < MaxRestarts /\ instance' = instance + 1
    /\ mem' = disk /\ os' = os \ lost
    /\ pkt' = FALSE /\ lease' = FALSE /\ epoch' = 0
    /\ devLease' = NoLease /\ devTimers' = {} /\ retire' = NoRetirement
    /\ watchdogs' = {} /\ pipes' = {}
    /\ job' = Run("boot", "boot", None)
    /\ UNCHANGED <<disk, used, faults>>

Crash == Restart(ProcessLocal)
Reboot == Restart(ProcessLocal \cup AdapterBound)

\* wait_for_idle_exit with may_exit_idle.
IdleExit ==
    /\ Ready /\ ~devLease.attached /\ pipes = {} /\ watchdogs = {} /\ devTimers = {}
    /\ mem.phase = "Clean" /\ (mem.device = "Absent" \/ retire.deferred)
    /\ Restart(ProcessLocal)

\* recover_for_process_exit: no lease is honoured and no request follows.
Shutdown ==
    /\ Ready /\ instance < MaxRestarts
    /\ devLease' = [devLease EXCEPT !.attached = FALSE]
    /\ job' = CleanUp("shutdown", None)
    /\ UNCHANGED <<mem, disk, os, session, devTimers, retire, clients, faults>>

(***************************************************************************)
(* Startup (main.rs): reconcile a recovery whose last save failed, then    *)
(* recover what was interrupted, keep an active tunnel that is still all   *)
(* there, and leave a failed recovery to its retries.                      *)
(***************************************************************************)
AllRestored(j) == \A k \in Kinds : j.step[k] \notin Unresolved

Reconciled ==
    /\ mem.phase = "RecoveryRequired" /\ AllRestored(mem)
    /\ \/ Saved(Disconnected(mem)) /\ job' = Goto("boot_retire")
       \/ /\ UNCHANGED <<mem, disk>> /\ Fault
          /\ job' = Goto(IF Tunnel THEN "boot_retire" ELSE "recover")
    /\ UNCHANGED watchdogs

\* Mutant: an Active journal is believed without inspecting Windows.
RetainActiveUninspected ==
    /\ Tunnel /\ mem.phase = "Active"
    /\ job' = Goto("boot_retire") /\ Arm(mem.op, 0, "active")
    /\ UNCHANGED <<mem, disk, faults>>

RetainActive ==
    /\ Tunnel /\ mem.phase = "Active"
    /\ \/ /\ Reattachable
          /\ job' = Goto("boot_retire") /\ Arm(mem.op, 0, "active")
          /\ UNCHANGED <<mem, disk, faults>>
       \/ /\ ~Reattachable
          /\ job' = Goto("recover") /\ UNCHANGED <<mem, disk, faults, watchdogs>>
       \/ /\ Fault                                  \* inspection failed
          /\ mem' = InPhase(mem, "RecoveryRequired")
          /\ disk' \in {mem', disk}
          /\ job' = Goto("boot_retire") /\ UNCHANGED watchdogs

Interrupted ==
    \/ mem.phase \in {"Preparing", "Prepared", "Recovering"}
    \/ mem.phase = "Active" /\ ~Tunnel
    \/ mem.phase = "RecoveryRequired" /\ ~Tunnel /\ ~AllRestored(mem)

Quarantined ==
    \/ mem.phase = "Clean"
    \/ mem.phase = "RecoveryRequired" /\ Tunnel /\ ~AllRestored(mem)

Boot ==
    /\ job.pc = "boot"
    /\ \/ Reconciled
       \/ RetainActive
       \/ /\ Interrupted /\ job' = Goto("recover")
          /\ UNCHANGED <<mem, disk, faults, watchdogs>>
       \/ /\ Quarantined /\ job' = Goto("boot_retire")
          /\ UNCHANGED <<mem, disk, faults, watchdogs>>
    /\ UNCHANGED <<os, session, device, pipes, used, instance>>

BootRetire ==
    /\ job.pc = "boot_retire"
    /\ job' = IF /\ mem.phase = "Clean" /\ mem.device # "Absent"
                 /\ ~pkt /\ ~devLease.attached
              THEN Run("boot_retire", "retire", None) ELSE Idle
    /\ UNCHANGED <<mem, disk, os, session, device, clients, faults>>

(***************************************************************************)
(* The families of `Requests' choose what a model instance explores.       *)
(***************************************************************************)
TunnelRequest(e) ==
    \/ \E op \in Operations, plan \in Plans : PrepareManaged(e, op, plan)
    \/ OpenPacketSession(e) \/ Commit(e) \/ Rollback(e)
    \/ AcquireDeviceLease(e) \/ ReleaseDeviceLease(e)

LeaseRequest(e) ==
    \/ ClosePacketSession(e) \/ ResumeTunnel(e) \/ AcquireTunnelLease(e)

ChainRequest(e) == BeginChainTransition(e) \/ FinalizeTunnel(e)

ProxyRequest(e) ==
    \/ mem.plan \in ProxyPlans /\ JoinSystemProxy(e)
    \/ RestoreSystemProxy(e)
    \/ \E op \in Operations : StartSystemProxy(e, op)

RecoveryRequest ==
    RecoverStale \/ RecoverAutomatic \/ \E e \in Engines : RecoverOrphaned(e)

Request ==
    \E e \in Engines :
        \/ TunnelRequest(e)
        \/ "lease" \in Requests /\ LeaseRequest(e)
        \/ "chain" \in Requests /\ ChainRequest(e)
        \/ "proxy" \in Requests /\ ProxyRequest(e)

\* Ends of pipes and timers: nothing in the Agent decides when they come.
Event ==
    \/ \E p \in pipes : StartupPipeEnds(p) \/ ActivePipeEnds(p)
    \/ DevicePipeEnds
    \/ \E w \in watchdogs : WatchdogFires(w)
    \/ \E key \in devTimers : DeviceTimerFires(key)
    \/ RetryRetirement \/ WorkerFinishes
    \/ "recover" \in Requests /\ RecoveryRequest

\* The handler that holds the journal mutex takes its next step.
HandlerStep ==
    \/ PlanStep \/ ApplyStep \/ RecordApplied
    \/ CreateDevice \/ DeviceCreated \/ CreateFailed \/ BeginTransaction
    \/ FinishPrepare \/ FinishChain \/ FinishApply \/ FinishOpen \/ FinishCommit
    \/ SwitchStep \/ SwitchRecorded \/ SwitchDone
    \/ StopPacketPump \/ SessionClosed \/ StartPacketPump \/ LeaseReleased
    \/ BeginRecovery \/ RestoreStep \/ MarkRestored \/ RestoreEnded
    \/ PublishClean \/ RequireRecovery
    \/ RetireDevice \/ RemoveDevice \/ RecordRetirement
    \/ UndoSystemProxy \/ SystemProxyUndone
    \/ Boot \/ BootRetire

ProcessEnd ==
    \/ "crash" \in Requests /\ Crash
    \/ "reboot" \in Requests /\ Reboot
    \/ "exit" \in Requests /\ (IdleExit \/ Shutdown)

\* No handler runs: the Agent may wait for ever.
Wait == job.pc \in {"idle", "halted"} /\ UNCHANGED vars

Next == Request \/ Event \/ HandlerStep \/ ProcessEnd \/ Wait

Spec == Init /\ [][Next]_vars
=============================================================================
