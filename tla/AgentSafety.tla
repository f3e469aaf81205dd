----------------------------- MODULE AgentSafety -----------------------------
(***************************************************************************)
(* What the Agent's coordinator promises about the host, whatever fails    *)
(* and whenever its process ends.                                          *)
(***************************************************************************)
EXTENDS AgentCoordinator

Job == [h : Handlers, pc : Labels, e : Engines \cup {None},
        op : Operations \cup {None}, plan : AllPlans, todo : SUBSET Kinds,
        kind : Kinds \cup {None}, failed : SUBSET (Kinds \cup {Persist})]
DeviceLease == [e : Engines \cup {None}, key : Nat, attached : BOOLEAN]
Retirement == [deferred : BOOLEAN, result : {None, "Complete", "Deferred"},
               retry_pending : BOOLEAN, worker : BOOLEAN]
Watchdog == [op : Operations \cup {None}, epoch : Nat,
             lease : {"startup", "active", "stale"}, superseded : BOOLEAN]
Pipe == [e : Engines \cup {None}, op : Operations \cup {None},
         lease : {"startup", "active"}]

\* Every variable stays in its type.
TypeOK ==
    /\ mem \in Journal /\ disk \in Journal /\ os \subseteq Effects
    /\ pkt \in BOOLEAN /\ lease \in BOOLEAN /\ epoch \in Nat
    /\ devLease \in DeviceLease /\ devTimers \subseteq Nat
    /\ retire \in Retirement
    /\ watchdogs \subseteq Watchdog /\ pipes \subseteq Pipe
    /\ used \subseteq Operations /\ instance \in Nat /\ faults \in Nat
    /\ job \in Job

\* Journal j accounts for every effect in the set S: each ordinary effect has
\* a step that recovery still restores, and a device has a record.
Covers(j, S) ==
    /\ \A k \in S \cap Kinds : j.step[k] \in Unresolved
    /\ Device \in S => j.device # "Absent"

\* INV-PLATFORM-STATE-RESTORED: no privileged effect is ever present in
\* Windows without a durable record that makes the next Agent process undo
\* it, wherever a save failed or the process ended (apply_new_step,
\* restore_steps_locked, prepare_managed, retire_device_locked).
DurablyCovered == Covers(disk, os)

\* "Publish Clean only after durable replacement succeeds": a journal that
\* admits a new Prepare is clean on disk too, so that an in-memory Clean is
\* never contradicted by what the next process loads.
CleanIsDurable == mem.phase = "Clean" => disk.phase = "Clean"

\* The blocking policy is due: always with Kill Switch, for a chain from its
\* preparation on.  A live tunnel without it that becomes a chain gets the
\* guard while it carries packets ("Once installed, the guard stays for this
\* operation", begin_chain_transition): due once it is installed.
PolicyDue(j) ==
    \/ j.plan.kill_switch
    \/ /\ j.plan.vpn_chain
       /\ j.step["KillSwitch"] = "Applied" \/ j.phase \in {"Preparing", "Prepared"}

\* INV-KILLSWITCH-FAIL-CLOSED: while the packet pump runs and the default
\* routes lead into the tunnel, the blocking policy is in place if it is due,
\* through commit, recovery, its failures and restarts, and when a retained
\* chain is finalized and committed again.
FlowsBehindKillSwitch ==
    /\ {"PacketSession", "DefaultRoutes"} \subseteq os
    /\ PolicyDue(mem)
    => "KillSwitch" \in os

\* A tunnel that the Agent offers (nothing is running, and it is Prepared or
\* Active) really has the blocking policy that its plan or its journal claims,
\* even when the journal is left over from a recovery that removed the policy
\* and could not save anything before the Agent died: startup inspection
\* (inspect_startup_tunnel) must catch it.
ActiveIsProtected ==
    /\ Ready /\ Tunnel
    /\ \/ mem.phase = "Active" /\ mem.plan.kill_switch
       \/ mem.phase \in {"Prepared", "Active"} /\ mem.step["KillSwitch"] = "Applied"
    => "KillSwitch" \in os

\* The kill switch fails closed, for the packets of this Agent process and for
\* the tunnel that the next one offers.
KillSwitchFailsClosed == FlowsBehindKillSwitch /\ ActiveIsProtected

\* INV-OLD-PATH-QUIESCED: a running Agent removes the blocking policy only
\* once the packet pump has stopped (restore_steps_locked returns early when
\* the pump does not stop).
PumpStopsBeforePolicy ==
    [][ "KillSwitch" \in os \ os' /\ instance' = instance
        => "PacketSession" \notin os ]_vars

\* "The operation ID and epoch prevent stale watchdogs from rolling back a
\* newer transaction": an orphan watchdog that was armed before a pipe took
\* a lease on the operation never starts a recovery.
LaterLeaseDisarms ==
    [][ \A w \in watchdogs : w.superseded /\ w.lease # "stale" =>
            ~(WatchdogFires(w) /\ job'.pc = "recover") ]_vars

\* A device is never removed under an attached owner ("A stale EOF timer must
\* never retire a newer owner's device"), not even by a removal that timed
\* out and finishes late.
OwnersDeviceStays ==
    [][ (Device \in os \ os') => ~(devLease'.attached) ]_vars

\* A device whose removal may still be running is never offered for use.
NoReuseDuringRemoval ==
    retire.worker => mem.device \notin {"Creating", "Idle", "InUse"}

\* No handler ever tries to save a journal that RecoveryJournal::validate
\* refuses (Saved leaves the validation out, so that this is a question): the
\* save would fail for ever, and an Agent that cannot load its journal cannot
\* recover the host.
JournalLoads == ValidJournal(disk)

(***************************************************************************)
(* The inductive invariant behind the theorems of AgentProofs.  Memory     *)
(* covers the host as well as the disk does, because the next save copies  *)
(* memory to disk; and each label says what the handler knows there.       *)
(***************************************************************************)
Empty(j) ==
    j.phase = "Clean" => j.kind = None /\ \A k \in Kinds : j.step[k] = "Absent"

\* Both copies of the journal account for every effect, and a clean one has
\* no transaction and no step.
Recorded ==
    /\ Covers(mem, os) /\ Covers(disk, os)
    /\ Empty(mem) /\ Empty(disk)

\* The effect a handler is about to create is recorded in both copies.
Intent ==
    /\ job.pc \in {"apply", "applied", "mark", "switched"} => job.kind \in Kinds
    /\ job.pc \in {"apply", "applied"} => mem.step[job.kind] \in Unresolved
    /\ job.pc = "apply" => disk.step[job.kind] \in Unresolved
    /\ job.pc = "resume" => /\ mem.step["PacketSession"] \in Unresolved
                            /\ disk.step["PacketSession"] \in Unresolved
    /\ job.pc = "create" => mem.device # "Absent" /\ disk.device # "Absent"

\* The effect a handler is about to forget is gone.
Gone ==
    /\ job.pc \in {"mark", "switched"} => job.kind \notin os
    /\ job.pc = "closed" => "PacketSession" \notin os
    /\ job.pc = "proxy_undone" => "SystemProxy" \notin os
    /\ job.pc = "clean" => AllRestored(mem)
    /\ job.pc \in {"restore", "mark"} => "PacketSession" \notin job.failed

\* A handler that prepares or retires the device works on a clean journal, one
\* that applies or restores steps does not.
OnClean ==
    /\ job.pc \in {"create", "created", "create_failed", "begin", "remove", "retired"}
       => mem.phase = "Clean"
    /\ job.pc \in {"plan", "restore", "mark"} => mem.phase # "Clean"

\* The device is being retired, or its removal has an outcome: no owner.
Retired ==
    /\ job.pc \in {"retire", "remove", "retired"} => ~devLease.attached
    /\ retire.result # None => ~devLease.attached
    /\ retire.result = "Complete" => Device \notin os
    /\ job.pc \in {"create", "created", "create_failed", "begin"} => retire.result = None
    /\ job.pc = "remove" => /\ retire.result = "Deferred" /\ ~retire.worker
                            /\ mem.device = "Retiring"
    /\ retire.worker => /\ retire.result = "Deferred" /\ mem.phase = "Clean"
                        /\ mem.device \in {"Retiring", "RecoveryRequired"}
                        /\ job.pc \in {"idle", "retire", "retired",
                                      "boot_retire", "halted"}

IInv == /\ TypeOK /\ Recorded /\ CleanIsDurable
        /\ Intent /\ Gone /\ OnClean /\ Retired

(***************************************************************************)
(* Progress.  A handler runs to its end (its backend calls and saves       *)
(* return).  Timers fire after their delay and then queue for the journal  *)
(* mutex, which tokio hands out in FIFO order, so a timer that is enabled  *)
(* again and again is served.  No failure and no request is fair.          *)
(***************************************************************************)
Fairness ==
    /\ WF_vars(HandlerStep)
    /\ SF_vars(\E key \in devTimers : DeviceTimerFires(key))
    /\ SF_vars(\E w \in watchdogs : WatchdogFires(w))
    /\ WF_vars(RetryRetirement)

FairSpec == Spec /\ Fairness

\* INV-KILLSWITCH-FAIL-CLOSED, INV-PLATFORM-STATE-RESTORED: a tunnel whose
\* device owner is gone does not stay up for ever.  Someone takes the device
\* again, or recovery ends, clean or visibly incomplete.
OrphanSettles ==
    ~devLease.attached /\ Tunnel /\ mem.phase # "Clean"
    ~> mem.phase \in {"Clean", "RecoveryRequired"} \/ devLease.attached

\* A retirement whose save failed is retried until it is recorded, without an
\* Engine asking for it (retry_device_retirement_persistence).
RetirementSettles == retire.retry_pending ~> ~retire.retry_pending

\* Neither a tunnel nor a device is left to itself when its Engine is gone.
DevicesSettle == OrphanSettles /\ RetirementSettles
=============================================================================
