---------------------------- MODULE AgentJournal ----------------------------
(***************************************************************************)
(* The state of the privileged Usque Agent (crates/usque-agent): the       *)
(* recovery journal in memory and on disk, the operating-system effects it *)
(* accounts for, the volatile leases, and the one handler that holds the   *)
(* journal mutex.  Handlers are small-step: one action per journal save or *)
(* backend call, because a crash or an error may fall between any two.     *)
(*                                                                         *)
(* A generation number is not kept: within one process it only grows, so   *)
(* "expected_generation still matches" is "nothing was saved since", which *)
(* a request either satisfies or is refused without effect.                *)
(***************************************************************************)
EXTENDS Naturals, Sequences, FiniteSets

CONSTANTS
    Operations,   \* operation ids the Engines draw from, each used once
    Engines,      \* authenticated Engine processes (process ids)
    Account,      \* Account[e] is the user SID that engine e runs as
    Plans,        \* tunnel plans the Engines ask for
    ProxyPlans,   \* bound on inputs: the plans whose tunnel a proxy joins
    Requests,     \* the families of requests and faults of this instance
    MaxFaults,    \* bound on failed saves and failed backend calls
    MaxRestarts,  \* bound on Agent process exits (crash, reboot, idle exit)
    MaxEpoch,     \* bound on the lease epoch at which a request may start
    MaxLeases     \* bound on device leases granted by one Agent process

Kinds == {"WfpMetadata", "EndpointBypass", "KillSwitch",
          "InterfaceConfiguration", "Dns", "PacketSession",
          "DefaultRoutes", "SystemProxy"}

Device == "Device"                  \* the managed Wintun device, kept apart
Effects == Kinds \cup {Device}      \* from the ordinary steps of a journal

Phases == {"Clean", "Preparing", "Prepared", "Active", "Recovering",
           "RecoveryRequired"}
StepStates == {"Absent", "Intended", "Applied", "Restored"}
Unresolved == {"Intended", "Applied"}
DeviceStates == {"Absent", "Creating", "Idle", "InUse", "Retiring",
                 "RecoveryRequired"}
AllPlans == [kill_switch : BOOLEAN, vpn_chain : BOOLEAN,
             defer : BOOLEAN, endpoint_policy : BOOLEAN]
Accounts == {Account[e] : e \in Engines}

NoPlan == [kill_switch |-> FALSE, vpn_chain |-> FALSE,
           defer |-> FALSE, endpoint_policy |-> FALSE]
None == "none"

ASSUME ConstantsAssumption ==
    /\ None \notin Operations \cup Engines \cup Accounts
    /\ \A p \in Plans : p \in AllPlans /\ (p.defer => p.vpn_chain)
    /\ {MaxFaults, MaxRestarts, MaxEpoch, MaxLeases} \subseteq Nat

VARIABLES
    mem,        \* journal: the RecoveryJournal behind the coordinator's mutex
    disk,       \* the journal file, replaced atomically by JournalStore::save
    os,         \* the privileged effects present in Windows
    pkt,        \* packet_session_attached
    lease,      \* tunnel_lease_attached
    epoch,      \* tunnel_lease_epoch
    devLease,   \* device_lease: holder, key and whether it is attached
    devTimers,  \* keys whose pipe ended and whose orphan timer is armed
    retire,     \* device_retirement_{deferred,result,retry_pending}, worker
    watchdogs,  \* armed orphan watchdogs of tunnel leases
    pipes,      \* connected pipes that hold a startup or an active lease
    used,       \* operation ids already drawn
    instance,   \* agent_instance: the number of this Agent process
    faults,     \* failures injected so far
    job         \* the handler holding the journal mutex, and where it is

vars == <<mem, disk, os, pkt, lease, epoch, devLease, devTimers, retire,
          watchdogs, pipes, used, instance, faults, job>>

session == <<pkt, lease, epoch>>
device == <<devLease, devTimers, retire>>
clients == <<watchdogs, pipes, used, instance>>

(***************************************************************************)
(* Journals.  Steps are a function from kind to state, and `order' keeps   *)
(* the order in which they were pushed, which recovery walks backwards.    *)
(***************************************************************************)
Journal ==
    [phase : Phases, kind : {None, "Tunnel", "SystemProxy"},
     op : Operations \cup {None}, owner : Engines \cup {None},
     plan : AllPlans, step : [Kinds -> StepStates], order : Seq(Kinds),
     device : DeviceStates, inst : Nat, sid : Accounts \cup {None},
     binding : BOOLEAN]

NoSteps == [k \in Kinds |-> "Absent"]

\* RecoveryJournal::clean: nothing recorded at all.
CleanJournal ==
    [phase |-> "Clean", kind |-> None, op |-> None, owner |-> None,
     plan |-> NoPlan, step |-> NoSteps, order |-> <<>>,
     device |-> "Absent", inst |-> 0, sid |-> None, binding |-> FALSE]

\* Mutant: the device stays InUse although no operation is bound to it.
DisconnectedInUse(j) ==
    [CleanJournal EXCEPT !.device = j.device, !.inst = j.inst, !.sid = j.sid]

\* RecoveryJournal::disconnected: clean, but the device record is kept.
Disconnected(j) ==
    [CleanJournal EXCEPT
        !.device = IF j.device = "InUse" THEN "Idle" ELSE j.device,
        !.inst = j.inst, !.sid = j.sid]

\* Vec::remove of the entry of kind k, wherever it stands.
Without(s, k) ==
    IF \E i \in DOMAIN s : s[i] = k
    THEN LET i == CHOOSE n \in DOMAIN s : s[n] = k
         IN  SubSeq(s, 1, i - 1) \o SubSeq(s, i + 1, Len(s))
    ELSE s

Push(j, k) ==
    [j EXCEPT !.step[k] = "Intended", !.order = Append(j.order, k)]
Remove(j, k) ==
    [j EXCEPT !.step[k] = "Absent", !.order = Without(j.order, k)]
Mark(j, k, state) == [j EXCEPT !.step[k] = state]
InPhase(j, phase) == [j EXCEPT !.phase = phase]
WithDevice(j, state) == [j EXCEPT !.device = state]
OwnedBy(j, e) == [j EXCEPT !.owner = e]

\* Position of kind k in the journal's step vector.
Position(j, k) == CHOOSE i \in DOMAIN j.order : j.order[i] = k

(***************************************************************************)
(* RecoveryJournal::validate, which save and load_or_clean both apply: a   *)
(* journal that fails it can neither be written nor be started from.       *)
(***************************************************************************)
DeviceValid(j) ==
    /\ j.device = "InUse" => j.binding
    /\ j.device # "Absent" /\ j.kind = "Tunnel" /\ j.phase # "Clean" => j.binding
    /\ j.binding => /\ j.device \in {"Creating", "InUse", "RecoveryRequired"}
                    /\ j.phase # "Clean"
                    /\ j.kind = "Tunnel"
                    /\ j.owner # None /\ Account[j.owner] = j.sid

CleanValid(j) ==
    j.phase = "Clean" => /\ j.kind = None /\ j.op = None /\ j.owner = None
                         /\ j.plan = NoPlan /\ j.order = <<>> /\ ~j.binding

ShapeValid(j) ==
    j.phase # "Clean" =>
        /\ j.kind # None /\ j.op # None /\ j.owner # None
        /\ j.kind = "Tunnel" => ~(j.plan.defer /\ j.phase = "Active")
        /\ j.kind = "SystemProxy" =>
              /\ \A k \in Kinds \ {"SystemProxy"} : j.step[k] = "Absent"
              /\ j.phase # "Prepared"

ValidJournal(j) ==
    /\ DeviceValid(j) /\ CleanValid(j) /\ ShapeValid(j)
    /\ \A k \in Kinds : (j.step[k] # "Absent")
                          <=> (\E i \in DOMAIN j.order : j.order[i] = k)
    /\ \A i, n \in DOMAIN j.order : j.order[i] = j.order[n] => i = n
=============================================================================
