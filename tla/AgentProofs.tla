---------------------------- MODULE AgentProofs ----------------------------
(***************************************************************************)
(* The Agent's coordinator, for every set of Engines, operations and plans *)
(* and however often saves and native calls fail and the process ends.     *)
(* The first part proves the invariant IInv: the host is never changed     *)
(* without a durable record.  On it rest the kill switch, which fails      *)
(* closed, the journals, which can always be loaded, and the watchdogs,    *)
(* which a later lease disarms.                                            *)
(***************************************************************************)
EXTENDS AgentSafety, SequenceTheorems, TLAPS

(***************************************************************************)
(* What the operators on journals and on the handler's record return.      *)
(***************************************************************************)
\* Removing an entry from the step vector leaves a step vector.
LEMMA WithoutType ==
    ASSUME NEW s \in Seq(Kinds), NEW k
    PROVE  Without(s, k) \in Seq(Kinds)
  BY DEF Without

\* Updates of single steps: only the step named changes.
LEMMA StepUpdates ==
    ASSUME NEW j \in Journal, NEW k \in Kinds
    PROVE  /\ Push(j, k) \in Journal
           /\ Push(j, k).phase = j.phase /\ Push(j, k).kind = j.kind
           /\ Push(j, k).device = j.device
           /\ \A x \in Kinds : Push(j, k).step[x] =
                                 IF x = k THEN "Intended" ELSE j.step[x]
           /\ Remove(j, k) \in Journal
           /\ Remove(j, k).phase = j.phase /\ Remove(j, k).kind = j.kind
           /\ Remove(j, k).device = j.device
           /\ \A x \in Kinds : Remove(j, k).step[x] =
                                 IF x = k THEN "Absent" ELSE j.step[x]
<1> DEFINE intended == [j.step EXCEPT ![k] = "Intended"]
           absent == [j.step EXCEPT ![k] = "Absent"]
           longer == Append(j.order, k)
           shorter == Without(j.order, k)
<1>1. /\ intended \in [Kinds -> StepStates] /\ absent \in [Kinds -> StepStates]
      /\ longer \in Seq(Kinds) /\ shorter \in Seq(Kinds)
  BY WithoutType DEF Journal, StepStates
<1>2. /\ Push(j, k) = [j EXCEPT !.step = intended, !.order = longer]
      /\ Remove(j, k) = [j EXCEPT !.step = absent, !.order = shorter]
  BY DEF Push, Remove, Journal
<1>3. \A x \in Kinds : /\ intended[x] = IF x = k THEN "Intended" ELSE j.step[x]
                       /\ absent[x] = IF x = k THEN "Absent" ELSE j.step[x]
  BY DEF Journal
<1> HIDE DEF intended, absent, longer, shorter
<1> QED BY <1>1, <1>2, <1>3 DEF Journal

\* Marking a step changes its state only.
LEMMA MarkUpdates ==
    ASSUME NEW j \in Journal, NEW k \in Kinds, NEW s \in StepStates
    PROVE  /\ Mark(j, k, s) \in Journal
           /\ Mark(j, k, s).phase = j.phase /\ Mark(j, k, s).kind = j.kind
           /\ Mark(j, k, s).device = j.device
           /\ \A x \in Kinds : Mark(j, k, s).step[x] = IF x = k THEN s ELSE j.step[x]
  BY DEF Mark, Journal

\* Updates of the other fields leave the steps alone.
LEMMA FieldUpdates ==
    ASSUME NEW j \in Journal
    PROVE  /\ \A p \in Phases :
                /\ InPhase(j, p) \in Journal /\ InPhase(j, p).phase = p
                /\ InPhase(j, p).kind = j.kind /\ InPhase(j, p).step = j.step
                /\ InPhase(j, p).device = j.device
           /\ \A d \in DeviceStates :
                /\ WithDevice(j, d) \in Journal /\ WithDevice(j, d).device = d
                /\ WithDevice(j, d).kind = j.kind /\ WithDevice(j, d).step = j.step
                /\ WithDevice(j, d).phase = j.phase
           /\ \A e \in Engines :
                /\ OwnedBy(j, e) \in Journal /\ OwnedBy(j, e).device = j.device
                /\ OwnedBy(j, e).kind = j.kind /\ OwnedBy(j, e).step = j.step
                /\ OwnedBy(j, e).phase = j.phase
  BY DEF Journal, InPhase, WithDevice, OwnedBy

\* The two clean journals have no step; the second keeps the device.
LEMMA CleanUpdates ==
    ASSUME NEW j \in Journal
    PROVE  /\ CleanJournal \in Journal /\ Empty(CleanJournal)
           /\ CleanJournal.phase = "Clean" /\ CleanJournal.kind = None
           /\ CleanJournal.device = "Absent"
           /\ \A x \in Kinds : CleanJournal.step[x] = "Absent"
           /\ Disconnected(j) \in Journal /\ Empty(Disconnected(j))
           /\ Disconnected(j).phase = "Clean" /\ Disconnected(j).kind = None
           /\ Disconnected(j).device = IF j.device = "InUse" THEN "Idle" ELSE j.device
           /\ \A x \in Kinds : Disconnected(j).step[x] = "Absent"
<1>1. CleanJournal \in Journal
  BY DEF Journal, CleanJournal, NoSteps, NoPlan, AllPlans, Phases, StepStates, DeviceStates
<1>2. Disconnected(j) \in Journal
  BY <1>1 DEF Journal, Disconnected, DeviceStates
<1> QED BY <1>1, <1>2 DEF Disconnected, CleanJournal, NoSteps, Empty

\* The handler's record.
LEMMA JobUpdates ==
    ASSUME job \in Job
    PROVE  /\ Idle \in Job /\ Idle.pc = "idle"
           /\ \A pc \in Labels :
                /\ Goto(pc) \in Job /\ Goto(pc).pc = pc
                /\ Goto(pc).kind = job.kind /\ Goto(pc).failed = job.failed
           /\ \A pc \in Labels, k \in Kinds :
                /\ At(pc, k) \in Job /\ At(pc, k).pc = pc
                /\ At(pc, k).kind = k /\ At(pc, k).failed = job.failed
           /\ \A S \in SUBSET (Kinds \cup {Persist}) :
                /\ Failures(S) \in Job /\ Failures(S).pc = "restore"
                /\ Failures(S).failed = S
<1>1. Idle \in Job /\ Idle.pc = "idle"
  BY DEF Idle, Job, Handlers, Labels, AllPlans, NoPlan
<1>2. \A pc \in Labels :
        /\ Goto(pc) \in Job /\ Goto(pc).pc = pc
        /\ Goto(pc).kind = job.kind /\ Goto(pc).failed = job.failed
  BY DEF Job, Goto
<1>3. \A pc \in Labels, k \in Kinds :
        /\ At(pc, k) \in Job /\ At(pc, k).pc = pc
        /\ At(pc, k).kind = k /\ At(pc, k).failed = job.failed
  BY DEF Job, At
<1>4. \A S \in SUBSET (Kinds \cup {Persist}) :
        /\ Failures(S) \in Job /\ Failures(S).pc = "restore"
        /\ Failures(S).failed = S
  BY DEF Job, Failures, Labels
<1> QED BY <1>1, <1>2, <1>3, <1>4

\* A handler that starts has the label it starts at.
LEMMA RunType ==
    ASSUME NEW h \in Handlers, NEW pc \in Labels, NEW e \in Engines \cup {None}
    PROVE  Run(h, pc, e) \in Job /\ Run(h, pc, e).pc = pc
<1>1. Idle \in Job
  BY DEF Idle, Job, Handlers, Labels, AllPlans, NoPlan
<1> QED BY <1>1 DEF Job, Run

\* Steps to apply lead to the next plan, none to the end of the handler.
LEMMA TodoUpdates ==
    ASSUME NEW j \in Job, NEW S \in SUBSET Kinds
    PROVE  Todo(j, S) \in Job /\ Todo(j, S).pc \in {"plan", "finish"}
  BY DEF Todo, Job, Labels

\* Where a handler ends, and where a failed apply leads.
LEMMA Outcomes ==
    ASSUME job \in Job
    PROVE  /\ Done \in Job /\ Done.pc \in {"idle", "boot_retire", "halted"}
           /\ ApplyFailed \in Job /\ ApplyFailed.pc \in {"idle", "recover", "proxy_undo"}
           /\ PlanFailed \in Job /\ PlanFailed.pc \in {"idle", "recover", "proxy_undo"}
           /\ IntentFailed \in Job
           /\ IntentFailed.pc \in {"idle", "recover", "proxy_undo"}
<1> {"recover", "proxy_undo", "boot_retire", "halted"} \subseteq Labels
    /\ "boot" \in Handlers
  BY DEF Labels, Handlers
<1> QED BY JobUpdates, RunType DEF Done, ApplyFailed, PlanFailed, IntentFailed

(***************************************************************************)
(* Two frames.  Most actions leave the clients, the session and the device *)
(* lease alone, and most are quiet: they add no effect, forget no step and *)
(* go to a label that promises nothing about the host.                     *)
(***************************************************************************)
LEMMA FrameType ==
    ASSUME TypeOK, mem' \in Journal, disk' \in Journal, os' \subseteq Effects,
           faults' \in Nat, job' \in Job, UNCHANGED <<session, device, clients>>
    PROVE  TypeOK'
  BY DEF TypeOK, session, device, clients

Calm == {"idle", "finish", "recover", "required", "switch", "close", "detach",
         "detached", "proxy_undo", "boot", "boot_retire", "halted"}

Quiet ==
    /\ os' \subseteq os /\ retire' = retire
    /\ devLease'.attached => devLease.attached
    /\ disk' \in {disk, mem'}
    /\ mem'.step = mem.step /\ Empty(mem)'
    /\ mem'.device = "Absent" => mem.device = "Absent"
    /\ mem'.phase = "Clean" => mem.phase = "Clean"
    /\ job'.pc \in Calm \cup {"plan", "retire"}
    /\ job'.pc = "plan" => mem'.phase # "Clean"
    /\ job'.pc = "retire" => ~devLease'.attached
    /\ retire.worker => /\ mem'.phase = "Clean" /\ mem'.device = mem.device
                        /\ job'.pc \in {"idle", "retire", "boot_retire", "halted"}

\* A quiet step keeps the invariant.
LEMMA QuietKeeps ==
    ASSUME IInv, Quiet, TypeOK'
    PROVE  IInv'
<1>1. Recorded' /\ CleanIsDurable'
  BY DEF IInv, Quiet, Recorded, CleanIsDurable, Covers, Empty
<1>2. Intent' /\ Gone' /\ OnClean'
  BY DEF IInv, Quiet, Calm, Intent, Gone, OnClean
<1>3. Retired'
  BY DEF IInv, Quiet, Calm, Retired
<1> QED BY <1>1, <1>2, <1>3 DEF IInv

(***************************************************************************)
(* apply_new_step.                                                         *)
(***************************************************************************)
LEMMA PlanStepKeeps == IInv /\ PlanStep => IInv'
<1> SUFFICES ASSUME IInv, PlanStep PROVE IInv' OBVIOUS
<1>1. PICK k \in Kinds : PlanStep!2!(k)
  BY DEF PlanStep
<1>2. UNCHANGED <<os, session, device, clients>> /\ job.pc = "plan"
  BY DEF PlanStep
<1>3. TypeOK /\ job \in Job /\ mem \in Journal /\ disk \in Journal
  BY DEF IInv, TypeOK
<1>4. mem' \in Journal /\ disk' \in Journal /\ faults' \in Nat /\ os' \subseteq Effects
  BY <1>1, <1>2, <1>3, StepUpdates DEF TypeOK, Save, Saved, SaveFailed, Fault, NoFault
<1>5. job' \in Job
  BY <1>1, <1>3, JobUpdates, Outcomes DEF Save, Labels
<1>6. TypeOK'
  BY <1>2, <1>3, <1>4, <1>5, FrameType
<1>7. mem.phase # "Clean"
  BY <1>2 DEF IInv, OnClean
<1>8. Recorded' /\ CleanIsDurable'
  <2>1. CASE mem' = mem /\ disk' = disk
    BY <1>2, <2>1 DEF IInv, Recorded, CleanIsDurable, Covers, Empty
  <2>2. CASE mem' = Push(mem, k) /\ disk' \in {disk, mem'}
    <3>1. k \in Kinds BY <1>1
    <3>2. /\ Push(mem, k).phase = mem.phase /\ Push(mem, k).device = mem.device
          /\ \A x \in Kinds : Push(mem, k).step[x] =
                                  IF x = k THEN "Intended" ELSE mem.step[x]
      BY <1>3, <3>1, StepUpdates
    <3> QED BY <1>2, <1>7, <2>2, <3>2
            DEF IInv, Recorded, CleanIsDurable, Covers, Empty, Unresolved
  <2> QED BY <1>1, <2>1, <2>2 DEF Save, Saved, SaveFailed
<1>9. Intent' /\ Gone' /\ OnClean'
  BY <1>1, <1>2, <1>3, StepUpdates, JobUpdates, Outcomes
     DEF IInv, Save, Saved, SaveFailed, Labels, Intent, Gone, OnClean, Unresolved
<1>10. Retired'
  BY <1>1, <1>2, <1>3, StepUpdates, JobUpdates, Outcomes
     DEF IInv, Save, Saved, SaveFailed, Labels, Retired, device
<1> QED BY <1>6, <1>8, <1>9, <1>10 DEF IInv

\* The native change was intended in both copies of the journal.
LEMMA ApplyStepKeeps == IInv /\ ApplyStep => IInv'
<1> SUFFICES ASSUME IInv, ApplyStep PROVE IInv' OBVIOUS
<1>1. /\ job.pc = "apply" /\ UNCHANGED <<mem, disk, session, device, clients>>
      /\ os' \in {os, os \cup {job.kind}} /\ job' \in {Goto("applied"), ApplyFailed}
  BY DEF ApplyStep
<1>2. TypeOK /\ job \in Job /\ job.kind \in Kinds /\ mem \in Journal /\ disk \in Journal
  BY <1>1 DEF IInv, TypeOK, Intent
<1>3. TypeOK'
  <2>1. faults' \in Nat BY <1>2 DEF ApplyStep, Fault, NoFault, TypeOK
  <2>2. job' \in Job BY <1>1, <1>2, JobUpdates, Outcomes DEF Labels
  <2>3. os' \subseteq Effects BY <1>1, <1>2 DEF TypeOK, Effects
  <2> QED BY <1>1, <1>2, <2>1, <2>2, <2>3, FrameType
<1>4. Recorded' /\ CleanIsDurable'
  BY <1>1, <1>2 DEF IInv, Recorded, CleanIsDurable, Covers, Empty, Intent, Device, Kinds
<1>5. Intent' /\ Gone' /\ OnClean'
  BY <1>1, <1>2, JobUpdates, Outcomes DEF IInv, Intent, Gone, OnClean, Labels
<1>6. Retired'
  BY <1>1, <1>2, JobUpdates, Outcomes DEF IInv, Retired, Labels, Device, Kinds, device
<1> QED BY <1>3, <1>4, <1>5, <1>6 DEF IInv

\* An applied step is still one that recovery restores.
LEMMA RecordAppliedKeeps == IInv /\ RecordApplied => IInv'
<1> SUFFICES ASSUME IInv, RecordApplied PROVE IInv' OBVIOUS
<1> DEFINE applied == Mark(mem, job.kind, "Applied")
           next == Todo(job, job.todo \ {job.kind})
<1>1. /\ job.pc = "applied" /\ UNCHANGED <<os, session, device, clients>>
      /\ mem' \in {applied, InPhase(applied, "Active")} /\ disk' \in {disk, mem'}
      /\ job' \in {next, ApplyFailed}
  BY DEF RecordApplied, Save, Saved, SaveFailed
<1>2. TypeOK /\ job \in Job /\ job.kind \in Kinds /\ mem \in Journal /\ disk \in Journal
  BY <1>1 DEF IInv, TypeOK, Intent
<1>3. next \in Job /\ next.pc \in {"plan", "finish"}
  BY <1>2, TodoUpdates DEF Job
<1>4. /\ applied \in Journal /\ applied.device = mem.device
      /\ applied.phase = mem.phase
      /\ \A x \in Kinds : applied.step[x] =
                             IF x = job.kind THEN "Applied" ELSE mem.step[x]
  <2>1. "Applied" \in StepStates BY DEF StepStates
  <2> QED BY <1>2, <2>1, MarkUpdates
<1>5. mem.phase # "Clean"
  BY <1>1, <1>2 DEF IInv, Recorded, Intent, Empty, Unresolved
<1> HIDE DEF applied, next
<1>6. /\ mem' \in Journal /\ mem'.phase # "Clean" /\ mem'.device = mem.device
      /\ \A x \in Kinds : mem'.step[x] =
                             IF x = job.kind THEN "Applied" ELSE mem.step[x]
  BY <1>1, <1>4, <1>5, FieldUpdates DEF Phases
<1>7. TypeOK'
  <2>1. faults' \in Nat
    BY <1>2 DEF RecordApplied, Save, Saved, SaveFailed, Fault, NoFault, TypeOK
  <2> QED BY <1>1, <1>2, <1>3, <1>6, <2>1, Outcomes, FrameType DEF TypeOK
<1>8. Recorded' /\ CleanIsDurable'
  BY <1>1, <1>2, <1>6 DEF IInv, Recorded, CleanIsDurable, Covers, Empty, Unresolved
<1>9. Intent' /\ Gone' /\ OnClean'
  BY <1>1, <1>2, <1>3, <1>6, Outcomes DEF Intent, Gone, OnClean
<1>10. Retired'
  BY <1>1, <1>2, <1>3, <1>6, Outcomes DEF IInv, Retired, device
<1> QED BY <1>7, <1>8, <1>9, <1>10 DEF IInv

(***************************************************************************)
(* prepare_managed and prepare_locked.                                     *)
(***************************************************************************)
\* The updates that prepare and the proxy make.
LEMMA BeginUpdates ==
    ASSUME TypeOK, NEW e \in Engines, NEW op \in Operations
    PROVE  /\ Creating(mem, e) \in Journal /\ Creating(mem, e).device = "Creating"
           /\ Creating(mem, e).phase = mem.phase /\ Creating(mem, e).kind = mem.kind
           /\ Creating(mem, e).step = mem.step
           /\ ProxyBegun(mem, op, e) \in Journal
           /\ ProxyBegun(mem, op, e).phase = "Preparing"
           /\ ProxyBegun(mem, op, e).device = mem.device
           /\ ProxyBegun(mem, op, e).step = mem.step
           /\ \A plan \in AllPlans, pc \in Labels :
                /\ Prepare(pc, e, op, plan) \in Job
                /\ Prepare(pc, e, op, plan).pc = pc
<1>1. mem \in Journal /\ job \in Job /\ instance \in Nat /\ Account[e] \in Accounts
  BY DEF TypeOK, Accounts
<1>2. /\ Creating(mem, e) \in Journal /\ Creating(mem, e).device = "Creating"
      /\ Creating(mem, e).phase = mem.phase /\ Creating(mem, e).kind = mem.kind
      /\ Creating(mem, e).step = mem.step
  BY <1>1 DEF Journal, Creating, DeviceStates
<1>3. /\ ProxyBegun(mem, op, e) \in Journal
      /\ ProxyBegun(mem, op, e).phase = "Preparing"
      /\ ProxyBegun(mem, op, e).device = mem.device
      /\ ProxyBegun(mem, op, e).step = mem.step
  BY <1>1 DEF Journal, ProxyBegun, Phases
<1>4. \A plan \in AllPlans, pc \in Labels :
        /\ Prepare(pc, e, op, plan) \in Job
        /\ Prepare(pc, e, op, plan).pc = pc
  <2> SUFFICES ASSUME NEW plan \in AllPlans, NEW pc \in Labels
               PROVE  /\ Prepare(pc, e, op, plan) \in Job
                      /\ Prepare(pc, e, op, plan).pc = pc
    OBVIOUS
  <2>1. Run("prepare", pc, e) \in Job /\ Run("prepare", pc, e).pc = pc
    BY RunType DEF Handlers
  <2> QED BY <2>1 DEF Job, Prepare
<1> QED BY <1>2, <1>3, <1>4

\* prepare_managed records a device before the call that creates it.
LEMMA PrepareManagedKeeps ==
    ASSUME IInv, NEW e \in Engines, NEW op \in Operations, NEW plan \in Plans,
           PrepareManaged(e, op, plan)
    PROVE  IInv'
<1> DEFINE suspect == WithDevice(mem, "RecoveryRequired")
           creating == Creating(mem, e)
           create == Prepare("create", e, op, plan)
           begin == Prepare("begin", e, op, plan)
<1>1. /\ Ready /\ devLease.attached /\ mem.phase = "Clean"
      /\ UNCHANGED <<os, session, device, watchdogs, pipes, instance>>
      /\ used' = used \cup {op} /\ faults' \in {faults, faults + 1}
      /\ \/ mem' = creating /\ disk' = creating /\ job' = create
         \/ mem' = creating /\ disk' = disk /\ job' = Idle
         \/ mem' = mem /\ disk' = disk /\ job' = begin
         \/ mem' = suspect /\ disk' \in {suspect, disk} /\ job' = Idle
  BY DEF PrepareManaged, require_device_owner, Save, Saved, SaveFailed, Fault, NoFault
<1>2. TypeOK /\ mem \in Journal /\ disk \in Journal /\ job \in Job
  BY DEF IInv, TypeOK
<1>3. /\ creating \in Journal /\ creating.device = "Creating"
      /\ creating.phase = mem.phase /\ creating.kind = mem.kind
      /\ creating.step = mem.step
      /\ create \in Job /\ create.pc = "create"
      /\ begin \in Job /\ begin.pc = "begin"
  <2>1. plan \in AllPlans /\ {"create", "begin"} \subseteq Labels
    BY ConstantsAssumption DEF Labels
  <2> QED BY <1>2, <2>1, BeginUpdates
<1>4. /\ suspect \in Journal /\ suspect.device = "RecoveryRequired"
      /\ suspect.phase = mem.phase /\ suspect.kind = mem.kind /\ suspect.step = mem.step
  BY <1>2, FieldUpdates DEF DeviceStates
<1>5. Idle \in Job /\ Idle.pc = "idle" BY <1>2, JobUpdates
<1> HIDE DEF suspect, creating, create, begin
<1>6. TypeOK'
  BY <1>1, <1>2, <1>3, <1>4, <1>5 DEF TypeOK, session, device
<1>7. Recorded' /\ CleanIsDurable'
  BY <1>1, <1>3, <1>4 DEF IInv, Recorded, CleanIsDurable, Covers, Empty
<1>8. Intent' /\ Gone' /\ OnClean'
  BY <1>1, <1>3, <1>4, <1>5 DEF Intent, Gone, OnClean
<1>9. Retired'
  BY <1>1, <1>3, <1>4, <1>5 DEF IInv, Retired, device, None
<1> QED BY <1>6, <1>7, <1>8, <1>9 DEF IInv

\* The device is created under its record.
LEMMA CreateDeviceKeeps == IInv /\ CreateDevice => IInv'
<1> SUFFICES ASSUME IInv, CreateDevice PROVE IInv' OBVIOUS
<1>1. /\ job.pc = "create" /\ UNCHANGED <<mem, disk, session, device, clients>>
      /\ os' \in {os, os \cup {Device}}
      /\ job' \in {Goto("created"), Goto("create_failed")}
  BY DEF CreateDevice
<1>2. TypeOK /\ job \in Job BY DEF IInv, TypeOK
<1>3. job' \in Job /\ job'.pc \in {"created", "create_failed"}
  BY <1>1, <1>2, JobUpdates DEF Labels
<1>4. TypeOK'
  <2>1. faults' \in Nat BY <1>2 DEF CreateDevice, Fault, NoFault, TypeOK
  <2>2. os' \subseteq Effects BY <1>1, <1>2 DEF TypeOK, Effects
  <2> QED BY <1>1, <1>2, <1>3, <2>1, <2>2, FrameType DEF TypeOK
<1>5. Recorded' /\ CleanIsDurable'
  BY <1>1 DEF IInv, Recorded, CleanIsDurable, Covers, Empty, Intent, Device, Kinds
<1>6. Intent' /\ Gone' /\ OnClean'
  BY <1>1, <1>3 DEF IInv, Intent, Gone, OnClean
<1>7. Retired'
  BY <1>1, <1>3 DEF IInv, Retired, device, None
<1> QED BY <1>4, <1>5, <1>6, <1>7 DEF IInv

\* DeviceCreated and CreateFailed record what became of the device.
LEMMA CreationKeeps == IInv /\ (DeviceCreated \/ CreateFailed) => IInv'
<1> SUFFICES ASSUME IInv, DeviceCreated \/ CreateFailed PROVE IInv' OBVIOUS
<1>1. PICK d \in {"Idle", "RecoveryRequired"} :
        /\ job.pc \in {"created", "create_failed"}
        /\ UNCHANGED <<os, session, device, clients>>
        /\ mem' = WithDevice(mem, d) /\ disk' \in {disk, mem'}
        /\ job' \in {Goto("begin"), Idle} /\ faults' \in {faults, faults + 1}
  BY DEF DeviceCreated, CreateFailed, Save, Saved, SaveFailed, Fault, NoFault
<1>2. TypeOK /\ job \in Job /\ mem \in Journal BY DEF IInv, TypeOK
<1>3. job' \in Job /\ job'.pc \in {"begin", "idle"}
  BY <1>1, <1>2, JobUpdates DEF Labels
<1>4. /\ mem' \in Journal /\ mem'.device = d /\ d # "Absent"
      /\ mem'.phase = mem.phase /\ mem'.kind = mem.kind /\ mem'.step = mem.step
  BY <1>1, <1>2, FieldUpdates DEF DeviceStates
<1>5. TypeOK'
  BY <1>1, <1>2, <1>3, <1>4, FrameType DEF TypeOK
<1>6. Recorded' /\ CleanIsDurable'
  BY <1>1, <1>4 DEF IInv, Recorded, CleanIsDurable, Covers, Empty
<1>7. Intent' /\ Gone' /\ OnClean'
  BY <1>1, <1>3, <1>4 DEF IInv, Intent, Gone, OnClean
<1>8. Retired'
  BY <1>1, <1>3, <1>4 DEF IInv, Retired, device, None
<1> QED BY <1>5, <1>6, <1>7, <1>8 DEF IInv

\* A transaction begins on a clean journal, hence with no effect but the device.
LEMMA BeginTransactionKeeps == IInv /\ BeginTransaction => IInv'
<1> SUFFICES ASSUME IInv, BeginTransaction PROVE IInv' OBVIOUS
<1>1. /\ job.pc = "begin" /\ UNCHANGED <<os, session, device, clients>>
      /\ mem' = Begun(mem) /\ disk' \in {disk, mem'}
      /\ job' \in {Todo(job, PrepareKinds(job.plan)), Idle}
      /\ faults' \in {faults, faults + 1}
  BY DEF BeginTransaction, Save, Saved, SaveFailed, Fault, NoFault
<1>2. TypeOK /\ job \in Job /\ mem \in Journal BY DEF IInv, TypeOK
<1>3. job' \in Job /\ job'.pc \in {"plan", "finish", "idle"}
  <2>1. PrepareKinds(job.plan) \subseteq Kinds BY DEF PrepareKinds, Kinds
  <2> QED BY <1>1, <1>2, <2>1, JobUpdates, TodoUpdates
<1>4. /\ mem' \in Journal /\ mem'.device = "InUse" /\ mem'.phase = "Preparing"
      /\ \A k \in Kinds : mem'.step[k] = "Absent"
  <2>1. /\ job.op \in Operations \cup {None} /\ job.e \in Engines \cup {None}
        /\ job.plan \in AllPlans
    BY <1>2 DEF Job
  <2>2. /\ NoSteps \in [Kinds -> StepStates] /\ << >> \in Seq(Kinds)
        /\ \A k \in Kinds : NoSteps[k] = "Absent"
    BY DEF NoSteps, StepStates
  <2>3. "Preparing" \in Phases /\ "InUse" \in DeviceStates
    BY DEF Phases, DeviceStates
  <2> QED BY <1>1, <1>2, <2>1, <2>2, <2>3 DEF Begun, Journal
<1>5. TypeOK'
  BY <1>1, <1>2, <1>3, <1>4, FrameType DEF TypeOK
<1>6. Recorded' /\ CleanIsDurable'
  BY <1>1, <1>4 DEF IInv, Recorded, CleanIsDurable, Covers, Empty, OnClean, Unresolved
<1>7. Intent' /\ Gone' /\ OnClean'
  BY <1>1, <1>3, <1>4 DEF Intent, Gone, OnClean
<1>8. Retired'
  BY <1>1, <1>3, <1>4 DEF IInv, Retired, device, None
<1> QED BY <1>5, <1>6, <1>7, <1>8 DEF IInv

(***************************************************************************)
(* Quiet handler steps: the ends of prepare, begin_chain_transition,       *)
(* apply_system_proxy, open_packet_session and commit, and the requests    *)
(* that only start a handler.                                              *)
(***************************************************************************)
\* A pipe that takes a lease keeps the types of the clients.
LEMMA AttachType ==
    ASSUME TypeOK, NEW p \in Pipe, Attach(p)
    PROVE  pipes' \subseteq Pipe /\ watchdogs' \subseteq Watchdog
<1>1. ASSUME NEW w \in Watchdog
      PROVE  [w EXCEPT !.superseded = @ \/ w.op = p.op] \in Watchdog
  <2> DEFINE b == w.superseded \/ w.op = p.op
  <2>1. b \in BOOLEAN OBVIOUS
  <2> HIDE DEF b
  <2>2. [w EXCEPT !.superseded = b] \in Watchdog BY <2>1 DEF Watchdog
  <2> QED BY <2>2 DEF b
<1>2. watchdogs \subseteq Watchdog /\ pipes \subseteq Pipe BY DEF TypeOK
<1>3. watchdogs' \subseteq Watchdog BY <1>1, <1>2 DEF Attach
<1> QED BY <1>2, <1>3 DEF Attach

\* A watchdog has the type of its arguments.
LEMMA ArmType ==
    ASSUME TypeOK, NEW op \in Operations \cup {None}, NEW ep \in Nat,
           NEW l \in {"startup", "active", "stale"}, Arm(op, ep, l)
    PROVE  watchdogs' \subseteq Watchdog
<1>1. watchdogs \subseteq Watchdog BY DEF TypeOK
<1>2. [op |-> op, epoch |-> ep, lease |-> l, superseded |-> FALSE] \in Watchdog
  BY DEF Watchdog
<1> QED BY <1>1, <1>2 DEF Arm

\* The end of prepare only moves the phase and attaches a pipe.
LEMMA FinishPrepareKeeps == IInv /\ FinishPrepare => IInv'
<1> SUFFICES ASSUME IInv, FinishPrepare PROVE IInv' OBVIOUS
<1> DEFINE pipe == [e |-> job.e, op |-> mem.op, lease |-> "startup"]
<1>1. /\ job.pc = "finish" /\ UNCHANGED <<os, session, device, used, instance>>
      /\ mem' = InPhase(mem, "Prepared") /\ disk' \in {disk, mem'}
      /\ job' \in {Idle, Goto("recover")} /\ faults' \in {faults, faults + 1}
      /\ Attach(pipe) \/ UNCHANGED <<pipes, watchdogs>>
  BY DEF FinishPrepare, Saved, SaveFailed, Fault, NoFault
<1>2. TypeOK /\ job \in Job /\ mem \in Journal BY DEF IInv, TypeOK
<1>3. job' \in Job /\ job'.pc \in {"idle", "recover"}
  BY <1>1, <1>2, JobUpdates DEF Labels
<1>4. /\ mem' \in Journal /\ mem'.device = mem.device
      /\ mem'.phase = "Prepared" /\ mem'.step = mem.step
  BY <1>1, <1>2, FieldUpdates DEF Phases
<1>5. pipes' \subseteq Pipe /\ watchdogs' \subseteq Watchdog
  <2>1. pipe \in Pipe BY <1>2 DEF Job, Journal, Pipe
  <2> HIDE DEF pipe
  <2> QED BY <1>1, <1>2, <2>1, AttachType DEF TypeOK
<1>6. TypeOK'
  BY <1>1, <1>2, <1>3, <1>4, <1>5 DEF TypeOK, session, device
<1>7. Quiet
  BY <1>1, <1>3, <1>4 DEF IInv, Retired, Quiet, Calm, Empty, device
<1> QED BY <1>6, <1>7, QuietKeeps

\* The ends of the other applying handlers are quiet.
LEMMA FinishKeeps == IInv /\ (FinishChain \/ FinishApply \/ FinishOpen) => IInv'
<1> SUFFICES ASSUME IInv, FinishChain \/ FinishApply \/ FinishOpen PROVE IInv' OBVIOUS
<1> DEFINE pipe == [e |-> job.e, op |-> mem.op, lease |-> "startup"]
<1>1. /\ job.pc = "finish" /\ job' = Idle
      /\ UNCHANGED <<mem, disk, os, lease, epoch, device, used, instance, faults>>
      /\ pkt' \in {pkt, TRUE} /\ (Attach(pipe) \/ UNCHANGED <<pipes, watchdogs>>)
  BY DEF FinishChain, FinishApply, FinishOpen, session, clients
<1>2. TypeOK /\ job \in Job /\ mem \in Journal BY DEF IInv, TypeOK
<1>3. job' \in Job /\ job'.pc = "idle" BY <1>1, <1>2, JobUpdates
<1>4. pipes' \subseteq Pipe /\ watchdogs' \subseteq Watchdog
  <2>1. pipe \in Pipe BY <1>2 DEF Job, Journal, Pipe
  <2> HIDE DEF pipe
  <2> QED BY <1>1, <1>2, <2>1, AttachType DEF TypeOK
<1>5. TypeOK'
  BY <1>1, <1>2, <1>3, <1>4 DEF TypeOK, device
<1>6. Quiet
  BY <1>1, <1>3 DEF IInv, Retired, Recorded, Quiet, Calm, Empty, device
<1> QED BY <1>5, <1>6, QuietKeeps

\* The end of commit only moves the phase.
LEMMA FinishCommitKeeps == IInv /\ FinishCommit => IInv'
<1> SUFFICES ASSUME IInv, FinishCommit PROVE IInv' OBVIOUS
<1>1. /\ job.pc = "finish" /\ UNCHANGED <<os, session, device, clients>>
      /\ mem' = InPhase(mem, "Active") /\ disk' \in {disk, mem'}
      /\ job' \in {Idle, ApplyFailed} /\ faults' \in {faults, faults + 1}
  BY DEF FinishCommit, Save, Saved, SaveFailed, Fault, NoFault
<1>2. TypeOK /\ job \in Job /\ mem \in Journal BY DEF IInv, TypeOK
<1>3. job' \in Job /\ job'.pc \in {"idle", "recover", "proxy_undo"}
  BY <1>1, <1>2, JobUpdates, Outcomes
<1>4. /\ mem' \in Journal /\ mem'.device = mem.device
      /\ mem'.phase = "Active" /\ mem'.step = mem.step
  BY <1>1, <1>2, FieldUpdates DEF Phases
<1>5. TypeOK'
  BY <1>1, <1>2, <1>3, <1>4, FrameType DEF TypeOK
<1>6. Quiet
  BY <1>1, <1>3, <1>4 DEF IInv, Retired, Quiet, Calm, Empty, device
<1> QED BY <1>5, <1>6, QuietKeeps

\* Requests that start a handler of the running transaction.
LEMMA StartKeeps ==
    ASSUME IInv, job' \in Job, job'.pc \in Calm \cup {"plan"}, mem.phase # "Clean",
           UNCHANGED <<mem, disk, os, session, device, clients, faults>>
    PROVE  IInv'
<1>1. TypeOK BY DEF IInv
<1>2. TypeOK' BY <1>1, FrameType DEF TypeOK
<1>3. Quiet
  BY DEF IInv, Retired, Recorded, Quiet, Calm, Empty, device
<1> QED BY <1>2, <1>3, QuietKeeps

\* These requests need a transaction and do no more than start a handler.
LEMMA RequestsStart ==
    ASSUME IInv, NEW e \in Engines,
           \/ Commit(e) \/ Rollback(e) \/ ClosePacketSession(e)
           \/ JoinSystemProxy(e) \/ RestoreSystemProxy(e)
           \/ RecoverStale \/ RecoverAutomatic \/ RecoverOrphaned(e)
    PROVE  IInv'
<1>1. TypeOK /\ job \in Job /\ e \in Engines \cup {None} /\ None \in Engines \cup {None}
  BY DEF IInv, TypeOK
<1>2. UNCHANGED <<mem, disk, os, session, device, clients, faults>>
  BY DEF Commit, Rollback, ClosePacketSession, JoinSystemProxy, RestoreSystemProxy,
         RecoverStale, RecoverAutomatic, RecoverOrphaned
<1>3. mem.phase # "Clean"
  BY DEF Commit, Rollback, ClosePacketSession, JoinSystemProxy, RestoreSystemProxy,
         RecoverStale, RecoverAutomatic, RecoverOrphaned, IInv, Recorded, Empty, None
<1>4. job' \in Job /\ job'.pc \in Calm \cup {"plan"}
  <2>1. CASE Commit(e)
    <3>1. Run("commit", "plan", e) \in Job BY <1>1, RunType DEF Handlers, Labels
    <3>2. CommitKinds \subseteq Kinds BY DEF CommitKinds, Kinds
    <3> QED BY <2>1, <3>1, <3>2, TodoUpdates DEF Commit, Calm
  <2>2. CASE JoinSystemProxy(e)
    <3>1. Run("proxy_join", "plan", e) \in Job BY <1>1, RunType DEF Handlers, Labels
    <3>2. {"SystemProxy"} \subseteq Kinds BY DEF Kinds
    <3> QED BY <2>2, <3>1, <3>2, TodoUpdates DEF JoinSystemProxy, Calm
  <2>3. CASE ClosePacketSession(e) \/ RestoreSystemProxy(e)
    <3>1. /\ {"close", "proxy_undo", "recover"} \subseteq Labels \cap Calm
          /\ {"close", "proxy_restore", "recover"} \subseteq Handlers
      BY DEF Labels, Calm, Handlers
    <3> QED BY <1>1, <2>3, <3>1, RunType DEF ClosePacketSession, RestoreSystemProxy
  <2>4. CASE Rollback(e) \/ RecoverStale \/ RecoverAutomatic \/ RecoverOrphaned(e)
    <3>1. "recover" \in Labels \cap Calm \cap Handlers
      BY DEF Labels, Calm, Handlers
    <3> QED BY <1>1, <2>4, <3>1, RunType
            DEF Rollback, RecoverStale, RecoverAutomatic, RecoverOrphaned
  <2> QED BY <2>1, <2>2, <2>3, <2>4
<1> QED BY <1>2, <1>3, <1>4, StartKeeps

(***************************************************************************)
(* Chains: a guard for a live tunnel, and its final network.               *)
(***************************************************************************)
LEMMA ChainUpdates ==
    ASSUME TypeOK, NEW e \in Engines
    PROVE  /\ Chained(mem, e) \in Journal /\ Chained(mem, e).phase = mem.phase
           /\ Chained(mem, e).device = mem.device /\ Chained(mem, e).step = mem.step
           /\ Resumed(mem, e) \in Journal /\ Resumed(mem, e).phase = mem.phase
           /\ Resumed(mem, e).device = mem.device /\ Resumed(mem, e).step = mem.step
           /\ \A policy \in StepStates :
                /\ ChainLabel(policy, e) \in Job
                /\ ChainLabel(policy, e).pc \in {"plan", "finish", "idle"}
<1>1. mem \in Journal /\ job \in Job /\ instance \in Nat BY DEF TypeOK
<1>2. /\ Chained(mem, e) \in Journal /\ Chained(mem, e).phase = mem.phase
      /\ Chained(mem, e).device = mem.device /\ Chained(mem, e).step = mem.step
  <2> DEFINE plan == [mem.plan EXCEPT !.vpn_chain = TRUE]
  <2>1. plan \in AllPlans BY <1>1 DEF Journal, AllPlans
  <2>2. Chained(mem, e) = [mem EXCEPT !.owner = e, !.plan = plan]
    BY <1>1 DEF Chained, Journal
  <2> HIDE DEF plan
  <2> QED BY <1>1, <2>1, <2>2 DEF Journal
<1>3. /\ Resumed(mem, e) \in Journal /\ Resumed(mem, e).phase = mem.phase
      /\ Resumed(mem, e).device = mem.device /\ Resumed(mem, e).step = mem.step
  BY <1>1 DEF Resumed, Journal
<1>4. \A policy \in StepStates :
        /\ ChainLabel(policy, e) \in Job
        /\ ChainLabel(policy, e).pc \in {"plan", "finish", "idle"}
  <2>1. Run("begin_chain", "plan", e) \in Job /\ Idle \in Job /\ Idle.pc = "idle"
    BY <1>1, RunType, JobUpdates DEF Handlers, Labels
  <2>2. {"KillSwitch"} \subseteq Kinds /\ {} \subseteq Kinds BY DEF Kinds
  <2> QED BY <2>1, <2>2, TodoUpdates DEF ChainLabel
<1> QED BY <1>2, <1>3, <1>4

\* begin_chain_transition changes owner and plan, and no step.
LEMMA BeginChainTransitionKeeps ==
    ASSUME IInv, NEW e \in Engines, BeginChainTransition(e)
    PROVE  IInv'
<1>1. /\ mem.phase \in {"Active", "Prepared"}
      /\ UNCHANGED <<os, pkt, lease, device, clients>>
      /\ mem' = Chained(mem, e) /\ disk' \in {disk, mem'}
      /\ job' \in {ChainLabel(mem.step["KillSwitch"], e), Idle}
      /\ epoch' \in {epoch, epoch + 1} /\ faults' \in {faults, faults + 1}
  BY DEF BeginChainTransition, Saved, SaveFailed, Fault, NoFault
<1>2. TypeOK /\ job \in Job /\ mem \in Journal /\ epoch \in Nat /\ faults \in Nat
  BY DEF IInv, TypeOK
<1>3. job' \in Job /\ job'.pc \in {"plan", "finish", "idle"}
  <2>1. mem.step["KillSwitch"] \in StepStates BY <1>2 DEF Journal, Kinds
  <2> QED BY <1>1, <1>2, <2>1, ChainUpdates, JobUpdates
<1>4. /\ mem' \in Journal /\ mem'.device = mem.device
      /\ mem'.phase = mem.phase /\ mem'.step = mem.step
  BY <1>1, <1>2, ChainUpdates
<1>5. TypeOK'
  BY <1>1, <1>2, <1>3, <1>4 DEF TypeOK, device, clients
<1>6. Quiet
  BY <1>1, <1>3, <1>4 DEF IInv, Retired, Quiet, Calm, Empty, device
<1> QED BY <1>5, <1>6, QuietKeeps

\* finalize_tunnel begins with at most a change of owner.
LEMMA FinalizeTunnelKeeps ==
    ASSUME IInv, NEW e \in Engines, FinalizeTunnel(e)
    PROVE  IInv'
<1>1. /\ mem.phase \in {"Active", "Prepared"}
      /\ UNCHANGED <<os, session, device, clients>>
      /\ mem' \in {mem, OwnedBy(mem, e)} /\ disk' \in {disk, mem'}
      /\ job' \in {Run("finalize", "switch", e), Idle}
      /\ faults' \in {faults, faults + 1}
  BY DEF FinalizeTunnel, Save, Saved, SaveFailed, Fault, NoFault
<1>2. TypeOK /\ job \in Job /\ mem \in Journal BY DEF IInv, TypeOK
<1>3. job' \in Job /\ job'.pc \in {"switch", "idle"}
  <2>1. /\ Run("finalize", "switch", e) \in Job
        /\ Run("finalize", "switch", e).pc = "switch"
    BY RunType DEF Handlers, Labels
  <2> QED BY <1>1, <1>2, <2>1, JobUpdates
<1>4. /\ mem' \in Journal /\ mem'.device = mem.device
      /\ mem'.phase = mem.phase /\ mem'.step = mem.step
  BY <1>1, <1>2, FieldUpdates
<1>5. TypeOK'
  BY <1>1, <1>2, <1>3, <1>4, FrameType DEF TypeOK
<1>6. Quiet
  BY <1>1, <1>3, <1>4 DEF IInv, Retired, Quiet, Calm, Empty, device
<1> QED BY <1>5, <1>6, QuietKeeps

\* The switch to the final network ends with a change of phase and plan.
LEMMA SwitchDoneKeeps == IInv /\ SwitchDone => IInv'
<1> SUFFICES ASSUME IInv, SwitchDone PROVE IInv' OBVIOUS
<1>1. /\ job.pc = "switch" /\ UNCHANGED <<os, session, device, clients>>
      /\ mem' = Finalized(mem) /\ disk' \in {disk, mem'}
      /\ job' \in {Todo(job, {"InterfaceConfiguration", "Dns"}), Idle}
      /\ faults' \in {faults, faults + 1}
  BY DEF SwitchDone, Save, Saved, SaveFailed, Fault, NoFault
<1>2. TypeOK /\ job \in Job /\ mem \in Journal BY DEF IInv, TypeOK
<1>3. job' \in Job /\ job'.pc \in {"plan", "finish", "idle"}
  <2>1. {"InterfaceConfiguration", "Dns"} \subseteq Kinds BY DEF Kinds
  <2> QED BY <1>1, <1>2, <2>1, JobUpdates, TodoUpdates
<1>4. /\ mem' \in Journal /\ mem'.device = mem.device
      /\ mem'.phase = "Prepared" /\ mem'.step = mem.step
  <2> DEFINE plan == [mem.plan EXCEPT !.defer = FALSE]
  <2>1. plan \in AllPlans BY <1>2 DEF Journal, AllPlans
  <2>2. mem' = [mem EXCEPT !.phase = "Prepared", !.plan = plan]
    BY <1>1, <1>2 DEF Finalized, Journal
  <2> HIDE DEF plan
  <2> QED BY <1>2, <2>1, <2>2 DEF Journal, Phases
<1>5. TypeOK'
  BY <1>1, <1>2, <1>3, <1>4, FrameType DEF TypeOK
<1>6. Quiet
  BY <1>1, <1>3, <1>4 DEF IInv, Retired, Quiet, Calm, Empty, device
<1> QED BY <1>5, <1>6, QuietKeeps

(***************************************************************************)
(* An effect goes, then its step: the two halves of every restore.         *)
(***************************************************************************)
\* A native restore removes effects and changes no record.
LEMMA ShrinkKeeps ==
    ASSUME IInv, TypeOK', Intent', Gone', OnClean', os' \subseteq os,
           UNCHANGED <<mem, disk, devLease, retire>>, ~retire.worker,
           job'.pc \in Calm \cup {"mark", "restore", "switched", "closed", "proxy_undone"}
    PROVE  IInv'
<1>1. Recorded' /\ CleanIsDurable'
  BY DEF IInv, Recorded, CleanIsDurable, Covers, Empty
<1>2. Retired'
  BY DEF IInv, Retired, Calm
<1> QED BY <1>1, <1>2 DEF IInv

\* The step of an effect that is gone may be dropped or marked Restored.
LEMMA ForgetKeeps ==
    ASSUME IInv, TypeOK', NEW k \in Kinds, k \notin os,
           UNCHANGED <<os, devLease, retire>>, ~retire.worker,
           mem'.phase = mem.phase, mem'.kind = mem.kind, mem'.device = mem.device,
           \A x \in Kinds : x # k => mem'.step[x] = mem.step[x],
           mem.phase = "Clean" => mem'.step[k] = "Absent",
           disk' \in {disk, mem'},
           job'.pc \in Calm \cup {"plan", "restore"},
           job'.pc \in {"plan", "restore"} => mem.phase # "Clean",
           job'.pc = "restore" => "PacketSession" \notin job'.failed
    PROVE  IInv'
<1>1. Recorded' /\ CleanIsDurable'
  BY DEF IInv, Recorded, CleanIsDurable, Covers, Empty
<1>2. Intent' /\ Gone' /\ OnClean'
  BY DEF Intent, Gone, OnClean, Calm
<1>3. Retired'
  BY DEF IInv, Retired, Calm
<1> QED BY <1>1, <1>2, <1>3 DEF IInv

\* A removal still in its worker excludes every handler but a retirement.
LEMMA NoWorker ==
    ASSUME IInv, job.pc \notin {"idle", "retire", "retired", "boot_retire", "halted"}
    PROVE  ~retire.worker
  BY DEF IInv, Retired

\* StepUpdates for a journal from which a step is removed.
LEMMA RemoveMem ==
    ASSUME mem \in Journal, NEW k \in Kinds, mem' = Remove(mem, k)
    PROVE  /\ mem' \in Journal /\ mem'.phase = mem.phase /\ mem'.kind = mem.kind
           /\ mem'.device = mem.device
           /\ \A x \in Kinds : mem'.step[x] = IF x = k THEN "Absent" ELSE mem.step[x]
<1>1. /\ Remove(mem, k) \in Journal /\ Remove(mem, k).phase = mem.phase
      /\ Remove(mem, k).kind = mem.kind /\ Remove(mem, k).device = mem.device
      /\ \A x \in Kinds : Remove(mem, k).step[x] =
                             IF x = k THEN "Absent" ELSE mem.step[x]
  BY StepUpdates
<1> QED BY <1>1

\* finalize_tunnel removes an old resource before its receipt.
LEMMA SwitchStepKeeps == IInv /\ SwitchStep => IInv'
<1> SUFFICES ASSUME IInv, SwitchStep PROVE IInv' OBVIOUS
<1>1. job.pc = "switch" /\ UNCHANGED <<mem, disk, session, device, clients>>
  BY DEF SwitchStep
<1>2. PICK k \in Kinds :
        /\ os' \in {os, os \ {k}} /\ faults' \in {faults, faults + 1}
        /\ \/ os' = os \ {k} /\ job' = At("switched", k)
           \/ job' = Idle
  BY DEF SwitchStep, Fault, NoFault
<1>3. TypeOK /\ job \in Job /\ mem \in Journal /\ disk \in Journal /\ faults \in Nat
  BY DEF IInv, TypeOK
<1>4. /\ At("switched", k) \in Job /\ At("switched", k).pc = "switched"
      /\ At("switched", k).kind = k /\ Idle \in Job /\ Idle.pc = "idle"
  BY <1>2, <1>3, JobUpdates DEF Labels
<1>5. job' \in Job /\ faults' \in Nat /\ os' \subseteq Effects
  BY <1>2, <1>3, <1>4 DEF TypeOK
<1>6. TypeOK' BY <1>1, <1>3, <1>5, FrameType
<1>7. Intent' /\ Gone' /\ OnClean'
  BY <1>2, <1>4 DEF Intent, Gone, OnClean
<1>8. ~retire.worker BY <1>1, NoWorker
<1>9. /\ os' \subseteq os
      /\ job'.pc \in Calm \cup {"mark", "restore", "switched", "closed", "proxy_undone"}
  BY <1>2, <1>4 DEF Calm
<1> QED BY <1>1, <1>6, <1>7, <1>8, <1>9, ShrinkKeeps DEF device

\* The receipt goes once the resource is gone.
LEMMA SwitchRecordedKeeps == IInv /\ SwitchRecorded => IInv'
<1> SUFFICES ASSUME IInv, SwitchRecorded PROVE IInv' OBVIOUS
<1>1. /\ job.pc = "switched" /\ UNCHANGED <<os, session, device, clients>>
      /\ mem' = Remove(mem, job.kind) /\ disk' \in {disk, mem'}
      /\ job' \in {Goto("switch"), Idle} /\ faults' \in {faults, faults + 1}
  BY DEF SwitchRecorded, Save, Saved, SaveFailed, Fault, NoFault
<1>2. TypeOK /\ job \in Job /\ mem \in Journal /\ disk \in Journal
  BY DEF IInv, TypeOK
<1>3. job.kind \in Kinds /\ job.kind \notin os
  BY <1>1 DEF IInv, Intent, Gone
<1>4. /\ mem' \in Journal /\ mem'.phase = mem.phase /\ mem'.kind = mem.kind
      /\ mem'.device = mem.device
      /\ \A x \in Kinds : mem'.step[x] = IF x = job.kind THEN "Absent" ELSE mem.step[x]
  BY <1>1, <1>2, <1>3, RemoveMem
<1>5. job' \in Job /\ job'.pc \in {"switch", "idle"}
  BY <1>1, <1>2, JobUpdates DEF Labels
<1>6. TypeOK' BY <1>1, <1>2, <1>4, <1>5, FrameType DEF TypeOK
<1>7. ~retire.worker BY <1>1, NoWorker
<1> QED BY <1>1, <1>3, <1>4, <1>5, <1>6, <1>7, ForgetKeeps DEF Calm, device

\* The proxy is restored before its step is dropped.
LEMMA UndoSystemProxyKeeps == IInv /\ UndoSystemProxy => IInv'
<1> SUFFICES ASSUME IInv, UndoSystemProxy PROVE IInv' OBVIOUS
<1>1. /\ job.pc = "proxy_undo" /\ UNCHANGED <<mem, disk, session, device, clients>>
      /\ os' \in {os, os \ {"SystemProxy"}} /\ faults' \in {faults, faults + 1}
      /\ \/ os' = os \ {"SystemProxy"} /\ job' = Goto("proxy_undone")
         \/ job' = Idle
  BY DEF UndoSystemProxy, Fault, NoFault
<1>2. TypeOK /\ job \in Job /\ mem \in Journal /\ disk \in Journal /\ faults \in Nat
  BY DEF IInv, TypeOK
<1>3. /\ Goto("proxy_undone") \in Job /\ Goto("proxy_undone").pc = "proxy_undone"
      /\ Idle \in Job /\ Idle.pc = "idle"
  BY <1>2, JobUpdates DEF Labels
<1>4. job' \in Job /\ faults' \in Nat /\ os' \subseteq Effects
  BY <1>1, <1>2, <1>3 DEF TypeOK
<1>5. TypeOK' BY <1>1, <1>2, <1>4, FrameType
<1>6. Intent' /\ Gone' /\ OnClean'
  BY <1>1, <1>3 DEF Intent, Gone, OnClean
<1>7. ~retire.worker BY <1>1, NoWorker
<1>8. /\ os' \subseteq os
      /\ job'.pc \in Calm \cup {"mark", "restore", "switched", "closed", "proxy_undone"}
  BY <1>1, <1>3 DEF Calm
<1> QED BY <1>1, <1>5, <1>6, <1>7, <1>8, ShrinkKeeps DEF device

\* The step of the proxy goes once the proxy is restored.
LEMMA SystemProxyUndoneKeeps == IInv /\ SystemProxyUndone => IInv'
<1> SUFFICES ASSUME IInv, SystemProxyUndone PROVE IInv' OBVIOUS
<1>1. /\ job.pc = "proxy_undone" /\ UNCHANGED <<os, session, device, clients>>
      /\ mem' = Remove(mem, "SystemProxy") /\ disk' \in {disk, mem'}
      /\ job' = Idle /\ faults' \in {faults, faults + 1}
  BY DEF SystemProxyUndone, Save, Saved, SaveFailed, Fault, NoFault
<1>2. TypeOK /\ job \in Job /\ mem \in Journal /\ disk \in Journal
  BY DEF IInv, TypeOK
<1>3. "SystemProxy" \in Kinds /\ "SystemProxy" \notin os
  BY <1>1 DEF IInv, Gone, Kinds
<1>4. /\ mem' \in Journal /\ mem'.phase = mem.phase /\ mem'.kind = mem.kind
      /\ mem'.device = mem.device
      /\ \A x \in Kinds : mem'.step[x] = IF x = "SystemProxy" THEN "Absent" ELSE mem.step[x]
  BY <1>1, <1>2, <1>3, RemoveMem
<1>5. job' \in Job /\ job'.pc = "idle" BY <1>1, <1>2, JobUpdates
<1>6. TypeOK' BY <1>1, <1>2, <1>4, <1>5, FrameType DEF TypeOK
<1>7. ~retire.worker BY <1>1, NoWorker
<1> QED BY <1>1, <1>3, <1>4, <1>5, <1>6, <1>7, ForgetKeeps DEF Calm, device

\* A step that open_packet_session drops was restored, so its pump is stopped.
LEMMA OpenPacketSessionKeeps ==
    ASSUME IInv, NEW e \in Engines, OpenPacketSession(e)
    PROVE  IInv'
<1> DEFINE open == Todo(Run("open", "plan", e), {"PacketSession"})
<1>1. /\ mem.phase = "Prepared" /\ mem.step["PacketSession"] \in {"Absent", "Restored"}
      /\ UNCHANGED <<disk, os, session, device, clients, faults>>
      /\ mem' \in {mem, Remove(mem, "PacketSession")} /\ job' = open
  BY DEF OpenPacketSession
<1>2. TypeOK /\ job \in Job /\ mem \in Journal /\ disk \in Journal
  BY DEF IInv, TypeOK
<1>3. "PacketSession" \in Kinds /\ "PacketSession" \notin os
  BY <1>1 DEF IInv, Recorded, Covers, Unresolved, Kinds
<1>4. open \in Job /\ open.pc \in {"plan", "finish"}
  <2>1. Run("open", "plan", e) \in Job BY RunType DEF Handlers, Labels
  <2> QED BY <1>3, <2>1, TodoUpdates
<1> HIDE DEF open
<1>5. /\ mem' \in Journal /\ mem'.phase = mem.phase /\ mem'.kind = mem.kind
      /\ mem'.device = mem.device
      /\ \A x \in Kinds : x # "PacketSession" => mem'.step[x] = mem.step[x]
  BY <1>1, <1>2, <1>3, RemoveMem
<1>6. TypeOK' BY <1>1, <1>2, <1>4, <1>5, FrameType DEF TypeOK
<1>7. ~retire.worker BY <1>1 DEF IInv, Retired
<1> QED BY <1>1, <1>3, <1>4, <1>5, <1>6, <1>7, ForgetKeeps DEF Calm, device

(***************************************************************************)
(* Packet sessions and the liveness leases of the tunnel.                  *)
(***************************************************************************)
LEMMA StopPacketPumpKeeps == IInv /\ StopPacketPump => IInv'
<1> SUFFICES ASSUME IInv, StopPacketPump PROVE IInv' OBVIOUS
<1>1. /\ job.pc \in {"close", "detach"}
      /\ UNCHANGED <<mem, disk, session, device, pipes, used, instance>>
      /\ os' \in {os, os \ {"PacketSession"}} /\ faults' \in {faults, faults + 1}
      /\ \/ os' = os \ {"PacketSession"} /\ job' \in {Goto("closed"), Goto("detached")}
         \/ job' = Idle
      /\ UNCHANGED watchdogs \/ Arm(mem.op, epoch, "stale")
  BY DEF StopPacketPump, Fault, NoFault
<1>2. /\ TypeOK /\ job \in Job /\ mem \in Journal /\ disk \in Journal /\ faults \in Nat
      /\ epoch \in Nat /\ mem.op \in Operations \cup {None}
  BY DEF IInv, TypeOK, Journal
<1>3. /\ Goto("closed") \in Job /\ Goto("closed").pc = "closed"
      /\ Goto("detached") \in Job /\ Goto("detached").pc = "detached"
      /\ Idle \in Job /\ Idle.pc = "idle"
  BY <1>2, JobUpdates DEF Labels
<1>4. watchdogs' \subseteq Watchdog
  <2>1. CASE UNCHANGED watchdogs BY <1>2, <2>1 DEF TypeOK
  <2>2. CASE Arm(mem.op, epoch, "stale") BY <1>2, <2>2, ArmType
  <2> QED BY <1>1, <2>1, <2>2
<1>5. TypeOK'
  BY <1>1, <1>2, <1>3, <1>4 DEF TypeOK, session, device
<1>6. Intent' /\ Gone' /\ OnClean'
  BY <1>1, <1>3 DEF Intent, Gone, OnClean
<1>7. ~retire.worker BY <1>1, NoWorker
<1>8. /\ os' \subseteq os
      /\ job'.pc \in Calm \cup {"mark", "restore", "switched", "closed", "proxy_undone"}
  BY <1>1, <1>3 DEF Calm
<1> QED BY <1>1, <1>5, <1>6, <1>7, <1>8, ShrinkKeeps DEF device

\* close_packet_session forgets a pump only after it stopped.
LEMMA SessionClosedKeeps == IInv /\ SessionClosed => IInv'
<1> SUFFICES ASSUME IInv, SessionClosed PROVE IInv' OBVIOUS
<1>1. /\ job.pc = "closed" /\ UNCHANGED <<os, lease, epoch, device, clients>>
      /\ mem' = mem \/ mem' = Remove(mem, "PacketSession")
      /\ disk' \in {disk, mem'} /\ pkt' = FALSE
      /\ job' = Idle /\ faults' \in {faults, faults + 1}
  BY DEF SessionClosed, Save, Saved, SaveFailed, Fault, NoFault
<1>2. /\ TypeOK /\ job \in Job /\ mem \in Journal /\ disk \in Journal
      /\ "PacketSession" \in Kinds /\ "PacketSession" \notin os
  BY <1>1 DEF IInv, TypeOK, Gone, Kinds
<1>3. /\ mem' \in Journal /\ mem'.phase = mem.phase /\ mem'.kind = mem.kind
      /\ mem'.device = mem.device
      /\ \A x \in Kinds : x # "PacketSession" => mem'.step[x] = mem.step[x]
      /\ mem'.step["PacketSession"] \in {mem.step["PacketSession"], "Absent"}
  BY <1>1, <1>2, RemoveMem
<1>4. job' \in Job /\ job'.pc = "idle" BY <1>1, <1>2, JobUpdates
<1>5. TypeOK'
  <2>1. pkt' \in BOOLEAN BY <1>1
  <2>2. faults' \in Nat /\ disk' \in Journal BY <1>1, <1>2, <1>3 DEF TypeOK
  <2> QED BY <1>1, <1>2, <1>3, <1>4, <2>1, <2>2 DEF TypeOK, device, clients
<1>6. ~retire.worker BY <1>1, NoWorker
<1>7. mem.phase = "Clean" => mem'.step["PacketSession"] = "Absent"
  BY <1>2, <1>3 DEF IInv, Recorded, Empty
<1> QED BY <1>1, <1>2, <1>3, <1>4, <1>5, <1>6, <1>7, ForgetKeeps DEF Calm, device

\* resume_tunnel saves the step of the pump before it starts the pump.
LEMMA ResumeTunnelKeeps ==
    ASSUME IInv, NEW e \in Engines, ResumeTunnel(e)
    PROVE  IInv'
<1>1. /\ mem.phase = "Active" /\ mem.step["PacketSession"] = "Applied"
      /\ UNCHANGED <<os, session, device, clients>>
      /\ mem' = Resumed(mem, e) /\ faults' \in {faults, faults + 1}
      /\ \/ disk' = mem' /\ job' = Run("resume", "resume", e)
         \/ disk' = disk /\ job' = Idle
  BY DEF ResumeTunnel, Save, Saved, SaveFailed, Fault, NoFault
<1>2. TypeOK /\ job \in Job /\ mem \in Journal /\ disk \in Journal
  BY DEF IInv, TypeOK
<1>3. /\ Run("resume", "resume", e) \in Job /\ Run("resume", "resume", e).pc = "resume"
      /\ Idle \in Job /\ Idle.pc = "idle"
  BY <1>2, RunType, JobUpdates DEF Handlers, Labels
<1>4. /\ mem' \in Journal /\ mem'.device = mem.device
      /\ mem'.phase = mem.phase /\ mem'.step = mem.step
  BY <1>1, <1>2, ChainUpdates
<1>5. TypeOK' BY <1>1, <1>2, <1>3, <1>4, FrameType DEF TypeOK
<1>6. Recorded' /\ CleanIsDurable'
  BY <1>1, <1>4 DEF IInv, Recorded, CleanIsDurable, Covers, Empty
<1>7. Intent' /\ Gone' /\ OnClean'
  BY <1>1, <1>3, <1>4 DEF Intent, Gone, OnClean, Unresolved
<1>8. Retired'
  BY <1>1, <1>3, <1>4 DEF IInv, Retired, device
<1> QED BY <1>5, <1>6, <1>7, <1>8 DEF IInv

\* The resumed pump is recorded in both copies.
LEMMA StartPacketPumpKeeps == IInv /\ StartPacketPump => IInv'
<1> SUFFICES ASSUME IInv, StartPacketPump PROVE IInv' OBVIOUS
<1>1. /\ job.pc = "resume" /\ job' = Idle
      /\ UNCHANGED <<mem, disk, lease, epoch, device, clients>>
      /\ os' \in {os, os \cup {"PacketSession"}} /\ pkt' \in {pkt, TRUE}
      /\ faults' \in {faults, faults + 1}
  BY DEF StartPacketPump, Fault, NoFault
<1>2. TypeOK /\ job \in Job /\ "PacketSession" \in Kinds
  BY DEF IInv, TypeOK, Kinds
<1>3. job' \in Job /\ job'.pc = "idle" BY <1>1, <1>2, JobUpdates
<1>4. TypeOK'
  <2>1. pkt' \in BOOLEAN BY <1>1, <1>2 DEF TypeOK
  <2>2. faults' \in Nat BY <1>1, <1>2 DEF TypeOK
  <2>3. os' \subseteq Effects BY <1>1, <1>2 DEF TypeOK, Effects
  <2> QED BY <1>1, <1>2, <1>3, <2>1, <2>2, <2>3 DEF TypeOK, device, clients
<1>5. Recorded' /\ CleanIsDurable'
  BY <1>1, <1>2 DEF IInv, Recorded, CleanIsDurable, Covers, Empty, Intent, Device, Kinds
<1>6. Intent' /\ Gone' /\ OnClean'
  BY <1>3 DEF Intent, Gone, OnClean
<1>7. Retired'
  BY <1>1, <1>3 DEF IInv, Retired, device, Device
<1> QED BY <1>4, <1>5, <1>6, <1>7 DEF IInv

\* Taking the tunnel lease is quiet.
LEMMA AcquireTunnelLeaseKeeps ==
    ASSUME IInv, NEW e \in Engines, AcquireTunnelLease(e)
    PROVE  IInv'
<1> DEFINE pipe == [e |-> e, op |-> mem.op, lease |-> "active"]
<1>1. /\ Ready /\ lease' = TRUE /\ epoch' = epoch + 1 /\ Attach(pipe)
      /\ UNCHANGED <<mem, disk, os, pkt, device, used, instance, faults, job>>
  BY DEF AcquireTunnelLease
<1>2. TypeOK /\ mem \in Journal /\ epoch \in Nat BY DEF IInv, TypeOK
<1>3. pipe \in Pipe BY <1>2 DEF Journal, Pipe
<1> HIDE DEF pipe
<1>4. pipes' \subseteq Pipe /\ watchdogs' \subseteq Watchdog
  BY <1>1, <1>2, <1>3, AttachType
<1>5. TypeOK' BY <1>1, <1>2, <1>4 DEF TypeOK, device
<1>6. Quiet
  BY <1>1 DEF IInv, Retired, Recorded, Quiet, Calm, Ready, Empty, device
<1> QED BY <1>5, <1>6, QuietKeeps

\* The end of a startup pipe is quiet.
LEMMA StartupPipeEndsKeeps ==
    ASSUME IInv, NEW p \in pipes, StartupPipeEnds(p)
    PROVE  IInv'
<1>1. /\ Ready /\ pipes' = pipes \ {p} /\ epoch' \in {epoch, epoch + 1}
      /\ UNCHANGED watchdogs \/ Arm(p.op, epoch + 1, "startup")
      /\ UNCHANGED <<mem, disk, os, pkt, lease, device, used, instance, faults, job>>
  BY DEF StartupPipeEnds
<1>2. TypeOK /\ p.op \in Operations \cup {None} /\ epoch \in Nat /\ epoch + 1 \in Nat
  BY DEF IInv, TypeOK, Pipe
<1>3. watchdogs' \subseteq Watchdog
  <2>1. CASE UNCHANGED watchdogs BY <1>2, <2>1 DEF TypeOK
  <2>2. CASE Arm(p.op, epoch + 1, "startup") BY <1>2, <2>2, ArmType
  <2> QED BY <1>1, <2>1, <2>2
<1>4. TypeOK' BY <1>1, <1>2, <1>3 DEF TypeOK, device
<1>5. Quiet
  BY <1>1 DEF IInv, Retired, Recorded, Quiet, Calm, Ready, Empty, device
<1> QED BY <1>4, <1>5, QuietKeeps

\* The ends of an active pipe and of a watchdog's delay act on a running
\* transaction only.
LEMMA OrphanKeeps ==
    ASSUME IInv, \/ \E p \in pipes : ActivePipeEnds(p)
                 \/ \E w \in watchdogs : WatchdogFires(w)
    PROVE  IInv'
<1>1. /\ Ready /\ pipes' \subseteq pipes /\ watchdogs' \subseteq watchdogs
      /\ UNCHANGED <<mem, disk, os, session, device, used, instance, faults>>
  BY DEF ActivePipeEnds, WatchdogFires
<1>2. TypeOK /\ job \in Job BY DEF IInv, TypeOK
<1>3. PICK e \in Engines \cup {None} :
        \/ job' = Idle
        \/ /\ mem.phase # "Clean"
           /\ job' \in {Run("release", "detach", e), Run("release", "detached", e),
                        Run("recover", "recover", e)}
  <2>1. CASE \E p \in pipes : ActivePipeEnds(p)
    <3>1. PICK p \in pipes : ActivePipeEnds(p) BY <2>1
    <3>2. p.e \in Engines \cup {None} BY <1>2 DEF TypeOK, Pipe
    <3> QED BY <3>1, <3>2 DEF ActivePipeEnds
  <2>2. CASE \E w \in watchdogs : WatchdogFires(w)
    <3>1. PICK w \in watchdogs : WatchdogFires(w) BY <2>2
    <3>2. Orphaned(w) => mem.phase # "Clean" BY DEF Orphaned
    <3> QED BY <3>1, <3>2 DEF WatchdogFires
  <2> QED BY <2>1, <2>2
<1>4. /\ job' \in Job /\ job'.pc \in {"idle", "detach", "detached", "recover"}
      /\ job'.pc # "idle" => mem.phase # "Clean"
  <2>1. /\ {"detach", "detached", "recover"} \subseteq Labels
        /\ {"release", "recover"} \subseteq Handlers
    BY DEF Labels, Handlers
  <2> QED BY <1>2, <1>3, <2>1, RunType, JobUpdates
<1>5. TypeOK' BY <1>1, <1>2, <1>4 DEF TypeOK, session, device
<1>6. Quiet
  BY <1>1, <1>4 DEF IInv, Retired, Recorded, Quiet, Calm, Empty, device
<1> QED BY <1>5, <1>6, QuietKeeps

\* Releasing the tunnel lease saves the journal as it is.
LEMMA LeaseReleasedKeeps == IInv /\ LeaseReleased => IInv'
<1> SUFFICES ASSUME IInv, LeaseReleased PROVE IInv' OBVIOUS
<1>1. /\ job.pc = "detached" /\ pkt' = FALSE /\ lease' = FALSE /\ job' = Idle
      /\ mem' = mem /\ disk' \in {disk, mem'} /\ faults' \in {faults, faults + 1}
      /\ UNCHANGED <<os, device, pipes, used, instance>>
      /\ epoch' \in {epoch, epoch + 1}
      /\ Arm(mem.op, epoch + 1, "active") \/ Arm(mem.op, epoch, "stale")
  BY DEF LeaseReleased, Saved, SaveFailed, Fault, NoFault
<1>2. /\ TypeOK /\ job \in Job /\ mem.op \in Operations \cup {None}
      /\ epoch \in Nat /\ epoch + 1 \in Nat
  BY DEF IInv, TypeOK, Journal
<1>3. watchdogs' \subseteq Watchdog
  <2>1. CASE Arm(mem.op, epoch + 1, "active") BY <1>2, <2>1, ArmType
  <2>2. CASE Arm(mem.op, epoch, "stale") BY <1>2, <2>2, ArmType
  <2> QED BY <1>1, <2>1, <2>2
<1>4. job' \in Job /\ job'.pc = "idle" BY <1>1, <1>2, JobUpdates
<1>5. TypeOK'
  <2>1. pkt' \in BOOLEAN /\ lease' \in BOOLEAN BY <1>1
  <2>2. faults' \in Nat /\ epoch' \in Nat /\ mem' \in Journal /\ disk' \in Journal
    BY <1>1, <1>2 DEF TypeOK
  <2> QED BY <1>1, <1>2, <1>3, <1>4, <2>1, <2>2 DEF TypeOK, device
<1>6. Quiet
  BY <1>1, <1>4 DEF IInv, Retired, Recorded, Quiet, Calm, Empty, device
<1> QED BY <1>5, <1>6, QuietKeeps
(***************************************************************************)
(* The device lease, and the handlers that its end starts.                 *)
(***************************************************************************)
\* Retirement starts on a clean journal, recovery on any other.
LEMMA CleanUpType ==
    ASSUME NEW h \in Handlers, NEW e \in Engines \cup {None}
    PROVE  /\ CleanUp(h, e) \in Job /\ CleanUp(h, e).pc \in {"retire", "recover"}
           /\ CleanUp(h, e).pc = "recover" <=> mem.phase # "Clean"
<1>1. {"retire", "recover"} \subseteq Labels BY DEF Labels
<1> QED BY <1>1, RunType DEF CleanUp

\* Handlers that start with no owner of the device: the explicit release, the
\* orphan timer, the retry of a retirement, and system shutdown.
LEMMA CleanUpKeeps ==
    ASSUME IInv, \/ \E e \in Engines : ReleaseDeviceLease(e)
                 \/ \E key \in devTimers : DeviceTimerFires(key)
                 \/ RetryRetirement \/ Shutdown
    PROVE  IInv'
<1> DEFINE retiring == Run("retire", "retire", None)
<1>1. /\ UNCHANGED <<mem, disk, os, session, retire, clients, faults>>
      /\ devTimers' \subseteq devTimers
      /\ devLease' \in {devLease, [devLease EXCEPT !.attached = FALSE]}
  BY DEF ReleaseDeviceLease, DeviceTimerFires, RetryRetirement, Shutdown, device
<1>2. PICK h \in {"retire", "shutdown"}, e \in Engines \cup {None} :
        \/ job' = Idle
        \/ job' = CleanUp(h, e) /\ ~devLease'.attached
        \/ job' = retiring /\ ~devLease'.attached
  <2>1. devLease \in DeviceLease /\ None \in Engines \cup {None} BY DEF IInv, TypeOK
  <2>2. [devLease EXCEPT !.attached = FALSE].attached = FALSE
    BY <2>1 DEF DeviceLease
  <2> QED BY <2>1, <2>2
          DEF ReleaseDeviceLease, DeviceTimerFires, RetryRetirement, Shutdown, device
<1>3. TypeOK /\ job \in Job /\ {"retire", "shutdown"} \subseteq Handlers
      /\ "retire" \in Labels /\ None \in Engines \cup {None}
  BY DEF IInv, TypeOK, Handlers, Labels
<1>4. /\ retiring \in Job /\ retiring.pc = "retire"
      /\ CleanUp(h, e) \in Job /\ CleanUp(h, e).pc \in {"retire", "recover"}
      /\ CleanUp(h, e).pc = "recover" <=> mem.phase # "Clean"
      /\ Idle \in Job /\ Idle.pc = "idle"
  BY <1>2, <1>3, RunType, CleanUpType, JobUpdates
<1> HIDE DEF retiring
<1>5. /\ devLease' \in DeviceLease /\ (devLease'.attached => devLease.attached)
  BY <1>1, <1>3 DEF TypeOK, DeviceLease
<1>6. TypeOK' BY <1>1, <1>2, <1>3, <1>4, <1>5 DEF TypeOK, session, clients
<1>7. Quiet
  BY <1>1, <1>2, <1>4, <1>5 DEF IInv, Retired, Recorded, Quiet, Calm, Empty
<1> QED BY <1>6, <1>7, QuietKeeps

\* Nobody takes a device whose removal has an outcome or still runs.
LEMMA AcquireDeviceLeaseKeeps ==
    ASSUME IInv, NEW e \in Engines, AcquireDeviceLease(e)
    PROVE  IInv'
<1>1. /\ Ready /\ UNCHANGED <<mem, disk, os, session, devTimers, clients, faults, job>>
      /\ mem.device \in {"Absent", "Idle", "InUse"}
      /\ devLease' = [e |-> e, key |-> devLease.key + 1, attached |-> TRUE]
      /\ retire' = [NoRetirement EXCEPT !.worker = retire.worker]
  BY DEF AcquireDeviceLease
<1>2. TypeOK /\ devLease.key \in Nat BY DEF IInv, TypeOK, DeviceLease
<1>3. ~retire.worker BY <1>1 DEF IInv, Retired
<1>4. devLease' \in DeviceLease BY <1>1, <1>2 DEF DeviceLease
<1>5. retire' \in Retirement /\ retire'.result = None /\ ~retire'.worker
  BY <1>1, <1>2, <1>3 DEF TypeOK, Retirement, NoRetirement
<1>6. TypeOK' BY <1>1, <1>2, <1>4, <1>5 DEF TypeOK, session, clients
<1>7. Recorded' /\ CleanIsDurable' /\ Intent' /\ Gone' /\ OnClean'
  BY <1>1 DEF IInv, Recorded, Covers, Empty, CleanIsDurable, Intent, Gone, OnClean,
              AllRestored
<1>8. Retired' BY <1>1, <1>5 DEF Ready, Retired, None
<1> QED BY <1>6, <1>7, <1>8 DEF IInv

\* The end of the owner's pipe, at any point of a handler.
LEMMA DevicePipeEndsKeeps == IInv /\ DevicePipeEnds => IInv'
<1> SUFFICES ASSUME IInv, DevicePipeEnds PROVE IInv' OBVIOUS
<1>1. /\ UNCHANGED <<mem, disk, os, session, retire, clients, faults, job>>
      /\ devLease' = [devLease EXCEPT !.attached = FALSE]
      /\ devTimers' = devTimers \cup {devLease.key}
  BY DEF DevicePipeEnds
<1>2. TypeOK /\ devLease.key \in Nat BY DEF IInv, TypeOK, DeviceLease
<1>3. devLease' \in DeviceLease /\ devLease'.attached = FALSE
  BY <1>1, <1>2 DEF TypeOK, DeviceLease
<1>4. TypeOK' BY <1>1, <1>2, <1>3 DEF TypeOK, session, clients
<1>5. Recorded' /\ CleanIsDurable' /\ Intent' /\ Gone' /\ OnClean'
  BY <1>1 DEF IInv, Recorded, Covers, Empty, CleanIsDurable, Intent, Gone, OnClean,
              AllRestored
<1>6. Retired' BY <1>1, <1>3 DEF IInv, Retired
<1> QED BY <1>4, <1>5, <1>6 DEF IInv

\* A late removal takes the device away and nothing else.
LEMMA WorkerFinishesKeeps == IInv /\ WorkerFinishes => IInv'
<1> SUFFICES ASSUME IInv, WorkerFinishes PROVE IInv' OBVIOUS
<1>1. /\ UNCHANGED <<mem, disk, session, devLease, devTimers, clients, faults, job>>
      /\ os' = os \ {Device} /\ retire' = [retire EXCEPT !.worker = FALSE]
  BY DEF WorkerFinishes
<1>2. TypeOK BY DEF IInv
<1>3. retire' \in Retirement /\ retire'.worker = FALSE /\ retire'.result = retire.result
  BY <1>1, <1>2 DEF TypeOK, Retirement
<1>4. TypeOK' BY <1>1, <1>2, <1>3 DEF TypeOK, session, clients
<1>5. Recorded' /\ CleanIsDurable' /\ Intent' /\ Gone' /\ OnClean'
  BY <1>1 DEF IInv, Recorded, Covers, Empty, CleanIsDurable, Intent, Gone, OnClean,
              AllRestored
<1>6. Retired'
  <2>1. retire.worker BY DEF WorkerFinishes
  <2> QED BY <1>1, <1>3, <2>1 DEF IInv, Retired
<1> QED BY <1>4, <1>5, <1>6 DEF IInv

\* A stand-alone system proxy begins its own transaction.
LEMMA StartSystemProxyKeeps ==
    ASSUME IInv, NEW e \in Engines, NEW op \in Operations, StartSystemProxy(e, op)
    PROVE  IInv'
<1> DEFINE begun == ProxyBegun(mem, op, e)
           start == Todo(Run("proxy_alone", "plan", e), {"SystemProxy"})
<1>1. /\ mem.phase = "Clean" /\ mem.device \in {"Absent", "Idle"}
      /\ UNCHANGED <<os, session, device, watchdogs, pipes, instance>>
      /\ used' = used \cup {op} /\ faults' \in {faults, faults + 1}
      /\ mem' = begun /\ disk' \in {disk, mem'} /\ job' \in {start, Idle}
  BY DEF StartSystemProxy, Save, Saved, SaveFailed, Fault, NoFault
<1>2. TypeOK /\ mem \in Journal /\ job \in Job /\ faults \in Nat BY DEF IInv, TypeOK
<1>3. /\ start \in Job /\ start.pc \in {"plan", "finish"}
      /\ Idle \in Job /\ Idle.pc = "idle"
  <2>1. Run("proxy_alone", "plan", e) \in Job /\ {"SystemProxy"} \subseteq Kinds
    BY RunType DEF Handlers, Labels, Kinds
  <2> QED BY <1>2, <2>1, TodoUpdates, JobUpdates
<1>4. /\ begun \in Journal /\ begun.phase = "Preparing"
      /\ begun.device = mem.device /\ begun.step = mem.step
  BY <1>2, BeginUpdates
<1> HIDE DEF begun, start
<1>5. faults' \in Nat /\ disk' \in Journal BY <1>1, <1>2, <1>4 DEF TypeOK
<1>6. TypeOK'
  BY <1>1, <1>2, <1>3, <1>4, <1>5 DEF TypeOK, session, device
<1>7. ~retire.worker BY <1>1 DEF IInv, Retired
<1>8. Quiet
  BY <1>1, <1>3, <1>4, <1>7 DEF Quiet, Calm, Empty, device
<1> QED BY <1>6, <1>8, QuietKeeps

(***************************************************************************)
(* recover_locked and restore_steps_locked.                                *)
(***************************************************************************)
\* Recovery starts with nothing failed.
LEMMA BeginRecoveryKeeps == IInv /\ BeginRecovery => IInv'
<1> SUFFICES ASSUME IInv, BeginRecovery PROVE IInv' OBVIOUS
<1>1. /\ job.pc = "recover" /\ UNCHANGED <<os, pkt, device, clients>>
      /\ lease' = FALSE /\ epoch' = epoch + 1
      /\ mem' = InPhase(mem, "Recovering") /\ disk' \in {disk, mem'}
      /\ job' = Failures({}) /\ faults' \in {faults, faults + 1}
  BY DEF BeginRecovery, Save, Saved, SaveFailed, Fault, NoFault
<1>2. TypeOK /\ mem \in Journal /\ disk \in Journal /\ job \in Job BY DEF IInv, TypeOK
<1>3. job' \in Job /\ job'.pc = "restore" /\ job'.failed = {}
  BY <1>1, <1>2, JobUpdates
<1>4. /\ mem' \in Journal /\ mem'.device = mem.device
      /\ mem'.phase = "Recovering" /\ mem'.step = mem.step
  BY <1>1, <1>2, FieldUpdates DEF Phases
<1>5. TypeOK'
  <2>1. lease' \in BOOLEAN BY <1>1
  <2>2. epoch' \in Nat /\ faults' \in Nat /\ disk' \in Journal
    BY <1>1, <1>2, <1>4 DEF TypeOK
  <2> QED BY <1>1, <1>2, <1>3, <1>4, <2>1, <2>2 DEF TypeOK, device, clients
<1>6. Recorded' /\ CleanIsDurable'
  BY <1>1, <1>4 DEF IInv, Recorded, CleanIsDurable, Covers, Empty
<1>7. Intent' /\ Gone' /\ OnClean' BY <1>3, <1>4 DEF Intent, Gone, OnClean
<1>8. ~retire.worker BY <1>1, NoWorker
<1>9. Retired' BY <1>1, <1>3, <1>8 DEF IInv, Retired, device
<1> QED BY <1>5, <1>6, <1>7, <1>9 DEF IInv

\* A native restore, done or failed.
LEMMA RestoreStepKeeps == IInv /\ RestoreStep => IInv'
<1> SUFFICES ASSUME IInv, RestoreStep PROVE IInv' OBVIOUS
<1>1. /\ job.pc = "restore" /\ UNCHANGED <<mem, disk, session, device, clients>>
  BY DEF RestoreStep
<1>2. PICK k \in Kinds :
        /\ os' \in {os, os \ {k}} /\ faults' \in {faults, faults + 1}
        /\ \/ job' = Goto("required")
           \/ os' = os \ {k} /\ job' = At("mark", k)
           \/ job' = RestoreFailed(k)
  BY DEF RestoreStep, Fault, NoFault
<1>3. /\ TypeOK /\ job \in Job /\ mem \in Journal /\ disk \in Journal /\ faults \in Nat
      /\ mem.phase # "Clean" /\ "PacketSession" \notin job.failed
  BY <1>1 DEF IInv, TypeOK, OnClean, Gone
<1>4. /\ Goto("required") \in Job /\ Goto("required").pc = "required"
      /\ At("mark", k) \in Job /\ At("mark", k).pc = "mark"
      /\ At("mark", k).kind = k /\ At("mark", k).failed = job.failed
  BY <1>2, <1>3, JobUpdates DEF Labels
<1>5. /\ RestoreFailed(k) \in Job /\ RestoreFailed(k).pc \in {"required", "restore"}
      /\ RestoreFailed(k).pc = "restore" => "PacketSession" \notin RestoreFailed(k).failed
  <2> DEFINE failed == job.failed \cup {k}
             label == IF k = "PacketSession" THEN "required" ELSE "restore"
  <2>1. /\ failed \in SUBSET (Kinds \cup {Persist}) /\ label \in Labels
        /\ label \in {"required", "restore"}
        /\ label = "restore" => "PacketSession" \notin failed
    BY <1>2, <1>3 DEF Job, Labels
  <2>2. RestoreFailed(k) = [job EXCEPT !.failed = failed, !.pc = label]
    BY <1>3 DEF RestoreFailed, Job
  <2> HIDE DEF failed, label
  <2> QED BY <1>3, <2>1, <2>2 DEF Job
<1>6. job' \in Job /\ faults' \in Nat /\ os' \subseteq Effects
  BY <1>2, <1>3, <1>4, <1>5 DEF TypeOK
<1>7. TypeOK' BY <1>1, <1>3, <1>6, FrameType
<1>8. Intent' /\ Gone' /\ OnClean'
  BY <1>1, <1>2, <1>3, <1>4, <1>5 DEF Intent, Gone, OnClean
<1>9. ~retire.worker BY <1>1, NoWorker
<1>10. /\ os' \subseteq os
       /\ job'.pc \in Calm \cup {"mark", "restore", "switched", "closed", "proxy_undone"}
  BY <1>2, <1>4, <1>5 DEF Calm
<1> QED BY <1>1, <1>7, <1>8, <1>9, <1>10, ShrinkKeeps DEF device

\* Its step becomes Restored, whether or not that can be saved.
LEMMA MarkRestoredKeeps == IInv /\ MarkRestored => IInv'
<1> SUFFICES ASSUME IInv, MarkRestored PROVE IInv' OBVIOUS
<1>1. /\ job.pc = "mark" /\ UNCHANGED <<os, lease, epoch, device, clients>>
      /\ pkt' = (pkt /\ job.kind # "PacketSession")
      /\ mem' = Mark(mem, job.kind, "Restored") /\ disk' \in {disk, mem'}
      /\ job' \in {Goto("restore"), Failures(job.failed \cup {Persist})}
      /\ faults' \in {faults, faults + 1}
  BY DEF MarkRestored, Save, Saved, SaveFailed, Fault, NoFault
<1>2. /\ TypeOK /\ job \in Job /\ mem \in Journal /\ disk \in Journal /\ faults \in Nat
      /\ job.kind \in Kinds /\ job.kind \notin os /\ mem.phase # "Clean"
      /\ "PacketSession" \notin job.failed
  BY <1>1 DEF IInv, TypeOK, OnClean, Gone, Intent
<1>3. /\ job' \in Job /\ job'.pc = "restore" /\ "PacketSession" \notin job'.failed
  <2>1. /\ job.failed \cup {Persist} \in SUBSET (Kinds \cup {Persist})
        /\ "PacketSession" \notin job.failed \cup {Persist} /\ "restore" \in Labels
    BY <1>2 DEF Job, Labels, Persist
  <2> QED BY <1>1, <1>2, <2>1, JobUpdates
<1>4. /\ mem' \in Journal /\ mem'.phase = mem.phase /\ mem'.kind = mem.kind
      /\ mem'.device = mem.device
      /\ \A x \in Kinds : x # job.kind => mem'.step[x] = mem.step[x]
  <2>1. "Restored" \in StepStates BY DEF StepStates
  <2> QED BY <1>1, <1>2, <2>1, MarkUpdates
<1>5. TypeOK'
  <2>1. pkt' \in BOOLEAN BY <1>1
  <2>2. faults' \in Nat /\ disk' \in Journal BY <1>1, <1>2, <1>4
  <2> QED BY <1>1, <1>2, <1>3, <1>4, <2>1, <2>2 DEF TypeOK, device, clients
<1>6. ~retire.worker BY <1>1, NoWorker
<1> QED BY <1>1, <1>2, <1>3, <1>4, <1>5, <1>6, ForgetKeeps DEF device

\* The pass ends: "clean" means that no step is left to restore.
LEMMA RestoreEndedKeeps == IInv /\ RestoreEnded => IInv'
<1> SUFFICES ASSUME IInv, RestoreEnded PROVE IInv' OBVIOUS
<1>1. /\ job.pc = "restore" /\ Pending = {}
      /\ UNCHANGED <<mem, disk, os, session, device, clients, faults>>
      /\ job' = Goto("required") \/ (job.failed = {} /\ job' = Goto("clean"))
  BY DEF RestoreEnded
<1>2. TypeOK /\ job \in Job BY DEF IInv, TypeOK
<1>3. job' \in Job /\ job'.pc \in {"required", "clean"}
      /\ (job'.pc = "clean" => job.failed = {})
  BY <1>1, <1>2, JobUpdates DEF Labels
<1>4. TypeOK' BY <1>1, <1>2, <1>3, FrameType DEF TypeOK
<1>5. Recorded' /\ CleanIsDurable'
  BY <1>1 DEF IInv, Recorded, CleanIsDurable, Covers, Empty
<1>6. Intent' /\ Gone' /\ OnClean'
  BY <1>1, <1>3 DEF Intent, Gone, OnClean, Pending, AllRestored
<1>7. ~retire.worker BY <1>1, NoWorker
<1>8. Retired' BY <1>1, <1>3, <1>7 DEF IInv, Retired, device
<1> QED BY <1>4, <1>5, <1>6, <1>8 DEF IInv

\* With every step restored, nothing but the device is left on the host, so
\* the journal may be emptied.
LEMMA DisconnectKeeps ==
    ASSUME IInv, TypeOK', AllRestored(mem), mem' = Disconnected(mem), disk' = mem',
           UNCHANGED <<os, devLease, retire>>, ~retire.worker,
           job'.pc \in {"idle", "boot_retire", "halted", "retire"},
           job'.pc = "retire" => ~devLease.attached
    PROVE  IInv'
<1>1. mem \in Journal /\ mem' \in Journal BY DEF IInv, TypeOK
<1>2. /\ Empty(mem)' /\ mem'.phase = "Clean"
      /\ mem'.device = "Absent" => mem.device = "Absent"
  <2>1. /\ Empty(Disconnected(mem)) /\ Disconnected(mem).phase = "Clean"
        /\ Disconnected(mem).device = "Absent" => mem.device = "Absent"
    BY <1>1, CleanUpdates
  <2> QED BY <2>1 DEF Empty
<1>3. os \cap Kinds = {} BY DEF IInv, Recorded, Covers, AllRestored
<1>4. Recorded' /\ CleanIsDurable'
  BY <1>2, <1>3 DEF IInv, Recorded, CleanIsDurable, Covers, Empty
<1>5. Intent' /\ Gone' /\ OnClean' BY DEF Intent, Gone, OnClean
<1>6. Retired' BY DEF IInv, Retired
<1> QED BY <1>4, <1>5, <1>6 DEF IInv

\* Clean is saved first, and published only then.
LEMMA PublishCleanKeeps == IInv /\ PublishClean => IInv'
<1> SUFFICES ASSUME IInv, PublishClean PROVE IInv' OBVIOUS
<1>1. /\ job.pc = "clean" /\ UNCHANGED <<os, session, device, clients>>
      /\ faults' \in {faults, faults + 1}
      /\ \/ /\ mem' = Disconnected(mem) /\ disk' = mem'
            /\ \/ job' = Done
               \/ job' = Goto("retire") /\ ~devLease.attached
         \/ mem' = mem /\ disk' = disk /\ job' = Goto("required")
  BY DEF PublishClean, Saved, Fault, NoFault
<1>2. TypeOK /\ job \in Job /\ mem \in Journal /\ disk \in Journal /\ faults \in Nat
  BY DEF IInv, TypeOK
<1>3. /\ Done \in Job /\ Done.pc \in {"idle", "boot_retire", "halted"}
      /\ Goto("retire") \in Job /\ Goto("retire").pc = "retire"
      /\ Goto("required") \in Job /\ Goto("required").pc = "required"
  BY <1>2, JobUpdates, Outcomes DEF Labels
<1>4. Disconnected(mem) \in Journal BY <1>2, CleanUpdates
<1>5. mem' \in Journal /\ disk' \in Journal /\ faults' \in Nat /\ job' \in Job
  BY <1>1, <1>2, <1>3, <1>4
<1>6. TypeOK' BY <1>1, <1>2, <1>5, FrameType DEF TypeOK
<1>7. ~retire.worker /\ AllRestored(mem) BY <1>1, NoWorker DEF IInv, Gone
<1>8. CASE mem' = Disconnected(mem) /\ disk' = mem' /\ job' # Goto("required")
  <2>1. /\ job'.pc \in {"idle", "boot_retire", "halted", "retire"}
        /\ job'.pc = "retire" => ~devLease.attached
    BY <1>1, <1>3, <1>8
  <2> QED BY <1>1, <1>6, <1>7, <1>8, <2>1, DisconnectKeeps DEF device
<1>9. CASE mem' = mem /\ disk' = disk /\ job' = Goto("required")
  <2>1. Quiet
    BY <1>1, <1>3, <1>7, <1>9 DEF IInv, Recorded, Quiet, Calm, Empty, device
  <2> QED BY <1>6, <2>1, QuietKeeps
<1> QED
  <2>1. Done # Goto("required") /\ Goto("retire") # Goto("required") BY <1>3
  <2> QED BY <1>1, <1>8, <1>9, <2>1

\* An incomplete recovery keeps every step that is left.
LEMMA RequireRecoveryKeeps == IInv /\ RequireRecovery => IInv'
<1> SUFFICES ASSUME IInv, RequireRecovery PROVE IInv' OBVIOUS
<1>1. /\ job.pc = "required" /\ UNCHANGED <<os, session, device, clients>>
      /\ mem' = InPhase(mem, "RecoveryRequired") /\ disk' \in {disk, mem'}
      /\ job' = Done /\ faults' \in {faults, faults + 1}
  BY DEF RequireRecovery, Save, Saved, SaveFailed, Fault, NoFault
<1>2. TypeOK /\ job \in Job /\ mem \in Journal BY DEF IInv, TypeOK
<1>3. job' \in Job /\ job'.pc \in {"idle", "boot_retire", "halted"}
  BY <1>1, <1>2, Outcomes
<1>4. /\ mem' \in Journal /\ mem'.device = mem.device
      /\ mem'.phase = "RecoveryRequired" /\ mem'.step = mem.step
  BY <1>1, <1>2, FieldUpdates DEF Phases
<1>5. TypeOK' BY <1>1, <1>2, <1>3, <1>4, FrameType DEF TypeOK
<1>6. ~retire.worker BY <1>1, NoWorker
<1>7. Quiet BY <1>1, <1>3, <1>4, <1>6 DEF Quiet, Calm, Empty, device
<1> QED BY <1>5, <1>7, QuietKeeps

(***************************************************************************)
(* retire_device_locked.                                                   *)
(***************************************************************************)
\* The frame of the three retirement steps.
LEMMA RetireType ==
    ASSUME TypeOK, mem' \in Journal, disk' \in Journal, os' \subseteq os,
           retire' \in Retirement, faults' \in {faults, faults + 1}, job' \in Job,
           UNCHANGED <<session, devLease, devTimers, clients>>
    PROVE  TypeOK'
<1>1. faults' \in Nat BY DEF TypeOK
<1>2. os' \subseteq Effects BY DEF TypeOK
<1> QED BY <1>1, <1>2 DEF TypeOK, session, clients

\* The intent to remove the device keeps its record.
LEMMA RetireDeviceKeeps == IInv /\ RetireDevice => IInv'
<1> SUFFICES ASSUME IInv, RetireDevice PROVE IInv' OBVIOUS
<1> DEFINE retiring == WithDevice(mem, "Retiring")
           begun == [retire EXCEPT !.retry_pending = FALSE, !.result = "Deferred"]
           again == [retire EXCEPT !.retry_pending = TRUE]
<1>1. /\ job.pc = "retire" /\ UNCHANGED <<os, session, devLease, devTimers, clients>>
      /\ faults' \in {faults, faults + 1}
      /\ \/ mem' = mem /\ disk' = disk /\ retire' = retire /\ job' = Done
         \/ /\ mem.phase = "Clean" /\ mem' = mem /\ disk' = disk /\ retire' = retire
            /\ job' = Goto("retired")
         \/ /\ mem.phase = "Clean" /\ retire.result = None
            /\ mem' = retiring /\ disk' = retiring
            /\ retire' = begun /\ job' = Goto("remove")
         \/ /\ mem.phase = "Clean" /\ retire.result = None
            /\ mem' = retiring /\ disk' = disk
            /\ retire' = again /\ job' = Done
  BY DEF RetireDevice, Saved, SaveFailed, Fault, NoFault
<1>2. /\ TypeOK /\ job \in Job /\ mem \in Journal /\ disk \in Journal
      /\ retire \in Retirement /\ ~devLease.attached
  BY <1>1 DEF IInv, TypeOK, Retired
<1>3. /\ Done \in Job /\ Done.pc \in {"idle", "boot_retire", "halted"}
      /\ Goto("retired") \in Job /\ Goto("retired").pc = "retired"
      /\ Goto("remove") \in Job /\ Goto("remove").pc = "remove"
  BY <1>2, JobUpdates, Outcomes DEF Labels
<1>4. /\ retiring \in Journal /\ retiring.device = "Retiring" /\ retiring.kind = mem.kind
      /\ retiring.phase = mem.phase /\ retiring.step = mem.step
  BY <1>2, FieldUpdates DEF DeviceStates
<1>5. /\ begun \in Retirement /\ begun.result = "Deferred" /\ begun.worker = retire.worker
      /\ again \in Retirement /\ again.result = retire.result
      /\ again.worker = retire.worker
  BY <1>2 DEF Retirement
<1> HIDE DEF retiring, begun, again
<1>6. TypeOK' BY <1>1, <1>2, <1>3, <1>4, <1>5, RetireType
<1>7. Recorded' /\ CleanIsDurable'
  BY <1>1, <1>4 DEF IInv, Recorded, CleanIsDurable, Covers, Empty
<1>8. Intent' /\ Gone' /\ OnClean'
  BY <1>1, <1>3, <1>4 DEF Intent, Gone, OnClean
<1>9. Retired'
  BY <1>1, <1>2, <1>3, <1>4, <1>5 DEF IInv, Retired, None
<1> QED BY <1>6, <1>7, <1>8, <1>9 DEF IInv

\* The native removal, complete, failed or left to its worker.
LEMMA RemoveDeviceKeeps == IInv /\ RemoveDevice => IInv'
<1> SUFFICES ASSUME IInv, RemoveDevice PROVE IInv' OBVIOUS
<1> DEFINE complete == [retire EXCEPT !.result = "Complete"]
           late == [retire EXCEPT !.worker = TRUE]
<1>1. /\ job.pc = "remove" /\ job' = Goto("retired")
      /\ UNCHANGED <<mem, disk, session, devLease, devTimers, clients>>
      /\ os' \in {os, os \ {Device}} /\ faults' \in {faults, faults + 1}
      /\ \/ os' = os \ {Device} /\ retire' = complete
         \/ retire' \in {retire, late}
  BY DEF RemoveDevice, Fault, NoFault
<1>2. /\ TypeOK /\ job \in Job /\ mem \in Journal /\ disk \in Journal
      /\ retire \in Retirement /\ ~devLease.attached
      /\ retire.result = "Deferred" /\ mem.device = "Retiring" /\ mem.phase = "Clean"
  BY <1>1 DEF IInv, TypeOK, Retired, OnClean
<1>3. job' \in Job /\ job'.pc = "retired" BY <1>1, <1>2, JobUpdates DEF Labels
<1>4. /\ complete \in Retirement /\ complete.result = "Complete"
      /\ complete.worker = retire.worker
      /\ late \in Retirement /\ late.result = retire.result /\ late.worker = TRUE
  BY <1>2 DEF Retirement
<1> HIDE DEF complete, late
<1>5. TypeOK' BY <1>1, <1>2, <1>3, <1>4, RetireType
<1>6. Recorded' /\ CleanIsDurable'
  BY <1>1 DEF IInv, Recorded, CleanIsDurable, Covers, Empty
<1>7. Intent' /\ Gone' /\ OnClean'
  BY <1>1, <1>2, <1>3 DEF Intent, Gone, OnClean
<1>8. Retired'
  <2>1. ~retire.worker BY <1>1, NoWorker
  <2> QED BY <1>1, <1>2, <1>3, <1>4, <2>1 DEF IInv, Retired, None
<1> QED BY <1>5, <1>6, <1>7, <1>8 DEF IInv

\* The journal is emptied only when the removal is known to be complete.
LEMMA RecordRetirementKeeps == IInv /\ RecordRetirement => IInv'
<1> SUFFICES ASSUME IInv, RecordRetirement PROVE IInv' OBVIOUS
<1> DEFINE pending == WithDevice(mem, "RecoveryRequired")
           saved == [retire EXCEPT !.retry_pending = FALSE]
           deferred == [saved EXCEPT !.deferred = TRUE]
           again == [retire EXCEPT !.retry_pending = TRUE]
<1>1. /\ job.pc = "retired" /\ job' = Done
      /\ UNCHANGED <<os, session, devLease, devTimers, clients>>
      /\ faults' \in {faults, faults + 1}
      /\ \/ mem' = pending /\ disk' \in {disk, mem'} /\ retire' \in {deferred, again}
         \/ /\ retire.result = "Complete" /\ mem' = CleanJournal /\ disk' = mem'
            /\ retire' = saved
  BY DEF RecordRetirement, Saved, SaveFailed, Fault, NoFault
<1>2. /\ TypeOK /\ job \in Job /\ mem \in Journal /\ disk \in Journal
      /\ retire \in Retirement /\ ~devLease.attached /\ mem.phase = "Clean"
  BY <1>1 DEF IInv, TypeOK, Retired, OnClean
<1>3. job' \in Job /\ job'.pc \in {"idle", "boot_retire", "halted"}
  BY <1>1, <1>2, Outcomes
<1>4. /\ pending \in Journal /\ pending.device = "RecoveryRequired"
      /\ pending.phase = mem.phase /\ pending.step = mem.step /\ pending.kind = mem.kind
  BY <1>2, FieldUpdates DEF DeviceStates
<1>5. /\ saved \in Retirement /\ saved.result = retire.result
      /\ saved.worker = retire.worker
      /\ deferred \in Retirement /\ deferred.result = retire.result
      /\ deferred.worker = retire.worker
      /\ again \in Retirement /\ again.result = retire.result
      /\ again.worker = retire.worker
  BY <1>2 DEF Retirement
<1>6. CleanJournal \in Journal /\ Empty(CleanJournal) /\ CleanJournal.phase = "Clean"
  BY <1>2, CleanUpdates
<1> HIDE DEF pending, saved, deferred, again
<1>7. TypeOK' BY <1>1, <1>2, <1>3, <1>4, <1>5, <1>6, RetireType
<1>8. Recorded' /\ CleanIsDurable'
  <2>1. CASE mem' = pending /\ disk' \in {disk, mem'}
    BY <1>1, <1>4, <2>1 DEF IInv, Recorded, CleanIsDurable, Covers, Empty
  <2>2. CASE retire.result = "Complete" /\ mem' = CleanJournal /\ disk' = mem'
    <3>1. os \cap Kinds = {}
      BY <1>2 DEF IInv, Recorded, Covers, Empty, Unresolved
    <3>2. Device \notin os BY <2>2 DEF IInv, Retired
    <3> QED BY <1>1, <1>6, <2>2, <3>1, <3>2
            DEF Recorded, CleanIsDurable, Covers, Empty
  <2> QED BY <1>1, <2>1, <2>2
<1>9. Intent' /\ Gone' /\ OnClean' BY <1>3 DEF Intent, Gone, OnClean
<1>10. Retired'
  BY <1>1, <1>2, <1>3, <1>4, <1>5, <1>6 DEF IInv, Retired
<1> QED BY <1>7, <1>8, <1>9, <1>10 DEF IInv

(***************************************************************************)
(* The end of a process and the start of the next.                         *)
(***************************************************************************)
\* Memory is replaced by the journal file, which covers what is left.
LEMMA RestartKeeps ==
    ASSUME IInv, \/ Crash \/ Reboot \/ IdleExit
    PROVE  IInv'
<1>1. /\ instance' = instance + 1 /\ mem' = disk /\ os' \subseteq os
      /\ pkt' = FALSE /\ lease' = FALSE /\ epoch' = 0
      /\ devLease' = NoLease /\ devTimers' = {} /\ retire' = NoRetirement
      /\ watchdogs' = {} /\ pipes' = {} /\ job' = Run("boot", "boot", None)
      /\ UNCHANGED <<disk, used, faults>>
  BY DEF Crash, Reboot, IdleExit, Restart
<1>2. TypeOK /\ None \in Engines \cup {None} BY DEF IInv
<1>3. job' \in Job /\ job'.pc = "boot"
  <2>1. "boot" \in Handlers /\ "boot" \in Labels BY DEF Handlers, Labels
  <2> QED BY <1>1, <1>2, <2>1, RunType
<1>4. /\ devLease' \in DeviceLease /\ devLease'.attached = FALSE
      /\ retire' \in Retirement /\ retire'.result = None /\ retire'.worker = FALSE
  BY <1>1 DEF NoLease, NoRetirement, DeviceLease, Retirement
<1>5. TypeOK'
  <2>1. pkt' \in BOOLEAN /\ lease' \in BOOLEAN BY <1>1
  <2>2. instance' \in Nat /\ epoch' \in Nat BY <1>1, <1>2 DEF TypeOK
  <2> QED BY <1>1, <1>2, <1>3, <1>4, <2>1, <2>2 DEF TypeOK
<1>6. Recorded' /\ CleanIsDurable'
  BY <1>1 DEF IInv, Recorded, CleanIsDurable, Covers, Empty
<1>7. Intent' /\ Gone' /\ OnClean' BY <1>3 DEF Intent, Gone, OnClean
<1>8. Retired' BY <1>3, <1>4 DEF Retired, None
<1> QED BY <1>5, <1>6, <1>7, <1>8 DEF IInv

\* Startup empties a journal whose every step is restored, and otherwise
\* keeps the record it found.
LEMMA BootKeeps == IInv /\ Boot => IInv'
<1> SUFFICES ASSUME IInv, Boot PROVE IInv' OBVIOUS
<1>1. /\ job.pc = "boot" /\ UNCHANGED <<os, session, device, pipes, used, instance>>
      /\ faults' \in {faults, faults + 1}
      /\ UNCHANGED watchdogs \/ Arm(mem.op, 0, "active")
      /\ \/ /\ AllRestored(mem) /\ mem' = Disconnected(mem) /\ disk' = mem'
            /\ job' = Goto("boot_retire")
         \/ /\ mem' \in {mem, InPhase(mem, "RecoveryRequired")} /\ disk' \in {disk, mem'}
            /\ job' \in {Goto("boot_retire"), Goto("recover")}
  BY DEF Boot, Reconciled, RetainActive, Interrupted, Quarantined, Saved, Fault, NoFault
<1>2. /\ TypeOK /\ job \in Job /\ mem \in Journal /\ disk \in Journal /\ 0 \in Nat
      /\ mem.op \in Operations \cup {None} /\ faults \in Nat
  BY DEF IInv, TypeOK, Journal
<1>3. /\ Goto("boot_retire") \in Job /\ Goto("boot_retire").pc = "boot_retire"
      /\ Goto("recover") \in Job /\ Goto("recover").pc = "recover"
  BY <1>2, JobUpdates DEF Labels
<1>4. watchdogs' \subseteq Watchdog
  <2>1. CASE UNCHANGED watchdogs BY <1>2, <2>1 DEF TypeOK
  <2>2. CASE Arm(mem.op, 0, "active") BY <1>2, <2>2, ArmType
  <2> QED BY <1>1, <2>1, <2>2
<1>5. /\ InPhase(mem, "RecoveryRequired") \in Journal
      /\ InPhase(mem, "RecoveryRequired").phase = "RecoveryRequired"
      /\ InPhase(mem, "RecoveryRequired").step = mem.step
      /\ InPhase(mem, "RecoveryRequired").device = mem.device
      /\ Disconnected(mem) \in Journal
  BY <1>2, FieldUpdates, CleanUpdates DEF Phases
<1>6. mem' \in Journal /\ disk' \in Journal /\ faults' \in Nat /\ job' \in Job
  BY <1>1, <1>2, <1>3, <1>5
<1>7. TypeOK' BY <1>1, <1>2, <1>4, <1>6 DEF TypeOK, session, device
<1>8. ~retire.worker BY <1>1, NoWorker
<1>9. CASE /\ AllRestored(mem) /\ mem' = Disconnected(mem) /\ disk' = mem'
           /\ job' = Goto("boot_retire")
  BY <1>1, <1>3, <1>7, <1>8, <1>9, DisconnectKeeps DEF device
<1>10. CASE /\ mem' \in {mem, InPhase(mem, "RecoveryRequired")} /\ disk' \in {disk, mem'}
            /\ job' \in {Goto("boot_retire"), Goto("recover")}
  <2>1. Quiet
    BY <1>1, <1>3, <1>5, <1>8, <1>10
       DEF IInv, Recorded, Quiet, Calm, Empty, device
  <2> QED BY <1>7, <2>1, QuietKeeps
<1> QED BY <1>1, <1>9, <1>10

\* Startup retires a device only while nobody owns it.
LEMMA BootRetireKeeps == IInv /\ BootRetire => IInv'
<1> SUFFICES ASSUME IInv, BootRetire PROVE IInv' OBVIOUS
<1> DEFINE start == Run("boot_retire", "retire", None)
<1>1. /\ UNCHANGED <<mem, disk, os, session, device, clients, faults>>
      /\ job' = Idle \/ (job' = start /\ ~devLease.attached)
  BY DEF BootRetire
<1>2. TypeOK /\ job \in Job BY DEF IInv, TypeOK
<1>3. start \in Job /\ start.pc = "retire" /\ Idle \in Job /\ Idle.pc = "idle"
  <2>1. "boot_retire" \in Handlers /\ "retire" \in Labels BY DEF Handlers, Labels
  <2> QED BY <1>2, <2>1, RunType, JobUpdates
<1> HIDE DEF start
<1>4. TypeOK' BY <1>1, <1>2, <1>3, FrameType DEF TypeOK
<1>5. Quiet
  BY <1>1, <1>3 DEF IInv, Retired, Recorded, Quiet, Calm, Empty, device
<1> QED BY <1>4, <1>5, QuietKeeps

(***************************************************************************)
(* The inductive invariant.                                                *)
(***************************************************************************)
\* The first state: a clean journal, an untouched host and no client.
LEMMA InitInv == Init => IInv
<1> SUFFICES ASSUME Init PROVE IInv OBVIOUS
<1>1. /\ mem \in Journal /\ disk \in Journal /\ Empty(mem) /\ Empty(disk)
      /\ disk.phase = "Clean"
  <2>1. /\ CleanJournal \in Journal
    BY DEF Journal, CleanJournal, NoSteps, NoPlan, AllPlans, Phases, StepStates,
           DeviceStates
  <2> QED BY <2>1, CleanUpdates DEF Init
<1>2. /\ devLease \in DeviceLease /\ ~devLease.attached
      /\ retire \in Retirement /\ retire.result = None /\ ~retire.worker
  BY DEF Init, NoLease, NoRetirement, DeviceLease, Retirement
<1>3. job \in Job /\ job.pc = "idle"
  BY DEF Init, Idle, Job, Handlers, Labels, AllPlans, NoPlan
<1>4. TypeOK
  <2>1. pkt \in BOOLEAN /\ lease \in BOOLEAN BY DEF Init
  <2> QED BY <1>1, <1>2, <1>3, <2>1 DEF Init, TypeOK
<1>5. Recorded /\ CleanIsDurable BY <1>1 DEF Init, Recorded, Covers, CleanIsDurable
<1>6. Intent /\ Gone /\ OnClean BY <1>3 DEF Intent, Gone, OnClean
<1>7. Retired BY <1>2, <1>3 DEF Retired, None
<1> QED BY <1>4, <1>5, <1>6, <1>7 DEF IInv

\* A state that does not change keeps the invariant.
LEMMA StutterKeeps == IInv /\ UNCHANGED vars => IInv'
<1> SUFFICES ASSUME IInv, UNCHANGED vars PROVE IInv' OBVIOUS
<1>1. TypeOK' BY DEF IInv, vars, TypeOK
<1>2. Recorded' /\ CleanIsDurable' /\ Intent' /\ Gone' /\ OnClean'
  BY DEF IInv, vars, Recorded, Covers, Empty, CleanIsDurable, Intent, Gone, OnClean,
         AllRestored
<1>3. Retired' BY DEF IInv, vars, Retired
<1> QED BY <1>1, <1>2, <1>3 DEF IInv

\* Every step of the coordinator keeps the invariant.
LEMMA StepInv == IInv /\ [Next]_vars => IInv'
<1> SUFFICES ASSUME IInv, [Next]_vars PROVE IInv' OBVIOUS
<1>1. CASE Request
  <2>1. PICK e \in Engines :
          \/ TunnelRequest(e) \/ LeaseRequest(e) \/ ChainRequest(e) \/ ProxyRequest(e)
    BY <1>1 DEF Request
  <2>2. CASE TunnelRequest(e)
    BY <2>1, <2>2, PrepareManagedKeeps, OpenPacketSessionKeeps, RequestsStart,
       AcquireDeviceLeaseKeeps, CleanUpKeeps DEF TunnelRequest
  <2>3. CASE LeaseRequest(e)
    BY <2>1, <2>3, RequestsStart, ResumeTunnelKeeps, AcquireTunnelLeaseKeeps
       DEF LeaseRequest
  <2>4. CASE ChainRequest(e)
    BY <2>1, <2>4, BeginChainTransitionKeeps, FinalizeTunnelKeeps DEF ChainRequest
  <2>5. CASE ProxyRequest(e)
    BY <2>1, <2>5, RequestsStart, StartSystemProxyKeeps DEF ProxyRequest
  <2> QED BY <2>1, <2>2, <2>3, <2>4, <2>5
<1>2. CASE Event
  <2>1. CASE \E p \in pipes : StartupPipeEnds(p)
    BY <2>1, StartupPipeEndsKeeps
  <2>2. CASE RecoveryRequest
    <3>1. CASE \E e \in Engines : RecoverOrphaned(e) BY <3>1, RequestsStart
    <3>2. CASE RecoverStale \/ RecoverAutomatic
      <4>1. mem.phase # "Clean" BY <3>2 DEF RecoverStale, RecoverAutomatic
      <4>2. /\ UNCHANGED <<mem, disk, os, session, device, clients, faults>>
            /\ job' = Run("recover", "recover", None)
        BY <3>2 DEF RecoverStale, RecoverAutomatic
      <4>3. /\ "recover" \in Labels \cap Calm \cap Handlers
            /\ None \in Engines \cup {None}
        BY DEF Labels, Calm, Handlers
      <4>4. job' \in Job /\ job'.pc \in Calm \cup {"plan"} BY <4>2, <4>3, RunType
      <4> QED BY <4>1, <4>2, <4>4, StartKeeps
    <3> QED BY <2>2, <3>1, <3>2 DEF RecoveryRequest
  <2> QED BY <1>2, <2>1, <2>2, OrphanKeeps, DevicePipeEndsKeeps, CleanUpKeeps,
             WorkerFinishesKeeps DEF Event
<1>3. CASE HandlerStep
  <2>1. CASE \/ PlanStep \/ ApplyStep \/ RecordApplied \/ CreateDevice \/ DeviceCreated
             \/ CreateFailed \/ BeginTransaction \/ FinishPrepare \/ FinishChain
             \/ FinishApply \/ FinishOpen \/ FinishCommit
    BY <2>1, PlanStepKeeps, ApplyStepKeeps, RecordAppliedKeeps, CreateDeviceKeeps,
       CreationKeeps, BeginTransactionKeeps, FinishPrepareKeeps, FinishKeeps,
       FinishCommitKeeps
  <2>2. CASE \/ SwitchStep \/ SwitchRecorded \/ SwitchDone \/ StopPacketPump
             \/ SessionClosed \/ StartPacketPump \/ LeaseReleased
             \/ UndoSystemProxy \/ SystemProxyUndone
    BY <2>2, SwitchStepKeeps, SwitchRecordedKeeps, SwitchDoneKeeps, StopPacketPumpKeeps,
       SessionClosedKeeps, StartPacketPumpKeeps, LeaseReleasedKeeps,
       UndoSystemProxyKeeps, SystemProxyUndoneKeeps
  <2>3. CASE \/ BeginRecovery \/ RestoreStep \/ MarkRestored \/ RestoreEnded
             \/ PublishClean \/ RequireRecovery \/ RetireDevice \/ RemoveDevice
             \/ RecordRetirement \/ Boot \/ BootRetire
    BY <2>3, BeginRecoveryKeeps, RestoreStepKeeps, MarkRestoredKeeps, RestoreEndedKeeps,
       PublishCleanKeeps, RequireRecoveryKeeps, RetireDeviceKeeps, RemoveDeviceKeeps,
       RecordRetirementKeeps, BootKeeps, BootRetireKeeps
  <2> QED BY <1>3, <2>1, <2>2, <2>3 DEF HandlerStep
<1>4. CASE ProcessEnd
  BY <1>4, RestartKeeps, CleanUpKeeps DEF ProcessEnd
<1>5. CASE Wait \/ UNCHANGED vars
  BY <1>5, StutterKeeps DEF Wait
<1> QED BY <1>1, <1>2, <1>3, <1>4, <1>5 DEF Next

\* IInv holds in every reachable state of the Agent (coordinator.rs,
\* device_lifecycle.rs), for all constants that satisfy ConstantsAssumption.
THEOREM Invariance == Spec => []IInv
  BY InitInv, StepInv, PTL DEF Spec

\* Every variable stays in its type.
THEOREM TypeCorrect == Spec => []TypeOK
<1>1. IInv => TypeOK BY DEF IInv
<1> QED BY <1>1, Invariance, PTL

\* No effect of apply_new_step, prepare_managed or resume_tunnel is ever in
\* Windows without a record on disk that makes the next process undo it.
THEOREM EffectsAreCovered == Spec => []DurablyCovered
<1>1. IInv => DurablyCovered BY DEF IInv, Recorded, DurablyCovered
<1> QED BY <1>1, Invariance, PTL

\* A journal that is clean in memory is clean on disk (recover_locked).
THEOREM CleanIsPublishedLast == Spec => []CleanIsDurable
<1>1. IInv => CleanIsDurable BY DEF IInv
<1> QED BY <1>1, Invariance, PTL

\* A device whose removal may still run is never offered for use
\* (retire_device_locked, acquire_device_lease).
THEOREM RemovedDeviceIsNotReused == Spec => []NoReuseDuringRemoval
<1>1. IInv => NoReuseDuringRemoval BY DEF IInv, Retired, NoReuseDuringRemoval
<1> QED BY <1>1, Invariance, PTL

(***************************************************************************)
(* Two action properties that follow from the invariant.                   *)
(***************************************************************************)
\* Only these steps take an effect away from Windows.
LEMMA WhoRemoves ==
    ASSUME [Next]_vars
    PROVE  \/ os \subseteq os'
           \/ \E k \in Kinds \ {"KillSwitch"} : os \ {k} \subseteq os'
           \/ RestoreStep
           \/ RemoveDevice \/ WorkerFinishes
           \/ devLease' = NoLease /\ instance' = instance + 1
<1>1. CASE Request
  BY <1>1 DEF Request, TunnelRequest, LeaseRequest, ChainRequest, ProxyRequest,
       PrepareManaged, OpenPacketSession, Commit, Rollback, AcquireDeviceLease,
       ReleaseDeviceLease, ClosePacketSession, ResumeTunnel, AcquireTunnelLease,
       BeginChainTransition, FinalizeTunnel, JoinSystemProxy, RestoreSystemProxy,
       StartSystemProxy
<1>2. CASE Event
  BY <1>2 DEF Event, RecoveryRequest, StartupPipeEnds, ActivePipeEnds, DevicePipeEnds,
       WatchdogFires, DeviceTimerFires, RetryRetirement, RecoverStale,
       RecoverAutomatic, RecoverOrphaned
<1>3. CASE HandlerStep
  <2>1. CASE SwitchStep
    <3>1. PICK k \in Kinds : SwitchNext(k) /\ os \ {k} \subseteq os'
      BY <2>1 DEF SwitchStep
    <3>2. k # "KillSwitch" BY <3>1 DEF SwitchNext, SwitchOrder
    <3> QED BY <3>1, <3>2
  <2>2. CASE StopPacketPump \/ UndoSystemProxy
    <3>1. {"PacketSession", "SystemProxy"} \subseteq Kinds \ {"KillSwitch"} BY DEF Kinds
    <3> QED BY <2>2, <3>1 DEF StopPacketPump, UndoSystemProxy
  <2>3. CASE \/ PlanStep \/ ApplyStep \/ RecordApplied \/ CreateDevice \/ DeviceCreated
             \/ CreateFailed \/ BeginTransaction \/ FinishPrepare \/ FinishChain
             \/ FinishApply \/ FinishOpen \/ FinishCommit \/ SwitchRecorded \/ SwitchDone
             \/ SessionClosed \/ StartPacketPump \/ LeaseReleased \/ SystemProxyUndone
    BY <2>3 DEF PlanStep, ApplyStep, RecordApplied, CreateDevice, DeviceCreated,
         CreateFailed, BeginTransaction, FinishPrepare, FinishChain, FinishApply,
         FinishOpen, FinishCommit, SwitchRecorded, SwitchDone, SessionClosed,
         StartPacketPump, LeaseReleased, SystemProxyUndone
  <2>4. CASE \/ BeginRecovery \/ MarkRestored \/ RestoreEnded \/ PublishClean
             \/ RequireRecovery \/ RetireDevice \/ RecordRetirement \/ Boot \/ BootRetire
    BY <2>4 DEF BeginRecovery, MarkRestored, RestoreEnded, PublishClean, RequireRecovery,
         RetireDevice, RecordRetirement, Boot, BootRetire
  <2> QED BY <1>3, <2>1, <2>2, <2>3, <2>4 DEF HandlerStep
<1>4. CASE ProcessEnd
  BY <1>4 DEF ProcessEnd, Crash, Reboot, IdleExit, Restart, Shutdown
<1>5. CASE Wait \/ UNCHANGED vars
  BY <1>5 DEF Wait, vars
<1> QED BY <1>1, <1>2, <1>3, <1>4, <1>5 DEF Next

\* restore_steps_locked never takes the blocking policy away while the packet
\* pump runs: a pump that did not stop ends the pass.
LEMMA PolicyAfterPump ==
    ASSUME IInv, RestoreStep, "KillSwitch" \in os \ os'
    PROVE  "PacketSession" \notin os
<1>1. PICK k \in Kinds : NextRestore(k) /\ os \ {k} \subseteq os'
  BY DEF RestoreStep
<1>2. k = "KillSwitch" BY <1>1
<1>3. "PacketSession" \notin Pending BY <1>1, <1>2 DEF NextRestore
<1>4. "PacketSession" \notin job.failed BY DEF RestoreStep, IInv, Gone
<1> QED BY <1>3, <1>4 DEF Pending, IInv, Recorded, Covers, Kinds

\* A running Agent removes the blocking policy only once the pump has stopped.
THEOREM PolicyOutlivesPump == Spec => PumpStopsBeforePolicy
<1>1. IInv /\ [Next]_vars =>
        ("KillSwitch" \in os \ os' /\ instance' = instance => "PacketSession" \notin os)
  <2> SUFFICES ASSUME IInv, [Next]_vars, "KillSwitch" \in os \ os', instance' = instance
               PROVE  "PacketSession" \notin os
    OBVIOUS
  <2>1. instance \in Nat BY DEF IInv, TypeOK
  <2>2. RestoreStep
    <3>1. ~RemoveDevice /\ ~WorkerFinishes BY DEF RemoveDevice, WorkerFinishes, Device
    <3> QED BY <2>1, <3>1, WhoRemoves
  <2> QED BY <2>2, PolicyAfterPump
<1> QED BY <1>1, Invariance, PTL DEF Spec, PumpStopsBeforePolicy

\* The device is never taken away under an attached owner.
THEOREM OwnerKeepsDevice == Spec => OwnersDeviceStays
<1>1. IInv /\ [Next]_vars => (Device \in os \ os' => ~(devLease'.attached))
  <2> SUFFICES ASSUME IInv, [Next]_vars, Device \in os \ os'
               PROVE  ~(devLease'.attached)
    OBVIOUS
  <2>1. ~RestoreStep /\ \A k \in Kinds : ~(os \ {k} \subseteq os')
    <3>1. Device \notin Kinds BY DEF Device, Kinds
    <3> QED BY <3>1 DEF RestoreStep
  <2>2. CASE RemoveDevice BY <2>2 DEF RemoveDevice, IInv, Retired
  <2>3. CASE WorkerFinishes BY <2>3 DEF WorkerFinishes, IInv, Retired, None
  <2>4. CASE devLease' = NoLease BY <2>4 DEF NoLease
  <2> QED BY <2>1, <2>2, <2>3, <2>4, WhoRemoves
<1> QED BY <1>1, Invariance, PTL DEF Spec, OwnersDeviceStays


(***************************************************************************)
(* The kill switch.                                                         *)
(***************************************************************************)
Policy == "KillSwitch"
Routes == "DefaultRoutes"
Pump == "PacketSession"

\* A phase in which a transaction goes forward.
Live == {"Preparing", "Prepared", "Active"}

\* The labels at which memory is not believed: after a restart, before Windows
\* was inspected or the recovery marked in memory.
Doubted == {"boot", "recover"}
Applying == {"plan", "apply", "applied", "finish"}
Restoring == {"restore", "mark", "clean", "required"}

\* A policy is recorded only for a plan that asks for it, Kill Switch is part of
\* a tunnel, and such a tunnel is active only with the policy applied.
PolicyRecorded(j) ==
    /\ j.step[Policy] # "Absent" => Guarded(j.plan)
    /\ j.plan.kill_switch => j.kind = "Tunnel"
    /\ j.phase = "Active" /\ j.plan.kill_switch => j.step[Policy] = "Applied"

\* A forward transaction that is believed really has the policy it recorded.
PolicyHolds ==
    mem.phase \in Live /\ job.pc \notin Doubted /\ mem.step[Policy] = "Applied"
    => Policy \in os

\* Before the commit the routes come after the policy; without a policy they
\* come only in the commit, which recovers if it fails.
RoutesLast ==
    /\ mem.phase \in {"Preparing", "Prepared"} /\ job.pc \notin Doubted
    /\ mem.step[Routes] # "Absent"
    => IF Guarded(mem.plan) THEN mem.step[Policy] = "Applied"
       ELSE job.h = "commit" /\ job.pc \in Applying

\* What the handlers know at their labels.
Forward ==
    /\ job.pc \in Applying \cup {"switch", "switched"} => mem.phase \in Live
    /\ job.pc = "resume" => mem.phase = "Active"
    /\ job.pc \in Restoring => mem.phase = "Recovering"
    /\ job.pc = "applied" => job.kind \in os
    /\ job.pc = "mark" => mem.step[job.kind] # "Absent"
    /\ job.h = "prepare" /\ job.pc \in Applying => mem.phase = "Preparing"
    /\ job.pc \in {"begin", "create", "created", "create_failed"} => job.h = "prepare"
    /\ job.pc \in {"switch", "switched"} => job.h = "finalize"
    /\ job.pc = "switched" => job.kind # Policy
    /\ job.h = "proxy_alone" /\ job.pc \in Applying => mem.kind = "SystemProxy"

\* The steps that a commit has still to apply.
Committing ==
    /\ Routes \in job.todo => job.h = "commit"
    /\ job.pc = "finish" => job.todo = {}
    /\ job.pc \in Applying /\ Policy \in job.todo => Guarded(mem.plan)
    /\ job.h = "commit" /\ job.pc \in Applying =>
          /\ mem.step[Routes] = "Applied" \/ Routes \in job.todo
          /\ Guarded(mem.plan) => mem.step[Policy] = "Applied" \/ Policy \in job.todo

Guard == /\ PolicyRecorded(mem) /\ PolicyRecorded(disk)
         /\ PolicyHolds /\ RoutesLast /\ Forward /\ Committing
         /\ FlowsBehindKillSwitch

(***************************************************************************)
(* What the updates of the journal and of the handler's record leave alone. *)
(***************************************************************************)
USE DEF Policy, Routes, Pump

LEMMA RunFields ==
    \A h, pc, e : /\ Run(h, pc, e).h = h /\ Run(h, pc, e).pc = pc
                  /\ Run(h, pc, e).todo = {}
  BY DEF Run, Idle

LEMMA JobFields ==
    ASSUME job \in Job
    PROVE  /\ Idle.h = None /\ Idle.pc = "idle" /\ Idle.todo = {}
           /\ \A pc : /\ Goto(pc).h = job.h /\ Goto(pc).pc = pc
                      /\ Goto(pc).todo = job.todo /\ Goto(pc).kind = job.kind
           /\ \A pc, k : /\ At(pc, k).h = job.h /\ At(pc, k).pc = pc
                         /\ At(pc, k).todo = job.todo /\ At(pc, k).kind = k
           /\ \A S : /\ Failures(S).h = job.h /\ Failures(S).pc = "restore"
                     /\ Failures(S).todo = job.todo
  BY DEF Idle, Job, Goto, At, Failures

LEMMA TodoFields ==
    ASSUME NEW j \in Job, NEW S
    PROVE  /\ Todo(j, S).h = j.h /\ Todo(j, S).todo = S /\ Todo(j, S).kind = j.kind
           /\ Todo(j, S).pc = IF S = {} THEN "finish" ELSE "plan"
  BY DEF Todo, Job

\* Where a failed apply leads; the commit of a plan without a chain recovers.
LEMMA FailedFields ==
    ASSUME job \in Job, Routes \in job.todo => job.h = "commit",
           NEW o \in {ApplyFailed, PlanFailed, IntentFailed}
    PROVE  /\ o.pc \in {"idle", "recover", "proxy_undo"}
           /\ Routes \in o.todo => o.h = "commit"
           /\ job.h = "commit" /\ ~mem.plan.vpn_chain => o.pc = "recover"
<1>1. /\ Idle.pc = "idle" /\ Idle.todo = {}
      /\ \A pc : Goto(pc).h = job.h /\ Goto(pc).pc = pc /\ Goto(pc).todo = job.todo
  BY JobFields
<1>2. ApplyFailed \in {Idle, Goto("proxy_undo"), Goto("recover")}
  BY DEF ApplyFailed
<1>3. o \in {Idle, ApplyFailed}
  BY DEF PlanFailed, IntentFailed
<1>4. job.h = "commit" => o = ApplyFailed
  BY DEF PlanFailed, IntentFailed
<1>5. job.h = "commit" /\ ~mem.plan.vpn_chain => ApplyFailed = Goto("recover")
  BY DEF ApplyFailed
<1> QED BY <1>1, <1>2, <1>3, <1>4, <1>5

LEMMA DoneFields ==
    ASSUME job \in Job, Routes \in job.todo => job.h = "commit"
    PROVE  /\ Done.pc \in {"idle", "boot_retire", "halted"}
           /\ Routes \in Done.todo => Done.h = "commit"
<1>1. Done \in {Run("boot", "boot_retire", None), Goto("halted"), Idle}
  BY DEF Done
<1> QED BY <1>1, JobFields, RunFields

\* Updates of a journal, in the fields that the policy depends on.
LEMMA PushFields ==
    ASSUME NEW j \in Journal, NEW k \in Kinds
    PROVE  /\ Push(j, k).phase = j.phase /\ Push(j, k).kind = j.kind
           /\ Push(j, k).plan = j.plan
           /\ \A x \in Kinds : Push(j, k).step[x] = IF x = k THEN "Intended" ELSE j.step[x]
<1>1. Push(j, k).plan = j.plan BY DEF Journal, Push
<1> QED BY <1>1, StepUpdates

LEMMA RemoveFields ==
    ASSUME NEW j \in Journal, NEW k \in Kinds
    PROVE  /\ Remove(j, k).phase = j.phase /\ Remove(j, k).kind = j.kind
           /\ Remove(j, k).plan = j.plan
           /\ \A x \in Kinds : Remove(j, k).step[x] = IF x = k THEN "Absent" ELSE j.step[x]
<1>1. Remove(j, k).plan = j.plan BY DEF Journal, Remove
<1> QED BY <1>1, StepUpdates

LEMMA MarkFields ==
    ASSUME NEW j \in Journal, NEW k \in Kinds, NEW s \in StepStates
    PROVE  /\ Mark(j, k, s).phase = j.phase /\ Mark(j, k, s).kind = j.kind
           /\ Mark(j, k, s).plan = j.plan
           /\ \A x \in Kinds : Mark(j, k, s).step[x] = IF x = k THEN s ELSE j.step[x]
<1>1. Mark(j, k, s).plan = j.plan BY DEF Journal, Mark
<1> QED BY <1>1, MarkUpdates

LEMMA PlanFields ==
    ASSUME NEW j \in Journal
    PROVE  /\ \A p : InPhase(j, p).plan = j.plan
           /\ \A d : WithDevice(j, d).plan = j.plan
           /\ \A e : OwnedBy(j, e).plan = j.plan
           /\ \A e : Creating(j, e).plan = j.plan
           /\ \A e : Resumed(j, e).plan = j.plan /\ Resumed(j, e).kind = j.kind
           /\ \A e, op : ProxyBegun(j, op, e).kind = "SystemProxy"
           /\ Disconnected(j).plan = NoPlan /\ CleanJournal.plan = NoPlan
  BY DEF Journal, InPhase, WithDevice, OwnedBy, Creating, Resumed, ProxyBegun,
         Disconnected, CleanJournal

(***************************************************************************)
(* Steps that leave the policy, the routes and the pump alone.              *)
(***************************************************************************)
SameJournal ==
    /\ mem'.phase = mem.phase /\ mem'.kind = mem.kind /\ mem'.plan = mem.plan
    /\ mem'.step[Policy] = mem.step[Policy] /\ mem'.step[Routes] = mem.step[Routes]
    /\ disk' \in {disk, mem'}
SameEffects ==
    /\ Policy \in os' <=> Policy \in os
    /\ Pump \in os' => Pump \in os
    /\ Routes \in os' => Routes \in os

\* Steps of other kinds are among what is left alone.
LEMMA OtherStep ==
    ASSUME IInv, NEW k \in Kinds \ {Policy, Routes}, NEW s \in StepStates,
           mem' \in {mem, Push(mem, k), Remove(mem, k), Mark(mem, k, s)},
           disk' \in {disk, mem'}
    PROVE  SameJournal
<1>1. mem \in Journal /\ {Policy, Routes} \subseteq Kinds /\ k \in Kinds
  BY DEF IInv, TypeOK, Kinds
<1>2. CASE mem' = Push(mem, k)
  BY <1>1, <1>2, PushFields DEF SameJournal
<1>3. CASE mem' = Remove(mem, k)
  BY <1>1, <1>3, RemoveFields DEF SameJournal
<1>4. CASE mem' = Mark(mem, k, s)
  BY <1>1, <1>4, MarkFields DEF SameJournal
<1> QED BY <1>2, <1>3, <1>4 DEF SameJournal

\* Labels that promise nothing about the policy.
Rest == {"idle", "retire", "remove", "retired", "close", "closed", "detach", "detached",
         "proxy_undo", "proxy_undone", "boot", "boot_retire", "halted", "recover"}

\* A handler that takes a step without touching them knows what it knew.
LEMMA SameKeeps ==
    ASSUME Guard, SameJournal, SameEffects, job.pc \notin Doubted \/ job'.pc \in Doubted,
           job.h = "commit" /\ job.pc \in Applying =>
              \/ Guarded(mem.plan) \/ job'.pc \in Doubted
              \/ job'.h = "commit" /\ job'.pc \in Applying
    PROVE  /\ PolicyRecorded(mem)' /\ PolicyRecorded(disk)'
           /\ PolicyHolds' /\ RoutesLast' /\ FlowsBehindKillSwitch'
<1>1. PolicyRecorded(mem)' /\ PolicyRecorded(disk)'
  BY DEF Guard, SameJournal, PolicyRecorded, Guarded
<1>2. PolicyHolds'
  BY DEF Guard, SameJournal, SameEffects, PolicyHolds
<1>3. RoutesLast'
  BY DEF Guard, SameJournal, RoutesLast, Guarded
<1>4. FlowsBehindKillSwitch'
  BY DEF Guard, SameJournal, SameEffects, FlowsBehindKillSwitch, PolicyDue
<1> QED BY <1>1, <1>2, <1>3, <1>4

LEMMA RestLabels ==
    ASSUME job'.pc \in Rest, Routes \in job'.todo => job'.h = "commit"
    PROVE  Forward' /\ Committing'
  BY DEF Rest, Forward, Committing, Applying, Restoring

LEMMA RestKeeps ==
    ASSUME Guard, SameJournal, SameEffects,
           job.pc \notin Doubted \cup Applying,
           job'.pc \in Rest, Routes \in job'.todo => job'.h = "commit"
    PROVE  Guard'
  BY SameKeeps, RestLabels DEF Guard

\* Nothing that the policy depends on moves.
LEMMA UnmovedKeeps ==
    ASSUME IInv, Guard, UNCHANGED <<mem, disk, job>>, os' \in {os, os \ {Device}}
    PROVE  Guard'
<1>1. SameJournal /\ SameEffects BY DEF SameJournal, SameEffects, Device
<1>2. Committing'
  BY DEF Guard, Committing, Guarded
<1>3. Forward'
  <2>1. job.pc = "applied" => job.kind \in os'
    BY DEF Guard, Forward, IInv, Intent, Device, Kinds
  <2> QED BY <2>1 DEF Guard, Forward
<1> QED BY <1>1, <1>2, <1>3, SameKeeps DEF Guard

(***************************************************************************)
(* Requests and events that start a handler, or none.                       *)
(***************************************************************************)
LEMMA StartGuard ==
    ASSUME Guard, Ready, UNCHANGED <<mem, disk, os>>,
           \/ job' = Idle
           \/ \E h, e, pc : pc \in Rest /\ job' = Run(h, pc, e)
    PROVE  Guard'
<1>1. SameJournal /\ SameEffects /\ job.pc \notin Doubted \cup Applying
  BY DEF SameJournal, SameEffects, Ready, Doubted, Applying
<1>2. job'.pc \in Rest /\ Routes \notin job'.todo
  <2>1. CASE job' = Idle BY <2>1 DEF Idle, Rest
  <2>2. ASSUME NEW h, NEW e, NEW pc, pc \in Rest, job' = Run(h, pc, e)
        PROVE  job'.pc \in Rest /\ Routes \notin job'.todo
    BY <2>2, RunFields
  <2> QED BY <2>1, <2>2
<1> QED BY <1>1, <1>2, RestKeeps

LEMMA RequestsGuard ==
    ASSUME IInv, Guard, NEW e \in Engines,
           \/ Rollback(e) \/ ClosePacketSession(e) \/ RestoreSystemProxy(e)
           \/ RecoverStale \/ RecoverAutomatic \/ RecoverOrphaned(e)
           \/ ReleaseDeviceLease(e)
    PROVE  Guard'
<1>1. Ready /\ UNCHANGED <<mem, disk, os>>
  BY DEF Rollback, ClosePacketSession, RestoreSystemProxy, RecoverStale, RecoverAutomatic,
         RecoverOrphaned, ReleaseDeviceLease
<1>2. \E h, a, pc : pc \in {"recover", "retire", "close", "proxy_undo"} /\ job' = Run(h, pc, a)
  BY DEF Rollback, ClosePacketSession, RestoreSystemProxy, RecoverStale, RecoverAutomatic,
         RecoverOrphaned, ReleaseDeviceLease, CleanUp
<1>3. \E h, a, pc : pc \in Rest /\ job' = Run(h, pc, a)
  BY <1>2 DEF Rest
<1> QED BY <1>1, <1>3, StartGuard

LEMMA EventsGuard ==
    ASSUME IInv, Guard,
           \/ \E p \in pipes : ActivePipeEnds(p)
           \/ \E w \in watchdogs : WatchdogFires(w)
           \/ \E key \in devTimers : DeviceTimerFires(key)
           \/ RecoverStale \/ RecoverAutomatic
           \/ RetryRetirement \/ Shutdown
    PROVE  Guard'
<1>1. Ready /\ UNCHANGED <<mem, disk, os>>
  BY DEF ActivePipeEnds, WatchdogFires, DeviceTimerFires, RetryRetirement, Shutdown,
         RecoverStale, RecoverAutomatic
<1>2. \/ job' = Idle
      \/ \E h, a, pc : /\ pc \in {"recover", "retire", "detach", "detached"}
                       /\ job' = Run(h, pc, a)
  BY DEF ActivePipeEnds, WatchdogFires, DeviceTimerFires, RetryRetirement, Shutdown, CleanUp,
         RecoverStale, RecoverAutomatic
<1>3. job' = Idle \/ \E h, a, pc : pc \in Rest /\ job' = Run(h, pc, a)
  BY <1>2 DEF Rest
<1> QED BY <1>1, <1>3, StartGuard

LEMMA LeasesGuard ==
    ASSUME IInv, Guard,
           \/ \E e \in Engines : AcquireTunnelLease(e) \/ AcquireDeviceLease(e)
           \/ \E p \in pipes : StartupPipeEnds(p)
           \/ DevicePipeEnds \/ WorkerFinishes
    PROVE  Guard'
<1>1. UNCHANGED <<mem, disk, job>> /\ os' \in {os, os \ {Device}}
  BY DEF AcquireTunnelLease, AcquireDeviceLease, StartupPipeEnds, DevicePipeEnds,
         WorkerFinishes
<1> QED BY <1>1, UnmovedKeeps

\* A handler that is asked to apply steps has not begun; a commit of a plan
\* without a policy finds no routes.
LEMMA CommitGuard ==
    ASSUME IInv, Guard, NEW e \in Engines, Commit(e)
    PROVE  Guard'
<1>1. /\ job.pc = "idle" /\ UNCHANGED <<mem, disk, os>> /\ mem.phase = "Prepared"
      /\ job' = Todo(Run("commit", "plan", e), CommitKinds) /\ Tunnel
  BY DEF Commit, Ready
<1>2. job'.h = "commit" /\ job'.todo = CommitKinds
      /\ job'.pc = IF CommitKinds = {} THEN "finish" ELSE "plan"
  <2>1. Run("commit", "plan", e) \in Job BY RunType DEF Handlers, Labels
  <2> QED BY <1>1, <2>1, RunFields, TodoFields
<1>3. SameJournal /\ SameEffects /\ job.pc \notin Doubted \cup Applying
  BY <1>1 DEF SameJournal, SameEffects, Doubted, Applying
<1>4. Forward'
  BY <1>1, <1>2 DEF Forward, Live, Restoring, Applying
<1>5. Committing'
  BY <1>1, <1>2 DEF Committing, CommitKinds
<1> QED BY <1>3, <1>4, <1>5, SameKeeps DEF Guard

LEMMA JoinGuard ==
    ASSUME IInv, Guard, NEW e \in Engines, JoinSystemProxy(e)
    PROVE  Guard'
<1>1. /\ job.pc = "idle" /\ UNCHANGED <<mem, disk, os>> /\ mem.phase = "Active"
      /\ job' = Todo(Run("proxy_join", "plan", e), {"SystemProxy"})
  BY DEF JoinSystemProxy, Ready
<1>2. job'.h = "proxy_join" /\ job'.todo = {"SystemProxy"} /\ job'.pc = "plan"
  <2>1. Run("proxy_join", "plan", e) \in Job BY RunType DEF Handlers, Labels
  <2> QED BY <1>1, <2>1, RunFields, TodoFields
<1>3. SameJournal /\ SameEffects /\ job.pc \notin Doubted \cup Applying
  BY <1>1 DEF SameJournal, SameEffects, Doubted, Applying
<1>4. Forward' /\ Committing'
  BY <1>1, <1>2 DEF Forward, Committing, Live, Restoring, Applying
<1> QED BY <1>3, <1>4, SameKeeps DEF Guard

LEMMA OpenPacketSessionGuard ==
    ASSUME IInv, Guard, NEW e \in Engines, OpenPacketSession(e)
    PROVE  Guard'
<1>1. /\ job.pc = "idle" /\ UNCHANGED <<disk, os>> /\ mem.phase = "Prepared"
      /\ mem' \in {mem, Remove(mem, "PacketSession")}
      /\ job' = Todo(Run("open", "plan", e), {"PacketSession"})
  BY DEF OpenPacketSession, Ready
<1>2. job'.h = "open" /\ job'.todo = {"PacketSession"} /\ job'.pc = "plan"
  <2>1. Run("open", "plan", e) \in Job BY RunType DEF Handlers, Labels
  <2> QED BY <1>1, <2>1, RunFields, TodoFields
<1>3. SameJournal
  <2>1. "PacketSession" \in Kinds \ {Policy, Routes} /\ "Absent" \in StepStates
    BY DEF Kinds, StepStates
  <2> QED BY <1>1, <2>1, OtherStep
<1>4. SameEffects /\ job.pc \notin Doubted \cup Applying
  BY <1>1 DEF SameEffects, Doubted, Applying
<1>5. Forward' /\ Committing'
  BY <1>1, <1>2, <1>3 DEF Forward, Committing, Live, Restoring, Applying, SameJournal
<1> QED BY <1>3, <1>4, <1>5, SameKeeps DEF Guard

(***************************************************************************)
(* apply_new_step.                                                          *)
(***************************************************************************)
\* The policy comes before the routes in every list of steps.
LEMMA PolicyFirst == ASSUME NEW S, First(Routes, S) PROVE Policy \notin S
<1>1. DOMAIN ApplyOrder = 1 .. 8 /\ ApplyOrder[3] = Policy /\ ApplyOrder[7] = Routes
  BY DEF ApplyOrder
<1>2. \A i \in 1 .. 8 : /\ ApplyOrder[i] = Policy => i = 3
                        /\ ApplyOrder[i] = Routes => i = 7
  BY DEF ApplyOrder
<1>3. Rank(Policy) = 3 /\ Rank(Routes) = 7
  BY <1>1, <1>2 DEF Rank
<1> QED BY <1>3 DEF First

LEMMA PlanStepGuard ==
    ASSUME IInv, Guard, PlanStep
    PROVE  Guard'
<1>1. PICK k \in Kinds : PlanStep!2!(k)
  BY DEF PlanStep
<1>2. /\ job.pc = "plan" /\ UNCHANGED os /\ First(k, job.todo) /\ mem.phase \in Live
      /\ Routes \in job.todo => job.h = "commit"
      /\ mem \in Journal /\ job \in Job
  BY <1>1 DEF PlanStep, Guard, Forward, Committing, Applying, IInv, TypeOK
<1>3. SameEffects /\ job.pc \notin Doubted
  BY <1>2 DEF SameEffects, Doubted
<1>4. ASSUME NEW o \in {ApplyFailed, PlanFailed, IntentFailed}
      PROVE  /\ o.pc \in {"idle", "recover", "proxy_undo"}
             /\ Routes \in o.todo => o.h = "commit"
             /\ job.h = "commit" /\ ~mem.plan.vpn_chain => o.pc = "recover"
  BY <1>2, FailedFields
<1>5. CASE mem' = mem /\ disk' = disk /\ job' = PlanFailed
  <2>1. SameJournal BY <1>5 DEF SameJournal
  <2>2. job'.pc \in Rest /\ (Routes \in job'.todo => job'.h = "commit")
    BY <1>4, <1>5 DEF Rest
  <2>3. job.h = "commit" => Guarded(mem.plan) \/ job'.pc \in Doubted
    BY <1>4, <1>5 DEF Guarded, Doubted
  <2> QED BY <1>3, <2>1, <2>2, <2>3, SameKeeps, RestLabels DEF Guard
<1>6. CASE /\ mem.step[k] = "Absent" /\ mem' = Push(mem, k) /\ disk' \in {disk, mem'}
           /\ job' \in {At("apply", k), IntentFailed}
  <2>1. /\ mem'.phase = mem.phase /\ mem'.kind = mem.kind /\ mem'.plan = mem.plan
        /\ \A x \in Kinds : mem'.step[x] = IF x = k THEN "Intended" ELSE mem.step[x]
        /\ Policy \in Kinds /\ Routes \in Kinds
    BY <1>2, <1>6, PushFields DEF Kinds
  <2>2. \/ /\ job'.h = job.h /\ job'.pc = "apply" /\ job'.todo = job.todo /\ job'.kind = k
        \/ /\ job'.pc \in Rest /\ (Routes \in job'.todo => job'.h = "commit")
           /\ job.h = "commit" /\ ~mem.plan.vpn_chain => job'.pc = "recover"
    <3>1. CASE job' = At("apply", k) BY <1>2, <3>1, JobFields
    <3>2. CASE job' = IntentFailed BY <1>4, <3>2 DEF Rest
    <3> QED BY <1>6, <3>1, <3>2
  <2>3. Forward'
    BY <1>2, <2>1, <2>2 DEF Guard, Forward, Rest, Applying, Restoring
  <2>4. Committing'
    BY <1>2, <1>6, <2>1, <2>2 DEF Guard, Committing, Rest, Applying, Guarded
  <2>5. CASE k \notin {Policy, Routes}
    <3>1. "Intended" \in StepStates BY DEF StepStates
    <3>2. SameJournal BY <1>1, <1>6, <2>5, <3>1, OtherStep
    <3>3. job.h = "commit" /\ job.pc \in Applying =>
              \/ Guarded(mem.plan) \/ job'.pc \in Doubted
              \/ job'.h = "commit" /\ job'.pc \in Applying
      BY <2>2 DEF Guarded, Doubted, Applying
    <3> QED BY <1>3, <2>3, <2>4, <3>2, <3>3, SameKeeps DEF Guard
  <2>6. CASE k = Policy
    <3>1. PolicyHolds' BY <2>1, <2>6 DEF PolicyHolds
    <3>2. RoutesLast' /\ FlowsBehindKillSwitch'
      BY <1>2, <1>3, <1>6, <2>1, <2>2, <2>6
         DEF Guard, RoutesLast, FlowsBehindKillSwitch, PolicyDue, Guarded, Applying, Doubted, Rest
    <3>3. Guarded(mem.plan)
      BY <1>2, <2>6 DEF Guard, Committing, First, Applying
    <3>4. PolicyRecorded(mem)' /\ PolicyRecorded(disk)'
      BY <1>6, <2>1, <2>6, <3>3 DEF Guard, PolicyRecorded, Guarded
    <3> QED BY <2>3, <2>4, <3>1, <3>2, <3>4 DEF Guard
  <2>7. CASE k = Routes
    <3>1. PolicyHolds'
      BY <1>2, <1>3, <2>1, <2>7 DEF Guard, PolicyHolds
    <3>2. FlowsBehindKillSwitch'
      BY <1>2, <2>1, <2>7 DEF Guard, FlowsBehindKillSwitch, PolicyDue
    <3>3. job.h = "commit" /\ (Guarded(mem.plan) => mem.step[Policy] = "Applied")
      <4>1. Routes \in job.todo /\ Policy \notin job.todo
        BY <1>2, <2>7, PolicyFirst DEF First
      <4> QED BY <1>2, <4>1 DEF Guard, Committing, Applying
    <3>4. RoutesLast'
      BY <2>1, <2>2, <2>7, <3>3 DEF RoutesLast, Guarded, Applying, Doubted
    <3>5. PolicyRecorded(mem)' /\ PolicyRecorded(disk)'
      BY <1>6, <2>1, <2>7 DEF Guard, PolicyRecorded, Guarded
    <3> QED BY <2>3, <2>4, <3>1, <3>2, <3>4, <3>5 DEF Guard
  <2> QED BY <2>5, <2>6, <2>7
<1> QED BY <1>1, <1>5, <1>6 DEF Save, Saved, SaveFailed

\* Where the policy is due and the routes were touched, it is in Windows.
LEMMA DuePolicyHolds ==
    ASSUME Guard, mem.phase \in Live, job.pc \notin Doubted, PolicyDue(mem),
           mem.phase = "Active" \/ mem.step[Routes] # "Absent"
    PROVE  Policy \in os
<1>1. mem.step[Policy] = "Applied"
  <2>1. CASE mem.phase = "Active"
    BY <2>1 DEF Guard, PolicyRecorded, PolicyDue
  <2>2. CASE mem.phase # "Active"
    BY <2>2 DEF Guard, RoutesLast, PolicyDue, Guarded, Live
  <2> QED BY <2>1, <2>2
<1> QED BY <1>1 DEF Guard, PolicyHolds

LEMMA ApplyStepGuard ==
    ASSUME IInv, Guard, ApplyStep
    PROVE  Guard'
<1>1. /\ job.pc = "apply" /\ UNCHANGED <<mem, disk>> /\ os' \in {os, os \cup {job.kind}}
      /\ job' = ApplyFailed \/ (job' = Goto("applied") /\ job.kind \in os')
      /\ mem.phase \in Live /\ job.pc \notin Doubted /\ job \in Job
      /\ mem.step[job.kind] # "Absent"
      /\ Routes \in job.todo => job.h = "commit"
  BY DEF ApplyStep, Guard, Forward, Committing, Applying, Doubted, IInv, TypeOK, Intent,
         Unresolved
<1>2. \/ /\ job'.pc = "applied" /\ job'.h = job.h /\ job'.todo = job.todo
         /\ job'.kind = job.kind /\ job.kind \in os'
      \/ /\ job'.pc \in {"idle", "recover", "proxy_undo"}
         /\ Routes \in job'.todo => job'.h = "commit"
         /\ job.h = "commit" /\ ~mem.plan.vpn_chain => job'.pc = "recover"
  <2>1. CASE job' = ApplyFailed BY <1>1, <2>1, FailedFields
  <2>2. CASE job' = Goto("applied") /\ job.kind \in os' BY <1>1, <2>2, JobFields
  <2> QED BY <1>1, <2>1, <2>2
<1>3. Forward'
  BY <1>1, <1>2 DEF Guard, Forward, Applying, Restoring
<1>4. Committing'
  BY <1>1, <1>2 DEF Guard, Committing, Applying, Guarded
<1>5. PolicyRecorded(mem)' /\ PolicyRecorded(disk)' /\ PolicyHolds'
  BY <1>1 DEF Guard, PolicyRecorded, PolicyHolds, Guarded
<1>6. RoutesLast'
  BY <1>1, <1>2 DEF Guard, RoutesLast, Guarded, Doubted, Applying
<1>7. FlowsBehindKillSwitch'
  <2> SUFFICES ASSUME Pump \in os', Routes \in os', PolicyDue(mem)
               PROVE  Policy \in os'
    BY <1>1 DEF FlowsBehindKillSwitch, PolicyDue
  <2>1. mem.step[Routes] # "Absent"
    <3>1. CASE Routes \in os
      BY <3>1 DEF IInv, Recorded, Covers, Kinds, Unresolved
    <3>2. CASE job.kind = Routes BY <1>1, <3>2
    <3> QED BY <1>1, <3>1, <3>2
  <2>2. Policy \in os BY <1>1, <2>1, DuePolicyHolds
  <2> QED BY <1>1, <2>2
<1> QED BY <1>3, <1>4, <1>5, <1>6, <1>7 DEF Guard

LEMMA RecordAppliedGuard ==
    ASSUME IInv, Guard, RecordApplied
    PROVE  Guard'
<1> DEFINE applied == Mark(mem, job.kind, "Applied")
           next == Todo(job, job.todo \ {job.kind})
<1>1. /\ job.pc = "applied" /\ UNCHANGED os /\ disk' \in {disk, mem'}
      /\ mem' = IF job.h = "proxy_alone" THEN InPhase(applied, "Active") ELSE applied
      /\ job' \in {next, ApplyFailed}
  BY DEF RecordApplied, Save, Saved, SaveFailed
<1>2. /\ job.kind \in Kinds /\ mem \in Journal /\ job \in Job /\ job.kind \in os
      /\ mem.phase \in Live /\ job.pc \notin Doubted
      /\ mem.step[job.kind] # "Absent"
      /\ Routes \in job.todo => job.h = "commit"
  BY <1>1 DEF Guard, Forward, Committing, Applying, Doubted, IInv, TypeOK, Intent, Unresolved
<1>3. /\ mem'.kind = mem.kind /\ mem'.plan = mem.plan
      /\ \A x \in Kinds : mem'.step[x] = IF x = job.kind THEN "Applied" ELSE mem.step[x]
      /\ IF job.h = "proxy_alone" THEN mem'.phase = "Active" ELSE mem'.phase = mem.phase
      /\ {Policy, Routes} \subseteq Kinds
  <2>1. "Applied" \in StepStates /\ "Active" \in Phases /\ {Policy, Routes} \subseteq Kinds
    BY DEF StepStates, Phases, Kinds
  <2>2. /\ applied \in Journal /\ applied.phase = mem.phase /\ applied.kind = mem.kind
        /\ applied.plan = mem.plan
        /\ \A x \in Kinds : applied.step[x] = IF x = job.kind THEN "Applied" ELSE mem.step[x]
    BY <1>2, <2>1, MarkFields, MarkUpdates
  <2> HIDE DEF applied
  <2>3. /\ InPhase(applied, "Active").phase = "Active"
        /\ InPhase(applied, "Active").kind = applied.kind
        /\ InPhase(applied, "Active").plan = applied.plan
        /\ InPhase(applied, "Active").step = applied.step
    BY <2>1, <2>2, FieldUpdates, PlanFields
  <2> QED BY <1>1, <2>1, <2>2, <2>3
<1>4. \/ /\ job'.pc \in {"plan", "finish"} /\ job'.h = job.h
         /\ job'.todo = job.todo \ {job.kind}
         /\ job'.pc = "finish" => job'.todo = {}
      \/ /\ job'.pc \in {"idle", "recover", "proxy_undo"}
         /\ Routes \in job'.todo => job'.h = "commit"
         /\ job.h = "commit" /\ ~mem.plan.vpn_chain => job'.pc = "recover"
  <2>1. CASE job' = ApplyFailed BY <1>2, <2>1, FailedFields
  <2>2. CASE job' = next BY <1>2, <2>2, TodoFields
  <2> QED BY <1>1, <2>1, <2>2
<1> HIDE DEF applied, next
<1>5. Forward'
  BY <1>1, <1>2, <1>3, <1>4 DEF Guard, Forward, Applying, Restoring, Live
<1>6. Committing'
  <2>1. /\ Policy \in job.todo => Guarded(mem.plan)
        /\ job.h = "commit" =>
              /\ mem.step[Routes] = "Applied" \/ Routes \in job.todo
              /\ Guarded(mem.plan) => mem.step[Policy] = "Applied" \/ Policy \in job.todo
    BY <1>1 DEF Guard, Committing, Applying
  <2>2. Guarded(mem'.plan) <=> Guarded(mem.plan)
    BY <1>3
  <2>3. CASE job'.pc \in {"plan", "finish"}
    <3>1. /\ job'.h = job.h /\ job'.todo = job.todo \ {job.kind}
          /\ job'.pc = "finish" => job'.todo = {}
      BY <1>4, <2>3
    <3>2. \A x \in {Policy, Routes} :
             mem.step[x] = "Applied" \/ x \in job.todo
             => mem'.step[x] = "Applied" \/ x \in job'.todo
      BY <1>3, <3>1
    <3> QED BY <1>2, <2>1, <2>2, <3>1, <3>2 DEF Committing
  <2>4. CASE job'.pc \notin {"plan", "finish"}
    BY <1>4, <2>4 DEF Committing, Applying
  <2> QED BY <2>3, <2>4
<1>7. PolicyRecorded(mem)'
  <2>1. job.h = "proxy_alone" => ~mem.plan.kill_switch
    BY <1>1 DEF Guard, PolicyRecorded, Forward, Applying
  <2> QED BY <1>2, <1>3, <2>1 DEF Guard, PolicyRecorded, Guarded
<1>8. PolicyRecorded(disk)'
  BY <1>1, <1>7 DEF Guard, PolicyRecorded, Guarded
<1>9. PolicyHolds'
  BY <1>1, <1>2, <1>3 DEF Guard, PolicyHolds
<1>10. RoutesLast'
  BY <1>1, <1>2, <1>3, <1>4 DEF Guard, RoutesLast, Guarded, Doubted, Applying
<1>11. FlowsBehindKillSwitch'
  BY <1>1, <1>2, <1>3 DEF Guard, FlowsBehindKillSwitch, PolicyDue
<1> QED BY <1>5, <1>6, <1>7, <1>8, <1>9, <1>10, <1>11 DEF Guard

(***************************************************************************)
(* The ends of the handlers that apply steps.                               *)
(***************************************************************************)
LEMMA FinishPrepareGuard ==
    ASSUME IInv, Guard, FinishPrepare
    PROVE  Guard'
<1>1. /\ job.pc = "finish" /\ job.h = "prepare" /\ UNCHANGED os /\ disk' \in {disk, mem'}
      /\ mem' = InPhase(mem, "Prepared") /\ job' \in {Idle, Goto("recover")}
  BY DEF FinishPrepare, Saved, SaveFailed
<1>2. mem \in Journal /\ job \in Job /\ mem.phase = "Preparing" /\ "Prepared" \in Phases
  BY <1>1 DEF Guard, Forward, Applying, IInv, TypeOK, Phases
<1>3. /\ mem'.phase = "Prepared" /\ mem'.kind = mem.kind /\ mem'.plan = mem.plan
      /\ mem'.step = mem.step
  BY <1>1, <1>2, FieldUpdates, PlanFields
<1>4. job'.pc \in Rest /\ (Routes \in job'.todo => job'.h = "commit")
  BY <1>1, <1>2, JobFields DEF Guard, Committing, Rest
<1>5. Forward' /\ Committing'
  BY <1>4, RestLabels
<1>6. PolicyRecorded(mem)' /\ PolicyRecorded(disk)'
  BY <1>1, <1>3 DEF Guard, PolicyRecorded, Guarded
<1>7. PolicyHolds' /\ RoutesLast' /\ FlowsBehindKillSwitch'
  BY <1>1, <1>2, <1>3
     DEF Guard, PolicyHolds, RoutesLast, FlowsBehindKillSwitch, PolicyDue, Guarded, Live, Doubted
<1> QED BY <1>5, <1>6, <1>7 DEF Guard

LEMMA FinishGuard ==
    ASSUME IInv, Guard, FinishChain \/ FinishApply \/ FinishOpen
    PROVE  Guard'
<1>1. UNCHANGED <<mem, disk, os>> /\ job' = Idle /\ job.pc = "finish" /\ job.h # "commit"
  BY DEF FinishChain, FinishApply, FinishOpen
<1>2. SameJournal /\ SameEffects /\ job.pc \notin Doubted
  BY <1>1 DEF SameJournal, SameEffects, Doubted
<1>3. job'.pc \in Rest /\ Routes \notin job'.todo
  BY <1>1 DEF Idle, Rest
<1> QED BY <1>1, <1>2, <1>3, SameKeeps, RestLabels DEF Guard

\* The commit ends with the policy applied, if the plan asks for one.
LEMMA FinishCommitGuard ==
    ASSUME IInv, Guard, FinishCommit
    PROVE  Guard'
<1>1. /\ job.pc = "finish" /\ job.h = "commit" /\ UNCHANGED os /\ disk' \in {disk, mem'}
      /\ mem' = InPhase(mem, "Active") /\ job' \in {Idle, ApplyFailed}
  BY DEF FinishCommit, Save, Saved, SaveFailed
<1>2. /\ mem \in Journal /\ job \in Job /\ "Active" \in Phases /\ mem.phase \in Live
      /\ Guarded(mem.plan) => mem.step[Policy] = "Applied"
      /\ Routes \in job.todo => job.h = "commit"
  BY <1>1 DEF Guard, Forward, Committing, Applying, IInv, TypeOK, Phases
<1>3. /\ mem'.phase = "Active" /\ mem'.kind = mem.kind /\ mem'.plan = mem.plan
      /\ mem'.step = mem.step
  BY <1>1, <1>2, FieldUpdates, PlanFields
<1>4. job'.pc \in Rest /\ (Routes \in job'.todo => job'.h = "commit")
  <2>1. CASE job' = Idle BY <2>1 DEF Idle, Rest
  <2>2. CASE job' = ApplyFailed BY <1>2, <2>2, FailedFields DEF Rest
  <2> QED BY <1>1, <2>1, <2>2
<1>5. Forward' /\ Committing'
  BY <1>4, RestLabels
<1>6. PolicyRecorded(mem)' /\ PolicyRecorded(disk)'
  BY <1>1, <1>2, <1>3 DEF Guard, PolicyRecorded, Guarded
<1>7. mem.step[Policy] = "Applied" => Policy \in os
  BY <1>1, <1>2 DEF Guard, PolicyHolds, Doubted
<1>8. PolicyHolds' /\ RoutesLast' /\ FlowsBehindKillSwitch'
  BY <1>1, <1>2, <1>3, <1>7
     DEF PolicyHolds, RoutesLast, FlowsBehindKillSwitch, PolicyDue, Guarded
<1> QED BY <1>5, <1>6, <1>8 DEF Guard

(***************************************************************************)
(* prepare_managed, and the first save of a transaction.                    *)
(***************************************************************************)
Creation == {"begin", "create", "created", "create_failed"}

LEMMA CreationLabels ==
    ASSUME job'.pc \in Creation, job'.h = "prepare", Routes \notin job'.todo
    PROVE  Forward' /\ Committing'
  BY DEF Creation, Forward, Committing, Applying, Restoring

LEMMA PrepareManagedGuard ==
    ASSUME IInv, Guard, NEW e \in Engines, NEW op \in Operations, NEW plan \in Plans,
           PrepareManaged(e, op, plan)
    PROVE  Guard'
<1>1. /\ job.pc = "idle" /\ UNCHANGED os /\ disk' \in {disk, mem'}
      /\ mem' \in {mem, WithDevice(mem, "RecoveryRequired"), Creating(mem, e)}
      /\ job' \in {Prepare("create", e, op, plan), Prepare("begin", e, op, plan), Idle}
  BY DEF PrepareManaged, Ready, Save, Saved, SaveFailed
<1>2. TypeOK /\ mem \in Journal /\ "RecoveryRequired" \in DeviceStates
  BY DEF IInv, TypeOK, DeviceStates
<1>3. SameJournal
  <2>1. CASE mem' = mem BY <1>1, <2>1 DEF SameJournal
  <2>2. CASE mem' = WithDevice(mem, "RecoveryRequired")
    BY <1>1, <1>2, <2>2, FieldUpdates, PlanFields DEF SameJournal
  <2>3. CASE mem' = Creating(mem, e)
    BY <1>1, <1>2, <2>3, BeginUpdates, PlanFields DEF SameJournal
  <2> QED BY <1>1, <2>1, <2>2, <2>3
<1>4. SameEffects /\ job.pc \notin Doubted \cup Applying
  BY <1>1 DEF SameEffects, Doubted, Applying
<1>5. CASE job' = Idle
  <2>1. job'.pc \in Rest /\ Routes \notin job'.todo BY <1>5 DEF Idle, Rest
  <2> QED BY <1>3, <1>4, <2>1, RestKeeps
<1>6. CASE job' \in {Prepare("create", e, op, plan), Prepare("begin", e, op, plan)}
  <2>1. job'.h = "prepare" /\ job'.pc \in {"create", "begin"} /\ job'.todo = {}
    BY <1>6 DEF Prepare, Run, Idle
  <2> QED BY <1>3, <1>4, <2>1, SameKeeps, CreationLabels DEF Guard, Creation
<1> QED BY <1>1, <1>5, <1>6

LEMMA CreationGuard ==
    ASSUME IInv, Guard, CreateDevice \/ DeviceCreated \/ CreateFailed
    PROVE  Guard'
<1>1. /\ job.pc \in {"create", "created", "create_failed"}
      /\ os' \in {os, os \cup {Device}} /\ disk' \in {disk, mem'}
      /\ mem' \in {mem, WithDevice(mem, "Idle"), WithDevice(mem, "RecoveryRequired")}
      /\ job' \in {Goto("created"), Goto("create_failed"), Goto("begin"), Idle}
  BY DEF CreateDevice, DeviceCreated, CreateFailed, Save, Saved, SaveFailed
<1>2. /\ job \in Job /\ mem \in Journal /\ {"Idle", "RecoveryRequired"} \subseteq DeviceStates
      /\ job.h = "prepare" /\ Routes \notin job.todo
  BY <1>1 DEF IInv, TypeOK, DeviceStates, Guard, Forward, Committing
<1>3. SameJournal
  <2>1. CASE mem' = mem BY <1>1, <2>1 DEF SameJournal
  <2>2. CASE mem' = WithDevice(mem, "RecoveryRequired")
    BY <1>1, <1>2, <2>2, FieldUpdates, PlanFields DEF SameJournal
  <2>3. CASE mem' = WithDevice(mem, "Idle")
    BY <1>1, <1>2, <2>3, FieldUpdates, PlanFields DEF SameJournal
  <2> QED BY <1>1, <2>1, <2>2, <2>3
<1>4. SameEffects /\ job.pc \notin Doubted \cup Applying
  BY <1>1 DEF SameEffects, Doubted, Applying, Device
<1>5. CASE job' = Idle
  <2>1. job'.pc \in Rest /\ Routes \notin job'.todo BY <1>5 DEF Idle, Rest
  <2> QED BY <1>3, <1>4, <2>1, RestKeeps
<1>6. CASE job' \in {Goto("created"), Goto("create_failed"), Goto("begin")}
  <2>1. job'.h = "prepare" /\ job'.pc \in Creation /\ Routes \notin job'.todo
    BY <1>2, <1>6, JobFields DEF Creation
  <2> QED BY <1>3, <1>4, <2>1, SameKeeps, CreationLabels DEF Guard
<1> QED BY <1>1, <1>5, <1>6

\* On a clean journal there is no pump, no policy and no route.
LEMMA CleanHost ==
    ASSUME IInv, mem.phase = "Clean"
    PROVE  /\ os \cap Kinds = {}
           /\ \A k \in Kinds : mem.step[k] = "Absent"
           /\ mem.kind = None
  BY DEF IInv, Recorded, Covers, Empty, Unresolved

LEMMA BeginTransactionGuard ==
    ASSUME IInv, Guard, BeginTransaction
    PROVE  Guard'
<1> DEFINE first == Todo(job, PrepareKinds(job.plan))
<1>1. /\ job.pc = "begin" /\ UNCHANGED os /\ mem' = Begun(mem) /\ disk' \in {disk, mem'}
      /\ job' \in {first, Idle}
  BY DEF BeginTransaction, Save, Saved, SaveFailed
<1>2. /\ job \in Job /\ mem \in Journal /\ job.h = "prepare" /\ mem.phase = "Clean"
  BY <1>1 DEF IInv, TypeOK, OnClean, Guard, Forward
<1>3. /\ mem'.phase = "Preparing" /\ mem'.kind = "Tunnel" /\ mem'.plan = job.plan
      /\ mem'.step[Policy] = "Absent" /\ mem'.step[Routes] = "Absent"
  BY <1>1, <1>2 DEF Begun, Journal, NoSteps, Kinds
<1>4. /\ first.h = "prepare" /\ first.todo = PrepareKinds(job.plan)
      /\ first.pc = IF PrepareKinds(job.plan) = {} THEN "finish" ELSE "plan"
  BY <1>2, TodoFields
<1>5. /\ Routes \notin PrepareKinds(job.plan)
      /\ Policy \in PrepareKinds(job.plan) => Guarded(job.plan)
  BY DEF PrepareKinds, Guarded
<1> HIDE DEF first
<1>6. Forward' /\ Committing'
  <2>1. CASE job' = Idle
    <3>1. job'.pc \in Rest /\ Routes \notin job'.todo BY <2>1 DEF Idle, Rest
    <3> QED BY <3>1, RestLabels
  <2>2. CASE job' = first
    BY <1>3, <1>4, <1>5, <2>2 DEF Forward, Committing, Applying, Restoring, Live
  <2> QED BY <1>1, <2>1, <2>2
<1>7. PolicyRecorded(mem)' /\ PolicyRecorded(disk)' /\ PolicyHolds' /\ RoutesLast'
  BY <1>1, <1>3 DEF Guard, PolicyRecorded, PolicyHolds, RoutesLast, Guarded
<1>8. FlowsBehindKillSwitch'
  <2>1. Pump \notin os'
    BY <1>1, <1>2, CleanHost DEF Kinds
  <2> QED BY <2>1 DEF FlowsBehindKillSwitch
<1> QED BY <1>6, <1>7, <1>8 DEF Guard

LEMMA StartSystemProxyGuard ==
    ASSUME IInv, Guard, NEW e \in Engines, NEW op \in Operations, StartSystemProxy(e, op)
    PROVE  Guard'
<1> DEFINE first == Todo(Run("proxy_alone", "plan", e), {"SystemProxy"})
<1>1. /\ mem.phase = "Clean" /\ UNCHANGED os /\ mem' = ProxyBegun(mem, op, e)
      /\ disk' \in {disk, mem'} /\ job' \in {first, Idle}
  BY DEF StartSystemProxy, Save, Saved, SaveFailed
<1>2. TypeOK /\ mem \in Journal /\ {Policy, Routes, Pump} \subseteq Kinds
  BY DEF IInv, TypeOK, Kinds
<1>3. /\ mem'.phase = "Preparing" /\ mem'.kind = "SystemProxy"
      /\ mem'.step[Policy] = "Absent" /\ mem'.step[Routes] = "Absent"
  BY <1>1, <1>2, BeginUpdates, PlanFields, CleanHost
<1>4. ~mem'.plan.kill_switch
  <2>1. mem'.plan = mem.plan BY <1>1, <1>2 DEF ProxyBegun, Journal
  <2>2. mem.kind = None BY <1>1, CleanHost
  <2> QED BY <2>1, <2>2 DEF Guard, PolicyRecorded, None
<1>5. first.h = "proxy_alone" /\ first.todo = {"SystemProxy"} /\ first.pc = "plan"
  <2>1. Run("proxy_alone", "plan", e) \in Job BY RunType DEF Handlers, Labels
  <2> QED BY <2>1, RunFields, TodoFields
<1> HIDE DEF first
<1>6. Forward' /\ Committing'
  <2>1. CASE job' = Idle
    <3>1. job'.pc \in Rest /\ Routes \notin job'.todo BY <2>1 DEF Idle, Rest
    <3> QED BY <3>1, RestLabels
  <2>2. CASE job' = first
    BY <1>3, <1>5, <2>2 DEF Forward, Committing, Applying, Restoring, Live
  <2> QED BY <1>1, <2>1, <2>2
<1>7. PolicyRecorded(mem)' /\ PolicyRecorded(disk)' /\ PolicyHolds' /\ RoutesLast'
  BY <1>1, <1>3, <1>4 DEF Guard, PolicyRecorded, PolicyHolds, RoutesLast, Guarded
<1>8. FlowsBehindKillSwitch'
  <2>1. Pump \notin os'
    BY <1>1, <1>2, CleanHost
  <2> QED BY <2>1 DEF FlowsBehindKillSwitch
<1> QED BY <1>6, <1>7, <1>8 DEF Guard

(***************************************************************************)
(* Chains: a guard for a live tunnel, and its final network.                *)
(***************************************************************************)
\* A tunnel that becomes a chain has no routes yet, or they came with the
\* policy, or it is active and the policy is due once it is applied.
LEMMA BeginChainGuard ==
    ASSUME IInv, Guard, NEW e \in Engines, BeginChainTransition(e)
    PROVE  Guard'
<1> DEFINE label == ChainLabel(mem.step[Policy], e)
<1>1. /\ job.pc = "idle" /\ mem.phase \in {"Active", "Prepared"} /\ Tunnel
      /\ mem' = Chained(mem, e) /\ disk' \in {disk, mem'} /\ UNCHANGED os
      /\ job' \in {label, Idle}
  BY DEF BeginChainTransition, Ready, Saved, SaveFailed
<1>2. TypeOK /\ mem \in Journal BY DEF IInv, TypeOK
<1>3. /\ mem'.phase = mem.phase /\ mem'.step = mem.step /\ mem'.kind = mem.kind
      /\ mem'.plan.vpn_chain /\ mem'.plan.kill_switch = mem.plan.kill_switch
  <2>1. Chained(mem, e).kind = mem.kind
    BY <1>2 DEF Chained, Journal
  <2>2. /\ Chained(mem, e).plan.vpn_chain
        /\ Chained(mem, e).plan.kill_switch = mem.plan.kill_switch
    <3>1. mem.plan \in AllPlans BY <1>2 DEF Journal
    <3>2. Chained(mem, e).plan = [mem.plan EXCEPT !.vpn_chain = TRUE]
      BY <1>2 DEF Chained, Journal
    <3> QED BY <3>1, <3>2 DEF AllPlans
  <2> QED BY <1>1, <1>2, <2>1, <2>2, ChainUpdates
<1>4. \/ job' = Idle
      \/ /\ job'.h = "begin_chain" /\ job'.todo = {} /\ job'.pc = "finish"
      \/ /\ job'.h = "begin_chain" /\ job'.todo = {Policy} /\ job'.pc = "plan"
  <2>1. Run("begin_chain", "plan", e) \in Job BY RunType DEF Handlers, Labels
  <2>2. label \in {Todo(Run("begin_chain", "plan", e), {}),
                   Todo(Run("begin_chain", "plan", e), {"KillSwitch"}), Idle}
    BY DEF ChainLabel
  <2> QED BY <1>1, <2>1, <2>2, RunFields, TodoFields
<1> HIDE DEF label
<1>5. Forward' /\ Committing'
  <2>1. CASE job' = Idle
    <3>1. job'.pc \in Rest /\ Routes \notin job'.todo BY <2>1 DEF Idle, Rest
    <3> QED BY <3>1, RestLabels
  <2>2. CASE job' # Idle
    BY <1>1, <1>3, <1>4, <2>2 DEF Forward, Committing, Applying, Restoring, Live, Guarded
  <2> QED BY <2>1, <2>2
<1>6. PolicyRecorded(mem)' /\ PolicyRecorded(disk)'
  BY <1>1, <1>3 DEF Guard, PolicyRecorded, Guarded
<1>7. PolicyHolds'
  BY <1>1, <1>3 DEF Guard, PolicyHolds, Doubted
<1>8. mem.phase = "Prepared" /\ mem.step[Routes] # "Absent" => mem.step[Policy] = "Applied"
  BY <1>1 DEF Guard, RoutesLast, Doubted, Applying
<1>9. RoutesLast'
  BY <1>1, <1>3, <1>8 DEF RoutesLast, Guarded
<1>10. FlowsBehindKillSwitch'
  <2> SUFFICES ASSUME Pump \in os, Routes \in os, Policy \notin os, PolicyDue(mem')
               PROVE  FALSE
    BY <1>1 DEF FlowsBehindKillSwitch, PolicyDue
  <2>1. mem.step[Routes] # "Absent"
    BY DEF IInv, Recorded, Covers, Kinds, Unresolved
  <2>2. mem.step[Policy] # "Applied"
    BY <1>1 DEF Guard, PolicyHolds, Live, Doubted
  <2>3. mem.plan.kill_switch
    BY <1>1, <1>3, <1>8, <2>1, <2>2 DEF PolicyDue
  <2> QED BY <2>3 DEF Guard, FlowsBehindKillSwitch, PolicyDue
<1> QED BY <1>5, <1>6, <1>7, <1>9, <1>10 DEF Guard

LEMMA FinalizeTunnelGuard ==
    ASSUME IInv, Guard, NEW e \in Engines, FinalizeTunnel(e)
    PROVE  Guard'
<1>1. /\ job.pc = "idle" /\ mem.phase \in {"Prepared", "Active"} /\ UNCHANGED os
      /\ mem' \in {mem, OwnedBy(mem, e)} /\ disk' \in {disk, mem'}
      /\ job' \in {Run("finalize", "switch", e), Idle}
  BY DEF FinalizeTunnel, Ready, Save, Saved, SaveFailed
<1>2. mem \in Journal BY DEF IInv, TypeOK
<1>3. SameJournal
  BY <1>1, <1>2, FieldUpdates, PlanFields DEF SameJournal
<1>4. SameEffects /\ job.pc \notin Doubted \cup Applying
  BY <1>1 DEF SameEffects, Doubted, Applying
<1>5. CASE job' = Idle
  <2>1. job'.pc \in Rest /\ Routes \notin job'.todo BY <1>5 DEF Idle, Rest
  <2> QED BY <1>3, <1>4, <2>1, RestKeeps
<1>6. CASE job' = Run("finalize", "switch", e)
  <2>1. job'.h = "finalize" /\ job'.pc = "switch" /\ job'.todo = {}
    BY <1>6, RunFields
  <2>2. Forward' /\ Committing'
    BY <1>1, <1>3, <2>1 DEF SameJournal, Forward, Committing, Applying, Restoring, Live
  <2> QED BY <1>3, <1>4, <2>2, SameKeeps DEF Guard
<1> QED BY <1>1, <1>5, <1>6

\* The old network goes without its guard.
LEMMA SwitchStepGuard ==
    ASSUME IInv, Guard, SwitchStep
    PROVE  Guard'
<1>1. PICK k \in Kinds : SwitchStep!2!(k)
  BY DEF SwitchStep
<1>2. /\ job.pc = "switch" /\ UNCHANGED <<mem, disk>> /\ k # Policy
      /\ os' \in {os, os \ {k}} /\ job' \in {At("switched", k), Idle}
  BY <1>1 DEF SwitchStep, SwitchNext, SwitchOrder
<1>3. SameJournal /\ SameEffects /\ job.pc \notin Doubted \cup Applying /\ job \in Job
  BY <1>2 DEF SameJournal, SameEffects, Doubted, Applying, IInv, TypeOK
<1>4. CASE job' = Idle
  <2>1. job'.pc \in Rest /\ Routes \notin job'.todo BY <1>4 DEF Idle, Rest
  <2> QED BY <1>3, <2>1, RestKeeps
<1>5. CASE job' = At("switched", k)
  <2>1. /\ job'.h = job.h /\ job'.pc = "switched" /\ job'.todo = job.todo /\ job'.kind = k
    BY <1>3, <1>5, JobFields
  <2>2. Forward' /\ Committing'
    BY <1>2, <2>1 DEF Guard, Forward, Committing, Applying, Restoring
  <2> QED BY <1>3, <2>2, SameKeeps DEF Guard
<1> QED BY <1>2, <1>4, <1>5

LEMMA SwitchRecordedGuard ==
    ASSUME IInv, Guard, SwitchRecorded
    PROVE  Guard'
<1>1. /\ job.pc = "switched" /\ UNCHANGED os /\ mem' = Remove(mem, job.kind)
      /\ disk' \in {disk, mem'} /\ job' \in {Goto("switch"), Idle}
  BY DEF SwitchRecorded, Save, Saved, SaveFailed
<1>2. /\ job \in Job /\ mem \in Journal /\ job.kind \in Kinds /\ job.kind # Policy
      /\ mem.phase \in Live /\ job.h = "finalize"
      /\ Routes \notin job.todo
  BY <1>1 DEF IInv, TypeOK, Intent, Guard, Forward, Committing
<1>3. /\ mem'.phase = mem.phase /\ mem'.kind = mem.kind /\ mem'.plan = mem.plan
      /\ mem'.step[Policy] = mem.step[Policy]
      /\ mem'.step[Routes] \in {mem.step[Routes], "Absent"}
  <2>1. {Policy, Routes} \subseteq Kinds BY DEF Kinds
  <2> QED BY <1>1, <1>2, <2>1, RemoveFields
<1>4. Forward' /\ Committing'
  <2>1. CASE job' = Idle
    <3>1. job'.pc \in Rest /\ Routes \notin job'.todo BY <2>1 DEF Idle, Rest
    <3> QED BY <3>1, RestLabels
  <2>2. CASE job' = Goto("switch")
    <3>1. job'.h = "finalize" /\ job'.pc = "switch" /\ job'.todo = job.todo
      BY <1>2, <2>2, JobFields
    <3> QED BY <1>2, <1>3, <3>1 DEF Forward, Committing, Applying, Restoring
  <2> QED BY <1>1, <2>1, <2>2
<1>5. PolicyRecorded(mem)' /\ PolicyRecorded(disk)' /\ PolicyHolds'
  BY <1>1, <1>3 DEF Guard, PolicyRecorded, PolicyHolds, Guarded, Doubted
<1>6. RoutesLast'
  BY <1>1, <1>2, <1>3 DEF Guard, RoutesLast, Guarded, Doubted, Applying
<1>7. FlowsBehindKillSwitch'
  BY <1>1, <1>3 DEF Guard, FlowsBehindKillSwitch, PolicyDue
<1> QED BY <1>4, <1>5, <1>6, <1>7 DEF Guard

\* Prepared again, with the old routes gone.
LEMMA SwitchDoneGuard ==
    ASSUME IInv, Guard, SwitchDone
    PROVE  Guard'
<1> DEFINE next == Todo(job, {"InterfaceConfiguration", "Dns"})
<1>1. /\ job.pc = "switch" /\ UNCHANGED os /\ mem' = Finalized(mem) /\ ~SwitchNext(Routes)
      /\ disk' \in {disk, mem'} /\ job' \in {next, Idle}
  BY DEF SwitchDone, Save, Saved, SaveFailed, Kinds
<1>2. /\ job \in Job /\ mem \in Journal /\ mem.phase \in Live /\ job.h = "finalize"
  BY <1>1 DEF IInv, TypeOK, Guard, Forward
<1>3. mem.step[Routes] = "Absent"
  <2>1. 1 \in DOMAIN SwitchOrder /\ SwitchOrder[1] = Routes
    BY DEF SwitchOrder
  <2>2. \A n \in 1 .. (1 - 1) : mem.step[SwitchOrder[n]] = "Absent"
    OBVIOUS
  <2> QED BY <1>1, <2>1, <2>2 DEF SwitchNext
<1>4. /\ mem'.phase = "Prepared" /\ mem'.kind = mem.kind /\ mem'.step = mem.step
      /\ mem'.plan.kill_switch = mem.plan.kill_switch
      /\ mem'.plan.vpn_chain = mem.plan.vpn_chain
  <2>1. mem.plan \in AllPlans BY <1>2 DEF Journal
  <2>2. Finalized(mem).plan = [mem.plan EXCEPT !.defer = FALSE]
    BY <1>2 DEF Finalized, Journal
  <2>3. /\ Finalized(mem).phase = "Prepared" /\ Finalized(mem).kind = mem.kind
        /\ Finalized(mem).step = mem.step
    BY <1>2 DEF Finalized, Journal
  <2> QED BY <1>1, <2>1, <2>2, <2>3 DEF AllPlans
<1>5. next.h = "finalize" /\ next.todo = {"InterfaceConfiguration", "Dns"} /\ next.pc = "plan"
  BY <1>2, TodoFields
<1> HIDE DEF next
<1>6. Forward' /\ Committing'
  <2>1. CASE job' = Idle
    <3>1. job'.pc \in Rest /\ Routes \notin job'.todo BY <2>1 DEF Idle, Rest
    <3> QED BY <3>1, RestLabels
  <2>2. CASE job' = next
    BY <1>4, <1>5, <2>2 DEF Forward, Committing, Applying, Restoring, Live
  <2> QED BY <1>1, <2>1, <2>2
<1>7. PolicyRecorded(mem)' /\ PolicyRecorded(disk)' /\ PolicyHolds' /\ RoutesLast'
  BY <1>1, <1>2, <1>3, <1>4 DEF Guard, PolicyRecorded, PolicyHolds, RoutesLast, Guarded, Doubted
<1>8. FlowsBehindKillSwitch'
  <2>1. Routes \notin os
    BY <1>3 DEF IInv, Recorded, Covers, Kinds, Unresolved
  <2> QED BY <1>1, <2>1 DEF FlowsBehindKillSwitch
<1> QED BY <1>6, <1>7, <1>8 DEF Guard

(***************************************************************************)
(* Packet sessions, leases and the system proxy.                            *)
(***************************************************************************)
LEMMA SessionGuard ==
    ASSUME IInv, Guard,
           \/ StopPacketPump \/ SessionClosed \/ LeaseReleased
           \/ UndoSystemProxy \/ SystemProxyUndone
    PROVE  Guard'
<1>1. /\ job.pc \in {"close", "detach", "closed", "detached", "proxy_undo", "proxy_undone"}
      /\ os' \in {os, os \ {"PacketSession"}, os \ {"SystemProxy"}}
      /\ disk' \in {disk, mem'}
      /\ mem' \in {mem, Remove(mem, "PacketSession"), Remove(mem, "SystemProxy")}
      /\ job' \in {Idle, Goto("closed"), Goto("detached"), Goto("proxy_undone")}
  BY DEF StopPacketPump, SessionClosed, LeaseReleased, UndoSystemProxy, SystemProxyUndone,
         Save, Saved, SaveFailed
<1>2. SameJournal
  <2>1. {"PacketSession", "SystemProxy"} \subseteq Kinds \ {Policy, Routes}
        /\ "Absent" \in StepStates
    BY DEF Kinds, StepStates
  <2>2. CASE mem' \in {mem, Remove(mem, "PacketSession")} BY <1>1, <2>1, <2>2, OtherStep
  <2>3. CASE mem' \in {mem, Remove(mem, "SystemProxy")} BY <1>1, <2>1, <2>3, OtherStep
  <2> QED BY <1>1, <2>2, <2>3
<1>3. SameEffects /\ job.pc \notin Doubted \cup Applying /\ job \in Job
  BY <1>1 DEF SameEffects, Doubted, Applying, IInv, TypeOK
<1>4. job'.pc \in Rest /\ (Routes \in job'.todo => job'.h = "commit")
  BY <1>1, <1>3, JobFields DEF Guard, Committing, Rest
<1> QED BY <1>2, <1>3, <1>4, RestKeeps

LEMMA ResumeTunnelGuard ==
    ASSUME IInv, Guard, NEW e \in Engines, ResumeTunnel(e)
    PROVE  Guard'
<1>1. /\ job.pc = "idle" /\ mem.phase = "Active" /\ UNCHANGED os
      /\ mem' = Resumed(mem, e) /\ disk' \in {disk, mem'}
      /\ job' \in {Run("resume", "resume", e), Idle}
  BY DEF ResumeTunnel, Ready, Save, Saved, SaveFailed
<1>2. TypeOK /\ mem \in Journal BY DEF IInv, TypeOK
<1>3. SameJournal
  BY <1>1, <1>2, ChainUpdates, PlanFields DEF SameJournal
<1>4. SameEffects /\ job.pc \notin Doubted \cup Applying
  BY <1>1 DEF SameEffects, Doubted, Applying
<1>5. CASE job' = Idle
  <2>1. job'.pc \in Rest /\ Routes \notin job'.todo BY <1>5 DEF Idle, Rest
  <2> QED BY <1>3, <1>4, <2>1, RestKeeps
<1>6. CASE job' = Run("resume", "resume", e)
  <2>1. job'.h = "resume" /\ job'.pc = "resume" /\ job'.todo = {}
    BY <1>6, RunFields
  <2>2. Forward' /\ Committing'
    BY <1>1, <1>3, <2>1 DEF SameJournal, Forward, Committing, Applying, Restoring
  <2> QED BY <1>3, <1>4, <2>2, SameKeeps DEF Guard
<1> QED BY <1>1, <1>5, <1>6

\* The pump starts again only in an active tunnel, behind its policy.
LEMMA StartPacketPumpGuard ==
    ASSUME IInv, Guard, StartPacketPump
    PROVE  Guard'
<1>1. /\ job.pc = "resume" /\ UNCHANGED <<mem, disk>> /\ job' = Idle
      /\ os' \in {os, os \cup {Pump}}
  BY DEF StartPacketPump
<1>2. mem.phase = "Active" /\ job.pc \notin Doubted
  BY <1>1 DEF Guard, Forward, Doubted
<1>3. job'.pc \in Rest /\ Routes \notin job'.todo BY <1>1 DEF Idle, Rest
<1>4. Forward' /\ Committing' BY <1>3, RestLabels
<1>5. PolicyRecorded(mem)' /\ PolicyRecorded(disk)' /\ PolicyHolds' /\ RoutesLast'
  BY <1>1, <1>2 DEF Guard, PolicyRecorded, PolicyHolds, RoutesLast, Guarded
<1>6. PolicyDue(mem) => Policy \in os
  BY <1>2, DuePolicyHolds DEF Live
<1>7. FlowsBehindKillSwitch'
  BY <1>1, <1>6 DEF FlowsBehindKillSwitch, PolicyDue
<1> QED BY <1>4, <1>5, <1>7 DEF Guard

(***************************************************************************)
(* Recovery, retirement, and a new process.                                 *)
(***************************************************************************)
\* Once recovery has begun nothing counts on the policy but the pump.
LEMMA BackwardKeeps ==
    ASSUME Guard, mem'.phase \notin Live, mem'.kind = mem.kind, mem'.plan = mem.plan,
           mem'.step[Policy] = mem.step[Policy], disk' \in {disk, mem'}, UNCHANGED os,
           Forward', Committing'
    PROVE  Guard'
<1>1. PolicyRecorded(mem)' /\ PolicyRecorded(disk)'
  BY DEF Guard, PolicyRecorded, Guarded, Live
<1>2. PolicyHolds' /\ RoutesLast'
  BY DEF PolicyHolds, RoutesLast, Live
<1>3. FlowsBehindKillSwitch'
  BY DEF Guard, FlowsBehindKillSwitch, PolicyDue, Live
<1> QED BY <1>1, <1>2, <1>3 DEF Guard

LEMMA BeginRecoveryGuard ==
    ASSUME IInv, Guard, BeginRecovery
    PROVE  Guard'
<1>1. /\ mem' = InPhase(mem, "Recovering") /\ disk' \in {disk, mem'} /\ UNCHANGED os
      /\ job' = Failures({})
  BY DEF BeginRecovery, Save, Saved, SaveFailed
<1>2. mem \in Journal /\ job \in Job /\ "Recovering" \in Phases
  BY DEF IInv, TypeOK, Phases
<1>3. /\ mem'.phase = "Recovering" /\ mem'.kind = mem.kind /\ mem'.plan = mem.plan
      /\ mem'.step = mem.step
  BY <1>1, <1>2, FieldUpdates, PlanFields
<1>4. job'.h = job.h /\ job'.pc = "restore" /\ job'.todo = job.todo
  BY <1>1, <1>2, JobFields
<1>5. Forward' /\ Committing'
  BY <1>3, <1>4 DEF Guard, Forward, Committing, Applying, Restoring
<1> QED BY <1>1, <1>3, <1>5, BackwardKeeps DEF Live

\* The policy goes only when the pump has gone.
LEMMA RestoreStepGuard ==
    ASSUME IInv, Guard, RestoreStep
    PROVE  Guard'
<1>1. PICK k \in Kinds : RestoreStep!2!(k)
  BY DEF RestoreStep
<1>2. /\ job.pc = "restore" /\ UNCHANGED <<mem, disk>> /\ os' \subseteq os
      /\ job' \in {Goto("required"), At("mark", k), RestoreFailed(k)}
      /\ mem.step[k] # "Absent"
      /\ mem.phase = "Recovering" /\ job \in Job
  BY <1>1 DEF RestoreStep, NextRestore, Pending, Unresolved, IInv, TypeOK, Guard, Forward,
              Restoring
<1>3. /\ job'.h = job.h /\ job'.todo = job.todo /\ job'.pc \in {"required", "mark", "restore"}
      /\ job'.pc = "mark" => job'.kind = k
  <2>1. CASE job' = RestoreFailed(k) BY <1>2, <2>1 DEF RestoreFailed, Job
  <2>2. CASE job' \in {Goto("required"), At("mark", k)} BY <1>2, <2>2, JobFields
  <2> QED BY <1>2, <2>1, <2>2
<1>4. Forward' /\ Committing'
  BY <1>2, <1>3 DEF Guard, Forward, Committing, Applying, Restoring
<1>5. PolicyRecorded(mem)' /\ PolicyRecorded(disk)' /\ PolicyHolds' /\ RoutesLast'
  BY <1>2 DEF Guard, PolicyRecorded, PolicyHolds, RoutesLast, Guarded, Live
<1>6. FlowsBehindKillSwitch'
  <2>1. CASE Policy \in os \ os'
    <3>1. Pump \notin os BY <2>1, PolicyAfterPump
    <3> QED BY <1>2, <3>1 DEF FlowsBehindKillSwitch
  <2>2. CASE Policy \notin os \ os'
    BY <1>2, <2>2 DEF Guard, FlowsBehindKillSwitch, PolicyDue
  <2> QED BY <2>1, <2>2
<1> QED BY <1>4, <1>5, <1>6 DEF Guard

LEMMA MarkRestoredGuard ==
    ASSUME IInv, Guard, MarkRestored
    PROVE  Guard'
<1>1. /\ job.pc = "mark" /\ mem' = Mark(mem, job.kind, "Restored") /\ disk' \in {disk, mem'}
      /\ UNCHANGED os /\ job' \in {Goto("restore"), Failures(job.failed \cup {Persist})}
  BY DEF MarkRestored, Save, Saved, SaveFailed
<1>2. /\ mem \in Journal /\ job \in Job /\ job.kind \in Kinds /\ mem.phase = "Recovering"
      /\ mem.step[job.kind] # "Absent" /\ "Restored" \in StepStates /\ Policy \in Kinds
  BY <1>1 DEF IInv, TypeOK, Intent, Guard, Forward, Restoring, StepStates, Kinds
<1>3. /\ mem'.phase = mem.phase /\ mem'.kind = mem.kind /\ mem'.plan = mem.plan
      /\ mem'.step[Policy] = IF job.kind = Policy THEN "Restored" ELSE mem.step[Policy]
  BY <1>1, <1>2, MarkFields
<1>4. job'.h = job.h /\ job'.pc = "restore" /\ job'.todo = job.todo
  BY <1>1, <1>2, JobFields
<1>5. Forward' /\ Committing'
  BY <1>2, <1>3, <1>4 DEF Guard, Forward, Committing, Applying, Restoring
<1>6. PolicyRecorded(mem)' /\ PolicyRecorded(disk)'
  BY <1>1, <1>2, <1>3 DEF Guard, PolicyRecorded, Guarded
<1>7. PolicyHolds' /\ RoutesLast' /\ FlowsBehindKillSwitch'
  BY <1>1, <1>2, <1>3
     DEF Guard, PolicyHolds, RoutesLast, FlowsBehindKillSwitch, PolicyDue, Live
<1> QED BY <1>5, <1>6, <1>7 DEF Guard

LEMMA RestoreEndedGuard ==
    ASSUME IInv, Guard, RestoreEnded
    PROVE  Guard'
<1>1. /\ job.pc = "restore" /\ UNCHANGED <<mem, disk, os>>
      /\ job' \in {Goto("clean"), Goto("required")}
  BY DEF RestoreEnded
<1>2. job \in Job /\ mem.phase = "Recovering"
  BY <1>1 DEF IInv, TypeOK, Guard, Forward, Restoring
<1>3. job'.h = job.h /\ job'.pc \in {"clean", "required"} /\ job'.todo = job.todo
  BY <1>1, <1>2, JobFields
<1>4. Forward' /\ Committing'
  BY <1>1, <1>2, <1>3 DEF Guard, Forward, Committing, Applying, Restoring
<1> QED BY <1>1, <1>2, <1>4, BackwardKeeps DEF Live

\* A clean journal asks for no policy.
LEMMA CleanKeeps ==
    ASSUME Guard, NEW j \in Journal, mem' \in {Disconnected(j), CleanJournal},
           disk' \in {disk, mem'}, Forward', Committing'
    PROVE  Guard'
<1>1. /\ mem'.phase = "Clean" /\ mem'.plan = NoPlan /\ mem'.step[Policy] = "Absent"
  BY CleanUpdates, PlanFields DEF Kinds
<1>2. ~mem'.plan.kill_switch /\ ~mem'.plan.vpn_chain
  BY <1>1 DEF NoPlan
<1>3. PolicyRecorded(mem)' /\ PolicyRecorded(disk)'
  BY <1>1, <1>2 DEF Guard, PolicyRecorded, Guarded
<1>4. PolicyHolds' /\ RoutesLast' /\ FlowsBehindKillSwitch'
  BY <1>1, <1>2 DEF PolicyHolds, RoutesLast, FlowsBehindKillSwitch, PolicyDue, Live
<1> QED BY <1>3, <1>4 DEF Guard

LEMMA PublishCleanGuard ==
    ASSUME IInv, Guard, PublishClean
    PROVE  Guard'
<1>1. /\ job.pc = "clean" /\ UNCHANGED os
      /\ \/ /\ mem' = Disconnected(mem) /\ disk' = mem' /\ job' \in {Goto("retire"), Done}
         \/ UNCHANGED <<mem, disk>> /\ job' = Goto("required")
  BY DEF PublishClean, Saved
<1>2. /\ job \in Job /\ mem \in Journal /\ mem.phase = "Recovering"
      /\ Routes \in job.todo => job.h = "commit"
  BY <1>1 DEF IInv, TypeOK, Guard, Forward, Committing, Restoring
<1>3. CASE mem' = Disconnected(mem) /\ disk' = mem' /\ job' \in {Goto("retire"), Done}
  <2>1. job'.pc \in Rest /\ (Routes \in job'.todo => job'.h = "commit")
    <3>1. CASE job' = Goto("retire") BY <1>2, <3>1, JobFields DEF Rest
    <3>2. CASE job' = Done BY <1>2, <3>2, DoneFields DEF Rest
    <3> QED BY <1>3, <3>1, <3>2
  <2>2. Forward' /\ Committing' BY <2>1, RestLabels
  <2> QED BY <1>2, <1>3, <2>2, CleanKeeps
<1>4. CASE UNCHANGED <<mem, disk>> /\ job' = Goto("required")
  <2>1. job'.h = job.h /\ job'.pc = "required" /\ job'.todo = job.todo
    BY <1>2, <1>4, JobFields
  <2>2. Forward' /\ Committing'
    BY <1>2, <1>4, <2>1 DEF Guard, Forward, Committing, Applying, Restoring
  <2> QED BY <1>1, <1>2, <1>4, <2>2, BackwardKeeps DEF Live
<1> QED BY <1>1, <1>3, <1>4

LEMMA RequireRecoveryGuard ==
    ASSUME IInv, Guard, RequireRecovery
    PROVE  Guard'
<1>1. /\ mem' = InPhase(mem, "RecoveryRequired") /\ disk' \in {disk, mem'} /\ UNCHANGED os
      /\ job' = Done
  BY DEF RequireRecovery, Save, Saved, SaveFailed
<1>2. /\ mem \in Journal /\ job \in Job /\ "RecoveryRequired" \in Phases
      /\ Routes \in job.todo => job.h = "commit"
  BY DEF IInv, TypeOK, Phases, Guard, Committing
<1>3. /\ mem'.phase = "RecoveryRequired" /\ mem'.kind = mem.kind /\ mem'.plan = mem.plan
      /\ mem'.step = mem.step
  BY <1>1, <1>2, FieldUpdates, PlanFields
<1>4. job'.pc \in Rest /\ (Routes \in job'.todo => job'.h = "commit")
  BY <1>1, <1>2, DoneFields DEF Rest
<1>5. Forward' /\ Committing' BY <1>4, RestLabels
<1> QED BY <1>1, <1>3, <1>5, BackwardKeeps DEF Live

LEMMA RetirementGuard ==
    ASSUME IInv, Guard, RetireDevice \/ RemoveDevice \/ RecordRetirement
    PROVE  Guard'
<1>1. /\ job.pc \in {"retire", "remove", "retired"} /\ os' \in {os, os \ {Device}}
      /\ mem' \in {mem, WithDevice(mem, "Retiring"), WithDevice(mem, "RecoveryRequired"),
                   CleanJournal}
      /\ disk' \in {disk, mem'}
      /\ job' \in {Done, Goto("remove"), Goto("retired")}
  BY DEF RetireDevice, RemoveDevice, RecordRetirement, Saved, SaveFailed
<1>2. /\ mem \in Journal /\ job \in Job
      /\ Routes \in job.todo => job.h = "commit"
      /\ {"Retiring", "RecoveryRequired"} \subseteq DeviceStates
  BY DEF IInv, TypeOK, Guard, Committing, DeviceStates
<1>3. job'.pc \in Rest /\ (Routes \in job'.todo => job'.h = "commit")
  <2>1. CASE job' = Done BY <1>2, <2>1, DoneFields DEF Rest
  <2>2. CASE job' \in {Goto("remove"), Goto("retired")} BY <1>2, <2>2, JobFields DEF Rest
  <2> QED BY <1>1, <2>1, <2>2
<1>4. CASE mem' = CleanJournal
  <2>1. Forward' /\ Committing' BY <1>3, RestLabels
  <2> QED BY <1>1, <1>2, <1>4, <2>1, CleanKeeps
<1>5. CASE mem' # CleanJournal
  <2>1. SameJournal
    <3>1. CASE mem' = mem BY <1>1, <3>1 DEF SameJournal
    <3>2. CASE mem' = WithDevice(mem, "Retiring")
      BY <1>1, <1>2, <3>2, FieldUpdates, PlanFields DEF SameJournal
    <3>3. CASE mem' = WithDevice(mem, "RecoveryRequired")
      BY <1>1, <1>2, <3>3, FieldUpdates, PlanFields DEF SameJournal
    <3> QED BY <1>1, <1>5, <3>1, <3>2, <3>3
  <2>2. SameEffects /\ job.pc \notin Doubted \cup Applying
    BY <1>1 DEF SameEffects, Doubted, Applying, Device
  <2> QED BY <1>3, <2>1, <2>2, RestKeeps
<1> QED BY <1>4, <1>5

\* A new process believes nothing yet, and its pump does not run.
LEMMA RestartGuard ==
    ASSUME IInv, Guard, NEW lost, Restart(lost), Pump \in lost
    PROVE  Guard'
<1>1. mem' = disk /\ disk' = disk /\ os' = os \ lost /\ job' = Run("boot", "boot", None)
  BY DEF Restart
<1>2. job'.pc = "boot" /\ Routes \notin job'.todo
  BY <1>1, RunFields
<1>3. Forward' /\ Committing' BY <1>2, RestLabels DEF Rest
<1>4. PolicyRecorded(mem)' /\ PolicyRecorded(disk)'
  BY <1>1 DEF Guard, PolicyRecorded, Guarded
<1>5. PolicyHolds' /\ RoutesLast'
  BY <1>2 DEF PolicyHolds, RoutesLast, Doubted
<1>6. FlowsBehindKillSwitch'
  BY <1>1 DEF FlowsBehindKillSwitch
<1> QED BY <1>3, <1>4, <1>5, <1>6 DEF Guard

\* Startup offers an active tunnel only after it found the policy in Windows.
LEMMA BootGuard ==
    ASSUME IInv, Guard, Boot
    PROVE  Guard'
<1>1. job.pc = "boot" /\ UNCHANGED os /\ job \in Job /\ mem \in Journal
      /\ (Routes \in job.todo => job.h = "commit")
  BY DEF Boot, IInv, TypeOK, Guard, Committing
<1>2. ASSUME NEW pc \in {"boot_retire", "recover"}, job' = Goto(pc)
      PROVE  job'.pc = pc /\ Forward' /\ Committing'
  <2>1. job'.pc = pc /\ job'.pc \in Rest /\ (Routes \in job'.todo => job'.h = "commit")
    BY <1>1, <1>2, JobFields DEF Rest
  <2> QED BY <2>1, RestLabels
<1>3. CASE mem' = Disconnected(mem) /\ disk' = mem' /\ job' = Goto("boot_retire")
  BY <1>1, <1>2, <1>3, CleanKeeps
<1>4. CASE /\ UNCHANGED <<mem, disk>> /\ job' = Goto("recover")
  <2>1. job'.pc = "recover" /\ Forward' /\ Committing' BY <1>2, <1>4
  <2>2. SameJournal /\ SameEffects BY <1>1, <1>4 DEF SameJournal, SameEffects
  <2> QED BY <1>1, <2>1, <2>2, SameKeeps DEF Guard, Doubted, Applying
<1>5. CASE UNCHANGED <<mem, disk>> /\ job' = Goto("boot_retire") /\ mem.phase \notin Live
  <2>1. Forward' /\ Committing' BY <1>2, <1>5
  <2> QED BY <1>1, <1>5, <2>1, BackwardKeeps
<1>6. CASE /\ UNCHANGED <<mem, disk>> /\ job' = Goto("boot_retire")
           /\ mem.phase = "Active" /\ Reattachable
  <2>1. Forward' /\ Committing' BY <1>2, <1>6
  <2>2. mem.step[Policy] = "Applied" => Policy \in os
    BY <1>6 DEF Guard, PolicyRecorded, Reattachable
  <2>3. PolicyRecorded(mem)' /\ PolicyRecorded(disk)' /\ PolicyHolds'
    BY <1>1, <1>6, <2>2 DEF Guard, PolicyRecorded, PolicyHolds, Guarded
  <2>4. RoutesLast' /\ FlowsBehindKillSwitch'
    BY <1>1, <1>6 DEF Guard, RoutesLast, FlowsBehindKillSwitch, PolicyDue
  <2> QED BY <2>1, <2>3, <2>4 DEF Guard
<1>7. CASE /\ mem' = InPhase(mem, "RecoveryRequired") /\ disk' \in {mem', disk}
           /\ job' = Goto("boot_retire")
  <2>1. /\ mem'.phase = "RecoveryRequired" /\ mem'.kind = mem.kind /\ mem'.plan = mem.plan
        /\ mem'.step = mem.step
    BY <1>1, <1>7, FieldUpdates, PlanFields DEF Phases
  <2>2. Forward' /\ Committing' BY <1>2, <1>7
  <2> QED BY <1>1, <1>7, <2>1, <2>2, BackwardKeeps DEF Live
<1>8. CASE Reconciled
  BY <1>3, <1>4, <1>5, <1>8 DEF Reconciled, Saved, Live
<1>9. CASE RetainActive
  BY <1>4, <1>6, <1>7, <1>9 DEF RetainActive
<1>10. CASE Interrupted /\ job' = Goto("recover") /\ UNCHANGED <<mem, disk>>
  BY <1>4, <1>10
<1>11. CASE Quarantined /\ job' = Goto("boot_retire") /\ UNCHANGED <<mem, disk>>
  BY <1>5, <1>11 DEF Quarantined, Live
<1> QED BY <1>8, <1>9, <1>10, <1>11 DEF Boot

LEMMA BootRetireGuard ==
    ASSUME IInv, Guard, BootRetire
    PROVE  Guard'
<1>1. /\ job.pc = "boot_retire" /\ UNCHANGED <<mem, disk, os>>
      /\ job' \in {Idle, Run("boot_retire", "retire", None)}
  BY DEF BootRetire
<1>2. SameJournal /\ SameEffects /\ job.pc \notin Doubted \cup Applying
  BY <1>1 DEF SameJournal, SameEffects, Doubted, Applying
<1>3. job'.pc \in Rest /\ Routes \notin job'.todo
  <2>1. CASE job' = Idle BY <2>1 DEF Idle, Rest
  <2>2. CASE job' = Run("boot_retire", "retire", None) BY <2>2, RunFields DEF Rest
  <2> QED BY <1>1, <2>1, <2>2
<1> QED BY <1>2, <1>3, RestKeeps

(***************************************************************************)
(* The invariant and its theorem.                                           *)
(***************************************************************************)
LEMMA InitGuard == Init => Guard
<1> SUFFICES ASSUME Init PROVE Guard OBVIOUS
<1>1. /\ mem = CleanJournal /\ disk = CleanJournal /\ os = {} /\ job = Idle
  BY DEF Init
<1>2. /\ CleanJournal.phase = "Clean" /\ ~CleanJournal.plan.kill_switch
      /\ CleanJournal.step[Policy] = "Absent"
  BY DEF CleanJournal, NoSteps, NoPlan, Kinds
<1>3. PolicyRecorded(mem) /\ PolicyRecorded(disk)
  BY <1>1, <1>2 DEF PolicyRecorded
<1>4. PolicyHolds /\ RoutesLast /\ FlowsBehindKillSwitch
  BY <1>1, <1>2 DEF PolicyHolds, RoutesLast, FlowsBehindKillSwitch, Live
<1>5. job.pc = "idle" /\ job.todo = {}
  BY <1>1 DEF Idle
<1>6. Forward /\ Committing
  BY <1>5 DEF Forward, Committing, Applying, Restoring
<1> QED BY <1>3, <1>4, <1>6 DEF Guard

LEMMA RequestStepGuard ==
    ASSUME IInv, Guard, Request
    PROVE  Guard'
<1>1. PICK e \in Engines :
        \/ TunnelRequest(e) \/ LeaseRequest(e) \/ ChainRequest(e) \/ ProxyRequest(e)
  BY DEF Request
<1>2. CASE TunnelRequest(e)
  BY <1>2, PrepareManagedGuard, OpenPacketSessionGuard, CommitGuard, RequestsGuard,
     LeasesGuard DEF TunnelRequest
<1>3. CASE LeaseRequest(e)
  BY <1>3, RequestsGuard, ResumeTunnelGuard, LeasesGuard DEF LeaseRequest
<1>4. CASE ChainRequest(e)
  BY <1>4, BeginChainGuard, FinalizeTunnelGuard DEF ChainRequest
<1>5. CASE ProxyRequest(e)
  BY <1>5, JoinGuard, RequestsGuard, StartSystemProxyGuard DEF ProxyRequest
<1> QED BY <1>1, <1>2, <1>3, <1>4, <1>5

LEMMA EventStepGuard ==
    ASSUME IInv, Guard, Event
    PROVE  Guard'
<1>1. CASE RecoveryRequest
  <2>1. ASSUME NEW e \in Engines, RecoverOrphaned(e) PROVE Guard'
    BY <2>1, RequestsGuard
  <2> QED BY <1>1, <2>1, EventsGuard DEF RecoveryRequest
<1>2. CASE ~RecoveryRequest
  BY <1>2, EventsGuard, LeasesGuard DEF Event
<1> QED BY <1>1, <1>2

LEMMA HandlerStepGuard ==
    ASSUME IInv, Guard, HandlerStep
    PROVE  Guard'
<1>1. CASE \/ PlanStep \/ ApplyStep \/ RecordApplied \/ CreateDevice \/ DeviceCreated
           \/ CreateFailed \/ BeginTransaction \/ FinishPrepare \/ FinishChain
           \/ FinishApply \/ FinishOpen \/ FinishCommit
  BY <1>1, PlanStepGuard, ApplyStepGuard, RecordAppliedGuard, CreationGuard,
     BeginTransactionGuard, FinishPrepareGuard, FinishGuard, FinishCommitGuard
<1>2. CASE \/ SwitchStep \/ SwitchRecorded \/ SwitchDone \/ StopPacketPump
           \/ SessionClosed \/ StartPacketPump \/ LeaseReleased
           \/ UndoSystemProxy \/ SystemProxyUndone
  BY <1>2, SwitchStepGuard, SwitchRecordedGuard, SwitchDoneGuard, SessionGuard,
     StartPacketPumpGuard
<1>3. CASE \/ BeginRecovery \/ RestoreStep \/ MarkRestored \/ RestoreEnded
           \/ PublishClean \/ RequireRecovery \/ RetireDevice \/ RemoveDevice
           \/ RecordRetirement \/ Boot \/ BootRetire
  BY <1>3, BeginRecoveryGuard, RestoreStepGuard, MarkRestoredGuard, RestoreEndedGuard,
     PublishCleanGuard, RequireRecoveryGuard, RetirementGuard, BootGuard, BootRetireGuard
<1> QED BY <1>1, <1>2, <1>3 DEF HandlerStep

\* Every step of the coordinator keeps the guard.
LEMMA StepGuard == IInv /\ Guard /\ [Next]_vars => Guard'
<1> SUFFICES ASSUME IInv, Guard, [Next]_vars PROVE Guard' OBVIOUS
<1>1. CASE ProcessEnd
  <2>1. Pump \in ProcessLocal BY DEF ProcessLocal
  <2>2. CASE Crash \/ IdleExit
    BY <2>1, <2>2, RestartGuard DEF Crash, IdleExit
  <2>3. CASE Reboot
    BY <2>1, <2>3, RestartGuard DEF Reboot
  <2>4. CASE Shutdown BY <2>4, EventsGuard
  <2> QED BY <1>1, <2>2, <2>3, <2>4 DEF ProcessEnd
<1>2. CASE Wait \/ UNCHANGED vars
  BY <1>2, UnmovedKeeps DEF Wait, vars
<1> QED BY <1>1, <1>2, RequestStepGuard, EventStepGuard, HandlerStepGuard DEF Next

\* A tunnel that is offered is believed, so its journal and Windows agree.
LEMMA GuardProtects == Guard => KillSwitchFailsClosed
<1> SUFFICES ASSUME Guard PROVE ActiveIsProtected
  BY DEF Guard, KillSwitchFailsClosed
<1>1. PolicyRecorded(mem) /\ PolicyHolds BY DEF Guard
<1> QED BY <1>1 DEF ActiveIsProtected, PolicyRecorded, PolicyHolds, Ready, Doubted, Live

LEMMA GuardInvariance == Spec => []Guard
  BY InitGuard, StepGuard, Invariance, PTL DEF Spec

\* The kill switch fails closed (INV-KILLSWITCH-FAIL-CLOSED): while packets
\* flow into the tunnel, and whenever the Agent offers a tunnel, the blocking
\* policy that is due is in Windows (coordinator.rs apply_new_step,
\* restore_steps_locked, begin_chain_transition, inspect_startup_tunnel).
THEOREM KillSwitchHolds == Spec => []KillSwitchFailsClosed
  BY GuardInvariance, GuardProtects, PTL


(***************************************************************************)
(* Every journal that a handler saves is one that validate accepts.         *)
(***************************************************************************)
\* What the handlers know of the journal at their labels.
Known ==
    /\ job.pc = "recover" => mem.phase # "Clean"
    /\ job.pc \in {"create", "created", "begin"} =>
          job.e \in Engines /\ job.op \in Operations /\ mem.sid = Account[job.e]
    /\ job.pc \in Applying /\ mem.kind = "SystemProxy" => job.todo \subseteq {"SystemProxy"}
    /\ job.pc \in Applying /\ job.h \in {"prepare", "commit"} => mem.kind = "Tunnel"
    /\ job.pc \in Applying /\ job.h = "commit" => ~mem.plan.defer
    /\ job.pc \in {"switch", "switched"} => mem.kind = "Tunnel"

Loads == ValidJournal(mem) /\ ValidJournal(disk) /\ Known

(***************************************************************************)
(* What the updates of a journal leave valid.                               *)
(***************************************************************************)
Listed(s, k) == \E i \in DOMAIN s : s[i] = k
Distinct(s) == \A i, n \in DOMAIN s : s[i] = s[n] => i = n

LEMMA ValidParts ==
    ASSUME NEW j \in Journal
    PROVE  ValidJournal(j) <=>
              /\ DeviceValid(j) /\ CleanValid(j) /\ ShapeValid(j)
              /\ \A k \in Kinds : j.step[k] # "Absent" <=> Listed(j.order, k)
              /\ Distinct(j.order)
  BY DEF ValidJournal, Listed, Distinct

LEMMA AppendListed ==
    ASSUME NEW s \in Seq(Kinds), NEW k \in Kinds, Distinct(s), ~Listed(s, k)
    PROVE  /\ Distinct(Append(s, k))
           /\ \A x \in Kinds : Listed(Append(s, k), x) <=> x = k \/ Listed(s, x)
<1> DEFINE t == Append(s, k)
<1>1. /\ Len(s) \in Nat /\ DOMAIN s = 1 .. Len(s) /\ DOMAIN t = 1 .. Len(s) + 1
      /\ t[Len(s) + 1] = k /\ \A i \in 1 .. Len(s) : t[i] = s[i]
  OBVIOUS
<1> HIDE DEF t
<1>2. \A i \in DOMAIN t : i = Len(s) + 1 \/ i \in DOMAIN s BY <1>1
<1>3. Distinct(t) BY <1>1, <1>2 DEF Distinct, Listed
<1>4. \A x \in Kinds : Listed(t, x) <=> x = k \/ Listed(s, x)
  <2>1. ASSUME NEW x \in Kinds, Listed(t, x) PROVE x = k \/ Listed(s, x)
    BY <1>1, <1>2, <2>1 DEF Listed
  <2>2. ASSUME NEW x \in Kinds, x = k PROVE Listed(t, x)
    <3>1. Len(s) + 1 \in DOMAIN t BY <1>1
    <3> QED BY <1>1, <2>2, <3>1 DEF Listed
  <2>3. ASSUME NEW x \in Kinds, Listed(s, x) PROVE Listed(t, x)
    <3>1. \A i \in DOMAIN s : i \in DOMAIN t BY <1>1
    <3> QED BY <1>1, <2>3, <3>1 DEF Listed
  <2> QED BY <2>1, <2>2, <2>3
<1> QED BY <1>3, <1>4 DEF t

LEMMA WithoutListed ==
    ASSUME NEW s \in Seq(Kinds), NEW k \in Kinds, Distinct(s)
    PROVE  /\ Distinct(Without(s, k)) /\ (s = <<>> => Without(s, k) = <<>>)
           /\ \A x \in Kinds : Listed(Without(s, k), x) <=> x # k /\ Listed(s, x)
<1>1. CASE ~Listed(s, k)
  <2>1. Without(s, k) = s BY <1>1 DEF Without, Listed
  <2> QED BY <1>1, <2>1 DEF Listed
<1>2. CASE Listed(s, k)
  <2> DEFINE i == CHOOSE n \in DOMAIN s : s[n] = k
             t == Without(s, k)
  <2>1. i \in DOMAIN s /\ s[i] = k BY <1>2 DEF Listed
  <2>2. t = SubSeq(s, 1, i - 1) \o SubSeq(s, i + 1, Len(s)) BY <1>2 DEF Without, Listed
  <2> HIDE DEF i, t
  <2>3. Len(s) \in Nat /\ DOMAIN s = 1 .. Len(s) /\ i \in 1 .. Len(s) BY <2>1
  <2>4. /\ DOMAIN t = 1 .. Len(s) - 1
        /\ \A m \in 1 .. Len(s) - 1 : t[m] = IF m < i THEN s[m] ELSE s[m + 1]
    <3> DEFINE A == SubSeq(s, 1, i - 1)
               B == SubSeq(s, i + 1, Len(s))
    <3>1. A \in Seq(Kinds) /\ Len(A) = i - 1 /\ \A m \in 1 .. i - 1 : A[m] = s[m]
      BY <2>3
    <3>2. /\ B \in Seq(Kinds) /\ Len(B) = Len(s) - i
          /\ \A m \in 1 .. Len(s) - i : B[m] = s[i + m]
      <4>1. \A m \in i + 1 .. Len(s) : s[m] \in Kinds BY <2>3
      <4>2. /\ B \in Seq(Kinds)
            /\ Len(B) = IF i + 1 <= Len(s) THEN Len(s) - (i + 1) + 1 ELSE 0
            /\ \A m \in 1 .. Len(s) - (i + 1) + 1 : B[m] = s[i + 1 + m - 1]
        <5> HIDE DEF B
        <5>1. i + 1 \in Int /\ Len(s) \in Int BY <2>3
        <5> QED BY <4>1, <5>1, SubSeqProperties DEF B
      <4> HIDE DEF B
      <4>3. \A m \in 1 .. Len(s) - i : m \in 1 .. Len(s) - (i + 1) + 1 /\ i + 1 + m - 1 = i + m
        BY <2>3
      <4>4. Len(B) = Len(s) - i
        <5>1. Len(B) = IF i + 1 <= Len(s) THEN Len(s) - (i + 1) + 1 ELSE 0 BY <4>2
        <5>2. i + 1 <= Len(s) \/ i = Len(s)
          <6>1. \A n \in Nat : \A m \in 1 .. n : m + 1 <= n \/ m = n OBVIOUS
          <6> QED BY <2>3, <6>1
        <5>3. Len(s) - (i + 1) + 1 = Len(s) - i /\ Len(s) - Len(s) = 0 /\ ~(Len(s) + 1 <= Len(s))
          BY <2>3
        <5> QED BY <5>1, <5>2, <5>3
      <4>5. \A m \in 1 .. Len(s) - i : B[m] = s[i + m]
        <5> TAKE m \in 1 .. Len(s) - i
        <5>1. B[m] = s[i + 1 + m - 1] BY <4>2, <4>3
        <5> QED BY <4>3, <5>1
      <4> QED BY <4>2, <4>4, <4>5
    <3>3. t = A \o B BY <2>2
    <3> HIDE DEF A, B
    <3>4. /\ t \in Seq(Kinds) /\ Len(t) = Len(s) - 1
          /\ \A m \in 1 .. Len(s) - 1 : t[m] = IF m <= i - 1 THEN A[m] ELSE B[m - (i - 1)]
      <4>1. i - 1 + (Len(s) - i) = Len(s) - 1 BY <2>3
      <4> QED BY <3>1, <3>2, <3>3, <4>1, ConcatProperties
    <3>5. ASSUME NEW m \in 1 .. Len(s) - 1 PROVE t[m] = IF m < i THEN s[m] ELSE s[m + 1]
      <4>1. CASE m < i BY <2>3, <3>1, <3>4, <4>1
      <4>2. CASE ~(m < i)
        <5>1. m - (i - 1) \in 1 .. Len(s) - i /\ i + (m - (i - 1)) = m + 1 BY <2>3, <4>2
        <5>2. t[m] = B[m - (i - 1)] BY <2>3, <3>4, <4>2
        <5> QED BY <3>2, <4>2, <5>1, <5>2
      <4> QED BY <4>1, <4>2
    <3> QED BY <3>4, <3>5
  <2>5. Distinct(t)
    <3> SUFFICES ASSUME NEW m \in DOMAIN t, NEW n \in DOMAIN t, t[m] = t[n] PROVE m = n
      BY DEF Distinct
    <3> DEFINE a == IF m < i THEN m ELSE m + 1
               b == IF n < i THEN n ELSE n + 1
    <3>1. a \in DOMAIN s /\ b \in DOMAIN s /\ s[a] = s[b] BY <2>3, <2>4
    <3>2. a = b BY <3>1 DEF Distinct
    <3> QED BY <2>3, <2>4, <3>2
  <2>6. ASSUME NEW x \in Kinds, Listed(t, x) PROVE x # k /\ Listed(s, x)
    <3>1. PICK m \in DOMAIN t : t[m] = x BY <2>6 DEF Listed
    <3> DEFINE a == IF m < i THEN m ELSE m + 1
    <3>2. a \in DOMAIN s /\ s[a] = x /\ a # i BY <2>3, <2>4, <3>1
    <3> QED BY <2>1, <3>2 DEF Listed, Distinct
  <2>7. ASSUME NEW x \in Kinds, x # k, Listed(s, x) PROVE Listed(t, x)
    <3>1. PICK a \in DOMAIN s : s[a] = x BY <2>7 DEF Listed
    <3>2. a # i BY <2>1, <2>7, <3>1
    <3> DEFINE m == IF a < i THEN a ELSE a - 1
    <3>3. m \in DOMAIN t /\ t[m] = x BY <2>3, <2>4, <3>1, <3>2
    <3> QED BY <3>3 DEF Listed
  <2>8. s # <<>> BY <2>1
  <2> QED BY <2>5, <2>6, <2>7, <2>8 DEF t
<1> QED BY <1>1, <1>2

\* A step is pushed, removed or marked.
LEMMA PushValid ==
    ASSUME NEW j \in Journal, NEW k \in Kinds, ValidJournal(j), j.step[k] = "Absent",
           j.phase # "Clean", j.kind = "SystemProxy" => k = "SystemProxy"
    PROVE  ValidJournal(Push(j, k))
<1> DEFINE p == Push(j, k)
<1>1. /\ p \in Journal /\ p.phase = j.phase /\ p.kind = j.kind /\ p.op = j.op
      /\ p.owner = j.owner /\ p.plan = j.plan /\ p.device = j.device /\ p.sid = j.sid
      /\ p.binding = j.binding /\ p.order = Append(j.order, k)
  BY StepUpdates DEF Push, Journal
<1>2. \A x \in Kinds : p.step[x] = IF x = k THEN "Intended" ELSE j.step[x]
  BY StepUpdates
<1> HIDE DEF p
<1>3. j.order \in Seq(Kinds) BY DEF Journal
<1>4. Distinct(j.order) /\ ~Listed(j.order, k) BY ValidParts
<1>5. /\ Distinct(p.order)
      /\ \A x \in Kinds : p.step[x] # "Absent" <=> Listed(p.order, x)
  BY <1>1, <1>2, <1>3, <1>4, AppendListed, ValidParts
<1>6. DeviceValid(p) /\ CleanValid(p) /\ ShapeValid(p)
  BY <1>1, <1>2, ValidParts DEF DeviceValid, CleanValid, ShapeValid
<1> QED BY <1>1, <1>5, <1>6, ValidParts DEF p

LEMMA RemoveValid ==
    ASSUME NEW j \in Journal, NEW k \in Kinds, ValidJournal(j)
    PROVE  ValidJournal(Remove(j, k))
<1> DEFINE p == Remove(j, k)
<1>1. /\ p \in Journal /\ p.phase = j.phase /\ p.kind = j.kind /\ p.op = j.op
      /\ p.owner = j.owner /\ p.plan = j.plan /\ p.device = j.device /\ p.sid = j.sid
      /\ p.binding = j.binding /\ p.order = Without(j.order, k)
  BY StepUpdates DEF Remove, Journal
<1>2. \A x \in Kinds : p.step[x] = IF x = k THEN "Absent" ELSE j.step[x]
  BY StepUpdates
<1> HIDE DEF p
<1>3. j.order \in Seq(Kinds) BY DEF Journal
<1>4. Distinct(j.order) BY ValidParts
<1>5. /\ Distinct(p.order) /\ (j.order = <<>> => p.order = <<>>)
      /\ \A x \in Kinds : p.step[x] # "Absent" <=> Listed(p.order, x)
  BY <1>1, <1>2, <1>3, <1>4, WithoutListed, ValidParts
<1>6. DeviceValid(p) /\ CleanValid(p) /\ ShapeValid(p)
  BY <1>1, <1>2, <1>5, ValidParts DEF DeviceValid, CleanValid, ShapeValid
<1> QED BY <1>1, <1>5, <1>6, ValidParts DEF p

LEMMA MarkValid ==
    ASSUME NEW j \in Journal, NEW k \in Kinds, NEW s \in {"Applied", "Restored"},
           ValidJournal(j), j.step[k] # "Absent"
    PROVE  ValidJournal(Mark(j, k, s))
<1> DEFINE p == Mark(j, k, s)
<1>1. s \in StepStates BY DEF StepStates
<1>2. /\ p \in Journal /\ p.phase = j.phase /\ p.kind = j.kind /\ p.op = j.op
      /\ p.owner = j.owner /\ p.plan = j.plan /\ p.device = j.device /\ p.sid = j.sid
      /\ p.binding = j.binding /\ p.order = j.order
  BY <1>1, MarkUpdates DEF Mark, Journal
<1>3. \A x \in Kinds : p.step[x] = IF x = k THEN s ELSE j.step[x]
  BY <1>1, MarkUpdates
<1> HIDE DEF p
<1>4. \A x \in Kinds : p.step[x] = "Absent" <=> j.step[x] = "Absent" BY <1>3
<1>5. DeviceValid(p) /\ CleanValid(p) /\ ShapeValid(p)
  BY <1>2, <1>4, ValidParts DEF DeviceValid, CleanValid, ShapeValid
<1> QED BY <1>2, <1>4, <1>5, ValidParts DEF p

\* A transaction goes to another phase.
LEMMA PhaseValid ==
    ASSUME NEW j \in Journal, NEW p \in Phases \ {"Clean"}, ValidJournal(j), j.phase # "Clean",
           p = "Active" /\ j.kind = "Tunnel" => ~j.plan.defer,
           p = "Prepared" => j.kind = "Tunnel"
    PROVE  ValidJournal(InPhase(j, p))
<1> DEFINE q == InPhase(j, p)
<1>1. /\ q \in Journal /\ q.phase = p /\ q.kind = j.kind /\ q.op = j.op
      /\ q.owner = j.owner /\ q.plan = j.plan /\ q.device = j.device /\ q.sid = j.sid
      /\ q.binding = j.binding /\ q.order = j.order /\ q.step = j.step
  BY FieldUpdates DEF InPhase, Journal
<1> HIDE DEF q
<1>2. DeviceValid(q) /\ CleanValid(q) /\ ShapeValid(q)
  BY <1>1, ValidParts DEF DeviceValid, CleanValid, ShapeValid
<1> QED BY <1>1, <1>2, ValidParts DEF q

\* The device of a clean journal changes its state.
LEMMA DeviceStateValid ==
    ASSUME NEW j \in Journal, NEW d \in DeviceStates \ {"InUse"}, ValidJournal(j),
           j.phase = "Clean"
    PROVE  ValidJournal(WithDevice(j, d))
<1> DEFINE q == WithDevice(j, d)
<1>1. /\ q \in Journal /\ q.phase = j.phase /\ q.kind = j.kind /\ q.op = j.op
      /\ q.owner = j.owner /\ q.plan = j.plan /\ q.device = d /\ q.sid = j.sid
      /\ q.binding = j.binding /\ q.order = j.order /\ q.step = j.step
  BY FieldUpdates DEF WithDevice, Journal
<1> HIDE DEF q
<1>2. DeviceValid(q) /\ CleanValid(q) /\ ShapeValid(q)
  BY <1>1, ValidParts DEF DeviceValid, CleanValid, ShapeValid
<1> QED BY <1>1, <1>2, ValidParts DEF q

LEMMA EmptyValid ==
    ASSUME NEW j \in Journal, ValidJournal(j)
    PROVE  ValidJournal(CleanJournal) /\ ValidJournal(Disconnected(j))
<1> DEFINE c == CleanJournal
           d == Disconnected(j)
<1>1. /\ c \in Journal /\ d \in Journal
      /\ \A q \in {c, d} : /\ q.phase = "Clean" /\ q.kind = None /\ q.op = None
                           /\ q.owner = None /\ q.plan = NoPlan /\ q.order = <<>>
                           /\ q.binding = FALSE /\ q.device # "InUse"
                           /\ \A x \in Kinds : q.step[x] = "Absent"
  <2>1. c \in Journal /\ d \in Journal BY CleanUpdates
  <2>2. \A q \in {c, d} : \A x \in Kinds : q.step[x] = "Absent" BY CleanUpdates
  <2>3. /\ c.phase = "Clean" /\ c.kind = None /\ c.op = None /\ c.owner = None
        /\ c.plan = NoPlan /\ c.order = <<>> /\ c.binding = FALSE /\ c.device # "InUse"
    BY DEF CleanJournal
  <2>4. /\ d.phase = "Clean" /\ d.kind = None /\ d.op = None /\ d.owner = None
        /\ d.plan = NoPlan /\ d.order = <<>> /\ d.binding = FALSE /\ d.device # "InUse"
    BY DEF CleanJournal, Disconnected
  <2> HIDE DEF c, d
  <2> QED BY <2>1, <2>2, <2>3, <2>4
<1>2. Distinct(<<>>) /\ \A k \in Kinds : ~Listed(<<>>, k) BY DEF Distinct, Listed
<1> HIDE DEF c, d
<1>3. \A q \in {c, d} : DeviceValid(q) /\ CleanValid(q) /\ ShapeValid(q)
  BY <1>1 DEF DeviceValid, CleanValid, ShapeValid
<1> QED BY <1>1, <1>2, <1>3, ValidParts DEF c, d

(***************************************************************************)
(* Requests and events that leave the journal alone.                        *)
(***************************************************************************)
\* The labels whose handlers know something of the journal.
Informed == Applying \cup {"recover", "create", "created", "begin", "switch", "switched"}

LEMMA RestKnown == ASSUME job'.pc \notin Informed PROVE Known'
  BY DEF Informed, Known

\* A save replaces both copies or the one in memory.
LEMMA SavedLoads ==
    ASSUME Loads, ValidJournal(mem'), disk' \in {disk, mem'}, Known'
    PROVE  Loads'
  BY DEF Loads

LEMMA StartLoads ==
    ASSUME Loads, UNCHANGED <<mem, disk>>,
           \/ job' = Idle
           \/ \E h, e, pc : /\ pc \in {"recover", "retire", "close", "proxy_undo", "detach",
                                       "detached"}
                            /\ pc = "recover" => mem.phase # "Clean"
                            /\ job' = Run(h, pc, e)
    PROVE  Loads'
<1>1. CASE job' = Idle
  <2>1. job'.pc = "idle" BY <1>1 DEF Idle
  <2>2. Known' BY <2>1, RestKnown DEF Informed, Applying
  <2> QED BY <2>2, SavedLoads DEF Loads
<1>2. ASSUME NEW h, NEW e, NEW pc, job' = Run(h, pc, e), pc = "recover" => mem.phase # "Clean",
             pc \in {"recover", "retire", "close", "proxy_undo", "detach", "detached"}
      PROVE  Loads'
  <2>1. job'.pc = pc BY <1>2, RunFields
  <2>2. Known' BY <1>2, <2>1 DEF Known, Applying
  <2> QED BY <2>2, SavedLoads DEF Loads
<1> QED BY <1>1, <1>2

LEMMA RequestsLoad ==
    ASSUME IInv, Loads, NEW e \in Engines,
           \/ Rollback(e) \/ ClosePacketSession(e) \/ RestoreSystemProxy(e)
           \/ RecoverStale \/ RecoverAutomatic \/ RecoverOrphaned(e)
           \/ ReleaseDeviceLease(e)
    PROVE  Loads'
<1>1. UNCHANGED <<mem, disk>>
  BY DEF Rollback, ClosePacketSession, RestoreSystemProxy, RecoverStale, RecoverAutomatic,
         RecoverOrphaned, ReleaseDeviceLease
<1>2. mem.kind # None => mem.phase # "Clean"
  BY DEF IInv, Recorded, Empty
<1>3. \E h, a, pc : /\ pc \in {"recover", "retire", "close", "proxy_undo"}
                    /\ pc = "recover" => mem.phase # "Clean"
                    /\ job' = Run(h, pc, a)
  BY <1>2 DEF Rollback, ClosePacketSession, RestoreSystemProxy, RecoverStale, RecoverAutomatic,
         RecoverOrphaned, ReleaseDeviceLease, CleanUp, None
<1> QED BY <1>1, <1>3, StartLoads

LEMMA EventsLoad ==
    ASSUME IInv, Loads,
           \/ \E p \in pipes : ActivePipeEnds(p)
           \/ \E w \in watchdogs : WatchdogFires(w)
           \/ \E key \in devTimers : DeviceTimerFires(key)
           \/ RecoverStale \/ RecoverAutomatic
           \/ RetryRetirement \/ Shutdown
    PROVE  Loads'
<1>1. UNCHANGED <<mem, disk>>
  BY DEF ActivePipeEnds, WatchdogFires, DeviceTimerFires, RetryRetirement, Shutdown,
         RecoverStale, RecoverAutomatic
<1>2. \A w : Orphaned(w) => mem.phase # "Clean"
  BY DEF Orphaned
<1>3. \/ job' = Idle
      \/ \E h, a, pc : /\ pc \in {"recover", "retire", "detach", "detached"}
                       /\ pc = "recover" => mem.phase # "Clean"
                       /\ job' = Run(h, pc, a)
  BY <1>2 DEF ActivePipeEnds, WatchdogFires, DeviceTimerFires, RetryRetirement, Shutdown,
         CleanUp, RecoverStale, RecoverAutomatic
<1> QED BY <1>1, <1>3, StartLoads

LEMMA UnmovedLoads ==
    ASSUME Loads, UNCHANGED <<mem, disk, job>>
    PROVE  Loads'
  BY DEF Loads, Known

LEMMA LeasesLoad ==
    ASSUME Loads,
           \/ \E e \in Engines : AcquireTunnelLease(e) \/ AcquireDeviceLease(e)
           \/ \E p \in pipes : StartupPipeEnds(p)
           \/ DevicePipeEnds \/ WorkerFinishes
    PROVE  Loads'
<1>1. UNCHANGED <<mem, disk, job>>
  BY DEF AcquireTunnelLease, AcquireDeviceLease, StartupPipeEnds, DevicePipeEnds,
         WorkerFinishes
<1> QED BY <1>1, UnmovedLoads

\* A handler that is asked to apply steps of a tunnel.
LEMMA AskedLoads ==
    ASSUME IInv, Loads, NEW e \in Engines,
           Commit(e) \/ JoinSystemProxy(e) \/ OpenPacketSession(e)
    PROVE  Loads'
<1>1. /\ mem.kind = "Tunnel" /\ disk' = disk
      /\ mem' \in {mem, Remove(mem, "PacketSession")}
      /\ \/ job' = Todo(Run("commit", "plan", e), CommitKinds) /\ ~mem.plan.defer /\ mem' = mem
         \/ job' = Todo(Run("proxy_join", "plan", e), {"SystemProxy"})
         \/ job' = Todo(Run("open", "plan", e), {"PacketSession"})
  BY DEF Commit, JoinSystemProxy, OpenPacketSession, Tunnel
<1>2. mem \in Journal /\ "PacketSession" \in Kinds BY DEF IInv, TypeOK, Kinds
<1>3. ValidJournal(mem') /\ mem'.kind = "Tunnel"
  BY <1>1, <1>2, RemoveValid, RemoveFields DEF Loads
<1>4. /\ job'.pc \in {"plan", "finish"} /\ job'.h # "prepare"
      /\ job'.h = "commit" => ~mem'.plan.defer
  <2>1. \A h \in {"commit", "proxy_join", "open"} :
            Run(h, "plan", e) \in Job /\ Run(h, "plan", e).h = h
    <3>1. {"commit", "proxy_join", "open"} \subseteq Handlers /\ "plan" \in Labels
      BY DEF Handlers, Labels
    <3> QED BY <3>1, RunType, RunFields
  <2>2. /\ job'.h \in {"commit", "proxy_join", "open"} /\ job'.pc \in {"plan", "finish"}
        /\ job'.h = "commit" => mem' = mem /\ ~mem.plan.defer
    BY <1>1, <2>1, TodoFields
  <2> QED BY <2>2
<1>5. Known' BY <1>3, <1>4 DEF Known
<1> QED BY <1>1, <1>3, <1>5, SavedLoads

(***************************************************************************)
(* apply_new_step.                                                          *)
(***************************************************************************)
\* A failed apply goes to recovery only in a transaction.
LEMMA FailedKnown ==
    ASSUME IInv, Guard, job.pc \in Applying, mem'.phase # "Clean",
           job' \in {ApplyFailed, PlanFailed, IntentFailed}
    PROVE  Known'
<1>1. job'.pc \in {"idle", "recover", "proxy_undo"}
  <2>1. job \in Job /\ (Routes \in job.todo => job.h = "commit")
    BY DEF IInv, TypeOK, Guard, Committing
  <2> QED BY <2>1, FailedFields
<1> QED BY <1>1 DEF Known, Applying

\* A handler goes on applying to the same transaction.
LEMMA ApplyingKnown ==
    ASSUME Known, job.pc \in Applying, job'.pc \in Applying, job'.h = job.h,
           job'.todo \subseteq job.todo, mem'.kind = mem.kind, mem'.plan = mem.plan
    PROVE  Known'
  BY DEF Known, Applying

LEMMA PlanStepLoads ==
    ASSUME IInv, Guard, Loads, PlanStep
    PROVE  Loads'
<1>1. PICK k \in Kinds : PlanStep!2!(k)
  BY DEF PlanStep
<1>2. /\ job.pc = "plan" /\ job.pc \in Applying /\ k \in job.todo /\ mem.phase # "Clean"
      /\ mem \in Journal /\ job \in Job
  BY <1>1 DEF PlanStep, First, Guard, Forward, Live, Applying, IInv, TypeOK
<1>3. CASE mem' = mem /\ disk' = disk /\ job' = PlanFailed
  <2>1. Known' BY <1>2, <1>3, FailedKnown
  <2> QED BY <1>3, <2>1, SavedLoads DEF Loads
<1>4. CASE /\ mem.step[k] = "Absent" /\ mem' = Push(mem, k) /\ disk' \in {disk, mem'}
           /\ job' \in {At("apply", k), IntentFailed}
  <2>1. mem.kind = "SystemProxy" => k = "SystemProxy"
    BY <1>2 DEF Loads, Known
  <2>2. ValidJournal(mem') BY <1>2, <1>4, <2>1, PushValid DEF Loads
  <2>3. mem'.phase = mem.phase /\ mem'.kind = mem.kind /\ mem'.plan = mem.plan
    BY <1>2, <1>4, PushFields
  <2>4. CASE job' = At("apply", k)
    <3>1. job'.pc \in Applying /\ job'.h = job.h /\ job'.todo = job.todo
      BY <1>2, <2>4, JobFields DEF Applying
    <3>2. Known' BY <1>2, <2>3, <3>1, ApplyingKnown DEF Loads
    <3> QED BY <1>4, <2>2, <3>2, SavedLoads
  <2>5. CASE job' = IntentFailed
    <3>1. Known' BY <1>2, <2>3, <2>5, FailedKnown
    <3> QED BY <1>4, <2>2, <3>1, SavedLoads
  <2> QED BY <1>4, <2>4, <2>5
<1> QED BY <1>1, <1>3, <1>4 DEF Save, Saved, SaveFailed

LEMMA ApplyStepLoads ==
    ASSUME IInv, Guard, Loads, ApplyStep
    PROVE  Loads'
<1>1. /\ job.pc = "apply" /\ UNCHANGED <<mem, disk>> /\ job' \in {Goto("applied"), ApplyFailed}
      /\ job.pc \in Applying /\ mem.phase # "Clean" /\ job \in Job
  BY DEF ApplyStep, Guard, Forward, Live, Applying, IInv, TypeOK
<1>2. CASE job' = Goto("applied")
  <2>1. job'.pc \in Applying /\ job'.h = job.h /\ job'.todo = job.todo
    BY <1>1, <1>2, JobFields DEF Applying
  <2>2. Known' BY <1>1, <2>1, ApplyingKnown DEF Loads
  <2> QED BY <1>1, <2>2, SavedLoads DEF Loads
<1>3. CASE job' = ApplyFailed
  <2>1. Known' BY <1>1, <1>3, FailedKnown
  <2> QED BY <1>1, <2>1, SavedLoads DEF Loads
<1> QED BY <1>1, <1>2, <1>3

LEMMA RecordAppliedLoads ==
    ASSUME IInv, Guard, Loads, RecordApplied
    PROVE  Loads'
<1> DEFINE applied == Mark(mem, job.kind, "Applied")
           next == Todo(job, job.todo \ {job.kind})
<1>1. /\ job.pc = "applied" /\ disk' \in {disk, mem'}
      /\ mem' = IF job.h = "proxy_alone" THEN InPhase(applied, "Active") ELSE applied
      /\ job' \in {next, ApplyFailed}
  BY DEF RecordApplied, Save, Saved, SaveFailed
<1>2. /\ job.kind \in Kinds /\ mem \in Journal /\ job \in Job /\ job.pc \in Applying
      /\ mem.phase # "Clean" /\ mem.step[job.kind] # "Absent"
      /\ job.h = "proxy_alone" => mem.kind = "SystemProxy"
  BY <1>1 DEF Guard, Forward, Live, Applying, IInv, TypeOK, Intent, Unresolved
<1>3. /\ applied \in Journal /\ ValidJournal(applied) /\ applied.phase = mem.phase
      /\ applied.kind = mem.kind /\ applied.plan = mem.plan
  <2>1. "Applied" \in StepStates /\ "Applied" \in {"Applied", "Restored"} BY DEF StepStates
  <2> QED BY <1>2, <2>1, MarkFields, MarkUpdates, MarkValid DEF Loads
<1> HIDE DEF applied
<1>4. /\ ValidJournal(mem') /\ mem'.kind = mem.kind /\ mem'.plan = mem.plan
      /\ mem'.phase # "Clean"
  <2>1. CASE job.h = "proxy_alone"
    <3>1. "Active" \in Phases \ {"Clean"} BY DEF Phases
    <3>2. ValidJournal(InPhase(applied, "Active"))
      BY <1>2, <1>3, <2>1, <3>1, PhaseValid
    <3> QED BY <1>1, <1>3, <2>1, <3>1, <3>2, FieldUpdates, PlanFields
  <2>2. CASE job.h # "proxy_alone" BY <1>1, <1>2, <1>3, <2>2
  <2> QED BY <2>1, <2>2
<1>5. Known'
  <2>1. CASE job' = next
    <3>1. job'.pc \in Applying /\ job'.h = job.h /\ job'.todo \subseteq job.todo
      BY <1>2, <2>1, TodoFields DEF Applying
    <3> QED BY <1>2, <1>4, <3>1, ApplyingKnown DEF Loads
  <2>2. CASE job' = ApplyFailed BY <1>2, <1>4, <2>2, FailedKnown
  <2> QED BY <1>1, <2>1, <2>2
<1> QED BY <1>1, <1>4, <1>5, SavedLoads

(***************************************************************************)
(* prepare_managed and prepare_locked.                                      *)
(***************************************************************************)
LEMMA IdleKnown == ASSUME job' = Idle PROVE Known'
<1>1. job'.pc = "idle" BY DEF Idle
<1> QED BY <1>1, RestKnown DEF Informed, Applying

LEMMA PrepareManagedLoads ==
    ASSUME IInv, Loads, NEW e \in Engines, NEW op \in Operations, NEW plan \in Plans,
           PrepareManaged(e, op, plan)
    PROVE  Loads'
<1> DEFINE suspect == WithDevice(mem, "RecoveryRequired")
           creating == Creating(mem, e)
           create == Prepare("create", e, op, plan)
           begin == Prepare("begin", e, op, plan)
<1>1. /\ mem.phase = "Clean"
      /\ \/ mem' = creating /\ disk' = creating /\ job' = create
         \/ mem' = creating /\ disk' = disk /\ job' = Idle
         \/ mem' = mem /\ disk' = disk /\ job' = begin /\ mem.sid = Account[e]
         \/ mem' = suspect /\ disk' \in {suspect, disk} /\ job' = Idle
  BY DEF PrepareManaged, Save, Saved, SaveFailed
<1>2. TypeOK /\ mem \in Journal BY DEF IInv, TypeOK
<1>3. ValidJournal(suspect)
  <2>1. "RecoveryRequired" \in DeviceStates \ {"InUse"} BY DEF DeviceStates
  <2> QED BY <1>1, <1>2, <2>1, DeviceStateValid DEF Loads
<1>4. ValidJournal(creating) /\ creating.sid = Account[e]
  <2>1. creating \in Journal BY <1>2, BeginUpdates
  <2>2. /\ creating.phase = mem.phase /\ creating.kind = mem.kind /\ creating.op = mem.op
        /\ creating.owner = mem.owner /\ creating.plan = mem.plan
        /\ creating.device = "Creating" /\ creating.binding = mem.binding
        /\ creating.order = mem.order /\ creating.step = mem.step
        /\ creating.sid = Account[e]
    BY <1>2 DEF Creating, Journal
  <2> HIDE DEF creating
  <2>3. DeviceValid(creating) /\ CleanValid(creating) /\ ShapeValid(creating)
    BY <1>1, <1>2, <2>2, ValidParts DEF Loads, DeviceValid, CleanValid, ShapeValid
  <2> QED BY <1>2, <2>1, <2>2, <2>3, ValidParts DEF Loads
<1>5. /\ \A j \in {create, begin} : j.e = e /\ j.op = op
      /\ create.pc = "create" /\ begin.pc = "begin"
  BY DEF Prepare, Run, Idle
<1> HIDE DEF suspect, creating, create, begin
<1>6. Known'
  <2>1. CASE job' = Idle BY <2>1, IdleKnown
  <2>2. CASE job' = create /\ mem' = creating
    BY <1>4, <1>5, <2>2 DEF Known, Applying
  <2>3. CASE job' = begin /\ mem' = mem /\ mem.sid = Account[e]
    BY <1>5, <2>3 DEF Known, Applying
  <2> QED BY <1>1, <2>1, <2>2, <2>3
<1>7. ValidJournal(mem') /\ disk' \in {disk, mem'}
  BY <1>1, <1>3, <1>4 DEF Loads
<1> QED BY <1>6, <1>7, SavedLoads

LEMMA CreationLoads ==
    ASSUME IInv, Loads, CreateDevice \/ DeviceCreated \/ CreateFailed
    PROVE  Loads'
<1>1. mem \in Journal /\ job \in Job BY DEF IInv, TypeOK
<1>2. \A pc : Goto(pc).pc = pc /\ Goto(pc).e = job.e /\ Goto(pc).op = job.op
  BY <1>1 DEF Goto, Job
<1>3. CASE CreateDevice
  <2>1. /\ job.pc = "create" /\ UNCHANGED <<mem, disk>>
        /\ job' \in {Goto("created"), Goto("create_failed")}
    BY <1>3 DEF CreateDevice
  <2>2. Known'
    BY <1>2, <2>1 DEF Loads, Known, Applying
  <2> QED BY <2>1, <2>2, SavedLoads DEF Loads
<1>4. CASE DeviceCreated \/ CreateFailed
  <2>1. PICK d \in {"Idle", "RecoveryRequired"} :
          /\ job.pc \in {"created", "create_failed"}
          /\ mem' = WithDevice(mem, d) /\ disk' \in {disk, mem'}
          /\ job' = Idle \/ (job.pc = "created" /\ job' = Goto("begin"))
    BY <1>4 DEF DeviceCreated, CreateFailed, Save, Saved, SaveFailed
  <2>2. d \in DeviceStates \ {"InUse"} /\ mem.phase = "Clean"
    BY <2>1 DEF DeviceStates, IInv, OnClean
  <2>3. ValidJournal(mem') BY <1>1, <2>1, <2>2, DeviceStateValid DEF Loads
  <2>4. mem'.sid = mem.sid BY <1>1, <2>1 DEF WithDevice, Journal
  <2>5. Known'
    <3>1. CASE job' = Idle BY <3>1, IdleKnown
    <3>2. CASE job.pc = "created" /\ job' = Goto("begin")
      BY <1>2, <2>4, <3>2 DEF Loads, Known, Applying
    <3> QED BY <2>1, <3>1, <3>2
  <2> QED BY <2>1, <2>3, <2>5, SavedLoads
<1> QED BY <1>3, <1>4

\* The transaction that begins is bound to the device of the Engine's account.
LEMMA BeginTransactionLoads ==
    ASSUME IInv, IInv', Guard, Loads, BeginTransaction
    PROVE  Loads'
<1>1. /\ job.pc = "begin" /\ mem' = Begun(mem) /\ disk' \in {disk, mem'}
      /\ job' \in {Todo(job, PrepareKinds(job.plan)), Idle}
  BY DEF BeginTransaction, Save, Saved, SaveFailed
<1>2. /\ mem \in Journal /\ mem' \in Journal /\ job \in Job
      /\ job.e \in Engines /\ job.op \in Operations /\ mem.sid = Account[job.e]
  BY <1>1 DEF IInv, TypeOK, Loads, Known
<1>3. /\ mem'.phase = "Preparing" /\ mem'.kind = "Tunnel" /\ mem'.op = job.op
      /\ mem'.owner = job.e /\ mem'.device = "InUse" /\ mem'.binding = TRUE
      /\ mem'.step = NoSteps /\ mem'.order = <<>> /\ mem'.sid = mem.sid
  BY <1>1, <1>2 DEF Begun, Journal
<1>4. ValidJournal(mem')
  <2>1. job.op # None /\ job.e # None BY <1>2, ConstantsAssumption
  <2>2. DeviceValid(mem') /\ CleanValid(mem') /\ ShapeValid(mem')
    BY <1>2, <1>3, <2>1 DEF DeviceValid, CleanValid, ShapeValid, None
  <2>3. Distinct(<<>>) /\ \A k \in Kinds : ~Listed(<<>>, k) /\ NoSteps[k] = "Absent"
    BY DEF Distinct, Listed, NoSteps
  <2> QED BY <1>2, <1>3, <2>2, <2>3, ValidParts
<1>5. Known'
  <2>1. CASE job' = Idle BY <2>1, IdleKnown
  <2>2. CASE job' = Todo(job, PrepareKinds(job.plan))
    <3>1. job'.pc \in {"plan", "finish"} /\ job'.h = "prepare"
      BY <1>1, <1>2, <2>2, TodoFields DEF Guard, Forward
    <3> QED BY <1>3, <3>1 DEF Known
  <2> QED BY <1>1, <2>1, <2>2
<1> QED BY <1>1, <1>4, <1>5, SavedLoads

(***************************************************************************)
(* The ends of handlers.                                                    *)
(***************************************************************************)
LEMMA FinishLoads ==
    ASSUME Loads, FinishChain \/ FinishApply \/ FinishOpen \/ StartPacketPump
    PROVE  Loads'
<1>1. UNCHANGED <<mem, disk>> /\ job' = Idle
  BY DEF FinishChain, FinishApply, FinishOpen, StartPacketPump
<1> QED BY <1>1, IdleKnown, SavedLoads DEF Loads

\* prepare ends with a prepared tunnel, commit with an active one.
LEMMA FinishPhaseLoads ==
    ASSUME IInv, Guard, Loads, FinishPrepare \/ FinishCommit
    PROVE  Loads'
<1>1. PICK p \in {"Prepared", "Active"} :
        /\ job.pc = "finish" /\ mem' = InPhase(mem, p) /\ disk' \in {disk, mem'}
        /\ p = "Prepared" => job.h = "prepare"
        /\ p = "Active" => job.h = "commit"
        /\ job' \in {Idle, Goto("recover"), ApplyFailed}
  BY DEF FinishPrepare, FinishCommit, Save, Saved, SaveFailed
<1>2. /\ mem \in Journal /\ job \in Job /\ job.pc \in Applying /\ mem.phase # "Clean"
      /\ mem.kind = "Tunnel" /\ (p = "Active" => ~mem.plan.defer)
  BY <1>1 DEF IInv, TypeOK, Guard, Forward, Live, Applying, Loads, Known
<1>3. p \in Phases \ {"Clean"} BY DEF Phases
<1>4. ValidJournal(mem') /\ mem'.phase # "Clean"
  BY <1>1, <1>2, <1>3, PhaseValid, FieldUpdates DEF Loads
<1>5. Known'
  <2>1. CASE job' = Idle BY <2>1, IdleKnown
  <2>2. CASE job' = ApplyFailed BY <1>2, <1>4, <2>2, FailedKnown
  <2>3. CASE job' = Goto("recover")
    <3>1. job'.pc = "recover" BY <1>2, <2>3, JobFields
    <3> QED BY <1>4, <3>1 DEF Known, Applying
  <2> QED BY <1>1, <2>1, <2>2, <2>3
<1> QED BY <1>1, <1>4, <1>5, SavedLoads

(***************************************************************************)
(* begin_chain_transition, finalize_tunnel, resume_tunnel: another Engine   *)
(* of the same account may become the owner.                                *)
(***************************************************************************)
LEMMA OwnerValid ==
    ASSUME NEW j \in Journal, NEW q \in Journal, ValidJournal(j), j.phase # "Clean",
           q.phase = j.phase, q.kind = j.kind, q.op = j.op, q.device = j.device,
           q.sid = j.sid, q.binding = j.binding, q.step = j.step, q.order = j.order,
           q.plan.defer = j.plan.defer,
           q.owner \in Engines, Account[q.owner] = Account[j.owner]
    PROVE  ValidJournal(q)
<1>1. q.owner # None BY ConstantsAssumption
<1>2. DeviceValid(q) /\ CleanValid(q) /\ ShapeValid(q)
  BY <1>1, ValidParts DEF DeviceValid, CleanValid, ShapeValid
<1> QED BY <1>2, ValidParts

LEMMA BeginChainLoads ==
    ASSUME IInv, IInv', Loads, NEW e \in Engines, BeginChainTransition(e)
    PROVE  Loads'
<1>1. /\ mem.phase # "Clean" /\ mem.kind = "Tunnel" /\ Account[mem.owner] = Account[e]
      /\ mem' = Chained(mem, e) /\ disk' \in {disk, mem'}
      /\ job' \in {ChainLabel(mem.step["KillSwitch"], e), Idle}
  BY DEF BeginChainTransition, Tunnel, Takeover, SameAccount, Saved, SaveFailed
<1>2. mem \in Journal /\ mem' \in Journal BY DEF IInv, TypeOK
<1>3. /\ mem'.phase = mem.phase /\ mem'.kind = mem.kind /\ mem'.op = mem.op
      /\ mem'.device = mem.device /\ mem'.sid = mem.sid /\ mem'.binding = mem.binding
      /\ mem'.step = mem.step /\ mem'.order = mem.order /\ mem'.owner = e
      /\ mem'.plan.defer = mem.plan.defer
  BY <1>1, <1>2 DEF Chained, Journal, AllPlans
<1>4. ValidJournal(mem') BY <1>1, <1>2, <1>3, OwnerValid DEF Loads
<1>5. Known'
  <2> DEFINE r == Run("begin_chain", "plan", e)
  <2>1. r \in Job /\ r.h = "begin_chain"
    <3>1. "begin_chain" \in Handlers /\ "plan" \in Labels BY DEF Handlers, Labels
    <3> QED BY <3>1, RunType, RunFields
  <2> HIDE DEF r
  <2>2. ASSUME NEW S, job' = Todo(r, S) PROVE Known'
    <3>1. job'.h = "begin_chain" /\ job'.pc \in {"plan", "finish"}
      BY <2>1, <2>2, TodoFields
    <3> QED BY <1>1, <1>3, <3>1 DEF Known
  <2>3. job' \in {Todo(r, {}), Todo(r, {"KillSwitch"}), Idle}
    BY <1>1 DEF ChainLabel, r
  <2> QED BY <2>2, <2>3, IdleKnown
<1> QED BY <1>1, <1>4, <1>5, SavedLoads

LEMMA FinalizeTunnelLoads ==
    ASSUME IInv, Loads, NEW e \in Engines, FinalizeTunnel(e)
    PROVE  Loads'
<1>1. /\ mem.phase # "Clean" /\ mem.kind = "Tunnel" /\ disk' \in {disk, mem'}
      /\ mem' = mem \/ (mem' = OwnedBy(mem, e) /\ Account[mem.owner] = Account[e])
      /\ job' \in {Run("finalize", "switch", e), Idle}
  BY DEF FinalizeTunnel, Tunnel, Takeover, SameAccount, Save, Saved, SaveFailed
<1>2. mem \in Journal BY DEF IInv, TypeOK
<1>3. ValidJournal(mem') /\ mem'.kind = "Tunnel"
  <2>1. CASE mem' = mem BY <1>1, <2>1 DEF Loads
  <2>2. CASE mem' = OwnedBy(mem, e) /\ Account[mem.owner] = Account[e]
    <3>1. /\ mem' \in Journal
          /\ mem'.phase = mem.phase /\ mem'.kind = mem.kind /\ mem'.op = mem.op
          /\ mem'.device = mem.device /\ mem'.sid = mem.sid /\ mem'.binding = mem.binding
          /\ mem'.step = mem.step /\ mem'.order = mem.order /\ mem'.owner = e
          /\ mem'.plan = mem.plan
      BY <1>2, <2>2 DEF OwnedBy, Journal
    <3> QED BY <1>1, <1>2, <2>2, <3>1, OwnerValid DEF Loads
  <2> QED BY <1>1, <2>1, <2>2
<1>4. Known'
  <2>1. CASE job' = Run("finalize", "switch", e)
    <3>1. job'.pc = "switch" BY <2>1, RunFields
    <3> QED BY <1>3, <3>1 DEF Known, Applying
  <2> QED BY <1>1, <2>1, IdleKnown
<1> QED BY <1>1, <1>3, <1>4, SavedLoads

LEMMA ResumeTunnelLoads ==
    ASSUME IInv, IInv', Loads, NEW e \in Engines, ResumeTunnel(e)
    PROVE  Loads'
<1>1. /\ mem.phase # "Clean" /\ Account[mem.owner] = Account[e]
      /\ mem' = Resumed(mem, e) /\ disk' \in {disk, mem'}
      /\ job' \in {Run("resume", "resume", e), Idle}
  BY DEF ResumeTunnel, SameAccount, Save, Saved, SaveFailed
<1>2. mem \in Journal /\ mem' \in Journal BY DEF IInv, TypeOK
<1>3. /\ mem'.phase = mem.phase /\ mem'.kind = mem.kind /\ mem'.op = mem.op
      /\ mem'.device = mem.device /\ mem'.sid = mem.sid /\ mem'.binding = mem.binding
      /\ mem'.step = mem.step /\ mem'.order = mem.order /\ mem'.owner = e
      /\ mem'.plan = mem.plan
  BY <1>1, <1>2 DEF Resumed, Journal
<1>4. ValidJournal(mem') BY <1>1, <1>2, <1>3, OwnerValid DEF Loads
<1>5. Known'
  <2>1. CASE job' = Run("resume", "resume", e)
    <3>1. job'.pc = "resume" BY <2>1, RunFields
    <3> QED BY <3>1, RestKnown DEF Informed, Applying
  <2> QED BY <1>1, <2>1, IdleKnown
<1> QED BY <1>1, <1>4, <1>5, SavedLoads

\* finalize_tunnel removes the old receipts and goes back to Prepared.
LEMMA SwitchLoads ==
    ASSUME IInv, Guard, Loads, SwitchStep \/ SwitchRecorded
    PROVE  Loads'
<1>1. /\ job.pc \in {"switch", "switched"}
      /\ job' = Idle \/ job'.pc \in {"switch", "switched"}
      /\ disk' \in {disk, mem'}
      /\ mem' = mem \/ (mem' = Remove(mem, job.kind) /\ job.kind \in Kinds)
  <2>1. job \in Job BY DEF IInv, TypeOK
  <2>2. CASE SwitchStep BY <2>1, <2>2, JobFields DEF SwitchStep
  <2>3. CASE SwitchRecorded
    BY <2>1, <2>3, JobFields DEF SwitchRecorded, Save, Saved, SaveFailed, IInv, Intent
  <2> QED BY <2>2, <2>3
<1>2. mem \in Journal /\ mem.kind = "Tunnel"
  <2>1. mem \in Journal /\ Known BY DEF IInv, TypeOK, Loads
  <2>2. job.pc \in {"switch", "switched"} BY <1>1
  <2> QED BY <2>1, <2>2 DEF Known
<1>3. ValidJournal(mem') /\ mem'.kind = "Tunnel"
  BY <1>1, <1>2, RemoveValid, RemoveFields DEF Loads
<1>4. Known'
  <2>1. CASE job'.pc \in {"switch", "switched"} BY <1>3, <2>1 DEF Known, Applying
  <2> QED BY <1>1, <2>1, IdleKnown
<1> QED BY <1>1, <1>3, <1>4, SavedLoads

LEMMA SwitchDoneLoads ==
    ASSUME IInv, IInv', Guard, Loads, SwitchDone
    PROVE  Loads'
<1>1. /\ job.pc = "switch" /\ mem' = Finalized(mem) /\ disk' \in {disk, mem'}
      /\ job' \in {Todo(job, {"InterfaceConfiguration", "Dns"}), Idle}
  BY DEF SwitchDone, Save, Saved, SaveFailed
<1>2. /\ mem \in Journal /\ mem' \in Journal /\ job \in Job
      /\ mem.kind = "Tunnel" /\ mem.phase # "Clean" /\ job.h = "finalize"
  BY <1>1 DEF IInv, TypeOK, Loads, Known, Guard, Forward, Live
<1>3. /\ mem'.phase = "Prepared" /\ mem'.kind = mem.kind /\ mem'.op = mem.op
      /\ mem'.owner = mem.owner /\ mem'.device = mem.device /\ mem'.sid = mem.sid
      /\ mem'.binding = mem.binding /\ mem'.step = mem.step /\ mem'.order = mem.order
  BY <1>1, <1>2 DEF Finalized, Journal
<1>4. ValidJournal(mem')
  <2>1. DeviceValid(mem') /\ CleanValid(mem') /\ ShapeValid(mem')
    BY <1>2, <1>3, ValidParts DEF Loads, DeviceValid, CleanValid, ShapeValid
  <2> QED BY <1>2, <1>3, <2>1, ValidParts DEF Loads
<1>5. Known'
  <2>1. CASE job' = Todo(job, {"InterfaceConfiguration", "Dns"})
    <3>1. job'.h = "finalize" /\ job'.pc = "plan" BY <1>2, <2>1, TodoFields
    <3> QED BY <1>2, <1>3, <3>1 DEF Known
  <2> QED BY <1>1, <2>1, IdleKnown
<1> QED BY <1>1, <1>4, <1>5, SavedLoads

(***************************************************************************)
(* Packet sessions, leases and the system proxy.                            *)
(***************************************************************************)
LEMMA SessionLoads ==
    ASSUME IInv, Loads, \/ StopPacketPump \/ SessionClosed \/ LeaseReleased
                        \/ UndoSystemProxy \/ SystemProxyUndone
    PROVE  Loads'
<1>1. /\ job' \in {Idle, Goto("closed"), Goto("detached"), Goto("proxy_undone")}
      /\ disk' \in {disk, mem'}
      /\ mem' \in {mem, Remove(mem, "PacketSession"), Remove(mem, "SystemProxy")}
  BY DEF StopPacketPump, SessionClosed, LeaseReleased, UndoSystemProxy, SystemProxyUndone,
         Save, Saved, SaveFailed
<1>2. mem \in Journal /\ job \in Job /\ {"PacketSession", "SystemProxy"} \subseteq Kinds
  BY DEF IInv, TypeOK, Kinds
<1>3. ValidJournal(mem') BY <1>1, <1>2, RemoveValid DEF Loads
<1>4. job'.pc \notin Informed
  BY <1>1, <1>2, JobFields DEF Informed, Applying
<1> QED BY <1>1, <1>3, <1>4, RestKnown, SavedLoads

LEMMA StartSystemProxyLoads ==
    ASSUME IInv, IInv', Loads, NEW e \in Engines, NEW op \in Operations,
           StartSystemProxy(e, op)
    PROVE  Loads'
<1> DEFINE next == Todo(Run("proxy_alone", "plan", e), {"SystemProxy"})
<1>1. /\ mem.phase = "Clean" /\ mem' = ProxyBegun(mem, op, e) /\ disk' \in {disk, mem'}
      /\ job' \in {next, Idle}
  BY DEF StartSystemProxy, Save, Saved, SaveFailed
<1>2. mem \in Journal /\ mem' \in Journal BY DEF IInv, TypeOK
<1>3. /\ mem'.phase = "Preparing" /\ mem'.kind = "SystemProxy" /\ mem'.op = op
      /\ mem'.owner = e /\ mem'.device = mem.device /\ mem'.sid = mem.sid
      /\ mem'.binding = mem.binding /\ mem'.step = mem.step /\ mem'.order = mem.order
  BY <1>1, <1>2 DEF ProxyBegun, Journal
<1>4. ValidJournal(mem')
  <2>1. op # None /\ e # None BY ConstantsAssumption
  <2>2. \A k \in Kinds : mem.step[k] = "Absent" BY <1>1 DEF IInv, Recorded, Empty
  <2>3. ~mem.binding BY <1>1, <1>2, ValidParts DEF Loads, CleanValid
  <2>4. DeviceValid(mem') /\ CleanValid(mem') /\ ShapeValid(mem')
    BY <1>2, <1>3, <2>1, <2>2, <2>3, ValidParts
       DEF Loads, DeviceValid, CleanValid, ShapeValid, None
  <2> QED BY <1>2, <1>3, <2>4, ValidParts DEF Loads
<1>5. Known'
  <2>1. CASE job' = next
    <3>1. Run("proxy_alone", "plan", e) \in Job /\ Run("proxy_alone", "plan", e).h = "proxy_alone"
      <4>1. "proxy_alone" \in Handlers /\ "plan" \in Labels BY DEF Handlers, Labels
      <4> QED BY <4>1, RunType, RunFields
    <3>2. job'.h = "proxy_alone" /\ job'.pc = "plan" /\ job'.todo = {"SystemProxy"}
      BY <2>1, <3>1, TodoFields
    <3> QED BY <3>2 DEF Known
  <2> QED BY <1>1, <2>1, IdleKnown
<1> QED BY <1>1, <1>4, <1>5, SavedLoads

(***************************************************************************)
(* Recovery, retirement, restart and startup.                               *)
(***************************************************************************)
LEMMA DoneKnown == ASSUME IInv, Guard, job' = Done PROVE Known'
<1>1. job \in Job /\ (Routes \in job.todo => job.h = "commit")
  BY DEF IInv, TypeOK, Guard, Committing
<1>2. job'.pc \notin Informed BY <1>1, DoneFields DEF Informed, Applying
<1> QED BY <1>2, RestKnown

LEMMA RecoveryLoads ==
    ASSUME IInv, Guard, Loads, BeginRecovery \/ RequireRecovery
    PROVE  Loads'
<1>1. PICK p \in {"Recovering", "RecoveryRequired"} :
        /\ job.pc \in {"recover", "required"} /\ mem' = InPhase(mem, p) /\ disk' \in {disk, mem'}
        /\ job' \in {Failures({}), Done}
  BY DEF BeginRecovery, RequireRecovery, Save, Saved, SaveFailed
<1>2. mem \in Journal /\ mem.phase # "Clean" /\ job \in Job
  BY <1>1 DEF IInv, TypeOK, Guard, Forward, Restoring, Loads, Known
<1>3. p \in Phases \ {"Clean"} BY DEF Phases
<1>4. ValidJournal(mem') BY <1>1, <1>2, <1>3, PhaseValid DEF Loads
<1>5. Known'
  <2>1. CASE job' = Failures({})
    <3>1. job'.pc = "restore" BY <1>2, <2>1, JobFields
    <3> QED BY <3>1, RestKnown DEF Informed, Applying
  <2> QED BY <1>1, <2>1, DoneKnown
<1> QED BY <1>1, <1>4, <1>5, SavedLoads

LEMMA RestoreLoads ==
    ASSUME IInv, Guard, Loads, RestoreStep \/ MarkRestored \/ RestoreEnded
    PROVE  Loads'
<1>1. mem \in Journal /\ job \in Job BY DEF IInv, TypeOK
<1>2. job'.pc \notin Informed
  <2>1. CASE RestoreStep
    <3>1. \A k : RestoreFailed(k).pc \in {"required", "restore"}
      BY <1>1 DEF RestoreFailed, Job
    <3>2. job'.pc \in {"required", "mark", "restore"}
      BY <1>1, <2>1, <3>1, JobFields DEF RestoreStep
    <3> QED BY <3>2 DEF Informed, Applying
  <2>2. CASE MarkRestored
    <3>1. job'.pc = "restore"
      BY <1>1, <2>2, JobFields DEF MarkRestored, Save
    <3> QED BY <3>1 DEF Informed, Applying
  <2>3. CASE RestoreEnded
    <3>1. job'.pc \in {"clean", "required"}
      BY <1>1, <2>3, JobFields DEF RestoreEnded
    <3> QED BY <3>1 DEF Informed, Applying
  <2> QED BY <2>1, <2>2, <2>3
<1>3. ValidJournal(mem') /\ disk' \in {disk, mem'}
  <2>1. CASE RestoreStep \/ RestoreEnded
    BY <2>1 DEF RestoreStep, RestoreEnded, Loads
  <2>2. CASE MarkRestored
    <3>1. /\ job.pc = "mark" /\ mem' = Mark(mem, job.kind, "Restored") /\ disk' \in {disk, mem'}
      BY <2>2 DEF MarkRestored, Save, Saved, SaveFailed
    <3>2. job.kind \in Kinds /\ mem.step[job.kind] # "Absent"
      BY <3>1 DEF IInv, Intent, Guard, Forward
    <3> QED BY <1>1, <3>1, <3>2, MarkValid DEF Loads
  <2> QED BY <2>1, <2>2
<1> QED BY <1>2, <1>3, RestKnown, SavedLoads

LEMMA PublishCleanLoads ==
    ASSUME IInv, Guard, Loads, PublishClean
    PROVE  Loads'
<1>1. /\ mem' \in {mem, Disconnected(mem)} /\ disk' \in {disk, mem'}
      /\ job' \in {Goto("retire"), Goto("required"), Done}
  BY DEF PublishClean, Saved
<1>2. mem \in Journal /\ job \in Job BY DEF IInv, TypeOK
<1>3. ValidJournal(mem') BY <1>1, <1>2, EmptyValid DEF Loads
<1>4. Known'
  <2>1. CASE job' \in {Goto("retire"), Goto("required")}
    <3>1. job'.pc \in {"retire", "required"} BY <1>2, <2>1, JobFields
    <3> QED BY <3>1, RestKnown DEF Informed, Applying
  <2> QED BY <1>1, <2>1, DoneKnown
<1> QED BY <1>1, <1>3, <1>4, SavedLoads

LEMMA RetirementLoads ==
    ASSUME IInv, Guard, Loads, RetireDevice \/ RemoveDevice \/ RecordRetirement
    PROVE  Loads'
<1>1. mem \in Journal /\ job \in Job BY DEF IInv, TypeOK
<1>2. /\ job' \in {Done, Goto("retired"), Goto("remove")} /\ disk' \in {disk, mem'}
      /\ \/ mem' \in {mem, CleanJournal}
         \/ /\ mem' \in {WithDevice(mem, "Retiring"), WithDevice(mem, "RecoveryRequired")}
            /\ mem.phase = "Clean"
  <2>1. CASE RetireDevice
    BY <2>1 DEF RetireDevice, Saved, SaveFailed
  <2>2. CASE RemoveDevice
    BY <2>2 DEF RemoveDevice
  <2>3. CASE RecordRetirement
    BY <2>3 DEF RecordRetirement, Saved, SaveFailed, IInv, OnClean
  <2> QED BY <2>1, <2>2, <2>3
<1>3. ValidJournal(mem')
  <2>1. {"Retiring", "RecoveryRequired"} \subseteq DeviceStates \ {"InUse"} BY DEF DeviceStates
  <2> QED BY <1>1, <1>2, <2>1, DeviceStateValid, EmptyValid DEF Loads
<1>4. Known'
  <2>1. CASE job' \in {Goto("retired"), Goto("remove")}
    <3>1. job'.pc \in {"retired", "remove"} BY <1>1, <2>1, JobFields
    <3> QED BY <3>1, RestKnown DEF Informed, Applying
  <2> QED BY <1>2, <2>1, DoneKnown
<1> QED BY <1>2, <1>3, <1>4, SavedLoads

LEMMA RestartLoads ==
    ASSUME Loads, NEW lost, Restart(lost)
    PROVE  Loads'
<1>1. mem' = disk /\ disk' = disk /\ job' = Run("boot", "boot", None) BY DEF Restart
<1>2. job'.pc = "boot" BY <1>1, RunFields
<1>3. Known' BY <1>2, RestKnown DEF Informed, Applying
<1> QED BY <1>1, <1>3, SavedLoads DEF Loads

LEMMA BootLoads ==
    ASSUME IInv, Loads, Boot
    PROVE  Loads'
<1>1. /\ disk' \in {disk, mem'}
      /\ \/ mem' \in {mem, Disconnected(mem)}
         \/ mem' = InPhase(mem, "RecoveryRequired") /\ mem.phase = "Active"
      /\ \/ job' = Goto("boot_retire")
         \/ job' = Goto("recover") /\ mem' = mem /\ mem.phase # "Clean"
  BY DEF Boot, Reconciled, RetainActive, Interrupted, Saved
<1>2. mem \in Journal /\ job \in Job /\ "RecoveryRequired" \in Phases \ {"Clean"}
  BY DEF IInv, TypeOK, Phases
<1>3. ValidJournal(mem')
  <2>1. mem.phase = "Active" => ValidJournal(InPhase(mem, "RecoveryRequired"))
    BY <1>2, PhaseValid DEF Loads
  <2> QED BY <1>1, <1>2, <2>1, EmptyValid DEF Loads
<1>4. Known'
  <2>1. CASE job' = Goto("boot_retire")
    <3>1. job'.pc = "boot_retire" BY <1>2, <2>1, JobFields
    <3> QED BY <3>1, RestKnown DEF Informed, Applying
  <2>2. CASE job' = Goto("recover") /\ mem' = mem /\ mem.phase # "Clean"
    <3>1. job'.pc = "recover" BY <1>2, <2>2, JobFields
    <3> QED BY <2>2, <3>1 DEF Known, Applying
  <2> QED BY <1>1, <2>1, <2>2
<1> QED BY <1>1, <1>3, <1>4, SavedLoads

LEMMA BootRetireLoads ==
    ASSUME Loads, BootRetire
    PROVE  Loads'
<1>1. /\ UNCHANGED <<mem, disk>>
      /\ \/ job' = Idle
         \/ \E h, e, pc : /\ pc \in {"recover", "retire", "close", "proxy_undo", "detach",
                                     "detached"}
                          /\ pc = "recover" => mem.phase # "Clean"
                          /\ job' = Run(h, pc, e)
  BY DEF BootRetire
<1> QED BY <1>1, StartLoads

LEMMA InitLoads == Init => Loads
<1> SUFFICES ASSUME Init PROVE Loads OBVIOUS
<1>1. mem = CleanJournal /\ disk = CleanJournal /\ job.pc = "idle" BY DEF Init, Idle
<1>2. Known BY <1>1 DEF Known, Applying
<1>3. ValidJournal(CleanJournal)
  <2>1. CleanJournal \in Journal /\ \A x \in Kinds : CleanJournal.step[x] = "Absent"
    BY <1>1, InitInv DEF IInv, TypeOK, CleanJournal, NoSteps
  <2>2. /\ DeviceValid(CleanJournal) /\ CleanValid(CleanJournal) /\ ShapeValid(CleanJournal)
        /\ CleanJournal.order = <<>>
    BY DEF DeviceValid, CleanValid, ShapeValid, CleanJournal, None
  <2>3. Distinct(<<>>) /\ \A k \in Kinds : ~Listed(<<>>, k) BY DEF Distinct, Listed
  <2> QED BY <2>1, <2>2, <2>3, ValidParts
<1> QED BY <1>1, <1>2, <1>3 DEF Loads

LEMMA HandlerStepLoads ==
    ASSUME IInv, IInv', Guard, Loads, HandlerStep
    PROVE  Loads'
<1>1. CASE \/ PlanStep \/ ApplyStep \/ RecordApplied \/ CreateDevice \/ DeviceCreated
           \/ CreateFailed \/ BeginTransaction \/ FinishPrepare \/ FinishChain
           \/ FinishApply \/ FinishOpen \/ FinishCommit
  BY <1>1, PlanStepLoads, ApplyStepLoads, RecordAppliedLoads, CreationLoads,
     BeginTransactionLoads, FinishLoads, FinishPhaseLoads
<1>2. CASE \/ SwitchStep \/ SwitchRecorded \/ SwitchDone \/ StopPacketPump
           \/ SessionClosed \/ StartPacketPump \/ LeaseReleased
           \/ UndoSystemProxy \/ SystemProxyUndone
  BY <1>2, SwitchLoads, SwitchDoneLoads, SessionLoads, FinishLoads
<1>3. CASE \/ BeginRecovery \/ RestoreStep \/ MarkRestored \/ RestoreEnded
           \/ PublishClean \/ RequireRecovery \/ RetireDevice \/ RemoveDevice
           \/ RecordRetirement \/ Boot \/ BootRetire
  BY <1>3, RecoveryLoads, RestoreLoads, PublishCleanLoads, RetirementLoads, BootLoads,
     BootRetireLoads
<1> QED BY <1>1, <1>2, <1>3 DEF HandlerStep

LEMMA RequestLoads ==
    ASSUME IInv, IInv', Guard, Loads, Request
    PROVE  Loads'
<1>1. PICK e \in Engines :
        \/ TunnelRequest(e) \/ LeaseRequest(e) \/ ChainRequest(e) \/ ProxyRequest(e)
  BY DEF Request
<1>2. CASE TunnelRequest(e)
  BY <1>2, PrepareManagedLoads, AskedLoads, RequestsLoad, LeasesLoad DEF TunnelRequest
<1>3. CASE LeaseRequest(e)
  BY <1>3, RequestsLoad, ResumeTunnelLoads, LeasesLoad DEF LeaseRequest
<1>4. CASE ChainRequest(e)
  BY <1>4, BeginChainLoads, FinalizeTunnelLoads DEF ChainRequest
<1>5. CASE ProxyRequest(e)
  BY <1>5, AskedLoads, RequestsLoad, StartSystemProxyLoads DEF ProxyRequest
<1> QED BY <1>1, <1>2, <1>3, <1>4, <1>5

LEMMA StepLoads == IInv /\ IInv' /\ Guard /\ Loads /\ [Next]_vars => Loads'
<1> SUFFICES ASSUME IInv, IInv', Guard, Loads, [Next]_vars PROVE Loads' OBVIOUS
<1>1. CASE ProcessEnd
  BY <1>1, RestartLoads, EventsLoad DEF ProcessEnd, Crash, Reboot, IdleExit
<1>2. CASE Event
  <2>1. CASE RecoveryRequest
    <3>1. ASSUME NEW e \in Engines, RecoverOrphaned(e) PROVE Loads'
      BY <3>1, RequestsLoad
    <3> QED BY <2>1, <3>1, EventsLoad DEF RecoveryRequest
  <2>2. CASE ~RecoveryRequest
    BY <1>2, <2>2, EventsLoad, LeasesLoad DEF Event
  <2> QED BY <2>1, <2>2
<1>3. CASE Wait \/ UNCHANGED vars
  BY <1>3, UnmovedLoads DEF Wait, vars
<1> QED BY <1>1, <1>2, <1>3, RequestLoads, HandlerStepLoads DEF Next

\* Every journal that a handler saves is one that RecoveryJournal::validate
\* accepts (journal.rs): no save is refused for ever, and an Agent that starts
\* can load what its predecessor left.
THEOREM JournalsAreValid == Spec => []JournalLoads
<1>1. Spec => []Loads
  BY InitLoads, StepLoads, GuardInvariance, Invariance, PTL DEF Spec
<1>2. Loads => JournalLoads
  BY DEF Loads, JournalLoads
<1> QED BY <1>1, <1>2, PTL

(***************************************************************************)
(* A later lease disarms the watchdogs armed before it.  A watchdog names   *)
(* the epoch at which it was armed, and fires only in that epoch.  A pipe   *)
(* takes a lease in a later epoch than every watchdog's, except when it     *)
(* prepares a tunnel: no watchdog knows the fresh operation.                *)
(***************************************************************************)
Timed == {w \in watchdogs : w.lease # "stale"}
AllOlder == \A w \in Timed : w.epoch < epoch
Fresh == {"create", "created", "begin"}
Disarmed ==
    /\ {mem.op, disk.op} \subseteq used \cup {None}
    /\ \A w \in watchdogs : w.op \in used \cup {None} /\ w.epoch <= epoch
    /\ \A w \in Timed : w.superseded => w.epoch < epoch
    /\ lease \/ (job.h = "begin_chain" /\ job.pc \in Applying) => AllOlder
    /\ job.pc \in Fresh => job.op \in used /\ \A w \in watchdogs : w.op # job.op
    /\ job.h = "prepare" /\ job.pc \in Applying => \A w \in watchdogs : w.op # mem.op
    /\ job.pc = "boot" => ~lease

\* The watchdogs after a step are those before it, fewer of them or superseded.
Aged ==
    \A x \in watchdogs' : \E w \in watchdogs :
        /\ x.op = w.op /\ x.epoch = w.epoch /\ x.lease = w.lease
        /\ x.superseded /\ x.lease # "stale" => w.superseded \/ w.epoch < epoch'

\* A handler goes on with its own operation, or begins with an older epoch.
Onward ==
    /\ job'.pc # "boot"
    /\ job'.h = "begin_chain" /\ job'.pc \in Applying =>
          lease \/ epoch' = epoch + 1 \/ (job.h = "begin_chain" /\ job.pc \in Applying)
    /\ job'.pc \in Fresh => job.pc \in Fresh /\ job'.op = job.op
    /\ job'.h = "prepare" /\ job'.pc \in Applying =>
          \/ job.pc \in Fresh /\ mem'.op = job.op
          \/ job.h = "prepare" /\ job.pc \in Applying /\ mem'.op = mem.op

LEMMA OnwardDisarmed ==
    ASSUME IInv, Disarmed, Aged, Onward, epoch' \in {epoch, epoch + 1},
           lease' => lease \/ epoch' = epoch + 1, used \subseteq used',
           {mem'.op, disk'.op} \subseteq used' \cup {None}
    PROVE  Disarmed'
<1>1. /\ epoch \in Nat /\ \A w \in watchdogs : w.epoch \in Nat /\ w.epoch <= epoch
      /\ epoch <= epoch'
  BY DEF IInv, TypeOK, Watchdog, Disarmed
<1>2. \A w \in watchdogs : w.epoch < epoch \/ epoch' = epoch + 1 => w.epoch < epoch'
  BY <1>1
<1>3. \A x \in watchdogs' : x.op \in used' \cup {None} /\ x.epoch <= epoch'
  BY <1>1 DEF Aged, Disarmed
<1>4. \A x \in Timed' : x.superseded => x.epoch < epoch'
  <2> SUFFICES ASSUME NEW x \in Timed', x.superseded PROVE x.epoch < epoch' OBVIOUS
  <2>1. x \in watchdogs' /\ x.lease # "stale" BY DEF Timed
  <2>2. PICK w \in watchdogs : /\ x.op = w.op /\ x.epoch = w.epoch /\ x.lease = w.lease
                               /\ w.superseded \/ w.epoch < epoch'
    BY <2>1 DEF Aged
  <2>3. w \in Timed BY <2>1, <2>2 DEF Timed
  <2> QED BY <1>2, <2>2, <2>3 DEF Disarmed
<1>5. lease' \/ (job'.h = "begin_chain" /\ job'.pc \in Applying) => AllOlder'
  <2> SUFFICES ASSUME lease' \/ (job'.h = "begin_chain" /\ job'.pc \in Applying),
                      NEW x \in Timed'
               PROVE  x.epoch < epoch'
    BY DEF AllOlder
  <2>1. x \in watchdogs' /\ x.lease # "stale" BY DEF Timed
  <2>2. PICK w \in watchdogs : x.epoch = w.epoch /\ x.lease = w.lease
    BY <2>1 DEF Aged
  <2>3. w \in Timed BY <2>1, <2>2 DEF Timed
  <2>4. AllOlder \/ epoch' = epoch + 1 BY DEF Onward, Disarmed
  <2> QED BY <1>2, <2>2, <2>3, <2>4 DEF AllOlder
<1>6. job'.pc \in Fresh => job'.op \in used' /\ \A x \in watchdogs' : x.op # job'.op
  BY DEF Onward, Aged, Disarmed
<1>7. job'.h = "prepare" /\ job'.pc \in Applying => \A x \in watchdogs' : x.op # mem'.op
  BY DEF Onward, Aged, Disarmed
<1> QED BY <1>3, <1>4, <1>5, <1>6, <1>7 DEF Disarmed, Onward

\* Most steps leave watchdogs, epoch and lease alone.
LEMMA SameAged == ASSUME watchdogs' \subseteq watchdogs PROVE Aged
  BY DEF Aged

LEMMA KeptDisarmed ==
    ASSUME IInv, Disarmed, Onward, watchdogs' \subseteq watchdogs, epoch' \in {epoch, epoch + 1},
           lease' => lease, used' = used,
           {mem'.op, disk'.op} \subseteq {mem.op, disk.op, None}
    PROVE  Disarmed'
<1>1. {mem'.op, disk'.op} \subseteq used' \cup {None} BY DEF Disarmed
<1> QED BY <1>1, SameAged, OnwardDisarmed

Elsewhere == Labels \ (Applying \cup Fresh \cup {"boot"})
LEMMA ElsewhereOnward == ASSUME job'.pc \in Elsewhere PROVE Onward
  BY DEF Elsewhere, Onward

\* A watchdog is armed when no lease is left, or a stale one that any epoch fires.
LEMMA ArmDisarmed ==
    ASSUME IInv, Disarmed, NEW op \in used \cup {None}, NEW ep \in Nat, NEW k,
           Arm(op, ep, k), epoch' \in {epoch, epoch + 1}, ep <= epoch',
           k # "stale" => ~lease', lease' => lease, used' = used,
           {mem'.op, disk'.op} \subseteq {mem.op, disk.op, None},
           job'.pc \in Elsewhere
    PROVE  Disarmed'
<1> DEFINE armed == [op |-> op, epoch |-> ep, lease |-> k, superseded |-> FALSE]
<1>1. watchdogs' = watchdogs \cup {armed} BY DEF Arm
<1>2. armed.op = op /\ armed.epoch = ep /\ armed.lease = k /\ armed.superseded = FALSE
  OBVIOUS
<1> HIDE DEF armed
<1>3. /\ epoch \in Nat /\ epoch <= epoch' /\ \A w \in watchdogs : w.epoch \in Nat
      /\ \A w \in watchdogs : w.epoch <= epoch
  BY DEF IInv, TypeOK, Watchdog, Disarmed
<1>4. \A w \in watchdogs : w.epoch <= epoch' /\ (w.epoch < epoch => w.epoch < epoch')
  BY <1>3
<1>5. Timed' \subseteq Timed \cup {armed} /\ (armed \in Timed' => k # "stale" \/ armed \in Timed)
  BY <1>1, <1>2 DEF Timed
<1>6. \A x \in Timed : x \in watchdogs BY DEF Timed
<1>7. \A x \in watchdogs' : x.op \in used' \cup {None} /\ x.epoch <= epoch'
  BY <1>1, <1>2, <1>4 DEF Disarmed
<1>8. \A x \in Timed' : x.superseded => x.epoch < epoch'
  BY <1>2, <1>4, <1>5, <1>6 DEF Disarmed
<1>9. lease' => AllOlder'
  BY <1>2, <1>4, <1>5, <1>6 DEF Disarmed, AllOlder
<1> QED BY <1>7, <1>8, <1>9 DEF Disarmed, Elsewhere

\* Only a new transaction has another operation; a clean journal has none.
LEMMA OpKept ==
    ASSUME NEW j \in Journal
    PROVE  /\ \A k : Push(j, k).op = j.op /\ Remove(j, k).op = j.op
           /\ \A k, s : Mark(j, k, s).op = j.op
           /\ \A p : InPhase(j, p).op = j.op /\ WithDevice(j, p).op = j.op
           /\ \A e : /\ OwnedBy(j, e).op = j.op /\ Chained(j, e).op = j.op
                     /\ Resumed(j, e).op = j.op /\ Creating(j, e).op = j.op
           /\ Finalized(j).op = j.op
           /\ Disconnected(j).op = None /\ CleanJournal.op = None
  BY DEF Journal, Push, Remove, Mark, InPhase, WithDevice, OwnedBy, Chained, Resumed, Creating,
         Finalized, Disconnected, CleanJournal

(***************************************************************************)
(* Requests and events.                                                     *)
(***************************************************************************)
LEMMA StartDisarmed ==
    ASSUME IInv, Disarmed, UNCHANGED <<mem, disk, epoch, lease, used>>,
           watchdogs' \subseteq watchdogs,
           \/ job' = Idle
           \/ \E h, e, pc : /\ pc \in {"recover", "retire", "close", "proxy_undo", "detach",
                                       "detached"}
                            /\ job' = Run(h, pc, e)
    PROVE  Disarmed'
<1>1. job'.pc \in {"idle", "recover", "retire", "close", "proxy_undo", "detach", "detached"}
  <2>1. CASE job' = Idle BY <2>1 DEF Idle
  <2>2. ASSUME NEW h, NEW e, NEW pc, job' = Run(h, pc, e),
               pc \in {"recover", "retire", "close", "proxy_undo", "detach", "detached"}
        PROVE  job'.pc = pc
    BY <2>2, RunFields
  <2> QED BY <2>1, <2>2
<1>2. Onward BY <1>1, ElsewhereOnward DEF Elsewhere, Labels, Applying, Fresh
<1>3. epoch' \in {epoch, epoch + 1} /\ (lease' => lease) /\ used' = used
      /\ {mem'.op, disk'.op} \subseteq {mem.op, disk.op, None}
  OBVIOUS
<1> QED BY <1>2, <1>3, KeptDisarmed

LEMMA RequestsDisarmed ==
    ASSUME IInv, Disarmed, NEW e \in Engines,
           \/ Rollback(e) \/ ClosePacketSession(e) \/ RestoreSystemProxy(e)
           \/ RecoverStale \/ RecoverAutomatic \/ RecoverOrphaned(e)
           \/ ReleaseDeviceLease(e)
    PROVE  Disarmed'
<1>1. UNCHANGED <<mem, disk, epoch, lease, used, watchdogs>>
  BY DEF Rollback, ClosePacketSession, RestoreSystemProxy, RecoverStale, RecoverAutomatic,
         RecoverOrphaned, ReleaseDeviceLease, session, clients
<1>2. \E h, a, pc : /\ pc \in {"recover", "retire", "close", "proxy_undo"}
                    /\ job' = Run(h, pc, a)
  BY DEF Rollback, ClosePacketSession, RestoreSystemProxy, RecoverStale, RecoverAutomatic,
         RecoverOrphaned, ReleaseDeviceLease, CleanUp
<1> QED BY <1>1, <1>2, StartDisarmed

LEMMA EventsDisarmed ==
    ASSUME IInv, Disarmed,
           \/ \E p \in pipes : ActivePipeEnds(p)
           \/ \E w \in watchdogs : WatchdogFires(w)
           \/ \E key \in devTimers : DeviceTimerFires(key)
           \/ RecoverStale \/ RecoverAutomatic
           \/ RetryRetirement \/ Shutdown
    PROVE  Disarmed'
<1>1. UNCHANGED <<mem, disk, epoch, lease, used>> /\ watchdogs' \subseteq watchdogs
  BY DEF ActivePipeEnds, WatchdogFires, DeviceTimerFires, RetryRetirement, Shutdown,
         RecoverStale, RecoverAutomatic, session, clients
<1>2. \/ job' = Idle
      \/ \E h, a, pc : /\ pc \in {"recover", "retire", "detach", "detached"}
                       /\ job' = Run(h, pc, a)
  BY DEF ActivePipeEnds, WatchdogFires, DeviceTimerFires, RetryRetirement, Shutdown,
         CleanUp, RecoverStale, RecoverAutomatic
<1> QED BY <1>1, <1>2, StartDisarmed

LEMMA UnmovedDisarmed ==
    ASSUME Disarmed, UNCHANGED <<mem, disk, job, epoch, lease, used, watchdogs>>
    PROVE  Disarmed'
  BY DEF Disarmed, AllOlder, Timed

LEMMA DevicesDisarmed ==
    ASSUME Disarmed, \/ \E e \in Engines : AcquireDeviceLease(e)
                     \/ DevicePipeEnds \/ WorkerFinishes
    PROVE  Disarmed'
<1>1. UNCHANGED <<mem, disk, job, epoch, lease, used, watchdogs>>
  BY DEF AcquireDeviceLease, DevicePipeEnds, WorkerFinishes, session, clients
<1> QED BY <1>1, UnmovedDisarmed

\* A watchdog that names the operation of the pipe is superseded.
LEMMA AttachAged ==
    ASSUME IInv, NEW p, Attach(p),
           \A w \in Timed : w.op = p.op => w.epoch < epoch'
    PROVE  Aged
<1> SUFFICES ASSUME NEW x \in watchdogs'
             PROVE  \E w \in watchdogs :
                       /\ x.op = w.op /\ x.epoch = w.epoch /\ x.lease = w.lease
                       /\ x.superseded /\ x.lease # "stale" => w.superseded \/ w.epoch < epoch'
  BY DEF Aged
<1>1. PICK w \in watchdogs : x = [w EXCEPT !.superseded = @ \/ w.op = p.op]
  BY DEF Attach
<1>2. w \in Watchdog BY DEF IInv, TypeOK
<1>3. /\ x.op = w.op /\ x.epoch = w.epoch /\ x.lease = w.lease
      /\ x.superseded = (w.superseded \/ w.op = p.op)
  BY <1>1, <1>2 DEF Watchdog
<1>4. x.superseded /\ x.lease # "stale" => w.superseded \/ w.epoch < epoch'
  BY <1>3 DEF Timed
<1> QED BY <1>3, <1>4

LEMMA AcquireTunnelLeaseDisarmed ==
    ASSUME IInv, Disarmed, NEW e \in Engines, AcquireTunnelLease(e)
    PROVE  Disarmed'
<1> DEFINE p == [e |-> e, op |-> mem.op, lease |-> "active"]
<1>1. /\ Attach(p) /\ epoch' = epoch + 1 /\ lease' = TRUE /\ job.pc = "idle"
      /\ UNCHANGED <<mem, disk, used, job>>
  BY DEF AcquireTunnelLease, Ready
<1>2. Aged
  <2>1. epoch \in Nat /\ \A w \in Timed : w.epoch \in Nat /\ w.epoch <= epoch
    BY DEF IInv, TypeOK, Watchdog, Disarmed, Timed
  <2>2. \A w \in Timed : w.epoch < epoch' BY <1>1, <2>1
  <2> QED BY <1>1, <2>2, AttachAged
<1>3. Onward BY <1>1 DEF Onward, Applying, Fresh
<1>4. {mem'.op, disk'.op} \subseteq used' \cup {None} BY <1>1 DEF Disarmed
<1>5. epoch' \in {epoch, epoch + 1} /\ used \subseteq used'
      /\ (lease' => lease \/ epoch' = epoch + 1)
  BY <1>1
<1> QED BY <1>2, <1>3, <1>4, <1>5, OnwardDisarmed

LEMMA StartupPipeEndsDisarmed ==
    ASSUME IInv, Disarmed, NEW p \in pipes, StartupPipeEnds(p)
    PROVE  Disarmed'
<1>1. /\ job.pc = "idle" /\ UNCHANGED <<mem, disk, lease, used, job>>
      /\ \/ UNCHANGED <<epoch, watchdogs>>
         \/ epoch' = epoch + 1 /\ Arm(p.op, epoch + 1, "startup") /\ ~lease /\ p.op = mem.op
  BY DEF StartupPipeEnds, Ready, ensure_owner
<1>2. CASE UNCHANGED <<epoch, watchdogs>> BY <1>1, <1>2, UnmovedDisarmed
<1>3. CASE epoch' = epoch + 1 /\ Arm(p.op, epoch + 1, "startup") /\ ~lease /\ p.op = mem.op
  <2>1. p.op \in used \cup {None} BY <1>3 DEF Disarmed
  <2>2. epoch + 1 \in Nat /\ epoch + 1 <= epoch' BY <1>3 DEF IInv, TypeOK
  <2>3. job'.pc \in Elsewhere BY <1>1 DEF Elsewhere, Labels, Applying, Fresh
  <2> QED BY <1>1, <1>3, <2>1, <2>2, <2>3, ArmDisarmed
<1> QED BY <1>1, <1>2, <1>3

LEMMA AskedDisarmed ==
    ASSUME IInv, Disarmed, NEW e \in Engines,
           Commit(e) \/ JoinSystemProxy(e) \/ OpenPacketSession(e)
    PROVE  Disarmed'
<1>1. /\ UNCHANGED <<disk, epoch, lease, used, watchdogs>>
      /\ mem' \in {mem, Remove(mem, "PacketSession")}
      /\ \/ job' = Todo(Run("commit", "plan", e), CommitKinds)
         \/ job' = Todo(Run("proxy_join", "plan", e), {"SystemProxy"})
         \/ job' = Todo(Run("open", "plan", e), {"PacketSession"})
  BY DEF Commit, JoinSystemProxy, OpenPacketSession, session, clients
<1>2. mem'.op = mem.op BY <1>1, OpKept DEF IInv, TypeOK
<1>3. job'.h \in {"commit", "proxy_join", "open"} /\ job'.pc \in {"plan", "finish"}
  <2>1. {"commit", "proxy_join", "open"} \subseteq Handlers /\ "plan" \in Labels
    BY DEF Handlers, Labels
  <2>2. \A h \in {"commit", "proxy_join", "open"} :
            Run(h, "plan", e) \in Job /\ Run(h, "plan", e).h = h
    BY <2>1, RunType, RunFields
  <2> QED BY <1>1, <2>2, TodoFields
<1>4. Onward BY <1>3 DEF Onward, Fresh
<1> QED BY <1>1, <1>2, <1>4, KeptDisarmed

(***************************************************************************)
(* Handler steps.                                                           *)
(***************************************************************************)
\* The labels that promise nothing.
LEMMA EndsElsewhere ==
    ASSUME IInv, Guard
    PROVE  /\ Idle.pc \in Elsewhere /\ Done.pc \in Elsewhere
           /\ \A o \in {ApplyFailed, PlanFailed, IntentFailed} : o.pc \in Elsewhere
<1>1. job \in Job /\ (Routes \in job.todo => job.h = "commit")
  BY DEF IInv, TypeOK, Guard, Committing
<1>2. {"idle", "boot_retire", "halted", "recover", "proxy_undo"} \subseteq Elsewhere
  BY DEF Elsewhere, Labels, Applying, Fresh
<1>3. Idle.pc \in Elsewhere BY <1>1, <1>2, JobFields
<1>4. Done.pc \in Elsewhere BY <1>1, <1>2, DoneFields
<1>5. ASSUME NEW o \in {ApplyFailed, PlanFailed, IntentFailed} PROVE o.pc \in Elsewhere
  BY <1>1, <1>2, FailedFields
<1> QED BY <1>3, <1>4, <1>5

\* A handler that saves the journal of the same operation and goes elsewhere, or
\* goes on applying to it.
LEMMA HandlerDisarmed ==
    ASSUME IInv, Disarmed, UNCHANGED <<used, watchdogs>>, epoch' \in {epoch, epoch + 1},
           lease' => lease, mem'.op \in {mem.op, None}, disk' \in {disk, mem'},
           \/ job'.pc \in Elsewhere
           \/ /\ job.pc \in Applying /\ job'.pc \in Applying
              /\ job'.h = job.h /\ mem'.op = mem.op
    PROVE  Disarmed'
<1>1. Onward
  <2>1. CASE job'.pc \in Elsewhere BY <2>1, ElsewhereOnward
  <2>2. CASE /\ job.pc \in Applying /\ job'.pc \in Applying
             /\ job'.h = job.h /\ mem'.op = mem.op
    BY <2>2 DEF Onward, Applying, Fresh
  <2> QED BY <2>1, <2>2
<1>2. {mem'.op, disk'.op} \subseteq {mem.op, disk.op, None} OBVIOUS
<1> QED BY <1>1, <1>2, KeptDisarmed

LEMMA ApplyDisarmed ==
    ASSUME IInv, Guard, Disarmed, PlanStep \/ ApplyStep \/ RecordApplied
    PROVE  Disarmed'
<1>1. mem \in Journal /\ job \in Job BY DEF IInv, TypeOK
<1>2. UNCHANGED <<used, watchdogs, epoch, lease>>
  BY DEF PlanStep, ApplyStep, RecordApplied, session, clients
<1>3. job.pc \in Applying BY DEF PlanStep, ApplyStep, RecordApplied, Applying
<1>4. mem'.op = mem.op /\ disk' \in {disk, mem'}
  <2>1. CASE PlanStep
    BY <1>1, <2>1, OpKept DEF PlanStep, Save, Saved, SaveFailed
  <2>2. CASE ApplyStep BY <2>2 DEF ApplyStep
  <2>3. CASE RecordApplied
    <3> DEFINE applied == Mark(mem, job.kind, "Applied")
    <3>1. mem' \in {applied, InPhase(applied, "Active")} /\ disk' \in {disk, mem'}
          /\ job.kind \in Kinds
      BY <2>3 DEF RecordApplied, Save, Saved, SaveFailed, IInv, Intent
    <3>2. applied \in Journal /\ applied.op = mem.op
      <4>1. "Applied" \in StepStates BY DEF StepStates
      <4> QED BY <1>1, <3>1, <4>1, OpKept, MarkUpdates
    <3> HIDE DEF applied
    <3> QED BY <3>1, <3>2, OpKept
  <2> QED BY <2>1, <2>2, <2>3
<1>5. \/ job'.pc \in Elsewhere
      \/ job'.pc \in Applying /\ job'.h = job.h
  <2>1. CASE PlanStep
    <3>1. \/ job' \in {PlanFailed, IntentFailed}
          \/ \E k \in Kinds : job' = At("apply", k)
      BY <2>1 DEF PlanStep, Save
    <3>2. \A k : At("apply", k).pc \in Applying /\ At("apply", k).h = job.h
      BY <1>1, JobFields DEF Applying
    <3> QED BY <3>1, <3>2, EndsElsewhere
  <2>2. CASE ApplyStep
    <3>1. job' \in {Goto("applied"), ApplyFailed} BY <2>2 DEF ApplyStep
    <3>2. Goto("applied").pc \in Applying /\ Goto("applied").h = job.h
      BY <1>1, JobFields DEF Applying
    <3> QED BY <3>1, <3>2, EndsElsewhere
  <2>3. CASE RecordApplied
    <3>1. job' \in {Todo(job, job.todo \ {job.kind}), ApplyFailed}
      BY <2>3 DEF RecordApplied, Save
    <3>2. \A S : Todo(job, S).pc \in Applying /\ Todo(job, S).h = job.h
      BY <1>1, TodoFields DEF Applying
    <3> QED BY <3>1, <3>2, EndsElsewhere
  <2> QED BY <2>1, <2>2, <2>3
<1> QED BY <1>2, <1>3, <1>4, <1>5, HandlerDisarmed

\* A fresh operation is drawn: no watchdog names it.
LEMMA DrawnDisarmed ==
    ASSUME IInv, Disarmed, NEW op \in Operations \ used, used' = used \cup {op},
           UNCHANGED <<watchdogs, epoch, lease>>,
           {mem'.op, disk'.op} \subseteq {mem.op, disk.op, op},
           \/ job'.pc \in Elsewhere
           \/ job'.pc \in Fresh /\ job'.op = op
           \/ job'.pc = "plan" /\ job'.h = "proxy_alone"
    PROVE  Disarmed'
<1>1. op # None BY ConstantsAssumption
<1>2. \A w \in watchdogs : w.op # op BY <1>1 DEF Disarmed
<1>3. Timed' = Timed /\ (AllOlder' <=> AllOlder) BY DEF Timed, AllOlder
<1>4. job'.pc # "boot" /\ ~(job'.h \in {"begin_chain", "prepare"} /\ job'.pc \in Applying)
      /\ (job'.pc \in Fresh => job'.op = op)
  BY DEF Elsewhere, Applying, Fresh
<1> QED BY <1>2, <1>3, <1>4 DEF Disarmed

LEMMA PrepareManagedDisarmed ==
    ASSUME IInv, Guard, Disarmed, NEW e \in Engines, NEW op \in Operations, NEW plan \in Plans,
           PrepareManaged(e, op, plan)
    PROVE  Disarmed'
<1> DEFINE create == Prepare("create", e, op, plan)
           begin == Prepare("begin", e, op, plan)
<1>1. /\ op \notin used /\ used' = used \cup {op} /\ UNCHANGED <<watchdogs, epoch, lease>>
      /\ mem' \in {mem, Creating(mem, e), WithDevice(mem, "RecoveryRequired")}
      /\ disk' \in {disk, mem'} /\ job' \in {create, begin, Idle}
  BY DEF PrepareManaged, Save, Saved, SaveFailed, session
<1>2. mem'.op = mem.op BY <1>1, OpKept DEF IInv, TypeOK
<1>3. \A j \in {create, begin} : j.op = op /\ j.pc \in Fresh
  BY DEF Prepare, Run, Idle, Fresh
<1> HIDE DEF create, begin
<1>4. job'.pc \in Elsewhere \/ (job'.pc \in Fresh /\ job'.op = op)
  BY <1>1, <1>3, EndsElsewhere
<1> QED BY <1>1, <1>2, <1>4, DrawnDisarmed

LEMMA StartSystemProxyDisarmed ==
    ASSUME IInv, Guard, Disarmed, NEW e \in Engines, NEW op \in Operations,
           StartSystemProxy(e, op)
    PROVE  Disarmed'
<1> DEFINE next == Todo(Run("proxy_alone", "plan", e), {"SystemProxy"})
<1>1. /\ op \notin used /\ used' = used \cup {op} /\ UNCHANGED <<watchdogs, epoch, lease>>
      /\ mem' = ProxyBegun(mem, op, e) /\ disk' \in {disk, mem'} /\ job' \in {next, Idle}
  BY DEF StartSystemProxy, Save, Saved, SaveFailed, session
<1>2. mem'.op = op BY <1>1 DEF ProxyBegun, IInv, TypeOK, Journal
<1>3. next.pc = "plan" /\ next.h = "proxy_alone"
  <2>1. Run("proxy_alone", "plan", e) \in Job /\ Run("proxy_alone", "plan", e).h = "proxy_alone"
    <3>1. "proxy_alone" \in Handlers /\ "plan" \in Labels BY DEF Handlers, Labels
    <3> QED BY <3>1, RunType, RunFields
  <2> QED BY <2>1, TodoFields
<1> HIDE DEF next
<1>4. job'.pc \in Elsewhere \/ (job'.pc = "plan" /\ job'.h = "proxy_alone")
  BY <1>1, <1>3, EndsElsewhere
<1> QED BY <1>1, <1>2, <1>4, DrawnDisarmed

LEMMA CreationDisarmed ==
    ASSUME IInv, Guard, Disarmed, CreateDevice \/ DeviceCreated \/ CreateFailed
    PROVE  Disarmed'
<1>1. mem \in Journal /\ job \in Job BY DEF IInv, TypeOK
<1>2. /\ UNCHANGED <<used, watchdogs, epoch, lease>> /\ disk' \in {disk, mem'}
      /\ mem' \in {mem, WithDevice(mem, "Idle"), WithDevice(mem, "RecoveryRequired")}
      /\ \/ job' \in {Goto("create_failed"), Idle}
         \/ job' = Goto("created") /\ job.pc = "create"
         \/ job' = Goto("begin") /\ job.pc = "created"
  BY DEF CreateDevice, DeviceCreated, CreateFailed, Save, Saved, SaveFailed, session, clients
<1>3. mem'.op = mem.op BY <1>1, <1>2, OpKept
<1>4. CASE job' \in {Goto("create_failed"), Idle}
  <2>1. "create_failed" \in Elsewhere BY DEF Elsewhere, Labels, Applying, Fresh
  <2>2. job'.pc \in Elsewhere BY <1>1, <1>4, <2>1, EndsElsewhere, JobFields
  <2> QED BY <1>2, <1>3, <2>2, HandlerDisarmed
<1>5. CASE job' \in {Goto("created"), Goto("begin")} /\ job.pc \in {"create", "created"}
  <2>1. job'.op = job.op /\ job'.pc \in Fresh /\ job.pc \in Fresh
    BY <1>1, <1>5 DEF Goto, Job, Fresh
  <2>2. Onward BY <2>1 DEF Onward, Fresh, Applying
  <2>3. {mem'.op, disk'.op} \subseteq {mem.op, disk.op, None} BY <1>2, <1>3
  <2> QED BY <1>2, <2>2, <2>3, KeptDisarmed
<1> QED BY <1>2, <1>4, <1>5

LEMMA BeginTransactionDisarmed ==
    ASSUME IInv, Guard, Disarmed, BeginTransaction
    PROVE  Disarmed'
<1>1. /\ job.pc = "begin" /\ mem' = Begun(mem) /\ disk' \in {disk, mem'}
      /\ job' \in {Todo(job, PrepareKinds(job.plan)), Idle}
      /\ UNCHANGED <<used, watchdogs, epoch, lease>>
  BY DEF BeginTransaction, Save, Saved, SaveFailed, session, clients
<1>2. mem \in Journal /\ job \in Job /\ job.op \in used /\ job.h = "prepare"
  BY <1>1 DEF IInv, TypeOK, Disarmed, Fresh, Guard, Forward
<1>3. mem'.op = job.op BY <1>1, <1>2 DEF Begun, Journal
<1>4. Onward
  <2>1. CASE job' = Idle BY <2>1, EndsElsewhere, ElsewhereOnward
  <2>2. CASE job' = Todo(job, PrepareKinds(job.plan))
    <3>1. job'.h = "prepare" /\ job'.pc \in {"plan", "finish"} BY <1>2, <2>2, TodoFields
    <3> QED BY <1>1, <1>3, <3>1 DEF Onward, Fresh
  <2> QED BY <1>1, <2>1, <2>2
<1>5. {mem'.op, disk'.op} \subseteq used' \cup {None} BY <1>1, <1>2, <1>3 DEF Disarmed
<1>6. Aged BY <1>1, SameAged
<1> QED BY <1>1, <1>4, <1>5, <1>6, OnwardDisarmed

\* The pipe that prepared a tunnel holds the first lease of its operation.
LEMMA FinishPrepareDisarmed ==
    ASSUME IInv, Guard, Disarmed, FinishPrepare
    PROVE  Disarmed'
<1>1. mem \in Journal /\ job \in Job BY DEF IInv, TypeOK
<1>2. /\ job.h = "prepare" /\ job.pc = "finish" /\ UNCHANGED <<epoch, lease, used>>
      /\ mem' = InPhase(mem, "Prepared") /\ disk' \in {disk, mem'}
      /\ job' \in {Idle, Goto("recover")}
      /\ \/ Attach([e |-> job.e, op |-> mem.op, lease |-> "startup"])
         \/ UNCHANGED watchdogs
  BY DEF FinishPrepare, Saved, SaveFailed, session
<1>3. \A w \in watchdogs : w.op # mem.op BY <1>2 DEF Disarmed, Applying
<1>4. Aged
  <2>1. CASE Attach([e |-> job.e, op |-> mem.op, lease |-> "startup"])
    BY <1>3, <2>1, AttachAged DEF Timed
  <2>2. CASE UNCHANGED watchdogs BY <2>2, SameAged
  <2> QED BY <1>2, <2>1, <2>2
<1>5. Onward
  <2>1. "recover" \in Elsewhere BY DEF Elsewhere, Labels, Applying, Fresh
  <2> QED BY <1>1, <1>2, <2>1, EndsElsewhere, ElsewhereOnward, JobFields
<1>6. {mem'.op, disk'.op} \subseteq used' \cup {None}
  BY <1>1, <1>2, OpKept DEF Disarmed
<1> QED BY <1>2, <1>4, <1>5, <1>6, OnwardDisarmed

\* A chain's pipe holds a lease of a later epoch than every watchdog's.
LEMMA FinishChainDisarmed ==
    ASSUME IInv, Guard, Disarmed, FinishChain
    PROVE  Disarmed'
<1>1. /\ job.h = "begin_chain" /\ job.pc = "finish" /\ job' = Idle
      /\ UNCHANGED <<mem, disk, epoch, lease, used>>
      /\ \/ Attach([e |-> job.e, op |-> mem.op, lease |-> "startup"])
         \/ UNCHANGED watchdogs
  BY DEF FinishChain, session
<1>2. AllOlder BY <1>1 DEF Disarmed, Applying
<1>3. Aged
  <2>1. CASE Attach([e |-> job.e, op |-> mem.op, lease |-> "startup"])
    BY <1>1, <1>2, <2>1, AttachAged DEF AllOlder
  <2>2. CASE UNCHANGED watchdogs BY <2>2, SameAged
  <2> QED BY <1>1, <2>1, <2>2
<1>4. Onward BY <1>1, EndsElsewhere, ElsewhereOnward
<1>5. {mem'.op, disk'.op} \subseteq used' \cup {None} BY <1>1 DEF Disarmed
<1> QED BY <1>1, <1>3, <1>4, <1>5, OnwardDisarmed

LEMMA BeginChainDisarmed ==
    ASSUME IInv, Guard, Disarmed, NEW e \in Engines, BeginChainTransition(e)
    PROVE  Disarmed'
<1>1. /\ UNCHANGED <<lease, used, watchdogs>> /\ mem' = Chained(mem, e) /\ disk' \in {disk, mem'}
      /\ \/ /\ job' = ChainLabel(mem.step["KillSwitch"], e)
            /\ epoch' = IF lease THEN epoch ELSE epoch + 1
         \/ job' = Idle /\ epoch' = epoch
  BY DEF BeginChainTransition, Saved, SaveFailed, clients
<1>2. Onward
  <2> DEFINE r == Run("begin_chain", "plan", e)
  <2>1. r \in Job /\ r.h = "begin_chain"
    <3>1. "begin_chain" \in Handlers /\ "plan" \in Labels BY DEF Handlers, Labels
    <3> QED BY <3>1, RunType, RunFields
  <2>2. ChainLabel(mem.step["KillSwitch"], e) \in {Todo(r, {}), Todo(r, {"KillSwitch"}), Idle}
    BY DEF ChainLabel
  <2> HIDE DEF r
  <2>3. CASE job' = Idle BY <2>3, EndsElsewhere, ElsewhereOnward
  <2>4. ASSUME NEW S, job' = Todo(r, S), lease \/ epoch' = epoch + 1 PROVE Onward
    <3>1. job'.h = "begin_chain" /\ job'.pc \in {"plan", "finish"} BY <2>1, <2>4, TodoFields
    <3> QED BY <2>4, <3>1 DEF Onward, Fresh
  <2> QED BY <1>1, <2>2, <2>3, <2>4
<1>3. {mem'.op, disk'.op} \subseteq {mem.op, disk.op, None}
  BY <1>1, OpKept DEF IInv, TypeOK
<1> QED BY <1>1, <1>2, <1>3, KeptDisarmed

LEMMA FinalizeTunnelDisarmed ==
    ASSUME IInv, Guard, Disarmed, NEW e \in Engines, FinalizeTunnel(e) \/ ResumeTunnel(e)
    PROVE  Disarmed'
<1>1. /\ UNCHANGED <<lease, epoch, used, watchdogs>> /\ disk' \in {disk, mem'}
      /\ mem' \in {mem, OwnedBy(mem, e), Resumed(mem, e)}
      /\ job' \in {Run("finalize", "switch", e), Run("resume", "resume", e), Idle}
  BY DEF FinalizeTunnel, ResumeTunnel, Save, Saved, SaveFailed, session, clients
<1>2. mem'.op = mem.op BY <1>1, OpKept DEF IInv, TypeOK
<1>3. job'.pc \in Elsewhere
  <2>1. {"switch", "resume"} \subseteq Elsewhere BY DEF Elsewhere, Labels, Applying, Fresh
  <2> QED BY <1>1, <2>1, RunFields, EndsElsewhere
<1> QED BY <1>1, <1>2, <1>3, HandlerDisarmed

LEMMA FinishDisarmed ==
    ASSUME IInv, Guard, Disarmed,
           \/ FinishApply \/ FinishOpen \/ FinishCommit \/ StartPacketPump \/ SessionClosed
           \/ SwitchStep \/ SwitchRecorded \/ SwitchDone
           \/ UndoSystemProxy \/ SystemProxyUndone
    PROVE  Disarmed'
<1>1. mem \in Journal /\ job \in Job BY DEF IInv, TypeOK
<1>2. UNCHANGED <<used, watchdogs, epoch, lease>>
  BY DEF FinishApply, FinishOpen, FinishCommit, StartPacketPump, SessionClosed, SwitchStep,
         SwitchRecorded, SwitchDone, UndoSystemProxy, SystemProxyUndone, session, clients
<1>3. /\ disk' \in {disk, mem'}
      /\ mem' \in {mem, InPhase(mem, "Active"), Remove(mem, "PacketSession"),
                   Remove(mem, "SystemProxy"), Remove(mem, job.kind), Finalized(mem)}
  BY DEF FinishApply, FinishOpen, FinishCommit, StartPacketPump, SessionClosed, SwitchStep,
         SwitchRecorded, SwitchDone, UndoSystemProxy, SystemProxyUndone,
         Save, Saved, SaveFailed
<1>4. mem'.op = mem.op BY <1>1, <1>3, OpKept
<1>5. CASE SwitchDone
  <2>1. job.pc = "switch" /\ job' \in {Todo(job, {"InterfaceConfiguration", "Dns"}), Idle}
    BY <1>5 DEF SwitchDone, Save
  <2>2. CASE job' = Todo(job, {"InterfaceConfiguration", "Dns"})
    <3>1. job'.h = "finalize" /\ job'.pc = "plan"
      BY <1>1, <2>1, <2>2, TodoFields DEF Guard, Forward
    <3>2. Onward BY <3>1 DEF Onward, Fresh
    <3>3. {mem'.op, disk'.op} \subseteq {mem.op, disk.op, None} BY <1>3, <1>4
    <3> QED BY <1>2, <3>2, <3>3, KeptDisarmed
  <2>3. CASE job' = Idle
    <3>1. job'.pc \in Elsewhere BY <2>3, EndsElsewhere
    <3> QED BY <1>2, <1>3, <1>4, <3>1, HandlerDisarmed
  <2> QED BY <2>1, <2>2, <2>3
<1>6. CASE ~SwitchDone
  <2>1. \/ job' \in {Idle, ApplyFailed, Goto("switch"), Goto("proxy_undone")}
        \/ \E k : job' = At("switched", k)
    BY <1>6 DEF FinishApply, FinishOpen, FinishCommit, StartPacketPump, SessionClosed,
           SwitchStep, SwitchRecorded, UndoSystemProxy, SystemProxyUndone, Save
  <2>2. {"switch", "switched", "proxy_undone"} \subseteq Elsewhere
    BY DEF Elsewhere, Labels, Applying, Fresh
  <2>3. job'.pc \in Elsewhere BY <1>1, <2>1, <2>2, EndsElsewhere, JobFields
  <2> QED BY <1>2, <1>3, <1>4, <2>3, HandlerDisarmed
<1> QED BY <1>5, <1>6

\* The pipe with the active lease ends.
LEMMA ReleaseDisarmed ==
    ASSUME IInv, Guard, Disarmed, StopPacketPump \/ LeaseReleased
    PROVE  Disarmed'
<1>1. mem \in Journal /\ job \in Job /\ epoch \in Nat BY DEF IInv, TypeOK
<1>2. mem' = mem /\ disk' \in {disk, mem'} /\ used' = used
  BY DEF StopPacketPump, LeaseReleased, Saved, SaveFailed, clients
<1>3. /\ job'.pc \in Elsewhere /\ epoch' \in {epoch, epoch + 1} /\ (lease' => lease)
  <2>1. /\ job' \in {Idle, Goto("closed"), Goto("detached")}
        /\ epoch' \in {epoch, epoch + 1} /\ (lease' => lease)
    BY DEF StopPacketPump, LeaseReleased, session
  <2>2. {"closed", "detached"} \subseteq Elsewhere BY DEF Elsewhere, Labels, Applying, Fresh
  <2> QED BY <1>1, <2>1, <2>2, EndsElsewhere, JobFields
<1>4. mem.op \in used \cup {None} BY DEF Disarmed
<1>5. \/ UNCHANGED watchdogs
      \/ epoch' = epoch /\ Arm(mem.op, epoch, "stale")
      \/ epoch' = epoch + 1 /\ Arm(mem.op, epoch + 1, "active") /\ ~lease'
  BY DEF StopPacketPump, LeaseReleased, session
<1>6. CASE UNCHANGED watchdogs BY <1>2, <1>3, <1>6, HandlerDisarmed
<1>7. CASE epoch' = epoch /\ Arm(mem.op, epoch, "stale")
  <2>1. epoch <= epoch' BY <1>1, <1>7
  <2> QED BY <1>1, <1>2, <1>3, <1>4, <1>7, <2>1, ArmDisarmed
<1>8. CASE epoch' = epoch + 1 /\ Arm(mem.op, epoch + 1, "active") /\ ~lease'
  <2>1. epoch + 1 \in Nat /\ epoch + 1 <= epoch' BY <1>1, <1>8
  <2> QED BY <1>2, <1>3, <1>4, <1>8, <2>1, ArmDisarmed
<1> QED BY <1>5, <1>6, <1>7, <1>8

LEMMA RecoveryDisarmed ==
    ASSUME IInv, Guard, Disarmed,
           \/ BeginRecovery \/ RestoreStep \/ MarkRestored \/ RestoreEnded
           \/ PublishClean \/ RequireRecovery \/ RetireDevice \/ RemoveDevice
           \/ RecordRetirement \/ BootRetire
    PROVE  Disarmed'
<1>1. mem \in Journal /\ job \in Job BY DEF IInv, TypeOK
<1>2. /\ UNCHANGED <<used, watchdogs>> /\ epoch' \in {epoch, epoch + 1} /\ (lease' => lease)
  BY DEF BeginRecovery, RestoreStep, MarkRestored, RestoreEnded, PublishClean, RequireRecovery,
         RetireDevice, RemoveDevice, RecordRetirement, BootRetire, session, clients
<1>3. /\ disk' \in {disk, mem'}
      /\ \/ mem' \in {mem, Disconnected(mem), CleanJournal, Mark(mem, job.kind, "Restored")}
         \/ \E p : mem' \in {InPhase(mem, p), WithDevice(mem, p)}
  <2>1. CASE BeginRecovery \/ RestoreStep \/ MarkRestored \/ RestoreEnded \/ RequireRecovery
    BY <2>1 DEF BeginRecovery, RestoreStep, MarkRestored, RestoreEnded, RequireRecovery,
                Save, Saved, SaveFailed
  <2>2. CASE PublishClean \/ RetireDevice \/ RemoveDevice \/ RecordRetirement \/ BootRetire
    BY <2>2 DEF PublishClean, RetireDevice, RemoveDevice, RecordRetirement, BootRetire,
                Saved, SaveFailed
  <2> QED BY <2>1, <2>2
<1>4. mem'.op \in {mem.op, None} BY <1>1, <1>3, OpKept
<1>5. job'.pc \in Elsewhere
  <2>1. {"restore", "mark", "clean", "required", "retire", "retired", "remove"}
          \subseteq Elsewhere
    BY DEF Elsewhere, Labels, Applying, Fresh
  <2>2. \A k : RestoreFailed(k).pc \in {"required", "restore"}
    BY <1>1 DEF RestoreFailed, Job
  <2>3. \/ job' \in {Done, Idle, Run("boot_retire", "retire", None)}
        \/ \E S : job' = Failures(S)
        \/ \E k : job' \in {At("mark", k), RestoreFailed(k)}
        \/ \E pc \in {"restore", "required", "clean", "retire", "retired", "remove"} :
              job' = Goto(pc)
    <3>1. CASE BeginRecovery \/ RestoreStep \/ MarkRestored \/ RestoreEnded \/ RequireRecovery
      BY <3>1 DEF BeginRecovery, RestoreStep, MarkRestored, RestoreEnded, RequireRecovery, Save
    <3>2. CASE PublishClean \/ RetireDevice \/ RemoveDevice \/ RecordRetirement \/ BootRetire
      BY <3>2 DEF PublishClean, RetireDevice, RemoveDevice, RecordRetirement, BootRetire
    <3> QED BY <3>1, <3>2
  <2> QED BY <1>1, <2>1, <2>2, <2>3, EndsElsewhere, JobFields, RunFields
<1> QED BY <1>2, <1>3, <1>4, <1>5, HandlerDisarmed

LEMMA RestartDisarmed ==
    ASSUME Disarmed, NEW lost, Restart(lost)
    PROVE  Disarmed'
<1>1. /\ mem' = disk /\ disk' = disk /\ used' = used /\ watchdogs' = {} /\ lease' = FALSE
      /\ job' = Run("boot", "boot", None)
  BY DEF Restart
<1>2. job'.pc = "boot" BY <1>1, RunFields
<1> QED BY <1>1, <1>2 DEF Disarmed, Timed, AllOlder, Applying, Fresh

\* A tunnel that is kept after a restart has a watchdog of epoch 0.
LEMMA BootDisarmed ==
    ASSUME IInv, Guard, Disarmed, Boot
    PROVE  Disarmed'
<1>1. mem \in Journal /\ job \in Job /\ epoch \in Nat BY DEF IInv, TypeOK
<1>2. /\ job.pc = "boot" /\ UNCHANGED <<used, epoch, lease>> /\ disk' \in {disk, mem'}
      /\ mem' \in {mem, Disconnected(mem), InPhase(mem, "RecoveryRequired")}
      /\ job' \in {Goto("boot_retire"), Goto("recover")}
      /\ UNCHANGED watchdogs \/ Arm(mem.op, 0, "active")
  BY DEF Boot, Reconciled, RetainActive, Saved, session
<1>3. mem'.op \in {mem.op, None} BY <1>1, <1>2, OpKept
<1>4. job'.pc \in Elsewhere
  <2>1. {"boot_retire", "recover"} \subseteq Elsewhere
    BY DEF Elsewhere, Labels, Applying, Fresh
  <2> QED BY <1>1, <1>2, <2>1, JobFields
<1>5. CASE UNCHANGED watchdogs BY <1>2, <1>3, <1>4, <1>5, HandlerDisarmed
<1>6. CASE Arm(mem.op, 0, "active")
  <2>1. mem.op \in used \cup {None} /\ ~lease' BY <1>2 DEF Disarmed
  <2>2. 0 \in Nat /\ 0 <= epoch' BY <1>1, <1>2
  <2>3. {mem'.op, disk'.op} \subseteq {mem.op, disk.op, None} BY <1>2, <1>3
  <2> QED BY <1>2, <1>4, <1>6, <2>1, <2>2, <2>3, ArmDisarmed
<1> QED BY <1>2, <1>5, <1>6

LEMMA InitDisarmed == Init => Disarmed
<1> SUFFICES ASSUME Init PROVE Disarmed OBVIOUS
<1>1. /\ mem.op = None /\ disk.op = None /\ watchdogs = {} /\ lease = FALSE
      /\ job.pc = "idle"
  BY DEF Init, CleanJournal, Idle
<1> QED BY <1>1 DEF Disarmed, Timed, AllOlder, Applying, Fresh

LEMMA RequestDisarmed ==
    ASSUME IInv, Guard, Disarmed, Request
    PROVE  Disarmed'
<1>1. PICK e \in Engines :
        \/ TunnelRequest(e) \/ LeaseRequest(e) \/ ChainRequest(e) \/ ProxyRequest(e)
  BY DEF Request
<1>2. CASE TunnelRequest(e)
  BY <1>2, PrepareManagedDisarmed, AskedDisarmed, RequestsDisarmed, DevicesDisarmed
     DEF TunnelRequest
<1>3. CASE LeaseRequest(e)
  BY <1>3, RequestsDisarmed, FinalizeTunnelDisarmed, AcquireTunnelLeaseDisarmed
     DEF LeaseRequest
<1>4. CASE ChainRequest(e)
  BY <1>4, BeginChainDisarmed, FinalizeTunnelDisarmed DEF ChainRequest
<1>5. CASE ProxyRequest(e)
  BY <1>5, AskedDisarmed, RequestsDisarmed, StartSystemProxyDisarmed DEF ProxyRequest
<1> QED BY <1>1, <1>2, <1>3, <1>4, <1>5

LEMMA StepDisarmed == IInv /\ Guard /\ Disarmed /\ [Next]_vars => Disarmed'
<1> SUFFICES ASSUME IInv, Guard, Disarmed, [Next]_vars PROVE Disarmed' OBVIOUS
<1>1. CASE ProcessEnd
  BY <1>1, RestartDisarmed, EventsDisarmed DEF ProcessEnd, Crash, Reboot, IdleExit
<1>2. CASE Event
  <2>1. CASE RecoveryRequest
    <3>1. ASSUME NEW e \in Engines, RecoverOrphaned(e) PROVE Disarmed'
      BY <3>1, RequestsDisarmed
    <3> QED BY <2>1, <3>1, EventsDisarmed DEF RecoveryRequest
  <2>2. CASE ~RecoveryRequest
    BY <1>2, <2>2, EventsDisarmed, DevicesDisarmed, StartupPipeEndsDisarmed DEF Event
  <2> QED BY <2>1, <2>2
<1>3. CASE Wait \/ UNCHANGED vars
  BY <1>3, UnmovedDisarmed DEF Wait, vars
<1>4. CASE HandlerStep
  BY <1>4, ApplyDisarmed, CreationDisarmed, BeginTransactionDisarmed, FinishPrepareDisarmed,
     FinishChainDisarmed, FinishDisarmed, ReleaseDisarmed, RecoveryDisarmed, BootDisarmed
     DEF HandlerStep
<1> QED BY <1>1, <1>2, <1>3, <1>4, RequestDisarmed DEF Next

\* A superseded watchdog is of an older epoch, and fires only in its own.
LEMMA SupersededIsQuiet ==
    ASSUME IInv, Disarmed, NEW w \in watchdogs, w.superseded, w.lease # "stale",
           WatchdogFires(w)
    PROVE  job'.pc # "recover"
<1>1. w \in Timed BY DEF Timed
<1>2. w.epoch < epoch /\ w.epoch \in Nat /\ epoch \in Nat
  BY <1>1 DEF Disarmed, IInv, TypeOK, Watchdog
<1>3. w.epoch # epoch BY <1>2
<1>4. ~Orphaned(w) BY <1>3 DEF Orphaned
<1>5. job' = Idle BY <1>4 DEF WatchdogFires
<1> QED BY <1>5 DEF Idle

\* An orphan watchdog that was armed before a pipe took a lease on the operation
\* never starts a recovery ("The operation ID and epoch prevent stale watchdogs
\* from rolling back a newer transaction", coordinator.rs release_startup_tunnel_lease,
\* acquire_tunnel_lease, begin_chain_transition).
THEOREM LaterLeasesDisarm == Spec => LaterLeaseDisarms
<1>1. Spec => []Disarmed
  BY InitDisarmed, StepDisarmed, GuardInvariance, Invariance, PTL DEF Spec
<1>2. IInv /\ Disarmed /\ [Next]_vars =>
        [\A w \in watchdogs : w.superseded /\ w.lease # "stale" =>
            ~(WatchdogFires(w) /\ job'.pc = "recover")]_vars
  BY SupersededIsQuiet
<1> QED BY <1>1, <1>2, Invariance, PTL DEF Spec, LaterLeaseDisarms
=============================================================================
