-------------------------- MODULE UpdateTransaction --------------------------
(***************************************************************************)
(* The write-ahead file transaction of the Linux maintenance helper         *)
(* (usque-update/src/linux.rs and linux/transaction.rs).                    *)
(*                                                                          *)
(* A helper runs as root under an exclusive lock.  It first recovers an     *)
(* interrupted transaction, then performs one operation.  What it does is   *)
(* a program: a sequence of instructions, each one system call or command   *)
(* that a fault, a kill or a power loss can separate from the next.  Every  *)
(* name in a directory has a visible and a durable value: a rename changes  *)
(* the first, the directory's fsync copies it to the second, and a power    *)
(* loss leaves any mixture of both.                                         *)
(***************************************************************************)
EXTENDS Naturals, Sequences, Functions

CONSTANTS
  Operations,      \* the operations helpers are started with
  InitialFiles,    \* the version installed first: "old" or "none"
  InitialEnabled,  \* the unit is enabled first
  InitialActive,   \* the service runs first
  MaxTransactions, \* bound: transactions begun
  MaxFaults,       \* bound: failing system calls and commands
  MaxKills,        \* bound: helpers killed
  MaxLosses,       \* bound: power losses
  MaxEdits         \* bound: edits of an administrator

ASSUME UpdateAssumption ==
  /\ Operations \subseteq {"install", "remove", "repair", "disable", "prepare", "package"}
  /\ InitialFiles \in {"none", "old"} /\ {InitialEnabled, InitialActive} \subseteq BOOLEAN
  /\ InitialFiles = "none" => ~InitialEnabled
  /\ {MaxTransactions, MaxFaults, MaxKills, MaxLosses, MaxEdits} \subseteq Nat

VARIABLES
  visible, durable,   \* service files, by name
  journal, onDisk,    \* service-transaction.json, visible and durable
  stages, stagesDisk, \* the private staging directories, by transaction
  backups,            \* <<transaction, index>> of every backup, synced
  enabled, wanted, running, \* the unit in systemd
  phase,              \* what the helper does: "idle", "recover", "work", "undo",
                      \* "restore", "seal" or "settle"
  program,            \* the instructions it has left
  memory,             \* its Transaction's journal
  failed,             \* the flag of recover
  finishing,          \* recover was called by finish_operation
  operation,          \* its command line
  exit,               \* how the last helper ended
  before,             \* files and enablement when the operation began
  transactions, faults, kills, losses, edits

files == <<visible, durable, journal, onDisk, stages, stagesDisk, backups>>
unit == <<enabled, wanted, running>>
helper == <<phase, program, memory, failed, finishing, operation, exit, before>>
counters == <<transactions, faults, kills, losses, edits>>
vars == <<files, unit, helper, counters>>

-----------------------------------------------------------------------------
(* The service files.  "agent" stands for the executables and the policy,   *)
(* "record" for the installation record.                                    *)

Files == {"agent", "unit", "record"}
Versions == {"none", "old", "new", "edited"}
NoJournal == [stage |-> 0]
-----------------------------------------------------------------------------
(* Instructions.                                                            *)

Do(k) == [do |-> k]
Mark(names) == [do |-> "save", marks |-> names]
Save(names) == <<Mark(names), Do("sync")>>
Enable(b) == [do |-> "enable", to |-> b]
PrepareRemove == <<Do("stop"), Do("recoverState")>>
EnableNow == <<Enable(TRUE), Do("start")>>
Commit == Save({"complete"}) \o <<Do("clean")>>

PublishBeforeSync(f, version) ==
  <<[do |-> "intent", name |-> f, to |-> version],
    [do |-> "put", name |-> f, to |-> version], Do("sync"),
    [do |-> "syncFile", name |-> f]>>

\* One file's durable intent, and its replacement or removal.
Publish(f, version) ==
  <<[do |-> "intent", name |-> f, to |-> version], Do("sync"),
    [do |-> "put", name |-> f, to |-> version],
    [do |-> "syncFile", name |-> f]>>

\* In the order of SERVICE_FILES, with the record last.
PublishAll(version) ==
  Publish("agent", version) \o Publish("unit", version) \o Publish("record", version)

BeforeStart == Save({"start_attempted", "enablement_attempted"})
BeforeEnablement == Save({"enablement_attempted"})
Begin == <<Do("begin"), Do("published")>>

\* Instructions that precede the operation's closure: an error returns.
Preparing == {"validate", "begin", "published"}

\* install_service and maintain_existing; a package manager's transaction is
\* its own, the helper only recovers first.
Program(op) ==
  CASE op = "install" ->
         Begin \o (IF visible["record"] = "none" THEN <<>> ELSE PrepareRemove)
           \o PublishAll("new") \o <<Do("reload")>> \o BeforeStart \o EnableNow \o Commit
    [] op = "remove" ->
         Begin \o PrepareRemove \o BeforeEnablement \o <<Enable(FALSE)>>
           \o PublishAll("none") \o <<Do("reload")>> \o Commit
    [] op = "repair" ->
         <<Do("validate")>> \o Begin \o PrepareRemove \o <<Do("reload")>> \o BeforeStart \o EnableNow \o Commit
    [] op = "disable" ->
         Begin \o PrepareRemove \o BeforeEnablement \o <<Enable(FALSE)>> \o Commit
    [] op = "prepare" -> Begin \o PrepareRemove \o Commit
    [] op = "package" -> <<>>

\* recover: what precedes the restoration, and every error of which returns.
UndoProgram(j) ==
  (IF j.start_attempted /\ ~j.candidate_stopped
   THEN PrepareRemove \o Save({"candidate_stopped"}) ELSE <<>>)
  \o (IF j.enablement_attempted /\ ~j.previousEnabled /\ ~j.enablement_reverted
      THEN <<Enable(FALSE)>> \o Save({"enablement_reverted"}) ELSE <<>>)

\* recover: the restoration in reverse, whose errors are collected.
RestoreProgram(j) ==
  [k \in 1 .. 2 * Len(j.changes) |->
     LET i == Len(j.changes) - (k - 1) \div 2
     IN IF k % 2 = 1 THEN [do |-> "restore", index |-> i]
        ELSE [do |-> "syncFile", name |-> j.changes[i].name]]
  \o <<Do("reload")>>
  \o (IF j.enablement_attempted /\ j.previousEnabled THEN <<Enable(TRUE)>> ELSE <<>>)

StartPrevious == <<Do("recoverState"), Do("start")>>

-----------------------------------------------------------------------------
(* systemd and the Agent, from how the helper uses them.                    *)

\* CallerPolicy::load: the Agent runs on one version of files and record.
Consistent == /\ visible["agent"] \in {"old", "new"}
              /\ visible["record"] = visible["agent"]

\* Bytes that are neither of a change's recorded versions.
AcceptsAnything(c) == FALSE
Unknown(c) == visible[c.name] \notin {c.prior, c.candidate}

\* systemctl needs the unit file; --recover-state needs the executable and
\* the Agent's lock, which a running service holds.
Impossible(op) ==
  CASE op.do \in {"stop", "start", "enable"} -> visible["unit"] = "none"
    [] op.do = "recoverState" -> visible["agent"] = "none" \/ running
    [] op.do = "validate" -> ~Consistent
    [] op.do = "begin" -> journal # NoJournal
    [] op.do = "intent" -> visible[op.name] # "none" /\ ~memory.replacing
    [] op.do = "restore" ->
         LET c == memory.changes[op.index]
         IN /\ visible[c.name] # c.prior
            /\ \/ Unknown(c)
               \/ c.prior # "none" /\ <<memory.stage, op.index>> \notin backups
    [] OTHER -> FALSE

Init ==
  /\ visible = [f \in Files |-> InitialFiles] /\ durable = visible
  /\ journal = NoJournal /\ onDisk = NoJournal
  /\ stages = {} /\ stagesDisk = {} /\ backups = {}
  /\ enabled = InitialEnabled /\ wanted = InitialActive /\ running = InitialActive
  /\ phase = "idle" /\ program = <<>> /\ memory = NoJournal /\ failed = FALSE
  /\ finishing = FALSE /\ operation = "package" /\ exit = "none"
  /\ before = [files |-> visible, enabled |-> enabled]
  /\ transactions = 0 /\ faults = 0 /\ kills = 0 /\ losses = 0 /\ edits = 0

-----------------------------------------------------------------------------
(* The helper.                                                              *)

Op == Head(program)
At(k) == /\ program # <<>> /\ Op.do = k /\ ~Impossible(Op)
Advance == program' = Tail(program)
HelperRest == UNCHANGED <<phase, failed, finishing, operation, exit, before>>
StoppedWith(code) ==
  /\ phase' = "idle" /\ program' = <<>> /\ memory' = NoJournal /\ failed' = FALSE
  /\ exit' = code /\ UNCHANGED <<finishing, operation, before>>

\* run: the lock, then recovery.
Start(op) ==
  /\ phase = "idle" /\ (op = "package" \/ transactions < MaxTransactions)
  /\ phase' = "recover" /\ program' = <<>> /\ finishing' = FALSE
  /\ operation' = op /\ exit' = "none"
  /\ UNCHANGED <<files, unit, memory, failed, before, counters>>

\* The operation itself, once recovery has answered.  Repair and removal need
\* the record.
Work ==
  /\ memory' = NoJournal /\ before' = [files |-> visible, enabled |-> enabled]
  /\ UNCHANGED <<failed, finishing, operation>>
  /\ IF operation \notin {"install", "package"} /\ visible["record"] = "none"
     THEN phase' = "idle" /\ program' = <<>> /\ exit' = "failed"
     ELSE phase' = "work" /\ program' = Program(operation) /\ UNCHANGED exit

\* recover_with_retry_sync: the journal decides.
Load ==
  /\ phase = "recover" /\ UNCHANGED <<files, unit, counters>>
  /\ \/ /\ journal = NoJournal /\ ~finishing /\ Work
     \/ /\ journal = NoJournal /\ finishing /\ StoppedWith("uncertain")
     \/ /\ journal # NoJournal /\ memory' = journal /\ failed' = FALSE
        /\ \/ /\ journal.complete /\ phase' = "settle"
              /\ program' = <<Do("sync"), Do("clean")>>
           \/ /\ ~journal.complete /\ phase' = "undo"
              /\ program' = UndoProgram(journal)
        /\ UNCHANGED <<finishing, operation, exit, before>>

\* Store::begin: the staging directory and the first journal's rename.
Open ==
  /\ At("begin") /\ transactions < MaxTransactions
  /\ transactions' = transactions + 1
  /\ memory' = [stage |-> transactions + 1,
                replacing |-> visible["record"] # "none",
                previousActive |-> visible["record"] # "none" /\ running,
                previousEnabled |-> visible["record"] # "none" /\ enabled,
                start_attempted |-> FALSE, enablement_attempted |-> FALSE,
                candidate_stopped |-> FALSE, enablement_reverted |-> FALSE,
                complete |-> FALSE, rolled_back |-> FALSE, changes |-> <<>>]
  /\ journal' = memory' /\ stages' = stages \cup {transactions + 1}
  /\ Advance /\ HelperRest
  /\ UNCHANGED <<visible, durable, onDisk, stagesDisk, backups, unit,
                 faults, kills, losses, edits>>

\* The flags that a save sets.
Marked(j, marks) ==
  [j EXCEPT !.start_attempted = @ \/ "start_attempted" \in marks,
            !.enablement_attempted = @ \/ "enablement_attempted" \in marks,
            !.candidate_stopped = @ \/ "candidate_stopped" \in marks,
            !.enablement_reverted = @ \/ "enablement_reverted" \in marks,
            !.complete = @ \/ "complete" \in marks,
            !.rolled_back = @ \/ "rolled_back" \in marks]

\* Store::save up to its rename.
SaveRename ==
  /\ At("save") /\ memory' = Marked(memory, Op.marks)
  /\ journal' = memory' /\ Advance /\ HelperRest
  /\ UNCHANGED <<visible, durable, onDisk, stages, stagesDisk, backups, unit, counters>>

\* The fsync of the staging directory: save's last step, and settle's first.
SyncBase ==
  /\ At("sync") \/ At("published")
  /\ onDisk' = journal /\ stagesDisk' = stages
  /\ Advance /\ HelperRest
  /\ UNCHANGED <<visible, durable, journal, stages, backups, unit, memory, counters>>

\* Transaction::intent: the backup, durable first, and the journal's rename.
Intent ==
  /\ At("intent")
  /\ LET prior == visible[Op.name]
     IN /\ backups' = IF prior = "none" THEN backups
                      ELSE backups \cup {<<memory.stage, Len(memory.changes) + 1>>}
        /\ memory' = [memory EXCEPT !.changes =
             Append(@, [name |-> Op.name, prior |-> prior, candidate |-> Op.to])]
  /\ journal' = memory' /\ Advance /\ HelperRest
  /\ UNCHANGED <<visible, durable, onDisk, stages, stagesDisk, unit, counters>>

\* atomic_copy and remove_file up to the rename or the unlink.
Put ==
  /\ At("put") /\ visible' = [visible EXCEPT ![Op.name] = Op.to]
  /\ Advance /\ HelperRest
  /\ UNCHANGED <<durable, journal, onDisk, stages, stagesDisk, backups, unit,
                 memory, counters>>

SyncFileOnlyWhenWorking ==
  /\ At("syncFile")
  /\ durable' = IF phase = "work" THEN [durable EXCEPT ![Op.name] = visible[Op.name]]
                ELSE durable
  /\ Advance /\ HelperRest
  /\ UNCHANGED <<visible, journal, onDisk, stages, stagesDisk, backups, unit,
                 memory, counters>>

\* The fsync of a service file's directory: atomic_copy's and remove's last
\* step, and what recovery repeats for a file it finds restored.
SyncFile ==
  /\ At("syncFile") /\ durable' = [durable EXCEPT ![Op.name] = visible[Op.name]]
  /\ Advance /\ HelperRest
  /\ UNCHANGED <<visible, journal, onDisk, stages, stagesDisk, backups, unit,
                 memory, counters>>

\* One change of the restoration: a file already restored is only synced.
Restore ==
  /\ At("restore")
  /\ LET c == memory.changes[Op.index]
     IN visible' = [visible EXCEPT ![c.name] = c.prior]
  /\ Advance /\ HelperRest
  /\ UNCHANGED <<durable, journal, onDisk, stages, stagesDisk, backups, unit,
                 memory, counters>>

\* Commands.  A started Agent that finds files of two versions ends.
Command ==
  /\ \/ At("stop") /\ wanted' = FALSE /\ running' = FALSE /\ UNCHANGED enabled
     \/ At("start") /\ wanted' = TRUE /\ running' = Consistent /\ UNCHANGED enabled
     \/ At("enable") /\ enabled' = Op.to /\ UNCHANGED <<wanted, running>>
     \/ (At("validate") \/ At("recoverState") \/ At("reload")) /\ UNCHANGED unit
  /\ Advance /\ HelperRest /\ UNCHANGED <<files, memory, counters>>

\* finish: the staging directory, then the journal; an error ends it early
\* and is only logged.
Clean ==
  /\ At("clean")
  /\ \/ /\ stages' = stages \ {memory.stage} /\ journal' = NoJournal
        /\ onDisk' = NoJournal /\ stagesDisk' = stages' /\ UNCHANGED faults
     \/ /\ faults < MaxFaults /\ faults' = faults + 1
        /\ \/ stages' = stages /\ journal' = journal
           \/ stages' = stages \ {memory.stage} /\ journal' \in {journal, NoJournal}
        /\ UNCHANGED <<onDisk, stagesDisk>>
  /\ backups' = {b \in backups : b[1] # memory.stage \/ memory.stage \in stages'}
  /\ Advance /\ HelperRest
  /\ UNCHANGED <<visible, durable, unit, memory, transactions, kills, losses, edits>>

\* Never restart mixed or externally edited executable state.
RestartsAnyway == TRUE
MayRestart == ~failed

\* The end of a phase.
Ended ==
  /\ phase \notin {"idle", "recover"} /\ program = <<>>
  /\ UNCHANGED <<files, unit, counters>>
  /\ \/ phase = "work" /\ StoppedWith("ok")
     \/ /\ phase = "undo" /\ phase' = "restore" /\ program' = RestoreProgram(memory)
        /\ UNCHANGED <<memory, failed, finishing, operation, exit, before>>
     \/ /\ phase = "restore" /\ ~MayRestart /\ StoppedWith("uncertain")
     \/ /\ phase = "restore" /\ MayRestart /\ phase' = "seal"
        /\ program' = (IF memory.previousActive THEN StartPrevious ELSE <<>>)
                       \o Save({"rolled_back", "complete"}) \o <<Do("clean")>>
        /\ UNCHANGED <<memory, failed, finishing, operation, exit, before>>
     \/ /\ phase \in {"seal", "settle"} /\ ~finishing /\ Work
     \/ /\ phase \in {"seal", "settle"} /\ finishing
        /\ StoppedWith(IF memory.rolled_back THEN "failed" ELSE "ok")

\* An instruction that cannot succeed, or a fault: collected while restoring,
\* answered by recovery inside an operation, returned otherwise.
Fail ==
  /\ program # <<>> /\ Op.do # "clean"
  /\ \/ Impossible(Op) /\ UNCHANGED faults
     \/ faults < MaxFaults /\ faults' = faults + 1
  /\ \/ /\ phase = "restore" /\ failed' = TRUE
        /\ program' = IF Op.do = "restore" THEN Tail(Tail(program)) ELSE Tail(program)
        /\ UNCHANGED <<phase, memory, finishing, operation, exit, before>>
     \/ /\ phase = "work" /\ Op.do \in Preparing
        /\ StoppedWith(IF Op.do = "begin" /\ journal # NoJournal THEN "uncertain" ELSE "failed")
     \/ /\ phase = "work" /\ Op.do \notin Preparing
        /\ phase' = "recover" /\ program' = <<>> /\ memory' = NoJournal
        /\ finishing' = TRUE /\ UNCHANGED <<failed, operation, exit, before>>
     \/ phase \in {"undo", "seal", "settle"} /\ StoppedWith("uncertain")
  /\ UNCHANGED <<files, unit, transactions, kills, losses, edits>>

\* A signal ends the helper between two instructions.
Kill ==
  /\ phase # "idle" /\ kills < MaxKills /\ kills' = kills + 1
  /\ StoppedWith("killed") /\ UNCHANGED <<files, unit, transactions, faults, losses, edits>>

HelperStep == \/ Load \/ Open \/ SaveRename \/ SyncBase \/ Intent \/ Put \/ SyncFile
              \/ Restore \/ Command \/ Clean \/ Ended \/ Fail

-----------------------------------------------------------------------------
(* The rest of the machine.                                                 *)

Settled(j) == j # NoJournal => j.complete

\* After a power loss every name is what was renamed or what was synced; only
\* a journal does not survive the creation, just before it in the same
\* directory, of its stage.  systemd starts an enabled unit.
PowerLoss ==
  /\ losses < MaxLosses /\ losses' = losses + 1
  /\ visible' \in {v \in [Files -> Versions] : \A f \in Files : v[f] \in {visible[f], durable[f]}}
  /\ durable' = visible'
  /\ journal' \in {journal, onDisk} /\ onDisk' = journal'
  /\ stages' \in {stages, stagesDisk} /\ stagesDisk' = stages'
  /\ ~Settled(journal') => journal'.stage \in stages'
  /\ backups' = {b \in backups : b[1] \in stages'}
  /\ running' = FALSE /\ wanted' = (enabled /\ visible'["unit"] # "none")
  /\ IF phase = "idle" THEN UNCHANGED helper ELSE StoppedWith("killed")
  /\ UNCHANGED <<enabled, transactions, faults, kills, edits>>

\* Restart=on-failure, or the boot: a wanted Agent runs once its files agree.
ComeUp ==
  /\ wanted /\ ~running /\ Consistent /\ running' = TRUE
  /\ UNCHANGED <<files, enabled, wanted, helper, counters>>

\* An administrator changes a file while a transaction waits for recovery (at
\* other times the edit is only another prior version).
Edit ==
  /\ phase = "idle" /\ ~Settled(journal) /\ edits < MaxEdits /\ edits' = edits + 1
  /\ \E f \in Files : /\ visible' = [visible EXCEPT ![f] = "edited"]
                       /\ durable' = [durable EXCEPT ![f] = "edited"]
  /\ UNCHANGED <<journal, onDisk, stages, stagesDisk, backups, unit, helper,
                 transactions, faults, kills, losses>>

-----------------------------------------------------------------------------
(* Properties.                                                              *)

Target == CASE operation = "install" -> [f \in Files |-> "new"]
            [] operation = "remove" -> [f \in Files |-> "none"]
            [] OTHER -> before.files

\* What a helper reports is what a power loss cannot take back: success is the
\* candidate on the disk and a decision to keep it, a plain failure the files
\* and the enablement of before (exit_code, finish_operation, settle's sync).
ReportIsDurable ==
  edits = 0 =>
    /\ exit = "ok" => /\ visible = Target /\ durable = Target
                      /\ Settled(journal) /\ Settled(onDisk)
    /\ exit = "failed" => /\ visible = before.files /\ durable = before.files
                          /\ enabled = before.enabled
                          /\ Settled(journal) \/ journal.changes = <<>>
                          /\ Settled(onDisk) \/ onDisk.changes = <<>>

Changes == IF memory = NoJournal THEN {} ELSE Range(memory.changes)

\* A helper starts the service on the candidates or on the prior files, never
\* on a mixture or on bytes it does not know (recover's failed flag).
NeverStartsMixed ==
  [][wanted' /\ ~wanted /\ losses' = losses =>
       \/ \A c \in Changes : visible[c.name] = c.candidate
       \/ \A c \in Changes : visible[c.name] = c.prior]_vars

\* Recovery never overwrites bytes which differ from both recorded versions.
RecoveryKeepsEdits ==
  [][(phase \in {"undo", "restore", "seal", "settle"}) =>
       (\A c \in Changes : visible[c.name] \in {c.prior, c.candidate}
                            \/ visible'[c.name] = visible[c.name])]_vars

\* Neither recovery nor the start of the service acts on bytes of a recorded
\* change that are neither of the versions the journal records for it.
ActsOnKnownFiles == NeverStartsMixed /\ RecoveryKeepsEdits

\* With a journal that is not decided, visible or on the disk, every file is
\* one of the two versions its intent names and its backup is there, and a
\* file without an intent is what it was (the intent is durable before the
\* replacement, the backup before the intent).
IntentCoversFiles ==
  \A j \in {journal, onDisk} : ~Settled(j) /\ edits = 0 =>
    /\ j.stage \in stages
    /\ \A i \in DOMAIN j.changes :
         LET c == j.changes[i]
         IN /\ {visible[c.name], durable[c.name]} \subseteq {c.prior, c.candidate}
            /\ c.prior # "none" => <<j.stage, i>> \in backups
    /\ \A f \in Files \ {c.name : c \in Range(j.changes)} :
         {visible[f], durable[f]} = {before.files[f]}

=============================================================================
