---------------------------- MODULE AppImageUpdate ----------------------------
(***************************************************************************)
(* An AppImage update (replace_appimage in usque-update/src/linux.rs) with  *)
(* the privileged helper it starts.  The unprivileged updater replaces the  *)
(* user's AppImage first, then asks the helper for the service, and follows *)
(* the helper's exit code: keep, restore, or keep both when the answer is   *)
(* uncertain.                                                               *)
(***************************************************************************)
EXTENDS UpdateTransaction

CONSTANT MaxUpdates  \* bound: updates started

VARIABLES
  gui, guiDisk,   \* the AppImage's name, visible and durable
  backup,         \* previous.AppImage, a hard link in the updater's staging
  updater,        \* "idle", or the updater's next step, or its answer
  ours,           \* the running helper is the updater's child
  told,           \* the exit code the updater has waited for
  updates

guiVars == <<gui, guiDisk, backup, updater, ours, told, updates>>
allVars == <<vars, guiVars>>

Answers == {"idle", "ok", "failed", "kept"}

InitUpdate ==
  /\ Init /\ gui = "old" /\ guiDisk = "old" /\ backup = "old"
  /\ updater = "idle" /\ ours = FALSE /\ told = "none" /\ updates = 0

\* Staging and extraction, whose errors change nothing, then the hard link.
\* No second updater starts while a helper of the first still runs.
Link ==
  /\ updater \in Answers /\ ~ours /\ updates < MaxUpdates /\ updates' = updates + 1
  /\ backup' = gui /\ updater' = "rename" /\ told' = "none"
  /\ UNCHANGED <<vars, gui, guiDisk, ours>>

Rename ==
  /\ updater = "rename" /\ gui' = "new" /\ updater' = "sync"
  /\ UNCHANGED <<vars, guiDisk, backup, ours, told, updates>>

\* The replacement is confirmed before the service is touched.  Whether there
\* is one was read from the record when the update began.
SyncReplacement ==
  /\ updater = "sync"
  /\ \/ /\ guiDisk' = gui /\ UNCHANGED faults
        /\ updater' = IF visible["record"] = "none" THEN "ok" ELSE "spawn"
     \/ /\ faults < MaxFaults /\ faults' = faults + 1
        /\ updater' = "restore" /\ UNCHANGED guiDisk
  /\ UNCHANGED <<files, unit, helper, transactions, kills, losses, edits,
                 gui, backup, ours, told, updates>>

\* pkexec: the user refuses, another helper has the lock, or the helper runs.
Spawn ==
  /\ updater = "spawn" /\ UNCHANGED <<gui, guiDisk, backup, told, updates>>
  /\ \/ updater' = "restore" /\ UNCHANGED <<vars, ours>>
     \/ phase = "idle" /\ Start("install") /\ ours' = TRUE /\ updater' = "wait"

WaitTakesSignalForFailure ==
  /\ updater = "wait" /\ UNCHANGED <<vars, gui, guiDisk, backup, ours, told, updates>>
  /\ \/ told = "ok" /\ updater' = "ok"
     \/ told \in {"failed", "killed"} /\ updater' = "restore"
     \/ told \in {"none", "uncertain"} /\ updater' = "kept"

WaitTakesUncertainForOk ==
  /\ updater = "wait" /\ UNCHANGED <<vars, gui, guiDisk, backup, ours, told, updates>>
  /\ \/ told \in {"ok", "uncertain"} /\ updater' = "ok"
     \/ told = "failed" /\ updater' = "restore"
     \/ told \in {"none", "killed"} /\ updater' = "kept"

\* service_update_result, or a wait that fails while the helper goes on.
Wait ==
  /\ updater = "wait" /\ UNCHANGED <<vars, gui, guiDisk, backup, ours, told, updates>>
  /\ \/ told = "ok" /\ updater' = "ok"
     \/ told = "failed" /\ updater' = "restore"
     \/ told \in {"uncertain", "killed"} /\ updater' = "kept"
     \/ told = "none" /\ updater' = "kept"

\* finish_appimage_replacement: the previous AppImage's name, then its sync.
RestoreGui ==
  /\ updater = "restore"
  /\ \/ gui' = backup /\ updater' = "syncRestored" /\ UNCHANGED faults
     \/ /\ faults < MaxFaults /\ faults' = faults + 1
        /\ updater' = "kept" /\ UNCHANGED gui
  /\ UNCHANGED <<files, unit, helper, transactions, kills, losses, edits,
                 guiDisk, backup, ours, told, updates>>

\* A failed sync is uncertain; a directory that cannot be opened is returned.
SyncRestored ==
  /\ updater = "syncRestored"
  /\ \/ guiDisk' = gui /\ updater' = "failed" /\ UNCHANGED faults
     \/ /\ faults < MaxFaults /\ faults' = faults + 1
        /\ updater' \in {"kept", "failed"} /\ UNCHANGED guiDisk
  /\ UNCHANGED <<files, unit, helper, transactions, kills, losses, edits,
                 gui, backup, ours, told, updates>>

UpdaterStep == \/ Rename \/ SyncReplacement \/ Spawn \/ Wait \/ RestoreGui \/ SyncRestored

\* The updater dies; its helper, a root process, goes on.
KillUpdater ==
  /\ updater \notin Answers /\ kills < MaxKills /\ kills' = kills + 1
  /\ updater' = "idle"
  /\ UNCHANGED <<files, unit, helper, transactions, faults, losses, edits,
                 gui, guiDisk, backup, ours, told, updates>>

\* The parent of a helper that ends learns its code.
Reap ==
  /\ IF ours /\ phase # "idle" /\ phase' = "idle"
     THEN told' = exit' /\ ours' = FALSE ELSE UNCHANGED <<told, ours>>
  /\ UNCHANGED <<gui, guiDisk, backup, updater, updates>>

LoseGui ==
  /\ gui' \in {gui, guiDisk} /\ guiDisk' = gui' /\ ours' = FALSE
  /\ updater' = "idle"
  /\ UNCHANGED <<backup, told, updates>>

NextUpdate ==
  \/ (\E op \in Operations : Start(op)) /\ UNCHANGED guiVars
  \/ (HelperStep \/ Kill) /\ Reap
  \/ (ComeUp \/ Edit) /\ UNCHANGED guiVars
  \/ PowerLoss /\ LoseGui
  \/ Link \/ UpdaterStep \/ KillUpdater

SpecUpdate == InitUpdate /\ [][NextUpdate]_allVars

-----------------------------------------------------------------------------

\* A newer root service is never paired with an older AppImage: not once a
\* transaction is decided, and not on the disk a power loss leaves
\* (replace_appimage confirms its rename before the service is touched, and
\* restores only after a confirmed rollback).
ServiceNotAheadOfGui == edits = 0 =>
  /\ visible["agent"] = "new" /\ Settled(journal) => gui = "new" /\ guiDisk = "new"
  /\ durable["agent"] = "new" /\ Settled(onDisk) => guiDisk = "new"

\* What the updater answers is the pair the user has: both new and durable
\* once no helper works on the service, or the AppImage of before
\* (service_update_result reads the helper's exit code,
\* finish_appimage_replacement follows it).
AnswerMatchesPair == edits = 0 =>
  /\ updater = "ok" => gui = "new" /\ guiDisk = "new"
  /\ updater = "ok" /\ told # "none" /\ phase = "idle" /\ Settled(journal) =>
       visible["agent"] \in {"new", "none"} /\ durable = visible
  /\ updater = "failed" => gui = backup

\* The AppImage and the service agree, on the disk and in the answer.
PairIsConsistent == ServiceNotAheadOfGui /\ AnswerMatchesPair
=============================================================================
