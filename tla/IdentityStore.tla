----------------------------- MODULE IdentityStore -----------------------------
(***************************************************************************)
(* The Engine's identity transactions (usque-engine/src/lib.rs): accounts   *)
(* and pending work in the configuration file, secrets in the platform's    *)
(* vault, a licence at the registration service.  Creating, replacing and   *)
(* deleting an identity, clearing all data and the recovery at start are    *)
(* programs of single vault calls and configuration saves; the process may  *)
(* die between any two, and the vault may be unavailable for a while.       *)
(*                                                                          *)
(* The identity lease and mutation_lock serialise the programs, so there is *)
(* one handler.  A slot of the vault holds the first and the last record    *)
(* that persist_identity writes: enough for missing and mixed ones.         *)
(***************************************************************************)
EXTENDS Naturals, Sequences, FiniteSets

CONSTANTS
    Accounts, Backups, Identities,   \* account ids, backup ids, registrations
    First, Old,      \* DEFAULT_PROFILE_ID, and the identity it starts with
    Requests,        \* the requests of this instance
    MaxFaults        \* bound: crashes, failed saves, outages of the vault

\* Ids are random, and no id is one of the two marks None and Unbacked.
ASSUME IdentityAssumption ==
    /\ First \in Accounts /\ Old \in Identities /\ MaxFaults \in Nat
    /\ Accounts \intersect Backups = {}
    /\ {"none", "unbacked"} \intersect (Accounts \union Backups \union Identities) = {}

VARIABLES
    disk,      \* the configuration file
    mem,       \* the Engine's copy, which every transaction starts from
    vault,     \* records of every slot
    vaultUp,   \* the vault answers
    revoked,   \* identities whose licence was unbound at the service
    used,      \* ids drawn so far
    h,         \* the running handler
    clearing,  \* clear_all_data was asked for and has not finished
    torn,      \* accounts of which a save that was reported failed was adopted
    faults

vars == <<disk, mem, vault, vaultUp, revoked, used, h, clearing, torn, faults>>

None == "none"
Unbacked == "unbacked"
Slots == Accounts \union Backups
Records == 1 .. 2
Nothing == [r \in Records |-> None]
Holds(i) == [r \in Records |-> i]

\* AppConfig::default: one account, with a fixed id.
Default ==
    [accounts |-> {First}, binding |-> [x \in Accounts |-> None],
     deletions |-> {}, local |-> {}, creations |-> {},
     replacing |-> [x \in Accounts |-> None]]

Idle == [at |-> "idle", account |-> None, new |-> None, previous |-> Nothing,
         backup |-> Unbacked, base |-> Default, slot |-> None, content |-> Nothing, k |-> 1,
         ok |-> "idle", err |-> "idle", failed |-> FALSE,
         left |-> {}, done |-> {}, error |-> FALSE]

Init ==
    /\ disk = [Default EXCEPT !.binding[First] = Old]
    /\ mem = disk
    /\ vault = [s \in Slots |-> IF s = First THEN Holds(Old) ELSE Nothing]
    /\ vaultUp = TRUE /\ revoked = {} /\ used = {First, Old}
    /\ h = Idle /\ clearing = FALSE /\ torn = {} /\ faults = 0

-----------------------------------------------------------------------------
(* The vault.  load_warp_identity needs every record; records of different  *)
(* identities load as one.                                                  *)

Complete(s) == \A r \in Records : vault[s][r] # None

\* persist_identity writes record after record; an error deletes the slot.
Write(s, content, ok, err) ==
    [h EXCEPT !.at = "put", !.slot = s, !.content = content, !.k = 1, !.ok = ok, !.err = err]

\* delete_identity goes on after an error and reports the first.
Wipe(s, ok, err) ==
    [h EXCEPT !.at = "wipe", !.slot = s, !.k = 1, !.failed = FALSE, !.ok = ok, !.err = err]

Put ==
    /\ h.at = "put"
    /\ IF vaultUp
       THEN /\ vault' = [vault EXCEPT ![h.slot][h.k] = h.content[h.k]]
            /\ h' = IF h.k + 1 \in Records
                    THEN [h EXCEPT !.k = @ + 1] ELSE [h EXCEPT !.at = h.ok]
       ELSE vault' = vault /\ h' = Wipe(h.slot, h.err, h.err)
    /\ UNCHANGED <<disk, mem, vaultUp, revoked, used, faults, clearing, torn>>

DeleteRecord ==
    /\ h.at = "wipe"
    /\ vault' = IF vaultUp THEN [vault EXCEPT ![h.slot][h.k] = None] ELSE vault
    /\ LET failed == h.failed \/ ~vaultUp
       IN h' = IF h.k + 1 \in Records
               THEN [h EXCEPT !.k = @ + 1, !.failed = failed]
               ELSE [h EXCEPT !.at = IF failed THEN h.err ELSE h.ok]
    /\ UNCHANGED <<disk, mem, vaultUp, revoked, used, faults, clearing, torn>>

-----------------------------------------------------------------------------
(* The configuration.                                                       *)

\* AppConfig::validate, what it says of identities.
Valid(c) ==
    LET replaced == {a \in Accounts : c.replacing[a] # None}
        backups == {c.replacing[a] : a \in replaced} \ {Unbacked}
        pending == c.deletions \union c.local \union c.creations
    IN /\ c.accounts # {}
       /\ {a \in Accounts : c.binding[a] # None} \subseteq c.accounts
       /\ c.accounts \intersect pending = {}
       /\ c.deletions \intersect c.local = {}
       /\ c.creations \intersect (c.deletions \union c.local) = {}
       /\ replaced \subseteq c.accounts
       /\ backups \intersect (c.accounts \union pending) = {}

SaveUnvalidated(next, then, else) ==
    /\ UNCHANGED <<vault, vaultUp, used>>
    /\ disk' = next /\ mem' = next /\ h' = then /\ faults' = faults

\* persist and update_config: the file, then the copy.  A save that fails
\* before the rename changes neither; one that fails to sync the directory
\* afterwards (CommitUncertain) leaves the new file behind the old copy.
Save(next, then, else) ==
    /\ UNCHANGED <<vault, vaultUp, used>>
    /\ \/ Valid(next) /\ disk' = next /\ mem' = next /\ h' = then /\ faults' = faults
       \/ ~Valid(next) /\ h' = else /\ UNCHANGED <<disk, mem, faults>>
       \/ /\ Valid(next) /\ faults < MaxFaults /\ faults' = faults + 1
          /\ h' = else /\ disk' \in {disk, next} /\ mem' = mem

\* The file claims what no copy of the Engine was saved with: a backup or a
\* registration whose save was reported failed.
Ahead(a) ==
    \/ disk.replacing[a] \in Backups /\ mem.replacing[a] = None
    \/ disk.binding[a] \notin {None, mem.binding[a]}

\* A save of settings, or of another part of the configuration, does not wait
\* for the transactions: it changes what the file holds, and what it read
\* there becomes the Engine's copy.
SaveSettings ==
    /\ h.at # "off" /\ mem # disk
    /\ mem' = disk
    /\ torn' = torn \union {a \in Accounts : Ahead(a)}
    /\ UNCHANGED <<disk, vault, vaultUp, revoked, used, h, clearing, faults>>

At(label) == [h EXCEPT !.at = label]

-----------------------------------------------------------------------------
(* replace_identity_records_locked.                                         *)

ReplaceStagesFirst(a, i, b) ==
    /\ "replace" \in Requests
    /\ h.at = "idle" /\ vaultUp
    /\ a \in mem.accounts /\ mem.replacing[a] = None
    /\ {i, b} \intersect used = {}
    /\ h' = [Idle EXCEPT !.at = "stage", !.account = a, !.new = i,
                         !.previous = vault[a], !.backup = b, !.base = mem]
    /\ used' = used \union {i, b}
    /\ UNCHANGED <<disk, mem, vault, vaultUp, revoked, faults, clearing, torn>>

Replace(a, i, b) ==
    /\ "replace" \in Requests
    /\ h.at = "idle" /\ vaultUp
    /\ a \in mem.accounts /\ mem.replacing[a] = None
    /\ {i, b} \intersect used = {}
    /\ LET begun == [Idle EXCEPT !.account = a, !.new = i,
                                 !.previous = vault[a], !.backup = b, !.base = mem]
       IN h' = IF Complete(a)
               THEN [begun EXCEPT !.at = "put", !.slot = b, !.content = vault[a], !.ok = "stage"]
               ELSE [begun EXCEPT !.at = "stage", !.backup = Unbacked, !.previous = Nothing]
    /\ used' = used \union {i, b}
    /\ UNCHANGED <<disk, mem, vault, vaultUp, revoked, faults, clearing, torn>>

StageUnrecorded ==
    /\ h.at = "stage"
    /\ h' = Write(h.account, Holds(h.new), "commit", "roll back")
    /\ UNCHANGED <<disk, mem, vault, vaultUp, revoked, used, faults, clearing, torn>>

Stage ==
    /\ h.at = "stage"
    /\ Save([h.base EXCEPT !.replacing[h.account] = h.backup],
            [Write(h.account, Holds(h.new), "commit", "roll back") EXCEPT !.base = Default],
            IF h.backup = Unbacked THEN At("idle") ELSE Wipe(h.backup, "idle", "idle"))
    /\ UNCHANGED <<revoked, clearing, torn>>

Commit ==
    /\ h.at = "commit"
    /\ Save([mem EXCEPT !.replacing[h.account] = None,
                        !.binding[h.account] = h.new,
                        !.deletions = @ \union ({h.backup} \ {Unbacked})],
            At("reap"), At("unbind"))
    /\ UNCHANGED <<revoked, clearing, torn>>

\* The commit failed: the new licence is given up, if the service answers.
Unbind ==
    /\ h.at = "unbind"
    /\ revoked' \in {revoked, revoked \union {h.new}}
    /\ h' = At("roll back")
    /\ UNCHANGED <<disk, mem, vault, vaultUp, used, faults, clearing, torn>>

Rollback ==
    /\ h.at = "roll back"
    /\ h' = IF h.previous = Nothing THEN Wipe(h.account, "rolled back", "idle")
                                    ELSE Write(h.account, h.previous, "rolled back", "idle")
    /\ UNCHANGED <<disk, mem, vault, vaultUp, revoked, used, faults, clearing, torn>>

RolledBackRevoking ==
    /\ h.at = "rolled back"
    /\ Save([mem EXCEPT !.replacing[h.account] = None,
                        !.deletions = @ \union ({h.backup} \ {Unbacked})],
            At("reap"), At("idle"))
    /\ UNCHANGED <<revoked, clearing, torn>>

RolledBack ==
    /\ h.at = "rolled back"
    /\ Save([mem EXCEPT !.replacing[h.account] = None,
                        !.local = @ \union ({h.backup} \ {Unbacked})],
            At("reap"), At("idle"))
    /\ UNCHANGED <<revoked, clearing, torn>>

-----------------------------------------------------------------------------
(* create_profile_with_identity and commit_pending_profile_identity.        *)

Create(a, i) ==
    /\ "create" \in Requests
    /\ h.at = "idle" /\ {a, i} \intersect used = {}
    /\ used' = used \union {a, i}
    /\ h' = [Idle EXCEPT !.at = "announce", !.account = a, !.new = i]
    /\ UNCHANGED <<disk, mem, vault, vaultUp, revoked, faults, clearing, torn>>

Announce ==
    /\ h.at = "announce"
    /\ Save([mem EXCEPT !.creations = @ \union {h.account}],
            Write(h.account, Holds(h.new), "insert", "abort"), At("idle"))
    /\ UNCHANGED <<revoked, clearing, torn>>

Insert ==
    /\ h.at = "insert"
    /\ Save([mem EXCEPT !.creations = @ \ {h.account},
                        !.accounts = @ \union {h.account},
                        !.binding[h.account] = h.new],
            At("idle"), Wipe(h.account, "abort", "abort"))
    /\ UNCHANGED <<revoked, clearing, torn>>

\* abort_pending_identity_creation: both results are dropped.
Abort ==
    /\ h.at = "abort"
    /\ h' = Wipe(h.account, "forget", "forget")
    /\ UNCHANGED <<disk, mem, vault, vaultUp, revoked, used, faults, clearing, torn>>

Forget ==
    /\ h.at = "forget"
    /\ Save([mem EXCEPT !.creations = @ \ {h.account}], At("idle"), At("idle"))
    /\ UNCHANGED <<revoked, clearing, torn>>

-----------------------------------------------------------------------------
(* delete_profile and clear_all_data.                                       *)

Delete(a) ==
    /\ "delete" \in Requests
    /\ h.at = "idle" /\ a \in mem.accounts /\ Cardinality(mem.accounts) > 1
    /\ Save([mem EXCEPT !.accounts = @ \ {a}, !.binding[a] = None,
                        !.deletions = @ \union {a}],
            [Idle EXCEPT !.at = "reap"], Idle)
    /\ UNCHANGED <<revoked, clearing, torn>>

ClearAccounts ==
    /\ "clear" \in Requests
    /\ h.at = "idle"
    /\ h' = [Idle EXCEPT !.at = "clear", !.left = mem.accounts]
    /\ clearing' = TRUE
    /\ UNCHANGED <<disk, mem, vault, vaultUp, revoked, used, faults, torn>>

ClearAll ==
    /\ "clear" \in Requests
    /\ h.at = "idle"
    /\ h' = [Idle EXCEPT !.at = "clear",
               !.left = mem.accounts \union mem.deletions \union mem.local
                        \union ({mem.replacing[a] : a \in Accounts} \intersect Backups)]
    /\ clearing' = TRUE
    /\ UNCHANGED <<disk, mem, vault, vaultUp, revoked, used, faults, torn>>

ClearSlot(s) ==
    /\ h.at = "clear" /\ s \in h.left
    /\ h' = [Wipe(s, "clear", "idle") EXCEPT !.left = @ \ {s}]
    /\ UNCHANGED <<disk, mem, vault, vaultUp, revoked, used, faults, clearing, torn>>

\* The shared proxy password goes last, and its failure ends the reset.
Reset ==
    /\ h.at = "clear" /\ h.left = {}
    /\ IF vaultUp
       THEN Save(Default, Idle, Idle)
       ELSE h' = Idle /\ UNCHANGED <<disk, mem, vault, vaultUp, used, faults>>
    /\ clearing' = ~(mem' = Default /\ disk' = Default)
    /\ torn' = IF clearing' THEN torn ELSE {}
    /\ revoked' = revoked

-----------------------------------------------------------------------------
(* recover_pending_identity_replacements_locked, when the Engine starts.    *)

Start ==
    /\ h.at = "off"
    /\ mem' = disk
    /\ h' = [Idle EXCEPT !.at = "recover",
                         !.left = {a \in Accounts : disk.replacing[a] # None}]
    /\ UNCHANGED <<disk, vault, vaultUp, revoked, used, faults, clearing, torn>>

Recover(a) ==
    LET b == mem.replacing[a] IN
    /\ h.at = "recover" /\ a \in h.left
    /\ h' = IF b = Unbacked
            THEN [Wipe(a, "recovered", "not recovered") EXCEPT !.account = a]
            ELSE IF vaultUp /\ Complete(b)
            THEN [Write(a, vault[b], "recovered", "not recovered") EXCEPT !.account = a]
            ELSE [h EXCEPT !.left = @ \ {a}, !.error = TRUE]
    /\ UNCHANGED <<disk, mem, vault, vaultUp, revoked, used, faults, clearing, torn>>

RecoveredForgotten ==
    /\ h.at \in {"recovered", "not recovered"}
    /\ h' = [h EXCEPT !.at = "recover", !.left = @ \ {h.account}]
    /\ UNCHANGED <<disk, mem, vault, vaultUp, revoked, used, faults, clearing, torn>>

Recovered ==
    /\ h.at \in {"recovered", "not recovered"}
    /\ h' = [h EXCEPT !.at = "recover", !.left = @ \ {h.account},
                      !.done = IF h.at = "recovered" THEN @ \union {h.account} ELSE @,
                      !.error = @ \/ h.at = "not recovered"]
    /\ UNCHANGED <<disk, mem, vault, vaultUp, revoked, used, faults, clearing, torn>>

RecoverEnd ==
    /\ h.at = "recover" /\ h.left = {}
    /\ LET after == At(IF h.error THEN "idle" ELSE "reap")
       IN IF h.done = {}
          THEN h' = after /\ UNCHANGED <<disk, mem, vault, vaultUp, used, faults>>
          ELSE Save([mem EXCEPT
                       !.replacing = [a \in Accounts |-> IF a \in h.done THEN None ELSE @[a]],
                       !.local = @ \union ({mem.replacing[a] : a \in h.done} \ {Unbacked})],
                    after, At("idle"))
    /\ UNCHANGED <<revoked, clearing, torn>>

-----------------------------------------------------------------------------
(* reap_pending_identity_deletions_locked.                                  *)

Pending(c) == c.deletions \union c.local \union c.creations

Reap ==
    /\ h.at = "reap"
    /\ h' = IF Pending(mem) = {} THEN At("idle")
            ELSE [h EXCEPT !.at = "reaping", !.left = Pending(mem), !.done = {}, !.error = FALSE]
    /\ UNCHANGED <<disk, mem, vault, vaultUp, revoked, used, faults, clearing, torn>>

\* cleanup_remote_license before the records of an account or a replaced
\* identity go; a copy (local) keeps its licence.
ReapSlot(s) ==
    LET wipe == [Wipe(s, "reaped", "not reaped") EXCEPT !.left = @ \ {s}]
        skip == [h EXCEPT !.left = @ \ {s}, !.error = TRUE]
    IN
    /\ h.at = "reaping" /\ s \in h.left
    /\ IF s \in mem.local \/ (vaultUp /\ ~Complete(s))
       THEN h' = wipe /\ revoked' = revoked
       ELSE \/ vaultUp /\ h' = wipe /\ revoked' = revoked \union {vault[s][1]}
            \/ h' = skip /\ revoked' = revoked
    /\ UNCHANGED <<disk, mem, vault, vaultUp, used, faults, clearing, torn>>

Reaped ==
    /\ h.at \in {"reaped", "not reaped"}
    /\ h' = [h EXCEPT !.at = "reaping",
                      !.done = IF h.at = "reaped" THEN @ \union {h.slot} ELSE @,
                      !.error = @ \/ h.at = "not reaped"]
    /\ UNCHANGED <<disk, mem, vault, vaultUp, revoked, used, faults, clearing, torn>>

ReapEnd ==
    /\ h.at = "reaping" /\ h.left = {}
    /\ IF h.done = {}
       THEN h' = At("idle") /\ UNCHANGED <<disk, mem, vault, vaultUp, used, faults>>
       ELSE Save([mem EXCEPT !.deletions = @ \ h.done, !.local = @ \ h.done,
                             !.creations = @ \ h.done],
                 At("idle"), At("idle"))
    /\ UNCHANGED <<revoked, clearing, torn>>

-----------------------------------------------------------------------------
\* The process ends, by request when nothing runs or at any point.
Stop ==
    /\ h.at # "off"
    /\ \/ h.at = "idle" /\ faults' = faults
       \/ h.at # "idle" /\ faults < MaxFaults /\ faults' = faults + 1
    /\ h' = [Idle EXCEPT !.at = "off"]
    /\ torn' = torn \union {a \in Accounts : Ahead(a)}
    /\ UNCHANGED <<disk, mem, vault, vaultUp, revoked, used, clearing>>

VaultFails ==
    /\ vaultUp /\ faults < MaxFaults
    /\ vaultUp' = FALSE /\ faults' = faults + 1
    /\ UNCHANGED <<disk, mem, vault, revoked, used, h, clearing, torn>>

VaultReturns ==
    /\ ~vaultUp /\ vaultUp' = TRUE
    /\ UNCHANGED <<disk, mem, vault, revoked, used, h, faults, clearing, torn>>

Next ==
    \/ Put \/ DeleteRecord
    \/ \E a \in Accounts, i \in Identities, b \in Backups : Replace(a, i, b)
    \/ Stage \/ Commit \/ Unbind \/ Rollback \/ RolledBack
    \/ \E a \in Accounts, i \in Identities : Create(a, i)
    \/ Announce \/ Insert \/ Abort \/ Forget
    \/ \E a \in Accounts : Delete(a) \/ Recover(a)
    \/ \E s \in Slots : ClearSlot(s) \/ ReapSlot(s)
    \/ ClearAll \/ Reset \/ Start \/ Recovered \/ RecoverEnd
    \/ Reap \/ Reaped \/ ReapEnd
    \/ SaveSettings \/ Stop \/ VaultFails \/ VaultReturns

Spec == Init /\ [][Next]_vars

Handler ==
    \/ Put \/ DeleteRecord \/ Stage \/ Commit \/ Unbind \/ Rollback \/ RolledBack
    \/ \E a \in Accounts : Recover(a)
    \/ Announce \/ Insert \/ Abort \/ Forget \/ Reset
    \/ \E s \in Slots : ClearSlot(s) \/ ReapSlot(s)
    \/ Start \/ Recovered \/ RecoverEnd \/ Reap \/ Reaped \/ ReapEnd

\* A handler goes on, and the Engine is started again after it ended.
FairSpec == Spec /\ WF_vars(Handler)

-----------------------------------------------------------------------------
\* At every moment, a replacement that the Engine's copy or the file names as
\* pending has its backup complete and of one identity: whenever the process
\* dies, the next start can restore the account.  Only clear_all_data, which
\* deletes the account as well, takes a backup that is named; and of an account
\* of which the file holds a save that was reported failed, the file's claim
\* stands only once a later save has replaced it.
BackupIsWhole ==
    ~clearing => \A a \in Accounts \ torn :
      \A b \in {mem.replacing[a]} \union (IF Ahead(a) THEN {} ELSE {disk.replacing[a]}) :
        b \in Backups => \E i \in Identities : vault[b] = Holds(i)

\* When no transaction runs and none is pending for an account, its records
\* in the vault are exactly those of the registration its binding and its
\* endpoint addresses in the configuration came from.  After a clear_all_data
\* that did not finish some may be gone, and the rest is still of that one.
SettledIdentity ==
    h.at = "idle" =>
      \A a \in mem.accounts \ torn, r \in Records :
        mem.replacing[a] = None /\ mem.binding[a] # None =>
          vault[a][r] \in {mem.binding[a]} \union (IF clearing THEN {None} ELSE {})

\* No account that stays is left with an identity whose licence was given up,
\* and no licence is given up before the identity's replacement is recorded.
NoLiveRevoked ==
    h.at = "idle" =>
      \A a \in mem.accounts \ torn :
        mem.replacing[a] = None => revoked \intersect {vault[a][r] : r \in Records} = {}

\* Before clear_all_data forgets the configuration, the slots of every account,
\* of every deletion and of every replacement's backup are empty, whatever
\* was interrupted or failed before.
ClearedIsEmpty ==
    h.at = "clear" /\ h.left = {} =>
      \A s \in (mem.accounts \ torn) \union mem.deletions \union mem.local
             \union ({mem.replacing[a] : a \in Accounts \ torn} \intersect Backups) :
        vault[s] = Nothing

\* The vault and the Engine's copy of the configuration agree, and the file
\* passes its own validation, so that the next start loads it.  An account
\* is excepted when the Engine took over, by a start or a save of settings,
\* a file that claims a save of it that was reported failed.
VaultMatchesFile ==
    /\ Valid(disk) /\ Valid(mem)
    /\ SettledIdentity /\ NoLiveRevoked /\ ClearedIsEmpty

\* Once the faults are over, a start of the Engine ends every replacement
\* that was pending: no account stays locked, unless a clear_all_data that
\* did not finish took its backup, or the file names the backup of a
\* replacement whose first save was reported failed.
StartRecovers ==
    (faults = MaxFaults /\ vaultUp /\ ~clearing /\ h.at = "off") ~>
    (h.at = "idle" /\ \A a \in Accounts \ torn : mem.replacing[a] = None)
=============================================================================
