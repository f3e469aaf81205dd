-------------------------- MODULE IdentityStoreProofs --------------------------
(***************************************************************************)
(* BackupIsWhole and VaultMatchesFile for every set of accounts, backups    *)
(* and registrations and any number of crashes, failed or uncertain saves   *)
(* and outages.  The argument is about who owns which records: an identity  *)
(* is drawn once, bound to one account, and its records are in the slot of  *)
(* that account or in the backup that the configuration names for it.       *)
(*                                                                          *)
(* Three configurations may differ: the Engine's copy, the file, and the    *)
(* copy that a replacement has read.  What is known of a configuration c is *)
(* therefore stated with the accounts X that c is allowed to be wrong about.*)
(***************************************************************************)
EXTENDS IdentityStore, TLAPS

Ids == Identities \union {None}
Contents == [Records -> Ids]
Config == [accounts : SUBSET Accounts, binding : [Accounts -> Ids],
           deletions : SUBSET Slots, local : SUBSET Slots, creations : SUBSET Accounts,
           replacing : [Accounts -> Backups \union {None, Unbacked}]]
Labels == {"idle", "off", "put", "wipe", "stage", "commit", "unbind", "roll back",
           "rolled back", "announce", "insert", "abort", "forget", "clear", "recover",
           "recovered", "not recovered", "reap", "reaping", "reaped", "not reaped"}
Handlers ==
    [at : Labels, account : Accounts \union {None}, new : Ids, previous : Contents,
     backup : Backups \union {Unbacked}, base : Config, slot : Slots \union {None},
     content : Contents, k : Records, ok : Labels, err : Labels, failed : BOOLEAN,
     left : SUBSET Slots, done : SUBSET Slots, error : BOOLEAN]

TypeInv ==
    /\ disk \in Config /\ mem \in Config
    /\ vault \in [Slots -> Contents] /\ vaultUp \in BOOLEAN
    /\ revoked \in SUBSET Identities /\ clearing \in BOOLEAN
    /\ torn \in SUBSET Accounts /\ h \in Handlers

-----------------------------------------------------------------------------
(* What a configuration c says of a vault v.                                *)

\* The records of a slot are of one identity; an unfinished clear_all_data
\* (e) may have taken some.
Of(v, e, s, i) == \A r \in Records : v[s][r] = i \/ (e /\ v[s][r] = None)

Names(c) == {c.replacing[a] : a \in Accounts} \intersect Backups

\* What clear_all_data deletes, and what it has to delete when c may be wrong
\* about X.
Listing(c) == c.accounts \union c.deletions \union c.local \union Names(c)
Listed(c, X) ==
    (c.accounts \ X) \union c.deletions \union c.local
    \union ({c.replacing[a] : a \in Accounts \ X} \intersect Backups)

\* What holds of every account of every configuration: it is valid, names
\* only what was drawn (U), an identity is bound once and its records are in
\* no slot of another account, and First, which a reset creates again, leaves
\* nothing behind.
Sound(c, v, U) ==
    /\ c \in Config /\ Valid(c) /\ First \notin c.creations
    /\ c.accounts \union Pending(c) \union Names(c) \subseteq U
    /\ \A a \in Accounts : c.binding[a] \in U \union {None}
    /\ First \in Listing(c) \/ v[First] = Nothing
    /\ \A x \in Accounts : c.binding[x] # None =>
         \A a \in Accounts : a # x =>
           /\ c.binding[a] # c.binding[x]
           /\ \A r \in Records : v[a][r] # c.binding[x]
           /\ c.replacing[a] \in Backups =>
                \A r \in Records : v[c.replacing[a]][r] # c.binding[x]

\* An account without a pending replacement has the records of its binding;
\* one with a pending replacement has them in the backup, or had none; and
\* they are not in a slot whose reaping would give up the licence.
Fits(c, X, v, R, e) ==
    \A a \in Accounts \ X :
      /\ a \in c.accounts /\ c.replacing[a] = None => Of(v, e, a, c.binding[a])
      /\ c.replacing[a] \in Backups =>
            c.binding[a] # None /\ Of(v, e, c.replacing[a], c.binding[a])
      /\ c.replacing[a] = Unbacked => e \/ c.binding[a] = None
      /\ c.binding[a] # None =>
           /\ c.binding[a] \notin R
           /\ \A s \in c.deletions \union c.creations, r \in Records :
                v[s][r] # c.binding[a]

\* What one configuration has and another has not, up to X: no identity is
\* bound to two accounts, what only one lists is empty, and a replacement
\* without a backup that only one knows was of an account without records.
Covers(c, d, X, v) ==
    /\ \A s \in Listed(c, X) : s \in Listing(d) \/ v[s] = Nothing
    /\ \A a \in Accounts \ X : c.replacing[a] = Unbacked /\ d.replacing[a] = None =>
         \E r \in Records : v[a][r] = None
Agree(c, d, X, v) ==
    /\ \A a, x \in Accounts : c.binding[a] # None /\ a # x => c.binding[a] # d.binding[x]
    /\ Covers(c, d, X, v) /\ Covers(d, c, X, v)

\* The accounts of which a file d claims more than a copy c.
AheadSet(c, d) ==
    {a \in Accounts : \/ d.replacing[a] \in Backups /\ c.replacing[a] = None
                      \/ d.binding[a] \notin {None, c.binding[a]}}
Exempt == torn \union AheadSet(mem, disk)

\* What was not drawn yet is nowhere.
Drawn ==
    /\ First \in used
    /\ \A s \in Slots, r \in Records : vault[s][r] \in used \union {None}
    /\ \A s \in Slots : s \notin used => vault[s] = Nothing
    /\ revoked \subseteq used

Kept ==
    /\ Sound(mem, vault, used) /\ Sound(disk, vault, used)
    /\ Fits(mem, torn, vault, revoked, clearing)
    /\ Fits(disk, Exempt, vault, revoked, clearing)
    /\ Agree(mem, disk, Exempt, vault)
    /\ Drawn

-----------------------------------------------------------------------------
(* What the running handler g knows at its labels.                          *)

\* The label that a handler is at, or goes to when its writing succeeds.
Going(g, label) == g.at = label \/ (g.at \in {"put", "wipe"} /\ g.ok = label)

RollingBack(g) == g.at = "unbind" \/ Going(g, "roll back") \/ Going(g, "rolled back")
Aborting(g) == Going(g, "abort") \/ Going(g, "forget")
Recovers(g) == g.at = "recover" \/ Going(g, "recovered") \/ Going(g, "not recovered")
Reaps(g) == g.at \in {"reaping", "not reaped"} \/ Going(g, "reaped")

\* The records that the replaced account had.
Previous(c, g, e) ==
    \/ g.previous = Nothing /\ (e \/ c.binding[g.account] = None)
    \/ c.binding[g.account] # None /\ g.previous = Holds(c.binding[g.account])

\* None of the records of a content is of another account than a.
Foreign(c, a, content) ==
    \E x \in Accounts, r \in Records :
      x # a /\ c.binding[x] # None /\ content[r] = c.binding[x]

\* Knowledge of a configuration that may be wrong about X: the copy or the
\* file, which may differ while a transaction begins, is undone or clears.
Knows(c, X, g, v, e) ==
    /\ Going(g, "stage") \/ g.at = "announce" => \A a \in Accounts : c.binding[a] # g.new
    /\ Going(g, "stage") /\ g.backup \in Backups =>
          /\ g.backup \notin Listing(c)
          /\ g.account \notin X => c.replacing[g.account] = None
    /\ RollingBack(g) =>
          /\ g.account \in c.accounts
          /\ g.backup \in Backups => g.backup \in Listing(c)
          /\ g.account \notin X => c.replacing[g.account] = g.backup /\ Previous(c, g, e)
          /\ ~Foreign(c, g.account, g.previous)
    /\ g.at = "unbind" => \A a \in Accounts \ X : c.binding[a] # g.new
    /\ g.at = "announce" => g.account \notin c.accounts \union Pending(c)
    /\ Aborting(g) => g.account \notin c.accounts \ X
    /\ g.at = "wipe" /\ g.ok = "idle" =>
          \/ g.slot \in Backups /\ \A a \in Accounts \ X : c.replacing[a] # g.slot
          \/ g.slot \in Accounts /\ (g.slot \in X \/ c.replacing[g.slot] # None)
    /\ g.at = "rolled back" /\ g.account \notin X =>
          Of(v, e, g.account, c.binding[g.account])
    /\ Going(g, "clear") =>
          /\ e
          /\ \A s \in Listed(c, X) \union {First} :
               s \in g.left \/ v[s] = Nothing \/ (g.at = "wipe" /\ s = g.slot)

\* How far the handler has written.
Progress ==
    /\ h.at = "put" =>
          /\ h.slot \in Slots /\ \A r \in Records : r < h.k => vault[h.slot][r] = h.content[r]
          /\ <<h.ok, h.err>> \in {<<"stage", "idle">>, <<"commit", "roll back">>,
                 <<"rolled back", "idle">>, <<"insert", "abort">>,
                 <<"recovered", "not recovered">>}
    /\ h.at = "wipe" =>
          /\ h.slot \in Slots
          /\ h.failed \/ \A r \in Records : r < h.k => vault[h.slot][r] = None
          /\ <<h.ok, h.err>> \in {<<"idle", "idle">>, <<"roll back", "roll back">>,
                 <<"rolled back", "idle">>, <<"abort", "abort">>, <<"forget", "forget">>,
                 <<"clear", "idle">>, <<"recovered", "not recovered">>,
                 <<"not recovered", "not recovered">>, <<"reaped", "not reaped">>}

\* A registration with records in its account only.
InFlight ==
    /\ h.account \in Accounts
    /\ h.new \in Identities /\ h.new \in used /\ h.new \notin revoked
    /\ \A s \in Slots, r \in Records : s # h.account => vault[s][r] # h.new

\* A replacement that is not recorded yet, in the copy that it has read.
Staging ==
    /\ Going(h, "stage") =>
          /\ InFlight
          /\ Sound(h.base, vault, used) /\ Fits(h.base, torn, vault, revoked, clearing)
          /\ Agree(h.base, mem, torn, vault) /\ Agree(h.base, disk, Exempt, vault)
          /\ h.account \in h.base.accounts /\ h.base.replacing[h.account] = None
          /\ \A a \in Accounts : h.base.binding[a] # h.new
          /\ \A r \in Records : h.previous[r] # h.new
          /\ h.account \notin torn => Previous(h.base, h, clearing)
          /\ h.backup \in Backups =>
                /\ h.backup \in used /\ h.backup \notin Listing(h.base)
                /\ h.previous = vault[h.account] /\ \A r \in Records : h.previous[r] # None
          /\ h.backup = Unbacked =>
                h.previous = Nothing /\ \E r \in Records : vault[h.account][r] = None
    /\ h.at = "put" /\ h.ok = "stage" =>
          h.slot = h.backup /\ h.backup \in Backups /\ h.content = h.previous
    /\ h.at = "stage" /\ h.backup \in Backups => vault[h.backup] = h.previous

\* Steps that are taken only after a save has succeeded, or a start; and a
\* process that has ended leaves the file for the copy of the next.
Recorded ==
    /\ Going(h, "commit") \/ Going(h, "insert") \/ Recovers(h) \/ Reaps(h) \/ h.at = "reap" =>
          mem = disk
    /\ h.at = "off" => AheadSet(mem, disk) \subseteq torn

Replacing ==
    /\ Going(h, "commit") =>
          /\ InFlight /\ (\A a \in Accounts : mem.binding[a] # h.new)
          /\ h.account \in mem.accounts /\ mem.replacing[h.account] = h.backup
          /\ h.account \notin torn => Previous(mem, h, clearing)
          /\ ~Foreign(mem, h.account, h.previous)
    /\ Going(h, "commit") \/ RollingBack(h) =>
          /\ h.account \in Accounts /\ (h.at \in {"put", "wipe"} => h.slot = h.account)
          /\ h.previous = Nothing \/ h.backup \in Backups
          /\ h.backup = Unbacked => h.previous = Nothing
          /\ \A r \in Records : h.previous[r] \in used \union {None}
    /\ h.at = "put" /\ h.ok = "commit" => h.content = Holds(h.new)
    /\ h.at = "commit" => vault[h.account] = Holds(h.new)
    /\ h.at = "unbind" => h.new \in Identities /\ h.new \in used
    /\ h.at = "put" /\ h.ok = "rolled back" => h.content = h.previous /\ h.previous # Nothing
    /\ h.at = "wipe" /\ h.ok = "rolled back" => h.previous = Nothing
    /\ h.at = "rolled back" => vault[h.account] = h.previous

Creating ==
    /\ h.at = "announce" \/ Going(h, "insert") =>
          /\ InFlight /\ h.account \in used /\ h.account # First
          /\ h.at = "announce" => vault[h.account] = Nothing
    /\ Going(h, "insert") =>
          /\ h.account \in mem.creations /\ \A a \in Accounts : mem.binding[a] # h.new
    /\ Going(h, "insert") \/ Aborting(h) =>
          h.account \in Accounts /\ (h.at \in {"put", "wipe"} => h.slot = h.account)
    /\ h.at = "put" /\ h.ok = "insert" => h.content = Holds(h.new)
    /\ h.at = "insert" => vault[h.account] = Holds(h.new)

Recovering ==
    /\ Recovers(h) =>
          /\ \A a \in h.left \union h.done : a \in Accounts /\ mem.replacing[a] # None
          /\ h.left \intersect h.done = {}
          /\ \A a \in h.done : mem.replacing[a] = Unbacked => vault[a] = Nothing
          /\ \A a \in h.done \ torn : Of(vault, clearing, a, mem.binding[a])
    /\ Going(h, "recovered") \/ Going(h, "not recovered") =>
          h.account \in h.left /\ (h.at \in {"put", "wipe"} => h.slot = h.account)
    /\ h.at = "put" /\ h.ok = "recovered" =>
          /\ mem.replacing[h.account] \in Backups /\ ~Foreign(mem, h.account, h.content)
          /\ \A r \in Records : h.content[r] \in used \union {None}
          /\ h.account \notin torn =>
               mem.binding[h.account] # None /\ h.content = Holds(mem.binding[h.account])
    /\ h.at = "wipe" /\ h.ok = "recovered" => mem.replacing[h.account] = Unbacked
    /\ h.at = "recovered" =>
          /\ mem.replacing[h.account] = Unbacked => vault[h.account] = Nothing
          /\ h.account \notin torn => Of(vault, clearing, h.account, mem.binding[h.account])

Reaping ==
    /\ Reaps(h) =>
          /\ h.left \union h.done \subseteq Pending(mem)
          /\ \A s \in h.done : vault[s] = Nothing
    /\ h.at = "not reaped" \/ Going(h, "reaped") => h.slot \in Pending(mem)
    /\ h.at = "reaped" => vault[h.slot] = Nothing

Doing ==
    /\ Knows(mem, torn, h, vault, clearing) /\ Knows(disk, Exempt, h, vault, clearing)
    /\ Progress /\ Staging /\ Recorded /\ Replacing /\ Creating /\ Recovering /\ Reaping

IInv == TypeInv /\ Kept /\ Doing

-----------------------------------------------------------------------------
(* Facts that every step uses. *)

LEMMA Marks ==
    /\ None \notin Slots /\ None \notin Identities /\ Unbacked \notin Slots
    /\ None # Unbacked /\ Accounts \intersect Backups = {} /\ First \in Accounts
    /\ Accounts \subseteq Slots /\ Backups \subseteq Slots
    /\ Slots = Accounts \union Backups
  BY IdentityAssumption DEF None, Unbacked, Slots

LEMMA RecordFacts ==
    /\ Records = {1, 2} /\ Nothing \in Contents
    /\ \A r \in Records : Nothing[r] = None
    /\ \A i \in Identities : Holds(i) \in Contents /\ Holds(i) # Nothing
    /\ \A i, r : r \in Records => Holds(i)[r] = i
    /\ \A c \in Contents : \A i : c = Holds(i) <=> \A r \in Records : c[r] = i
    /\ \A c \in Contents : c = Nothing <=> \A r \in Records : c[r] = None
  <1>1. Records = {1, 2}
    BY DEF Records
  <1>2. \A r \in Records : Nothing[r] = None
    BY DEF Nothing
  <1>3. \A i, r : r \in Records => Holds(i)[r] = i
    BY DEF Holds
  <1>4. \A i \in Identities : Holds(i) \in Contents /\ Holds(i) # Nothing
    BY <1>1, <1>2, <1>3, Marks DEF Contents, Ids, Holds
  <1>5. \A c \in Contents : \A i : c = Holds(i) <=> \A r \in Records : c[r] = i
    BY DEF Contents, Holds
  <1>6. \A c \in Contents : c = Nothing <=> \A r \in Records : c[r] = None
    BY DEF Contents, Nothing
  <1> QED
    BY <1>1, <1>2, <1>3, <1>4, <1>5, <1>6 DEF Contents, Nothing, Ids

LEMMA DefaultFields ==
    /\ Default \in Config /\ Valid(Default)
    /\ Default.accounts = {First} /\ Default.deletions = {} /\ Default.local = {}
    /\ Default.creations = {} /\ Pending(Default) = {}
    /\ \A a \in Accounts : Default.replacing[a] = None /\ Default.binding[a] = None
  <1>1. /\ Default \in Config
        /\ Default.accounts = {First} /\ Default.deletions = {} /\ Default.local = {}
        /\ Default.creations = {} /\ Pending(Default) = {}
        /\ \A a \in Accounts : Default.replacing[a] = None /\ Default.binding[a] = None
    BY Marks DEF Default, Config, Ids, Pending
  <1> QED
    BY <1>1 DEF Valid

\* The fields of an idle handler.
LEMMA IdleFields ==
    /\ Idle \in Handlers
    /\ Idle.at = "idle" /\ Idle.err = "idle" /\ Idle.k = 1 /\ Idle.left = {}
    /\ Idle.done = {} /\ Idle.base = Default
  BY RecordFacts, Marks, DefaultFields DEF Idle, Handlers, Labels, None, Ids

\* The parts of a configuration.
LEMMA ConfigFields ==
    ASSUME NEW c \in Config
    PROVE  /\ c.accounts \subseteq Accounts /\ c.deletions \subseteq Slots
           /\ c.local \subseteq Slots /\ c.creations \subseteq Accounts
           /\ \A a \in Accounts : c.binding[a] \in Ids
           /\ \A a \in Accounts : c.replacing[a] \in Backups \union {None, Unbacked}
           /\ Pending(c) \subseteq Slots /\ Names(c) \subseteq Backups
           /\ Listing(c) \subseteq Slots
           /\ c = [accounts |-> c.accounts, binding |-> c.binding, deletions |-> c.deletions,
                   local |-> c.local, creations |-> c.creations, replacing |-> c.replacing]
           /\ c.binding \in [Accounts -> Ids]
           /\ c.replacing \in [Accounts -> Backups \union {None, Unbacked}]
  BY Marks DEF Config, Pending, Names, Listing

\* What validation says, in the terms of the proof.
LEMMA ValidFacts ==
    ASSUME NEW c \in Config, Valid(c)
    PROVE  /\ \A a \in Accounts : c.binding[a] # None => a \in c.accounts
           /\ \A a \in Accounts : c.replacing[a] # None => a \in c.accounts
           /\ \A a \in c.accounts : a \notin Pending(c)
           /\ \A b \in Names(c) : b \notin Pending(c) /\ b \notin c.accounts
           /\ \A a \in c.creations : a \notin c.deletions \union c.local
           /\ c.deletions \intersect c.local = {}
  BY Marks DEF Valid, Names, Pending, Config

-----------------------------------------------------------------------------
(* A configuration and a vault of which one record changes. *)

Vaults == [Slots -> Contents]

\* Some records of slot s are gone.
Erased(v, w, s) ==
    /\ \A t \in Slots : t # s => w[t] = v[t]
    /\ \A r \in Records : w[s][r] \in {v[s][r], None}

LEMMA EraseEmpty ==
    ASSUME NEW v \in Vaults, NEW w \in Vaults, NEW s \in Slots, Erased(v, w, s)
    PROVE  /\ \A t \in Slots : v[t] = Nothing => w[t] = Nothing
           /\ \A t \in Slots, r \in Records : w[t][r] \in {v[t][r], None}
  BY RecordFacts DEF Vaults, Erased

LEMMA EraseSound ==
    ASSUME NEW v \in Vaults, NEW w \in Vaults, NEW s \in Slots, Erased(v, w, s),
           NEW c, NEW U, Sound(c, v, U)
    PROVE  Sound(c, w, U)
  <1>1. First \in Listing(c) \/ w[First] = Nothing
    BY EraseEmpty, Marks DEF Sound
  <1>2. ASSUME NEW x \in Accounts, c.binding[x] # None, NEW a \in Accounts, a # x
        PROVE  /\ \A r \in Records : w[a][r] # c.binding[x]
               /\ c.replacing[a] \in Backups =>
                    \A r \in Records : w[c.replacing[a]][r] # c.binding[x]
    BY <1>2, EraseEmpty, Marks DEF Sound
  <1> QED
    BY <1>1, <1>2 DEF Sound

LEMMA EraseFits ==
    ASSUME NEW v \in Vaults, NEW w \in Vaults, NEW s \in Slots, Erased(v, w, s),
           NEW c \in Config, NEW X, NEW R, NEW e \in BOOLEAN, Fits(c, X, v, R, e),
           \/ e
           \/ \A a \in Accounts \ X :
                /\ a = s => a \notin c.accounts \/ c.replacing[a] # None
                /\ c.replacing[a] # s
    PROVE  Fits(c, X, w, R, e)
  <1> SUFFICES ASSUME NEW a \in Accounts \ X
               PROVE  /\ a \in c.accounts /\ c.replacing[a] = None => Of(w, e, a, c.binding[a])
                      /\ c.replacing[a] \in Backups => Of(w, e, c.replacing[a], c.binding[a])
                      /\ c.binding[a] # None =>
                           \A t \in c.deletions \union c.creations, r \in Records :
                             w[t][r] # c.binding[a]
    BY DEF Fits
  <1>1. a \in c.accounts /\ c.replacing[a] = None => Of(w, e, a, c.binding[a])
    BY EraseEmpty, Marks DEF Fits, Of, Erased
  <1>2. c.replacing[a] \in Backups => Of(w, e, c.replacing[a], c.binding[a])
    BY EraseEmpty, Marks DEF Fits, Of, Erased
  <1>3. c.binding[a] # None =>
          \A t \in c.deletions \union c.creations, r \in Records : w[t][r] # c.binding[a]
    BY EraseEmpty, ConfigFields, Marks DEF Fits
  <1> QED
    BY <1>1, <1>2, <1>3

LEMMA EraseAgree ==
    ASSUME NEW v \in Vaults, NEW w \in Vaults, NEW s \in Slots, Erased(v, w, s),
           NEW c \in Config, NEW d \in Config, NEW X, Agree(c, d, X, v)
    PROVE  Agree(c, d, X, w)
  <1>1. ASSUME NEW p \in Config, NEW q \in Config, Covers(p, q, X, v)
        PROVE  Covers(p, q, X, w)
    <2>1. \A t \in Listed(p, X) : t \in Slots
      BY ConfigFields, Marks DEF Listed
    <2> QED
      BY <1>1, <2>1, EraseEmpty, Marks DEF Covers
  <1> QED
    BY <1>1 DEF Agree

\* Record j of slot s becomes i.
Written(v, w, s, j, i) == w = [v EXCEPT ![s][j] = i]

LEMMA WriteFields ==
    ASSUME NEW v \in Vaults, NEW w, NEW s \in Slots, NEW j \in Records, NEW i \in Ids,
           Written(v, w, s, j, i)
    PROVE  /\ w \in Vaults
           /\ \A t \in Slots : t # s => w[t] = v[t]
           /\ \A r \in Records : r # j => w[s][r] = v[s][r]
           /\ w[s][j] = i
  <1>1. v[s] \in Contents
    BY DEF Vaults
  <1>2. [v[s] EXCEPT ![j] = i] \in Contents
    BY <1>1 DEF Contents
  <1>3. w = [v EXCEPT ![s] = [v[s] EXCEPT ![j] = i]]
    BY DEF Written
  <1> QED
    BY <1>1, <1>2, <1>3 DEF Vaults, Contents

LEMMA WriteSound ==
    ASSUME NEW v \in Vaults, NEW w, NEW s \in Slots, NEW j \in Records, NEW i \in Ids,
           Written(v, w, s, j, i), NEW c, NEW U, Sound(c, v, U),
           s \in Accounts => s # First \/ First \in Listing(c),
           s \in Accounts => \A x \in Accounts : x # s /\ c.binding[x] # None => i # c.binding[x],
           s \in Backups => s \notin Names(c)
    PROVE  Sound(c, w, U)
  <1>0. /\ w \in Vaults /\ \A t \in Slots : t # s => w[t] = v[t]
        /\ \A r \in Records : r # j => w[s][r] = v[s][r]
        /\ w[s][j] = i
    BY WriteFields
  <1>1. First \in Listing(c) \/ w[First] = Nothing
    BY <1>0, Marks DEF Sound
  <1>2. ASSUME NEW x \in Accounts, c.binding[x] # None, NEW a \in Accounts, a # x
        PROVE  /\ \A r \in Records : w[a][r] # c.binding[x]
               /\ c.replacing[a] \in Backups =>
                    \A r \in Records : w[c.replacing[a]][r] # c.binding[x]
    <2>1. \A r \in Records : w[a][r] # c.binding[x]
      BY <1>2, <1>0, Marks DEF Sound
    <2>2. c.replacing[a] \in Backups => c.replacing[a] # s
      BY Marks DEF Names
    <2> QED
      BY <1>2, <2>1, <2>2, <1>0, Marks DEF Sound
  <1> QED
    BY <1>1, <1>2 DEF Sound

LEMMA WriteFits ==
    ASSUME NEW v \in Vaults, NEW w, NEW s \in Slots, NEW j \in Records, NEW i \in Ids,
           Written(v, w, s, j, i), NEW c \in Config, NEW X, NEW R, NEW e \in BOOLEAN,
           Fits(c, X, v, R, e),
           s \in Accounts => s \in X \/ s \notin c.accounts \/ c.replacing[s] # None,
           s \in Backups => s \notin Names(c),
           s \in c.deletions \union c.creations =>
             \A a \in Accounts \ X : c.binding[a] # None => i # c.binding[a]
    PROVE  Fits(c, X, w, R, e)
  <1>0. /\ w \in Vaults /\ \A t \in Slots : t # s => w[t] = v[t]
        /\ \A r \in Records : r # j => w[s][r] = v[s][r]
        /\ w[s][j] = i
    BY WriteFields
  <1> SUFFICES ASSUME NEW a \in Accounts \ X
               PROVE  /\ a \in c.accounts /\ c.replacing[a] = None => Of(w, e, a, c.binding[a])
                      /\ c.replacing[a] \in Backups => Of(w, e, c.replacing[a], c.binding[a])
                      /\ c.binding[a] # None =>
                           \A t \in c.deletions \union c.creations, r \in Records :
                             w[t][r] # c.binding[a]
    BY DEF Fits
  <1>1. a \in c.accounts /\ c.replacing[a] = None => Of(w, e, a, c.binding[a])
    BY <1>0, Marks DEF Fits, Of
  <1>2. c.replacing[a] \in Backups => c.replacing[a] # s
    BY Marks DEF Names
  <1>3. c.replacing[a] \in Backups => Of(w, e, c.replacing[a], c.binding[a])
    BY <1>2, <1>0, Marks DEF Fits, Of
  <1>4. c.binding[a] # None =>
          \A t \in c.deletions \union c.creations, r \in Records : w[t][r] # c.binding[a]
    BY <1>0, ConfigFields, Marks DEF Fits
  <1> QED
    BY <1>1, <1>3, <1>4

LEMMA WriteAgree ==
    ASSUME NEW v \in Vaults, NEW w, NEW s \in Slots, NEW j \in Records, NEW i \in Ids,
           Written(v, w, s, j, i), NEW c \in Config, NEW d \in Config, NEW X,
           Agree(c, d, X, v),
           s \in Listing(c) <=> s \in Listing(d),
           s \in Accounts => s \in X \/ c.replacing[s] = d.replacing[s]
    PROVE  Agree(c, d, X, w)
  <1>0. /\ w \in Vaults /\ \A t \in Slots : t # s => w[t] = v[t]
        /\ \A r \in Records : r # j => w[s][r] = v[s][r]
        /\ w[s][j] = i
    BY WriteFields
  <1>1. ASSUME NEW p \in Config, NEW q \in Config, Covers(p, q, X, v),
               s \in Listing(p) <=> s \in Listing(q),
               s \in Accounts => s \in X \/ p.replacing[s] = q.replacing[s]
        PROVE  Covers(p, q, X, w)
    <2>1. \A t \in Listed(p, X) : t \in Slots /\ t \in Listing(p)
      BY ConfigFields, Marks DEF Listed, Listing, Names
    <2>2. \A t \in Listed(p, X) : t \in Listing(q) \/ w[t] = Nothing
      BY <1>1, <2>1, <1>0 DEF Covers
    <2>3. ASSUME NEW a \in Accounts \ X, p.replacing[a] = Unbacked, q.replacing[a] = None
          PROVE  \E r \in Records : w[a][r] = None
      <3>1. a # s
        BY <1>1, <2>3, Marks
      <3>2. w[a] = v[a]
        BY <3>1, <1>0, Marks
      <3> QED
        BY <1>1, <2>3, <3>2 DEF Covers
    <2> QED
      BY <2>2, <2>3 DEF Covers
  <1> QED
    BY <1>1 DEF Agree

-----------------------------------------------------------------------------
(* More accounts that a configuration may be wrong about, more that was     *)
(* drawn, a reset that has begun.                                           *)

LEMMA WiderFits ==
    ASSUME NEW c, NEW X, NEW Y, X \subseteq Y, NEW v, NEW R, NEW e, NEW f, e => f,
           Fits(c, X, v, R, e)
    PROVE  Fits(c, Y, v, R, f)
  BY DEF Fits, Of

LEMMA WiderAgree ==
    ASSUME NEW c, NEW d, NEW X, NEW Y, X \subseteq Y, NEW v, Agree(c, d, X, v)
    PROVE  Agree(c, d, Y, v)
  <1>1. \A p : Listed(p, Y) \subseteq Listed(p, X)
    BY DEF Listed
  <1> QED
    BY <1>1 DEF Agree, Covers

LEMMA AgreeSymmetric ==
    ASSUME NEW c, NEW d, NEW X, NEW v, Agree(c, d, X, v)
    PROVE  Agree(d, c, X, v)
  BY DEF Agree

LEMMA AgreeReflexive ==
    ASSUME NEW c \in Config, NEW X, NEW v, NEW U, Sound(c, v, U)
    PROVE  Agree(c, c, X, v) /\ AheadSet(c, c) = {}
  <1>1. Listed(c, X) \subseteq Listing(c)
    BY DEF Listed, Listing, Names
  <1>2. Covers(c, c, X, v)
    BY <1>1, Marks DEF Covers
  <1>3. AheadSet(c, c) = {}
    BY Marks DEF AheadSet
  <1> QED
    BY <1>2, <1>3 DEF Agree, Sound

LEMMA WiderSound ==
    ASSUME NEW c, NEW v, NEW U, NEW V, U \subseteq V, Sound(c, v, U)
    PROVE  Sound(c, v, V)
  BY DEF Sound

-----------------------------------------------------------------------------
(* Steps that only move the handler. *)

LEMMA Parts ==
    ASSUME IInv
    PROVE  /\ TypeInv /\ Kept /\ Sound(mem, vault, used) /\ Sound(disk, vault, used)
           /\ Fits(mem, torn, vault, revoked, clearing)
           /\ Fits(disk, Exempt, vault, revoked, clearing)
           /\ Agree(mem, disk, Exempt, vault) /\ Drawn
           /\ Knows(mem, torn, h, vault, clearing) /\ Knows(disk, Exempt, h, vault, clearing)
           /\ Progress /\ Staging /\ Recorded /\ Replacing /\ Creating /\ Recovering /\ Reaping
           /\ mem \in Config /\ disk \in Config /\ vault \in Vaults /\ h \in Handlers
           /\ torn \subseteq Accounts /\ Exempt \subseteq Accounts /\ torn \subseteq Exempt
           /\ clearing \in BOOLEAN /\ vaultUp \in BOOLEAN
  BY DEF IInv, Kept, Doing, TypeInv, Vaults, Exempt, AheadSet

LEMMA TypeFields ==
    ASSUME TypeInv
    PROVE  \A s \in Slots : vault[s] \in Contents /\ \A r \in Records : vault[s][r] \in Ids
  BY DEF TypeInv, Contents

LEMMA QuietKnows ==
    ASSUME NEW c, NEW X, NEW g, NEW v, NEW e, g.at \in {"idle", "off", "reap"}
    PROVE  Knows(c, X, g, v, e)
  BY DEF Knows, Going, RollingBack, Aborting

\* Nothing is expected of a handler at these labels.
LEMMA Quiet ==
    ASSUME h'.at \in {"idle", "off", "reap"}, h'.at = "reap" => mem' = disk',
           h'.at = "off" => AheadSet(mem', disk') \subseteq torn'
    PROVE  Doing'
  <1>1. Knows(mem, torn, h, vault, clearing)' /\ Knows(disk, Exempt, h, vault, clearing)'
    BY QuietKnows
  <1>2. Progress' /\ Staging' /\ Recorded' /\ Replacing' /\ Creating' /\ Recovering' /\ Reaping'
    BY DEF Progress, Staging, Recorded, Replacing, Creating, Recovering, Reaping, Going,
           RollingBack, Aborting, Recovers, Reaps
  <1> QED
    BY <1>1, <1>2 DEF Doing

LEMMA KeptStays ==
    ASSUME Kept, UNCHANGED <<disk, mem, vault, revoked, clearing, torn>>, used \subseteq used'
    PROVE  Kept'
  <1>1. Sound(mem, vault, used)' /\ Sound(disk, vault, used)'
    BY WiderSound DEF Kept
  <1>2. Drawn'
    BY DEF Kept, Drawn
  <1> QED
    BY <1>1, <1>2 DEF Kept, Exempt

LEMMA Moves ==
    ASSUME IInv, UNCHANGED <<disk, mem, vault, revoked, clearing, torn>>, used \subseteq used',
           vaultUp' \in BOOLEAN, h' \in Handlers, Doing'
    PROVE  IInv'
  <1>1. TypeInv'
    BY DEF IInv, TypeInv
  <1> QED
    BY <1>1, KeptStays DEF IInv

LEMMA InitIInv == Init => IInv
  <1> SUFFICES ASSUME Init PROVE IInv
    OBVIOUS
  <1> USE Marks, RecordFacts, IdleFields
  <1>1. disk \in Config /\ mem = disk
    BY DefaultFields, IdentityAssumption DEF Init, Config, Ids
  <1>2. /\ disk.accounts = {First} /\ disk.deletions = {} /\ disk.local = {}
        /\ disk.creations = {} /\ Pending(disk) = {}
        /\ \A a \in Accounts : disk.replacing[a] = None
        /\ \A a \in Accounts : disk.binding[a] = IF a = First THEN Old ELSE None
    BY DEF Init, Default, Pending
  <1>3. vault \in Vaults /\ \A s \in Slots : vault[s] = IF s = First THEN Holds(Old) ELSE Nothing
    BY IdentityAssumption DEF Init, Vaults
  <1>4. TypeInv
    BY <1>1, <1>3 DEF Init, TypeInv, Vaults
  <1>5. Valid(disk) /\ Names(disk) = {}
    BY <1>2 DEF Valid, Names
  <1>6. Sound(disk, vault, used)
    BY <1>1, <1>2, <1>3, <1>5, IdentityAssumption DEF Sound, Init, Listing
  <1>7. Fits(disk, torn, vault, revoked, clearing)
    BY <1>1, <1>2, <1>3, IdentityAssumption DEF Fits, Of, Init
  <1>8. Agree(mem, disk, Exempt, vault) /\ Exempt = torn
    BY <1>1, <1>6, AgreeReflexive DEF Exempt
  <1>9. Drawn
    BY <1>3, IdentityAssumption DEF Drawn, Init
  <1>10. Progress /\ Staging /\ Recorded /\ Replacing /\ Creating /\ Recovering /\ Reaping
    BY DEF Init, Progress, Staging, Recorded, Replacing, Creating, Recovering, Reaping, Going,
           RollingBack, Aborting, Recovers, Reaps
  <1>11. Knows(mem, torn, h, vault, clearing) /\ Knows(disk, Exempt, h, vault, clearing)
    BY QuietKnows DEF Init
  <1> QED
    BY <1>1, <1>4, <1>6, <1>7, <1>8, <1>9, <1>10, <1>11 DEF IInv, Kept, Doing

LEMMA StopKeeps == IInv /\ Stop => IInv'
  <1> SUFFICES ASSUME IInv, Stop PROVE IInv'
    OBVIOUS
  <1>1. /\ UNCHANGED <<disk, mem, vault, vaultUp, revoked, used, clearing>>
        /\ torn' = torn \union AheadSet(mem, disk)
    BY DEF Stop, Ahead, AheadSet
  <1>2. h' \in Handlers /\ h'.at = "off"
    BY IdleFields DEF Stop, Handlers, Labels
  <1>3. Exempt' = Exempt /\ torn' = Exempt
    BY <1>1 DEF Exempt
  <1>4. TypeInv'
    BY <1>1, <1>2, <1>3, Parts DEF TypeInv
  <1>5. Fits(mem, torn', vault, revoked, clearing)
    BY <1>3, Parts, WiderFits
  <1>6. Kept'
    BY <1>1, <1>3, <1>5 DEF IInv, Kept, Drawn
  <1>7. Doing'
    BY <1>1, <1>2, Quiet
  <1> QED
    BY <1>4, <1>6, <1>7 DEF IInv

LEMMA HandlerFields ==
    ASSUME NEW g \in Handlers
    PROVE  /\ g.at \in Labels /\ g.account \in Accounts \union {None} /\ g.new \in Ids
           /\ g.previous \in Contents /\ g.backup \in Backups \union {Unbacked}
           /\ g.base \in Config
           /\ g.slot \in Slots \union {None} /\ g.content \in Contents /\ g.k \in Records
           /\ g.ok \in Labels /\ g.err \in Labels /\ g.left \subseteq Slots
           /\ g.done \subseteq Slots
  BY DEF Handlers

\* What a handler keeps from call to call.
SameBase(g) ==
    /\ g.account = h.account /\ g.new = h.new /\ g.previous = h.previous
    /\ g.backup = h.backup /\ g.base = h.base /\ g.left = h.left /\ g.done = h.done

LEMMA AtFields ==
    ASSUME h \in Handlers, NEW l \in Labels
    PROVE  /\ At(l) \in Handlers /\ At(l).at = l /\ SameBase(At(l)) /\ At(l).slot = h.slot
  BY DEF Handlers, At, SameBase

LEMMA WritingLabels == 1 \in Records /\ {"put", "wipe"} \subseteq Labels
  BY RecordFacts DEF Labels

\* A handler that begins to write or to wipe a slot.
Begins(g, at, s, ok, err) ==
    /\ g \in Handlers /\ SameBase(g) /\ g.at = at /\ g.slot = s
    /\ g.k = 1 /\ g.ok = ok /\ g.err = err

LEMMA PutFields ==
    ASSUME h \in Handlers, NEW s \in Slots, NEW content \in Contents, NEW ok \in Labels,
           NEW err \in Labels
    PROVE  /\ Begins(Write(s, content, ok, err), "put", s, ok, err)
           /\ Write(s, content, ok, err).content = content
  BY WritingLabels DEF Handlers, Write, SameBase, Begins

LEMMA WipeFields ==
    ASSUME h \in Handlers, NEW s \in Slots, NEW ok \in Labels, NEW err \in Labels
    PROVE  Begins(Wipe(s, ok, err), "wipe", s, ok, err)
  BY WritingLabels DEF Handlers, Wipe, SameBase, Begins

\* The first record is the one to write or to wipe: nothing is done yet.
LEMMA NoneBefore == \A r \in Records : ~(r < 1)
  BY RecordFacts

LEMMA OnlyMoves ==
    ASSUME IInv, UNCHANGED <<disk, mem, vault, vaultUp, revoked, used, clearing, torn>>,
           h' \in Handlers, Doing'
    PROVE  IInv'
  <1>1. vaultUp' \in BOOLEAN
    BY DEF IInv, TypeInv
  <1> QED
    BY <1>1, Moves

LEMMA VaultKeeps == IInv /\ (VaultFails \/ VaultReturns) => IInv'
  <1> SUFFICES ASSUME IInv, VaultFails \/ VaultReturns PROVE IInv'
    OBVIOUS
  <1>1. UNCHANGED <<disk, mem, vault, revoked, clearing, torn, used, h>> /\ vaultUp' \in BOOLEAN
    BY DEF VaultFails, VaultReturns
  <1>2. InFlight' <=> InFlight
    BY <1>1 DEF InFlight
  <1>3. Progress' /\ Staging' /\ Recorded' /\ Replacing' /\ Creating' /\ Recovering' /\ Reaping'
    <2>1. Progress /\ Staging /\ Recorded /\ Replacing /\ Creating /\ Recovering /\ Reaping
      BY Parts
    <2>2. Exempt' = Exempt
      BY <1>1 DEF Exempt
    <2>3. Progress' /\ Recorded' /\ Reaping'
      BY <1>1, <2>1 DEF Progress, Recorded, Reaping
    <2>4. Staging'
      BY <1>1, <1>2, <2>1, <2>2 DEF Staging
    <2>5. Replacing'
      BY <1>1, <1>2, <2>1 DEF Replacing
    <2>6. Recovering'
      BY <1>1, <2>1 DEF Recovering
    <2>7. Creating'
      BY <1>1, <1>2, <2>1 DEF Creating
    <2> QED
      BY <2>3, <2>4, <2>5, <2>6, <2>7
  <1>4. Doing'
    BY <1>1, <1>3, Parts DEF Doing, Exempt
  <1>5. h' \in Handlers
    BY <1>1, Parts
  <1> QED
    BY <1>1, <1>4, <1>5, Moves

LEMMA SaveSettingsKeeps == IInv /\ SaveSettings => IInv'
  <1> SUFFICES ASSUME IInv, SaveSettings PROVE IInv'
    OBVIOUS
  <1>1. /\ UNCHANGED <<disk, vault, vaultUp, revoked, used, h, clearing>>
        /\ torn' = torn \union AheadSet(mem, disk) /\ mem' = disk /\ mem # disk /\ h.at # "off"
    BY DEF SaveSettings, Ahead, AheadSet
  <1>2. AheadSet(mem', disk') = {} /\ Agree(mem', disk', Exempt', vault')
    BY <1>1, Parts, AgreeReflexive
  <1>3. torn' = Exempt /\ Exempt' = Exempt
    BY <1>1, <1>2 DEF Exempt
  <1>4. TypeInv'
    BY <1>1, <1>3, Parts DEF TypeInv
  <1>5. Kept'
    BY <1>1, <1>2, <1>3, Parts DEF Kept, Drawn
  <1>6. Knows(mem, torn, h, vault, clearing)' /\ Knows(disk, Exempt, h, vault, clearing)'
    BY <1>1, <1>3, Parts
  <1>7. ~(Going(h, "commit") \/ Going(h, "insert") \/ Recovers(h) \/ Reaps(h) \/ h.at = "reap")
    BY <1>1, Parts DEF Recorded
  <1>8. Recorded'
    BY <1>1, <1>7 DEF Recorded, Going, Recovers, Reaps
  <1>9. InFlight' <=> InFlight
    BY <1>1 DEF InFlight
  <1>10. Staging'
    <2>1. CASE ~Going(h, "stage")
      BY <1>1, <2>1 DEF Staging, Going
    <2>2. CASE Going(h, "stage")
      <3>1. Fits(h.base, torn', vault, revoked, clearing)
        BY <1>3, <2>2, Parts, WiderFits DEF Staging
      <3>2. h.account \notin torn' => h.account \notin torn
        BY <1>1
      <3> QED
        BY <1>1, <1>3, <1>9, <2>2, <3>1, <3>2, Parts DEF Staging
    <2> QED
      BY <2>1, <2>2
  <1>11. Progress' /\ Replacing' /\ Creating'
    BY <1>1, <1>7, <1>9, Parts DEF Progress, Replacing, Creating, Going
  <1>12. Recovering' /\ Reaping'
    BY <1>1, <1>7 DEF Recovering, Reaping, Recovers, Reaps, Going
  <1> QED
    BY <1>4, <1>5, <1>6, <1>8, <1>10, <1>11, <1>12 DEF IInv, Doing

-----------------------------------------------------------------------------
(* Requests.                                                                *)

\* What was not drawn is in no configuration and in no slot.
LEMMA Undrawn ==
    ASSUME IInv
    PROVE  /\ \A i \in Identities : i \notin used =>
                /\ i \notin revoked /\ \A s \in Slots, r \in Records : vault[s][r] # i
                /\ \A a \in Accounts : mem.binding[a] # i /\ disk.binding[a] # i
           /\ \A s \in Slots : s \notin used =>
                /\ vault[s] = Nothing /\ s \notin Listing(mem) /\ s \notin Listing(disk)
                /\ s \notin mem.accounts \union Pending(mem)
                /\ s \notin disk.accounts \union Pending(disk)
           /\ First \in used
  <1>1. /\ Sound(mem, vault, used) /\ Sound(disk, vault, used) /\ Drawn
    BY Parts
  <1>2. Listing(mem) \subseteq used /\ Listing(disk) \subseteq used
    BY <1>1 DEF Sound, Listing, Pending
  <1> QED
    BY <1>1, <1>2, Marks DEF Sound, Drawn

LEMMA CreateKeeps ==
    ASSUME NEW a \in Accounts, NEW i \in Identities
    PROVE  IInv /\ Create(a, i) => IInv'
  <1> SUFFICES ASSUME IInv, Create(a, i) PROVE IInv'
    OBVIOUS
  <1>1. /\ h' \in Handlers /\ h'.at = "announce" /\ h'.account = a /\ h'.new = i
    BY IdleFields DEF Create, Handlers, Labels, Ids
  <1>2. /\ UNCHANGED <<disk, mem, vault, vaultUp, revoked, clearing, torn>>
        /\ a \notin used /\ i \notin used /\ used' = used \union {a, i}
    BY DEF Create
  <1>3. a # First /\ a \in Slots /\ vault[a] = Nothing
    BY <1>2, Undrawn, Marks
  <1>4. InFlight'
    BY <1>1, <1>2, Undrawn DEF InFlight
  <1>5. Creating'
    BY <1>1, <1>2, <1>3, <1>4 DEF Creating, Going, Aborting
  <1>6. Progress' /\ Staging' /\ Recorded' /\ Replacing' /\ Recovering' /\ Reaping'
    BY <1>1 DEF Progress, Staging, Recorded, Replacing, Recovering, Reaping, Going,
           RollingBack, Aborting, Recovers, Reaps
  <1>7. ASSUME NEW c, NEW X, \A x \in Accounts : c.binding[x] # i,
               a \notin c.accounts \union Pending(c)
        PROVE  Knows(c, X, h', vault, clearing)
    BY <1>1, <1>7 DEF Knows, Going, RollingBack, Aborting
  <1>8. Knows(mem, torn, h', vault, clearing) /\ Knows(disk, Exempt, h', vault, clearing)
    BY <1>2, <1>3, <1>7, Undrawn
  <1>9. Doing'
    BY <1>2, <1>5, <1>6, <1>8 DEF Doing, Exempt
  <1>10. vaultUp' \in BOOLEAN
    BY <1>2, Parts
  <1> QED
    BY <1>1, <1>2, <1>9, <1>10, Moves

\* A complete slot of an account has the records of its binding, one that is
\* not is empty or a victim of clear_all_data.
LEMMA AccountContents ==
    ASSUME IInv, NEW a \in mem.accounts \ torn, mem.replacing[a] = None
    PROVE  /\ Complete(a) => mem.binding[a] # None /\ vault[a] = Holds(mem.binding[a])
           /\ ~Complete(a) => clearing \/ mem.binding[a] = None
  <1>0. mem \in Config /\ TypeInv /\ Fits(mem, torn, vault, revoked, clearing)
    BY Parts
  <1>1. a \in Accounts /\ a \in Slots /\ vault[a] \in Contents /\ mem.binding[a] \in Ids
    BY <1>0, ConfigFields, TypeFields, Marks
  <1>2. \A r \in Records : vault[a][r] = mem.binding[a] \/ (clearing /\ vault[a][r] = None)
    BY <1>0, <1>1 DEF Fits, Of
  <1> QED
    BY <1>1, <1>2, RecordFacts DEF Complete

LEMMA ReplaceKeeps ==
    ASSUME NEW a \in Accounts, NEW i \in Identities, NEW b \in Backups
    PROVE  IInv /\ Replace(a, i, b) => IInv'
  <1> SUFFICES ASSUME IInv, Replace(a, i, b) PROVE IInv'
    OBVIOUS
  <1>1. /\ UNCHANGED <<disk, mem, vault, vaultUp, revoked, clearing, torn>>
        /\ b \notin used /\ i \notin used /\ used' = used \union {i, b}
        /\ a \in mem.accounts /\ mem.replacing[a] = None
    BY DEF Replace
  <1>2. /\ vault[a] \in Contents /\ b \in Slots /\ Unbacked \notin Backups
        /\ Nothing \in Contents /\ mem \in Config
        /\ {"put", "stage"} \subseteq Labels
    BY Parts, TypeFields, Marks, RecordFacts DEF Labels
  <1>3. /\ h' \in Handlers /\ h'.account = a /\ h'.new = i /\ h'.base = mem
        /\ Complete(a) =>
             /\ h'.at = "put" /\ h'.slot = b /\ h'.content = vault[a] /\ h'.ok = "stage"
             /\ h'.err = "idle" /\ h'.k = 1 /\ h'.backup = b /\ h'.previous = vault[a]
        /\ ~Complete(a) => h'.at = "stage" /\ h'.backup = Unbacked /\ h'.previous = Nothing
    <2>1. CASE Complete(a)
      BY <1>2, <2>1, IdleFields DEF Replace, Handlers, Ids
    <2>2. CASE ~Complete(a)
      BY <1>2, <2>2, IdleFields DEF Replace, Handlers, Ids
    <2> QED
      BY <2>1, <2>2
  <1>4. Going(h', "stage") /\ h'.at \in {"put", "stage"} /\ (h'.at = "put" => h'.ok = "stage")
    BY <1>3 DEF Going
  <1>5. InFlight'
    BY <1>1, <1>3, Undrawn DEF InFlight
  <1>6. a \notin torn => Previous(mem, h', clearing)
    BY <1>1, <1>3, AccountContents DEF Previous
  <1>7. b \notin Listing(mem) /\ b \notin Listing(disk)
    BY <1>1, <1>2, Undrawn
  <1>8. Complete(a) /\ a \notin Exempt => disk.replacing[a] = None
    <2> SUFFICES ASSUME Complete(a), a \notin Exempt PROVE disk.replacing[a] = None
      OBVIOUS
    <2>1. disk.replacing[a] \in Backups \union {None, Unbacked}
      BY Parts, ConfigFields
    <2>2. disk.replacing[a] \notin Backups
      BY <1>1 DEF Exempt, AheadSet
    <2>3. disk.replacing[a] = Unbacked => \E r \in Records : vault[a][r] = None
      BY <1>1, Parts DEF Agree, Covers
    <2> QED
      BY <2>1, <2>2, <2>3 DEF Complete
  <1>9. ASSUME NEW c, NEW X, \A x \in Accounts : c.binding[x] # i, b \notin Listing(c),
               Complete(a) /\ a \notin X => c.replacing[a] = None
        PROVE  Knows(c, X, h', vault, clearing)
    <2>1. h'.backup \in Backups => Complete(a) /\ h'.backup = b
      BY <1>2, <1>3
    <2> QED
      BY <1>3, <1>4, <1>9, <2>1 DEF Knows, Going, RollingBack, Aborting
  <1>10. Knows(mem, torn, h', vault, clearing) /\ Knows(disk, Exempt, h', vault, clearing)
    BY <1>1, <1>7, <1>8, <1>9, Undrawn
  <1>11. Staging'
    <2>1. Sound(mem, vault, used') /\ Exempt' = Exempt
      BY <1>1, Parts, WiderSound DEF Exempt
    <2>2. Agree(mem, mem, torn, vault)
      BY Parts, AgreeReflexive
    <2>3. /\ h'.backup \in Backups =>
                /\ h'.backup \in used' /\ h'.backup \notin Listing(h'.base)
                /\ h'.previous = vault[h'.account] /\ \A r \in Records : h'.previous[r] # None
          /\ h'.backup = Unbacked =>
                h'.previous = Nothing /\ \E r \in Records : vault[h'.account][r] = None
          /\ h'.at = "put" /\ h'.ok = "stage" =>
                h'.slot = h'.backup /\ h'.backup \in Backups /\ h'.content = h'.previous
          /\ h'.at = "stage" => h'.backup \notin Backups
      BY <1>1, <1>2, <1>3, <1>7 DEF Complete
    <2>4. \A x \in Accounts : mem.binding[x] # i
      BY <1>1, Undrawn
    <2>5. \A r \in Records : h'.previous[r] # i
      BY <1>1, <1>3, Undrawn, RecordFacts, Marks
    <2> QED
      BY <1>1, <1>3, <1>5, <1>6, <2>1, <2>2, <2>3, <2>4, <2>5, Parts DEF Staging
  <1>12. Progress'
    BY <1>2, <1>3, NoneBefore DEF Progress
  <1>13. Recorded' /\ Replacing' /\ Creating' /\ Recovering' /\ Reaping'
    BY <1>4 DEF Recorded, Replacing, Creating, Recovering, Reaping, Going, RollingBack,
       Aborting, Recovers, Reaps
  <1>14. Doing'
    BY <1>1, <1>10, <1>11, <1>12, <1>13 DEF Doing, Exempt
  <1>15. vaultUp' \in BOOLEAN
    BY <1>1, Parts
  <1> QED
    BY <1>1, <1>3, <1>14, <1>15, Moves

LEMMA ClearAllKeeps == IInv /\ ClearAll => IInv'
  <1> SUFFICES ASSUME IInv, ClearAll PROVE IInv'
    OBVIOUS
  <1>1. /\ UNCHANGED <<disk, mem, vault, vaultUp, revoked, used, torn>> /\ clearing' = TRUE
        /\ h' = [Idle EXCEPT !.at = "clear", !.left = Listing(mem)]
    BY DEF ClearAll, Listing, Names
  <1>2. h' \in Handlers /\ h'.at = "clear" /\ h'.left = Listing(mem)
    <2>1. Listing(mem) \subseteq Slots
      BY Parts, ConfigFields
    <2> QED
      BY <1>1, <2>1, IdleFields DEF Handlers, Labels
  <1>3. Fits(mem, torn, vault, revoked, TRUE) /\ Fits(disk, Exempt, vault, revoked, TRUE)
    BY Parts, WiderFits
  <1>4. Kept'
    BY <1>1, <1>3, Parts DEF Kept, Exempt, Drawn
  <1>5. First \in Listing(mem) \/ vault[First] = Nothing
    BY Parts DEF Sound
  <1>6. ASSUME NEW c, NEW X, \A s \in Listed(c, X) : s \in Listing(mem) \/ vault[s] = Nothing
        PROVE  Knows(c, X, h', vault, TRUE)
    BY <1>2, <1>5, <1>6 DEF Knows, Going, RollingBack, Aborting
  <1>7. Knows(mem, torn, h', vault, TRUE) /\ Knows(disk, Exempt, h', vault, TRUE)
    <2>1. Listed(mem, torn) \subseteq Listing(mem)
      BY DEF Listed, Listing, Names
    <2>2. \A s \in Listed(disk, Exempt) : s \in Listing(mem) \/ vault[s] = Nothing
      BY Parts DEF Agree, Covers
    <2> QED
      BY <1>6, <2>1, <2>2
  <1>8. Progress' /\ Staging' /\ Recorded' /\ Replacing' /\ Creating' /\ Recovering' /\ Reaping'
    BY <1>2 DEF Progress, Staging, Recorded, Replacing, Creating, Recovering, Reaping, Going,
       RollingBack, Aborting, Recovers, Reaps
  <1>9. Doing'
    BY <1>1, <1>7, <1>8 DEF Doing, Exempt
  <1>10. TypeInv'
    BY <1>1, <1>2, Parts DEF TypeInv
  <1> QED
    BY <1>4, <1>9, <1>10 DEF IInv

LEMMA ClearSlotKeeps == ASSUME NEW s \in Slots PROVE IInv /\ ClearSlot(s) => IInv'
  <1> SUFFICES ASSUME IInv, ClearSlot(s) PROVE IInv'
    OBVIOUS
  <1>1. /\ h.at = "clear" /\ s \in h.left
        /\ UNCHANGED <<disk, mem, vault, vaultUp, revoked, used, clearing, torn>>
        /\ h' = [Wipe(s, "clear", "idle") EXCEPT !.left = @ \ {s}]
    BY DEF ClearSlot
  <1>2. /\ h' \in Handlers /\ h'.at = "wipe" /\ h'.slot = s /\ h'.ok = "clear" /\ h'.err = "idle"
        /\ h'.left = h.left \ {s} /\ h'.k = 1
    <2>1. h \in Handlers /\ "clear" \in Labels /\ "idle" \in Labels
      BY Parts DEF Labels
    <2>2. h.left \subseteq Slots
      BY <2>1, HandlerFields
    <2> DEFINE g == Wipe(s, "clear", "idle")
    <2>3. /\ g \in Handlers /\ g.at = "wipe" /\ g.slot = s /\ g.k = 1 /\ g.ok = "clear"
          /\ g.err = "idle" /\ g.left = h.left
      BY <2>1, WipeFields DEF SameBase, Begins
    <2> HIDE DEF g
    <2>4. h' = [g EXCEPT !.left = h.left \ {s}]
      BY <1>1, <2>3 DEF g
    <2> QED
      BY <2>2, <2>3, <2>4 DEF Handlers
  <1>3. ASSUME NEW c, NEW X, Knows(c, X, h, vault, clearing)
        PROVE  Knows(c, X, h', vault, clearing)
    <2>1. clearing /\ \A t \in Listed(c, X) \union {First} : t \in h.left \/ vault[t] = Nothing
      BY <1>1, <1>3 DEF Knows, Going
    <2> QED
      BY <1>2, <2>1 DEF Knows, Going, RollingBack, Aborting
  <1>4. Progress' /\ Staging' /\ Recorded' /\ Replacing' /\ Creating' /\ Recovering' /\ Reaping'
    BY <1>2, NoneBefore DEF Progress, Staging, Recorded, Replacing, Creating, Recovering,
       Reaping, Going, RollingBack, Aborting, Recovers, Reaps
  <1>5. Doing'
    BY <1>1, <1>3, <1>4, Parts DEF Doing, Exempt
  <1> QED
    BY <1>1, <1>2, <1>5, OnlyMoves

-----------------------------------------------------------------------------
(* Handlers that go on to the next call.                                    *)

LEMMA RollbackKeeps == IInv /\ Rollback => IInv'
  <1> SUFFICES ASSUME IInv, Rollback PROVE IInv'
    OBVIOUS
  <1>1. /\ h.at = "roll back"
        /\ UNCHANGED <<disk, mem, vault, vaultUp, revoked, used, clearing, torn>>
        /\ \/ h.previous = Nothing /\ h' = Wipe(h.account, "rolled back", "idle")
           \/ h.previous # Nothing /\ h' = Write(h.account, h.previous, "rolled back", "idle")
    BY DEF Rollback
  <1>2. /\ h \in Handlers /\ h.previous \in Contents /\ "rolled back" \in Labels
        /\ "idle" \in Labels
    BY Parts, HandlerFields DEF Labels
  <1>3. /\ RollingBack(h) /\ h.account \in Accounts /\ h.account \in Slots
        /\ h.previous = Nothing \/ h.backup \in Backups
        /\ h.backup = Unbacked => h.previous = Nothing
        /\ \A r \in Records : h.previous[r] \in used \union {None}
    BY <1>1, Parts, Marks DEF Replacing, RollingBack, Going
  <1>4. /\ h' \in Handlers /\ SameBase(h') /\ h'.at \in {"put", "wipe"} /\ h'.slot = h.account
        /\ h'.ok = "rolled back" /\ h'.err = "idle" /\ h'.k = 1
        /\ h'.at = "put" => h'.content = h.previous /\ h.previous # Nothing
        /\ h'.at = "wipe" => h.previous = Nothing
    <2>1. CASE h.previous = Nothing
      <3>1. Begins(h', "wipe", h.account, "rolled back", "idle")
        BY <1>1, <1>2, <1>3, <2>1, WipeFields
      <3> QED
        BY <2>1, <3>1 DEF Begins
    <2>2. CASE h.previous # Nothing
      <3>1. h' = Write(h.account, h.previous, "rolled back", "idle")
        BY <1>1, <2>2
      <3>2. /\ Begins(h', "put", h.account, "rolled back", "idle")
            /\ h'.content = h.previous
        BY <1>2, <1>3, <3>1, PutFields
      <3> QED
        BY <2>2, <3>2 DEF Begins
    <2> QED
      BY <2>1, <2>2
  <1>5. ASSUME NEW c, NEW X, Knows(c, X, h, vault, clearing)
        PROVE  Knows(c, X, h', vault, clearing)
    <2>1. Previous(c, h', clearing) <=> Previous(c, h, clearing)
      BY <1>4 DEF Previous, SameBase
    <2> QED
      BY <1>3, <1>4, <1>5, <2>1 DEF Knows, Going, RollingBack, Aborting, SameBase
  <1>6. Progress'
    BY <1>3, <1>4, NoneBefore DEF Progress
  <1>7. Staging' /\ Recorded' /\ Creating' /\ Recovering' /\ Reaping'
    BY <1>4 DEF Staging, Recorded, Creating, Recovering, Reaping, Going, RollingBack, Aborting,
       Recovers, Reaps
  <1>8. Replacing'
    BY <1>1, <1>3, <1>4 DEF Replacing, Going, RollingBack, SameBase
  <1>9. Doing'
    BY <1>1, <1>5, <1>6, <1>7, <1>8, Parts DEF Doing, Exempt
  <1> QED
    BY <1>1, <1>4, <1>9, OnlyMoves

LEMMA AbortKeeps == IInv /\ Abort => IInv'
  <1> SUFFICES ASSUME IInv, Abort PROVE IInv'
    OBVIOUS
  <1>1. /\ h.at = "abort" /\ h' = Wipe(h.account, "forget", "forget")
        /\ UNCHANGED <<disk, mem, vault, vaultUp, revoked, used, clearing, torn>>
    BY DEF Abort
  <1>2. h \in Handlers /\ "forget" \in Labels
    BY Parts DEF Labels
  <1>3. h.account \in Accounts /\ h.account \in Slots /\ Aborting(h)
    BY <1>1, Parts, Marks DEF Creating, Aborting, Going
  <1>4. /\ h' \in Handlers /\ SameBase(h') /\ h'.at = "wipe" /\ h'.slot = h.account
        /\ h'.ok = "forget" /\ h'.err = "forget" /\ h'.k = 1
    BY <1>1, <1>2, <1>3, WipeFields DEF Begins
  <1>5. ASSUME NEW c, NEW X, Knows(c, X, h, vault, clearing)
        PROVE  Knows(c, X, h', vault, clearing)
    BY <1>3, <1>4, <1>5 DEF Knows, Going, RollingBack, Aborting, SameBase
  <1>6. Progress'
    BY <1>3, <1>4, NoneBefore DEF Progress
  <1>7. Staging' /\ Recorded' /\ Replacing' /\ Recovering' /\ Reaping'
    BY <1>4 DEF Staging, Recorded, Replacing, Recovering, Reaping, Going, RollingBack, Aborting,
       Recovers, Reaps
  <1>8. Creating'
    BY <1>3, <1>4 DEF Creating, Going, Aborting, SameBase
  <1>9. Doing'
    BY <1>1, <1>5, <1>6, <1>7, <1>8, Parts DEF Doing, Exempt
  <1> QED
    BY <1>1, <1>4, <1>9, OnlyMoves

LEMMA StartKeeps == IInv /\ Start => IInv'
  <1> SUFFICES ASSUME IInv, Start PROVE IInv'
    OBVIOUS
  <1>1. /\ h.at = "off" /\ mem' = disk
        /\ UNCHANGED <<disk, vault, vaultUp, revoked, used, clearing, torn>>
        /\ h' = [Idle EXCEPT !.at = "recover",
                             !.left = {a \in Accounts : disk.replacing[a] # None}]
    BY DEF Start
  <1>2. Exempt = torn
    BY <1>1, Parts DEF Exempt, Recorded
  <1>3. /\ h' \in Handlers /\ h'.at = "recover" /\ h'.done = {}
        /\ h'.left = {a \in Accounts : disk.replacing[a] # None}
    <2> DEFINE L == {a \in Accounts : disk.replacing[a] # None}
    <2>1. L \subseteq Slots
      BY Marks
    <2>2. h' = [Idle EXCEPT !.at = "recover", !.left = L]
      BY <1>1
    <2> HIDE DEF L
    <2>3. h' \in Handlers /\ h'.at = "recover" /\ h'.done = {} /\ h'.left = L
      BY <2>1, <2>2, IdleFields DEF Handlers, Labels
    <2> QED
      BY <2>3 DEF L
  <1>4. Agree(mem', disk', Exempt', vault') /\ Exempt' = torn
    BY <1>1, Parts, AgreeReflexive DEF Exempt
  <1>5. TypeInv'
    BY <1>1, <1>3, Parts DEF TypeInv
  <1>6. Kept'
    BY <1>1, <1>2, <1>4, Parts DEF Kept, Drawn
  <1>7. ASSUME NEW c, NEW X PROVE Knows(c, X, h', vault, clearing)
    BY <1>3 DEF Knows, Going, RollingBack, Aborting
  <1>8. Progress' /\ Staging' /\ Recorded' /\ Replacing' /\ Creating' /\ Reaping'
    BY <1>1, <1>3 DEF Progress, Staging, Recorded, Replacing, Creating, Reaping, Going,
       RollingBack, Aborting, Recovers, Reaps
  <1>9. Recovering'
    BY <1>1, <1>3 DEF Recovering, Going, Recovers
  <1>10. Doing'
    BY <1>1, <1>4, <1>7, <1>8, <1>9 DEF Doing
  <1> QED
    BY <1>5, <1>6, <1>10 DEF IInv

LEMMA ReapKeeps == IInv /\ Reap => IInv'
  <1> SUFFICES ASSUME IInv, Reap PROVE IInv'
    OBVIOUS
  <1>1. /\ h.at = "reap" /\ UNCHANGED <<disk, mem, vault, vaultUp, revoked, used, clearing, torn>>
        /\ \/ h' = At("idle")
           \/ h' = [h EXCEPT !.at = "reaping", !.left = Pending(mem), !.done = {},
                             !.error = FALSE]
    BY DEF Reap
  <1>2. h \in Handlers /\ Pending(mem) \subseteq Slots /\ mem = disk
    BY <1>1, Parts, ConfigFields DEF Recorded
  <1>3. CASE h' = At("idle")
    <2>1. h' \in Handlers /\ h'.at = "idle"
      BY <1>2, <1>3, AtFields DEF Labels
    <2> QED
      BY <1>1, <2>1, Quiet, OnlyMoves
  <1>4. CASE h' = [h EXCEPT !.at = "reaping", !.left = Pending(mem), !.done = {}, !.error = FALSE]
    <2>1. h' \in Handlers /\ h'.at = "reaping" /\ h'.left = Pending(mem) /\ h'.done = {}
      BY <1>2, <1>4 DEF Handlers, Labels
    <2>2. ASSUME NEW c, NEW X PROVE Knows(c, X, h', vault, clearing)
      BY <2>1 DEF Knows, Going, RollingBack, Aborting
    <2>3. Progress' /\ Staging' /\ Recorded' /\ Replacing' /\ Creating' /\ Recovering'
      BY <1>1, <1>2, <2>1 DEF Progress, Staging, Recorded, Replacing, Creating, Recovering, Going,
         RollingBack, Aborting, Recovers, Reaps
    <2>4. Reaping'
      BY <1>1, <2>1 DEF Reaping, Going, Reaps
    <2>5. Doing'
      BY <1>1, <2>2, <2>3, <2>4 DEF Doing
    <2> QED
      BY <1>1, <2>1, <2>5, OnlyMoves
  <1> QED
    BY <1>1, <1>3, <1>4

LEMMA ReapedKeeps == IInv /\ Reaped => IInv'
  <1> SUFFICES ASSUME IInv, Reaped PROVE IInv'
    OBVIOUS
  <1>1. /\ h.at \in {"reaped", "not reaped"}
        /\ UNCHANGED <<disk, mem, vault, vaultUp, revoked, used, clearing, torn>>
        /\ h' = [h EXCEPT !.at = "reaping",
                          !.done = IF h.at = "reaped" THEN @ \union {h.slot} ELSE @,
                          !.error = @ \/ h.at = "not reaped"]
    BY DEF Reaped
  <1>2. /\ h \in Handlers /\ h.done \subseteq Slots /\ mem = disk
        /\ h.left \union h.done \subseteq Pending(mem) /\ \A s \in h.done : vault[s] = Nothing
        /\ h.slot \in Pending(mem) /\ Pending(mem) \subseteq Slots
        /\ h.at = "reaped" => vault[h.slot] = Nothing
    <2>1. Reaps(h)
      BY <1>1 DEF Reaps, Going
    <2>2. h \in Handlers /\ Recorded /\ Reaping /\ mem \in Config
      BY Parts
    <2> QED
      BY <1>1, <2>1, <2>2, HandlerFields, ConfigFields DEF Recorded, Reaping, Going
  <1>3. /\ h' \in Handlers /\ h'.at = "reaping" /\ h'.left = h.left
        /\ h'.done = IF h.at = "reaped" THEN h.done \union {h.slot} ELSE h.done
    <2> DEFINE D == IF h.at = "reaped" THEN h.done \union {h.slot} ELSE h.done
               E == h.error \/ h.at = "not reaped"
    <2>1. D \subseteq Slots
      BY <1>2
    <2>2. E \in BOOLEAN
      BY <1>2 DEF Handlers
    <2>3. h' = [h EXCEPT !.at = "reaping", !.done = D, !.error = E]
      BY <1>1
    <2> HIDE DEF D, E
    <2>4. h' \in Handlers /\ h'.at = "reaping" /\ h'.left = h.left /\ h'.done = D
      BY <1>2, <2>1, <2>2, <2>3 DEF Handlers, Labels
    <2> QED
      BY <2>4 DEF D
  <1>4. ASSUME NEW c, NEW X PROVE Knows(c, X, h', vault, clearing)
    BY <1>3 DEF Knows, Going, RollingBack, Aborting
  <1>5. Progress' /\ Staging' /\ Recorded' /\ Replacing' /\ Creating' /\ Recovering'
    BY <1>1, <1>2, <1>3 DEF Progress, Staging, Recorded, Replacing, Creating, Recovering, Going,
       RollingBack, Aborting, Recovers, Reaps
  <1>6. Reaping'
    <2>1. /\ h'.left \union h'.done \subseteq Pending(mem)
          /\ \A s \in h'.done : vault[s] = Nothing
      BY <1>2, <1>3
    <2> QED
      BY <1>1, <1>3, <2>1 DEF Reaping, Going, Reaps
  <1>7. Doing'
    BY <1>1, <1>4, <1>5, <1>6 DEF Doing
  <1> QED
    BY <1>1, <1>3, <1>7, OnlyMoves

LEMMA RecoveredKeeps == IInv /\ Recovered => IInv'
  <1> SUFFICES ASSUME IInv, Recovered PROVE IInv'
    OBVIOUS
  <1>1. /\ h.at \in {"recovered", "not recovered"}
        /\ UNCHANGED <<disk, mem, vault, vaultUp, revoked, used, clearing, torn>>
        /\ h' = [h EXCEPT !.at = "recover", !.left = @ \ {h.account},
                          !.done = IF h.at = "recovered" THEN @ \union {h.account} ELSE @,
                          !.error = @ \/ h.at = "not recovered"]
    BY DEF Recovered
  <1>2. h \in Handlers /\ Recorded /\ Recovering /\ Recovers(h)
    BY <1>1, Parts DEF Recovers, Going
  <1>3. /\ mem = disk /\ h.account \in h.left /\ h.left \subseteq Slots /\ h.done \subseteq Slots
        /\ \A a \in h.left \union h.done : a \in Accounts /\ mem.replacing[a] # None
        /\ h.left \intersect h.done = {}
    BY <1>1, <1>2, HandlerFields DEF Recorded, Recovering, Going
  <1>4. /\ \A a \in h.done : mem.replacing[a] = Unbacked => vault[a] = Nothing
        /\ \A a \in h.done \ torn : Of(vault, clearing, a, mem.binding[a])
        /\ h.at = "recovered" =>
             /\ mem.replacing[h.account] = Unbacked => vault[h.account] = Nothing
             /\ h.account \notin torn => Of(vault, clearing, h.account, mem.binding[h.account])
    BY <1>2 DEF Recovering
  <1>5. /\ h' \in Handlers /\ h'.at = "recover" /\ h'.left = h.left \ {h.account}
        /\ h'.done = IF h.at = "recovered" THEN h.done \union {h.account} ELSE h.done
    <2> DEFINE D == IF h.at = "recovered" THEN h.done \union {h.account} ELSE h.done
               E == h.error \/ h.at = "not recovered"
               L == h.left \ {h.account}
    <2>1. D \subseteq Slots /\ L \subseteq Slots
      BY <1>3
    <2>2. E \in BOOLEAN
      BY <1>2 DEF Handlers
    <2>3. h' = [h EXCEPT !.at = "recover", !.left = L, !.done = D, !.error = E]
      BY <1>1
    <2> HIDE DEF D, E, L
    <2>4. h' \in Handlers /\ h'.at = "recover" /\ h'.left = L /\ h'.done = D
      BY <1>2, <2>1, <2>2, <2>3 DEF Handlers, Labels
    <2> QED
      BY <2>4 DEF D, L
  <1>6. ASSUME NEW c, NEW X PROVE Knows(c, X, h', vault, clearing)
    BY <1>5 DEF Knows, Going, RollingBack, Aborting
  <1>7. Progress' /\ Staging' /\ Recorded' /\ Replacing' /\ Creating' /\ Reaping'
    BY <1>1, <1>3, <1>5 DEF Progress, Staging, Recorded, Replacing, Creating, Reaping, Going,
       RollingBack, Aborting, Recovers, Reaps
  <1>8. Recovering'
    <2>1. \A a \in h'.left \union h'.done : a \in Accounts /\ mem.replacing[a] # None
      BY <1>3, <1>5
    <2>2. h'.left \intersect h'.done = {}
      BY <1>3, <1>5
    <2>3. \A a \in h'.done : mem.replacing[a] = Unbacked => vault[a] = Nothing
      BY <1>4, <1>5
    <2>4. \A a \in h'.done \ torn : Of(vault, clearing, a, mem.binding[a])
      BY <1>4, <1>5
    <2> QED
      BY <1>1, <1>5, <2>1, <2>2, <2>3, <2>4 DEF Recovering, Going
  <1>9. Doing'
    BY <1>1, <1>6, <1>7, <1>8 DEF Doing
  <1> QED
    BY <1>1, <1>5, <1>9, OnlyMoves

LEMMA RecoverKeeps == ASSUME NEW a \in Accounts PROVE IInv /\ Recover(a) => IInv'
  <1> SUFFICES ASSUME IInv, Recover(a) PROVE IInv'
    OBVIOUS
  <1> DEFINE b == mem.replacing[a]
  <1>1. /\ h.at = "recover" /\ a \in h.left
        /\ UNCHANGED <<disk, mem, vault, vaultUp, revoked, used, clearing, torn>>
        /\ \/ b = Unbacked /\ h' = [Wipe(a, "recovered", "not recovered") EXCEPT !.account = a]
           \/ /\ b # Unbacked /\ Complete(b)
              /\ h' = [Write(a, vault[b], "recovered", "not recovered") EXCEPT !.account = a]
           \/ h' = [h EXCEPT !.left = @ \ {a}, !.error = TRUE]
    BY DEF Recover
  <1>2. h \in Handlers /\ Recorded /\ Recovering /\ Recovers(h) /\ mem \in Config /\ TypeInv
    BY <1>1, Parts DEF Recovers
  <1>3. /\ mem = disk /\ h.left \subseteq Slots /\ h.done \subseteq Slots
        /\ \A x \in h.left \union h.done : x \in Accounts /\ mem.replacing[x] # None
        /\ h.left \intersect h.done = {}
        /\ \A x \in h.done : mem.replacing[x] = Unbacked => vault[x] = Nothing
        /\ \A x \in h.done \ torn : Of(vault, clearing, x, mem.binding[x])
    BY <1>1, <1>2, HandlerFields DEF Recorded, Recovering
  <1>4. /\ a \in Slots /\ b \in Backups \union {Unbacked}
        /\ {"recovered", "not recovered", "recover"} \subseteq Labels
    BY <1>1, <1>2, <1>3, ConfigFields, Marks DEF Labels
  <1>5. CASE h' = [h EXCEPT !.left = @ \ {a}, !.error = TRUE]
    <2>1. /\ h' \in Handlers /\ h'.at = "recover" /\ h'.left = h.left \ {a} /\ h'.done = h.done
      BY <1>1, <1>2, <1>3, <1>5 DEF Handlers
    <2>2. ASSUME NEW c, NEW X PROVE Knows(c, X, h', vault, clearing)
      BY <2>1 DEF Knows, Going, RollingBack, Aborting
    <2>3. Progress' /\ Staging' /\ Recorded' /\ Replacing' /\ Creating' /\ Reaping'
      BY <1>1, <1>3, <2>1 DEF Progress, Staging, Recorded, Replacing, Creating, Reaping, Going,
         RollingBack, Aborting, Recovers, Reaps
    <2>4. /\ \A x \in h'.left \union h'.done : x \in Accounts /\ mem.replacing[x] # None
          /\ h'.left \intersect h'.done = {}
      BY <1>3, <2>1
    <2>5. Recovering'
      BY <1>1, <1>3, <2>1, <2>4 DEF Recovering, Going
    <2>6. Doing'
      BY <1>1, <2>2, <2>3, <2>5 DEF Doing
    <2> QED
      BY <1>1, <2>1, <2>6, OnlyMoves
  <1>6. CASE h' # [h EXCEPT !.left = @ \ {a}, !.error = TRUE]
    <2>1. /\ h' \in Handlers /\ h'.at \in {"put", "wipe"} /\ h'.slot = a /\ h'.account = a
          /\ h'.k = 1 /\ h'.ok = "recovered" /\ h'.err = "not recovered"
          /\ h'.left = h.left /\ h'.done = h.done
          /\ h'.at = "wipe" => b = Unbacked
          /\ h'.at = "put" => b \in Backups /\ Complete(b) /\ h'.content = vault[b]
      <3>1. CASE b = Unbacked
        <4> DEFINE g == Wipe(a, "recovered", "not recovered")
        <4>1. Begins(g, "wipe", a, "recovered", "not recovered")
          BY <1>2, <1>4, WipeFields
        <4>2. h' = [g EXCEPT !.account = a]
          BY <1>1, <1>6, <3>1
        <4> HIDE DEF g
        <4>3. /\ g \in Handlers /\ g.at = "wipe" /\ g.slot = a /\ g.k = 1 /\ g.ok = "recovered"
              /\ g.err = "not recovered" /\ g.left = h.left /\ g.done = h.done
          BY <4>1 DEF Begins, SameBase
        <4> QED
          BY <3>1, <4>2, <4>3 DEF Handlers
      <3>2. CASE b # Unbacked
        <4> DEFINE g == Write(a, vault[b], "recovered", "not recovered")
        <4>0. b \in Backups /\ vault[b] \in Contents
          BY <1>2, <1>4, <3>2, TypeFields, Marks
        <4>1. Begins(g, "put", a, "recovered", "not recovered") /\ g.content = vault[b]
          BY <1>2, <1>4, <4>0, PutFields
        <4>2. h' = [g EXCEPT !.account = a] /\ Complete(b)
          BY <1>1, <1>6, <3>2
        <4> HIDE DEF g
        <4>3. /\ g \in Handlers /\ g.at = "put" /\ g.slot = a /\ g.k = 1 /\ g.ok = "recovered"
              /\ g.err = "not recovered" /\ g.left = h.left /\ g.done = h.done
          BY <4>1 DEF Begins, SameBase
        <4> QED
          BY <4>0, <4>1, <4>2, <4>3 DEF Handlers
      <3> QED
        BY <3>1, <3>2
    <2>2. ASSUME NEW c, NEW X PROVE Knows(c, X, h', vault, clearing)
      BY <2>1 DEF Knows, Going, RollingBack, Aborting
    <2>3. Progress'
      BY <1>4, <2>1, NoneBefore DEF Progress
    <2>4. Staging' /\ Recorded' /\ Replacing' /\ Creating' /\ Reaping'
      BY <1>1, <1>3, <2>1 DEF Staging, Recorded, Replacing, Creating, Reaping, Going,
         RollingBack, Aborting, Recovers, Reaps
    <2>5. h'.at = "put" => ~Foreign(mem, a, h'.content)
      <3>1. Sound(mem, vault, used)
        BY Parts
      <3>2. b \in Backups => \A x \in Accounts, r \in Records :
              x # a /\ mem.binding[x] # None => vault[b][r] # mem.binding[x]
        BY <3>1 DEF Sound
      <3> QED
        BY <2>1, <3>2 DEF Foreign
    <2>6. h'.at = "put" /\ a \notin torn =>
            mem.binding[a] # None /\ h'.content = Holds(mem.binding[a])
      <3> SUFFICES ASSUME h'.at = "put", a \notin torn
                   PROVE  mem.binding[a] # None /\ h'.content = Holds(mem.binding[a])
        OBVIOUS
      <3>1. mem.binding[a] # None /\ Of(vault, clearing, b, mem.binding[a])
        BY <2>1, Parts DEF Fits
      <3>2. vault[b] \in Contents
        BY <1>2, <2>1, TypeFields, Marks
      <3>3. \A r \in Records : vault[b][r] = mem.binding[a]
        BY <2>1, <3>1 DEF Of, Complete
      <3> QED
        BY <2>1, <3>1, <3>2, <3>3, RecordFacts
    <2>7. h'.at = "put" => \A r \in Records : h'.content[r] \in used \union {None}
      BY <2>1, Parts, Marks DEF Drawn
    <2>8. Recovering'
      BY <1>1, <1>3, <2>1, <2>5, <2>6, <2>7 DEF Recovering, Going
    <2>9. Doing'
      BY <1>1, <2>2, <2>3, <2>4, <2>8 DEF Doing
    <2> QED
      BY <1>1, <2>1, <2>9, OnlyMoves
  <1> QED
    BY <1>5, <1>6

-----------------------------------------------------------------------------
(* Licences that are given up.                                              *)

LEMMA RevokeFits ==
    ASSUME NEW c, NEW X, NEW v, NEW R, NEW e, NEW i, Fits(c, X, v, R, e),
           \A a \in Accounts \ X : c.binding[a] # i
    PROVE  Fits(c, X, v, R \union {i}, e)
  BY DEF Fits

LEMMA UnbindKeeps == IInv /\ Unbind => IInv'
  <1> SUFFICES ASSUME IInv, Unbind PROVE IInv'
    OBVIOUS
  <1>1. /\ h.at = "unbind" /\ h' = At("roll back")
        /\ UNCHANGED <<disk, mem, vault, vaultUp, used, clearing, torn>>
        /\ revoked' = revoked \/ revoked' = revoked \union {h.new}
    BY DEF Unbind
  <1>2. /\ h.new \in Identities /\ h.new \in used
        /\ \A a \in Accounts \ torn : mem.binding[a] # h.new
        /\ \A a \in Accounts \ Exempt : disk.binding[a] # h.new
    BY <1>1, Parts DEF Replacing, Knows
  <1>3. h \in Handlers /\ h' \in Handlers /\ h'.at = "roll back" /\ SameBase(h')
    BY <1>1, Parts, AtFields DEF Labels
  <1>4. Exempt' = Exempt
    BY <1>1 DEF Exempt
  <1>5. Fits(mem, torn, vault, revoked', clearing) /\ Fits(disk, Exempt, vault, revoked', clearing)
    <2>1. Fits(mem, torn, vault, revoked, clearing) /\ Fits(disk, Exempt, vault, revoked, clearing)
      BY Parts
    <2>2. /\ Fits(mem, torn, vault, revoked \union {h.new}, clearing)
          /\ Fits(disk, Exempt, vault, revoked \union {h.new}, clearing)
      BY <1>2, <2>1, RevokeFits
    <2> QED
      BY <1>1, <2>1, <2>2
  <1>6. TypeInv'
    BY <1>1, <1>2, <1>3, Parts DEF TypeInv
  <1>7. Drawn'
    BY <1>1, <1>2, Parts DEF Drawn
  <1>8. Kept'
    BY <1>1, <1>4, <1>5, <1>7, Parts DEF Kept
  <1>9. ASSUME NEW c, NEW X, Knows(c, X, h, vault, clearing)
        PROVE  Knows(c, X, h', vault, clearing)
    <2>1. Previous(c, h', clearing) <=> Previous(c, h, clearing)
      BY <1>3 DEF Previous, SameBase
    <2> QED
      BY <1>1, <1>3, <1>9, <2>1 DEF Knows, Going, RollingBack, Aborting, SameBase
  <1>10. Progress' /\ Staging' /\ Recorded' /\ Creating' /\ Recovering' /\ Reaping'
    BY <1>3 DEF Progress, Staging, Recorded, Creating, Recovering, Reaping, Going,
       RollingBack, Aborting, Recovers, Reaps
  <1>11. Replacing'
    <2>1. /\ h.account \in Accounts
          /\ h.previous = Nothing \/ h.backup \in Backups
          /\ h.backup = Unbacked => h.previous = Nothing
          /\ \A r \in Records : h.previous[r] \in used \union {None}
      BY <1>1, Parts DEF Replacing, RollingBack
    <2> QED
      BY <1>1, <1>3, <2>1 DEF Replacing, Going, RollingBack, SameBase
  <1>12. Doing'
    BY <1>1, <1>4, <1>9, <1>10, <1>11, Parts DEF Doing
  <1> QED
    BY <1>6, <1>8, <1>12 DEF IInv

LEMMA ReapSlotKeeps == ASSUME NEW s \in Slots PROVE IInv /\ ReapSlot(s) => IInv'
  <1> SUFFICES ASSUME IInv, ReapSlot(s) PROVE IInv'
    OBVIOUS
  <1> DEFINE g == Wipe(s, "reaped", "not reaped")
             L == h.left \ {s}
  <1>1. /\ h.at = "reaping" /\ s \in h.left
        /\ UNCHANGED <<disk, mem, vault, vaultUp, used, clearing, torn>>
        /\ h' = [g EXCEPT !.left = @ \ {s}] \/ h' = [h EXCEPT !.left = L, !.error = TRUE]
        /\ \/ revoked' = revoked
           \/ s \notin mem.local /\ Complete(s) /\ revoked' = revoked \union {vault[s][1]}
    BY DEF ReapSlot
  <1>2. h \in Handlers /\ Recorded /\ Reaping /\ Reaps(h) /\ mem \in Config /\ TypeInv
    BY <1>1, Parts DEF Reaps
  <1>3. /\ mem = disk /\ h.left \subseteq Slots /\ s \in Pending(mem)
        /\ h.left \union h.done \subseteq Pending(mem) /\ \A t \in h.done : vault[t] = Nothing
        /\ {"reaped", "not reaped", "reaping"} \subseteq Labels
    BY <1>1, <1>2, HandlerFields DEF Recorded, Reaping, Labels
  <1>4. /\ h' \in Handlers /\ h'.left = L /\ h'.done = h.done
        /\ \/ h'.at = "reaping"
           \/ /\ h'.at = "wipe" /\ h'.slot = s /\ h'.k = 1 /\ h'.ok = "reaped"
              /\ h'.err = "not reaped"
    <2>1. Begins(g, "wipe", s, "reaped", "not reaped")
      BY <1>2, <1>3, WipeFields
    <2>2. /\ g \in Handlers /\ g.at = "wipe" /\ g.slot = s /\ g.k = 1 /\ g.ok = "reaped"
          /\ g.err = "not reaped" /\ g.left = h.left /\ g.done = h.done
      BY <2>1 DEF Begins, SameBase
    <2>3. L \subseteq Slots
      BY <1>3
    <2>4. h' = [g EXCEPT !.left = L] \/ h' = [h EXCEPT !.left = L, !.error = TRUE]
      BY <1>1, <2>2
    <2> HIDE DEF g, L
    <2> QED
      BY <1>1, <1>2, <2>2, <2>3, <2>4 DEF Handlers
  <1> HIDE DEF g
  <1>5. revoked' = revoked \/
          \E i \in Identities :
            /\ i \in used /\ revoked' = revoked \union {i}
            /\ \A a \in Accounts \ torn : mem.binding[a] # i
    <2> SUFFICES ASSUME s \notin mem.local, Complete(s), revoked' = revoked \union {vault[s][1]}
                 PROVE  LET i == vault[s][1]
                        IN /\ i \in Identities /\ i \in used
                           /\ \A a \in Accounts \ torn : mem.binding[a] # i
      BY <1>1
    <2>1. vault[s][1] \in Identities /\ vault[s][1] # None
      BY <1>2, TypeFields, RecordFacts DEF Complete, Ids
    <2>2. vault[s][1] \in used
      BY <2>1, Parts, RecordFacts DEF Drawn
    <2>3. s \in mem.deletions \union mem.creations
      BY <1>3 DEF Pending
    <2>4. \A a \in Accounts \ torn : mem.binding[a] # vault[s][1]
      BY <2>1, <2>3, Parts, RecordFacts DEF Fits
    <2> QED
      BY <2>1, <2>2, <2>4
  <1>6. Exempt' = Exempt /\ torn \subseteq Exempt
    BY <1>1 DEF Exempt
  <1>7. Fits(mem, torn, vault, revoked', clearing) /\ Fits(disk, Exempt, vault, revoked', clearing)
    <2>1. Fits(mem, torn, vault, revoked, clearing)
      BY Parts
    <2>2. Fits(mem, torn, vault, revoked', clearing)
      BY <1>5, <2>1, RevokeFits
    <2>3. Fits(mem, Exempt, vault, revoked', clearing)
      BY <1>6, <2>2, WiderFits
    <2> QED
      BY <1>3, <2>2, <2>3
  <1>8. TypeInv'
    BY <1>1, <1>2, <1>4, <1>5 DEF TypeInv
  <1>9. Drawn'
    BY <1>1, <1>5, Parts DEF Drawn
  <1>10. Kept'
    BY <1>1, <1>6, <1>7, <1>9, Parts DEF Kept
  <1>11. ASSUME NEW c, NEW X PROVE Knows(c, X, h', vault, clearing)
    BY <1>4 DEF Knows, Going, RollingBack, Aborting
  <1>12. Progress'
    BY <1>4, NoneBefore DEF Progress
  <1>13. Staging' /\ Recorded' /\ Replacing' /\ Creating' /\ Recovering'
    BY <1>1, <1>3, <1>4 DEF Staging, Recorded, Replacing, Creating, Recovering, Going,
       RollingBack, Aborting, Recovers, Reaps
  <1>14. Reaping'
    BY <1>1, <1>3, <1>4 DEF Reaping, Going, Reaps
  <1>15. Doing'
    BY <1>1, <1>11, <1>12, <1>13, <1>14 DEF Doing
  <1> QED
    BY <1>8, <1>10, <1>15 DEF IInv

-----------------------------------------------------------------------------
(* Writing a slot.                                                          *)

LEMMA PutCases ==
    ASSUME IInv, h.at = "put"
    PROVE  /\ h \in Handlers /\ h.slot \in Slots /\ h.k \in Records /\ h.content \in Contents
           /\ \/ h.ok = "stage" /\ h.err = "idle" /\ Going(h, "stage")
              \/ h.ok = "commit" /\ h.err = "roll back" /\ Going(h, "commit")
              \/ h.ok = "rolled back" /\ h.err = "idle" /\ RollingBack(h)
              \/ h.ok = "insert" /\ h.err = "abort" /\ Going(h, "insert")
              \/ h.ok = "recovered" /\ h.err = "not recovered" /\ Recovers(h)
  <1>1. h \in Handlers /\ Progress
    BY Parts
  <1>2. h.slot \in Slots /\ <<h.ok, h.err>> \in
          {<<"stage", "idle">>, <<"commit", "roll back">>, <<"rolled back", "idle">>,
           <<"insert", "abort">>, <<"recovered", "not recovered">>}
    BY <1>1 DEF Progress
  <1>3. \/ h.ok = "stage" /\ h.err = "idle"
        \/ h.ok = "commit" /\ h.err = "roll back"
        \/ h.ok = "rolled back" /\ h.err = "idle"
        \/ h.ok = "insert" /\ h.err = "abort"
        \/ h.ok = "recovered" /\ h.err = "not recovered"
    BY <1>2
  <1> QED
    BY <1>1, <1>2, <1>3, HandlerFields DEF Going, RollingBack, Recovers

\* What is known of the slot that a step of a replacement writes.
LEMMA CommitFacts ==
    ASSUME IInv, Going(h, "commit")
    PROVE  /\ mem = disk /\ InFlight /\ h.account \in mem.accounts /\ h.account \in Accounts
           /\ (\A a \in Accounts : mem.binding[a] # h.new)
           /\ mem.replacing[h.account] = h.backup /\ h.backup \in Backups \union {Unbacked}
           /\ h.account \notin torn => Previous(mem, h, clearing)
           /\ ~Foreign(mem, h.account, h.previous)
           /\ h.previous = Nothing \/ h.backup \in Backups
           /\ h.backup = Unbacked => h.previous = Nothing
           /\ \A r \in Records : h.previous[r] \in used \union {None}
           /\ h.at \in {"put", "wipe"} => h.slot = h.account
  <1>1. h \in Handlers /\ Recorded /\ Replacing
    BY Parts
  <1> QED
    BY <1>1, HandlerFields DEF Recorded, Replacing

LEMMA RollingFacts ==
    ASSUME IInv, RollingBack(h)
    PROVE  /\ h.account \in mem.accounts /\ h.account \in disk.accounts /\ h.account \in Accounts
           /\ h.account \notin torn => mem.replacing[h.account] = h.backup
           /\ h.account \notin Exempt => disk.replacing[h.account] = h.backup
           /\ h.backup \in Backups \union {Unbacked} /\ h.backup # None
           /\ ~Foreign(mem, h.account, h.previous) /\ ~Foreign(disk, h.account, h.previous)
           /\ h.previous = Nothing \/ h.backup \in Backups
           /\ h.backup = Unbacked => h.previous = Nothing
           /\ \A r \in Records : h.previous[r] \in used \union {None}
           /\ h.at \in {"put", "wipe"} => h.slot = h.account
           /\ Knows(mem, torn, h, vault, clearing) /\ Knows(disk, Exempt, h, vault, clearing)
  <1>1. /\ h \in Handlers /\ Replacing /\ Knows(mem, torn, h, vault, clearing)
        /\ Knows(disk, Exempt, h, vault, clearing)
    BY Parts
  <1>2. h.backup \in Backups \union {Unbacked} /\ h.backup # None
    BY <1>1, HandlerFields, Marks
  <1>3. /\ h.account \in Accounts /\ (h.at \in {"put", "wipe"} => h.slot = h.account)
        /\ h.previous = Nothing \/ h.backup \in Backups
        /\ h.backup = Unbacked => h.previous = Nothing
        /\ \A r \in Records : h.previous[r] \in used \union {None}
    BY <1>1 DEF Replacing
  <1>4. /\ h.account \in mem.accounts /\ h.account \in disk.accounts
        /\ h.account \notin torn => mem.replacing[h.account] = h.backup
        /\ h.account \notin Exempt => disk.replacing[h.account] = h.backup
        /\ ~Foreign(mem, h.account, h.previous) /\ ~Foreign(disk, h.account, h.previous)
    BY <1>1 DEF Knows
  <1> QED
    BY <1>1, <1>2, <1>3, <1>4

LEMMA PutFails ==
    ASSUME IInv, h.at = "put",
           UNCHANGED <<disk, mem, vault, vaultUp, revoked, used, clearing, torn>>,
           h' = Wipe(h.slot, h.err, h.err)
    PROVE  IInv'
  <1>1. /\ h \in Handlers /\ h.slot \in Slots /\ h.err \in Labels
        /\ h.err \in {"idle", "roll back", "abort", "not recovered"}
    BY PutCases DEF Labels
  <1>2. Begins(h', "wipe", h.slot, h.err, h.err)
    BY <1>1, WipeFields
  <1>3. /\ h' \in Handlers /\ SameBase(h') /\ h'.at = "wipe" /\ h'.slot = h.slot
        /\ h'.ok = h.err /\ h'.err = h.err /\ h'.k = 1
    BY <1>2 DEF Begins
  <1>4. Progress'
    BY <1>1, <1>3, NoneBefore DEF Progress
  <1>5. Staging' /\ Reaping'
    BY <1>1, <1>3 DEF Staging, Reaping, Going, Reaps
  <1>6. torn \subseteq Exempt /\ Exempt' = Exempt
    BY DEF Exempt
  <1>7. SUFFICES /\ Knows(mem, torn, h', vault, clearing) /\ Knows(disk, Exempt, h', vault, clearing)
                 /\ Recorded' /\ Replacing' /\ Creating' /\ Recovering'
    <2>1. Doing'
      BY <1>4, <1>5, <1>6, <1>7 DEF Doing
    <2> QED
      BY <1>3, <2>1, OnlyMoves
  <1>8. CASE h.ok = "stage"
    <2>1. h'.ok = "idle" /\ Going(h, "stage")
      BY <1>3, <1>8, PutCases
    <2>2. h.slot = h.backup /\ h.backup \in Backups
      BY <1>8, Parts DEF Staging
    <2>3. ASSUME NEW c, NEW X, Knows(c, X, h, vault, clearing)
          PROVE  Knows(c, X, h', vault, clearing)
      <3>1. \A a \in Accounts : c.replacing[a] # h.slot
        BY <2>1, <2>2, <2>3 DEF Knows, Listing, Names
      <3> QED
        BY <1>3, <2>1, <2>2, <3>1 DEF Knows, Going, RollingBack, Aborting
    <2>4. Recorded' /\ Replacing' /\ Creating' /\ Recovering'
      BY <1>3, <2>1 DEF Recorded, Replacing, Creating, Recovering, Going, RollingBack, Aborting,
         Recovers, Reaps
    <2> QED
      BY <2>3, <2>4, Parts
  <1>9. CASE h.ok = "commit"
    <2>1. h'.ok = "roll back" /\ Going(h, "commit")
      BY <1>3, <1>9, PutCases
    <2>2. ASSUME NEW X, torn \subseteq X
          PROVE  Knows(mem, X, h', vault, clearing)
      <3>1. h.backup \in Backups => h.backup \in Listing(mem)
        BY <2>1, CommitFacts DEF Listing, Names
      <3>2. h.account \notin X => Previous(mem, h', clearing)
        BY <1>3, <2>1, <2>2, CommitFacts DEF Previous, SameBase
      <3> QED
        BY <1>3, <2>1, <3>1, <3>2, CommitFacts DEF Knows, Going, RollingBack, Aborting, SameBase
    <2>3. Replacing'
      BY <1>3, <2>1, <1>9, CommitFacts DEF Replacing, Going, RollingBack, SameBase
    <2>4. Recorded' /\ Creating' /\ Recovering'
      BY <1>3, <2>1 DEF Recorded, Creating, Recovering, Going, RollingBack, Aborting,
         Recovers, Reaps
    <2>5. mem = disk
      BY <2>1, CommitFacts
    <2> QED
      BY <1>6, <2>2, <2>3, <2>4, <2>5
  <1>10. CASE h.ok = "rolled back"
    <2>1. h'.ok = "idle" /\ RollingBack(h)
      BY <1>3, <1>10, PutCases
    <2>2. h.slot = h.account
      BY <2>1, RollingFacts
    <2>3. ASSUME NEW c, NEW X, h.account \notin X => c.replacing[h.account] = h.backup
          PROVE  Knows(c, X, h', vault, clearing)
      BY <1>3, <2>1, <2>2, <2>3, RollingFacts DEF Knows, Going, RollingBack, Aborting
    <2>4. Recorded' /\ Replacing' /\ Creating' /\ Recovering'
      BY <1>3, <2>1 DEF Recorded, Replacing, Creating, Recovering, Going, RollingBack, Aborting,
         Recovers, Reaps
    <2> QED
      BY <2>1, <2>3, <2>4, RollingFacts
  <1>11. CASE h.ok = "insert"
    <2>1. h'.ok = "abort" /\ Going(h, "insert")
      BY <1>3, <1>11, PutCases
    <2>2. /\ mem = disk /\ h.account \in mem.creations /\ h.account \in Accounts
          /\ h.slot = h.account
      BY <2>1, <1>11, Parts DEF Recorded, Creating
    <2>3. h.account \notin mem.accounts
      BY <2>2, Parts, ValidFacts DEF Sound, Pending
    <2>4. ASSUME NEW X PROVE Knows(mem, X, h', vault, clearing)
      BY <1>3, <2>1, <2>3 DEF Knows, Going, RollingBack, Aborting, SameBase
    <2>5. Creating'
      BY <1>3, <2>1, <2>2 DEF Creating, Going, Aborting, SameBase
    <2>6. Recorded' /\ Replacing' /\ Recovering'
      BY <1>3, <2>1 DEF Recorded, Replacing, Recovering, Going, RollingBack, Recovers, Reaps
    <2> QED
      BY <2>2, <2>4, <2>5, <2>6
  <1>12. CASE h.ok = "recovered"
    <2>1. h'.ok = "not recovered" /\ Recovers(h) /\ Going(h, "recovered")
      BY <1>3, <1>12, PutCases DEF Going
    <2>2. ASSUME NEW c, NEW X PROVE Knows(c, X, h', vault, clearing)
      BY <1>3, <2>1 DEF Knows, Going, RollingBack, Aborting
    <2>3. Recorded' /\ Replacing' /\ Creating'
      BY <1>3, <2>1, Parts DEF Recorded, Replacing, Creating, Going, RollingBack, Aborting,
         Recovers, Reaps
    <2>4. Recovering'
      BY <1>3, <2>1, Parts DEF Recovering, Going, Recovers, SameBase
    <2> QED
      BY <2>2, <2>3, <2>4
  <1> QED
    BY <1>8, <1>9, <1>10, <1>11, <1>12, PutCases

\* Record i may go to slot s, for all that a configuration c says.
Writable(c, X, s, i) ==
    /\ s \in Accounts =>
         /\ s # First \/ First \in Listing(c)
         /\ \A x \in Accounts : x # s /\ c.binding[x] # None => i # c.binding[x]
         /\ s \in X \/ s \notin c.accounts \/ c.replacing[s] # None
    /\ s \in Backups => s \notin Names(c)
    /\ s \in c.deletions \union c.creations =>
         \A a \in Accounts \ X : c.binding[a] # None => i # c.binding[a]

LEMMA WritableKeeps ==
    ASSUME NEW v \in Vaults, NEW w, NEW s \in Slots, NEW j \in Records, NEW i \in Ids,
           Written(v, w, s, j, i), NEW c \in Config, NEW X, NEW R, NEW e \in BOOLEAN, NEW U,
           Sound(c, v, U), Fits(c, X, v, R, e), Writable(c, X, s, i)
    PROVE  Sound(c, w, U) /\ Fits(c, X, w, R, e)
  <1>1. Sound(c, w, U)
    BY WriteSound DEF Writable
  <1>2. Fits(c, X, w, R, e)
    BY WriteFits DEF Writable
  <1> QED
    BY <1>1, <1>2

\* Both configurations list slot s, or neither does, and for the same reason.
SameSlot(c, d, X, s) ==
    /\ s \in Listing(c) <=> s \in Listing(d)
    /\ s \in Accounts => s \in X \/ c.replacing[s] = d.replacing[s]

LEMMA OutsideWritable ==
    ASSUME NEW c \in Config, NEW X, NEW s \in Backups, s \notin Listing(c), NEW i
    PROVE  Writable(c, X, s, i)
  <1>1. s \notin Accounts /\ s \notin c.creations
    BY ConfigFields, Marks
  <1> QED
    BY <1>1 DEF Writable, Listing

LEMMA AccountWritable ==
    ASSUME NEW c \in Config, Valid(c), NEW X, NEW s \in c.accounts, NEW i,
           s \in X \/ c.replacing[s] # None,
           \A x \in Accounts : x # s /\ c.binding[x] # None => i # c.binding[x]
    PROVE  Writable(c, X, s, i)
  <1>1. s \in Accounts /\ s \notin Backups /\ s \notin Pending(c)
    BY ConfigFields, ValidFacts, Marks
  <1>2. s \in Listing(c)
    BY DEF Listing
  <1> QED
    BY <1>1, <1>2 DEF Writable, Pending

LEMMA PutWritable ==
    ASSUME IInv, h.at = "put"
    PROVE  /\ Writable(mem, torn, h.slot, h.content[h.k])
           /\ Writable(disk, Exempt, h.slot, h.content[h.k])
           /\ SameSlot(mem, disk, Exempt, h.slot)
           /\ h.slot \in used /\ h.content[h.k] \in used \union {None} /\ h.content[h.k] \in Ids
  <1>0. /\ mem \in Config /\ disk \in Config /\ Valid(mem) /\ Valid(disk) /\ torn \subseteq Exempt
        /\ Sound(mem, vault, used) /\ Drawn /\ Staging /\ Recorded /\ Replacing /\ Creating
        /\ Recovering
    BY Parts DEF Sound
  <1>1. /\ h \in Handlers /\ h.slot \in Slots /\ h.k \in Records /\ h.content[h.k] \in Ids
    BY PutCases DEF Contents
  <1>2. mem.accounts \subseteq used
    BY <1>0 DEF Sound
  <1>3. CASE h.ok = "stage"
    <2>1. Going(h, "stage")
      BY <1>3, PutCases
    <2>2. /\ h.slot = h.backup /\ h.backup \in Backups /\ h.content = h.previous
          /\ h.backup \in used /\ h.previous = vault[h.account] /\ h.account \in Accounts
      BY <1>0, <1>3, <2>1 DEF Staging, InFlight
    <2>3. h.backup \notin Listing(mem) /\ h.backup \notin Listing(disk)
      BY <2>1, <2>2, Parts DEF Knows
    <2>4. h.content[h.k] \in used \union {None}
      BY <1>0, <1>1, <2>2, Marks DEF Drawn
    <2>5. SameSlot(mem, disk, Exempt, h.slot)
      BY <2>2, <2>3, Marks DEF SameSlot
    <2> QED
      BY <1>0, <1>1, <2>2, <2>3, <2>4, <2>5, OutsideWritable
  <1>4. CASE h.ok = "commit"
    <2>1. Going(h, "commit") /\ h.content = Holds(h.new)
      BY <1>0, <1>4, PutCases DEF Replacing
    <2>2. /\ h.slot = h.account /\ h.account \in mem.accounts /\ mem = disk
          /\ mem.replacing[h.account] # None /\ h.new \in used
          /\ \A a \in Accounts : mem.binding[a] # h.new
      BY <2>1, CommitFacts, Marks DEF InFlight
    <2>3. h.content[h.k] = h.new
      BY <1>1, <2>1, RecordFacts
    <2>4. /\ Writable(mem, torn, h.slot, h.content[h.k])
          /\ Writable(mem, Exempt, h.slot, h.content[h.k])
      BY <1>0, <2>2, <2>3, AccountWritable
    <2> QED
      BY <1>1, <1>2, <2>2, <2>3, <2>4 DEF SameSlot
  <1>5. CASE h.ok = "rolled back"
    <2>1. RollingBack(h) /\ h.content = h.previous
      BY <1>0, <1>5, PutCases DEF Replacing
    <2>2. /\ h.slot = h.account /\ h.account \in mem.accounts /\ h.account \in disk.accounts
          /\ h.account \in torn \/ mem.replacing[h.account] = h.backup
          /\ h.account \in Exempt \/ disk.replacing[h.account] = h.backup
          /\ h.backup # None /\ h.content[h.k] \in used \union {None}
          /\ ~Foreign(mem, h.account, h.content) /\ ~Foreign(disk, h.account, h.content)
      BY <1>1, <2>1, RollingFacts
    <2>3. /\ \A x \in Accounts : x # h.slot /\ mem.binding[x] # None =>
                h.content[h.k] # mem.binding[x]
          /\ \A x \in Accounts : x # h.slot /\ disk.binding[x] # None =>
                h.content[h.k] # disk.binding[x]
      BY <1>1, <2>2 DEF Foreign
    <2>4. Writable(mem, torn, h.slot, h.content[h.k])
      BY <1>0, <2>2, <2>3, AccountWritable
    <2>5. Writable(disk, Exempt, h.slot, h.content[h.k])
      BY <1>0, <2>2, <2>3, AccountWritable
    <2>6. SameSlot(mem, disk, Exempt, h.slot)
      BY <1>0, <2>2 DEF SameSlot, Listing
    <2> QED
      BY <1>1, <1>2, <2>2, <2>4, <2>5, <2>6
  <1>6. CASE h.ok = "insert"
    <2>1. Going(h, "insert") /\ h.content = Holds(h.new)
      BY <1>0, <1>6, PutCases DEF Creating
    <2>2. /\ h.slot = h.account /\ h.account \in mem.creations /\ mem = disk
          /\ h.account # First /\ h.account \in used /\ h.account \in Accounts
          /\ h.new \in used /\ \A a \in Accounts : mem.binding[a] # h.new
      BY <1>0, <1>6, <2>1 DEF Creating, Recorded, InFlight
    <2>3. h.content[h.k] = h.new
      BY <1>1, <2>1, RecordFacts
    <2>4. h.account \notin mem.accounts /\ h.account \notin Backups
      BY <1>0, <2>2, ValidFacts, Marks DEF Pending
    <2>5. /\ Writable(mem, torn, h.slot, h.content[h.k])
          /\ Writable(mem, Exempt, h.slot, h.content[h.k])
      BY <2>2, <2>3, <2>4 DEF Writable
    <2> QED
      BY <1>1, <2>2, <2>3, <2>5 DEF SameSlot
  <1>7. CASE h.ok = "recovered"
    <2>1. Recovers(h) /\ Going(h, "recovered")
      BY <1>7, PutCases DEF Going
    <2>2. /\ h.slot = h.account /\ mem = disk /\ h.account \in Accounts
          /\ mem.replacing[h.account] # None /\ ~Foreign(mem, h.account, h.content)
          /\ h.content[h.k] \in used \union {None}
      BY <1>0, <1>1, <1>7, <2>1 DEF Recovering, Recorded
    <2>3. h.account \in mem.accounts
      BY <1>0, <2>2, ValidFacts
    <2>4. \A x \in Accounts : x # h.slot /\ mem.binding[x] # None =>
            h.content[h.k] # mem.binding[x]
      BY <1>1, <2>2 DEF Foreign
    <2>5. /\ Writable(mem, torn, h.slot, h.content[h.k])
          /\ Writable(mem, Exempt, h.slot, h.content[h.k])
      BY <1>0, <2>2, <2>3, <2>4, AccountWritable
    <2> QED
      BY <1>1, <1>2, <2>2, <2>3, <2>5 DEF SameSlot
  <1> QED
    BY <1>3, <1>4, <1>5, <1>6, <1>7, PutCases

LEMMA SameContents ==
    ASSUME NEW c \in Contents, NEW d \in Contents, \A r \in Records : c[r] = d[r]
    PROVE  c = d
  BY DEF Contents

\* The slot of the handler gets one record, and the handler goes on.
PutsRecord(s, i, k, w) ==
    /\ s = h.slot /\ k = h.k /\ i = h.content[k] /\ w = vault' /\ Written(vault, w, s, k, i)
    /\ h' \in Handlers /\ SameBase(h') /\ h'.slot = s
    /\ \/ /\ h'.at = "put" /\ h'.ok = h.ok /\ h'.err = h.err /\ h'.k = 2 /\ k = 1
          /\ h'.content = h.content
       \/ h'.at = h.ok /\ k = 2

LEMMA PutShape ==
    ASSUME IInv, Put, vaultUp
    PROVE  PutsRecord(h.slot, h.content[h.k], h.k, vault')
  <1>1. h \in Handlers /\ h.k \in Records /\ h.at = "put"
    BY PutCases DEF Put
  <1>2. h.ok \in Labels
    BY <1>1, HandlerFields
  <1>3. /\ h' \in Handlers /\ SameBase(h') /\ h'.slot = h.slot
        /\ \/ /\ h'.at = "put" /\ h'.ok = h.ok /\ h'.err = h.err /\ h'.k = 2 /\ h.k = 1
              /\ h'.content = h.content
           \/ h'.at = h.ok /\ h.k = 2
    <2>1. CASE h.k = 1
      <3>1. h.k + 1 \in Records /\ h.k + 1 = 2 /\ 2 \in Records
        BY <2>1, RecordFacts
      <3>2. h' = [h EXCEPT !.k = 2]
        BY <3>1 DEF Put
      <3> QED
        BY <1>1, <2>1, <3>1, <3>2 DEF Handlers, SameBase
    <2>2. CASE h.k = 2
      <3>1. h.k + 1 \notin Records
        BY <2>2, RecordFacts
      <3>2. h' = At(h.ok)
        BY <3>1 DEF Put, At
      <3> QED
        BY <1>1, <1>2, <2>2, <3>2, AtFields
    <2> QED
      BY <1>1, <2>1, <2>2, RecordFacts
  <1>4. Written(vault, vault', h.slot, h.k, h.content[h.k])
    BY DEF Put, Written
  <1> QED
    BY <1>3, <1>4 DEF PutsRecord

LEMMA PutGoes ==
    ASSUME IInv, h.at = "put", NEW s, NEW i, NEW k, NEW w,
           PutsRecord(s, i, k, w),
           UNCHANGED <<disk, mem, vaultUp, revoked, used, clearing, torn>>
    PROVE  IInv'
  <1>0. s = h.slot /\ k = h.k /\ i = h.content[k] /\ w = vault'
    BY DEF PutsRecord
  <1>1. s \in Slots /\ k \in Records /\ i \in Ids /\ vault \in Vaults
    BY <1>0, PutCases, PutWritable, Parts
  <1>6. /\ h \in Handlers /\ h.content \in Contents
        /\ h.ok \in {"stage", "commit", "rolled back", "insert", "recovered"} /\ h.ok \in Labels
    BY PutCases DEF Labels
  <1>2. Written(vault, w, s, k, i)
    BY DEF PutsRecord
  <1>3. /\ w \in Vaults /\ \A t \in Slots : t # s => w[t] = vault[t]
        /\ \A r \in Records : r # k => w[s][r] = vault[s][r]
        /\ w[s][k] = i
    BY <1>1, <1>2, WriteFields
  <1>4. Exempt' = Exempt /\ torn \subseteq Exempt
    BY DEF Exempt
  <1>5. /\ Sound(mem, w, used) /\ Fits(mem, torn, w, revoked, clearing)
        /\ Sound(disk, w, used) /\ Fits(disk, Exempt, w, revoked, clearing)
    <2>1. Writable(mem, torn, s, i) /\ Writable(disk, Exempt, s, i)
      BY <1>0, PutWritable
    <2>2. /\ Sound(mem, vault, used) /\ Fits(mem, torn, vault, revoked, clearing)
          /\ Sound(disk, vault, used) /\ Fits(disk, Exempt, vault, revoked, clearing)
          /\ mem \in Config /\ disk \in Config /\ clearing \in BOOLEAN
      BY Parts
    <2>3. Sound(mem, w, used) /\ Sound(disk, w, used)
      BY <1>1, <1>2, <2>1, <2>2, WriteSound DEF Writable
    <2>4. Fits(mem, torn, w, revoked, clearing)
      BY <1>1, <1>2, <2>1, <2>2, WriteFits DEF Writable
    <2>5. Fits(disk, Exempt, w, revoked, clearing)
      BY <1>1, <1>2, <2>1, <2>2, WriteFits DEF Writable
    <2> QED
      BY <2>3, <2>4, <2>5
  <1>7. Agree(mem, disk, Exempt, w)
    <2>1. SameSlot(mem, disk, Exempt, s) /\ Agree(mem, disk, Exempt, vault)
      BY <1>0, PutWritable, Parts
    <2>2. mem \in Config /\ disk \in Config
      BY Parts
    <2> QED
      BY <1>1, <1>2, <2>1, <2>2, WriteAgree DEF SameSlot
  <1>8. Drawn'
    <2>1. s \in used /\ i \in used \union {None} /\ Drawn
      BY <1>0, PutWritable, Parts
    <2> QED
      BY <1>0, <1>1, <1>6, <1>3, <2>1 DEF Drawn
  <1>9. Kept'
    BY <1>0, <1>4, <1>5, <1>7, <1>8 DEF Kept
  <1>10. /\ h' \in Handlers /\ SameBase(h') /\ h'.slot = s
         /\ \/ /\ h'.at = "put" /\ h'.ok = h.ok /\ h'.err = h.err /\ h'.k = 2 /\ k = 1
               /\ h'.content = h.content
            \/ h'.at = h.ok /\ k = 2
    BY DEF PutsRecord
  <1>11. \A r \in Records : r < k => vault[s][r] = h.content[r]
    BY <1>0, Parts DEF Progress
  <1>12. h'.at = h.ok => w[s] = h.content
    <2> SUFFICES ASSUME h'.at = h.ok PROVE w[s] = h.content
      OBVIOUS
    <2>1. k = 2
      BY <1>1, <1>6, <1>10
    <2>2. \A r \in Records : w[s][r] = h.content[r]
      BY <1>0, <1>3, <1>11, <2>1, RecordFacts
    <2>3. w[s] \in Contents
      BY <1>1, <1>3 DEF Vaults
    <2> QED
      BY <1>6, <2>2, <2>3, SameContents
  <1>13. Progress'
    <2>1. h'.at = "put" => \A r \in Records : r < 2 => w[s][r] = h'.content[r]
      <3> SUFFICES ASSUME h'.at = "put" PROVE w[s][1] = h'.content[1]
        BY RecordFacts
      <3>1. k = 1 /\ h'.content = h.content
        BY <1>6, <1>10
      <3> QED
        BY <1>0, <1>3, <3>1
    <2> QED
      BY <1>0, <1>1, <1>6, <1>10, <2>1, Parts DEF Progress
  <1>14. TypeInv'
    BY <1>0, <1>3, <1>10, Parts DEF TypeInv, Vaults
  <1>15. SUFFICES /\ Knows(mem, torn, h', w, clearing) /\ Knows(disk, Exempt, h', w, clearing)
                  /\ Staging' /\ Recorded' /\ Replacing' /\ Creating' /\ Recovering'
    <2>1. Reaping'
      BY <1>1, <1>6, <1>10 DEF Reaping, Going, Reaps
    <2>2. Doing'
      BY <1>0, <1>4, <1>13, <1>15, <2>1 DEF Doing
    <2> QED
      BY <1>9, <1>14, <2>2 DEF IInv
  <1>16. CASE h.ok = "stage"
    <2>1. /\ Going(h, "stage") /\ Going(h', "stage") /\ h'.at \in {"put", "stage"}
          /\ h'.at = "put" => h'.ok = "stage"
      BY <1>10, <1>16, PutCases DEF Going
    <2>2. ASSUME NEW c, NEW X, Knows(c, X, h, vault, clearing)
          PROVE  Knows(c, X, h', w, clearing)
      BY <1>10, <2>1, <2>2 DEF Knows, Going, RollingBack, Aborting, SameBase
    <2>3. Recorded' /\ Replacing' /\ Creating' /\ Recovering'
      BY <2>1 DEF Recorded, Replacing, Creating, Recovering, Going, RollingBack, Aborting,
         Recovers, Reaps
    <2>4. Staging
      BY Parts
    <2>5. /\ s = h.backup /\ h.backup \in Backups /\ h.content = h.previous /\ InFlight
          /\ h.backup \notin Listing(h.base) /\ h.base \in Config
          /\ Sound(h.base, vault, used) /\ Fits(h.base, torn, vault, revoked, clearing)
          /\ Agree(h.base, mem, torn, vault) /\ Agree(h.base, disk, Exempt, vault)
          /\ \A r \in Records : h.previous[r] # h.new
          /\ h.previous = vault[h.account] /\ \A r \in Records : h.previous[r] # None
      BY <1>0, <1>1, <1>6, <1>16, <2>1, <2>4, HandlerFields DEF Staging
    <2>6. h.backup \notin Listing(mem) /\ h.backup \notin Listing(disk) /\ h.backup \notin Accounts
      BY <2>1, <2>5, Parts, Marks DEF Knows
    <2>7. Sound(h.base, w, used) /\ Fits(h.base, torn, w, revoked, clearing)
      <3>1. Writable(h.base, torn, s, i)
        BY <2>5, OutsideWritable
      <3>2. clearing \in BOOLEAN
        BY Parts
      <3> QED
        BY <1>1, <1>2, <2>5, <3>1, <3>2, WritableKeeps
    <2>8. Agree(h.base, mem, torn, w) /\ Agree(h.base, disk, Exempt, w)
      <3>1. mem \in Config /\ disk \in Config
        BY Parts
      <3>2. Agree(h.base, mem, torn, w)
        BY <1>1, <1>2, <2>5, <2>6, <3>1, WriteAgree
      <3>3. Agree(h.base, disk, Exempt, w)
        BY <1>1, <1>2, <2>5, <2>6, <3>1, WriteAgree
      <3> QED
        BY <3>2, <3>3
    <2>9. h.account \in Slots /\ w[h.account] = vault[h.account] /\ h.account # s
      BY <1>3, <2>5, <2>6, Marks DEF InFlight
    <2>10. InFlight'
      <3>1. \A r \in Records : w[s][r] # h.new
        <4>1. \A r \in Records : vault[s][r] # h.new
          BY <1>1, <2>5, <2>9 DEF InFlight
        <4>2. i # h.new
          BY <1>0, <1>1, <2>5
        <4> QED
          BY <1>3, <4>1, <4>2
      <3> QED
        BY <1>0, <1>3, <1>10, <2>5, <3>1 DEF InFlight, SameBase
    <2>11. h'.at = "stage" => w[h.backup] = h.previous
      BY <1>10, <1>12, <1>16, <2>5
    <2>12. h.account \notin torn => Previous(h.base, h', clearing)
      BY <1>10, <2>1, <2>4 DEF Staging, Previous, SameBase
    <2>13. /\ h.account \in h.base.accounts /\ h.base.replacing[h.account] = None
           /\ \A a \in Accounts : h.base.binding[a] # h.new
           /\ h.backup \in used /\ h.backup # Unbacked
      BY <2>1, <2>4, <2>5, Marks DEF Staging
    <2>14. /\ h'.account = h.account /\ h'.new = h.new /\ h'.previous = h.previous
           /\ h'.backup = h.backup /\ h'.base = h.base
      BY <1>10 DEF SameBase
    <2>15. (Going(h, "stage") =>
              /\ InFlight
              /\ Sound(h.base, vault, used) /\ Fits(h.base, torn, vault, revoked, clearing)
              /\ Agree(h.base, mem, torn, vault) /\ Agree(h.base, disk, Exempt, vault))'
      BY <1>0, <1>4, <2>7, <2>8, <2>10, <2>14
    <2>16. (h.account \notin torn => Previous(h.base, h, clearing))'
      BY <2>12, <2>14
    <2>17. h'.previous = vault'[h'.account]
      BY <1>0, <2>5, <2>9, <2>14
    <2>18. /\ h'.at = "put" => h'.slot = h'.backup /\ h'.content = h'.previous
           /\ h'.at = "stage" => vault'[h'.backup] = h'.previous
      BY <1>0, <1>10, <1>16, <2>5, <2>11, <2>14
    <2>19. Staging'
      BY <2>1, <2>5, <2>13, <2>14, <2>15, <2>16, <2>17, <2>18 DEF Staging
    <2> QED
      BY <2>2, <2>3, <2>19, Parts
  <1>17. CASE h.ok = "commit"
    <2>1. /\ Going(h, "commit") /\ Going(h', "commit") /\ h'.at \in {"put", "commit"}
          /\ h'.at = "put" => h'.ok = "commit"
      BY <1>10, <1>17, PutCases DEF Going
    <2>2. ASSUME NEW c, NEW X PROVE Knows(c, X, h', w, clearing)
      BY <2>1 DEF Knows, Going, RollingBack, Aborting
    <2>3. Staging' /\ Creating' /\ Recovering'
      BY <2>1 DEF Staging, Creating, Recovering, Going, Aborting, Recovers
    <2>4. Recorded'
      BY <2>1, CommitFacts DEF Recorded, Going, Recovers, Reaps
    <2>5. InFlight'
      BY <1>0, <1>3, <1>10, <2>1, CommitFacts DEF InFlight, SameBase
    <2>6. h.content = Holds(h.new)
      BY <1>17, Parts DEF Replacing
    <2>7. h.account \notin torn => Previous(mem, h', clearing)
      BY <1>10, <2>1, CommitFacts DEF Previous, SameBase
    <2>8. h'.at = "commit" => w[h.account] = Holds(h.new)
      BY <1>0, <1>12, <1>17, <2>1, <2>6, CommitFacts
    <2>9. Replacing'
      BY <1>0, <1>10, <2>1, <2>5, <2>6, <2>7, <2>8, CommitFacts DEF Replacing, Going, RollingBack, SameBase
    <2> QED
      BY <2>2, <2>3, <2>4, <2>9
  <1>18. CASE h.ok = "rolled back"
    <2>1. /\ RollingBack(h) /\ RollingBack(h') /\ h'.at \in {"put", "rolled back"}
          /\ h'.at = "put" => h'.ok = "rolled back"
      BY <1>10, <1>18, PutCases DEF Going, RollingBack
    <2>2. h.content = h.previous /\ h.previous # Nothing /\ s = h.account
      BY <1>0, <1>18, <2>1, RollingFacts, Parts DEF Replacing
    <2>3. h'.at = "rolled back" => w[h.account] = h.previous
      BY <1>12, <1>18, <2>2
    <2>4. ASSUME NEW c, NEW X, Knows(c, X, h, vault, clearing)
          PROVE  Knows(c, X, h', w, clearing)
      <3>1. Previous(c, h', clearing) <=> Previous(c, h, clearing)
        BY <1>10 DEF Previous, SameBase
      <3>2. h'.at = "rolled back" /\ h.account \notin X =>
              Of(w, clearing, h.account, c.binding[h.account])
        <4> SUFFICES ASSUME h'.at = "rolled back", h.account \notin X
                     PROVE  Of(w, clearing, h.account, c.binding[h.account])
          OBVIOUS
        <4>1. Previous(c, h, clearing)
          BY <2>1, <2>4 DEF Knows
        <4>2. h.previous = Holds(c.binding[h.account])
          BY <2>2, <4>1 DEF Previous
        <4>3. \A r \in Records : h.previous[r] = c.binding[h.account]
          BY <4>2 DEF Holds
        <4> QED
          BY <2>3, <4>3 DEF Of
      <3> QED
        BY <1>10, <2>1, <2>4, <3>1, <3>2 DEF Knows, Going, RollingBack, Aborting, SameBase
    <2>5. Staging' /\ Recorded' /\ Creating' /\ Recovering'
      BY <2>1 DEF Staging, Recorded, Creating, Recovering, Going, Aborting, Recovers, Reaps
    <2>6. Replacing'
      BY <1>0, <1>10, <2>1, <2>2, <2>3, RollingFacts DEF Replacing, Going, RollingBack, SameBase
    <2> QED
      BY <2>1, <2>4, <2>5, <2>6, RollingFacts
  <1>19. CASE h.ok = "insert"
    <2>1. /\ Going(h, "insert") /\ Going(h', "insert") /\ h'.at \in {"put", "insert"}
          /\ h'.at = "put" => h'.ok = "insert"
      BY <1>10, <1>19, PutCases DEF Going
    <2>2. ASSUME NEW c, NEW X PROVE Knows(c, X, h', w, clearing)
      BY <2>1 DEF Knows, Going, RollingBack, Aborting
    <2>3. Staging' /\ Replacing' /\ Recovering'
      BY <2>1 DEF Staging, Replacing, Recovering, Going, RollingBack, Recovers
    <2>4. /\ mem = disk /\ InFlight /\ s = h.account /\ h.content = Holds(h.new)
          /\ h.account \in used /\ h.account # First /\ h.account \in Accounts
          /\ h.account \in mem.creations /\ \A a \in Accounts : mem.binding[a] # h.new
      BY <1>0, <1>19, <2>1, Parts DEF Recorded, Creating
    <2>5. Recorded'
      BY <2>1, <2>4 DEF Recorded, Going, Recovers, Reaps
    <2>6. InFlight'
      BY <1>0, <1>3, <1>10, <2>4 DEF InFlight, SameBase
    <2>7. h'.at = "insert" => w[h.account] = Holds(h.new)
      BY <1>12, <1>19, <2>4
    <2>8. Creating'
      BY <1>0, <1>10, <2>1, <2>4, <2>6, <2>7 DEF Creating, Going, Aborting, SameBase
    <2> QED
      BY <2>2, <2>3, <2>5, <2>8
  <1>20. CASE h.ok = "recovered"
    <2>1. /\ Going(h, "recovered") /\ Going(h', "recovered") /\ h'.at \in {"put", "recovered"}
          /\ h'.at = "put" => h'.ok = "recovered"
      BY <1>10, <1>20, PutCases DEF Going
    <2>2. ASSUME NEW c, NEW X PROVE Knows(c, X, h', w, clearing)
      BY <2>1 DEF Knows, Going, RollingBack, Aborting
    <2>3. Staging' /\ Replacing' /\ Creating'
      BY <2>1 DEF Staging, Replacing, Creating, Going, RollingBack, Aborting
    <2>4. Recovers(h) /\ Recovering /\ Recorded
      BY <2>1, Parts DEF Recovers
    <2>5. /\ mem = disk /\ s = h.account /\ h.account \in h.left
          /\ \A a \in h.left \union h.done : a \in Accounts /\ mem.replacing[a] # None
          /\ h.left \intersect h.done = {}
          /\ \A a \in h.done : mem.replacing[a] = Unbacked => vault[a] = Nothing
          /\ \A a \in h.done \ torn : Of(vault, clearing, a, mem.binding[a])
          /\ mem.replacing[h.account] \in Backups /\ ~Foreign(mem, h.account, h.content)
          /\ \A r \in Records : h.content[r] \in used \union {None}
          /\ h.account \notin torn =>
               mem.binding[h.account] # None /\ h.content = Holds(mem.binding[h.account])
      BY <1>0, <1>20, <2>1, <2>4 DEF Recovering, Recorded
    <2>6. Recorded'
      BY <2>1, <2>5 DEF Recorded, Going, Recovers, Reaps
    <2>7. \A a \in h.done : a \in Slots /\ w[a] = vault[a]
      BY <1>3, <2>5, Marks
    <2>8. /\ \A a \in h.done : mem.replacing[a] = Unbacked => w[a] = Nothing
          /\ \A a \in h.done \ torn : Of(w, clearing, a, mem.binding[a])
      BY <2>5, <2>7 DEF Of
    <2>9. h'.at = "recovered" /\ h.account \notin torn =>
            Of(w, clearing, h.account, mem.binding[h.account])
      BY <1>12, <1>20, <2>5, RecordFacts DEF Of
    <2>10. mem.replacing[h.account] # Unbacked
      BY <2>5, Marks
    <2>11. Recovering'
      BY <1>0, <1>10, <2>1, <2>5, <2>8, <2>9, <2>10 DEF Recovering, Going, Recovers, SameBase
    <2> QED
      BY <2>2, <2>3, <2>6, <2>11
  <1> QED
    BY <1>1, <1>6, <1>16, <1>17, <1>18, <1>19, <1>20

LEMMA PutKeeps == IInv /\ Put => IInv'
  <1> SUFFICES ASSUME IInv, Put PROVE IInv'
    OBVIOUS
  <1>1. CASE vaultUp
    <2>1. PutsRecord(h.slot, h.content[h.k], h.k, vault')
      BY <1>1, PutShape
    <2>2. h.at = "put" /\ UNCHANGED <<disk, mem, vaultUp, revoked, used, clearing, torn>>
      BY DEF Put
    <2> QED
      BY <2>1, <2>2, PutGoes
  <1>2. CASE ~vaultUp
    BY <1>2, PutFails DEF Put
  <1> QED
    BY <1>1, <1>2

-----------------------------------------------------------------------------
(* Wiping a slot.                                                           *)

\* The slot of the handler loses a record, or an error is noted, and the
\* handler goes on.
WipesRecord(s, w) ==
    /\ s = h.slot /\ w = vault' /\ w \in Vaults /\ Erased(vault, w, s)
    /\ h' \in Handlers /\ SameBase(h') /\ h'.slot = s
    /\ \/ /\ h'.at = "wipe" /\ h'.ok = h.ok /\ h'.err = h.err /\ h'.k = 2
          /\ h'.failed \/ w[s][1] = None
       \/ h'.at = h.err
       \/ h'.at = h.ok /\ w[s] = Nothing

LEMMA WipeShape ==
    ASSUME IInv, DeleteRecord
    PROVE  WipesRecord(h.slot, vault')
  <1>1. /\ h \in Handlers /\ h.at = "wipe" /\ h.slot \in Slots /\ vault \in Vaults
        /\ h.failed \/ \A r \in Records : r < h.k => vault[h.slot][r] = None
    BY Parts DEF DeleteRecord, Progress
  <1>2. h.ok \in Labels /\ h.err \in Labels /\ h.k \in Records /\ h.failed \in BOOLEAN
    BY <1>1, HandlerFields DEF Handlers
  <1> DEFINE f == h.failed \/ ~vaultUp
  <1>3. f \in BOOLEAN
    OBVIOUS
  <1>4. /\ vault' \in Vaults /\ Erased(vault, vault', h.slot)
        /\ f \/ vault'[h.slot][h.k] = None
        /\ \A r \in Records : r # h.k => vault'[h.slot][r] = vault[h.slot][r]
    <2>1. CASE vaultUp
      <3>1. ASSUME NEW w, w = vault', NEW s, s = h.slot, NEW k, k = h.k
            PROVE  /\ w \in Vaults /\ Erased(vault, w, s) /\ w[s][k] = None
                   /\ \A r \in Records : r # k => w[s][r] = vault[s][r]
        <4>1. Written(vault, w, s, k, None)
          BY <2>1, <3>1 DEF DeleteRecord, Written
        <4>2. s \in Slots /\ k \in Records /\ None \in Ids
          BY <1>1, <1>2, <3>1 DEF Ids
        <4>3. /\ w \in Vaults /\ \A t \in Slots : t # s => w[t] = vault[t]
              /\ \A r \in Records : r # k => w[s][r] = vault[s][r]
              /\ w[s][k] = None
          BY <1>1, <4>1, <4>2, WriteFields
        <4> QED
          BY <4>3 DEF Erased
      <3> QED
        BY <3>1
    <2>2. CASE ~vaultUp
      <3>1. vault' = vault
        BY <2>2 DEF DeleteRecord
      <3> QED
        BY <1>1, <2>2, <3>1 DEF Erased
    <2> QED
      BY <2>1, <2>2
  <1>5. h' = IF h.k + 1 \in Records THEN [h EXCEPT !.k = h.k + 1, !.failed = f]
             ELSE [h EXCEPT !.at = IF f THEN h.err ELSE h.ok]
    BY DEF DeleteRecord
  <1> HIDE DEF f
  <1>6. CASE h.k = 1
    <2>1. h.k + 1 \in Records /\ h.k + 1 = 2 /\ 2 \in Records
      BY <1>6, RecordFacts
    <2>2. h' = [h EXCEPT !.k = 2, !.failed = f]
      BY <1>5, <2>1
    <2>3. /\ h' \in Handlers /\ SameBase(h') /\ h'.slot = h.slot /\ h'.at = "wipe"
          /\ h'.ok = h.ok /\ h'.err = h.err /\ h'.k = 2 /\ h'.failed = f
      BY <1>1, <1>3, <2>1, <2>2 DEF Handlers, SameBase
    <2> QED
      BY <1>4, <1>6, <2>3 DEF WipesRecord
  <1>7. CASE h.k = 2
    <2>1. h.k + 1 \notin Records
      BY <1>7, RecordFacts
    <2>2. (h' = At(h.err) /\ f) \/ (h' = At(h.ok) /\ ~f)
      <3>1. h' = [h EXCEPT !.at = IF f THEN h.err ELSE h.ok]
        BY <1>5, <2>1
      <3> QED
        BY <3>1 DEF At
    <2>3. h' \in Handlers /\ SameBase(h') /\ h'.slot = h.slot
      BY <1>1, <1>2, <2>2, AtFields
    <2>4. ~f => vault'[h.slot] = Nothing
      <3> SUFFICES ASSUME ~f PROVE vault'[h.slot] = Nothing
        OBVIOUS
      <3>1. \A r \in Records : r < 2 => vault[h.slot][r] = None
        BY <1>1, <1>7 DEF f
      <3>2. \A r \in Records : vault'[h.slot][r] = None
        BY <1>4, <1>7, <3>1, RecordFacts
      <3>3. vault'[h.slot] \in Contents
        BY <1>1, <1>4 DEF Vaults
      <3> QED
        BY <3>2, <3>3, RecordFacts
    <2>5. h'.at = h.err \/ (h'.at = h.ok /\ ~f)
      BY <1>1, <1>2, <2>2, AtFields
    <2> QED
      BY <1>4, <2>3, <2>4, <2>5 DEF WipesRecord
  <1> QED
    BY <1>2, <1>6, <1>7, RecordFacts

\* The labels of a wipe.
LEMMA WipeCases ==
    ASSUME IInv, h.at = "wipe"
    PROVE  /\ h \in Handlers /\ h.slot \in Slots
           /\ \/ h.ok = "idle" /\ h.err = "idle"
              \/ h.ok = "roll back" /\ h.err = "roll back" /\ RollingBack(h)
              \/ h.ok = "rolled back" /\ h.err = "idle" /\ RollingBack(h)
              \/ h.ok = "abort" /\ h.err = "abort" /\ Aborting(h)
              \/ h.ok = "forget" /\ h.err = "forget" /\ Aborting(h)
              \/ h.ok = "clear" /\ h.err = "idle" /\ Going(h, "clear")
              \/ h.ok = "recovered" /\ h.err = "not recovered" /\ Recovers(h)
              \/ h.ok = "not recovered" /\ h.err = "not recovered" /\ Recovers(h)
              \/ h.ok = "reaped" /\ h.err = "not reaped" /\ Reaps(h)
  <1>1. h \in Handlers /\ Progress
    BY Parts
  <1>2. h.slot \in Slots /\ <<h.ok, h.err>> \in
          {<<"idle", "idle">>, <<"roll back", "roll back">>,
           <<"rolled back", "idle">>, <<"abort", "abort">>, <<"forget", "forget">>,
           <<"clear", "idle">>, <<"recovered", "not recovered">>,
           <<"not recovered", "not recovered">>, <<"reaped", "not reaped">>}
    BY <1>1 DEF Progress
  <1>3. \/ h.ok = "idle" /\ h.err = "idle"
        \/ h.ok = "roll back" /\ h.err = "roll back"
        \/ h.ok = "rolled back" /\ h.err = "idle"
        \/ h.ok = "abort" /\ h.err = "abort"
        \/ h.ok = "forget" /\ h.err = "forget"
        \/ h.ok = "clear" /\ h.err = "idle"
        \/ h.ok = "recovered" /\ h.err = "not recovered"
        \/ h.ok = "not recovered" /\ h.err = "not recovered"
        \/ h.ok = "reaped" /\ h.err = "not reaped"
    BY <1>2
  <1> QED
    BY <1>1, <1>2, <1>3 DEF Going, RollingBack, Aborting, Recovers, Reaps

\* Slot s may be emptied, for all that a configuration c says.
Erasable(c, X, s) ==
    \A a \in Accounts \ X :
      /\ a = s => a \notin c.accounts \/ c.replacing[a] # None
      /\ c.replacing[a] # s

LEMMA AccountErasable ==
    ASSUME NEW c \in Config, NEW X, NEW s \in Accounts,
           s \in X \/ s \notin c.accounts \/ c.replacing[s] # None
    PROVE  Erasable(c, X, s)
  <1>1. \A a \in Accounts : c.replacing[a] # s
    BY ConfigFields, Marks
  <1> QED
    BY <1>1 DEF Erasable

LEMMA WipeErasable ==
    ASSUME IInv, h.at = "wipe"
    PROVE  clearing \/ (Erasable(mem, torn, h.slot) /\ Erasable(disk, Exempt, h.slot))
  <1>0. /\ mem \in Config /\ disk \in Config /\ Valid(mem) /\ Recorded /\ Creating /\ Recovering
        /\ Reaping /\ Knows(mem, torn, h, vault, clearing) /\ Knows(disk, Exempt, h, vault, clearing)
    BY Parts DEF Sound
  <1>1. h.slot \in Slots
    BY WipeCases
  <1>2. CASE h.ok = "idle"
    <2>1. ASSUME NEW c \in Config, NEW X, Knows(c, X, h, vault, clearing)
          PROVE  Erasable(c, X, h.slot)
      <3>1. \/ h.slot \in Backups /\ \A a \in Accounts \ X : c.replacing[a] # h.slot
            \/ h.slot \in Accounts /\ (h.slot \in X \/ c.replacing[h.slot] # None)
        BY <1>2, <2>1 DEF Knows
      <3>2. CASE h.slot \in Backups /\ \A a \in Accounts \ X : c.replacing[a] # h.slot
        BY <3>2, Marks DEF Erasable
      <3>3. CASE h.slot \in Accounts /\ (h.slot \in X \/ c.replacing[h.slot] # None)
        BY <3>3, AccountErasable
      <3> QED
        BY <3>1, <3>2, <3>3
    <2> QED
      BY <1>0, <2>1
  <1>3. CASE RollingBack(h)
    <2>1. /\ h.slot = h.account /\ h.account \in Accounts /\ h.backup # None
          /\ h.account \notin torn => mem.replacing[h.account] = h.backup
          /\ h.account \notin Exempt => disk.replacing[h.account] = h.backup
      BY <1>3, RollingFacts
    <2> QED
      BY <1>0, <2>1, AccountErasable
  <1>4. CASE Aborting(h)
    <2>1. /\ h.slot = h.account /\ h.account \in Accounts
          /\ h.account \notin mem.accounts \ torn /\ h.account \notin disk.accounts \ Exempt
      BY <1>0, <1>4 DEF Knows, Creating
    <2> QED
      BY <1>0, <2>1, AccountErasable
  <1>5. CASE Going(h, "clear")
    BY <1>0, <1>5 DEF Knows
  <1>6. CASE Recovers(h)
    <2>1. mem = disk /\ h.slot = h.account /\ h.account \in Accounts
          /\ mem.replacing[h.account] # None
      BY <1>0, <1>6 DEF Recorded, Recovering, Recovers
    <2> QED
      BY <1>0, <2>1, AccountErasable
  <1>7. CASE Reaps(h)
    <2>1. mem = disk /\ h.slot \in Pending(mem)
      BY <1>0, <1>7 DEF Recorded, Reaping, Reaps
    <2>2. h.slot \notin mem.accounts /\ h.slot \notin Names(mem)
      BY <1>0, <2>1, ValidFacts
    <2>3. \A a \in Accounts : mem.replacing[a] # h.slot
      <3>1. \A a \in Accounts : mem.replacing[a] \in Backups => mem.replacing[a] \in Names(mem)
        BY DEF Names
      <3> QED
        BY <1>0, <1>1, <2>2, <3>1, ConfigFields, Marks
    <2> QED
      BY <2>1, <2>2, <2>3 DEF Erasable
  <1> QED
    BY <1>2, <1>3, <1>4, <1>5, <1>6, <1>7, WipeCases

LEMMA WipeGoes ==
    ASSUME IInv, h.at = "wipe", NEW s, NEW w, WipesRecord(s, w),
           UNCHANGED <<disk, mem, vaultUp, revoked, used, clearing, torn>>
    PROVE  IInv'
  <1>0. s = h.slot /\ w = vault'
    BY DEF WipesRecord
  <1>1. s \in Slots /\ vault \in Vaults /\ w \in Vaults /\ Erased(vault, w, s)
    BY <1>0, WipeCases, Parts DEF WipesRecord
  <1>2. /\ \A t \in Slots : vault[t] = Nothing => w[t] = Nothing
        /\ \A t \in Slots, r \in Records : w[t][r] \in {vault[t][r], None}
        /\ \A t \in Slots : t # s => w[t] = vault[t]
    BY <1>1, EraseEmpty DEF Erased
  <1>3. Exempt' = Exempt /\ torn \subseteq Exempt
    BY DEF Exempt
  <1>4. /\ mem \in Config /\ disk \in Config /\ clearing \in BOOLEAN
        /\ Sound(mem, vault, used) /\ Fits(mem, torn, vault, revoked, clearing)
        /\ Sound(disk, vault, used) /\ Fits(disk, Exempt, vault, revoked, clearing)
        /\ Agree(mem, disk, Exempt, vault)
    BY Parts
  <1>5. Sound(mem, w, used) /\ Sound(disk, w, used)
    BY <1>1, <1>4, EraseSound
  <1>6. Agree(mem, disk, Exempt, w)
    BY <1>1, <1>4, EraseAgree
  <1>7. Fits(mem, torn, w, revoked, clearing) /\ Fits(disk, Exempt, w, revoked, clearing)
    <2>1. clearing \/ (Erasable(mem, torn, s) /\ Erasable(disk, Exempt, s))
      BY <1>0, WipeErasable
    <2>2. Fits(mem, torn, w, revoked, clearing)
      BY <1>1, <1>4, <2>1, EraseFits DEF Erasable
    <2>3. Fits(disk, Exempt, w, revoked, clearing)
      BY <1>1, <1>4, <2>1, EraseFits DEF Erasable
    <2> QED
      BY <2>2, <2>3
  <1>8. Drawn'
    BY <1>0, <1>2, Parts DEF Drawn
  <1>9. Kept'
    BY <1>0, <1>3, <1>5, <1>6, <1>7, <1>8 DEF Kept
  <1>10. /\ h' \in Handlers /\ SameBase(h') /\ h'.slot = s
         /\ \/ /\ h'.at = "wipe" /\ h'.ok = h.ok /\ h'.err = h.err /\ h'.k = 2
               /\ h'.failed \/ w[s][1] = None
            \/ h'.at = h.err
            \/ h'.at = h.ok /\ w[s] = Nothing
    BY DEF WipesRecord
  <1>11. Progress'
    <2>1. h.err # "wipe" /\ h.ok # "wipe" /\ h.err # "put" /\ h.ok # "put"
      BY WipeCases
    <2>2. h'.at = "wipe" => h'.failed \/ \A r \in Records : r < 2 => w[s][r] = None
      BY <1>10, <2>1, RecordFacts
    <2> QED
      BY <1>0, <1>1, <1>10, <2>1, <2>2, Parts DEF Progress
  <1>12. TypeInv'
    BY <1>0, <1>1, <1>10, Parts DEF TypeInv, Vaults
  <1>13. SUFFICES /\ Knows(mem, torn, h', w, clearing) /\ Knows(disk, Exempt, h', w, clearing)
                  /\ Recorded' /\ Replacing' /\ Creating' /\ Recovering' /\ Reaping'
    <2>1. Staging'
      BY <1>10, WipeCases DEF Staging, Going
    <2>2. Doing'
      BY <1>0, <1>3, <1>11, <1>13, <2>1 DEF Doing
    <2> QED
      BY <1>9, <1>12, <2>2 DEF IInv
  <1>14. /\ h'.account = h.account /\ h'.new = h.new /\ h'.previous = h.previous
         /\ h'.backup = h.backup /\ h'.left = h.left /\ h'.done = h.done
    BY <1>10 DEF SameBase
  <1>15. Knows(mem, torn, h, vault, clearing) /\ Knows(disk, Exempt, h, vault, clearing)
    BY Parts
  <1>16. CASE h.ok = "idle"
    <2>1. h'.at \in {"wipe", "idle"} /\ (h'.at = "wipe" => h'.ok = "idle")
      BY <1>10, <1>16, WipeCases
    <2>2. ASSUME NEW c, NEW X, Knows(c, X, h, vault, clearing)
          PROVE  Knows(c, X, h', w, clearing)
      BY <1>0, <1>10, <1>16, <2>1, <2>2 DEF Knows, Going, RollingBack, Aborting
    <2>3. Recorded' /\ Replacing' /\ Creating' /\ Recovering' /\ Reaping'
      BY <2>1 DEF Recorded, Replacing, Creating, Recovering, Reaping, Going, RollingBack, Aborting,
         Recovers, Reaps
    <2> QED
      BY <1>15, <2>2, <2>3
  <1>17. CASE h.ok = "roll back"
    <2>1. /\ h'.at \in {"wipe", "roll back"} /\ (h'.at = "wipe" => h'.ok = "roll back")
          /\ RollingBack(h) /\ RollingBack(h')
      BY <1>10, <1>17, WipeCases DEF RollingBack, Going
    <2>2. ASSUME NEW c, NEW X, Knows(c, X, h, vault, clearing)
          PROVE  Knows(c, X, h', w, clearing)
      <3>1. Previous(c, h', clearing) <=> Previous(c, h, clearing)
        BY <1>14 DEF Previous
      <3> QED
        BY <1>14, <2>1, <2>2, <3>1 DEF Knows, Going, RollingBack, Aborting
    <2>3. Recorded' /\ Creating' /\ Recovering' /\ Reaping'
      BY <2>1 DEF Recorded, Creating, Recovering, Reaping, Going, Aborting, Recovers, Reaps
    <2>4. Replacing'
      BY <1>0, <1>10, <1>14, <2>1, RollingFacts DEF Replacing, Going, RollingBack
    <2> QED
      BY <1>15, <2>2, <2>3, <2>4
  <1>18. CASE h.ok = "rolled back"
    <2>1. /\ h'.at \in {"wipe", "rolled back", "idle"} /\ (h'.at = "wipe" => h'.ok = "rolled back")
          /\ RollingBack(h) /\ (h'.at = "rolled back" => w[s] = Nothing)
      BY <1>10, <1>18, WipeCases
    <2>2. h.previous = Nothing /\ s = h.account
      BY <1>0, <1>18, <2>1, RollingFacts, Parts DEF Replacing
    <2>3. ASSUME NEW c, NEW X, Knows(c, X, h, vault, clearing)
          PROVE  Knows(c, X, h', w, clearing)
      <3>1. Previous(c, h', clearing) <=> Previous(c, h, clearing)
        BY <1>14 DEF Previous
      <3>2. h'.at = "rolled back" /\ h.account \notin X =>
              Of(w, clearing, h.account, c.binding[h.account])
        <4> SUFFICES ASSUME h'.at = "rolled back", h.account \notin X
                     PROVE  Of(w, clearing, h.account, c.binding[h.account])
          OBVIOUS
        <4>1. Previous(c, h, clearing)
          BY <2>1, <2>3 DEF Knows
        <4>2. \A i : i # None => Nothing # Holds(i)
          <5>1. \A i : Holds(i)[1] = i /\ Nothing[1] = None
            BY RecordFacts DEF Holds, Nothing
          <5> QED
            BY <5>1
        <4>3. clearing \/ c.binding[h.account] = None
          BY <2>2, <4>1, <4>2 DEF Previous
        <4>4. \A r \in Records : w[h.account][r] = None
          BY <2>1, <2>2 DEF Nothing
        <4> QED
          BY <4>3, <4>4 DEF Of
      <3> QED
        BY <1>14, <2>1, <2>3, <3>1, <3>2 DEF Knows, Going, RollingBack, Aborting
    <2>4. Recorded' /\ Creating' /\ Recovering' /\ Reaping'
      BY <2>1 DEF Recorded, Creating, Recovering, Reaping, Going, Aborting, Recovers, Reaps
    <2>5. Replacing'
      BY <1>0, <1>10, <1>14, <2>1, <2>2, RollingFacts DEF Replacing, Going, RollingBack
    <2> QED
      BY <1>15, <2>3, <2>4, <2>5
  <1>19. CASE h.ok \in {"abort", "forget"}
    <2>1. /\ h'.at = h.ok \/ (h'.at = "wipe" /\ h'.ok = h.ok)
          /\ Aborting(h) /\ Aborting(h') /\ h'.at \in {"abort", "forget", "wipe"}
          /\ h'.at = "wipe" => h'.ok \in {"abort", "forget"}
      BY <1>10, <1>19, WipeCases DEF Aborting, Going
    <2>2. ASSUME NEW c, NEW X, Knows(c, X, h, vault, clearing)
          PROVE  Knows(c, X, h', w, clearing)
      BY <1>14, <2>1, <2>2 DEF Knows, Going, RollingBack, Aborting
    <2>3. Recorded' /\ Replacing' /\ Recovering' /\ Reaping'
      BY <2>1 DEF Recorded, Replacing, Recovering, Reaping, Going, RollingBack, Recovers, Reaps
    <2>4. h.account \in Accounts /\ s = h.account
      BY <1>0, <2>1, Parts DEF Creating
    <2>5. Creating'
      BY <1>10, <1>14, <2>1, <2>4 DEF Creating, Going, Aborting
    <2> QED
      BY <1>15, <2>2, <2>3, <2>5
  <1>20. CASE h.ok = "clear"
    <2>1. /\ h'.at \in {"wipe", "clear", "idle"} /\ (h'.at = "wipe" => h'.ok = "clear")
          /\ Going(h, "clear") /\ (h'.at = "clear" => w[s] = Nothing)
      BY <1>10, <1>20, WipeCases
    <2>2. ASSUME NEW c \in Config, NEW X, Knows(c, X, h, vault, clearing)
          PROVE  Knows(c, X, h', w, clearing)
      <3>1. /\ clearing
            /\ \A t \in Listed(c, X) \union {First} :
                 t \in h.left \/ vault[t] = Nothing \/ t = s
        BY <1>0, <2>1, <2>2 DEF Knows
      <3>2. \A t \in Listed(c, X) \union {First} : t \in Slots
        BY ConfigFields, Marks DEF Listed
      <3>3. h'.at # "idle" => \A t \in Listed(c, X) \union {First} :
              t \in h'.left \/ w[t] = Nothing \/ (h'.at = "wipe" /\ t = h'.slot)
        BY <1>2, <1>10, <1>14, <2>1, <3>1, <3>2
      <3> QED
        BY <2>1, <3>1, <3>3 DEF Knows, Going, RollingBack, Aborting
    <2>3. Recorded' /\ Replacing' /\ Creating' /\ Recovering' /\ Reaping'
      BY <2>1 DEF Recorded, Replacing, Creating, Recovering, Reaping, Going, RollingBack, Aborting,
         Recovers, Reaps
    <2> QED
      BY <1>4, <1>15, <2>2, <2>3
  <1>21. CASE h.ok \in {"recovered", "not recovered"}
    <2>1. /\ h'.at \in {"wipe", "recovered", "not recovered"}
          /\ h'.at = "wipe" => h'.ok = h.ok
          /\ h'.at = "recovered" => h.ok = "recovered" /\ w[s] = Nothing
          /\ Recovers(h) /\ (Going(h, "recovered") \/ Going(h, "not recovered"))
          /\ Recovers(h')
      BY <1>10, <1>21, WipeCases DEF Recovers, Going
    <2>2. ASSUME NEW c, NEW X PROVE Knows(c, X, h', w, clearing)
      BY <1>21, <2>1 DEF Knows, Going, RollingBack, Aborting
    <2>3. Replacing' /\ Creating' /\ Reaping'
      BY <1>21, <2>1 DEF Replacing, Creating, Reaping, Going, RollingBack, Aborting, Reaps
    <2>4. Recovering /\ Recorded
      BY Parts
    <2>5. /\ mem = disk /\ s = h.account /\ h.account \in h.left
          /\ \A a \in h.left \union h.done : a \in Accounts /\ mem.replacing[a] # None
          /\ h.left \intersect h.done = {}
          /\ \A a \in h.done : mem.replacing[a] = Unbacked => vault[a] = Nothing
          /\ \A a \in h.done \ torn : Of(vault, clearing, a, mem.binding[a])
          /\ h.ok = "recovered" => mem.replacing[h.account] = Unbacked
      BY <1>0, <2>1, <2>4 DEF Recovering, Recorded
    <2>6. Recorded'
      BY <2>1, <2>5 DEF Recorded, Recovers
    <2>7. \A a \in h.done : a \in Slots /\ w[a] = vault[a]
      BY <1>2, <2>5, Marks
    <2>8. /\ \A a \in h.done : mem.replacing[a] = Unbacked => w[a] = Nothing
          /\ \A a \in h.done \ torn : Of(w, clearing, a, mem.binding[a])
      BY <2>5, <2>7 DEF Of
    <2>9. h'.at = "recovered" /\ h.account \notin torn =>
            Of(w, clearing, h.account, mem.binding[h.account])
      <3> SUFFICES ASSUME h'.at = "recovered", h.account \notin torn
                   PROVE  Of(w, clearing, h.account, mem.binding[h.account])
        OBVIOUS
      <3>1. clearing \/ mem.binding[h.account] = None
        BY <1>4, <2>1, <2>5 DEF Fits
      <3>2. \A r \in Records : w[h.account][r] = None
        BY <2>1, <2>5 DEF Nothing
      <3> QED
        BY <3>1, <3>2 DEF Of
    <2>10. Recovering'
      <3>1. /\ \A a \in h'.left \union h'.done : a \in Accounts /\ mem.replacing[a] # None
            /\ h'.left \intersect h'.done = {}
            /\ h'.account \in h'.left /\ h'.slot = h'.account
        BY <1>10, <1>14, <2>5
      <3>2. h'.at = "recovered" => w[h'.account] = Nothing
        BY <1>14, <2>1, <2>5
      <3>3. h'.at = "wipe" /\ h'.ok = "recovered" => mem.replacing[h'.account] = Unbacked
        BY <1>14, <2>1, <2>5
      <3> QED
        BY <1>0, <1>14, <2>1, <2>8, <2>9, <3>1, <3>2, <3>3 DEF Recovering
    <2> QED
      BY <2>2, <2>3, <2>6, <2>10
  <1>22. CASE h.ok = "reaped"
    <2>1. /\ h'.at \in {"wipe", "reaped", "not reaped"} /\ (h'.at = "wipe" => h'.ok = "reaped")
          /\ Reaps(h) /\ Going(h, "reaped") /\ (h'.at = "reaped" => w[s] = Nothing)
          /\ Reaps(h')
      BY <1>10, <1>22, WipeCases DEF Reaps, Going
    <2>2. ASSUME NEW c, NEW X PROVE Knows(c, X, h', w, clearing)
      BY <2>1 DEF Knows, Going, RollingBack, Aborting
    <2>3. Replacing' /\ Creating' /\ Recovering'
      BY <2>1 DEF Replacing, Creating, Recovering, Going, RollingBack, Aborting, Recovers
    <2>4. /\ mem = disk /\ h.left \union h.done \subseteq Pending(mem)
          /\ \A t \in h.done : vault[t] = Nothing
          /\ s \in Pending(mem) /\ Pending(mem) \subseteq Slots
      BY <1>0, <2>1, Parts, ConfigFields DEF Recorded, Reaping
    <2>5. Recorded'
      BY <2>1, <2>4 DEF Recorded
    <2>6. \A t \in h'.done : w[t] = Nothing
      BY <1>2, <1>14, <2>4
    <2>7. Reaping'
      BY <1>0, <1>10, <1>14, <2>1, <2>4, <2>6 DEF Reaping
    <2> QED
      BY <2>2, <2>3, <2>5, <2>7
  <1> QED
    BY <1>16, <1>17, <1>18, <1>19, <1>20, <1>21, <1>22, WipeCases

LEMMA DeleteRecordKeeps == IInv /\ DeleteRecord => IInv'
  <1> SUFFICES ASSUME IInv, DeleteRecord PROVE IInv'
    OBVIOUS
  <1>1. WipesRecord(h.slot, vault')
    BY WipeShape
  <1>2. h.at = "wipe" /\ UNCHANGED <<disk, mem, vaultUp, revoked, used, clearing, torn>>
    BY DEF DeleteRecord
  <1> QED
    BY <1>1, <1>2, WipeGoes

-----------------------------------------------------------------------------
(* Saves.                                                                   *)

\* A configuration that may be saved.
Savable(next) ==
    /\ Sound(next, vault, used) /\ Fits(next, torn, vault, revoked, clearing)
    /\ Agree(mem, next, torn \union AheadSet(mem, next), vault)

\* The three outcomes of a save: done, failed, and uncertain, when the file
\* may be ahead of the copy.
Outcomes(next, then, else) ==
    \/ mem' = next /\ disk' = next /\ h' = then /\ Exempt' = torn
    \/ mem' = mem /\ disk' = disk /\ h' = else /\ Exempt' = Exempt
    \/ mem' = mem /\ disk' = next /\ h' = else /\ Exempt' = torn \union AheadSet(mem, next)

LEMMA SaveKept ==
    ASSUME IInv, NEW next \in Config, NEW then, NEW else, Save(next, then, else),
           UNCHANGED <<revoked, clearing, torn>>, Valid(next) => Savable(next)
    PROVE  /\ Kept' /\ UNCHANGED <<vault, vaultUp, used, revoked, clearing, torn>>
           /\ Outcomes(next, then, else)
           /\ h' \in Handlers => TypeInv'
  <1>1. UNCHANGED <<vault, vaultUp, used, revoked, clearing, torn>>
    BY DEF Save
  <1>2. \/ Valid(next) /\ mem' = next /\ disk' = next /\ h' = then
        \/ mem' = mem /\ disk' = disk /\ h' = else
        \/ Valid(next) /\ mem' = mem /\ disk' = next /\ h' = else
    BY DEF Save
  <1>3. mem \in Config /\ disk \in Config /\ TypeInv
    BY Parts
  <1>4. h' \in Handlers => TypeInv'
    BY <1>1, <1>2, <1>3 DEF TypeInv
  <1>5. Drawn'
    BY <1>1, Parts DEF Drawn
  <1>6. CASE Valid(next) /\ mem' = next /\ disk' = next /\ h' = then
    <2>1. Sound(next, vault, used) /\ Fits(next, torn, vault, revoked, clearing)
      BY <1>6 DEF Savable
    <2>2. AheadSet(next, next) = {} /\ Agree(next, next, torn, vault)
      BY <2>1, AgreeReflexive
    <2>3. Exempt' = torn
      BY <1>1, <1>6, <2>2 DEF Exempt
    <2>4. Kept'
      BY <1>1, <1>5, <1>6, <2>1, <2>2, <2>3 DEF Kept
    <2> QED
      BY <1>1, <1>4, <1>6, <2>3, <2>4 DEF Outcomes
  <1>7. CASE mem' = mem /\ disk' = disk /\ h' = else
    <2>1. Kept' /\ Exempt' = Exempt
      BY <1>1, <1>7, KeptStays, Parts DEF Exempt
    <2> QED
      BY <1>1, <1>4, <1>7, <2>1 DEF Outcomes
  <1>8. CASE Valid(next) /\ mem' = mem /\ disk' = next /\ h' = else
    <2> DEFINE X == torn \union AheadSet(mem, next)
    <2>1. /\ Sound(next, vault, used) /\ Fits(next, torn, vault, revoked, clearing)
          /\ Agree(mem, next, X, vault)
      BY <1>8 DEF Savable
    <2>2. Exempt' = X
      BY <1>1, <1>8 DEF Exempt
    <2>3. Fits(next, X, vault, revoked, clearing)
      BY <2>1, WiderFits
    <2>4. Sound(mem, vault, used) /\ Fits(mem, torn, vault, revoked, clearing)
      BY Parts
    <2> HIDE DEF X
    <2>5. Kept'
      BY <1>1, <1>5, <1>8, <2>1, <2>2, <2>3, <2>4 DEF Kept
    <2> QED
      BY <1>1, <1>4, <1>8, <2>2, <2>5 DEF Outcomes, X
  <1> QED
    BY <1>2, <1>6, <1>7, <1>8

LEMMA SaveQuiet ==
    ASSUME IInv, NEW next \in Config, NEW then \in Handlers, NEW else \in Handlers,
           Save(next, then, else), UNCHANGED <<revoked, clearing, torn>>,
           Valid(next) => Savable(next), then.at \in {"idle", "reap"}, else.at = "idle"
    PROVE  IInv'
  <1>1. Kept' /\ Outcomes(next, then, else) /\ (h' \in Handlers => TypeInv')
    BY SaveKept
  <1>2. /\ h' \in Handlers /\ h'.at \in {"idle", "reap"} /\ (h'.at = "reap" => mem' = disk')
    BY <1>1 DEF Outcomes
  <1>3. Doing'
    BY <1>2, Quiet
  <1> QED
    BY <1>1, <1>2, <1>3 DEF IInv

LEMMA ForgetKeeps == IInv /\ Forget => IInv'
  <1> SUFFICES ASSUME IInv, Forget PROVE IInv'
    OBVIOUS
  <1> DEFINE next == [mem EXCEPT !.creations = @ \ {h.account}]
  <1>1. Save(next, At("idle"), At("idle")) /\ UNCHANGED <<revoked, clearing, torn>>
    BY DEF Forget
  <1>2. mem \in Config /\ h \in Handlers /\ "idle" \in Labels
    BY Parts DEF Labels
  <1>3. /\ next \in Config /\ next.accounts = mem.accounts /\ next.binding = mem.binding
        /\ next.deletions = mem.deletions /\ next.local = mem.local
        /\ next.creations = mem.creations \ {h.account} /\ next.replacing = mem.replacing
    BY <1>2 DEF Config
  <1>4. At("idle") \in Handlers /\ At("idle").at = "idle"
    BY <1>2, AtFields
  <1> HIDE DEF next
  <1>5. /\ Sound(mem, vault, used) /\ Fits(mem, torn, vault, revoked, clearing)
    BY Parts
  <1>6. /\ Listing(next) = Listing(mem) /\ Names(next) = Names(mem) /\ Pending(next) \subseteq Pending(mem)
        /\ \A X : Listed(next, X) = Listed(mem, X)
    BY <1>3 DEF Listing, Names, Listed, Pending
  <1>7. ASSUME Valid(next) PROVE Savable(next)
    <2>1. Sound(next, vault, used)
      BY <1>3, <1>5, <1>6, <1>7 DEF Sound
    <2>2. Fits(next, torn, vault, revoked, clearing)
      BY <1>3, <1>5 DEF Fits
    <2>3. ASSUME NEW X PROVE Agree(mem, next, X, vault)
      <3>1. Agree(mem, mem, X, vault)
        BY <1>2, <1>5, AgreeReflexive
      <3> QED
        BY <1>3, <1>6, <3>1 DEF Agree, Covers
    <2> QED
      BY <2>1, <2>2, <2>3 DEF Savable
  <1> QED
    BY <1>1, <1>3, <1>4, <1>7, SaveQuiet

\* A backup that is no longer named becomes a slot to reap.
LEMMA RolledBackKeeps == IInv /\ RolledBack => IInv'
  <1> SUFFICES ASSUME IInv, RolledBack PROVE IInv'
    OBVIOUS
  <1> DEFINE b == {h.backup} \ {Unbacked}
             next == [mem EXCEPT !.replacing[h.account] = None, !.local = @ \union b]
  <1>1. /\ h.at = "rolled back" /\ Save(next, At("reap"), At("idle"))
        /\ UNCHANGED <<revoked, clearing, torn>>
    BY DEF RolledBack
  <1>2. mem \in Config /\ h \in Handlers /\ "idle" \in Labels /\ "reap" \in Labels
    BY Parts DEF Labels
  <1>3. RollingBack(h)
    BY <1>1 DEF RollingBack, Going
  <1>4. /\ h.account \in mem.accounts /\ h.account \in Accounts
        /\ h.backup \in Backups \union {Unbacked} /\ b \subseteq Slots
        /\ h.account \notin torn => mem.replacing[h.account] = h.backup
        /\ h.backup = Unbacked => h.previous = Nothing
    BY <1>3, RollingFacts, Marks
  <1>5. /\ next \in Config /\ next.accounts = mem.accounts /\ next.binding = mem.binding
        /\ next.deletions = mem.deletions /\ next.local = mem.local \union b
        /\ next.creations = mem.creations
        /\ next.replacing[h.account] = None
        /\ \A a \in Accounts : a # h.account => next.replacing[a] = mem.replacing[a]
    BY <1>2, <1>4 DEF Config
  <1>6. /\ At("idle") \in Handlers /\ At("idle").at = "idle"
        /\ At("reap") \in Handlers /\ At("reap").at = "reap"
    BY <1>2, AtFields
  <1>7. /\ b \subseteq Listing(mem) /\ vault[h.account] = h.previous
        /\ h.account \notin torn => Of(vault, clearing, h.account, mem.binding[h.account])
    BY <1>1, <1>3, <1>4, Parts DEF Knows, Replacing
  <1> HIDE DEF b, next
  <1>8. /\ Sound(mem, vault, used) /\ Fits(mem, torn, vault, revoked, clearing)
    BY Parts
  <1>9. Names(next) \subseteq Names(mem) /\ Listing(mem) \subseteq used
    BY <1>4, <1>5, <1>8, Marks DEF Names, Sound, Listing, Pending
  <1>10. /\ Listing(next) \subseteq Listing(mem)
         /\ Listed(mem, torn) \subseteq Listing(next)
         /\ First \in Listing(mem) => First \in Listing(next)
    <2>1. Listing(next) \subseteq Listing(mem)
      BY <1>5, <1>7, <1>9 DEF Listing
    <2>2. Listed(mem, torn) \subseteq Listing(next)
      <3>1. ASSUME NEW a \in Accounts \ torn, mem.replacing[a] \in Backups
            PROVE  mem.replacing[a] \in Listing(next)
        <4>1. CASE a = h.account
          BY <1>4, <1>5, <3>1, <4>1, Marks DEF Listing, b
        <4>2. CASE a # h.account
          BY <1>5, <3>1, <4>2 DEF Listing, Names
        <4> QED
          BY <4>1, <4>2
      <3> QED
        BY <1>5, <3>1 DEF Listing, Listed
    <2>3. First \in Listing(mem) => First \in Listing(next)
      BY <1>5, Marks DEF Listing, Names
    <2> QED
      BY <2>1, <2>2, <2>3
  <1>11. AheadSet(mem, next) = {}
    BY <1>5, Marks DEF AheadSet
  <1>12. ASSUME Valid(next) PROVE Savable(next)
    <2>1. Sound(next, vault, used)
      <3>1. next.accounts \union Pending(next) \union Names(next) \subseteq used
        BY <1>5, <1>7, <1>8, <1>9 DEF Sound, Pending
      <3>2. \A a \in Accounts : next.replacing[a] \in Backups => next.replacing[a] = mem.replacing[a]
        BY <1>5, Marks
      <3> QED
        BY <1>5, <1>8, <1>10, <1>12, <3>1, <3>2 DEF Sound
    <2>2. Fits(next, torn, vault, revoked, clearing)
      <3> SUFFICES ASSUME NEW a \in Accounts \ torn
                   PROVE  /\ a \in next.accounts /\ next.replacing[a] = None =>
                               Of(vault, clearing, a, next.binding[a])
                          /\ next.replacing[a] \in Backups =>
                               /\ next.binding[a] # None
                               /\ Of(vault, clearing, next.replacing[a], next.binding[a])
                          /\ next.replacing[a] = Unbacked => clearing \/ next.binding[a] = None
                          /\ next.binding[a] # None =>
                               /\ next.binding[a] \notin revoked
                               /\ \A s \in next.deletions \union next.creations, r \in Records :
                                    vault[s][r] # next.binding[a]
        BY DEF Fits
      <3>1. CASE a = h.account
        BY <1>5, <1>7, <1>8, <3>1, Marks DEF Fits
      <3>2. CASE a # h.account
        BY <1>5, <1>8, <3>2 DEF Fits
      <3> QED
        BY <3>1, <3>2
    <2>3. Agree(mem, next, torn, vault)
      <3>1. Listed(next, torn) \subseteq Listing(mem)
        BY <1>10 DEF Listed, Listing, Names
      <3>2. ASSUME NEW a \in Accounts \ torn, mem.replacing[a] = Unbacked, next.replacing[a] = None
            PROVE  \E r \in Records : vault[a][r] = None
        <4>1. a = h.account /\ h.previous = Nothing
          BY <1>4, <1>5, <3>2, Marks
        <4> QED
          BY <1>7, <4>1, RecordFacts
      <3>3. \A a \in Accounts : ~(next.replacing[a] = Unbacked /\ mem.replacing[a] = None)
        BY <1>5, Marks
      <3>4. Covers(mem, next, torn, vault)
        BY <1>10, <3>2 DEF Covers
      <3>5. Covers(next, mem, torn, vault)
        BY <3>1, <3>3 DEF Covers
      <3> QED
        BY <1>5, <1>8, <3>4, <3>5 DEF Agree, Sound
    <2>4. torn \union AheadSet(mem, next) = torn
      BY <1>11
    <2> QED
      BY <2>1, <2>2, <2>3, <2>4 DEF Savable
  <1> QED
    BY <1>1, <1>5, <1>6, <1>12, SaveQuiet

LEMMA DeleteKeeps == ASSUME NEW a \in Accounts PROVE IInv /\ Delete(a) => IInv'
  <1> SUFFICES ASSUME IInv, Delete(a) PROVE IInv'
    OBVIOUS
  <1> DEFINE next == [mem EXCEPT !.accounts = @ \ {a}, !.binding[a] = None,
                                 !.deletions = @ \union {a}]
             done == [Idle EXCEPT !.at = "reap"]
  <1>1. /\ a \in mem.accounts /\ Save(next, done, Idle) /\ UNCHANGED <<revoked, clearing, torn>>
    BY DEF Delete
  <1>2. mem \in Config /\ a \in Slots
    BY Parts, Marks
  <1>3. /\ next \in Config /\ next.accounts = mem.accounts \ {a}
        /\ next.deletions = mem.deletions \union {a} /\ next.local = mem.local
        /\ next.creations = mem.creations /\ next.replacing = mem.replacing
        /\ next.binding[a] = None
        /\ \A x \in Accounts : x # a => next.binding[x] = mem.binding[x]
    BY <1>2 DEF Config, Ids
  <1>4. done \in Handlers /\ done.at = "reap" /\ Idle \in Handlers /\ Idle.at = "idle"
    BY IdleFields DEF Handlers, Labels
  <1> HIDE DEF next, done
  <1>5. Sound(mem, vault, used) /\ Fits(mem, torn, vault, revoked, clearing)
    BY Parts
  <1>6. Names(next) = Names(mem) /\ Listing(next) = Listing(mem)
    BY <1>1, <1>3 DEF Names, Listing
  <1>7. AheadSet(mem, next) = {}
    BY <1>3, Marks DEF AheadSet
  <1>8. ASSUME Valid(next) PROVE Savable(next)
    <2>1. Sound(next, vault, used)
      <3>1. next.accounts \union Pending(next) \union Names(next) \subseteq used
        BY <1>1, <1>3, <1>5, <1>6 DEF Sound, Pending
      <3>2. \A x \in Accounts : next.binding[x] # None => x # a /\ next.binding[x] = mem.binding[x]
        BY <1>3
      <3>3. \A x \in Accounts : next.binding[x] \in {mem.binding[x], None}
        BY <1>3
      <3> QED
        BY <1>3, <1>5, <1>6, <1>8, <3>1, <3>2, <3>3 DEF Sound
    <2>2. Fits(next, torn, vault, revoked, clearing)
      <3>0. next.replacing[a] = None
        BY <1>3, <1>8, ValidFacts
      <3> SUFFICES ASSUME NEW x \in Accounts \ torn
                   PROVE  /\ x \in next.accounts /\ next.replacing[x] = None =>
                               Of(vault, clearing, x, next.binding[x])
                          /\ next.replacing[x] \in Backups =>
                               /\ next.binding[x] # None
                               /\ Of(vault, clearing, next.replacing[x], next.binding[x])
                          /\ next.replacing[x] = Unbacked => clearing \/ next.binding[x] = None
                          /\ next.binding[x] # None =>
                               /\ next.binding[x] \notin revoked
                               /\ \A s \in next.deletions \union next.creations, r \in Records :
                                    vault[s][r] # next.binding[x]
        BY DEF Fits
      <3>1. CASE x = a
        BY <1>3, <3>0, <3>1, Marks
      <3>2. CASE x # a
        <4>1. mem.binding[x] # None => \A r \in Records : vault[a][r] # mem.binding[x]
          BY <1>5, <3>2 DEF Sound
        <4> QED
          BY <1>3, <1>5, <3>2, <4>1 DEF Fits
      <3> QED
        BY <3>1, <3>2
    <2>3. Agree(mem, next, torn, vault)
      <3>1. \A c : Listed(c, torn) \subseteq Listing(c)
        BY DEF Listed, Listing, Names
      <3>2. Covers(mem, next, torn, vault)
        BY <1>3, <1>6, <3>1, Marks DEF Covers
      <3>3. Covers(next, mem, torn, vault)
        BY <1>3, <1>6, <3>1, Marks DEF Covers
      <3>4. \A p, x \in Accounts : mem.binding[p] # None /\ p # x => mem.binding[p] # next.binding[x]
        BY <1>3, <1>5 DEF Sound
      <3> QED
        BY <3>2, <3>3, <3>4 DEF Agree
    <2>4. torn \union AheadSet(mem, next) = torn
      BY <1>7
    <2> QED
      BY <2>1, <2>2, <2>3, <2>4 DEF Savable
  <1> QED
    BY <1>1, <1>3, <1>4, <1>8, SaveQuiet

LEMMA ReapEndKeeps == IInv /\ ReapEnd => IInv'
  <1> SUFFICES ASSUME IInv, ReapEnd PROVE IInv'
    OBVIOUS
  <1> DEFINE next == [mem EXCEPT !.deletions = @ \ h.done, !.local = @ \ h.done,
                                 !.creations = @ \ h.done]
  <1>1. h.at = "reaping" /\ UNCHANGED <<revoked, clearing, torn>>
    BY DEF ReapEnd
  <1>2. mem \in Config /\ h \in Handlers /\ "idle" \in Labels
    BY Parts DEF Labels
  <1>3. At("idle") \in Handlers /\ At("idle").at = "idle"
    BY <1>2, AtFields
  <1>4. CASE h.done = {}
    <2>1. h' = At("idle") /\ UNCHANGED <<disk, mem, vault, vaultUp, used>>
      BY <1>4 DEF ReapEnd
    <2> QED
      BY <1>1, <1>3, <2>1, Quiet, OnlyMoves
  <1>5. CASE h.done # {}
    <2>1. Save(next, At("idle"), At("idle"))
      BY <1>5 DEF ReapEnd
    <2>2. /\ next \in Config /\ next.accounts = mem.accounts /\ next.binding = mem.binding
          /\ next.deletions = mem.deletions \ h.done /\ next.local = mem.local \ h.done
          /\ next.creations = mem.creations \ h.done /\ next.replacing = mem.replacing
      BY <1>2 DEF Config
    <2> HIDE DEF next
    <2>3. \A s \in h.done : vault[s] = Nothing
      BY <1>1, Parts DEF Reaping, Reaps
    <2>4. Sound(mem, vault, used) /\ Fits(mem, torn, vault, revoked, clearing)
      BY Parts
    <2>5. /\ Names(next) = Names(mem) /\ Listing(next) \subseteq Listing(mem)
          /\ \A s \in Listing(mem) : s \in Listing(next) \/ vault[s] = Nothing
          /\ Pending(next) \subseteq Pending(mem)
      BY <2>2, <2>3 DEF Names, Listing, Pending
    <2>6. AheadSet(mem, next) = {}
      BY <2>2, Marks DEF AheadSet
    <2>7. ASSUME Valid(next) PROVE Savable(next)
      <3>1. Sound(next, vault, used)
        BY <2>2, <2>4, <2>5, <2>7 DEF Sound
      <3>2. Fits(next, torn, vault, revoked, clearing)
        BY <2>2, <2>4 DEF Fits
      <3>3. \A c : Listed(c, torn) \subseteq Listing(c)
        BY DEF Listed, Listing, Names
      <3>4. Covers(mem, next, torn, vault)
        BY <2>2, <2>5, <3>3, Marks DEF Covers
      <3>5. Covers(next, mem, torn, vault)
        BY <2>2, <2>5, <3>3, Marks DEF Covers
      <3>6. Agree(mem, next, torn, vault)
        BY <2>2, <2>4, <3>4, <3>5 DEF Agree, Sound
      <3>7. torn \union AheadSet(mem, next) = torn
        BY <2>6
      <3> QED
        BY <3>1, <3>2, <3>6, <3>7 DEF Savable
    <2> QED
      BY <1>1, <1>3, <2>1, <2>2, <2>7, SaveQuiet
  <1> QED
    BY <1>4, <1>5

LEMMA RecoverEndKeeps == IInv /\ RecoverEnd => IInv'
  <1> SUFFICES ASSUME IInv, RecoverEnd PROVE IInv'
    OBVIOUS
  <1> DEFINE after == At(IF h.error THEN "idle" ELSE "reap")
             copies == {mem.replacing[a] : a \in h.done} \ {Unbacked}
             next == [mem EXCEPT
                        !.replacing = [a \in Accounts |-> IF a \in h.done THEN None ELSE @[a]],
                        !.local = @ \union copies]
  <1>1. h.at = "recover" /\ UNCHANGED <<revoked, clearing, torn>>
    BY DEF RecoverEnd
  <1>2. mem \in Config /\ h \in Handlers /\ {"idle", "reap"} \subseteq Labels
    BY Parts DEF Labels
  <1>3. /\ At("idle") \in Handlers /\ At("idle").at = "idle"
        /\ At("reap") \in Handlers /\ At("reap").at = "reap"
    BY <1>2, AtFields
  <1>4. after \in Handlers /\ after.at \in {"idle", "reap"}
    BY <1>3
  <1>5. /\ mem = disk
        /\ \A a \in h.done : a \in Accounts /\ mem.replacing[a] # None
        /\ \A a \in h.done : mem.replacing[a] = Unbacked => vault[a] = Nothing
        /\ \A a \in h.done \ torn : Of(vault, clearing, a, mem.binding[a])
    <2>1. Recovers(h) /\ Recovering /\ Recorded
      BY <1>1, Parts DEF Recovers
    <2> QED
      BY <2>1 DEF Recovering, Recorded
  <1>6. CASE h.done = {}
    <2>1. h' = after /\ UNCHANGED <<disk, mem, vault, vaultUp, used>>
      BY <1>6 DEF RecoverEnd
    <2> HIDE DEF after
    <2>2. Doing'
      BY <1>4, <1>5, <2>1, Quiet
    <2> QED
      BY <1>1, <1>4, <2>1, <2>2, OnlyMoves
  <1>7. CASE h.done # {}
    <2>1. Save(next, after, At("idle"))
      BY <1>7 DEF RecoverEnd
    <2> HIDE DEF after
    <2>2. copies \subseteq Names(mem) /\ copies \subseteq Slots
      BY <1>2, <1>5, ConfigFields, Marks DEF Names
    <2>3. \A a \in h.done : mem.replacing[a] \in Backups => mem.replacing[a] \in copies
      BY Marks
    <2> HIDE DEF copies
    <2>4. /\ next \in Config /\ next.accounts = mem.accounts /\ next.binding = mem.binding
          /\ next.deletions = mem.deletions /\ next.local = mem.local \union copies
          /\ next.creations = mem.creations
          /\ \A a \in Accounts : next.replacing[a] = IF a \in h.done THEN None ELSE mem.replacing[a]
      BY <1>2, <2>2 DEF Config
    <2> HIDE DEF next
    <2>5. Sound(mem, vault, used) /\ Fits(mem, torn, vault, revoked, clearing)
      BY Parts
    <2>6. /\ Names(next) \subseteq Names(mem)
          /\ \A a \in Accounts : next.replacing[a] \in Backups => next.replacing[a] = mem.replacing[a]
      BY <2>4, Marks DEF Names
    <2>7. /\ Listing(next) \subseteq Listing(mem) /\ Listing(mem) \subseteq Listing(next)
      <3>1. ASSUME NEW a \in Accounts, mem.replacing[a] \in Backups
            PROVE  mem.replacing[a] \in Listing(next)
        <4>1. CASE a \in h.done
          BY <2>3, <2>4, <3>1, <4>1 DEF Listing
        <4>2. CASE a \notin h.done
          BY <2>4, <3>1, <4>2 DEF Listing, Names
        <4> QED
          BY <4>1, <4>2
      <3>2. Names(mem) \subseteq Listing(next)
        BY <3>1 DEF Names
      <3>3. Listing(mem) \subseteq Listing(next)
        BY <2>4, <3>2 DEF Listing
      <3>4. Listing(next) \subseteq Listing(mem)
        BY <2>2, <2>4, <2>6 DEF Listing
      <3> QED
        BY <3>3, <3>4
    <2>8. AheadSet(mem, next) = {}
      BY <2>4, <2>6, Marks DEF AheadSet
    <2>9. ASSUME Valid(next) PROVE Savable(next)
      <3>1. Sound(next, vault, used)
        <4>1. next.accounts \union Pending(next) \union Names(next) \subseteq used
          BY <2>2, <2>4, <2>5, <2>6 DEF Sound, Pending
        <4> QED
          BY <2>4, <2>5, <2>6, <2>7, <2>9, <4>1 DEF Sound
      <3>2. Fits(next, torn, vault, revoked, clearing)
        <4> SUFFICES ASSUME NEW a \in Accounts \ torn
                     PROVE  /\ a \in next.accounts /\ next.replacing[a] = None =>
                                 Of(vault, clearing, a, next.binding[a])
                            /\ next.replacing[a] \in Backups =>
                                 /\ next.binding[a] # None
                                 /\ Of(vault, clearing, next.replacing[a], next.binding[a])
                            /\ next.replacing[a] = Unbacked => clearing \/ next.binding[a] = None
                            /\ next.binding[a] # None =>
                                 /\ next.binding[a] \notin revoked
                                 /\ \A s \in next.deletions \union next.creations, r \in Records :
                                      vault[s][r] # next.binding[a]
          BY DEF Fits
        <4>1. CASE a \in h.done
          BY <1>5, <2>4, <2>5, <4>1, Marks DEF Fits
        <4>2. CASE a \notin h.done
          BY <2>4, <2>5, <4>2 DEF Fits
        <4> QED
          BY <4>1, <4>2
      <3>3. \A c : Listed(c, torn) \subseteq Listing(c)
        BY DEF Listed, Listing, Names
      <3>4. ASSUME NEW a \in Accounts \ torn, mem.replacing[a] = Unbacked, next.replacing[a] = None
            PROVE  \E r \in Records : vault[a][r] = None
        <4>1. a \in h.done
          BY <2>4, <3>4, Marks
        <4> QED
          BY <1>5, <3>4, <4>1, RecordFacts
      <3>5. \A a \in Accounts : ~(next.replacing[a] = Unbacked /\ mem.replacing[a] = None)
        BY <2>4, Marks
      <3>6. Covers(mem, next, torn, vault)
        BY <2>7, <3>3, <3>4 DEF Covers
      <3>7. Covers(next, mem, torn, vault)
        BY <2>7, <3>3, <3>5 DEF Covers
      <3>8. Agree(mem, next, torn, vault)
        BY <2>4, <2>5, <3>6, <3>7 DEF Agree, Sound
      <3>9. torn \union AheadSet(mem, next) = torn
        BY <2>8
      <3> QED
        BY <3>1, <3>2, <3>8, <3>9 DEF Savable
    <2> QED
      BY <1>1, <1>3, <1>4, <2>1, <2>4, <2>9, SaveQuiet
  <1> QED
    BY <1>6, <1>7

-----------------------------------------------------------------------------
(* Saves of a creation.                                                     *)

LEMMA AnnounceKeeps == IInv /\ Announce => IInv'
  <1> SUFFICES ASSUME IInv, Announce PROVE IInv'
    OBVIOUS
  <1> DEFINE next == [mem EXCEPT !.creations = @ \union {h.account}]
             then == Write(h.account, Holds(h.new), "insert", "abort")
  <1>1. /\ h.at = "announce" /\ Save(next, then, At("idle")) /\ UNCHANGED <<revoked, clearing, torn>>
    BY DEF Announce
  <1>2. mem \in Config /\ h \in Handlers /\ {"idle", "insert", "abort"} \subseteq Labels
    BY Parts DEF Labels
  <1>3. /\ InFlight /\ h.account \in used /\ h.account # First /\ vault[h.account] = Nothing
        /\ h.account \notin mem.accounts \union Pending(mem)
        /\ \A a \in Accounts : mem.binding[a] # h.new
    BY <1>1, Parts DEF Creating, Knows
  <1>4. h.account \in Accounts /\ h.account \in Slots /\ h.new \in Identities
    BY <1>3, Marks DEF InFlight
  <1>5. /\ next \in Config /\ next.accounts = mem.accounts /\ next.binding = mem.binding
        /\ next.deletions = mem.deletions /\ next.local = mem.local
        /\ next.creations = mem.creations \union {h.account} /\ next.replacing = mem.replacing
    BY <1>2, <1>4 DEF Config
  <1>6. /\ At("idle") \in Handlers /\ At("idle").at = "idle"
        /\ then \in Handlers /\ SameBase(then) /\ then.at = "put" /\ then.slot = h.account
        /\ then.k = 1 /\ then.ok = "insert" /\ then.err = "abort" /\ then.content = Holds(h.new)
    <2>1. Holds(h.new) \in Contents
      BY <1>4, RecordFacts
    <2>2. Begins(then, "put", h.account, "insert", "abort") /\ then.content = Holds(h.new)
      BY <1>2, <1>4, <2>1, PutFields
    <2> HIDE DEF then
    <2> QED
      BY <1>2, <2>2, AtFields DEF Begins
  <1> HIDE DEF next, then
  <1>7. Sound(mem, vault, used) /\ Fits(mem, torn, vault, revoked, clearing)
    BY Parts
  <1>8. /\ Listing(next) = Listing(mem) /\ Names(next) = Names(mem)
        /\ Pending(next) = Pending(mem) \union {h.account}
    BY <1>5 DEF Listing, Names, Pending
  <1>9. ASSUME Valid(next) PROVE Savable(next)
    <2>1. Sound(next, vault, used)
      BY <1>3, <1>5, <1>7, <1>8, <1>9 DEF Sound
    <2>2. \A r \in Records : vault[h.account][r] = None
      BY <1>3 DEF Nothing
    <2>3. Fits(next, torn, vault, revoked, clearing)
      BY <1>5, <1>7, <2>2 DEF Fits
    <2>4. ASSUME NEW X PROVE Agree(mem, next, X, vault)
      <3>1. \A c : Listed(c, X) \subseteq Listing(c)
        BY DEF Listed, Listing, Names
      <3>2. Covers(mem, next, X, vault) /\ Covers(next, mem, X, vault)
        BY <1>5, <1>8, <3>1, Marks DEF Covers
      <3> QED
        BY <1>5, <1>7, <3>2 DEF Agree, Sound
    <2> QED
      BY <2>1, <2>3, <2>4 DEF Savable
  <1>10. /\ Kept' /\ UNCHANGED <<vault, used, revoked>> /\ Outcomes(next, then, At("idle"))
         /\ h' \in Handlers => TypeInv'
    BY <1>1, <1>5, <1>9, SaveKept
  <1>11. CASE h' = At("idle")
    BY <1>6, <1>10, <1>11, Quiet DEF IInv
  <1>12. CASE h' = then /\ mem' = next /\ disk' = next
    <2>1. /\ h' \in Handlers /\ SameBase(h') /\ h'.at = "put" /\ h'.slot = h.account
          /\ h'.k = 1 /\ h'.ok = "insert" /\ h'.err = "abort" /\ h'.content = Holds(h.new)
      BY <1>6, <1>12
    <2>2. ASSUME NEW c, NEW X, NEW v, NEW e PROVE Knows(c, X, h', v, e)
      BY <2>1 DEF Knows, Going, RollingBack, Aborting
    <2>3. Progress'
      BY <1>4, <2>1, NoneBefore DEF Progress
    <2>4. Staging' /\ Recorded' /\ Replacing' /\ Recovering' /\ Reaping'
      BY <1>12, <2>1 DEF Staging, Recorded, Replacing, Recovering, Reaping, Going, RollingBack,
         Recovers, Reaps
    <2>5. InFlight'
      BY <1>3, <1>10, <2>1 DEF InFlight, SameBase
    <2>6. Creating'
      BY <1>3, <1>4, <1>5, <1>10, <1>12, <2>1, <2>5 DEF Creating, Going, Aborting, SameBase
    <2>7. Doing'
      BY <2>2, <2>3, <2>4, <2>6 DEF Doing
    <2> QED
      BY <1>10, <2>1, <2>7 DEF IInv
  <1> QED
    BY <1>10, <1>11, <1>12 DEF Outcomes

LEMMA InsertKeeps == IInv /\ Insert => IInv'
  <1> SUFFICES ASSUME IInv, Insert PROVE IInv'
    OBVIOUS
  <1> DEFINE next == [mem EXCEPT !.creations = @ \ {h.account},
                                 !.accounts = @ \union {h.account},
                                 !.binding[h.account] = h.new]
             else == Wipe(h.account, "abort", "abort")
  <1>1. /\ h.at = "insert" /\ Save(next, At("idle"), else) /\ UNCHANGED <<revoked, clearing, torn>>
    BY DEF Insert
  <1>2. mem \in Config /\ h \in Handlers /\ {"idle", "abort"} \subseteq Labels
    BY Parts DEF Labels
  <1>3. /\ mem = disk /\ InFlight /\ h.account \in used /\ h.account # First
        /\ h.account \in mem.creations /\ vault[h.account] = Holds(h.new)
        /\ \A a \in Accounts : mem.binding[a] # h.new
    BY <1>1, Parts DEF Creating, Recorded, Going
  <1>4. /\ h.account \in Accounts /\ h.account \in Slots /\ h.new \in Identities /\ h.new # None
        /\ h.new \in used /\ h.new \notin revoked
        /\ \A s \in Slots, r \in Records : s # h.account => vault[s][r] # h.new
    BY <1>3, Marks DEF InFlight
  <1>5. /\ next \in Config /\ next.accounts = mem.accounts \union {h.account}
        /\ next.deletions = mem.deletions /\ next.local = mem.local
        /\ next.creations = mem.creations \ {h.account} /\ next.replacing = mem.replacing
        /\ next.binding[h.account] = h.new
        /\ \A x \in Accounts : x # h.account => next.binding[x] = mem.binding[x]
    BY <1>2, <1>4 DEF Config, Ids
  <1>6. /\ At("idle") \in Handlers /\ At("idle").at = "idle"
        /\ else \in Handlers /\ SameBase(else) /\ else.at = "wipe" /\ else.slot = h.account
        /\ else.k = 1 /\ else.ok = "abort" /\ else.err = "abort"
    <2>1. Begins(else, "wipe", h.account, "abort", "abort")
      BY <1>2, <1>4, WipeFields
    <2> HIDE DEF else
    <2> QED
      BY <1>2, <2>1, AtFields DEF Begins
  <1> HIDE DEF next, else
  <1>7. Sound(mem, vault, used) /\ Fits(mem, torn, vault, revoked, clearing)
    BY Parts
  <1>8. /\ h.account \notin mem.accounts /\ h.account \notin mem.deletions
        /\ mem.replacing[h.account] = None
    <2>1. Valid(mem)
      BY <1>7 DEF Sound
    <2>2. h.account \in Pending(mem)
      BY <1>3 DEF Pending
    <2> QED
      BY <1>2, <1>3, <1>4, <2>1, <2>2, ValidFacts
  <1>9. /\ Names(next) = Names(mem) /\ Listing(next) = Listing(mem) \union {h.account}
        /\ Pending(next) \subseteq Pending(mem)
    BY <1>5 DEF Listing, Names, Pending
  <1>10. h.account \in AheadSet(mem, next)
    BY <1>3, <1>4, <1>5 DEF AheadSet
  <1>11. \A r \in Records : vault[h.account][r] = h.new
    BY <1>3 DEF Holds
  <1>12. ASSUME Valid(next) PROVE Savable(next)
    <2>1. Sound(next, vault, used)
      <3>1. next.accounts \union Pending(next) \union Names(next) \subseteq used
        BY <1>3, <1>5, <1>7, <1>9 DEF Sound
      <3>2. \A a \in Accounts : next.binding[a] \in used \union {None}
        BY <1>4, <1>5, <1>7 DEF Sound
      <3>3. First \in Listing(next) \/ vault[First] = Nothing
        BY <1>7, <1>9 DEF Sound
      <3>4. ASSUME NEW x \in Accounts, next.binding[x] # None, NEW a \in Accounts, a # x
            PROVE  /\ next.binding[a] # next.binding[x]
                   /\ \A r \in Records : vault[a][r] # next.binding[x]
                   /\ next.replacing[a] \in Backups =>
                        \A r \in Records : vault[next.replacing[a]][r] # next.binding[x]
        <4>1. CASE x = h.account
          BY <1>3, <1>4, <1>5, <3>4, <4>1, Marks
        <4>2. CASE x # h.account
          <5>1. next.binding[x] = mem.binding[x] /\ mem.binding[x] # h.new
            BY <1>3, <1>5, <4>2
          <5>2. /\ mem.binding[a] # mem.binding[x]
                /\ \A r \in Records : vault[a][r] # mem.binding[x]
                /\ mem.replacing[a] \in Backups =>
                     \A r \in Records : vault[mem.replacing[a]][r] # mem.binding[x]
            BY <1>7, <3>4, <5>1 DEF Sound
          <5> QED
            BY <1>5, <5>1, <5>2
        <4> QED
          BY <4>1, <4>2
      <3> QED
        BY <1>5, <1>7, <1>12, <3>1, <3>2, <3>3, <3>4 DEF Sound
    <2>2. Fits(next, torn, vault, revoked, clearing)
      <3> SUFFICES ASSUME NEW a \in Accounts \ torn
                   PROVE  /\ a \in next.accounts /\ next.replacing[a] = None =>
                               Of(vault, clearing, a, next.binding[a])
                          /\ next.replacing[a] \in Backups =>
                               /\ next.binding[a] # None
                               /\ Of(vault, clearing, next.replacing[a], next.binding[a])
                          /\ next.replacing[a] = Unbacked => clearing \/ next.binding[a] = None
                          /\ next.binding[a] # None =>
                               /\ next.binding[a] \notin revoked
                               /\ \A s \in next.deletions \union next.creations, r \in Records :
                                    vault[s][r] # next.binding[a]
        BY DEF Fits
      <3>1. CASE a = h.account
        <4>1. Of(vault, clearing, a, next.binding[a])
          BY <1>5, <1>11, <3>1 DEF Of
        <4>2. next.replacing[a] = None
          BY <1>5, <1>8, <3>1
        <4>3. \A s \in next.deletions \union next.creations : s \in Slots /\ s # h.account
          BY <1>5, <1>8, ConfigFields, Marks
        <4> QED
          BY <1>4, <1>5, <3>1, <4>1, <4>2, <4>3, Marks
      <3>2. CASE a # h.account
        BY <1>5, <1>7, <3>2 DEF Fits
      <3> QED
        BY <3>1, <3>2
    <2>3. ASSUME NEW X, h.account \in X PROVE Agree(mem, next, X, vault)
      <3>1. Listed(mem, X) \subseteq Listing(next)
        BY <1>9 DEF Listed, Listing, Names
      <3>2. Listed(next, X) \subseteq Listing(mem)
        BY <1>5, <2>3 DEF Listed, Listing, Names
      <3>3. Covers(mem, next, X, vault) /\ Covers(next, mem, X, vault)
        BY <1>5, <3>1, <3>2, Marks DEF Covers
      <3>4. \A p, x \in Accounts : mem.binding[p] # None /\ p # x => mem.binding[p] # next.binding[x]
        BY <1>3, <1>5, <1>7 DEF Sound
      <3> QED
        BY <3>3, <3>4 DEF Agree
    <2> QED
      BY <1>10, <2>1, <2>2, <2>3 DEF Savable
  <1>13. /\ Kept' /\ UNCHANGED <<vault, used, revoked, clearing, torn>>
         /\ Outcomes(next, At("idle"), else) /\ (h' \in Handlers => TypeInv')
    BY <1>1, <1>5, <1>12, SaveKept
  <1>14. CASE h' = At("idle")
    BY <1>6, <1>13, <1>14, Quiet DEF IInv
  <1>15. CASE h' = else /\ mem' = mem /\ (disk' = disk \/ h.account \in Exempt')
    <2>1. /\ h' \in Handlers /\ h'.account = h.account /\ h'.at = "wipe" /\ h'.slot = h.account
          /\ h'.k = 1 /\ h'.ok = "abort" /\ h'.err = "abort"
      BY <1>6, <1>15 DEF SameBase
    <2>2. ASSUME NEW c, NEW X, NEW v, NEW e, h.account \in X \/ h.account \notin c.accounts
          PROVE  Knows(c, X, h', v, e)
      BY <2>1, <2>2 DEF Knows, Going, RollingBack, Aborting
    <2>3. Knows(mem, torn, h, vault, clearing)' /\ Knows(disk, Exempt, h, vault, clearing)'
      BY <1>3, <1>8, <1>15, <2>2
    <2>4. Progress'
      BY <1>4, <2>1, NoneBefore DEF Progress
    <2>5. Staging' /\ Recorded' /\ Replacing' /\ Recovering' /\ Reaping'
      BY <2>1 DEF Staging, Recorded, Replacing, Recovering, Reaping, Going, RollingBack,
         Recovers, Reaps
    <2>6. Creating'
      BY <1>4, <2>1 DEF Creating, Going, Aborting
    <2>7. Doing'
      BY <2>3, <2>4, <2>5, <2>6 DEF Doing
    <2> QED
      BY <1>13, <2>1, <2>7 DEF IInv
  <1> QED
    BY <1>10, <1>13, <1>14, <1>15 DEF Outcomes

-----------------------------------------------------------------------------
(* Saves of a replacement.                                                  *)

LEMMA CommitKeeps == IInv /\ Commit => IInv'
  <1> SUFFICES ASSUME IInv, Commit PROVE IInv'
    OBVIOUS
  <1> DEFINE b == {h.backup} \ {Unbacked}
             next == [mem EXCEPT !.replacing[h.account] = None,
                                 !.binding[h.account] = h.new,
                                 !.deletions = @ \union b]
  <1>1. /\ h.at = "commit" /\ Save(next, At("reap"), At("unbind"))
        /\ UNCHANGED <<revoked, clearing, torn>>
    BY DEF Commit
  <1>2. mem \in Config /\ h \in Handlers /\ {"reap", "unbind"} \subseteq Labels
    BY Parts DEF Labels
  <1>3. Going(h, "commit") /\ vault[h.account] = Holds(h.new)
    BY <1>1, Parts DEF Going, Replacing
  <1>4. /\ mem = disk /\ h.account \in mem.accounts /\ h.account \in Accounts
        /\ \A a \in Accounts : mem.binding[a] # h.new
        /\ mem.replacing[h.account] = h.backup /\ h.backup \in Backups \union {Unbacked}
        /\ h.account \in Slots /\ h.new \in Identities /\ h.new # None
        /\ h.new \in used /\ h.new \notin revoked
        /\ \A s \in Slots, r \in Records : s # h.account => vault[s][r] # h.new
        /\ b \subseteq Backups /\ b \subseteq Slots
    BY <1>3, CommitFacts, Marks DEF InFlight
  <1>5. /\ next \in Config /\ next.accounts = mem.accounts
        /\ next.deletions = mem.deletions \union b /\ next.local = mem.local
        /\ next.creations = mem.creations
        /\ next.binding[h.account] = h.new /\ next.replacing[h.account] = None
        /\ \A x \in Accounts : x # h.account =>
             next.binding[x] = mem.binding[x] /\ next.replacing[x] = mem.replacing[x]
    BY <1>2, <1>4 DEF Config, Ids
  <1>6. /\ At("reap") \in Handlers /\ At("reap").at = "reap"
        /\ At("unbind") \in Handlers /\ At("unbind").at = "unbind" /\ SameBase(At("unbind"))
    BY <1>2, AtFields
  <1>7. b \subseteq Names(mem) /\ (h.backup \in Backups => h.backup \in b)
    BY <1>4, Marks DEF Names
  <1>8. \A s \in b : s = h.backup
    OBVIOUS
  <1> HIDE DEF next, b
  <1>9. Sound(mem, vault, used) /\ Fits(mem, torn, vault, revoked, clearing)
    BY Parts
  <1>10. /\ Names(next) \subseteq Names(mem)
         /\ Listing(next) \subseteq Listing(mem) /\ Listing(mem) \subseteq Listing(next)
    <2>1. Names(next) \subseteq Names(mem)
      BY <1>4, <1>5, Marks DEF Names
    <2>2. ASSUME NEW a \in Accounts, mem.replacing[a] \in Backups
          PROVE  mem.replacing[a] \in Listing(next)
      <3>1. CASE a = h.account
        BY <1>4, <1>5, <1>7, <2>2, <3>1 DEF Listing
      <3>2. CASE a # h.account
        BY <1>5, <2>2, <3>2 DEF Listing, Names
      <3> QED
        BY <3>1, <3>2
    <2>3. Names(mem) \subseteq Listing(next)
      BY <2>2 DEF Names
    <2>4. Listing(mem) \subseteq Listing(next)
      BY <1>5, <2>3 DEF Listing
    <2>5. Listing(next) \subseteq Listing(mem)
      BY <1>5, <1>7, <2>1 DEF Listing
    <2> QED
      BY <2>1, <2>4, <2>5
  <1>11. h.account \in AheadSet(mem, next)
    BY <1>4, <1>5 DEF AheadSet
  <1>12. \A r \in Records : vault[h.account][r] = h.new
    BY <1>3 DEF Holds
  <1>13. ASSUME Valid(next) PROVE Savable(next)
    <2>1. Sound(next, vault, used)
      <3>1. next.accounts \union Pending(next) \union Names(next) \subseteq used
        BY <1>5, <1>7, <1>9, <1>10 DEF Sound, Pending
      <3>2. \A a \in Accounts : next.binding[a] \in used \union {None}
        BY <1>4, <1>5, <1>9 DEF Sound
      <3>3. First \in Listing(next) \/ vault[First] = Nothing
        BY <1>9, <1>10 DEF Sound
      <3>4. ASSUME NEW x \in Accounts, next.binding[x] # None, NEW a \in Accounts, a # x
            PROVE  /\ next.binding[a] # next.binding[x]
                   /\ \A r \in Records : vault[a][r] # next.binding[x]
                   /\ next.replacing[a] \in Backups =>
                        \A r \in Records : vault[next.replacing[a]][r] # next.binding[x]
        <4>1. CASE x = h.account
          BY <1>4, <1>5, <3>4, <4>1, Marks
        <4>2. CASE x # h.account
          <5>1. next.binding[x] = mem.binding[x] /\ mem.binding[x] # h.new
            BY <1>4, <1>5, <4>2
          <5>2. /\ mem.binding[a] # mem.binding[x]
                /\ \A r \in Records : vault[a][r] # mem.binding[x]
                /\ mem.replacing[a] \in Backups =>
                     \A r \in Records : vault[mem.replacing[a]][r] # mem.binding[x]
            BY <1>9, <3>4, <5>1 DEF Sound
          <5>3. next.replacing[a] \in Backups => next.replacing[a] = mem.replacing[a]
            BY <1>5, Marks
          <5>4. next.binding[a] # next.binding[x]
            BY <1>5, <5>1, <5>2
          <5> QED
            BY <5>1, <5>2, <5>3, <5>4
        <4> QED
          BY <4>1, <4>2
      <3> QED
        BY <1>5, <1>9, <1>13, <3>1, <3>2, <3>3, <3>4 DEF Sound
    <2>2. Fits(next, torn, vault, revoked, clearing)
      <3> SUFFICES ASSUME NEW a \in Accounts \ torn
                   PROVE  /\ a \in next.accounts /\ next.replacing[a] = None =>
                               Of(vault, clearing, a, next.binding[a])
                          /\ next.replacing[a] \in Backups =>
                               /\ next.binding[a] # None
                               /\ Of(vault, clearing, next.replacing[a], next.binding[a])
                          /\ next.replacing[a] = Unbacked => clearing \/ next.binding[a] = None
                          /\ next.binding[a] # None =>
                               /\ next.binding[a] \notin revoked
                               /\ \A s \in next.deletions \union next.creations, r \in Records :
                                    vault[s][r] # next.binding[a]
        BY DEF Fits
      <3>1. CASE a = h.account
        <4>1. Of(vault, clearing, a, next.binding[a])
          BY <1>5, <1>12, <3>1 DEF Of
        <4>2. \A s \in next.deletions \union next.creations : s \in Slots /\ s # h.account
          <5>1. h.account \in next.accounts /\ next.deletions \union next.creations \subseteq Pending(next)
            BY <1>4, <1>5 DEF Pending
          <5> QED
            BY <1>5, <1>13, <5>1, ConfigFields, ValidFacts
        <4> QED
          BY <1>4, <1>5, <3>1, <4>1, <4>2, Marks
      <3>2. CASE a # h.account
        <4>1. mem.binding[a] # None => \A s \in b, r \in Records : vault[s][r] # mem.binding[a]
          BY <1>4, <1>7, <1>8, <1>9, <3>2 DEF Sound
        <4> QED
          BY <1>5, <1>9, <3>2, <4>1 DEF Fits
      <3> QED
        BY <3>1, <3>2
    <2>3. ASSUME NEW X, h.account \in X PROVE Agree(mem, next, X, vault)
      <3>1. \A c : Listed(c, X) \subseteq Listing(c)
        BY DEF Listed, Listing, Names
      <3>2. \A a \in Accounts \ X : next.replacing[a] = mem.replacing[a]
        BY <1>5, <2>3
      <3>3. Covers(mem, next, X, vault) /\ Covers(next, mem, X, vault)
        BY <1>10, <3>1, <3>2, Marks DEF Covers
      <3>4. \A p, x \in Accounts : mem.binding[p] # None /\ p # x => mem.binding[p] # next.binding[x]
        BY <1>4, <1>5, <1>9 DEF Sound
      <3> QED
        BY <3>3, <3>4 DEF Agree
    <2> QED
      BY <1>11, <2>1, <2>2, <2>3 DEF Savable
  <1>14. /\ Kept' /\ UNCHANGED <<vault, used, revoked, clearing, torn>>
         /\ Outcomes(next, At("reap"), At("unbind")) /\ (h' \in Handlers => TypeInv')
    BY <1>1, <1>5, <1>13, SaveKept
  <1>15. CASE h' = At("reap") /\ mem' = disk'
    BY <1>6, <1>14, <1>15, Quiet DEF IInv
  <1>16. CASE /\ h' = At("unbind") /\ mem' = mem
              /\ \/ disk' = disk /\ Exempt' = Exempt
                 \/ disk' = next /\ h.account \in Exempt'
    <2>1. /\ h' \in Handlers /\ h'.at = "unbind" /\ h'.account = h.account /\ h'.new = h.new
          /\ h'.previous = h.previous /\ h'.backup = h.backup
      BY <1>6, <1>16 DEF SameBase
    <2>2. ASSUME NEW X, torn \subseteq X PROVE Knows(mem, X, h', vault, clearing)
      <3>1. h.backup \in Backups => h.backup \in Listing(mem)
        BY <1>7 DEF Listing
      <3>2. h.account \notin X => Previous(mem, h', clearing)
        BY <1>3, <2>1, <2>2, CommitFacts DEF Previous
      <3> QED
        BY <1>3, <1>4, <2>1, <3>1, <3>2, CommitFacts DEF Knows, Going, RollingBack, Aborting
    <2>3. ASSUME NEW X, h.account \in X PROVE Knows(next, X, h', vault, clearing)
      <3>1. h.backup \in Backups => h.backup \in Listing(next)
        BY <1>5, <1>7 DEF Listing
      <3>2. ~Foreign(next, h.account, h.previous)
        BY <1>3, <1>5, CommitFacts DEF Foreign
      <3>3. \A a \in Accounts \ X : next.binding[a] # h.new
        BY <1>4, <1>5, <2>3
      <3> QED
        BY <1>4, <1>5, <2>1, <2>3, <3>1, <3>2, <3>3 DEF Knows, Going, RollingBack, Aborting
    <2>4. Knows(mem, torn, h, vault, clearing)' /\ Knows(disk, Exempt, h, vault, clearing)'
      <3>1. Knows(mem, torn, h', vault, clearing)
        BY <2>2
      <3>2. torn \subseteq Exempt
        BY DEF Exempt
      <3> QED
        BY <1>4, <1>14, <1>16, <2>2, <2>3, <3>1, <3>2
    <2>5. Progress' /\ Staging' /\ Recorded' /\ Creating' /\ Recovering' /\ Reaping'
      BY <2>1 DEF Progress, Staging, Recorded, Creating, Recovering, Reaping, Going, Aborting,
         Recovers, Reaps
    <2>6. Replacing'
      BY <1>3, <1>4, <1>14, <2>1, CommitFacts DEF Replacing, Going, RollingBack
    <2>7. Doing'
      BY <2>4, <2>5, <2>6 DEF Doing
    <2> QED
      BY <1>14, <2>1, <2>7 DEF IInv
  <1> QED
    BY <1>11, <1>14, <1>15, <1>16 DEF Outcomes

LEMMA StageKeeps == IInv /\ Stage => IInv'
  <1> SUFFICES ASSUME IInv, Stage PROVE IInv'
    OBVIOUS
  <1> DEFINE next == [h.base EXCEPT !.replacing[h.account] = h.backup]
             then == [Write(h.account, Holds(h.new), "commit", "roll back") EXCEPT !.base = Default]
             else == IF h.backup = Unbacked THEN At("idle") ELSE Wipe(h.backup, "idle", "idle")
             X == torn \union AheadSet(mem, next)
  <1>1. h.at = "stage" /\ Save(next, then, else) /\ UNCHANGED <<revoked, clearing, torn>>
    BY DEF Stage
  <1>2. /\ mem \in Config /\ h \in Handlers /\ {"idle", "commit", "roll back"} \subseteq Labels
        /\ h.base \in Config /\ h.backup \in Backups \union {Unbacked}
    BY Parts, HandlerFields DEF Labels
  <1>3. /\ InFlight
        /\ Sound(h.base, vault, used) /\ Fits(h.base, torn, vault, revoked, clearing)
        /\ Agree(h.base, mem, torn, vault)
        /\ h.account \in h.base.accounts /\ h.base.replacing[h.account] = None
        /\ \A a \in Accounts : h.base.binding[a] # h.new
        /\ h.account \notin torn => Previous(h.base, h, clearing)
        /\ h.backup \in Backups =>
              /\ h.backup \in used /\ h.backup \notin Listing(h.base)
              /\ h.previous = vault[h.account] /\ \A r \in Records : h.previous[r] # None
              /\ vault[h.backup] = h.previous
        /\ h.backup = Unbacked =>
              h.previous = Nothing /\ \E r \in Records : vault[h.account][r] = None
    BY <1>1, Parts DEF Staging, Going
  <1>4. /\ h.account \in Accounts /\ h.account \in Slots /\ h.new \in Identities
        /\ h.backup # None /\ Unbacked \notin Backups
        /\ h.backup \in Backups => h.backup \in Slots
    BY <1>2, <1>3, Marks DEF InFlight
  <1>5. /\ h.backup \in Backups =>
              /\ h.backup \notin Listing(mem) /\ h.backup \notin Listing(disk)
              /\ h.account \notin torn => mem.replacing[h.account] = None
    BY <1>1, Parts DEF Knows, Going
  <1>6. /\ next \in Config /\ next.accounts = h.base.accounts /\ next.binding = h.base.binding
        /\ next.deletions = h.base.deletions /\ next.local = h.base.local
        /\ next.creations = h.base.creations /\ next.replacing[h.account] = h.backup
        /\ \A x \in Accounts : x # h.account => next.replacing[x] = h.base.replacing[x]
    BY <1>2, <1>4 DEF Config
  <1>7. /\ then \in Handlers /\ then.at = "put" /\ then.slot = h.account
        /\ then.k = 1 /\ then.ok = "commit" /\ then.err = "roll back"
        /\ then.content = Holds(h.new)
        /\ then.account = h.account /\ then.new = h.new /\ then.previous = h.previous
        /\ then.backup = h.backup
    <2> DEFINE g == Write(h.account, Holds(h.new), "commit", "roll back")
    <2>1. Holds(h.new) \in Contents
      BY <1>4, RecordFacts
    <2>2. Begins(g, "put", h.account, "commit", "roll back") /\ g.content = Holds(h.new)
      <3>1. h \in Handlers /\ "commit" \in Labels /\ "roll back" \in Labels
        BY <1>2
      <3>2. h.account \in Slots
        BY <1>4
      <3> QED
        BY <2>1, <3>1, <3>2, PutFields
    <2>3. then = [g EXCEPT !.base = Default]
      OBVIOUS
    <2>4. /\ g \in Handlers /\ SameBase(g) /\ g.at = "put" /\ g.slot = h.account
          /\ g.k = 1 /\ g.ok = "commit" /\ g.err = "roll back" /\ g.content = Holds(h.new)
      BY <2>2 DEF Begins
    <2> HIDE DEF g, then
    <2>5. /\ then \in Handlers /\ then.at = g.at /\ then.slot = g.slot /\ then.k = g.k
          /\ then.ok = g.ok /\ then.err = g.err /\ then.content = g.content
          /\ then.account = g.account /\ then.new = g.new /\ then.previous = g.previous
          /\ then.backup = g.backup
      <3> SUFFICES ASSUME NEW f \in Handlers, NEW t, NEW d \in Config, t = [f EXCEPT !.base = d]
                   PROVE  /\ t \in Handlers /\ t.at = f.at /\ t.slot = f.slot /\ t.k = f.k
                          /\ t.ok = f.ok /\ t.err = f.err /\ t.content = f.content
                          /\ t.account = f.account /\ t.new = f.new
                          /\ t.previous = f.previous /\ t.backup = f.backup
        BY <2>3, <2>4, DefaultFields
      <3> QED
        BY DEF Handlers
    <2> QED
      BY <2>4, <2>5 DEF SameBase
  <1>8. /\ h.backup = Unbacked => else \in Handlers /\ else.at = "idle"
        /\ h.backup \in Backups =>
              /\ else \in Handlers /\ else.at = "wipe" /\ else.slot = h.backup
              /\ else.k = 1 /\ else.ok = "idle" /\ else.err = "idle"
    <2>1. CASE h.backup = Unbacked
      BY <1>2, <1>4, <2>1, AtFields
    <2>2. CASE h.backup \in Backups
      <3>1. Begins(Wipe(h.backup, "idle", "idle"), "wipe", h.backup, "idle", "idle")
        BY <1>2, <1>4, <2>2, WipeFields
      <3> QED
        BY <1>4, <2>2, <3>1 DEF Begins
    <2> QED
      BY <1>2, <2>1, <2>2
  <1> HIDE DEF next, then, else
  <1>9. /\ Pending(next) = Pending(h.base) /\ Listing(h.base) \subseteq Listing(next)
        /\ Names(next) \subseteq Names(h.base) \union ({h.backup} \intersect Backups)
    <2>1. Names(h.base) \subseteq Names(next)
      BY <1>3, <1>6, Marks DEF Names
    <2>2. Names(next) \subseteq Names(h.base) \union ({h.backup} \intersect Backups)
      BY <1>6 DEF Names
    <2> QED
      BY <1>6, <2>1, <2>2 DEF Listing, Pending
  <1>10. h.backup \in Backups => h.account \in X
    <2> SUFFICES ASSUME h.backup \in Backups, h.account \notin torn
                 PROVE  h.account \in AheadSet(mem, next)
      OBVIOUS
    <2> QED
      BY <1>4, <1>5, <1>6 DEF AheadSet
  <1> HIDE DEF X
  <1>11. torn \subseteq X
    BY DEF X
  <1>12. ASSUME Valid(next) PROVE Savable(next)
    <2>1. Sound(next, vault, used)
      <3>1. next.accounts \union Pending(next) \union Names(next) \subseteq used
        BY <1>3, <1>6, <1>9 DEF Sound
      <3>2. First \in Listing(next) \/ vault[First] = Nothing
        BY <1>3, <1>9 DEF Sound
      <3>3. ASSUME NEW x \in Accounts, next.binding[x] # None, NEW a \in Accounts, a # x
            PROVE  /\ next.binding[a] # next.binding[x]
                   /\ \A r \in Records : vault[a][r] # next.binding[x]
                   /\ next.replacing[a] \in Backups =>
                        \A r \in Records : vault[next.replacing[a]][r] # next.binding[x]
        <4>1. /\ h.base.binding[a] # h.base.binding[x]
              /\ \A r \in Records : vault[a][r] # h.base.binding[x]
              /\ h.base.replacing[a] \in Backups =>
                   \A r \in Records : vault[h.base.replacing[a]][r] # h.base.binding[x]
          BY <1>3, <1>6, <3>3 DEF Sound
        <4>2. CASE a = h.account
          BY <1>3, <1>6, <4>1, <4>2
        <4>3. CASE a # h.account
          BY <1>6, <4>1, <4>3
        <4> QED
          BY <4>2, <4>3
      <3> QED
        BY <1>3, <1>6, <1>12, <3>1, <3>2, <3>3 DEF Sound
    <2>2. Fits(next, torn, vault, revoked, clearing)
      <3> SUFFICES ASSUME NEW a \in Accounts \ torn
                   PROVE  /\ a \in next.accounts /\ next.replacing[a] = None =>
                               Of(vault, clearing, a, next.binding[a])
                          /\ next.replacing[a] \in Backups =>
                               /\ next.binding[a] # None
                               /\ Of(vault, clearing, next.replacing[a], next.binding[a])
                          /\ next.replacing[a] = Unbacked => clearing \/ next.binding[a] = None
                          /\ next.binding[a] # None =>
                               /\ next.binding[a] \notin revoked
                               /\ \A s \in next.deletions \union next.creations, r \in Records :
                                    vault[s][r] # next.binding[a]
        BY DEF Fits
      <3>1. next.binding[a] # None =>
              /\ next.binding[a] \notin revoked
              /\ \A s \in next.deletions \union next.creations, r \in Records :
                   vault[s][r] # next.binding[a]
        BY <1>3, <1>6 DEF Fits
      <3>2. CASE a = h.account
        <4>1. Previous(h.base, h, clearing)
          BY <1>3, <3>2
        <4>2. CASE h.backup \in Backups
          <5>1. h.previous # Nothing
            BY <1>3, <4>2, RecordFacts
          <5>2. h.base.binding[a] # None /\ vault[h.backup] = Holds(h.base.binding[a])
            BY <1>3, <3>2, <4>1, <4>2, <5>1 DEF Previous
          <5>3. Of(vault, clearing, h.backup, h.base.binding[a])
            BY <5>2, RecordFacts DEF Of
          <5> QED
            BY <1>4, <1>6, <3>1, <3>2, <4>2, <5>2, <5>3
        <4>3. CASE h.backup = Unbacked
          <5>1. h.base.binding[a] \in Ids
            BY <1>2, ConfigFields
          <5>2. clearing \/ h.base.binding[a] = None
            BY <1>3, <3>2, <4>1, <4>3, <5>1, RecordFacts DEF Previous, Ids
          <5> QED
            BY <1>4, <1>6, <3>1, <3>2, <4>3, <5>2
        <4> QED
          BY <1>2, <4>2, <4>3
      <3>3. CASE a # h.account
        <4>1. next.replacing[a] = h.base.replacing[a]
          BY <1>6, <3>3
        <4> QED
          BY <1>3, <1>6, <3>1, <4>1 DEF Fits
      <3> QED
        BY <3>2, <3>3
    <2>3. Agree(mem, next, X, vault)
      <3>1. Agree(h.base, mem, X, vault) /\ Agree(mem, h.base, X, vault)
        BY <1>3, <1>11, WiderAgree, AgreeSymmetric
      <3>2. Covers(mem, next, X, vault)
        <4>1. \A a \in Accounts \ X : next.replacing[a] = None => h.base.replacing[a] = None
          BY <1>3, <1>6
        <4> QED
          BY <1>9, <3>1, <4>1 DEF Agree, Covers
      <3>3. Covers(next, mem, X, vault)
        <4>1. ASSUME NEW a \in Accounts \ X, next.replacing[a] \in Backups
              PROVE  next.replacing[a] = h.base.replacing[a]
          BY <1>6, <1>10, <4>1
        <4>2. Listed(next, X) \subseteq Listed(h.base, X)
          BY <1>6, <4>1 DEF Listed
        <4>3. ASSUME NEW a \in Accounts \ X, next.replacing[a] = Unbacked, mem.replacing[a] = None
              PROVE  \E r \in Records : vault[a][r] = None
          <5>1. CASE a = h.account
            BY <1>3, <1>6, <4>3, <5>1
          <5>2. CASE a # h.account
            BY <1>6, <3>1, <4>3, <5>2 DEF Agree, Covers
          <5> QED
            BY <5>1, <5>2
        <4> QED
          BY <3>1, <4>2, <4>3 DEF Agree, Covers
      <3> QED
        BY <1>6, <3>1, <3>2, <3>3 DEF Agree
    <2> QED
      BY <2>1, <2>2, <2>3 DEF Savable, X
  <1>13. /\ Kept' /\ UNCHANGED <<vault, used, revoked, clearing, torn>>
         /\ Outcomes(next, then, else) /\ (h' \in Handlers => TypeInv')
    BY <1>1, <1>6, <1>12, SaveKept
  <1>14. CASE h' = then /\ mem' = next /\ disk' = next
    <2>1. /\ h' \in Handlers /\ h'.at = "put" /\ h'.slot = h.account
          /\ h'.k = 1 /\ h'.ok = "commit" /\ h'.err = "roll back"
          /\ h'.content = Holds(h.new)
          /\ h'.account = h.account /\ h'.new = h.new /\ h'.previous = h.previous
          /\ h'.backup = h.backup
      BY <1>7, <1>14
    <2>2. ASSUME NEW c, NEW Y, NEW v, NEW e PROVE Knows(c, Y, h', v, e)
      BY <2>1 DEF Knows, Going, RollingBack, Aborting
    <2>3. Progress'
      BY <1>4, <2>1, NoneBefore DEF Progress
    <2>4. Staging' /\ Recorded' /\ Creating' /\ Recovering' /\ Reaping'
      BY <1>14, <2>1 DEF Staging, Recorded, Creating, Recovering, Reaping, Going, Aborting,
         Recovers, Reaps
    <2>5. InFlight'
      BY <1>3, <1>13, <2>1 DEF InFlight
    <2>6. h.account \notin torn => Previous(next, h', clearing)
      BY <1>3, <1>6, <2>1 DEF Previous
    <2>7. \A r \in Records : h.previous[r] = vault[h.account][r] \/ h.previous[r] = None
      BY <1>2, <1>3, RecordFacts
    <2>8. ~Foreign(next, h.account, h.previous)
      BY <1>3, <1>4, <1>6, <2>7 DEF Foreign, Sound
    <2>9. \A r \in Records : h.previous[r] \in used \union {None}
      BY <1>4, <2>7, Parts DEF Drawn
    <2>10. Replacing'
      BY <1>2, <1>3, <1>4, <1>6, <1>13, <1>14, <2>1, <2>5, <2>6, <2>8, <2>9
         DEF Replacing, Going, RollingBack
    <2>11. Doing'
      BY <2>2, <2>3, <2>4, <2>10 DEF Doing
    <2> QED
      BY <1>13, <2>1, <2>11 DEF IInv
  <1>15. CASE h' = else /\ h.backup = Unbacked
    BY <1>8, <1>13, <1>15, Quiet DEF IInv
  <1>16. CASE /\ h' = else /\ h.backup \in Backups /\ mem' = mem
              /\ disk' = disk \/ (disk' = next /\ Exempt' = X)
    <2>1. /\ h' \in Handlers /\ h'.at = "wipe" /\ h'.slot = h.backup
          /\ h'.k = 1 /\ h'.ok = "idle" /\ h'.err = "idle"
      BY <1>8, <1>16
    <2>2. ASSUME NEW c, NEW Y, NEW v, NEW e, \A a \in Accounts \ Y : c.replacing[a] # h.backup
          PROVE  Knows(c, Y, h', v, e)
      BY <1>16, <2>1, <2>2 DEF Knows, Going, RollingBack, Aborting
    <2>3. ASSUME NEW c, h.backup \notin Listing(c)
          PROVE  \A a \in Accounts : c.replacing[a] # h.backup
      BY <1>16, <2>3 DEF Listing, Names
    <2>4. Knows(mem, torn, h, vault, clearing)'
      BY <1>5, <1>16, <2>2, <2>3
    <2>5. \A a \in Accounts \ X : next.replacing[a] # h.backup
      BY <1>3, <1>6, <1>10, <1>16, <2>3
    <2>6. Knows(disk, Exempt, h, vault, clearing)'
      BY <1>5, <1>16, <2>2, <2>3, <2>5
    <2>7. Progress'
      BY <1>4, <1>16, <2>1, NoneBefore DEF Progress
    <2>8. Staging' /\ Recorded' /\ Replacing' /\ Creating' /\ Recovering' /\ Reaping'
      BY <2>1 DEF Staging, Recorded, Replacing, Creating, Recovering, Reaping, Going,
         RollingBack, Aborting, Recovers, Reaps
    <2>9. Doing'
      BY <2>4, <2>6, <2>7, <2>8 DEF Doing
    <2> QED
      BY <1>13, <2>1, <2>9 DEF IInv
  <1> QED
    BY <1>2, <1>13, <1>14, <1>15, <1>16 DEF Outcomes, X

-----------------------------------------------------------------------------
(* The last save of clear_all_data.                                         *)

\* Everything that the configuration lists is gone, so that the default one
\* fits the vault whether the copy follows or not.
LEMMA ResetKeeps == IInv /\ Reset => IInv'
  <1> SUFFICES ASSUME IInv, Reset PROVE IInv'
    OBVIOUS
  <1>1. /\ h.at = "clear" /\ h.left = {} /\ h' = Idle
        /\ UNCHANGED <<vault, vaultUp, used, revoked>>
        /\ \/ mem' = Default /\ disk' = Default
           \/ mem' = mem /\ disk' \in {disk, Default}
        /\ clearing' = ~(mem' = Default /\ disk' = Default)
        /\ torn' = IF clearing' THEN torn ELSE {}
    BY DEF Reset, Save
  <1>2. h' \in Handlers /\ h'.at = "idle"
    BY <1>1, IdleFields
  <1>3. Doing'
    BY <1>2, Quiet
  <1>4. /\ mem \in Config /\ disk \in Config /\ Sound(mem, vault, used) /\ Drawn
        /\ Sound(disk, vault, used) /\ Fits(mem, torn, vault, revoked, clearing)
        /\ Fits(disk, Exempt, vault, revoked, clearing) /\ Agree(mem, disk, Exempt, vault)
        /\ torn \subseteq Accounts /\ TypeInv
    BY Parts
  <1>5. TypeInv'
    <2>1. mem' \in Config /\ disk' \in Config
      BY <1>1, <1>4, DefaultFields
    <2>2. clearing' \in BOOLEAN /\ torn' \subseteq Accounts
      BY <1>1, <1>4
    <2> QED
      BY <1>1, <1>2, <1>4, <2>1, <2>2 DEF TypeInv
  <1>6. Drawn'
    BY <1>1, <1>4 DEF Drawn
  <1>7. clearing /\ \A s \in Listed(mem, torn) \union {First} : vault[s] = Nothing
    BY <1>1, Parts DEF Knows, Going
  <1>8. Sound(Default, vault, used)
    <2>1. Names(Default) = {} /\ First \in Listing(Default)
      BY DefaultFields, Marks DEF Names, Listing
    <2> QED
      BY <1>4, <2>1, DefaultFields DEF Sound, Drawn
  <1>9. ASSUME NEW Y, NEW e PROVE Fits(Default, Y, vault, revoked, e)
    <2>1. \A r \in Records : vault[First][r] = None
      BY <1>7, RecordFacts
    <2> QED
      BY <2>1, DefaultFields, Marks DEF Fits, Of
  <1>10. CASE mem' = Default /\ disk' = Default
    <2>1. AheadSet(Default, Default) = {} /\ Agree(Default, Default, torn', vault)
      BY <1>8, DefaultFields, AgreeReflexive
    <2>2. Exempt' = torn'
      BY <1>10, <2>1 DEF Exempt
    <2>3. Kept'
      BY <1>1, <1>6, <1>8, <1>9, <1>10, <2>1, <2>2 DEF Kept
    <2> QED
      BY <1>3, <1>5, <2>3 DEF IInv
  <1>11. CASE mem' = mem /\ ~(mem' = Default /\ disk' = Default)
    <2>1. clearing' = clearing /\ torn' = torn
      BY <1>1, <1>7, <1>11, <1>4 DEF TypeInv
    <2>2. CASE disk' = disk
      <3>1. Kept'
        BY <1>1, <1>11, <2>1, <2>2, KeptStays, Parts
      <3> QED
        BY <1>3, <1>5, <3>1 DEF IInv
    <2>3. CASE disk' = Default
      <3> DEFINE X == torn \union AheadSet(mem, Default)
      <3>1. Exempt' = X
        BY <1>11, <2>1, <2>3 DEF Exempt
      <3>2. torn \subseteq X
        OBVIOUS
      <3> HIDE DEF X
      <3>3. Covers(mem, Default, X, vault)
        <4>1. Listed(mem, X) \subseteq Listed(mem, torn)
          BY <3>2 DEF Listed
        <4>2. ASSUME NEW a \in Accounts \ X, mem.replacing[a] = Unbacked
              PROVE  \E r \in Records : vault[a][r] = None
          <5>1. a \in mem.accounts
            BY <1>4, <4>2, ValidFacts, Marks DEF Sound
          <5>2. a \in Listed(mem, torn)
            BY <3>2, <5>1 DEF Listed
          <5> QED
            BY <1>7, <5>2, RecordFacts
        <4> QED
          BY <1>7, <4>1, <4>2 DEF Covers
      <3>4. Covers(Default, mem, X, vault)
        <4>1. Listed(Default, X) \subseteq {First}
          BY DefaultFields, Marks DEF Listed
        <4> QED
          BY <1>7, <4>1, DefaultFields, Marks DEF Covers
      <3>5. Agree(mem, Default, X, vault)
        BY <3>3, <3>4, DefaultFields DEF Agree
      <3>6. Kept'
        BY <1>1, <1>4, <1>6, <1>8, <1>9, <1>11, <2>1, <2>3, <3>1, <3>5 DEF Kept
      <3> QED
        BY <1>3, <1>5, <3>6 DEF IInv
    <2> QED
      BY <1>1, <1>11, <2>2, <2>3
  <1> QED
    BY <1>1, <1>10, <1>11

-----------------------------------------------------------------------------
(* Every step. *)

LEMMA NextIInv == IInv /\ [Next]_vars => IInv'
  <1> SUFFICES ASSUME IInv, [Next]_vars PROVE IInv'
    OBVIOUS
  <1>1. CASE Put \/ DeleteRecord
    BY <1>1, PutKeeps, DeleteRecordKeeps
  <1>2. CASE \E a \in Accounts, i \in Identities, b \in Backups : Replace(a, i, b)
    BY <1>2, ReplaceKeeps
  <1>3. CASE Stage \/ Commit \/ Unbind \/ Rollback \/ RolledBack
    BY <1>3, StageKeeps, CommitKeeps, UnbindKeeps, RollbackKeeps, RolledBackKeeps
  <1>4. CASE \E a \in Accounts, i \in Identities : Create(a, i)
    BY <1>4, CreateKeeps
  <1>5. CASE Announce \/ Insert \/ Abort \/ Forget
    BY <1>5, AnnounceKeeps, InsertKeeps, AbortKeeps, ForgetKeeps
  <1>6. CASE \E a \in Accounts : Delete(a) \/ Recover(a)
    BY <1>6, DeleteKeeps, RecoverKeeps
  <1>7. CASE \E s \in Slots : ClearSlot(s) \/ ReapSlot(s)
    BY <1>7, ClearSlotKeeps, ReapSlotKeeps
  <1>8. CASE ClearAll \/ Reset \/ Start \/ Recovered \/ RecoverEnd
    BY <1>8, ClearAllKeeps, ResetKeeps, StartKeeps, RecoveredKeeps, RecoverEndKeeps
  <1>9. CASE Reap \/ Reaped \/ ReapEnd
    BY <1>9, ReapKeeps, ReapedKeeps, ReapEndKeeps
  <1>10. CASE SaveSettings \/ Stop \/ VaultFails \/ VaultReturns
    BY <1>10, SaveSettingsKeeps, StopKeeps, VaultKeeps
  <1>11. CASE UNCHANGED vars
    <2>1. UNCHANGED <<disk, mem, vault, vaultUp, revoked, used, h, clearing, torn>>
      BY <1>11 DEF vars
    <2>2. InFlight' <=> InFlight
      BY <2>1 DEF InFlight
    <2>3. Exempt' = Exempt
      BY <2>1 DEF Exempt
    <2>4. Progress' /\ Recorded' /\ Reaping'
      BY <2>1, Parts DEF Progress, Recorded, Reaping
    <2>5. Staging'
      BY <2>1, <2>2, <2>3, Parts DEF Staging
    <2>6. Replacing' /\ Creating'
      <3>1. Replacing /\ Creating
        BY Parts
      <3>2. Replacing'
        BY <2>1, <2>2, <3>1 DEF Replacing
      <3>3. Creating'
        BY <2>1, <2>2, <3>1 DEF Creating
      <3> QED
        BY <3>2, <3>3
    <2>7. Recovering'
      BY <2>1, Parts DEF Recovering
    <2>8. Knows(mem, torn, h, vault, clearing)' /\ Knows(disk, Exempt, h, vault, clearing)'
      BY <2>1, <2>3, Parts
    <2>9. Doing'
      BY <2>4, <2>5, <2>6, <2>7, <2>8 DEF Doing
    <2>10. h' \in Handlers
      BY <2>1, Parts
    <2> QED
      BY <2>1, <2>9, <2>10, OnlyMoves
  <1> QED
    BY <1>1, <1>2, <1>3, <1>4, <1>5, <1>6, <1>7, <1>8, <1>9, <1>10, <1>11 DEF Next

-----------------------------------------------------------------------------
(* What the invariant says of the properties.                               *)

\* The inductive invariant of the identity transactions: whatever process,
\* vault or save fails, the copy, the file and the handler stay as described.
THEOREM StoreInvariance == Spec => []IInv
  <1>1. Init => IInv
    BY InitIInv
  <1>2. IInv /\ [Next]_vars => IInv'
    BY NextIInv
  <1> QED
    BY <1>1, <1>2, PTL DEF Spec

\* Whenever the process dies, a replacement that the Engine's copy or the file
\* names as pending has a complete backup of one identity, unless
\* clear_all_data was asked for; excepted are claims of a file whose save
\* replace_identity_records_locked was told had failed.
THEOREM BackupsAreWhole == Spec => []BackupIsWhole
  <1>1. IInv => BackupIsWhole
    <2> SUFFICES ASSUME IInv, ~clearing PROVE BackupIsWhole
      BY DEF BackupIsWhole
    <2>1. ASSUME NEW c \in Config, NEW X, Fits(c, X, vault, revoked, clearing),
                 NEW a \in Accounts \ X, c.replacing[a] \in Backups
          PROVE  \E i \in Identities : vault[c.replacing[a]] = Holds(i)
      <3>1. c.binding[a] \in Identities
        BY <2>1, ConfigFields DEF Fits, Ids
      <3>2. c.replacing[a] \in Slots /\ vault[c.replacing[a]] \in Contents
        BY <2>1, Parts, TypeFields, Marks
      <3>3. \A r \in Records : vault[c.replacing[a]][r] = c.binding[a]
        BY <2>1 DEF Fits, Of
      <3> QED
        BY <3>1, <3>2, <3>3, RecordFacts
    <2>2. ASSUME NEW a \in Accounts \ torn, ~Ahead(a) PROVE a \notin Exempt
      BY <2>2 DEF Ahead, Exempt, AheadSet
    <2>3. /\ mem \in Config /\ disk \in Config
          /\ Fits(mem, torn, vault, revoked, clearing)
          /\ Fits(disk, Exempt, vault, revoked, clearing)
      BY Parts
    <2> QED
      BY <2>1, <2>2, <2>3 DEF BackupIsWhole
  <1> QED
    BY <1>1, StoreInvariance, PTL

\* The file and the Engine's copy pass AppConfig::validate, a settled account
\* has the records of its binding and none that was given up, and
\* clear_all_data leaves no listed record behind.
THEOREM VaultFitsFile == Spec => []VaultMatchesFile
  <1>1. IInv => VaultMatchesFile
    <2> SUFFICES ASSUME IInv PROVE VaultMatchesFile
      OBVIOUS
    <2>1. Valid(disk) /\ Valid(mem)
      BY Parts DEF Sound
    <2>2. /\ mem \in Config /\ Fits(mem, torn, vault, revoked, clearing) /\ TypeInv
      BY Parts
    <2>3. mem.accounts \subseteq Accounts
      BY <2>2, ConfigFields
    <2>4. SettledIdentity
      BY <2>2, <2>3 DEF SettledIdentity, Fits, Of
    <2>5. NoLiveRevoked
      <3> SUFFICES ASSUME NEW a \in mem.accounts \ torn, mem.replacing[a] = None,
                          NEW r \in Records
                   PROVE  vault[a][r] \notin revoked
        BY DEF NoLiveRevoked
      <3>1. vault[a][r] = mem.binding[a] \/ vault[a][r] = None
        BY <2>2, <2>3 DEF Fits, Of
      <3>2. None \notin revoked
        BY <2>2, Marks DEF TypeInv
      <3>3. mem.binding[a] # None => mem.binding[a] \notin revoked
        BY <2>2, <2>3 DEF Fits
      <3> QED
        BY <3>1, <3>2, <3>3
    <2>6. ClearedIsEmpty
      <3> SUFFICES ASSUME h.at = "clear", h.left = {}, NEW s \in Listed(mem, torn)
                   PROVE  vault[s] = Nothing
        BY DEF ClearedIsEmpty, Listed
      <3>1. Knows(mem, torn, h, vault, clearing)
        BY Parts
      <3> QED
        BY <3>1 DEF Knows, Going
    <2> QED
      BY <2>1, <2>4, <2>5, <2>6 DEF VaultMatchesFile
  <1> QED
    BY <1>1, StoreInvariance, PTL
=============================================================================
