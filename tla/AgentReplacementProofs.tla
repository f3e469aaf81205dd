------------------------ MODULE AgentReplacementProofs ------------------------
(***************************************************************************)
(* Replacing a tunnel leaves no gap: for every set of operations and plans, *)
(* every width of addresses, and however often saves and native calls fail  *)
(* and the Agent's process ends.                                            *)
(***************************************************************************)
EXTENDS AgentReplacement, WellFoundedInduction, TLAPS

USE OperationsAssumption

(***************************************************************************)
(* The exclusions: the intersection of two lists of networks lets exactly   *)
(* the addresses pass that both let pass.                                   *)
(***************************************************************************)
LEMMA NetworkLength ==
    \A n \in Networks : \E k \in 1 .. Width : DOMAIN n = 1 .. k /\ n \in [1 .. k -> {0, 1}]
  BY DEF Networks

LEMMA ContainsTransitive ==
    ASSUME NEW a, NEW b, NEW c, contains_network(a, b), contains_network(b, c)
    PROVE  contains_network(a, c)
  BY DEF contains_network

LEMMA ContainsReflexive == \A a : contains_network(a, a)
  BY DEF contains_network

\* Two networks of the same length, one of which contains the other.
LEMMA SameLength ==
    ASSUME NEW a \in Networks, NEW b \in Networks, contains_network(a, b),
           DOMAIN a = DOMAIN b
    PROVE  a = b
<1>1. PICK k \in 1 .. Width : a \in [1 .. k -> {0, 1}] BY NetworkLength
<1>2. b \in [1 .. k -> {0, 1}] BY <1>1, NetworkLength
<1> QED BY <1>1, <1>2 DEF contains_network

\* Of two networks with a common address, one contains the other.
LEMMA Comparable ==
    ASSUME NEW a \in Networks, NEW b \in Networks, NEW x,
           contains_network(a, x), contains_network(b, x)
    PROVE  contains_network(a, b) \/ contains_network(b, a)
<1>1. PICK k \in 1 .. Width : DOMAIN a = 1 .. k BY NetworkLength
<1>2. PICK m \in 1 .. Width : DOMAIN b = 1 .. m BY NetworkLength
<1>3. 1 .. k \subseteq 1 .. m \/ 1 .. m \subseteq 1 .. k OBVIOUS
<1> QED BY <1>1, <1>2, <1>3 DEF contains_network

\* A nonempty set of natural numbers has a least one.
LEMMA Least ==
    ASSUME NEW T, T \subseteq Nat, T # {}
    PROVE  \E x \in T : \A y \in T : x <= y
<1> DEFINE R == {p \in Nat \X Nat : p[1] < p[2]}
<1>1. IsWellFoundedOn(R, Nat) BY NatLessThanWellFounded DEF OpToRel
<1> HIDE DEF R
<1>2. PICK x \in T : \A y \in T : ~(<<y, x>> \in R) BY <1>1, WFMin
<1>3. \A y \in T : y < x => <<y, x>> \in R BY DEF R
<1>4. \A y \in T : x \in Nat /\ y \in Nat /\ ~(y < x) BY <1>2, <1>3
<1> QED BY <1>4

\* Every network of a set lies in one that no other network of the set contains.
LEMMA Widest ==
    ASSUME NEW all, all \subseteq Networks, NEW n \in all
    PROVE  \E o \in all : /\ contains_network(o, n)
                          /\ ~\E p \in all : p # o /\ contains_network(p, o)
<1> DEFINE T == {k \in 1 .. Width : \E o \in all : contains_network(o, n) /\ DOMAIN o = 1 .. k}
<1>1. T \subseteq Nat /\ T # {}
  BY NetworkLength, ContainsReflexive
<1>2. PICK k \in T : \A m \in T : k <= m BY <1>1, Least
<1>3. PICK o \in all : contains_network(o, n) /\ DOMAIN o = 1 .. k BY <1>2
<1>4. ASSUME NEW p \in all, contains_network(p, o) PROVE p = o
  <2>1. contains_network(p, n) BY <1>3, <1>4, ContainsTransitive
  <2>2. PICK m \in 1 .. Width : DOMAIN p = 1 .. m BY NetworkLength
  <2>3. k <= m BY <1>2, <2>1, <2>2
  <2>4. 1 .. m \subseteq 1 .. k BY <1>3, <1>4, <2>2 DEF contains_network
  <2>5. m = k BY <1>2, <2>3, <2>4
  <2> QED BY <1>3, <1>4, <2>2, <2>5, SameLength
<1> QED BY <1>3, <1>4

LEMMA CommonType ==
    ASSUME NEW A \in SUBSET Networks, NEW B \in SUBSET Networks
    PROVE  /\ Common(A, B) \subseteq Networks
           /\ intersect_exclusions(A, B) \subseteq Common(A, B)
           /\ \A n \in Common(A, B) : /\ \E o \in A : contains_network(o, n)
                                      /\ \E o \in B : contains_network(o, n)
  BY ContainsReflexive DEF Common, intersect_exclusions

LEMMA IntersectionCovers ==
    ASSUME NEW A \in SUBSET Networks, NEW B \in SUBSET Networks
    PROVE  Cover(intersect_exclusions(A, B)) = Cover(A) \cap Cover(B)
<1> DEFINE all == Common(A, B)
           least == intersect_exclusions(A, B)
<1>1. ASSUME NEW a \in Cover(least) PROVE a \in Cover(A) /\ a \in Cover(B)
  <2>1. PICK n \in least : contains_network(n, a) /\ a \in Addresses BY <1>1 DEF Cover
  <2>2. n \in all BY <2>1, CommonType
  <2>3. (\E o \in A : contains_network(o, n)) /\ \E o \in B : contains_network(o, n)
    BY <2>2, CommonType
  <2> QED BY <2>1, <2>3, ContainsTransitive DEF Cover
<1>2. ASSUME NEW a \in Addresses, a \in Cover(A), a \in Cover(B) PROVE a \in Cover(least)
  <2>1. PICK p \in A : contains_network(p, a) BY <1>2 DEF Cover
  <2>2. PICK q \in B : contains_network(q, a) BY <1>2 DEF Cover
  <2>3. contains_network(p, q) \/ contains_network(q, p) BY <2>1, <2>2, Comparable
  <2>4. PICK n \in all : contains_network(n, a) BY <2>1, <2>2, <2>3 DEF Common
  <2>5. PICK o \in all : /\ contains_network(o, n)
                         /\ ~\E r \in all : r # o /\ contains_network(r, o)
    BY <2>4, CommonType, Widest
  <2>6. o \in least BY <2>5 DEF intersect_exclusions
  <2> QED BY <2>4, <2>5, <2>6, ContainsTransitive DEF Cover
<1> QED BY <1>1, <1>2 DEF Cover

(***************************************************************************)
(* The inductive invariant.                                                 *)
(***************************************************************************)
Ids == Operations \cup {None}
ReplacementPhases ==
    {"InstallingGuard", "SourceCleanup", "PreparingTarget", "Prepared", "Committing",
     "Aborting", "Complete", "Aborted"}
RecoveryPhases ==
    {"Clean", "Preparing", "Prepared", "Active", "Recovering", "RecoveryRequired",
     "Quarantined"}
StepStates == {"Absent", "Intended", "Applied", "Restored"}
Replacement ==
    [op : Ids, source : Ids, original : Ids, cleanup : Ids,
     guard : {"Intended", "Applied", "Restored"}, phase : ReplacementPhases,
     exclusions : SUBSET Networks, through : SUBSET Operations]
DeviceRecord ==
    [inst : Nat, state : {"none", "Creating", "InUse", "Idle", "RecoveryRequired"}]
Journal ==
    [phase : RecoveryPhases, op : Ids, step : [Kinds -> StepStates], dev : DeviceRecord,
     repl : Replacement]

\* Labels, by what the handler is about to touch.
Installing == {"intend", "guard", "readback"}
Teardown == {"quiesce", "restore", "restored"}
Retiring == {"clear", "foreign", "retire", "remove", "removed", "release", "released"}
Creation == {"guarded", "device", "create", "creating", "created", "target", "prepare",
             "prepared"}
Stepping == {"push", "apply", "applied"}
Startup == {"inspect", "quarantine", "recover"}
Labels == Installing \cup Teardown \cup Retiring \cup Creation \cup Stepping \cup Startup
          \cup {"idle", "complete", "resume"}
Job == [at : Labels, does : {"none", "replace", "commit", "abort", "open", "startup"},
        left : SUBSET Kinds, failed : BOOLEAN]

TypeOK ==
    /\ mem \in Journal /\ disk \in Journal /\ job \in Job
    /\ os \in [ks : Ids, guard : Ids, dev : BOOLEAN]
    /\ attached \in BOOLEAN /\ instance \in Nat /\ faults \in Nat

\* A journal that names a replacement names its operations, and one that does
\* not is active, failed or clean; so a Prepared tunnel is always a pending target.
Named(j) ==
    /\ Pending(j) => {j.op, j.repl.op, j.repl.source, j.repl.original, j.repl.cleanup}
                        \subseteq Operations
    /\ ~Pending(j) => j.phase \in {"Active", "Clean"} \cup Failed
    /\ j.phase = "Clean" => j.op = None

\* Without a guard: a pending tunnel is not Prepared, and when it replaces a
\* tunnel with the kill switch either a lasting policy is installed or it is a
\* committed target whose plan asks for none.
Held(j) ==
    Pending(j) =>
        /\ j.phase # "Prepared"
        /\ j.repl.original \in KillSwitch /\ j.repl.phase # "Aborting"
           => \/ os.ks \in KillSwitch
              \/ j.phase \in {"Active", "Quarantined"} /\ j.op \notin KillSwitch

Sound(j) == Valid(j) /\ SharedBy(j) /\ Named(j) /\ (os.guard = None => Held(j))

\* Memory is never behind the file.
Ahead ==
    /\ Pending(disk) => Pending(mem)
    /\ mem.repl.guard = "Applied" => Pending(disk)
    /\ os.guard # None => Pending(disk)

\* The tunnel that may be left without the guard.
Arrived(j) ==
    /\ j.repl.phase = "Committing" /\ j.phase = "Active" /\ j.op = j.repl.op
    /\ j.step["DefaultRoutes"] = "Applied"
    /\ Protected(j.op) => os.ks = j.op

\* What the handlers know at their labels.
Knows ==
    /\ job.at \in Installing \cup Creation => job.does = "replace"
    /\ job.at \in Teardown => job.does \in {"replace", "abort"}
    /\ job.at = "foreign" => job.does = "abort"
    /\ job.at \in {"clear", "retire", "remove", "removed"} => job.does \in {"replace", "abort"}
    /\ job.at \in {"release", "released"} => job.does \in {"commit", "abort"}
    /\ job.at \in Stepping => job.does \in {"replace", "commit", "open"}
    /\ job.at = "complete" => job.does = "commit" /\ mem.phase = "Active"
    /\ job.at \in {"guard", "guarded", "readback"} => Pending(disk)
    /\ job.at = "resume" => job.does = "open"
    /\ job.at \in Startup => job.does = "startup"
    /\ job.at = "quarantine" => mem.phase = "Active"
    /\ job.at # "idle" /\ job.does \in {"replace", "commit", "abort"} => Pending(mem)

Doing ==
    /\ job.does = "replace" /\ job.at \notin Installing => os.guard # None
    /\ job.at \in Stepping => os.guard # None
    /\ job.at = "released" => os.guard = None
    /\ job.does = "abort" =>
          /\ mem.repl.phase = "Aborting" /\ disk.repl.phase = "Aborting"
          /\ job.at \in Retiring =>
                mem.phase = "RecoveryRequired" /\ disk.phase = "RecoveryRequired"
    /\ job.does = "commit" /\ job.at \in {"release", "released"} =>
          disk = mem /\ attached /\ Arrived(mem)

IInv == TypeOK /\ Sound(mem) /\ Sound(disk) /\ Ahead /\ Knows /\ Doing

(***************************************************************************)
(* What the updates of the journal and of the handler's record leave alone. *)
(***************************************************************************)
LEMMA Facts ==
    ASSUME IInv
    PROVE  /\ mem \in Journal /\ disk \in Journal /\ job \in Job
           /\ os \in [ks : Ids, guard : Ids, dev : BOOLEAN]
           /\ attached \in BOOLEAN /\ instance \in Nat /\ faults \in Nat
           /\ None \notin Operations /\ None \in Ids /\ None \notin KillSwitch
  BY DEF IInv, TypeOK, None, Ids

LEMMA JobFields ==
    ASSUME job \in Job
    PROVE  /\ Idle \in Job /\ Idle.at = "idle" /\ Idle.does = "none"
           /\ \A l \in Labels : At(l) \in Job /\ At(l).at = l /\ At(l).does = job.does
           /\ \A l \in Labels, S \in SUBSET Kinds :
                 /\ [At(l) EXCEPT !.left = S] \in Job
                 /\ [At(l) EXCEPT !.left = S].at = l
                 /\ [At(l) EXCEPT !.left = S].does = job.does
  BY DEF Job, Idle, At, Labels

LEMMA StartFields ==
    ASSUME NEW d \in {"replace", "commit", "abort", "open", "startup"}, NEW l \in Labels
    PROVE  /\ Start(d, l) \in Job /\ Start(d, l).at = l /\ Start(d, l).does = d
           /\ \A S \in SUBSET Kinds :
                 /\ [Start(d, l) EXCEPT !.left = S] \in Job
                 /\ [Start(d, l) EXCEPT !.left = S].at = l
                 /\ [Start(d, l) EXCEPT !.left = S].does = d
  BY DEF Job, Idle, Start

\* The replacement itself, its operations and what its guard lets pass.
SameReplacement(j, k) ==
    /\ k.repl.op = j.repl.op /\ k.repl.source = j.repl.source
    /\ k.repl.original = j.repl.original /\ k.repl.cleanup = j.repl.cleanup
    /\ k.repl.exclusions = j.repl.exclusions /\ k.repl.through = j.repl.through

\* An update keeps a pending replacement pending.
LEMMA SoundUpdate ==
    ASSUME NEW j \in Journal, NEW k \in Journal, Sound(j), SameReplacement(j, k),
           Pending(j), Pending(k), k.repl.guard # "Restored", k.phase # "Clean",
           k.op \in {j.op, j.repl.op}, os.guard = None => Held(k)
    PROVE  Sound(k)
<1>1. Valid(k) BY DEF Sound, Valid, SameReplacement
<1>2. SharedBy(k) BY DEF Sound, SharedBy, SameReplacement
<1>3. Named(k) BY DEF Sound, Named, SameReplacement
<1> QED BY <1>1, <1>2, <1>3 DEF Sound

\* An update of the steps or of the device.
LEMMA SoundSame ==
    ASSUME NEW j \in Journal, NEW k \in Journal, Sound(j), k.repl = j.repl,
           k.phase = j.phase, k.op = j.op
    PROVE  Sound(k)
<1>1. Valid(k) BY DEF Sound, Valid, Pending
<1>2. SharedBy(k) BY DEF Sound, SharedBy, Pending
<1>3. Named(k) BY DEF Sound, Named, Pending
<1>4. os.guard = None => Held(k) BY DEF Sound, Held, Pending
<1> QED BY <1>1, <1>2, <1>3, <1>4 DEF Sound

\* A step that saves, or fails to.
LEMMA Saves ==
    ASSUME IInv, NEW j \in Journal, NEW next \in Job, Save(j, next), os' = os,
           attached' \in BOOLEAN, instance' = instance, Sound(j),
           Pending(disk) => Pending(j), j.repl.guard = "Applied" => Pending(disk),
           mem' = j /\ disk' = j /\ job' = next => Knows' /\ Doing'
    PROVE  IInv'
<1>1. /\ mem' = j /\ faults' \in Nat
      /\ (disk' = j /\ job' = next) \/ (disk' = disk /\ job' = Idle)
  BY Facts DEF Save, Fault
<1>2. Idle \in Job /\ Idle.at = "idle" /\ Idle.does = "none" BY JobFields, Facts
<1>3. TypeOK' BY <1>1, <1>2, Facts DEF TypeOK
<1>4. Sound(mem)' /\ Sound(disk)'
  BY <1>1 DEF IInv, Sound, Valid, SharedBy, Named, Held, Pending, LeftOut
<1>5. Ahead'
  <2>1. Pending(j) <=> j.repl.guard # "Restored" BY DEF Sound, Valid
  <2>2. os.guard # None => Pending(j) BY DEF IInv, Ahead
  <2> QED BY <1>1, <2>1, <2>2 DEF IInv, Ahead, Pending
<1>6. job' = Idle => Knows' /\ Doing'
  BY <1>2 DEF Knows, Doing, Installing, Creation, Teardown, Stepping, Startup
<1> QED BY <1>1, <1>3, <1>4, <1>5, <1>6 DEF IInv

\* A native call, that takes effect or fails.
LEMMA Natives ==
    ASSUME IInv, NEW effect \in [ks : Ids, guard : Ids, dev : BOOLEAN], NEW next \in Job,
           Native(effect, next), UNCHANGED <<mem, disk, attached, instance>>,
           effect.guard # None => Pending(disk),
           effect.guard = None /\ os' = effect => Held(mem)' /\ Held(disk)',
           os' = effect /\ job' = next => Knows' /\ Doing'
    PROVE  IInv'
<1>1. /\ faults' \in Nat
      /\ (os' = effect /\ job' = next) \/ (os' \in {os, effect} /\ job' = Idle)
  BY Facts DEF Native, Fault
<1>2. Idle \in Job /\ Idle.at = "idle" /\ Idle.does = "none" BY JobFields, Facts
<1>3. TypeOK' BY <1>1, <1>2, Facts DEF TypeOK
<1>4. os'.guard = None => Held(mem)' /\ Held(disk)'
  BY <1>1 DEF IInv, Sound, Held, Pending
<1>5. Sound(mem)' /\ Sound(disk)'
  BY <1>4 DEF IInv, Sound, Valid, SharedBy, Named, Pending, LeftOut
<1>6. Ahead' BY <1>1 DEF IInv, Ahead, Pending
<1>7. job' = Idle => Knows' /\ Doing'
  BY <1>2 DEF Knows, Doing, Installing, Creation, Teardown, Stepping, Startup
<1> QED BY <1>1, <1>3, <1>5, <1>6, <1>7 DEF IInv

\* The handler looks, and goes on.
LEMMA Looks ==
    ASSUME IInv, UNCHANGED <<mem, disk, os, instance>>, job' \in Job, attached' \in BOOLEAN,
           faults' \in Nat, Knows', Doing'
    PROVE  IInv'
<1>1. TypeOK' BY Facts DEF TypeOK
<1>2. Sound(mem)' /\ Sound(disk)'
  BY DEF IInv, Sound, Valid, SharedBy, Named, Held, Pending, LeftOut
<1>3. Ahead' BY DEF IInv, Ahead, Pending
<1> QED BY <1>1, <1>2, <1>3 DEF IInv

LEMMA Ends ==
    ASSUME IInv, UNCHANGED <<mem, disk, os, instance>>, job' = Idle, attached' \in BOOLEAN,
           faults' \in Nat
    PROVE  IInv'
<1>1. Idle \in Job /\ Idle.at = "idle" /\ Idle.does = "none" BY JobFields, Facts
<1>2. Knows' /\ Doing'
  BY <1>1 DEF Knows, Doing, Installing, Creation, Teardown, Stepping, Startup
<1> QED BY <1>1, <1>2, Looks

\* The labels, taken apart.
USE DEF Installing, Teardown, Retiring, Creation, Stepping, Startup

(***************************************************************************)
(* replace_tunnel is asked.                                                 *)
(***************************************************************************)
\* What an accepted replacement records.
LEMMA IntentSound ==
    ASSUME IInv, NEW source \in Operations, NEW op \in Operations,
           Chained(source, op) \/ First(source, op)
    PROVE  /\ Intent(source, op) \in Journal /\ Sound(Intent(source, op))
           /\ Pending(Intent(source, op)) /\ Intent(source, op).repl.guard = "Intended"
           /\ Intent(source, op).repl.phase = "InstallingGuard"
<1> DEFINE j == Intent(source, op)
           orig == IF Pending(mem) THEN mem.repl.original ELSE source
           passed == IF Pending(mem) THEN mem.repl.through ELSE {}
           ex == intersect_exclusions(Allowed, Exclusions[op])
<1>1. /\ mem.op \in Operations /\ orig \in Operations /\ passed \subseteq Operations
      /\ Pending(mem) => mem.repl.op = source
      /\ ~Pending(mem) => mem.op = source
      /\ ~Pending(mem) => mem.phase # "Clean"
  BY Facts DEF IInv, Sound, Named, Chained, First, Journal, Replacement
<1>2. Allowed \in SUBSET Networks /\ Exclusions[op] \in SUBSET Networks
  BY <1>1, Facts DEF Allowed, Journal, Replacement
<1>3. /\ ex \subseteq Networks /\ Cover(ex) = Cover(Allowed) \cap Cover(Exclusions[op])
      /\ \A n \in ex : (\E o \in Allowed : contains_network(o, n))
                       /\ \E o \in Exclusions[op] : contains_network(o, n)
  <2>1. Cover(ex) = Cover(Allowed) \cap Cover(Exclusions[op])
    BY <1>2, IntersectionCovers
  <2>2. ex \subseteq Common(Allowed, Exclusions[op])
        /\ Common(Allowed, Exclusions[op]) \subseteq Networks
    BY <1>2, CommonType
  <2>3. \A n \in Common(Allowed, Exclusions[op]) :
           (\E o \in Allowed : contains_network(o, n))
           /\ \E o \in Exclusions[op] : contains_network(o, n)
    BY <1>2, CommonType
  <2> QED BY <2>1, <2>2, <2>3
<1> HIDE DEF orig, passed, ex
<1>4. j = [mem EXCEPT !.repl =
              [op |-> op, source |-> source, original |-> orig, cleanup |-> mem.op,
               guard |-> "Intended", phase |-> "InstallingGuard", exclusions |-> ex,
               through |-> {source, op} \cup passed]]
  BY DEF Intent, orig, passed, ex
<1>5. /\ j.repl.op = op /\ j.repl.source = source /\ j.repl.original = orig
      /\ j.repl.cleanup = mem.op /\ j.repl.guard = "Intended"
      /\ j.repl.phase = "InstallingGuard" /\ j.repl.exclusions = ex
      /\ j.repl.through = {source, op} \cup passed
      /\ j.op = mem.op /\ j.phase = mem.phase
  BY <1>4, Facts DEF Journal
<1>6. j \in Journal
  <2>1. [op |-> op, source |-> source, original |-> orig, cleanup |-> mem.op,
         guard |-> "Intended", phase |-> "InstallingGuard", exclusions |-> ex,
         through |-> {source, op} \cup passed] \in Replacement
    BY <1>1, <1>3 DEF Replacement, Ids, ReplacementPhases
  <2> QED BY <1>4, <2>1, Facts DEF Journal
<1>7. Pending(j) BY <1>5 DEF Pending, Final
<1> HIDE DEF j
<1>8. Valid(j)
  <2>1. j.phase # "Clean" BY <1>1, <1>5 DEF IInv, Sound, Valid
  <2>2. ASSUME NEW n \in ex PROVE \E outer \in Exclusions[op] : contains_network(outer, n)
    BY <1>3
  <2>3. ASSUME NEW n \in ex PROVE \E outer \in Exclusions[orig] : contains_network(outer, n)
    <3>1. PICK o \in Allowed : contains_network(o, n) BY <1>3
    <3>2. CASE Pending(mem)
      <4>1. o \in mem.repl.exclusions /\ orig = mem.repl.original
        BY <3>1, <3>2 DEF Allowed, orig
      <4>2. PICK outer \in Exclusions[orig] : contains_network(outer, o)
        BY <4>1 DEF IInv, Sound, Valid
      <4> QED BY <3>1, <4>2, ContainsTransitive
    <3>3. CASE ~Pending(mem)
      BY <1>1, <3>1, <3>3 DEF Allowed, orig
    <3> QED BY <3>2, <3>3
  <2> QED BY <1>5, <1>7, <2>1, <2>2, <2>3 DEF Valid
<1>9. SharedBy(j)
  <2>1. {orig, source, op} \subseteq {source, op} \cup passed
    BY <1>1 DEF orig, passed, IInv, Sound, SharedBy
  <2>2. /\ LeftOut[op] = Cover(Exclusions[op]) /\ LeftOut[source] = Cover(Exclusions[source])
    BY DEF LeftOut
  <2>3. Cover(ex) = {a \in Addresses : \A o \in {source, op} \cup passed : a \in LeftOut[o]}
    <3>1. Cover(Exclusions[op]) \subseteq Addresses BY DEF Cover
    <3>2. CASE Pending(mem)
      <4>1. passed = mem.repl.through /\ Allowed = mem.repl.exclusions /\ source \in passed
        BY <1>1, <3>2 DEF Allowed, passed, IInv, Sound, SharedBy
      <4>2. Cover(Allowed) = {a \in Addresses : \A o \in passed : a \in LeftOut[o]}
        BY <3>2, <4>1 DEF IInv, Sound, SharedBy
      <4> QED BY <1>3, <2>2, <3>1, <4>1, <4>2
    <3>3. CASE ~Pending(mem)
      <4>1. passed = {} /\ Allowed = Exclusions[source]
        BY <1>1, <3>3 DEF Allowed, passed
      <4> QED BY <1>3, <2>2, <3>1, <4>1
    <3> QED BY <3>2, <3>3
  <2> QED BY <1>5, <2>1, <2>3 DEF SharedBy
<1>10. Named(j)
  <2>1. mem.phase = "Clean" => mem.op = None BY DEF IInv, Sound, Named
  <2> QED BY <1>1, <1>5, <1>7, <2>1 DEF Named
<1>11. os.guard = None => Held(j)
  <2> SUFFICES ASSUME os.guard = None PROVE Held(j) OBVIOUS
  <2>1. CASE First(source, op)
    <3>1. os.ks = source /\ mem.op = source /\ mem.phase # "Prepared"
      BY <1>1, <2>1 DEF First, IInv, Sound, Named, Failed
    <3>2. orig = source BY <2>1 DEF First, orig
    <3> QED BY <1>5, <3>1, <3>2 DEF Held
  <2>2. CASE Chained(source, op)
    <3>1. Pending(mem) /\ mem.repl.phase # "Aborting" /\ orig = mem.repl.original
      BY <2>2 DEF Chained, orig
    <3>2. Held(mem) BY DEF IInv, Sound
    <3> QED BY <1>5, <1>7, <3>1, <3>2 DEF Held
  <2> QED BY <2>1, <2>2
<1> QED BY <1>5, <1>6, <1>7, <1>8, <1>9, <1>10, <1>11 DEF Sound, j

LEMMA NewReplacementKeeps ==
    ASSUME IInv, NEW source \in Operations, NEW op \in Operations,
           NewReplacement(source, op)
    PROVE  IInv'
<1> DEFINE j == Intent(source, op)
           next == Enters(j)
<1>1. Chained(source, op) \/ First(source, op) BY DEF NewReplacement
<1>2. /\ j \in Journal /\ Sound(j) /\ Pending(j) /\ j.repl.guard = "Intended"
      /\ j.repl.phase = "InstallingGuard"
  BY <1>1, IntentSound
<1>3. Save(j, next) /\ UNCHANGED <<os, attached, instance>> BY DEF NewReplacement
<1> HIDE DEF j
<1>4. next = Start("replace", "intend") BY <1>2 DEF Enters
<1> HIDE DEF next
<1>5. next \in Job /\ next.at = "intend" /\ next.does = "replace"
  BY <1>4, StartFields DEF Labels
<1>6. mem' = j /\ disk' = j /\ job' = next => Knows' /\ Doing'
  BY <1>2, <1>5 DEF Knows, Doing, Pending
<1> QED BY <1>2, <1>3, <1>5, <1>6, Facts, Saves

LEMMA SameRequestKeeps ==
    ASSUME IInv, SameRequest
    PROVE  IInv'
<1>1. /\ UNCHANGED <<mem, disk, os, attached, instance, faults>>
      /\ Pending(mem) /\ mem.repl.phase # "Aborting"
      /\ job' = Enters(mem)
  BY DEF SameRequest
<1>2. \/ job' = Start("commit", "complete") /\ mem.phase = "Active"
      \/ job' = Start("replace", "intend")
      \/ job' = Start("replace", "readback") /\ mem.repl.guard # "Intended"
  BY <1>1 DEF Enters
<1>3. mem.repl.guard # "Intended" => Pending(disk)
  <2>1. mem.repl.guard \in {"Intended", "Applied", "Restored"}
    BY Facts DEF Journal, Replacement
  <2> QED BY <1>1, <2>1 DEF IInv, Sound, Valid, Ahead
<1>4. \/ job'.at = "complete" /\ job'.does = "commit" /\ mem.phase = "Active"
      \/ job'.at = "intend" /\ job'.does = "replace"
      \/ job'.at = "readback" /\ job'.does = "replace" /\ Pending(disk)
  BY <1>2, <1>3, StartFields DEF Labels
<1>5. job' \in Job BY <1>2, StartFields DEF Labels
<1>6. Knows' /\ Doing' BY <1>1, <1>4 DEF Knows, Doing, Pending
<1> QED BY <1>1, <1>5, <1>6, Facts, Looks

(***************************************************************************)
(* The guard.                                                               *)
(***************************************************************************)
LEMMA IntendAgainKeeps ==
    ASSUME IInv, IntendAgain
    PROVE  IInv'
<1>1. /\ Save(mem, At("guard")) /\ UNCHANGED <<os, attached, instance>>
      /\ job.at = "intend" /\ job.does = "replace" /\ Pending(mem)
  BY DEF IntendAgain, IInv, Knows
<1>2. At("guard") \in Job /\ At("guard").at = "guard" /\ At("guard").does = "replace"
  BY <1>1, Facts, JobFields DEF Labels
<1>3. mem' = mem /\ disk' = mem /\ job' = At("guard") => Knows' /\ Doing'
  BY <1>1, <1>2 DEF Knows, Doing, Pending
<1>4. mem.repl.guard = "Applied" => Pending(disk) BY DEF IInv, Ahead
<1>5. Sound(mem) BY DEF IInv
<1> QED BY <1>1, <1>2, <1>3, <1>4, <1>5, Facts, Saves

LEMMA InstallGuardKeeps ==
    ASSUME IInv, InstallGuard
    PROVE  IInv'
<1> DEFINE effect == [os EXCEPT !.guard = mem.repl.op]
<1>1. /\ Native(effect, At("guarded")) /\ UNCHANGED <<mem, disk, attached, instance>>
      /\ job.at = "guard" /\ job.does = "replace" /\ Pending(mem) /\ Pending(disk)
  BY DEF InstallGuard, IInv, Knows
<1>2. /\ At("guarded") \in Job /\ At("guarded").at = "guarded"
      /\ At("guarded").does = "replace"
  BY <1>1, Facts, JobFields DEF Labels
<1>3. mem.repl.op \in Operations BY <1>1 DEF IInv, Sound, Named
<1>4. effect \in [ks : Ids, guard : Ids, dev : BOOLEAN] /\ effect.guard = mem.repl.op
  BY <1>3, Facts DEF Ids
<1> HIDE DEF effect
<1>5. effect.guard # None BY <1>3, <1>4, Facts
<1>6. os' = effect /\ job' = At("guarded") => Knows' /\ Doing'
  BY <1>1, <1>2, <1>5 DEF Knows, Doing, Pending
<1> QED BY <1>1, <1>2, <1>4, <1>5, <1>6, Facts, Natives

\* The handler's updates of a pending replacement under the guard: the journal
\* it saves may have any phase but Clean.
LEMMA GuardedSave ==
    ASSUME IInv, NEW k \in Journal, NEW next \in Job, Save(k, next),
           UNCHANGED <<os, attached, instance>>,
           SameReplacement(mem, k), Pending(mem), Pending(k), k.repl.guard # "Restored",
           k.phase # "Clean", k.op \in {mem.op, mem.repl.op},
           os.guard # None \/ Held(k),
           mem' = k /\ disk' = k /\ job' = next => Knows' /\ Doing',
           k.repl.guard = "Applied" => mem.repl.guard = "Applied" \/ Pending(disk)
    PROVE  IInv'
<1>1. Sound(mem) /\ (mem.repl.guard = "Applied" => Pending(disk)) BY DEF IInv, Ahead
<1>2. Sound(k) BY <1>1, Facts, SoundUpdate
<1> QED BY <1>1, <1>2, Facts, Saves

LEMMA RecordGuardKeeps ==
    ASSUME IInv, RecordGuard
    PROVE  IInv'
<1> DEFINE k == [mem EXCEPT !.repl.guard = "Applied", !.repl.phase = "SourceCleanup"]
<1>1. /\ Save(k, At("readback")) /\ UNCHANGED <<os, attached, instance>>
      /\ job.at = "guarded" /\ job.does = "replace" /\ Pending(mem) /\ Pending(disk)
      /\ os.guard # None
  BY DEF RecordGuard, IInv, Knows, Doing
<1>2. /\ At("readback") \in Job /\ At("readback").at = "readback"
      /\ At("readback").does = "replace"
  BY <1>1, Facts, JobFields DEF Labels
<1>3. /\ k \in Journal /\ SameReplacement(mem, k) /\ k.repl.guard = "Applied"
      /\ k.repl.phase = "SourceCleanup" /\ k.phase = mem.phase /\ k.op = mem.op
  BY Facts DEF Journal, Replacement, ReplacementPhases, SameReplacement
<1>4. mem.phase # "Clean" BY <1>1 DEF IInv, Sound, Valid
<1> HIDE DEF k
<1>5. Pending(k) BY <1>3 DEF Pending, Final
<1>6. mem' = k /\ disk' = k /\ job' = At("readback") => Knows' /\ Doing'
  BY <1>1, <1>2, <1>5 DEF Knows, Doing, Pending
<1> QED BY <1>1, <1>2, <1>3, <1>4, <1>5, <1>6, GuardedSave

LEMMA ReadbackKeeps ==
    ASSUME IInv, Readback
    PROVE  IInv'
<1>1. /\ UNCHANGED <<mem, disk, os, attached, instance, faults>>
      /\ job.at = "readback" /\ job.does = "replace" /\ Pending(mem) /\ Pending(disk)
      /\ \/ job' = Idle
         \/ job' = At("quiesce") /\ os.guard # None
         \/ job' = At("guard")
  BY DEF Readback, IInv, Knows, GuardPresent
<1>2. CASE job' = Idle BY <1>1, <1>2, Facts, Ends
<1>3. CASE job' # Idle
  <2>1. /\ job' \in Job /\ job'.does = "replace"
        /\ (job'.at = "quiesce" /\ os.guard # None) \/ job'.at = "guard"
    BY <1>1, <1>3, Facts, JobFields DEF Labels
  <2>2. Knows' /\ Doing' BY <1>1, <2>1 DEF Knows, Doing, Pending
  <2> QED BY <1>1, <2>1, <2>2, Facts, Looks
<1> QED BY <1>2, <1>3

(***************************************************************************)
(* Teardown and the device: a replacement goes on under the guard, an abort *)
(* goes on aborting.                                                        *)
(***************************************************************************)
\* Where such a handler may go with the journal k.
Onward(k, next) ==
    /\ next.does = job.does
    /\ next.at \in Teardown \cup Retiring \cup Creation \cup Stepping
    /\ next.at # "released"
    /\ next.at \in Creation \cup Stepping => job.does = "replace"
    /\ next.at \in {"foreign", "release"} => job.does = "abort"
    /\ next.at = "guarded" => Pending(disk)
    /\ next.at \in Retiring /\ job.does = "abort" => k.phase = "RecoveryRequired"

LEMMA Busy ==
    ASSUME IInv, job.at \in Teardown \cup Retiring \cup Creation,
           job.does \in {"replace", "abort"}
    PROVE  /\ Pending(mem) /\ mem.phase # "Clean" /\ mem.repl.guard # "Restored"
           /\ job.does = "replace" => os.guard # None
           /\ job.does = "abort" =>
                 /\ mem.repl.phase = "Aborting" /\ disk.repl.phase = "Aborting"
                 /\ job.at \in Retiring =>
                       mem.phase = "RecoveryRequired" /\ disk.phase = "RecoveryRequired"
           /\ Pending(disk)
<1>1. /\ Pending(mem) /\ job.does = "replace" => os.guard # None
      /\ job.does = "abort" =>
            /\ mem.repl.phase = "Aborting" /\ disk.repl.phase = "Aborting"
            /\ job.at \in Retiring =>
                  mem.phase = "RecoveryRequired" /\ disk.phase = "RecoveryRequired"
  BY DEF IInv, Knows, Doing
<1>2. Pending(mem) BY DEF IInv, Knows
<1>3. mem.phase # "Clean" /\ mem.repl.guard # "Restored" BY <1>2 DEF IInv, Sound, Valid
<1>4. Pending(disk) BY <1>1, <1>2 DEF IInv, Ahead, Pending, Final
<1> QED BY <1>1, <1>2, <1>3, <1>4

LEMMA OnwardSave ==
    ASSUME IInv, job.at \in Teardown \cup Retiring \cup Creation,
           job.does \in {"replace", "abort"},
           NEW k \in Journal, NEW next \in Job, Save(k, next),
           UNCHANGED <<os, attached, instance>>,
           k.repl = mem.repl, k.op = mem.op, k.phase # "Clean",
           job.does = "abort" => k.phase # "Prepared",
           next = Idle \/ Onward(k, next)
    PROVE  IInv'
<1>1. SameReplacement(mem, k) BY DEF SameReplacement
<1>2. Pending(k) BY Busy DEF Pending
<1>3. os.guard # None \/ Held(k) BY Busy DEF Held
<1>4. mem' = k /\ disk' = k /\ job' = next => Knows' /\ Doing'
  <2>1. CASE next = Idle
    <3>1. Idle.at = "idle" /\ Idle.does = "none" BY JobFields, Facts
    <3> QED BY <2>1, <3>1 DEF Knows, Doing
  <2>2. CASE Onward(k, next)
    <3> SUFFICES ASSUME mem' = k, disk' = k, job' = next PROVE Knows' /\ Doing' OBVIOUS
    <3>1. Pending(mem)' /\ Pending(disk)' BY <1>2 DEF Pending
    <3>2. Knows' BY <2>2, <3>1 DEF Knows, Onward
    <3>3. Doing' BY <2>2, Busy DEF Doing, Onward
    <3> QED BY <3>2, <3>3
  <2> QED BY <2>1, <2>2
<1> QED BY <1>1, <1>2, <1>3, <1>4, Busy, GuardedSave

LEMMA PhaseFields ==
    ASSUME NEW j \in Journal
    PROVE  /\ \A p \in RecoveryPhases :
                 /\ SetPhase(j, p) \in Journal /\ SetPhase(j, p).phase = p
                 /\ SetPhase(j, p).repl = j.repl /\ SetPhase(j, p).op = j.op
                 /\ SetPhase(j, p).step = j.step
           /\ \A p \in ReplacementPhases :
                 /\ SetReplacement(j, p) \in Journal /\ SetReplacement(j, p).repl.phase = p
                 /\ SetReplacement(j, p).phase = j.phase /\ SetReplacement(j, p).op = j.op
                 /\ SetReplacement(j, p).step = j.step
                 /\ SetReplacement(j, p).repl.guard = j.repl.guard
                 /\ SameReplacement(j, SetReplacement(j, p))
           /\ \A k, s : s \in StepStates =>
                 /\ SetStep(j, k, s) \in Journal /\ SetStep(j, k, s).phase = j.phase
                 /\ SetStep(j, k, s).repl = j.repl /\ SetStep(j, k, s).op = j.op
           /\ \A d \in DeviceRecord :
                 /\ [j EXCEPT !.dev = d] \in Journal /\ [j EXCEPT !.dev = d].phase = j.phase
                 /\ [j EXCEPT !.dev = d].repl = j.repl /\ [j EXCEPT !.dev = d].op = j.op
  BY DEF SetPhase, SetReplacement, SetStep, Journal, Replacement, SameReplacement

LEMMA QuiesceKeeps ==
    ASSUME IInv, Quiesce
    PROVE  IInv'
<1> DEFINE k == SetPhase(mem, "Recovering")
           S == {x \in Kinds : mem.step[x] \in Unresolved}
           next == [At("restore") EXCEPT !.left = S]
<1>1. /\ Save(k, next) /\ UNCHANGED <<os, attached, instance>>
      /\ job.at = "quiesce" /\ job.does \in {"replace", "abort"}
  BY DEF Quiesce, IInv, Knows
<1>2. /\ k \in Journal /\ k.phase = "Recovering" /\ k.repl = mem.repl /\ k.op = mem.op
  BY Facts, PhaseFields DEF RecoveryPhases
<1>3. next \in Job /\ next.at = "restore" /\ next.does = job.does
  <2>1. S \in SUBSET Kinds OBVIOUS
  <2> HIDE DEF S
  <2> QED BY <2>1, Facts, JobFields DEF Labels
<1> HIDE DEF k, next
<1>4. Onward(k, next) BY <1>3 DEF Onward
<1> QED BY <1>1, <1>2, <1>3, <1>4, OnwardSave

LEMMA RequireRecoveryKeeps ==
    ASSUME IInv, RequireRecovery
    PROVE  IInv'
<1> DEFINE k == SetPhase(mem, "RecoveryRequired")
           next == IF job.failed THEN Idle ELSE At("clear")
<1>1. /\ Save(k, next) /\ UNCHANGED <<os, attached, instance>>
      /\ job.at = "restore" /\ job.does \in {"replace", "abort"}
  BY DEF RequireRecovery, IInv, Knows
<1>2. /\ k \in Journal /\ k.phase = "RecoveryRequired" /\ k.repl = mem.repl /\ k.op = mem.op
  BY Facts, PhaseFields DEF RecoveryPhases
<1>3. next \in Job /\ (next = Idle \/ (next.at = "clear" /\ next.does = job.does))
  BY Facts, JobFields DEF Labels
<1> HIDE DEF k, next
<1>4. next = Idle \/ Onward(k, next) BY <1>2, <1>3 DEF Onward
<1> QED BY <1>1, <1>2, <1>3, <1>4, OnwardSave

LEMMA ClearStepsKeeps ==
    ASSUME IInv, ClearSteps
    PROVE  IInv'
<1> DEFINE k == [mem EXCEPT !.step = NoSteps]
           l == IF job.does = "replace" THEN "device" ELSE "foreign"
           next == At(l)
<1>1. /\ Save(k, next) /\ UNCHANGED <<os, attached, instance>>
      /\ job.at = "clear" /\ job.does \in {"replace", "abort"}
  BY DEF ClearSteps, IInv, Knows
<1>2. /\ k \in Journal /\ k.phase = mem.phase /\ k.repl = mem.repl /\ k.op = mem.op
  BY Facts DEF Journal, NoSteps, StepStates
<1>3. next \in Job /\ next.at = l /\ next.does = job.does
  BY Facts, JobFields DEF Labels
<1> HIDE DEF k, next
<1>4. Onward(k, next) BY <1>1, <1>2, <1>3, Busy DEF Onward
<1> QED BY <1>1, <1>2, <1>3, <1>4, Busy, OnwardSave

\* One step of the teardown: the policy of the tunnel may go.
LEMMA RestoreStepKeeps ==
    ASSUME IInv, RestoreStep
    PROVE  IInv'
<1>1. /\ UNCHANGED <<disk, instance>> /\ job.at = "restore"
      /\ job.does \in {"replace", "abort"} /\ faults' \in Nat
  BY Facts DEF RestoreStep, IInv, Knows, Fault
<1>2. /\ mem' \in Journal /\ mem'.phase = mem.phase /\ mem'.repl = mem.repl /\ mem'.op = mem.op
  <2>1. mem' = mem \/ \E k : mem' = SetStep(mem, k, "Restored") BY DEF RestoreStep
  <2> QED BY <2>1, Facts, PhaseFields DEF StepStates
<1>3. os' \in [ks : Ids, guard : Ids, dev : BOOLEAN] /\ os'.guard = os.guard
  <2>1. os' \in {os, [os EXCEPT !.ks = None]} BY DEF RestoreStep
  <2> QED BY <2>1, Facts
<1>4. attached' \in BOOLEAN BY Facts DEF RestoreStep
<1>5. job' \in Job /\ job'.at \in {"restore", "restored"} /\ job'.does = job.does
  <2>1. PICK S \in SUBSET Kinds : \/ job' = [At("restored") EXCEPT !.left = S]
                                  \/ job' = [job EXCEPT !.failed = TRUE, !.left = S]
    <3>1. \E k : \/ job' = [At("restored") EXCEPT !.left = @ \ {k}]
                 \/ job' = [job EXCEPT !.failed = TRUE,
                                       !.left = IF k = "PacketSession" THEN {} ELSE @ \ {k}]
      BY DEF RestoreStep
    <3>2. PICK k : \/ job' = [At("restored") EXCEPT !.left = @ \ {k}]
                   \/ job' = [job EXCEPT !.failed = TRUE,
                                         !.left = IF k = "PacketSession" THEN {} ELSE @ \ {k}]
      BY <3>1
    <3>3. At("restored").left = job.left /\ job.left \in SUBSET Kinds
      BY Facts DEF At, Job
    <3>4. CASE job' = [At("restored") EXCEPT !.left = @ \ {k}]
      <4>1. job' = [At("restored") EXCEPT !.left = job.left \ {k}] BY <3>3, <3>4
      <4> QED BY <3>3, <4>1
    <3>5. CASE job' = [job EXCEPT !.failed = TRUE,
                                  !.left = IF k = "PacketSession" THEN {} ELSE @ \ {k}]
      <4> DEFINE S == IF k = "PacketSession" THEN {} ELSE job.left \ {k}
      <4>1. job' = [job EXCEPT !.failed = TRUE, !.left = S] BY <3>5
      <4>2. S \in SUBSET Kinds BY <3>3
      <4> HIDE DEF S
      <4> QED BY <4>1, <4>2
    <3> QED BY <3>2, <3>4, <3>5
  <2>2. CASE job' = [At("restored") EXCEPT !.left = S]
    <3>1. "restored" \in Labels BY DEF Labels
    <3> QED BY <2>2, <3>1, Facts, JobFields
  <2>3. CASE job' = [job EXCEPT !.failed = TRUE, !.left = S]
    BY <1>1, <2>3, Facts DEF Job
  <2> QED BY <2>1, <2>2, <2>3
<1>6. TypeOK' BY <1>1, <1>2, <1>3, <1>4, <1>5, Facts DEF TypeOK
<1>7. Pending(mem)' /\ Pending(disk)' BY <1>1, <1>2, Busy DEF Pending
<1>8. Sound(mem)' /\ Sound(disk)'
  <2>1. os'.guard = None => Held(mem)' /\ Held(disk)'
    <3> SUFFICES ASSUME os'.guard = None PROVE Held(mem)' /\ Held(disk)' OBVIOUS
    <3>1. mem.repl.phase = "Aborting" /\ disk.repl.phase = "Aborting" BY <1>1, <1>3, Busy
    <3>2. Held(mem) /\ Held(disk) BY <1>3 DEF IInv, Sound
    <3> QED BY <1>1, <1>2, <3>1, <3>2 DEF Held, Pending
  <2>2. Valid(mem)' /\ SharedBy(mem)' /\ Named(mem)'
    BY <1>2 DEF IInv, Sound, Valid, SharedBy, Named, Pending, LeftOut
  <2>3. Valid(disk)' /\ SharedBy(disk)' /\ Named(disk)'
    BY <1>1 DEF IInv, Sound, Valid, SharedBy, Named, Pending, LeftOut
  <2> QED BY <2>1, <2>2, <2>3 DEF Sound
<1>9. Ahead' BY <1>7 DEF Ahead
<1>10. Knows' BY <1>1, <1>5, <1>7 DEF Knows
<1>11. Doing' BY <1>1, <1>2, <1>3, <1>5, Busy DEF Doing
<1> QED BY <1>6, <1>8, <1>9, <1>10, <1>11 DEF IInv

LEMMA RecordRestoreKeeps ==
    ASSUME IInv, RecordRestore
    PROVE  IInv'
<1>1. /\ UNCHANGED <<mem, os, attached, instance>> /\ job.at = "restored"
      /\ job.does \in {"replace", "abort"} /\ faults' \in Nat /\ disk' \in {mem, disk}
  BY Facts DEF RecordRestore, IInv, Knows, Fault
<1>2. job' \in Job /\ job'.at = "restore" /\ job'.does = job.does
  <2>1. job' \in {At("restore"), [At("restore") EXCEPT !.failed = TRUE]} BY DEF RecordRestore
  <2> QED BY <2>1, Facts DEF At, Job, Labels
<1>3. TypeOK' BY <1>1, <1>2, Facts DEF TypeOK
<1>4. Sound(mem)' /\ Sound(disk)'
  BY <1>1 DEF IInv, Sound, Valid, SharedBy, Named, Held, Pending, LeftOut
<1>5. Pending(mem)' /\ Pending(disk)' BY <1>1, Busy DEF Pending
<1>6. Ahead' /\ Knows' BY <1>1, <1>2, <1>5 DEF Ahead, Knows
<1>7. Doing' BY <1>1, <1>2, Busy DEF Doing
<1> QED BY <1>3, <1>4, <1>6, <1>7 DEF IInv

LEMMA CheckDeviceKeeps ==
    ASSUME IInv, CheckDevice
    PROVE  IInv'
<1>1. /\ UNCHANGED <<mem, disk, os, attached, instance, faults>>
      /\ job.at \in {"device", "foreign"} /\ job.does \in {"replace", "abort"}
      /\ \/ job.at = "device" /\ \E l \in {"create", "target", "retire"} : job' = At(l)
         \/ job.at = "foreign" /\ \E l \in {"release", "retire"} : job' = At(l)
  BY DEF CheckDevice, IInv, Knows
<1>2. job.at = "device" => job.does = "replace" BY DEF IInv, Knows
<1>3. job.at = "foreign" => job.does = "abort" BY DEF IInv, Knows
<1>4. /\ job' \in Job /\ job'.does = job.does
      /\ \/ job.does = "replace" /\ job'.at \in {"create", "target", "retire"}
         \/ job.does = "abort" /\ job'.at \in {"release", "retire"}
  BY <1>1, <1>2, <1>3, Facts, JobFields DEF Labels
<1>5. Pending(mem)' /\ Pending(disk)' BY <1>1, Busy DEF Pending
<1>6. Knows' BY <1>1, <1>4, <1>5 DEF Knows
<1>7. Doing' BY <1>1, <1>2, <1>3, <1>4, Busy DEF Doing
<1> QED BY <1>1, <1>4, <1>6, <1>7, Facts, Looks

LEMMA RetireDeviceKeeps ==
    ASSUME IInv, RetireDevice
    PROVE  IInv'
<1> DEFINE d == [mem.dev EXCEPT !.state = "RecoveryRequired"]
           k == [mem EXCEPT !.dev = d]
           next == At("remove")
<1>1. [mem EXCEPT !.dev.state = "RecoveryRequired"] = k BY Facts DEF Journal
<1>2. /\ Save(k, next) /\ UNCHANGED <<os, attached, instance>>
      /\ job.at = "retire" /\ job.does \in {"replace", "abort"}
  BY <1>1 DEF RetireDevice, IInv, Knows
<1>3. /\ k \in Journal /\ k.phase = mem.phase /\ k.repl = mem.repl /\ k.op = mem.op
  <2>1. d \in DeviceRecord BY Facts DEF Journal, DeviceRecord
  <2> HIDE DEF d
  <2> QED BY <2>1, Facts, PhaseFields
<1>4. next \in Job /\ next.at = "remove" /\ next.does = job.does
  BY Facts, JobFields DEF Labels
<1> HIDE DEF k, next
<1>5. Onward(k, next) BY <1>2, <1>3, <1>4, Busy DEF Onward
<1> QED BY <1>2, <1>3, <1>4, <1>5, Busy, OnwardSave

LEMMA ForgetDeviceKeeps ==
    ASSUME IInv, ForgetDevice
    PROVE  IInv'
<1> DEFINE k == [mem EXCEPT !.dev = NoDevice]
           l == IF job.does = "replace" THEN "create" ELSE "release"
           next == At(l)
<1>1. /\ Save(k, next) /\ UNCHANGED <<os, attached, instance>>
      /\ job.at = "removed" /\ job.does \in {"replace", "abort"}
  BY DEF ForgetDevice, IInv, Knows
<1>2. /\ k \in Journal /\ k.phase = mem.phase /\ k.repl = mem.repl /\ k.op = mem.op
  <2>1. NoDevice \in DeviceRecord BY DEF NoDevice, DeviceRecord
  <2> QED BY <2>1, Facts, PhaseFields
<1>3. next \in Job /\ next.at = l /\ next.does = job.does
  BY Facts, JobFields DEF Labels
<1> HIDE DEF k, next
<1>4. Onward(k, next) BY <1>1, <1>2, <1>3, Busy DEF Onward
<1> QED BY <1>1, <1>2, <1>3, <1>4, Busy, OnwardSave

LEMMA IntendDeviceKeeps ==
    ASSUME IInv, IntendDevice
    PROVE  IInv'
<1> DEFINE d == [inst |-> instance, state |-> "Creating"]
           k == [mem EXCEPT !.dev = d]
           next == At("creating")
<1>1. /\ Save(k, next) /\ UNCHANGED <<os, attached, instance>>
      /\ job.at = "create" /\ job.does = "replace"
  BY DEF IntendDevice, IInv, Knows
<1>2. /\ k \in Journal /\ k.phase = mem.phase /\ k.repl = mem.repl /\ k.op = mem.op
  <2>1. d \in DeviceRecord BY Facts DEF DeviceRecord
  <2> HIDE DEF d
  <2> QED BY <2>1, Facts, PhaseFields
<1>3. next \in Job /\ next.at = "creating" /\ next.does = job.does
  BY Facts, JobFields DEF Labels
<1> HIDE DEF k, next
<1>4. Onward(k, next) BY <1>1, <1>2, <1>3, Busy DEF Onward
<1> QED BY <1>1, <1>2, <1>3, <1>4, Busy, OnwardSave

LEMMA RecordDeviceKeeps ==
    ASSUME IInv, RecordDevice
    PROVE  IInv'
<1> DEFINE d == [mem.dev EXCEPT !.state = "InUse"]
           k == [mem EXCEPT !.dev = d]
           next == At("target")
<1>1. [mem EXCEPT !.dev.state = "InUse"] = k BY Facts DEF Journal
<1>2. /\ Save(k, next) /\ UNCHANGED <<os, attached, instance>>
      /\ job.at = "created" /\ job.does = "replace"
  BY <1>1 DEF RecordDevice, IInv, Knows
<1>3. /\ k \in Journal /\ k.phase = mem.phase /\ k.repl = mem.repl /\ k.op = mem.op
  <2>1. d \in DeviceRecord BY Facts DEF Journal, DeviceRecord
  <2> HIDE DEF d
  <2> QED BY <2>1, Facts, PhaseFields
<1>4. next \in Job /\ next.at = "target" /\ next.does = job.does
  BY Facts, JobFields DEF Labels
<1> HIDE DEF k, next
<1>5. Onward(k, next) BY <1>2, <1>3, <1>4, Busy DEF Onward
<1> QED BY <1>2, <1>3, <1>4, <1>5, Busy, OnwardSave

\* The device in Windows goes or comes.
LEMMA NativeDeviceKeeps ==
    ASSUME IInv, RemoveDevice \/ CreateDevice
    PROVE  IInv'
<1>1. PICK dev \in BOOLEAN, l \in {"removed", "created"} :
        /\ Native([os EXCEPT !.dev = dev], At(l))
        /\ \/ job.at = "remove" /\ l = "removed"
           \/ job.at = "creating" /\ l = "created"
        /\ UNCHANGED <<mem, disk, attached, instance>>
  BY DEF RemoveDevice, CreateDevice
<1>2. /\ job.does \in {"replace", "abort"} /\ (l = "created" => job.does = "replace")
  BY <1>1 DEF IInv, Knows
<1> DEFINE effect == [os EXCEPT !.dev = dev]
<1>3. /\ effect \in [ks : Ids, guard : Ids, dev : BOOLEAN] /\ effect.guard = os.guard
      /\ effect.ks = os.ks
  BY Facts
<1>4. At(l) \in Job /\ At(l).at = l /\ At(l).does = job.does
  BY Facts, JobFields DEF Labels
<1> HIDE DEF effect
<1>5. effect.guard = None /\ os' = effect => Held(mem)' /\ Held(disk)'
  BY <1>1, <1>3 DEF IInv, Sound, Held, Pending
<1>6. os' = effect /\ job' = At(l) => Knows' /\ Doing'
  <2> SUFFICES ASSUME os' = effect, job' = At(l) PROVE Knows' /\ Doing' OBVIOUS
  <2>1. Pending(mem)' /\ Pending(disk)' BY <1>1, <1>2, Busy DEF Pending
  <2>2. Knows' BY <1>1, <1>2, <1>4, <2>1 DEF Knows
  <2>3. Doing' BY <1>1, <1>2, <1>3, <1>4, Busy DEF Doing
  <2> QED BY <2>2, <2>3
<1>7. Native(effect, At(l)) BY <1>1 DEF effect
<1>8. effect.guard # None => Pending(disk) BY <1>3 DEF IInv, Ahead
<1> QED BY <1>1, <1>3, <1>4, <1>5, <1>6, <1>7, <1>8, Natives

(***************************************************************************)
(* The target is prepared, step by step.                                    *)
(***************************************************************************)
LEMMA BeginTargetKeeps ==
    ASSUME IInv, BeginTarget
    PROVE  IInv'
<1> DEFINE k == SetReplacement(mem, "PreparingTarget")
           next == At("prepare")
<1>1. /\ Save(k, next) /\ UNCHANGED <<os, attached, instance>>
      /\ job.at = "target" /\ job.does = "replace"
  BY DEF BeginTarget, IInv, Knows
<1>2. /\ k \in Journal /\ k.repl.phase = "PreparingTarget" /\ SameReplacement(mem, k)
      /\ k.phase = mem.phase /\ k.op = mem.op /\ k.repl.guard = mem.repl.guard
  BY Facts, PhaseFields DEF ReplacementPhases
<1>3. next \in Job /\ next.at = "prepare" /\ next.does = "replace"
  BY <1>1, Facts, JobFields DEF Labels
<1> HIDE DEF k, next
<1>4. Pending(k) BY <1>2 DEF Pending, Final
<1>5. mem' = k /\ disk' = k /\ job' = next => Knows' /\ Doing'
  BY <1>1, <1>3, <1>4, Busy DEF Knows, Doing, Pending
<1> QED BY <1>1, <1>2, <1>3, <1>4, <1>5, Busy, GuardedSave

LEMMA PrepareKeeps ==
    ASSUME IInv, Prepare
    PROVE  IInv'
<1> DEFINE d == [mem.dev EXCEPT !.state = "InUse"]
           k == [mem EXCEPT !.phase = "Preparing", !.op = mem.repl.op, !.step = NoSteps,
                            !.dev = d]
           S == {"Interface"} \union (IF mem.repl.op \in Chain THEN {"KillSwitch"} ELSE {})
           next == [At("push") EXCEPT !.left = S]
<1>1. [mem EXCEPT !.phase = "Preparing", !.op = mem.repl.op, !.step = NoSteps,
                  !.dev.state = "InUse"] = k
  BY Facts DEF Journal
<1>2. /\ Save(k, next) /\ UNCHANGED <<os, attached, instance>>
      /\ job.at = "prepare" /\ job.does = "replace"
  BY <1>1 DEF Prepare, IInv, Knows
<1>3. /\ k \in Journal /\ k.phase = "Preparing" /\ k.repl = mem.repl /\ k.op = mem.repl.op
  <2>1. d \in DeviceRecord BY Facts DEF Journal, DeviceRecord
  <2>2. mem.repl.op \in Ids BY Facts DEF Journal, Replacement
  <2>3. NoSteps \in [Kinds -> StepStates] BY DEF NoSteps, StepStates
  <2> HIDE DEF d
  <2> QED BY <2>1, <2>2, <2>3, Facts DEF Journal, RecoveryPhases
<1>4. next \in Job /\ next.at = "push" /\ next.does = "replace"
  <2>1. S \in SUBSET Kinds BY DEF Kinds
  <2> HIDE DEF S
  <2>2. next \in Job /\ next.at = "push" /\ next.does = job.does
    BY <2>1, Facts, JobFields DEF Labels
  <2> QED BY <1>2, <2>2
<1> HIDE DEF k, next
<1>5. Pending(k) /\ SameReplacement(mem, k) BY <1>2, <1>3, Busy DEF Pending, SameReplacement
<1>6. mem' = k /\ disk' = k /\ job' = next => Knows' /\ Doing'
  BY <1>2, <1>4, <1>5, Busy DEF Knows, Doing, Pending
<1> QED BY <1>2, <1>3, <1>4, <1>5, <1>6, Busy, GuardedSave

\* Steps are applied under the guard, by a handler that goes on with them.
LEMMA Steps ==
    ASSUME IInv, job.at \in Stepping
    PROVE  /\ job.does \in {"replace", "commit", "open"} /\ os.guard # None
           /\ Pending(disk) /\ Pending(mem) /\ mem.phase # "Clean"
           /\ mem.repl.guard # "Restored"
<1>1. job.does \in {"replace", "commit", "open"} /\ os.guard # None BY DEF IInv, Knows, Doing
<1>2. Pending(disk) /\ Pending(mem) BY <1>1 DEF IInv, Ahead
<1> QED BY <1>1, <1>2 DEF IInv, Sound, Valid

LEMMA StepsOn ==
    ASSUME IInv, job.at \in Stepping, NEW next \in Job, next.at \in Stepping,
           next.does = job.does, os'.guard = os.guard, job' = next, Pending(mem')
    PROVE  Knows' /\ Doing'
  BY Steps DEF Knows, Doing, Pending

LEMMA StepSave ==
    ASSUME IInv, job.at \in Stepping, NEW kind, NEW s \in StepStates,
           NEW next \in Job, next.at \in Stepping, next.does = job.does,
           Save(SetStep(mem, kind, s), next), UNCHANGED <<os, attached, instance>>
    PROVE  IInv'
<1> DEFINE k == SetStep(mem, kind, s)
<1>1. k \in Journal /\ k.phase = mem.phase /\ k.repl = mem.repl /\ k.op = mem.op
  BY Facts, PhaseFields
<1>2. Save(k, next) OBVIOUS
<1> HIDE DEF k
<1>3. Pending(k) BY <1>1, Steps DEF Pending
<1>4. Sound(k) BY <1>1, Facts, SoundSame DEF IInv
<1>5. mem' = k /\ disk' = k /\ job' = next => Knows' /\ Doing'
  BY <1>3, StepsOn
<1> QED BY <1>1, <1>2, <1>3, <1>4, <1>5, Steps, Facts, Saves

LEMMA PushStepKeeps ==
    ASSUME IInv, PushStep
    PROVE  IInv'
<1>1. CASE mem.step[Pushed] = "Absent"
  <2>1. Save(SetStep(mem, Pushed, "Intended"), At("apply")) /\ job.at = "push"
        /\ UNCHANGED <<os, attached, instance>>
    BY <1>1 DEF PushStep
  <2>2. At("apply") \in Job /\ At("apply").at = "apply" /\ At("apply").does = job.does
    BY Facts, JobFields DEF Labels
  <2> QED BY <2>1, <2>2, StepSave DEF StepStates
<1>2. CASE mem.step[Pushed] # "Absent"
  <2>1. job' = Idle /\ UNCHANGED <<mem, disk, os, attached, instance, faults>>
    BY <1>2 DEF PushStep
  <2> QED BY <2>1, Facts, Ends
<1> QED BY <1>1, <1>2

LEMMA ApplyStepKeeps ==
    ASSUME IInv, ApplyStep
    PROVE  IInv'
<1> DEFINE effect == IF Pushed = "KillSwitch" THEN [os EXCEPT !.ks = mem.op] ELSE os
           next == At("applied")
<1>1. /\ Native(effect, next) /\ UNCHANGED <<mem, disk, attached, instance>>
      /\ job.at = "apply"
  BY DEF ApplyStep
<1>2. mem.op \in Ids BY Facts DEF Journal
<1>3. effect \in [ks : Ids, guard : Ids, dev : BOOLEAN] /\ effect.guard = os.guard
  BY <1>2, Facts
<1>4. next \in Job /\ next.at = "applied" /\ next.does = job.does
  BY Facts, JobFields DEF Labels
<1> HIDE DEF effect, next
<1>5. os' = effect /\ job' = next => Knows' /\ Doing'
  BY <1>1, <1>3, <1>4, Steps, StepsOn
<1> QED BY <1>1, <1>3, <1>4, <1>5, Steps, Natives

LEMMA RecordStepKeeps ==
    ASSUME IInv, RecordStep
    PROVE  IInv'
<1> DEFINE S == job.left \ {Pushed}
           next == [At("push") EXCEPT !.left = S]
<1>1. At("push").left = job.left /\ job.left \in SUBSET Kinds BY Facts DEF At, Job
<1>2. /\ Save(SetStep(mem, Pushed, "Applied"), next) /\ job.at = "applied"
      /\ UNCHANGED <<os, attached, instance>>
  BY <1>1 DEF RecordStep
<1>3. next \in Job /\ next.at = "push" /\ next.does = job.does
  <2>1. S \in SUBSET Kinds BY <1>1
  <2> HIDE DEF S
  <2> QED BY <2>1, Facts, JobFields DEF Labels
<1> HIDE DEF next
<1> QED BY <1>2, <1>3, StepSave DEF StepStates

LEMMA FinishStepsKeeps ==
    ASSUME IInv, FinishSteps
    PROVE  IInv'
<1>1. job.at = "push" /\ UNCHANGED <<os, instance>> BY DEF FinishSteps
<1>2. CASE job.does \in {"replace", "commit"} /\ attached' = attached
  <2>1. PICK p \in {"Prepared", "Active"}, l \in {"prepared", "complete"} :
          /\ Save(SetPhase(mem, p), At(l))
          /\ \/ job.does = "replace" /\ l = "prepared"
             \/ job.does = "commit" /\ l = "complete" /\ p = "Active"
    BY <1>2 DEF FinishSteps
  <2> DEFINE k == SetPhase(mem, p)
             next == At(l)
  <2>2. k \in Journal /\ k.phase = p /\ k.repl = mem.repl /\ k.op = mem.op
    <3>1. p \in RecoveryPhases BY DEF RecoveryPhases
    <3> QED BY <3>1, Facts, PhaseFields
  <2>3. next \in Job /\ next.at = l /\ next.does = job.does
    BY Facts, JobFields DEF Labels
  <2>4. Save(k, next) BY <2>1
  <2> HIDE DEF k, next
  <2>5. Pending(k) /\ SameReplacement(mem, k) BY <1>1, <2>2, Steps DEF Pending, SameReplacement
  <2>6. mem' = k /\ disk' = k /\ job' = next => Knows' /\ Doing'
    BY <1>1, <2>1, <2>2, <2>3, <2>5, Steps DEF Knows, Doing, Pending
  <2> QED BY <1>1, <1>2, <2>2, <2>3, <2>4, <2>5, <2>6, Steps, GuardedSave
<1>3. CASE job' = Idle /\ attached' = TRUE /\ UNCHANGED <<mem, disk, faults>>
  BY <1>1, <1>3, Facts, Ends
<1> QED BY <1>2, <1>3 DEF FinishSteps

LEMMA RecordPreparedKeeps ==
    ASSUME IInv, RecordPrepared
    PROVE  IInv'
<1> DEFINE k == SetReplacement(mem, "Prepared")
<1>1. /\ Save(k, Idle) /\ UNCHANGED <<os, attached, instance>>
      /\ job.at = "prepared" /\ job.does = "replace"
  BY DEF RecordPrepared, IInv, Knows
<1>2. /\ k \in Journal /\ k.repl.phase = "Prepared" /\ SameReplacement(mem, k)
      /\ k.phase = mem.phase /\ k.op = mem.op /\ k.repl.guard = mem.repl.guard
  BY Facts, PhaseFields DEF ReplacementPhases
<1>3. Idle \in Job /\ Idle.at = "idle" /\ Idle.does = "none" BY JobFields, Facts
<1> HIDE DEF k
<1>4. Pending(k) BY <1>2 DEF Pending, Final
<1>5. mem' = k /\ disk' = k /\ job' = Idle => Knows' /\ Doing'
  BY <1>3 DEF Knows, Doing
<1> QED BY <1>1, <1>2, <1>3, <1>4, <1>5, Busy, GuardedSave

(***************************************************************************)
(* The packet session.                                                      *)
(***************************************************************************)
\* A Prepared tunnel is a pending target, under the guard.
LEMMA PreparedIsGuarded ==
    ASSUME IInv, mem.phase = "Prepared"
    PROVE  Pending(mem) /\ Pending(disk) /\ os.guard # None
<1>1. Pending(mem) BY DEF IInv, Sound, Named, Failed
<1>2. os.guard # None BY <1>1 DEF IInv, Sound, Held
<1> QED BY <1>1, <1>2 DEF IInv, Ahead

LEMMA OpenSessionKeeps ==
    ASSUME IInv, OpenSession
    PROVE  IInv'
<1> DEFINE S == {"PacketSession"}
           next == [Start("open", "push") EXCEPT !.left = S]
<1>1. /\ mem.phase = "Prepared" /\ job' = next
      /\ UNCHANGED <<mem, disk, os, attached, instance, faults>>
  BY DEF OpenSession
<1>2. next \in Job /\ next.at = "push" /\ next.does = "open"
  <2>1. S \in SUBSET Kinds BY DEF Kinds
  <2> HIDE DEF S
  <2>2. \A T \in SUBSET Kinds : /\ [Start("open", "push") EXCEPT !.left = T] \in Job
                                 /\ [Start("open", "push") EXCEPT !.left = T].at = "push"
                                 /\ [Start("open", "push") EXCEPT !.left = T].does = "open"
    BY DEF Start, Idle, Job, Labels
  <2> QED BY <2>1, <2>2
<1> HIDE DEF next
<1>3. Knows' /\ Doing' BY <1>1, <1>2, PreparedIsGuarded DEF Knows, Doing, Pending
<1> QED BY <1>1, <1>2, <1>3, Facts, Looks

\* A save that leaves the replacement and the phase alone.
LEMMA PlainSave ==
    ASSUME IInv, NEW k \in Journal, NEW next \in Job, Save(k, next),
           UNCHANGED <<os, instance>>, attached' \in BOOLEAN,
           k.repl = mem.repl, k.phase = mem.phase, k.op = mem.op,
           \/ next.at = "idle" /\ next.does = "none"
           \/ next.at = "resume" /\ next.does = "open"
    PROVE  IInv'
<1>1. Sound(k) BY Facts, SoundSame DEF IInv
<1>2. /\ Pending(disk) => Pending(k)
      /\ k.repl.guard = "Applied" => Pending(disk)
  BY DEF IInv, Ahead, Pending
<1>3. mem' = k /\ disk' = k /\ job' = next => Knows' /\ Doing'
  BY DEF Knows, Doing
<1> QED BY <1>1, <1>2, <1>3, Saves

LEMMA CloseSessionKeeps ==
    ASSUME IInv, CloseSession
    PROVE  IInv'
<1>1. PICK k \in {mem, SetStep(mem, "PacketSession", "Absent")} :
        Save(k, Idle) /\ attached' = FALSE /\ UNCHANGED <<os, instance>>
  BY DEF CloseSession
<1>2. k \in Journal /\ k.repl = mem.repl /\ k.phase = mem.phase /\ k.op = mem.op
  BY Facts, PhaseFields DEF StepStates
<1>3. Idle \in Job /\ Idle.at = "idle" /\ Idle.does = "none" BY JobFields, Facts
<1> QED BY <1>1, <1>2, <1>3, PlainSave

LEMMA ReleaseLeaseKeeps ==
    ASSUME IInv, ReleaseLease
    PROVE  IInv'
<1>1. Save(mem, Idle) /\ attached' = FALSE /\ UNCHANGED <<os, instance>>
  BY DEF ReleaseLease
<1>2. Idle \in Job /\ Idle.at = "idle" /\ Idle.does = "none" BY JobFields, Facts
<1> QED BY <1>1, <1>2, Facts, PlainSave

LEMMA ResumeTunnelKeeps ==
    ASSUME IInv, ResumeTunnel
    PROVE  IInv'
<1> DEFINE d == [mem.dev EXCEPT !.inst = instance]
           k == [mem EXCEPT !.dev = d]
           next == Start("open", "resume")
<1>1. [mem EXCEPT !.dev.inst = instance] = k BY Facts DEF Journal
<1>2. Save(k, next) /\ UNCHANGED <<os, attached, instance>> BY <1>1 DEF ResumeTunnel
<1>3. k \in Journal /\ k.repl = mem.repl /\ k.phase = mem.phase /\ k.op = mem.op
  <2>1. d \in DeviceRecord BY Facts DEF Journal, DeviceRecord
  <2> HIDE DEF d
  <2> QED BY <2>1, Facts, PhaseFields
<1>4. next \in Job /\ next.at = "resume" /\ next.does = "open" BY StartFields DEF Labels
<1> HIDE DEF k, next
<1> QED BY <1>2, <1>3, <1>4, Facts, PlainSave

LEMMA ResumeSessionKeeps ==
    ASSUME IInv, ResumeSession
    PROVE  IInv'
<1>1. /\ UNCHANGED <<mem, disk, os, instance>> /\ job' = Idle /\ attached' \in BOOLEAN
      /\ faults' \in Nat
  BY Facts DEF ResumeSession, Fault
<1> QED BY <1>1, Ends

(***************************************************************************)
(* The target is committed and the guard goes.                              *)
(***************************************************************************)
LEMMA CommitKeeps ==
    ASSUME IInv, Commit
    PROVE  IInv'
<1> DEFINE k == SetReplacement(mem, "Committing")
           next == [Start("commit", "push") EXCEPT !.left = CommitSteps]
<1>1. /\ Save(k, next) /\ UNCHANGED <<os, attached, instance>>
      /\ mem.phase = "Prepared"
  BY DEF Commit
<1>2. /\ k \in Journal /\ k.repl.phase = "Committing" /\ SameReplacement(mem, k)
      /\ k.phase = mem.phase /\ k.op = mem.op /\ k.repl.guard = mem.repl.guard
  BY Facts, PhaseFields DEF ReplacementPhases
<1>3. next \in Job /\ next.at = "push" /\ next.does = "commit"
  <2>1. CommitSteps \in SUBSET Kinds BY DEF CommitSteps, Kinds
  <2>2. \A T \in SUBSET Kinds : /\ [Start("commit", "push") EXCEPT !.left = T] \in Job
                                 /\ [Start("commit", "push") EXCEPT !.left = T].at = "push"
                                 /\ [Start("commit", "push") EXCEPT !.left = T].does = "commit"
    BY DEF Start, Idle, Job, Labels
  <2> QED BY <2>1, <2>2
<1> HIDE DEF k, next
<1>4. Pending(k) BY <1>2 DEF Pending, Final
<1>5. mem' = k /\ disk' = k /\ job' = next => Knows' /\ Doing'
  BY <1>1, <1>3, <1>4, PreparedIsGuarded DEF Knows, Doing, Pending
<1>6. mem.repl.guard # "Restored" BY <1>1, PreparedIsGuarded DEF IInv, Sound, Valid
<1> QED BY <1>1, <1>2, <1>3, <1>4, <1>5, <1>6, PreparedIsGuarded, GuardedSave

LEMMA CommitAgainKeeps ==
    ASSUME IInv, CommitAgain
    PROVE  IInv'
<1>1. /\ job' = Start("commit", "complete") /\ mem.phase = "Active" /\ Pending(mem)
      /\ UNCHANGED <<mem, disk, os, attached, instance, faults>>
  BY DEF CommitAgain
<1>2. job' \in Job /\ job'.at = "complete" /\ job'.does = "commit"
  BY <1>1, StartFields DEF Labels
<1>3. Knows' /\ Doing' BY <1>1, <1>2 DEF Knows, Doing, Pending
<1> QED BY <1>1, <1>2, <1>3, Facts, Looks

LEMMA CompleteKeeps ==
    ASSUME IInv, Complete
    PROVE  IInv'
<1> DEFINE k == SetReplacement(mem, "Committing")
           next == At("release")
<1>1. /\ UNCHANGED <<os, attached, instance>> /\ job.at = "complete"
      /\ job.does = "commit" /\ mem.phase = "Active" /\ Pending(mem)
  BY DEF Complete, IInv, Knows
<1>2. CASE mem.op = mem.repl.op /\ attached /\ Reattachable
  <2>1. Save(k, next) BY <1>2 DEF Complete
  <2>2. /\ k \in Journal /\ k.repl.phase = "Committing" /\ SameReplacement(mem, k)
        /\ k.phase = mem.phase /\ k.op = mem.op /\ k.repl.guard = mem.repl.guard
        /\ k.step = mem.step
    BY Facts, PhaseFields DEF ReplacementPhases
  <2>3. next \in Job /\ next.at = "release" /\ next.does = "commit"
    BY <1>1, Facts, JobFields DEF Labels
  <2> HIDE DEF k, next
  <2>4. Pending(k) BY <2>2 DEF Pending, Final
  <2>5. mem.step["DefaultRoutes"] = "Applied" /\ (Protected(mem.op) => os.ks = mem.op)
    BY <1>2 DEF Reattachable, Applied, Kinds
  <2>6. Arrived(k) BY <1>1, <1>2, <2>2, <2>5 DEF Arrived, SameReplacement
  <2>7. Held(k)
    BY <1>1, <2>2, <2>5 DEF Held, Protected
  <2>8. mem' = k /\ disk' = k /\ job' = next => Knows' /\ Doing'
    BY <1>1, <1>2, <2>3, <2>4, <2>6 DEF Knows, Doing, Pending, Arrived
  <2>9. mem.repl.guard # "Restored" BY <1>1 DEF IInv, Sound, Valid
  <2> QED BY <1>1, <2>1, <2>2, <2>3, <2>4, <2>7, <2>8, <2>9, GuardedSave
<1>3. CASE ~(mem.op = mem.repl.op /\ attached /\ Reattachable)
  <2>1. job' = Idle /\ UNCHANGED <<mem, disk, faults>> BY <1>3 DEF Complete
  <2> QED BY <1>1, <2>1, Facts, Ends
<1> QED BY <1>2, <1>3

\* The guard goes when an abort has torn the tunnel down, or to the target.
LEMMA ReleaseGuardKeeps ==
    ASSUME IInv, ReleaseGuard
    PROVE  IInv'
<1> DEFINE effect == [os EXCEPT !.guard = None]
           next == At("released")
<1>1. /\ Native(effect, next) /\ UNCHANGED <<mem, disk, attached, instance>>
      /\ job.at = "release" /\ job.does \in {"commit", "abort"} /\ Pending(mem)
  BY DEF ReleaseGuard, IInv, Knows
<1>2. /\ effect \in [ks : Ids, guard : Ids, dev : BOOLEAN] /\ effect.guard = None
      /\ effect.ks = os.ks
  BY Facts
<1>3. next \in Job /\ next.at = "released" /\ next.does = job.does
  BY Facts, JobFields DEF Labels
<1> HIDE DEF effect, next
<1>4. /\ job.does = "commit" => disk = mem /\ attached /\ Arrived(mem)
      /\ job.does = "abort" =>
            /\ mem.repl.phase = "Aborting" /\ disk.repl.phase = "Aborting"
            /\ mem.phase = "RecoveryRequired" /\ disk.phase = "RecoveryRequired"
  BY <1>1 DEF IInv, Doing
<1>5. os' = effect => Held(mem)' /\ Held(disk)'
  <2>1. CASE job.does = "commit" BY <1>1, <1>2, <1>4, <2>1 DEF Held, Arrived, Protected, Pending
  <2>2. CASE job.does = "abort" BY <1>1, <1>4, <2>2 DEF Held
  <2> QED BY <1>1, <2>1, <2>2
<1>6. os' = effect /\ job' = next => Knows' /\ Doing'
  BY <1>1, <1>2, <1>3, <1>4 DEF Knows, Doing, Arrived, Pending
<1> QED BY <1>1, <1>2, <1>3, <1>5, <1>6, Natives

LEMMA RecordReleaseKeeps ==
    ASSUME IInv, RecordRelease
    PROVE  IInv'
<1>1. /\ UNCHANGED <<os, attached, instance>> /\ job.at = "released" /\ job' = Idle
      /\ job.does \in {"commit", "abort"} /\ faults' \in Nat
      /\ (mem' = Released /\ disk' = Released) \/ UNCHANGED <<mem, disk>>
  BY Facts DEF RecordRelease, IInv, Knows, Fault
<1>2. CASE UNCHANGED <<mem, disk>> BY <1>1, <1>2, Facts, Ends
<1>3. CASE mem' = Released /\ disk' = Released
  <2> DEFINE j == Released
  <2>1. os.guard = None /\ (job.does = "commit" => mem.phase = "Active")
    BY <1>1 DEF IInv, Doing, Arrived
  <2>2. /\ j \in Journal /\ j.repl.guard = "Restored" /\ j.repl.phase \in Final
        /\ j.repl.exclusions = mem.repl.exclusions /\ j.repl.op = mem.repl.op
        /\ j.repl.original = mem.repl.original
        /\ \/ j.phase = "Active"
           \/ j.phase = "Clean" /\ j.op = None
    <3>1. CASE job.does = "abort"
      <4> DEFINE d == [mem.dev EXCEPT !.state = IF @ = "InUse" THEN "Idle" ELSE @]
                 r == [mem.repl EXCEPT !.guard = "Restored", !.phase = "Aborted"]
      <4>1. d \in DeviceRecord BY Facts DEF Journal, DeviceRecord
      <4>2. r \in Replacement BY Facts DEF Journal, Replacement, ReplacementPhases
      <4>3. /\ r.guard = "Restored" /\ r.phase = "Aborted" /\ r.op = mem.repl.op
            /\ r.exclusions = mem.repl.exclusions /\ r.original = mem.repl.original
        BY Facts DEF Journal, Replacement
      <4>4. j = [phase |-> "Clean", op |-> None, step |-> NoSteps, repl |-> r, dev |-> d]
        BY <3>1 DEF Released, Disconnected
      <4>5. NoSteps \in [Kinds -> StepStates] BY DEF NoSteps, StepStates
      <4> HIDE DEF d, r, j
      <4>6. j \in Journal BY <4>1, <4>2, <4>4, <4>5, Facts DEF Journal, RecoveryPhases
      <4> QED BY <4>3, <4>4, <4>6 DEF Final
    <3>2. CASE job.does = "commit"
      <4>1. j = [mem EXCEPT !.repl.guard = "Restored", !.repl.phase = "Complete"]
        BY <3>2 DEF Released
      <4> HIDE DEF j
      <4> QED BY <2>1, <3>2, <4>1, Facts DEF Journal, Replacement, ReplacementPhases, Final
    <3> QED BY <1>1, <3>1, <3>2
  <2> HIDE DEF j
  <2>3. ~Pending(j) BY <2>2 DEF Pending
  <2>4. Sound(j)
    <3>1. Valid(j) BY <2>2, <2>3 DEF IInv, Sound, Valid
    <3>2. SharedBy(j) /\ Named(j) /\ Held(j) BY <2>2, <2>3 DEF SharedBy, Named, Held
    <3> QED BY <3>1, <3>2 DEF Sound
  <2>5. mem' = j /\ disk' = j BY <1>3 DEF j
  <2>6. Idle \in Job /\ Idle.at = "idle" /\ Idle.does = "none" BY JobFields, Facts
  <2>7. TypeOK' BY <1>1, <2>2, <2>5, <2>6, Facts DEF TypeOK
  <2>8. Sound(mem)' /\ Sound(disk)'
    BY <1>1, <2>4, <2>5 DEF Sound, Valid, SharedBy, Named, Held, Pending, LeftOut
  <2>9. Ahead' BY <1>1, <2>1, <2>2, <2>3, <2>5 DEF Ahead, Pending
  <2>10. Knows' /\ Doing' BY <1>1, <2>6 DEF Knows, Doing
  <2> QED BY <2>7, <2>8, <2>9, <2>10 DEF IInv
<1> QED BY <1>1, <1>2, <1>3

(***************************************************************************)
(* Abort, recovery and the end of the process.                              *)
(***************************************************************************)
LEMMA AbortKeeps ==
    ASSUME IInv, Abort
    PROVE  IInv'
<1> DEFINE k == SetReplacement(mem, "Aborting")
           next == Start("abort", "quiesce")
<1>1. /\ Save(k, next) /\ UNCHANGED <<os, attached, instance>> /\ Pending(mem)
  BY DEF Abort
<1>2. /\ k \in Journal /\ k.repl.phase = "Aborting" /\ SameReplacement(mem, k)
      /\ k.phase = mem.phase /\ k.op = mem.op /\ k.repl.guard = mem.repl.guard
  BY Facts, PhaseFields DEF ReplacementPhases
<1>3. next \in Job /\ next.at = "quiesce" /\ next.does = "abort"
  BY StartFields DEF Labels
<1> HIDE DEF k, next
<1>4. Pending(k) BY <1>2 DEF Pending, Final
<1>5. mem' = k /\ disk' = k /\ job' = next => Knows' /\ Doing'
  BY <1>2, <1>3, <1>4 DEF Knows, Doing, Pending
<1>6. mem.repl.guard # "Restored" /\ mem.phase # "Clean" BY <1>1 DEF IInv, Sound, Valid
<1>7. os.guard # None \/ Held(k) BY <1>1, <1>2 DEF IInv, Sound, Held
<1> QED BY <1>1, <1>2, <1>3, <1>4, <1>5, <1>6, <1>7, GuardedSave

LEMMA CleanFields ==
    ASSUME IInv
    PROVE  LET j == Disconnected(mem)
           IN  j \in Journal /\ j.repl = mem.repl /\ j.phase = "Clean" /\ j.op = None
<1> DEFINE j == Disconnected(mem)
           d == [mem.dev EXCEPT !.state = IF @ = "InUse" THEN "Idle" ELSE @]
<1>1. d \in DeviceRecord BY Facts DEF Journal, DeviceRecord
<1>2. j = [phase |-> "Clean", op |-> None, step |-> NoSteps, repl |-> mem.repl, dev |-> d]
  BY DEF Disconnected
<1>3. NoSteps \in [Kinds -> StepStates] /\ mem.repl \in Replacement
  BY Facts DEF NoSteps, StepStates, Journal
<1> HIDE DEF d, j
<1>4. j \in Journal /\ j.repl = mem.repl /\ j.phase = "Clean" /\ j.op = None
  BY <1>1, <1>2, <1>3, Facts DEF Journal, RecoveryPhases
<1> QED BY <1>4 DEF j

\* Without a pending replacement there is no guard, and none comes.
LEMMA Unguarded ==
    ASSUME IInv, ~Pending(mem), NEW j \in Journal, j.repl = mem.repl,
           j.phase \in {"Clean"} \cup Failed, j.phase = "Clean" => j.op = None,
           mem' = j, disk' \in {j, disk}, job' = Idle, faults' \in Nat,
           attached' \in BOOLEAN, instance' = instance,
           os' \in [ks : Ids, guard : Ids, dev : BOOLEAN], os'.guard = os.guard
    PROVE  IInv'
<1>1. ~Pending(disk) /\ os.guard = None BY DEF IInv, Ahead
<1>2. Idle \in Job /\ Idle.at = "idle" /\ Idle.does = "none" BY JobFields, Facts
<1>3. TypeOK' BY <1>2, Facts DEF TypeOK
<1>4. ~Pending(mem') /\ ~Pending(disk') BY <1>1 DEF Pending
<1>5. Sound(mem)' /\ Sound(disk)'
  <2>1. Valid(j) BY DEF IInv, Sound, Valid, Pending
  <2>2. Valid(disk) /\ Named(disk) BY DEF IInv, Sound
  <2>3. Valid(mem)' /\ Valid(disk)' BY <2>1, <2>2 DEF Valid, Pending
  <2>4. Named(mem)' /\ Named(disk)' BY <1>4, <2>2 DEF Named, Pending
  <2>5. SharedBy(mem)' /\ SharedBy(disk)' /\ Held(mem)' /\ Held(disk)'
    BY <1>4 DEF SharedBy, Held, Pending
  <2> QED BY <2>3, <2>4, <2>5 DEF Sound
<1>6. Ahead'
  <2>1. mem'.repl.guard = "Restored" BY <1>4, <1>5 DEF Sound, Valid, Pending
  <2> QED BY <1>1, <1>4, <2>1 DEF Ahead, Pending
<1>7. Knows' /\ Doing' BY <1>2 DEF Knows, Doing
<1> QED BY <1>3, <1>5, <1>6, <1>7 DEF IInv

LEMMA RecoverKeeps ==
    ASSUME IInv, Recover
    PROVE  IInv'
<1>1. ~Pending(mem) /\ job' = Idle /\ instance' = instance
  BY DEF Recover, RecoverAllowed
<1>2. CASE /\ mem' = Disconnected(mem) /\ disk' = Disconnected(mem)
           /\ os' = [os EXCEPT !.ks = None] /\ attached' = FALSE /\ faults' = faults
  <2>1. os' \in [ks : Ids, guard : Ids, dev : BOOLEAN] /\ os'.guard = os.guard
    BY <1>2, Facts
  <2> DEFINE j == Disconnected(mem)
  <2>2. j \in Journal /\ j.repl = mem.repl /\ j.phase = "Clean" /\ j.op = None
    BY CleanFields
  <2> HIDE DEF j
  <2>3. mem' = j /\ disk' = j BY <1>2 DEF j
  <2> QED BY <1>1, <1>2, <2>1, <2>2, <2>3, Facts, Unguarded
<1>3. ASSUME NEW done \in SUBSET Restorable, mem' = Unfinished(done),
             disk' \in {disk, Unfinished(done)}, os' = [os EXCEPT !.ks = None] \/ os' = os,
             attached' = (attached /\ "PacketSession" \notin done), Fault
      PROVE  IInv'
  <2>1. os' \in [ks : Ids, guard : Ids, dev : BOOLEAN] /\ os'.guard = os.guard
    BY <1>3, Facts
  <2> DEFINE j == Unfinished(done)
             steps == [k \in Kinds |-> IF k \in done THEN "Restored" ELSE mem.step[k]]
  <2>2. steps \in [Kinds -> StepStates] BY Facts DEF Journal, StepStates
  <2>3. j = [mem EXCEPT !.phase = "RecoveryRequired", !.step = steps] BY DEF Unfinished
  <2> HIDE DEF j, steps
  <2>4. j \in Journal /\ j.repl = mem.repl /\ j.phase = "RecoveryRequired"
    BY <2>2, <2>3, Facts DEF Journal, RecoveryPhases
  <2>5. mem' = j /\ disk' \in {j, disk} BY <1>3 DEF j
  <2>6. attached' \in BOOLEAN /\ faults' \in Nat BY <1>3, Facts DEF Fault
  <2>7. j.phase \in {"Clean"} \cup Failed /\ j.phase # "Clean" BY <2>4 DEF Failed
  <2> QED BY <1>1, <2>1, <2>4, <2>5, <2>6, <2>7, Unguarded
<1> QED BY <1>2, <1>3 DEF Recover

(***************************************************************************)
(* Startup.                                                                 *)
(***************************************************************************)
LEMMA InspectStartupKeeps ==
    ASSUME IInv, InspectStartup
    PROVE  IInv'
<1>1. /\ job.at = "inspect" /\ UNCHANGED <<mem, disk, os, attached, instance>>
      /\ \/ job' = Idle \/ job' = At("recover")
         \/ job' = At("quarantine") /\ mem.phase = "Active"
      /\ faults' \in Nat
  BY Facts DEF InspectStartup, Fault
<1>2. job.does = "startup" BY <1>1 DEF IInv, Knows
<1>3. Idle \in Job /\ Idle.at = "idle" /\ Idle.does = "none" BY JobFields, Facts
<1>4. \A l \in Startup : At(l) \in Job /\ At(l).at = l /\ At(l).does = "startup"
  BY <1>2, JobFields, Facts DEF Labels
<1>5. job' \in Job BY <1>1, <1>3, <1>4
<1>6. Knows' /\ Doing' BY <1>1, <1>3, <1>4 DEF Knows, Doing
<1>7. attached' \in BOOLEAN BY <1>1, Facts
<1> QED BY <1>1, <1>5, <1>6, <1>7, Looks

\* The failed inspection renames the phase and changes nothing else.
LEMMA QuarantineKeeps ==
    ASSUME IInv, Quarantine
    PROVE  IInv'
<1> DEFINE k == SetPhase(mem, "Quarantined")
<1>1. /\ Save(k, Idle) /\ UNCHANGED <<os, attached, instance>> /\ mem.phase = "Active"
  BY DEF Quarantine, IInv, Knows
<1>2. k \in Journal /\ k.phase = "Quarantined" /\ k.op = mem.op /\ k.repl = mem.repl
  BY Facts DEF SetPhase, Journal, RecoveryPhases
<1> HIDE DEF k
<1>3. Sound(k)
  <2>1. Valid(k) BY <1>1, <1>2 DEF IInv, Sound, Valid, Pending
  <2>2. SharedBy(k) BY <1>2 DEF IInv, Sound, SharedBy, Pending
  <2>3. Named(k) BY <1>1, <1>2 DEF IInv, Sound, Named, Pending, Failed
  <2>4. os.guard = None => Held(k) BY <1>1, <1>2 DEF IInv, Sound, Held, Pending
  <2> QED BY <2>1, <2>2, <2>3, <2>4 DEF Sound
<1>4. Idle \in Job /\ Idle.at = "idle" /\ Idle.does = "none" BY JobFields, Facts
<1>5. job' = Idle => Knows' /\ Doing' BY <1>4 DEF Knows, Doing
<1>6. (Pending(disk) => Pending(k)) /\ (k.repl.guard = "Applied" => Pending(disk))
  BY <1>2 DEF IInv, Ahead, Pending
<1>7. attached' \in BOOLEAN BY <1>1, Facts
<1> QED BY <1>1, <1>2, <1>3, <1>4, <1>5, <1>6, <1>7, Saves

LEMMA ReconcileStartupKeeps ==
    ASSUME IInv, ReconcileStartup
    PROVE  IInv'
<1>1. /\ ~Pending(mem) /\ job' = Idle /\ UNCHANGED <<os, attached, instance>>
  BY DEF ReconcileStartup, Reconcilable
<1>2. CASE mem' = Disconnected(mem) /\ disk' = Disconnected(mem) /\ faults' = faults
  <2> DEFINE j == Disconnected(mem)
  <2>1. j \in Journal /\ j.repl = mem.repl /\ j.phase = "Clean" /\ j.op = None
    BY CleanFields
  <2> HIDE DEF j
  <2>2. mem' = j /\ disk' = j BY <1>2 DEF j
  <2> QED BY <1>1, <1>2, <2>1, <2>2, Facts, Unguarded
<1>3. CASE UNCHANGED <<mem, disk>> /\ Fault
  <2>1. faults' \in Nat /\ attached' \in BOOLEAN BY <1>1, <1>3, Facts DEF Fault
  <2> QED BY <1>1, <1>3, <2>1, Ends
<1> QED BY <1>2, <1>3 DEF ReconcileStartup

LEMMA RestartKeeps ==
    ASSUME IInv, Restart
    PROVE  IInv'
<1>1. /\ mem' = disk /\ disk' = disk /\ attached' = FALSE
      /\ job' = Start("startup", "inspect")
      /\ instance' = instance + 1 /\ faults' = faults
  BY DEF Restart
<1>2. PICK dev \in {FALSE, os.dev} :
        os' = [os EXCEPT !.ks = IF @ \in KillSwitch THEN @ ELSE None, !.dev = dev]
  BY DEF Restart
<1>3. /\ os' \in [ks : Ids, guard : Ids, dev : BOOLEAN] /\ os'.guard = os.guard
      /\ os.ks \in KillSwitch => os'.ks \in KillSwitch
  BY <1>2, Facts
<1>4. job' \in Job /\ job'.at = "inspect" /\ job'.does = "startup"
  BY <1>1, StartFields DEF Labels
<1>5. TypeOK'
  <2>1. instance' \in Nat /\ faults' \in Nat BY <1>1, Facts
  <2>2. mem' \in Journal /\ disk' \in Journal /\ job' \in Job /\ attached' \in BOOLEAN
    BY <1>1, <1>4, Facts
  <2> QED BY <1>3, <2>1, <2>2 DEF TypeOK
<1>6. Sound(mem)' /\ Sound(disk)'
  <2>1. Valid(disk) /\ SharedBy(disk) /\ Named(disk) /\ (os.guard = None => Held(disk))
    BY DEF IInv, Sound
  <2>2. os'.guard = None => Held(mem)' /\ Held(disk)' BY <1>1, <1>3, <2>1 DEF Held, Pending
  <2> QED BY <1>1, <2>1, <2>2 DEF Sound, Valid, SharedBy, Named, Pending, LeftOut
<1>7. Ahead' BY <1>1, <1>3 DEF IInv, Ahead, Sound, Valid, Pending
<1>8. Knows' /\ Doing' BY <1>1, <1>4 DEF Knows, Doing
<1> QED BY <1>5, <1>6, <1>7, <1>8 DEF IInv

(***************************************************************************)
(* The theorems.                                                            *)
(***************************************************************************)
LEMMA Initially == Init => IInv
<1> SUFFICES ASSUME Init PROVE IInv OBVIOUS
<1> DEFINE j == [phase |-> "Active", op |-> Source, step |-> [k \in Kinds |-> "Applied"],
                 dev |-> [inst |-> 1, state |-> "InUse"], repl |-> NoReplacement]
<1>1. /\ mem = j /\ disk = j /\ os = [ks |-> Source, guard |-> None, dev |-> TRUE]
      /\ attached = TRUE /\ instance = 1 /\ job = Idle /\ faults = 0
  BY DEF Init
<1>2. Idle \in Job /\ Idle.at = "idle" /\ Idle.does = "none" BY DEF Idle, Job, Labels
<1>3. j \in Journal /\ j.phase = "Active" /\ j.repl = NoReplacement
  <2>1. NoReplacement \in Replacement
    BY DEF NoReplacement, Replacement, Ids, ReplacementPhases
  <2>2. [inst |-> 1, state |-> "InUse"] \in DeviceRecord BY DEF DeviceRecord
  <2>3. [k \in Kinds |-> "Applied"] \in [Kinds -> StepStates] BY DEF StepStates
  <2>4. Source \in Ids BY DEF Ids
  <2> QED BY <2>1, <2>2, <2>3, <2>4 DEF Journal, RecoveryPhases
<1> HIDE DEF j
<1>4. TypeOK
  <2>1. os \in [ks : Ids, guard : Ids, dev : BOOLEAN] BY <1>1 DEF Ids
  <2> QED BY <1>1, <1>2, <1>3, <2>1 DEF TypeOK
<1>5. ~Pending(j) /\ j.repl.guard = "Restored" /\ j.repl.exclusions = {}
  BY <1>3 DEF Pending, Final, NoReplacement
<1>6. Sound(j) BY <1>3, <1>5 DEF Sound, Valid, SharedBy, Named, Held
<1>7. Ahead BY <1>1, <1>5 DEF Ahead
<1>8. Knows /\ Doing BY <1>1, <1>2 DEF Knows, Doing
<1> QED BY <1>1, <1>4, <1>6, <1>7, <1>8 DEF IInv

LEMMA StutterKeeps ==
    ASSUME IInv, UNCHANGED vars
    PROVE  IInv'
  BY DEF vars, IInv, TypeOK, Sound, Valid, SharedBy, Named, Held, Ahead, Knows, Doing, Arrived,
         Pending, LeftOut

LEMMA HandlerKeeps ==
    ASSUME IInv, Handler
    PROVE  IInv'
  BY IntendAgainKeeps, InstallGuardKeeps, RecordGuardKeeps, ReadbackKeeps, QuiesceKeeps,
     RestoreStepKeeps, RecordRestoreKeeps, RequireRecoveryKeeps, ClearStepsKeeps,
     CheckDeviceKeeps, RetireDeviceKeeps, NativeDeviceKeeps, ForgetDeviceKeeps,
     IntendDeviceKeeps, RecordDeviceKeeps, BeginTargetKeeps, PrepareKeeps, PushStepKeeps,
     ApplyStepKeeps, RecordStepKeeps, FinishStepsKeeps, RecordPreparedKeeps,
     ResumeSessionKeeps, CompleteKeeps, ReleaseGuardKeeps, RecordReleaseKeeps,
     InspectStartupKeeps, QuarantineKeeps, ReconcileStartupKeeps
  DEF Handler

LEMMA NextKeeps == IInv /\ [Next]_vars => IInv'
  BY NewReplacementKeeps, SameRequestKeeps, HandlerKeeps, OpenSessionKeeps, CloseSessionKeeps,
     ReleaseLeaseKeeps, ResumeTunnelKeeps, CommitKeeps, CommitAgainKeeps, AbortKeeps,
     RecoverKeeps, RestartKeeps, StutterKeeps
  DEF Next

\* The inductive invariant holds in every reachable state of replacement.rs.
THEOREM ReplacementInvariance == Spec => []IInv
  BY Initially, NextKeeps, PTL DEF Spec

\* While replace_tunnel, commit and abort_replacement take a tunnel with the kill
\* switch to another one, some policy blocks the traffic outside a tunnel, and the
\* guard's exceptions are exactly the addresses that every tunnel of the chain
\* leaves out: whatever the plans are, whichever saves and native calls fail, and
\* whenever the process ends.
THEOREM ReplacementDoesNotLeak == Spec => []NoLeakDuringReplacement
<1>1. IInv => NoLeakDuringReplacement
  <2> SUFFICES ASSUME IInv PROVE NeverExposed /\ ExactlyShared
    BY DEF NoLeakDuringReplacement
  <2>1. SharedBy(disk) /\ (os.guard = None => Held(disk)) BY DEF IInv, Sound
  <2> QED BY <2>1, Facts DEF NeverExposed, ExactlyShared, Held
<1> QED BY <1>1, ReplacementInvariance, PTL

\* A guard in the packet filter is always accounted for by a pending replacement
\* in the journal file, and validate accepts the journal in memory and the file.
THEOREM GuardsAreRecorded == Spec => []GuardIsRecorded
<1>1. IInv => GuardIsRecorded BY DEF IInv, Ahead, Sound, GuardIsRecorded
<1> QED BY <1>1, ReplacementInvariance, PTL

\* No step but ReleaseGuard takes the guard out of the filter.
LEMMA OnlyReleaseDropsGuard ==
    ASSUME IInv, [Next]_vars, os.guard # None, os'.guard = None
    PROVE  ReleaseGuard
<1> SUFFICES ASSUME ~ReleaseGuard PROVE FALSE OBVIOUS
<1>1. os' # os OBVIOUS
<1>2. \/ InstallGuard \/ RestoreStep \/ RemoveDevice \/ CreateDevice \/ ApplyStep
      \/ Recover \/ Restart
  BY <1>1 DEF Next, Handler, vars, NewReplacement, SameRequest, IntendAgain, RecordGuard,
     Readback, Quiesce, RecordRestore, RequireRecovery, ClearSteps, CheckDevice,
     RetireDevice, ForgetDevice, IntendDevice, RecordDevice, BeginTarget, Prepare, PushStep,
     RecordStep, FinishSteps, RecordPrepared, ResumeSession, Complete, RecordRelease,
     OpenSession, CloseSession, ReleaseLease, ResumeTunnel, Commit, CommitAgain, Abort,
     InspectStartup, Quarantine, ReconcileStartup
<1>3. CASE InstallGuard
  <2>1. Pending(mem) BY <1>3 DEF InstallGuard, IInv, Knows
  <2>2. mem.repl.op \in Operations BY <2>1 DEF IInv, Sound, Named
  <2>3. os' = [os EXCEPT !.guard = mem.repl.op] BY <1>1, <1>3 DEF InstallGuard, Native
  <2> QED BY <2>2, <2>3, Facts
<1>4. CASE RestoreStep
  <2>1. os' = [os EXCEPT !.ks = None] BY <1>1, <1>4 DEF RestoreStep
  <2> QED BY <2>1, Facts
<1>5. CASE RemoveDevice \/ CreateDevice
  <2>1. PICK dev \in BOOLEAN : os' = [os EXCEPT !.dev = dev]
    BY <1>1, <1>5 DEF RemoveDevice, CreateDevice, Native
  <2> QED BY <2>1, Facts
<1>6. CASE ApplyStep
  <2>1. os' = [os EXCEPT !.ks = mem.op] BY <1>1, <1>6 DEF ApplyStep, Native
  <2> QED BY <2>1, Facts
<1>7. CASE Recover
  <2>1. os' = [os EXCEPT !.ks = None] BY <1>1, <1>7 DEF Recover
  <2> QED BY <2>1, Facts
<1>8. CASE Restart
  <2>1. PICK dev : os' = [os EXCEPT !.ks = IF @ \in KillSwitch THEN @ ELSE None, !.dev = dev]
    BY <1>8 DEF Restart
  <2> QED BY <2>1, Facts
<1> QED BY <1>2, <1>3, <1>4, <1>5, <1>6, <1>7, <1>8

\* complete_replacement_locked and abort_replacement are the only ways the guard
\* goes: to an active target with its session, routes and policy, or after a
\* recorded abort.
THEOREM GuardGoesToTarget == Spec => GuardReleasedToTarget
<1> DEFINE Step == os.guard # None /\ os'.guard = None
                   => \/ disk.repl.phase = "Aborting"
                      \/ /\ disk.repl.phase = "Committing" /\ disk.phase = "Active"
                         /\ disk.op = disk.repl.op /\ attached
                         /\ disk.step["DefaultRoutes"] = "Applied"
                         /\ Protected(disk.op) => os.ks = disk.op
<1>1. IInv /\ [Next]_vars => Step
  <2> SUFFICES ASSUME IInv, [Next]_vars, os.guard # None, os'.guard = None
               PROVE  Step
    OBVIOUS
  <2>1. job.at = "release" BY OnlyReleaseDropsGuard DEF ReleaseGuard
  <2>2. job.does \in {"commit", "abort"} BY <2>1 DEF IInv, Knows
  <2>3. job.does = "abort" => disk.repl.phase = "Aborting" BY DEF IInv, Doing
  <2>4. job.does = "commit" => disk = mem /\ attached /\ Arrived(mem)
    BY <2>1 DEF IInv, Doing
  <2> QED BY <2>2, <2>3, <2>4 DEF Arrived
<1>2. IInv /\ [Next]_vars => [Step]_vars BY <1>1
<1> QED BY <1>2, ReplacementInvariance, PTL DEF Spec, GuardReleasedToTarget
=============================================================================
