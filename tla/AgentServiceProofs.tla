-------------------------- MODULE AgentServiceProofs --------------------------
(***************************************************************************)
(* What runs beside the operations in the Agent's pipe service: the leases  *)
(* for direct egress and the supervisor of automatic recovery.              *)
(*                                                                          *)
(* NoStalePermit and LeaseHasPermit hold for every set of pipes and         *)
(* operations, any number of changes of the network and any capacity.       *)
(***************************************************************************)
EXTENDS DirectEgress, RecoverySupervisor, FiniteSetTheorems, TLAPS

Generations == 1 .. MaxGeneration
Labels == {"idle", "observe", "acquire", "invalidate", "invalidate first",
           "lock", "insert", "recheck", "clear recovered"}

TypeInv ==
    /\ operation \in Operations \union {None}
    /\ answered \in SUBSET Operations
    /\ network \in Generations /\ seen \in Generations /\ seen <= network
    /\ registry \in [Keys -> Nat]
    /\ locked \in Pipes \union {None} /\ gate \in Pipes \union {None}
    /\ at \in [Pipes -> Labels \union Operations]
    /\ noted \in [Pipes -> 0 .. MaxGeneration]
    /\ lease \in [Pipes -> Keys \union {NoKey}]
    /\ dropped \in SUBSET Keys

\* An observer that has still to invalidate the permits before its network.
Invalidating(q) == at[q] \in {"invalidate", "invalidate first"}
Superseded(g) == \E q \in Pipes : Invalidating(q) /\ noted[q] > g

\* The locks, and what a handler knows while it holds them.
Held(p) ==
    /\ gate = p <=> at[p] \in {"acquire", "invalidate first", "lock", "insert", "recheck"}
    /\ gate = p => operation \in answered /\ lease[p] = NoKey
    /\ at[p] \in {"invalidate", "invalidate first", "lock", "insert", "recheck"} =>
          noted[p] \in 1 .. seen
    /\ at[p] \in {"insert", "recheck"} => locked = p
    /\ at[p] \in {"insert", "recheck"} => noted[p] = seen \/ Superseded(noted[p])
Holding == \A p \in Pipes : Held(p)

\* A permit is of the network that was seen last, or somebody is about to
\* revoke it.
Fresh ==
    \A k \in Keys : registry[k] > 0 => k.gen = seen \/ Superseded(k.gen)

\* Operations are used once, and leases are of operations that were answered.
Once ==
    /\ \A p \in Pipes : at[p] \in Operations =>
          at[p] \notin answered /\ \A q \in Pipes \ {p} : at[q] # at[p]
    /\ operation # None => operation \in answered \/ \E p \in Pipes : at[p] = operation
    /\ \A p \in Pipes : lease[p] # NoKey => lease[p].op \in answered /\ lease[p].gen <= seen

\* The pipes that a permit is for: those with a lease, and the one that is
\* about to get it.
Holders(k) ==
    {p \in Pipes : lease[p] = k \/ (at[p] = "recheck" /\ Key(p) = k)}

Referenced ==
    \A k \in Keys :
        k.op = operation /\ k.gen = seen /\ k \notin dropped
        => registry[k] >= Cardinality(Holders(k))

IInv == TypeInv /\ Holding /\ Fresh /\ Once /\ Referenced

-----------------------------------------------------------------------------
USE DEF None

\* The constants as the steps need them.
LEMMA Constants ==
    /\ MaxGeneration \in Nat \ {0} /\ None \notin Pipes /\ None \notin Operations
    /\ Operations \cap Labels = {}
    /\ Generations \subseteq Nat /\ 1 \in Generations
    /\ \A k \in Keys : k.gen \in Generations /\ k.op \in Operations /\ k # NoKey
<1>1. MaxGeneration \in Nat \ {0}
  BY EgressAssumption
<1>2. None \notin Pipes /\ None \notin Operations /\ Operations \cap Labels = {}
  BY EgressAssumption DEF Labels
<1>3. Generations \subseteq Nat /\ 1 \in Generations
  BY <1>1 DEF Generations
<1>4. ASSUME NEW k \in Keys
      PROVE  k.gen \in Generations /\ k.op \in Operations /\ k # NoKey
  BY <1>2 DEF Keys, NoKey, Generations
<1> QED BY <1>1, <1>2, <1>3, <1>4

\* How many pipes there are for a permit.
LEMMA HoldersFinite ==
    \A S \in SUBSET Pipes : IsFiniteSet(S) /\ Cardinality(S) \in Nat
  BY EgressAssumption, FS_Subset, FS_CardinalityType

LEMMA InitIInv == Init => IInv
<1> SUFFICES ASSUME Init PROVE IInv
  OBVIOUS
<1>1. TypeInv
  <2>1. registry \in [Keys -> Nat] /\ at \in [Pipes -> Labels \union Operations]
    BY DEF Init, Labels
  <2>2. lease \in [Pipes -> Keys \union {NoKey}]
    BY DEF Init
  <2>3. 0 \in 0 .. MaxGeneration
    BY Constants
  <2>4. noted \in [Pipes -> 0 .. MaxGeneration]
    BY <2>3 DEF Init
  <2> QED BY <2>1, <2>2, <2>4, Constants DEF Init, TypeInv
<1>2. Holding /\ Once
  BY Constants DEF Init, Holding, Held, Once, Labels
<1>3. Fresh
  BY Constants DEF Init, Fresh
<1>4. \A k \in Keys : Holders(k) = {}
  BY Constants DEF Init, Holders
<1>5. Referenced
  BY <1>4, FS_EmptySet DEF Init, Referenced
<1> QED BY <1>1, <1>2, <1>3, <1>5 DEF IInv

LEMMA NetworkChangesKeeps == IInv /\ NetworkChanges => IInv'
<1> SUFFICES ASSUME IInv, NetworkChanges PROVE IInv'
  OBVIOUS
<1>1. TypeInv'
  BY Constants DEF IInv, TypeInv, NetworkChanges, Generations
<1>2. (Holding /\ Fresh /\ Once)'
  BY DEF IInv, Holding, Held, Fresh, Once, Superseded, Invalidating, NetworkChanges
<1>3. Referenced'
  BY DEF IInv, Referenced, Holders, Key, NetworkChanges
<1> QED BY <1>1, <1>2, <1>3 DEF IInv

\* What a step keeps when it neither moves a pipe from or to one of the labels
\* that the observers, the permits or the operations depend on.
Plain == {"idle", "observe", "acquire", "lock", "clear recovered"}
LEMMA MoveKeeps ==
    ASSUME IInv, NEW p \in Pipes, NEW l \in Plain,
           at[p] \in Plain, at' = [at EXCEPT ![p] = l],
           UNCHANGED <<operation, answered, network, seen, registry, noted, lease, dropped>>
    PROVE  /\ at' \in [Pipes -> Labels \union Operations]
           /\ \A g : Superseded(g)' <=> Superseded(g)
           /\ Fresh' /\ Once' /\ Referenced'
           /\ at'[p] = l /\ \A q \in Pipes \ {p} : at'[q] = at[q]
<1>1. at' \in [Pipes -> Labels \union Operations]
  BY DEF IInv, TypeInv, Labels, Plain
<1>2. at'[p] = l /\ \A q \in Pipes \ {p} : at'[q] = at[q]
  BY DEF IInv, TypeInv
<1>3. \A q \in Pipes : Invalidating(q)' <=> Invalidating(q)
  BY <1>2 DEF Invalidating, Plain
<1>4. \A g : Superseded(g)' <=> Superseded(g)
  BY <1>3 DEF Superseded
<1>5. Fresh'
  BY <1>4 DEF IInv, Fresh
<1>6. Once'
  <2>1. at[p] \notin Operations /\ at'[p] \notin Operations
    BY <1>2, Constants DEF Plain, Labels
  <2>2. operation \in Operations \union {None}
    BY DEF IInv, TypeInv
  <2> QED BY <1>2, <2>1, <2>2 DEF IInv, Once
<1>7. Referenced'
  <2>1. \A q \in Pipes : at'[q] = "recheck" <=> at[q] = "recheck"
    BY <1>2 DEF Plain
  <2>2. \A k : Holders(k)' = Holders(k)
    BY <2>1 DEF Holders, Key
  <2> QED BY <2>2 DEF IInv, Referenced
<1> QED BY <1>1, <1>2, <1>4, <1>5, <1>6, <1>7

LEMMA AskKeeps == ASSUME NEW p \in Pipes PROVE IInv /\ Ask(p) => IInv'
<1> SUFFICES ASSUME IInv, Ask(p) PROVE IInv'
  OBVIOUS
<1>1. /\ at[p] = "idle" /\ at' = [at EXCEPT ![p] = "observe"]
      /\ UNCHANGED <<operation, answered, network, seen, registry, locked, gate, noted, lease, dropped>>
  BY DEF Ask, Goto
<1>2. /\ at' \in [Pipes -> Labels \union Operations]
      /\ \A g : Superseded(g)' <=> Superseded(g)
      /\ Fresh' /\ Once' /\ Referenced'
      /\ at'[p] = "observe" /\ \A q \in Pipes \ {p} : at'[q] = at[q]
  BY <1>1, MoveKeeps DEF Plain
<1>3. TypeInv'
  BY <1>1, <1>2 DEF IInv, TypeInv
<1>4. Holding'
  BY <1>1, <1>2 DEF IInv, Holding, Held
<1> QED BY <1>2, <1>3, <1>4 DEF IInv

\* Whoever sees a new network is on its way to revoke the permits before it.
LEMMA ObserveKeeps == ASSUME NEW p \in Pipes PROVE IInv /\ Observe(p) => IInv'
<1> SUFFICES ASSUME IInv, Observe(p) PROVE IInv'
  OBVIOUS
<1> DEFINE label == IF gate = p THEN IF seen # network THEN "invalidate first" ELSE "lock"
                    ELSE IF seen # network THEN "invalidate" ELSE "idle"
<1>1. /\ at \in [Pipes -> Labels \union Operations] /\ noted \in [Pipes -> 0 .. MaxGeneration]
      /\ seen \in Generations /\ network \in Generations /\ seen <= network
  BY DEF IInv, TypeInv
<1>2. /\ at[p] \in {"observe", "acquire"}
      /\ at' = [at EXCEPT ![p] = label]
      /\ noted' = [noted EXCEPT ![p] = network] /\ seen' = network
      /\ UNCHANGED <<operation, answered, network, registry, locked, gate, lease, dropped>>
  BY DEF Observe, Goto
<1>3. /\ seen \in Nat \ {0} /\ network \in Nat \ {0} /\ network \in 0 .. MaxGeneration
  BY <1>1, Constants DEF Generations
<1>4. /\ at'[p] = label /\ noted'[p] = network
      /\ \A q \in Pipes \ {p} : at'[q] = at[q] /\ noted'[q] = noted[q]
  BY <1>1, <1>2
<1>5. /\ label \in {"invalidate first", "invalidate", "lock", "idle"}
      /\ seen # network => label \in {"invalidate first", "invalidate"}
      /\ gate = p => label \in {"invalidate first", "lock"}
      /\ gate # p => label \in {"invalidate", "idle"}
  OBVIOUS
<1> HIDE DEF label
<1>6. TypeInv'
  <2>1. at' \in [Pipes -> Labels \union Operations]
    BY <1>1, <1>2, <1>5 DEF Labels
  <2>2. noted' \in [Pipes -> 0 .. MaxGeneration]
    BY <1>1, <1>2, <1>3
  <2> QED BY <1>1, <1>2, <1>3, <2>1, <2>2 DEF IInv, TypeInv
<1>7. ASSUME NEW g \in Nat, g = seen \/ Superseded(g), g <= seen
      PROVE  g = network \/ \E q \in Pipes : Invalidating(q)' /\ noted'[q] > g
  <2>1. CASE Superseded(g)
    <3>1. PICK q \in Pipes : Invalidating(q) /\ noted[q] > g
      BY <2>1 DEF Superseded
    <3>2. q # p
      BY <3>1, <1>2 DEF Invalidating
    <3> QED BY <3>1, <3>2, <1>4 DEF Invalidating
  <2>2. CASE g = seen /\ seen # network
    <3>1. network > g
      BY <2>2, <1>1, <1>3
    <3>2. Invalidating(p)' /\ noted'[p] > g
      BY <2>2, <3>1, <1>4, <1>5 DEF Invalidating
    <3> QED BY <3>2
  <2>3. CASE g = seen /\ seen = network
    BY <2>3
  <2> QED BY <1>7, <2>1, <2>2, <2>3
<1>8. ASSUME NEW q \in Pipes PROVE Held(q)'
  <2>1. CASE q = p
    <3>1. gate = p <=> at[p] = "acquire"
      BY <1>2 DEF IInv, Holding, Held
    <3>2. network \in 1 .. network
      BY <1>3
    <3> QED BY <2>1, <3>1, <3>2, <1>2, <1>4, <1>5 DEF IInv, Holding, Held
  <2>2. CASE q # p
    <3>1. at'[q] = at[q] /\ noted'[q] = noted[q]
      BY <2>2, <1>4
    <3>2. Held(q) /\ noted[q] \in Nat
      BY <1>1 DEF IInv, Holding
    <3>3. noted[q] \in 1 .. seen => noted[q] \in 1 .. network
      BY <1>1, <1>3
    <3>4. at[q] \in {"insert", "recheck"} => noted[q] = network \/ Superseded(noted[q])'
      <4>1. SUFFICES ASSUME at[q] \in {"insert", "recheck"}
                     PROVE  noted[q] = network \/ Superseded(noted[q])'
        OBVIOUS
      <4>2. noted[q] \in 1 .. seen /\ (noted[q] = seen \/ Superseded(noted[q]))
        BY <3>2, <4>1 DEF Held
      <4>3. noted[q] <= seen /\ (noted[q] = seen \/ Superseded(noted[q]))
        BY <4>2, <1>3, <3>2
      <4>4. noted[q] = network \/ \E r \in Pipes : Invalidating(r)' /\ noted'[r] > noted[q]
        BY <1>7, <3>2, <4>3
      <4> QED BY <3>1, <4>4 DEF Superseded
    <3> QED BY <1>2, <3>1, <3>2, <3>3, <3>4 DEF Held
  <2> QED BY <2>1, <2>2
<1>9. Fresh'
  <2>1. \A k \in Keys : registry[k] > 0 => k.gen \in Nat /\ k.gen <= seen
    <3>1. \A q \in Pipes : Invalidating(q) => noted[q] \in 1 .. seen
      BY DEF IInv, Holding, Held, Invalidating
    <3> QED BY <3>1, <1>3, Constants DEF IInv, Fresh, Superseded, Generations
  <2> QED BY <1>2, <1>7, <2>1 DEF IInv, Fresh, Superseded
<1>10. Once'
  <2>1. \A q \in Pipes : lease[q] # NoKey => lease[q].gen \in Nat
    BY Constants DEF IInv, TypeInv, Generations
  <2>2. at[p] \notin Operations /\ at'[p] \notin Operations
    BY <1>2, <1>4, <1>5, Constants DEF Labels
  <2>3. \A q \in Pipes : at'[q] \in Operations <=> at[q] \in Operations
    BY <1>4, <2>2
  <2>4. \A q \in Pipes : at[q] \in Operations => at'[q] = at[q]
    BY <1>4, <2>2
  <2>5. \A q \in Pipes : lease[q] # NoKey => lease[q].gen <= network
    BY <1>1, <1>3, <2>1 DEF IInv, Once
  <2>6. operation \in Operations \union {None}
    BY DEF IInv, TypeInv
  <2> QED BY <1>2, <2>3, <2>4, <2>5, <2>6 DEF IInv, Once
<1>11. Referenced'
  <2> SUFFICES ASSUME NEW k \in Keys, k.op = operation, k.gen = network, k \notin dropped
               PROVE  registry[k] >= Cardinality(Holders(k)')
    BY <1>2 DEF Referenced
  <2>1. \A q \in Pipes : at'[q] = "recheck" <=> at[q] = "recheck" /\ q # p
    BY <1>2, <1>4, <1>5
  <2>2. CASE seen = network
    <3>1. Holders(k)' = Holders(k)
      BY <1>2, <1>4, <2>1 DEF Holders, Key
    <3> QED BY <2>2, <3>1 DEF IInv, Referenced
  <2>3. CASE seen # network
    <3>1. ASSUME NEW q \in Pipes PROVE lease[q] # k
      BY <2>3, <1>1, <1>3, Constants DEF IInv, Once
    <3>2. ASSUME NEW q \in Pipes, at[q] = "recheck" PROVE noted[q] # network
      <4>1. noted[q] \in 1 .. seen
        BY <3>2 DEF IInv, Holding, Held
      <4> QED BY <2>3, <4>1, <1>1, <1>3
    <3>3. Holders(k)' = {}
      BY <1>2, <1>4, <2>1, <3>1, <3>2 DEF Holders, Key
    <3> QED BY <3>3, FS_EmptySet DEF IInv, TypeInv
  <2> QED BY <2>2, <2>3
<1> QED BY <1>6, <1>8, <1>9, <1>10, <1>11 DEF IInv, Holding

LEMMA AcquireKeeps == ASSUME NEW p \in Pipes PROVE IInv /\ Acquire(p) => IInv'
<1> SUFFICES ASSUME IInv, Acquire(p) PROVE IInv'
  OBVIOUS
<1>1. /\ at[p] = "idle" /\ gate = None /\ lease[p] = NoKey /\ operation \in answered
      /\ gate' = p /\ at' = [at EXCEPT ![p] = "acquire"]
      /\ UNCHANGED <<operation, answered, network, seen, registry, locked, noted, lease, dropped>>
  BY DEF Acquire, Goto
<1>2. /\ at' \in [Pipes -> Labels \union Operations]
      /\ \A g : Superseded(g)' <=> Superseded(g)
      /\ Fresh' /\ Once' /\ Referenced'
      /\ at'[p] = "acquire" /\ \A q \in Pipes \ {p} : at'[q] = at[q]
  BY <1>1, MoveKeeps DEF Plain
<1>3. TypeInv'
  BY <1>1, <1>2 DEF IInv, TypeInv
<1>4. ASSUME NEW q \in Pipes PROVE Held(q)'
  <2>1. CASE q = p
    BY <1>1, <1>2, <2>1 DEF Held
  <2>2. CASE q # p
    BY <1>1, <1>2, <2>2, Constants DEF IInv, Holding, Held
  <2> QED BY <2>1, <2>2
<1> QED BY <1>2, <1>3, <1>4 DEF IInv, Holding

\* Lock compares the generation that was read before with the one of now.
LEMMA LockKeeps == ASSUME NEW p \in Pipes PROVE IInv /\ Lock(p) => IInv'
<1> SUFFICES ASSUME IInv, Lock(p) PROVE IInv'
  OBVIOUS
<1>1. /\ at[p] = "lock" /\ locked = None /\ gate = p
      /\ UNCHANGED <<operation, answered, network, seen, registry, noted, lease, dropped>>
  BY DEF Lock, IInv, Holding, Held
<1>2. CASE noted[p] # seen
  <2>1. at' = [at EXCEPT ![p] = "idle"] /\ gate' = None /\ locked' = locked
    BY <1>2 DEF Lock, Refuse, Goto
  <2>2. /\ at' \in [Pipes -> Labels \union Operations]
        /\ \A g : Superseded(g)' <=> Superseded(g)
        /\ Fresh' /\ Once' /\ Referenced'
        /\ at'[p] = "idle" /\ \A q \in Pipes \ {p} : at'[q] = at[q]
    BY <1>1, <2>1, MoveKeeps DEF Plain
  <2>3. TypeInv'
    BY <1>1, <2>1, <2>2 DEF IInv, TypeInv
  <2>4. ASSUME NEW q \in Pipes PROVE Held(q)'
    <3>1. CASE q = p
      BY <1>1, <2>1, <2>2, <3>1, Constants DEF Held
    <3>2. CASE q # p
      BY <1>1, <2>1, <2>2, <3>2, Constants DEF IInv, Holding, Held
    <3> QED BY <3>1, <3>2
  <2> QED BY <2>2, <2>3, <2>4 DEF IInv, Holding
<1>3. CASE noted[p] = seen
  <2>1. /\ at' = [at EXCEPT ![p] = "insert"] /\ gate' = gate /\ locked' = p
        /\ at \in [Pipes -> Labels \union Operations]
    BY <1>3 DEF Lock, Goto, IInv, TypeInv
  <2>2. at'[p] = "insert" /\ \A q \in Pipes \ {p} : at'[q] = at[q]
    BY <2>1
  <2>3. TypeInv'
    <3>1. at' \in [Pipes -> Labels \union Operations]
      BY <2>1 DEF Labels
    <3> QED BY <1>1, <2>1, <3>1 DEF IInv, TypeInv
  <2>4. \A g : Superseded(g)' <=> Superseded(g)
    BY <1>1, <2>2 DEF Superseded, Invalidating
  <2>5. ASSUME NEW q \in Pipes PROVE Held(q)'
    <3>1. CASE q = p
      BY <1>1, <1>3, <2>1, <2>2, <3>1 DEF IInv, Holding, Held
    <3>2. CASE q # p
      BY <1>1, <2>1, <2>2, <2>4, <3>2, Constants DEF IInv, Holding, Held
    <3> QED BY <3>1, <3>2
  <2>6. Fresh'
    BY <1>1, <2>4 DEF IInv, Fresh
  <2>7. Once'
    <3>1. at[p] \notin Operations /\ at'[p] \notin Operations
      BY <1>1, <2>2, Constants DEF Labels
    <3>2. operation \in Operations \union {None}
      BY DEF IInv, TypeInv
    <3> QED BY <1>1, <2>2, <3>1, <3>2 DEF IInv, Once
  <2>8. Referenced'
    <3>1. \A k : Holders(k)' = Holders(k)
      BY <1>1, <2>2 DEF Holders, Key
    <3> QED BY <1>1, <3>1 DEF IInv, Referenced
  <2> QED BY <2>3, <2>5, <2>6, <2>7, <2>8 DEF IInv, Holding
<1> QED BY <1>2, <1>3

\* The permit of a key gains a holder with the reference that is counted.
LEMMA InsertKeeps == ASSUME NEW p \in Pipes PROVE IInv /\ Insert(p) => IInv'
<1> SUFFICES ASSUME IInv, Insert(p) PROVE IInv'
  OBVIOUS
<1>1. /\ at[p] = "insert" /\ locked = p /\ gate = p /\ operation \in answered
      /\ lease[p] = NoKey /\ noted[p] \in 1 .. seen
      /\ noted[p] = seen \/ Superseded(noted[p])
      /\ UNCHANGED <<operation, answered, network, seen, noted, lease, dropped>>
      /\ at \in [Pipes -> Labels \union Operations] /\ registry \in [Keys -> Nat]
      /\ \A q \in Pipes \ {p} : at[q] \notin {"insert", "recheck"}
  BY DEF Insert, IInv, TypeInv, Holding, Held
<1>2. Key(p) \in Keys /\ Key(p) # NoKey /\ Key(p).gen = noted[p]
  <2>1. noted[p] \in 1 .. MaxGeneration /\ operation \in Operations
    BY <1>1, Constants DEF IInv, TypeInv, Generations
  <2> QED BY <2>1, Constants DEF Key, Keys
<1>3. CASE locked' = None /\ registry' = registry /\ Refuse(p)
  <2>1. at' = [at EXCEPT ![p] = "idle"] /\ gate' = None
    BY <1>3 DEF Refuse, Goto
  <2>2. at'[p] = "idle" /\ \A q \in Pipes \ {p} : at'[q] = at[q]
    BY <1>1, <2>1
  <2>3. TypeInv'
    <3>1. at' \in [Pipes -> Labels \union Operations]
      BY <1>1, <2>1 DEF Labels
    <3> QED BY <1>1, <1>3, <2>1, <3>1 DEF IInv, TypeInv
  <2>4. \A g : Superseded(g)' <=> Superseded(g)
    BY <1>1, <2>2 DEF Superseded, Invalidating
  <2>5. ASSUME NEW q \in Pipes PROVE Held(q)'
    <3>1. CASE q = p
      BY <1>1, <2>1, <2>2, <3>1, Constants DEF Held
    <3>2. CASE q # p
      BY <1>1, <1>3, <2>1, <2>2, <2>4, <3>2, Constants DEF IInv, Holding, Held
    <3> QED BY <3>1, <3>2
  <2>6. Fresh'
    BY <1>1, <1>3, <2>4 DEF IInv, Fresh
  <2>7. Once'
    <3>1. at[p] \notin Operations /\ at'[p] \notin Operations
      BY <1>1, <2>2, Constants DEF Labels
    <3>2. operation \in Operations \union {None}
      BY DEF IInv, TypeInv
    <3> QED BY <1>1, <2>2, <3>1, <3>2 DEF IInv, Once
  <2>8. Referenced'
    <3>1. \A k : Holders(k)' = Holders(k)
      BY <1>1, <2>2 DEF Holders, Key
    <3> QED BY <1>1, <1>3, <3>1 DEF IInv, Referenced
  <2> QED BY <2>3, <2>5, <2>6, <2>7, <2>8 DEF IInv, Holding
<1>4. CASE /\ registry' = [registry EXCEPT ![Key(p)] = @ + 1]
           /\ Goto(p, "recheck") /\ UNCHANGED <<locked, gate>>
  <2>1. at' = [at EXCEPT ![p] = "recheck"]
    BY <1>4 DEF Goto
  <2>2. at'[p] = "recheck" /\ \A q \in Pipes \ {p} : at'[q] = at[q]
    BY <1>1, <2>1
  <2>3. /\ registry' \in [Keys -> Nat] /\ registry'[Key(p)] = registry[Key(p)] + 1
        /\ \A k \in Keys \ {Key(p)} : registry'[k] = registry[k]
    BY <1>1, <1>2, <1>4
  <2>4. TypeInv'
    <3>1. at' \in [Pipes -> Labels \union Operations]
      BY <1>1, <2>1 DEF Labels
    <3> QED BY <1>1, <1>4, <2>3, <3>1 DEF IInv, TypeInv
  <2>5. \A g : Superseded(g)' <=> Superseded(g)
    BY <1>1, <2>2 DEF Superseded, Invalidating
  <2>6. ASSUME NEW q \in Pipes PROVE Held(q)'
    <3>1. CASE q = p
      BY <1>1, <1>4, <2>2, <2>5, <3>1 DEF Held
    <3>2. CASE q # p
      BY <1>1, <1>4, <2>2, <2>5, <3>2 DEF IInv, Holding, Held
    <3> QED BY <3>1, <3>2
  <2>7. Fresh'
    BY <1>1, <1>2, <2>5, <2>3 DEF IInv, Fresh
  <2>8. Once'
    <3>1. at[p] \notin Operations /\ at'[p] \notin Operations
      BY <1>1, <2>2, Constants DEF Labels
    <3>2. operation \in Operations \union {None}
      BY DEF IInv, TypeInv
    <3> QED BY <1>1, <2>2, <3>1, <3>2 DEF IInv, Once
  <2>9. ASSUME NEW k \in Keys, k.op = operation, k.gen = seen, k \notin dropped
        PROVE  registry'[k] >= Cardinality(Holders(k)')
    <3>1. registry[k] >= Cardinality(Holders(k)) /\ registry[k] \in Nat
      BY <1>1, <2>9 DEF IInv, Referenced
    <3>2. CASE k # Key(p)
      <4>1. Holders(k)' = Holders(k)
        BY <1>1, <2>2, <3>2 DEF Holders, Key
      <4> QED BY <2>3, <3>1, <3>2, <4>1
    <3>3. CASE k = Key(p)
      <4>1. Holders(k)' = Holders(k) \union {p} /\ p \notin Holders(k)
        BY <1>1, <1>2, <2>2, <3>3 DEF Holders, Key
      <4>2. IsFiniteSet(Holders(k)) /\ Cardinality(Holders(k)) \in Nat
        BY HoldersFinite DEF Holders
      <4>3. Cardinality(Holders(k)') = Cardinality(Holders(k)) + 1
        BY <4>1, <4>2, FS_AddElement
      <4> QED BY <2>3, <3>1, <3>3, <4>2, <4>3
    <3> QED BY <3>2, <3>3
  <2>10. Referenced'
    BY <1>1, <2>9 DEF Referenced
  <2> QED BY <2>4, <2>6, <2>7, <2>8, <2>10 DEF IInv, Holding
<1> QED BY <1>3, <1>4 DEF Insert

\* A permit that came too late is given back; it was of an earlier network.
LEMMA RecheckKeeps == ASSUME NEW p \in Pipes PROVE IInv /\ Recheck(p) => IInv'
<1> SUFFICES ASSUME IInv, Recheck(p) PROVE IInv'
  OBVIOUS
<1>1. /\ at[p] = "recheck" /\ locked = p /\ gate = p /\ operation \in answered
      /\ lease[p] = NoKey /\ noted[p] \in 1 .. seen
      /\ UNCHANGED <<operation, answered, network, seen, noted, dropped>>
      /\ at \in [Pipes -> Labels \union Operations] /\ registry \in [Keys -> Nat]
      /\ lease \in [Pipes -> Keys \union {NoKey}]
      /\ at' = [at EXCEPT ![p] = "idle"] /\ gate' = None /\ locked' = None
      /\ \A q \in Pipes \ {p} : at[q] \notin {"insert", "recheck"}
  BY DEF Recheck, Refuse, Goto, IInv, TypeInv, Holding, Held
<1>2. Key(p) \in Keys /\ Key(p) # NoKey /\ Key(p).gen = noted[p] /\ Key(p).op = operation
  <2>1. noted[p] \in 1 .. MaxGeneration /\ operation \in Operations
    BY <1>1, Constants DEF IInv, TypeInv, Generations
  <2> QED BY <2>1, Constants DEF Key, Keys
<1>3. at'[p] = "idle" /\ \A q \in Pipes \ {p} : at'[q] = at[q]
  BY <1>1
<1>4. /\ registry' \in [Keys -> Nat]
      /\ \A k \in Keys : registry'[k] > 0 => registry[k] > 0
      /\ lease' \in [Pipes -> Keys \union {NoKey}]
      /\ \A q \in Pipes \ {p} : lease'[q] = lease[q]
      /\ lease'[p] \in {NoKey, Key(p)}
  BY <1>1, <1>2 DEF Recheck, Release
<1>5. TypeInv'
  <2>1. at' \in [Pipes -> Labels \union Operations]
    BY <1>1 DEF Labels
  <2> QED BY <1>1, <1>4, <2>1 DEF IInv, TypeInv
<1>6. \A g : Superseded(g)' <=> Superseded(g)
  BY <1>1, <1>3 DEF Superseded, Invalidating
<1>7. ASSUME NEW q \in Pipes PROVE Held(q)'
  <2>1. CASE q = p
    BY <1>1, <1>3, <2>1, Constants DEF Held
  <2>2. CASE q # p
    BY <1>1, <1>3, <1>4, <1>6, <2>2, Constants DEF IInv, Holding, Held
  <2> QED BY <2>1, <2>2
<1>8. Fresh'
  BY <1>1, <1>4, <1>6 DEF IInv, Fresh
<1>9. Once'
  <2>1. at[p] \notin Operations /\ at'[p] \notin Operations
    BY <1>1, <1>3, Constants DEF Labels
  <2>2. operation \in Operations \union {None}
    BY DEF IInv, TypeInv
  <2>3. \A q \in Pipes : lease'[q] # NoKey => lease'[q].op \in answered /\ lease'[q].gen <= seen
    <3>1. noted[p] <= seen
      BY <1>1 DEF IInv, TypeInv, Generations
    <3> QED BY <1>1, <1>2, <1>4, <3>1 DEF IInv, Once
  <2> QED BY <1>1, <1>3, <2>1, <2>2, <2>3 DEF IInv, Once
<1>10. ASSUME NEW k \in Keys, k.op = operation, k.gen = seen, k \notin dropped
      PROVE  registry'[k] >= Cardinality(Holders(k)')
  <2>1. registry[k] >= Cardinality(Holders(k)) /\ k # NoKey
    BY <1>10, Constants DEF IInv, Referenced
  <2>2. CASE noted[p] = seen
    <3>1. registry' = registry /\ lease'[p] = Key(p)
      BY <1>1, <2>2 DEF Recheck
    <3>2. Holders(k)' = Holders(k)
      BY <1>1, <1>3, <1>4, <2>1, <3>1 DEF Holders, Key
    <3> QED BY <2>1, <3>1, <3>2
  <2>3. CASE noted[p] # seen
    <3>1. registry'[k] = registry[k] /\ lease' = lease
      BY <1>1, <1>2, <1>10, <2>3 DEF Recheck, Release
    <3>2. Holders(k)' = Holders(k)
      BY <1>1, <1>2, <1>3, <1>10, <2>1, <2>3, <3>1 DEF Holders, Key
    <3> QED BY <2>1, <3>1, <3>2
  <2> QED BY <2>2, <2>3
<1>11. Referenced'
  BY <1>1, <1>10 DEF Referenced
<1> QED BY <1>5, <1>7, <1>8, <1>9, <1>11 DEF IInv, Holding

\* The end of a pipe gives back one reference, and its lease with it.
LEMMA EndOfPipeKeeps == ASSUME NEW p \in Pipes PROVE IInv /\ EndOfPipe(p) => IInv'
<1> SUFFICES ASSUME IInv, EndOfPipe(p) PROVE IInv'
  OBVIOUS
<1>1. /\ at[p] = "idle" /\ locked = None /\ lease[p] # NoKey /\ lease[p] \in Keys
      /\ UNCHANGED <<operation, answered, network, seen, locked, gate, at, noted, dropped>>
      /\ registry \in [Keys -> Nat] /\ lease \in [Pipes -> Keys \union {NoKey}]
      /\ lease' = [lease EXCEPT ![p] = NoKey] /\ registry' = Release(lease[p])
      /\ \A q \in Pipes : at[q] \notin {"insert", "recheck"}
  BY Constants DEF EndOfPipe, IInv, TypeInv, Holding, Held
<1>2. /\ registry' \in [Keys -> Nat]
      /\ \A k \in Keys : registry'[k] > 0 => registry[k] > 0
      /\ \A k \in Keys \ {lease[p]} : registry'[k] = registry[k]
      /\ registry[lease[p]] > 0 => registry'[lease[p]] = registry[lease[p]] - 1
      /\ lease' \in [Pipes -> Keys \union {NoKey}]
      /\ lease'[p] = NoKey /\ \A q \in Pipes \ {p} : lease'[q] = lease[q]
  BY <1>1 DEF Release
<1>3. TypeInv'
  BY <1>1, <1>2 DEF IInv, TypeInv
<1>4. \A g : Superseded(g)' <=> Superseded(g)
  BY <1>1 DEF Superseded, Invalidating
<1>5. ASSUME NEW q \in Pipes PROVE Held(q)'
  <2>1. gate # p /\ Held(q)
    BY <1>1 DEF IInv, Holding, Held
  <2>2. CASE q = p
    BY <1>1, <2>1, <2>2 DEF Held
  <2>3. CASE q # p
    BY <1>1, <1>2, <1>4, <2>1, <2>3 DEF Held
  <2> QED BY <2>2, <2>3
<1>6. Fresh'
  BY <1>1, <1>2, <1>4 DEF IInv, Fresh
<1>7. Once'
  BY <1>1, <1>2 DEF IInv, Once
<1>8. ASSUME NEW k \in Keys, k.op = operation, k.gen = seen, k \notin dropped
      PROVE  registry'[k] >= Cardinality(Holders(k)')
  <2>1. /\ registry[k] >= Cardinality(Holders(k)) /\ registry[k] \in Nat /\ k # NoKey
        /\ IsFiniteSet(Holders(k)) /\ Cardinality(Holders(k)) \in Nat
    BY <1>1, <1>8, Constants, HoldersFinite DEF IInv, Referenced, Holders
  <2>2. CASE k # lease[p]
    <3>1. Holders(k)' = Holders(k)
      BY <1>1, <1>2, <2>1, <2>2 DEF Holders, Key
    <3> QED BY <1>2, <2>1, <2>2, <3>1
  <2>3. CASE k = lease[p]
    <3>1. Holders(k)' = Holders(k) \ {p} /\ p \in Holders(k)
      BY <1>1, <1>2, <2>1, <2>3 DEF Holders, Key
    <3>2. Cardinality(Holders(k)') = Cardinality(Holders(k)) - 1
      BY <2>1, <3>1, FS_RemoveElement
    <3>3. Cardinality(Holders(k)) > 0
      BY <2>1, <3>1, FS_EmptySet
    <3> QED BY <1>2, <2>1, <2>3, <3>2, <3>3
  <2> QED BY <2>2, <2>3
<1>9. Referenced'
  BY <1>1, <1>8 DEF Referenced
<1> QED BY <1>3, <1>5, <1>6, <1>7, <1>9 DEF IInv, Holding

\* Permits of the network that is seen last survive every invalidation: nobody
\* noted a later one.  A permit that does survive wrongly has another observer
\* after it.
LEMMA InvalidateKeeps == ASSUME NEW p \in Pipes PROVE IInv /\ Invalidate(p) => IInv'
<1> SUFFICES ASSUME IInv, Invalidate(p) PROVE IInv'
  OBVIOUS
<1> DEFINE label == IF at[p] = "invalidate" THEN "idle" ELSE "lock"
<1>1. /\ at[p] \in {"invalidate", "invalidate first"} /\ locked = None
      /\ at' = [at EXCEPT ![p] = label]
      /\ registry' = invalidate_before(noted[p])
      /\ UNCHANGED <<operation, answered, network, seen, locked, gate, noted, lease, dropped>>
      /\ at \in [Pipes -> Labels \union Operations] /\ registry \in [Keys -> Nat]
      /\ noted \in [Pipes -> 0 .. MaxGeneration] /\ seen \in Generations
      /\ noted[p] \in 1 .. seen
  BY DEF Invalidate, Goto, IInv, TypeInv, Holding, Held
<1>2. \A q \in Pipes : at[q] \notin {"insert", "recheck"}
  BY <1>1, Constants DEF IInv, Holding, Held
<1>3. /\ label \in {"idle", "lock"}
      /\ at'[p] = label /\ \A q \in Pipes \ {p} : at'[q] = at[q]
  BY <1>1
<1>4. /\ noted[p] \in Nat /\ seen \in Nat /\ noted[p] <= seen
      /\ \A q \in Pipes : noted[q] \in Nat
  <2>1. seen \in Nat /\ MaxGeneration \in Nat
    BY <1>1, Constants
  <2>2. noted[p] \in Nat /\ noted[p] <= seen
    <3>1. noted[p] \in 1 .. seen
      BY <1>1
    <3> QED BY <2>1, <3>1
  <2>3. \A q \in Pipes : noted[q] \in Nat
    <3>1. \A q \in Pipes : noted[q] \in 0 .. MaxGeneration
      BY <1>1
    <3> QED BY <2>1, <3>1
  <2> QED BY <2>1, <2>2, <2>3
<1>5. /\ registry' \in [Keys -> Nat]
      /\ \A k \in Keys : registry'[k] > 0 => registry[k] > 0 /\ k.gen >= noted[p]
      /\ \A k \in Keys : k.gen = seen => registry'[k] = registry[k]
  <2>1. \A k \in Keys : registry'[k] = IF k.gen >= noted[p] THEN registry[k] ELSE 0
    BY <1>1 DEF invalidate_before
  <2>2. registry' \in [Keys -> Nat]
    BY <1>1 DEF invalidate_before
  <2>3. \A k \in Keys : k.gen \in Nat
    BY Constants
  <2> QED BY <1>4, <2>1, <2>2, <2>3
<1>6. label = "lock" <=> at[p] = "invalidate first"
  BY <1>1
<1> HIDE DEF label
<1>7. TypeInv'
  <2>1. at' \in [Pipes -> Labels \union Operations]
    BY <1>1, <1>3 DEF Labels
  <2> QED BY <1>1, <1>5, <2>1 DEF IInv, TypeInv
<1>8. ASSUME NEW q \in Pipes PROVE Held(q)'
  <2>1. Held(q)
    BY DEF IInv, Holding
  <2>2. CASE q = p
    BY <1>1, <1>3, <1>6, <2>1, <2>2 DEF Held
  <2>3. CASE q # p
    BY <1>1, <1>2, <1>3, <2>1, <2>3 DEF Held
  <2> QED BY <2>2, <2>3
<1>9. ASSUME NEW k \in Keys, registry'[k] > 0
      PROVE  k.gen = seen \/ Superseded(k.gen)'
  <2>1. /\ k.gen = seen \/ Superseded(k.gen)
        /\ k.gen >= noted[p] /\ k.gen \in Nat
    BY <1>5, <1>9, Constants DEF IInv, Fresh
  <2>2. CASE Superseded(k.gen)
    <3>1. PICK q \in Pipes : Invalidating(q) /\ noted[q] > k.gen
      BY <2>2 DEF Superseded
    <3>2. q # p
      BY <1>4, <2>1, <3>1
    <3> QED BY <1>1, <1>3, <3>1, <3>2 DEF Superseded, Invalidating
  <2> QED BY <2>1, <2>2
<1>10. Fresh'
  BY <1>1, <1>9 DEF Fresh
<1>11. Once'
  <2>1. at[p] \notin Operations /\ at'[p] \notin Operations
    BY <1>1, <1>3, Constants DEF Labels
  <2>2. operation \in Operations \union {None}
    BY DEF IInv, TypeInv
  <2> QED BY <1>1, <1>3, <2>1, <2>2 DEF IInv, Once
<1>12. Referenced'
  <2>1. \A q \in Pipes : at'[q] # "recheck"
    BY <1>2, <1>3
  <2>2. \A k : Holders(k)' = Holders(k)
    BY <1>1, <1>2, <2>1 DEF Holders, Key
  <2> QED BY <1>1, <1>5, <2>2 DEF IInv, Referenced
<1> QED BY <1>7, <1>8, <1>10, <1>11, <1>12 DEF IInv, Holding

\* A new operation has no lease yet: its key is of no earlier one.
LEMMA PrepareKeeps ==
    ASSUME NEW p \in Pipes, NEW op \in Operations PROVE IInv /\ Prepare(p, op) => IInv'
<1> SUFFICES ASSUME IInv, Prepare(p, op) PROVE IInv'
  OBVIOUS
<1>1. /\ at[p] = "idle" /\ gate = None /\ operation = None
      /\ op \notin answered /\ \A q \in Pipes : at[q] # op
      /\ operation' = op /\ at' = [at EXCEPT ![p] = op]
      /\ UNCHANGED <<answered, network, seen, registry, locked, gate, noted, lease, dropped>>
      /\ at \in [Pipes -> Labels \union Operations]
  BY DEF Prepare, Goto, IInv, TypeInv
<1>2. at'[p] = op /\ \A q \in Pipes \ {p} : at'[q] = at[q]
  BY <1>1
<1>3. op \notin Labels /\ op # None
  BY Constants
<1>4. \A q \in Pipes : at[q] \notin {"acquire", "invalidate first", "lock", "insert", "recheck"}
  BY <1>1, Constants DEF IInv, Holding, Held
<1>5. TypeInv'
  <2>1. at' \in [Pipes -> Labels \union Operations]
    BY <1>1
  <2> QED BY <1>1, <2>1 DEF IInv, TypeInv
<1>6. \A g : Superseded(g)' <=> Superseded(g)
  BY <1>1, <1>2, <1>3 DEF Superseded, Invalidating, Labels
<1>7. ASSUME NEW q \in Pipes PROVE Held(q)'
  <2>1. Held(q) /\ q # None
    BY Constants DEF IInv, Holding
  <2>2. CASE q = p
    BY <1>1, <1>2, <1>3, <2>1, <2>2 DEF Held, Labels
  <2>3. CASE q # p
    BY <1>1, <1>2, <1>4, <2>1, <2>3 DEF Held
  <2> QED BY <2>2, <2>3
<1>8. Fresh'
  BY <1>1, <1>6 DEF IInv, Fresh
<1>9. Once'
  <2>1. at[p] \notin Operations
    BY <1>1, Constants DEF Labels
  <2> QED BY <1>1, <1>2, <2>1 DEF IInv, Once
<1>10. ASSUME NEW k \in Keys, k.op = op PROVE Holders(k)' = {}
  <2>1. \A q \in Pipes : lease[q] # k
    BY <1>1, <1>10, Constants DEF IInv, Once
  <2>2. \A q \in Pipes : at'[q] # "recheck"
    BY <1>2, <1>3, <1>4 DEF Labels
  <2> QED BY <1>1, <2>1, <2>2 DEF Holders
<1>11. Referenced'
  <2>1. registry \in [Keys -> Nat]
    BY DEF IInv, TypeInv
  <2>2. ASSUME NEW k \in Keys, k.op = op PROVE registry[k] >= Cardinality(Holders(k)')
    BY <1>10, <2>1, <2>2, FS_EmptySet
  <2> QED BY <1>1, <2>2 DEF Referenced
<1> QED BY <1>5, <1>7, <1>8, <1>9, <1>11 DEF IInv, Holding

\* Nothing is referenced once there is no operation.
LEMMA RollbackKeeps == ASSUME NEW p \in Pipes PROVE IInv /\ Rollback(p) => IInv'
<1> SUFFICES ASSUME IInv, Rollback(p) PROVE IInv'
  OBVIOUS
<1>1. /\ gate = None /\ operation' = None /\ registry' = Empty
      /\ UNCHANGED <<answered, network, seen, locked, gate, at, noted, lease, dropped>>
  BY DEF Rollback
<1>2. registry' \in [Keys -> Nat] /\ \A k \in Keys : registry'[k] = 0
  BY <1>1 DEF Empty
<1>3. TypeInv'
  BY <1>1, <1>2 DEF IInv, TypeInv
<1>4. \A g : Superseded(g)' <=> Superseded(g)
  BY <1>1 DEF Superseded, Invalidating
<1>5. ASSUME NEW q \in Pipes PROVE Held(q)'
  <2>1. Held(q) /\ q # None
    BY Constants DEF IInv, Holding
  <2> QED BY <1>1, <1>4, <2>1 DEF Held
<1>6. Fresh'
  BY <1>2 DEF Fresh
<1>7. Once'
  BY <1>1 DEF IInv, Once
<1>8. Referenced'
  BY <1>1, Constants DEF Referenced
<1> QED BY <1>3, <1>5, <1>6, <1>7, <1>8 DEF IInv, Holding

LEMMA RecoverKeeps == ASSUME NEW p \in Pipes PROVE IInv /\ Recover(p) => IInv'
<1> SUFFICES ASSUME IInv, Recover(p) PROVE IInv'
  OBVIOUS
<1>1. /\ at[p] = "idle" /\ gate = None /\ operation' = None
      /\ registry' = IF operation = None THEN registry ELSE Empty
      /\ at' = [at EXCEPT ![p] = "clear recovered"]
      /\ UNCHANGED <<answered, network, seen, locked, gate, noted, lease, dropped>>
      /\ at \in [Pipes -> Labels \union Operations] /\ registry \in [Keys -> Nat]
  BY DEF Recover, Goto, IInv, TypeInv
<1>2. at'[p] = "clear recovered" /\ \A q \in Pipes \ {p} : at'[q] = at[q]
  BY <1>1
<1>3. registry' \in [Keys -> Nat] /\ \A k \in Keys : registry'[k] > 0 => registry[k] > 0
  <2>1. Empty \in [Keys -> Nat] /\ \A k \in Keys : Empty[k] = 0
    BY DEF Empty
  <2>2. CASE operation = None
    BY <1>1, <2>2
  <2>3. CASE operation # None
    <3>1. registry' = Empty
      BY <1>1, <2>3
    <3> QED BY <2>1, <3>1
  <2> QED BY <2>2, <2>3
<1>4. TypeInv'
  <2>1. at' \in [Pipes -> Labels \union Operations]
    BY <1>1 DEF Labels
  <2> QED BY <1>1, <1>3, <2>1 DEF IInv, TypeInv
<1>5. \A g : Superseded(g)' <=> Superseded(g)
  BY <1>1, <1>2 DEF Superseded, Invalidating
<1>6. ASSUME NEW q \in Pipes PROVE Held(q)'
  <2>1. Held(q) /\ q # None
    BY Constants DEF IInv, Holding
  <2>2. CASE q = p
    BY <1>1, <1>2, <2>1, <2>2 DEF Held
  <2>3. CASE q # p
    BY <1>1, <1>2, <1>5, <2>1, <2>3 DEF Held
  <2> QED BY <2>2, <2>3
<1>7. Fresh'
  BY <1>1, <1>3, <1>5 DEF IInv, Fresh
<1>8. Once'
  <2>1. at[p] \notin Operations /\ at'[p] \notin Operations
    BY <1>1, <1>2, Constants DEF Labels
  <2> QED BY <1>1, <1>2, <2>1 DEF IInv, Once
<1>9. Referenced'
  BY <1>1, Constants DEF Referenced
<1> QED BY <1>4, <1>6, <1>7, <1>8, <1>9 DEF IInv, Holding

\* The clear after the gate revokes the permits it finds, and no other.
LEMMA ClearLateKeeps == ASSUME NEW p \in Pipes PROVE IInv /\ ClearLate(p) => IInv'
<1> SUFFICES ASSUME IInv, ClearLate(p) PROVE IInv'
  OBVIOUS
<1>1. /\ at[p] \in Operations \union {"clear recovered"}
      /\ registry' = Empty
      /\ answered' = answered \union ({at[p]} \intersect Operations)
      /\ dropped' = dropped \union {k \in Keys : registry[k] > 0}
      /\ at' = [at EXCEPT ![p] = "idle"]
      /\ UNCHANGED <<operation, network, seen, locked, gate, noted, lease>>
      /\ at \in [Pipes -> Labels \union Operations] /\ registry \in [Keys -> Nat]
  BY DEF ClearLate, Goto, IInv, TypeInv
<1>2. at'[p] = "idle" /\ \A q \in Pipes \ {p} : at'[q] = at[q]
  BY <1>1
<1>3. registry' \in [Keys -> Nat] /\ \A k \in Keys : registry'[k] = 0
  BY <1>1 DEF Empty
<1>4. at[p] \notin Labels \ {"clear recovered"}
  BY <1>1, Constants DEF Labels
<1>5. TypeInv'
  <2>1. at' \in [Pipes -> Labels \union Operations]
    BY <1>1 DEF Labels
  <2>2. answered' \in SUBSET Operations /\ dropped' \in SUBSET Keys
    BY <1>1 DEF IInv, TypeInv
  <2> QED BY <1>1, <1>3, <2>1, <2>2 DEF IInv, TypeInv
<1>6. \A g : Superseded(g)' <=> Superseded(g)
  BY <1>1, <1>2, <1>4 DEF Superseded, Invalidating, Labels
<1>7. ASSUME NEW q \in Pipes PROVE Held(q)'
  <2>1. Held(q) /\ answered \subseteq answered'
    BY <1>1 DEF IInv, Holding
  <2>2. CASE q = p
    BY <1>1, <1>2, <1>4, <2>1, <2>2 DEF Held, Labels
  <2>3. CASE q # p
    BY <1>1, <1>2, <1>6, <2>1, <2>3 DEF Held
  <2> QED BY <2>2, <2>3
<1>8. Fresh'
  BY <1>3 DEF Fresh
<1>9. Once'
  <2>1. at'[p] \notin Operations
    BY <1>2, Constants DEF Labels
  <2>2. ASSUME NEW q \in Pipes, at'[q] \in Operations
        PROVE  at'[q] \notin answered' /\ \A r \in Pipes \ {q} : at'[r] # at'[q]
    <3>1. q # p /\ at'[q] = at[q]
      BY <1>2, <2>1, <2>2
    <3>2. at[q] \notin answered /\ \A r \in Pipes \ {q} : at[r] # at[q]
      BY <2>2, <3>1 DEF IInv, Once
    <3> QED BY <1>1, <1>2, <2>1, <2>2, <3>1, <3>2
  <2>3. operation # None => operation \in answered' \/ \E q \in Pipes : at'[q] = operation
    <3>1. operation \in Operations \union {None}
      BY DEF IInv, TypeInv
    <3> QED BY <1>1, <1>2, <3>1 DEF IInv, Once
  <2> QED BY <1>1, <2>2, <2>3 DEF IInv, Once
<1>10. ASSUME NEW k \in Keys, k.op = operation, k.gen = seen, k \notin dropped'
       PROVE  registry'[k] >= Cardinality(Holders(k)')
  <2>1. registry[k] = 0 /\ registry[k] >= Cardinality(Holders(k))
    <3>1. ~(registry[k] > 0) /\ registry[k] \in Nat /\ k \notin dropped
      BY <1>1, <1>10
    <3> QED BY <1>10, <3>1 DEF IInv, Referenced
  <2>2. Holders(k)' = Holders(k)
    BY <1>1, <1>2, <1>4 DEF Holders, Key, Labels
  <2> QED BY <1>3, <2>1, <2>2
<1>11. Referenced'
  BY <1>1, <1>10 DEF Referenced
<1> QED BY <1>5, <1>7, <1>8, <1>9, <1>11 DEF IInv, Holding

-----------------------------------------------------------------------------
LEMMA NextIInv == IInv /\ [Next]_vars => IInv'
<1> SUFFICES ASSUME IInv, [Next]_vars PROVE IInv'
  OBVIOUS
<1>1. CASE UNCHANGED vars
  BY <1>1 DEF vars, IInv, TypeInv, Holding, Held, Fresh, Once, Referenced, Holders, Key,
              Superseded, Invalidating
<1>2. CASE NetworkChanges
  BY <1>2, NetworkChangesKeeps
<1>3. ASSUME NEW p \in Pipes,
             Ask(p) \/ Observe(p) \/ Invalidate(p) \/ Acquire(p) \/ Lock(p) \/ Insert(p)
      PROVE  IInv'
  BY <1>3, AskKeeps, ObserveKeeps, InvalidateKeeps, AcquireKeeps, LockKeeps, InsertKeeps
<1>4. ASSUME NEW p \in Pipes,
             \/ Recheck(p) \/ EndOfPipe(p) \/ Rollback(p) \/ Recover(p) \/ ClearLate(p)
             \/ \E op \in Operations : Prepare(p, op)
      PROVE  IInv'
  BY <1>4, RecheckKeeps, EndOfPipeKeeps, RollbackKeeps, RecoverKeeps, ClearLateKeeps, PrepareKeeps
<1> QED BY <1>1, <1>2, <1>3, <1>4 DEF Next

LEMMA IInvHolds == Spec => []IInv
  BY InitIInv, NextIInv, PTL DEF Spec

\* Whatever the interleaving of pipes, changes of the network and clears: once
\* a change was observed and no observer is on its way to the registry, every
\* permit through the kill switch is of the network that was seen last.
THEOREM NoPermitIsStale == Spec => []NoStalePermit
<1>1. IInv => NoStalePermit
  BY DEF IInv, Fresh, Superseded, Invalidating, NoStalePermit
<1> QED BY <1>1, IInvHolds, PTL

\* A lease of the current operation and network has its permit, unless the
\* clear after the gate revoked that permit: nobody else's release does.
THEOREM LeasesHavePermits == Spec => []LeaseHasPermit
<1>1. ASSUME IInv PROVE LeaseHasPermit
  <2> SUFFICES ASSUME NEW p \in Pipes, lease[p] # NoKey, lease[p].op = operation,
                      lease[p].gen = seen, lease[p] \notin dropped
               PROVE  registry[lease[p]] > 0
    BY DEF LeaseHasPermit
  <2>1. lease[p] \in Keys /\ registry[lease[p]] \in Nat
    BY <1>1 DEF IInv, TypeInv
  <2>2. registry[lease[p]] >= Cardinality(Holders(lease[p]))
    BY <1>1, <2>1 DEF IInv, Referenced
  <2>3. p \in Holders(lease[p]) /\ Holders(lease[p]) \in SUBSET Pipes
    BY DEF Holders
  <2>4. Cardinality(Holders(lease[p])) \in Nat \ {0}
    BY <2>3, HoldersFinite, FS_EmptySet
  <2> QED BY <2>1, <2>2, <2>4
<1> QED BY <1>1, IInvHolds, PTL

-----------------------------------------------------------------------------
(***************************************************************************)
(* The supervisor.  CareIsExact holds for every set of operations, every   *)
(* limit of attempts and any number of retries.                            *)
(***************************************************************************)
Stages == {"Inactive", "Waiting", "Running", "Exhausted", "Blocked"}
Results == {"none", "ok", "retryable", "blocked", "stopping"}
Ops == OperationIds \union {NoOperation}
TaskLabels == {"top", "register", "sample", "wait", "sleep", "claim", "attempt",
           "native", "read", "publish", "ended"}
Journals == {Clean} \union
    [op : OperationIds, phase : {"Live", "RecoveryRequired", "Replacing"}]

SupervisorTypes ==
    /\ journal \in Journals
    /\ begun \in SUBSET OperationIds
    /\ mutationGate \in {"free", "request", "supervisor"}
    /\ runtime \in [op : Ops, stage : Stages, attempts : Nat, revision : Nat]
    /\ sup \in [at : TaskLabels, op : Ops, attempts : Nat, revision : Nat,
                result : Results, seen : Journals]
    /\ spent \in Nat

Claimed == {"attempt", "native", "read", "publish"}

\* An operation is begun once, and one that has failed stays failed until it
\* is gone: what the runtime or the task remember cannot come back to life.
BegunOnce ==
    /\ {journal.op, runtime.op, sup.op} \subseteq begun \union {NoOperation}
    /\ \A op \in {runtime.op, sup.op} \ {NoOperation} :
          journal.op = op => journal.phase = "RecoveryRequired"
    /\ runtime.op = NoOperation <=> runtime.stage = "Inactive"

\* The task's own copy of what it works on.
TaskInv ==
    /\ sup.at \in Claimed \union {"sleep", "claim"} =>
          sup.op # NoOperation /\ sup.attempts < Limit
    /\ sup.at \in {"attempt", "native"} /\ journal.op = sup.op =>
          runtime.op = sup.op /\ runtime.stage = "Running"
    /\ sup.at \in {"read", "publish"} /\ sup.result = "ok" => journal.op # sup.op
    /\ mutationGate = "supervisor" <=> sup.at = "native"
    /\ runtime.stage = "Running" => sup.at \in Claimed /\ sup.op = runtime.op

Watched ==
    IF Eligible THEN runtime.op = journal.op /\ runtime.stage # "Inactive"
    ELSE runtime.op = NoOperation /\ runtime.stage = "Inactive"

\* The result of an attempt that cleaned the journal, not published yet.
Unpublished ==
    /\ sup.at \in {"read", "publish"} /\ journal = Clean
    /\ sup.result \in {"ok", "retryable", "blocked"}
    /\ sup.at = "publish" => sup.seen = Clean
    /\ runtime.op = sup.op /\ runtime.stage = "Running"

\* And one that was published as a failure; the task then has nothing to do.
Left == Leftover /\ sup.at \in {"top", "register", "sample", "wait", "ended"}

\* The attempts that were made, and those that the runtime has counted.
Counted ==
    /\ spent <= Limit /\ runtime.attempts <= Limit
    /\ runtime.stage \in {"Waiting", "Running"} => runtime.attempts < Limit
    /\ runtime.stage # "Inactive" =>
          spent <= runtime.attempts +
              (IF runtime.stage = "Running" /\ sup.at \in {"read", "publish"} THEN 1 ELSE 0)

SupervisorInv ==
    /\ SupervisorTypes /\ BegunOnce /\ TaskInv /\ Counted
    /\ mutationGate # "request" => Watched \/ Unpublished \/ Left

-----------------------------------------------------------------------------
USE DEF NoOperation, Clean, Inactive, At, Eligible, Ops, Stages, Results, TaskLabels, Journals

\* The journal has a failed operation and another, or none.
LEMMA EligibleHasOperation ==
    ASSUME SupervisorTypes
    PROVE  /\ Eligible => journal.op \in OperationIds /\ journal.op # NoOperation
           /\ journal.op = NoOperation <=> journal = Clean
  BY LimitAssumption DEF SupervisorTypes

LEMMA InitSupervisor == SupervisorInit => SupervisorInv
  BY LimitAssumption
  DEF SupervisorInit, SupervisorInv, SupervisorTypes, BegunOnce, TaskInv, Claimed, Watched, Unpublished, Counted

\* A request changes the journal under the gate, and never to an operation
\* that the runtime or the task know.
LEMMA RequestKeeps == SupervisorInv /\ Request => SupervisorInv'
<1> SUFFICES ASSUME SupervisorInv, Request PROVE SupervisorInv'
  OBVIOUS
<1>1. journal' \in Journals /\ begun' \in SUBSET OperationIds /\ begun \subseteq begun'
  BY DEF SupervisorInv, SupervisorTypes, Request, Becomes
<1>2. journal'.op = NoOperation \/ journal'.op \notin begun
      \/ /\ journal'.op = journal.op
         /\ journal.phase = "RecoveryRequired" => journal'.phase = "RecoveryRequired"
  BY DEF SupervisorInv, SupervisorTypes, Request, Becomes
<1>3. journal'.op \in begun' \union {NoOperation}
  BY <1>1 DEF Request
<1>4. SupervisorTypes'
  BY <1>1 DEF SupervisorInv, SupervisorTypes, Request, notify
<1>5. BegunOnce'
  BY <1>1, <1>2, <1>3 DEF SupervisorInv, SupervisorTypes, BegunOnce, Request
<1>6. TaskInv' /\ Counted'
  BY <1>1, <1>2 DEF SupervisorInv, SupervisorTypes, BegunOnce, TaskInv, Claimed, Counted, Request
<1> QED BY <1>4, <1>5, <1>6 DEF SupervisorInv, Request

\* reconcile_automatic_recovery_state makes the runtime agree with the
\* journal, whatever it was before.
LEMMA ReconcileKeeps == SupervisorInv /\ Reconcile => SupervisorInv'
<1> SUFFICES ASSUME SupervisorInv, Reconcile PROVE SupervisorInv'
  OBVIOUS
<1>1. CASE runtime' = runtime
  <2>1. Watched'
    BY <1>1, EligibleHasOperation DEF SupervisorInv, SupervisorTypes, BegunOnce, Watched, Reconcile, Reconciled, NewBudget
  <2>2. SupervisorTypes' /\ BegunOnce'
    BY <1>1 DEF SupervisorInv, SupervisorTypes, BegunOnce, Reconcile
  <2>3. TaskInv'
    BY <1>1 DEF SupervisorInv, SupervisorTypes, TaskInv, Claimed, Reconcile
  <2>4. Counted'
    BY <1>1, LimitAssumption DEF SupervisorInv, SupervisorTypes, Counted, Reconcile
  <2> QED BY <2>1, <2>2, <2>3, <2>4 DEF SupervisorInv
<1>2. CASE runtime' = NewBudget(journal.op) /\ Eligible
           /\ (runtime.op # journal.op \/ runtime.stage = "Inactive")
  <2>1. spent' = 0
    BY <1>2, LimitAssumption DEF SupervisorInv, SupervisorTypes, Reconcile, NewBudget
  <2>2. sup.at \in Claimed => sup.op # journal.op \/ sup.at \in {"read", "publish"}
    BY <1>2 DEF SupervisorInv, TaskInv, Claimed
  <2>3. /\ runtime' = [op |-> journal.op, stage |-> "Waiting", attempts |-> 0,
                      revision |-> runtime.revision + 1]
        /\ journal.op \in OperationIds \ {NoOperation}
        /\ journal' = journal /\ sup' = sup /\ begun' = begun /\ mutationGate' = "free"
        /\ mutationGate = "request"
    BY <1>2, EligibleHasOperation DEF SupervisorInv, Reconcile, NewBudget
  <2>4. SupervisorTypes' /\ BegunOnce'
    BY <1>2, <2>1, <2>3 DEF SupervisorInv, SupervisorTypes, BegunOnce
  <2>5. TaskInv'
    BY <1>2, <2>2, <2>3 DEF SupervisorInv, SupervisorTypes, TaskInv, Claimed
  <2>6. Counted' /\ Watched'
    BY <1>2, <2>1, <2>3, LimitAssumption DEF SupervisorInv, SupervisorTypes, Counted, Watched
  <2> QED BY <2>4, <2>5, <2>6 DEF SupervisorInv
<1>3. CASE runtime' = [Inactive EXCEPT !.revision = runtime.revision + 1] /\ ~Eligible
  BY <1>3, LimitAssumption
  DEF SupervisorInv, SupervisorTypes, BegunOnce, TaskInv, Counted, Claimed, Reconcile, Watched
<1> QED BY <1>1, <1>2, <1>3 DEF Reconcile, Reconciled

\* A new budget is granted to a runtime that is exhausted: no attempt runs.
LEMMA RestartBudgetKeeps == SupervisorInv /\ RestartBudget => SupervisorInv'
<1> SUFFICES ASSUME SupervisorInv, RestartBudget PROVE SupervisorInv'
  OBVIOUS
<1>1. /\ runtime.op # NoOperation /\ runtime.op = journal.op /\ runtime.stage = "Exhausted"
      /\ sup.at \notin {"attempt", "native"} \/ sup.op # runtime.op
  BY DEF SupervisorInv, BegunOnce, TaskInv, RestartBudget
<1>2. CASE journal' = Clean /\ runtime' = Inactive
  BY <1>1, <1>2, LimitAssumption
  DEF SupervisorInv, SupervisorTypes, BegunOnce, TaskInv, Counted, Claimed, Watched, RestartBudget
<1>3. CASE journal' = journal /\ runtime' = NewBudget(runtime.op)
  BY <1>1, <1>3, LimitAssumption
  DEF SupervisorInv, SupervisorTypes, BegunOnce, TaskInv, Counted, Claimed, Watched, RestartBudget, NewBudget
<1> QED BY <1>2, <1>3 DEF RestartBudget

\* The steps of the task that only move it and copy the runtime.
LEMMA WaitingKeeps ==
    SupervisorInv /\ (Top \/ Register \/ Sample \/ Notified \/ Elapsed \/ ReadJournal) => SupervisorInv'
<1> SUFFICES ASSUME SupervisorInv, Top \/ Register \/ Sample \/ Notified \/ Elapsed \/ ReadJournal
             PROVE  SupervisorInv'
  OBVIOUS
<1>0. UNCHANGED <<journal, begun, mutationGate, runtime, spent>>
  BY DEF Top, Register, Sample, Notified, Elapsed, ReadJournal
<1>1. CASE Top \/ Register \/ Notified
  BY <1>1 DEF SupervisorInv, SupervisorTypes, BegunOnce, TaskInv, Counted, Claimed, Watched,
     Unpublished, Left, Leftover, Top, Register, Notified
<1>2. CASE Sample
  <2>1. /\ sup.at = "sample" /\ sup' \in [at : TaskLabels, op : Ops, attempts : Nat,
             revision : Nat, result : Results, seen : Journals]
        /\ sup'.result = sup.result /\ sup'.seen = sup.seen
        /\ \/ sup'.at = "wait" /\ sup'.op = sup.op
           \/ /\ sup'.at = "sleep" /\ sup'.op = runtime.op /\ sup'.attempts = runtime.attempts
              /\ runtime.stage = "Waiting" /\ runtime.attempts < Limit
    BY <1>2 DEF Sample, SupervisorInv, SupervisorTypes
  <2>2. SupervisorTypes' /\ BegunOnce'
    BY <1>0, <2>1 DEF SupervisorInv, SupervisorTypes, BegunOnce
  <2>3. TaskInv' /\ Counted'
    BY <1>0, <2>1 DEF SupervisorInv, SupervisorTypes, BegunOnce, TaskInv, Counted, Claimed
  <2>4. mutationGate # "request" => (Watched \/ Unpublished \/ Left)'
    BY <1>0, <2>1 DEF SupervisorInv, Watched, Unpublished, Left, Leftover
  <2> QED BY <2>2, <2>3, <2>4, <1>0 DEF SupervisorInv
<1>3. CASE Elapsed
  BY <1>3 DEF SupervisorInv, SupervisorTypes, BegunOnce, TaskInv, Counted, Claimed, Watched,
     Unpublished, Left, Leftover, Elapsed
<1>4. CASE ReadJournal
  <2>1. /\ sup.at = "read" /\ sup' \in [at : TaskLabels, op : Ops, attempts : Nat,
             revision : Nat, result : Results, seen : Journals]
        /\ sup'.result = sup.result /\ sup'.seen = journal /\ sup'.at = "publish"
        /\ sup'.op = sup.op /\ sup'.attempts = sup.attempts
    BY <1>4 DEF ReadJournal, SupervisorInv, SupervisorTypes
  <2>2. SupervisorTypes' /\ BegunOnce'
    BY <1>0, <2>1 DEF SupervisorInv, SupervisorTypes, BegunOnce
  <2>3. TaskInv' /\ Counted'
    BY <1>0, <2>1 DEF SupervisorInv, SupervisorTypes, BegunOnce, TaskInv, Counted, Claimed
  <2>4. mutationGate # "request" => (Watched \/ Unpublished \/ Left)'
    BY <1>0, <2>1 DEF SupervisorInv, Watched, Unpublished, Left, Leftover
  <2> QED BY <2>2, <2>3, <2>4, <1>0 DEF SupervisorInv
<1> QED BY <1>1, <1>2, <1>3, <1>4

\* The claim compares the whole copy with the runtime.
LEMMA ClaimKeeps == SupervisorInv /\ Claim => SupervisorInv'
  BY DEF SupervisorInv, SupervisorTypes, BegunOnce, TaskInv, Counted, Claimed, Watched, Unpublished, Left, Leftover, Claim

LEMMA EnterGateKeeps == SupervisorInv /\ EnterGate => SupervisorInv'
<1> SUFFICES ASSUME SupervisorInv, EnterGate PROVE SupervisorInv'
  OBVIOUS
<1>1. CASE sup' = [sup EXCEPT !.at = "read", !.result = "stopping"] /\ mutationGate' = mutationGate
  <2>1. SupervisorTypes' /\ BegunOnce'
    BY <1>1 DEF SupervisorInv, SupervisorTypes, BegunOnce, EnterGate
  <2>2. TaskInv' /\ Counted'
    BY <1>1 DEF SupervisorInv, SupervisorTypes, TaskInv, Claimed, Counted, EnterGate
  <2>3. Watched'
    BY <1>1 DEF SupervisorInv, Watched, Unpublished, Left, EnterGate
  <2> QED BY <2>1, <2>2, <2>3 DEF SupervisorInv
<1>2. CASE sup' = [sup EXCEPT !.at = "native"] /\ mutationGate' = "supervisor"
  <2>1. SupervisorTypes' /\ BegunOnce'
    BY <1>2 DEF SupervisorInv, SupervisorTypes, BegunOnce, EnterGate
  <2>2. TaskInv' /\ Counted'
    BY <1>2 DEF SupervisorInv, SupervisorTypes, TaskInv, Claimed, Counted, EnterGate
  <2>3. Watched'
    BY <1>2 DEF SupervisorInv, Watched, Unpublished, Left, EnterGate
  <2> QED BY <2>1, <2>2, <2>3 DEF SupervisorInv
<1> QED BY <1>1, <1>2 DEF EnterGate, SupervisorInv, SupervisorTypes

\* An attempt is made only for the operation whose budget the runtime counts.
LEMMA AttemptKeeps == SupervisorInv /\ Attempt => SupervisorInv'
<1> SUFFICES ASSUME SupervisorInv, Attempt PROVE SupervisorInv'
  OBVIOUS
<1>1. sup.at = "native" /\ mutationGate = "supervisor" /\ sup.op # NoOperation /\ Watched
  BY DEF SupervisorInv, TaskInv, Claimed, Unpublished, Left, Attempt
<1>2. CASE journal.op = sup.op /\ Eligible
  <2>1. runtime.op = sup.op /\ runtime.stage = "Running"
        /\ spent <= runtime.attempts /\ runtime.attempts < Limit
    BY <1>1, <1>2 DEF SupervisorInv, SupervisorTypes, TaskInv, Counted
  <2>2. PICK r \in {"ok", "retryable", "blocked"} :
             /\ sup' = [sup EXCEPT !.at = "read", !.result = r]
             /\ journal' = Clean \/ (r # "ok" /\ journal' = journal)
    BY <1>2 DEF Attempt, SupervisorInv, SupervisorTypes
  <2>3. /\ spent' = spent + 1 /\ mutationGate' = "free"
        /\ begun' = begun /\ runtime' = runtime
    BY <1>2 DEF Attempt
  <2>4. sup' \in [at : TaskLabels, op : Ops, attempts : Nat, revision : Nat,
                  result : Results, seen : Journals]
    BY <2>2 DEF SupervisorInv, SupervisorTypes
  <2>5. SupervisorTypes'
    BY <2>2, <2>3, <2>4 DEF SupervisorInv, SupervisorTypes
  <2>6. BegunOnce'
    <3>1. journal'.op \in {NoOperation, journal.op}
          /\ (journal'.op = journal.op => journal'.phase = journal.phase \/ journal.op = NoOperation)
      BY <2>2
    <3>2. sup'.op = sup.op
      BY <2>2 DEF SupervisorInv, SupervisorTypes
    <3> QED BY <2>3, <3>1, <3>2 DEF SupervisorInv, BegunOnce
  <2>7. TaskInv' /\ Counted'
    BY <1>1, <1>2, <2>1, <2>2, <2>3, LimitAssumption
    DEF SupervisorInv, SupervisorTypes, TaskInv, Claimed, Counted
  <2>8. CASE journal' = Clean
    BY <2>1, <2>2, <2>3, <2>5, <2>6, <2>7, <2>8 DEF SupervisorInv, SupervisorTypes, Unpublished
  <2>9. CASE journal' = journal
    BY <1>1, <2>1, <2>2, <2>3, <2>5, <2>6, <2>7, <2>9 DEF SupervisorInv, SupervisorTypes, Watched
  <2> QED BY <2>2, <2>8, <2>9
<1>3. CASE ~(journal.op = sup.op /\ Eligible)
  <2>1. runtime.op # sup.op
    BY <1>1, <1>3 DEF Watched
  <2>2. /\ sup' = [sup EXCEPT !.at = "read", !.result = "blocked"] /\ mutationGate' = "free"
        /\ UNCHANGED <<journal, spent, begun, runtime>>
    BY <1>3 DEF Attempt
  <2>3. SupervisorTypes' /\ BegunOnce'
    BY <2>2 DEF SupervisorInv, SupervisorTypes, BegunOnce
  <2>4. TaskInv' /\ Counted' /\ Watched'
    BY <1>1, <2>1, <2>2 DEF SupervisorInv, SupervisorTypes, TaskInv, Claimed, Counted, Watched
  <2> QED BY <2>3, <2>4 DEF SupervisorInv
<1> QED BY <1>2, <1>3

\* A late result is dropped, or the runtime is still the one it is about.
LEMMA PublishKeeps == SupervisorInv /\ Publish => SupervisorInv'
<1> SUFFICES ASSUME SupervisorInv, Publish PROVE SupervisorInv'
  OBVIOUS
<1>1. CASE ~(runtime.op = sup.op /\ runtime.stage = "Running")
  BY <1>1
  DEF SupervisorInv, SupervisorTypes, BegunOnce, TaskInv, Counted, Claimed, Watched, Unpublished, Left, Leftover, Publish
<1>2. CASE runtime.op = sup.op /\ runtime.stage = "Running"
  <2>1. /\ runtime.attempts < Limit /\ spent <= runtime.attempts + 1
        /\ runtime' = Assessed /\ spent' = spent /\ journal' = journal
        /\ begun' = begun /\ mutationGate' = mutationGate /\ sup' = At("top")
        /\ sup.op # NoOperation /\ mutationGate # "supervisor"
    BY <1>2 DEF SupervisorInv, SupervisorTypes, TaskInv, Claimed, Counted, Publish
  <2>2. CASE Assessed = [Inactive EXCEPT !.revision = runtime.revision + 1]
             /\ sup.result = "ok"
    <3>1. SupervisorTypes' /\ BegunOnce'
      BY <2>1, <2>2 DEF SupervisorInv, SupervisorTypes, BegunOnce
    <3>2. TaskInv' /\ Counted'
      BY <2>1, <2>2, LimitAssumption DEF SupervisorInv, SupervisorTypes, TaskInv, Claimed, Counted
    <3>3. mutationGate # "request" => ~Eligible
      BY <1>2, <2>1, <2>2 DEF SupervisorInv, TaskInv, Watched, Unpublished, Left, Leftover, Publish
    <3> QED BY <2>1, <2>2, <3>1, <3>2, <3>3 DEF SupervisorInv, Watched
  <2>3. ASSUME NEW stage \in {"Waiting", "Exhausted", "Blocked"},
               Assessed = [runtime EXCEPT !.attempts = @ + 1, !.revision = @ + 1,
                                          !.stage = stage],
               stage = "Waiting" => runtime.attempts + 1 < Limit,
               sup.result = "ok" => sup.seen.phase # "Clean",
               stage = "Blocked" \/ sup.seen.op = sup.op
        PROVE  SupervisorInv'
    <3>1. runtime' = [op |-> runtime.op, stage |-> stage,
                      attempts |-> runtime.attempts + 1, revision |-> runtime.revision + 1]
      BY <2>1, <2>3 DEF SupervisorInv, SupervisorTypes
    <3>2. /\ runtime' \in [op : Ops, stage : Stages, attempts : Nat, revision : Nat]
          /\ runtime'.op = runtime.op /\ runtime'.stage = stage
          /\ runtime'.attempts = runtime.attempts + 1
      BY <2>3, <3>1 DEF SupervisorInv, SupervisorTypes
    <3>3. sup' \in [at : TaskLabels, op : Ops, attempts : Nat, revision : Nat,
                    result : Results, seen : Journals]
          /\ sup'.op = sup.op
      BY <2>1 DEF SupervisorInv, SupervisorTypes
    <3>4. SupervisorTypes'
      BY <2>1, <3>2, <3>3 DEF SupervisorInv, SupervisorTypes
    <3>5. BegunOnce'
      BY <1>2, <2>1, <3>2, <3>3 DEF SupervisorInv, BegunOnce
    <3>6. TaskInv' /\ Counted'
      BY <1>2, <2>1, <2>3, <3>2, LimitAssumption DEF SupervisorInv, SupervisorTypes, TaskInv, Claimed, Counted
    <3>7. mutationGate # "request" => Watched \/ Unpublished
      BY <1>2 DEF SupervisorInv, Left, Leftover
    <3>8. ASSUME Watched PROVE Watched'
      BY <1>2, <2>1, <2>3, <3>2, <3>8 DEF SupervisorInv, SupervisorTypes, Watched
    <3>9. ASSUME Unpublished PROVE Left'
      <4>1. sup.at = "publish" BY DEF Publish
      <4>2. sup.seen = Clean /\ journal = Clean /\ sup.result \in {"ok", "retryable", "blocked"}
        BY <3>9, <4>1 DEF Unpublished
      <4>3. stage = "Blocked" /\ sup.result # "ok" BY <2>1, <2>3, <4>2
      <4>4. sup'.at = "top" /\ sup'.seen = sup.seen /\ sup'.result = sup.result
        BY <2>1 DEF SupervisorInv, SupervisorTypes
      <4> QED BY <1>2, <2>1, <3>2, <3>3, <4>2, <4>3, <4>4 DEF Left, Leftover
    <3> QED BY <2>1, <3>4, <3>5, <3>6, <3>7, <3>8, <3>9 DEF SupervisorInv
  <2> QED BY <2>2, <2>3 DEF Assessed, SupervisorInv, SupervisorTypes
<1> QED BY <1>1, <1>2

LEMMA NextKeeps == SupervisorInv /\ [SupervisorNext]_supervisorVars => SupervisorInv'
<1>1. SupervisorInv /\ BeginShutdown => SupervisorInv'
  BY DEF BeginShutdown, SupervisorInv, SupervisorTypes, BegunOnce, TaskInv, Counted, Claimed, Watched, Unpublished, Left, Leftover
<1>2. SupervisorInv /\ UNCHANGED supervisorVars => SupervisorInv'
  BY DEF supervisorVars, SupervisorInv, SupervisorTypes, BegunOnce, TaskInv, Counted, Claimed, Watched, Unpublished, Left, Leftover
<1> QED
  BY <1>1, <1>2, RequestKeeps, ReconcileKeeps, RestartBudgetKeeps, WaitingKeeps,
     ClaimKeeps, EnterGateKeeps, AttemptKeeps, PublishKeeps
  DEF SupervisorNext, Supervisor

\* The supervisor works for exactly the operation that has failed, and makes
\* at most Limit attempts for each budget, for any number of operations.
THEOREM SupervisorIsExact == SpecSupervisor => []CareIsExact
<1>1. SupervisorInv => CareIsExact
  BY DEF SupervisorInv, Counted, Watched, Unpublished, Left, Leftover, CareIsExact, BudgetIsKept, FailedIsWatched
<1> QED BY <1>1, InitSupervisor, NextKeeps, PTL DEF SpecSupervisor
=============================================================================
