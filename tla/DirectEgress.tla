------------------------------ MODULE DirectEgress ------------------------------
(***************************************************************************)
(* The Agent's leases for direct egress (usque-agent/src/windows/server.rs):*)
(* an Engine pipe asks for a permit through the kill switch for one target, *)
(* bound to the operation and to the generation of the physical network.    *)
(* Three locks take part: the mutation gate, the registry of permits, and   *)
(* the generation, which any pipe may advance without the gate.             *)
(*                                                                          *)
(* Target, protocol, interface and purpose of a key are one value here:     *)
(* keys differ in the operation and in the generation.                      *)
(***************************************************************************)
EXTENDS Naturals, FiniteSets

CONSTANTS
    Pipes,          \* connected Engine pipes
    Operations,     \* bound: operations, each used once
    Requests,       \* the requests of this instance
    MaxGeneration,  \* bound: changes of the physical network
    Capacity        \* MAX_DYNAMIC_DIRECT_TARGETS

ASSUME EgressAssumption ==
    /\ {MaxGeneration, Capacity} \subseteq Nat \ {0}
    /\ IsFiniteSet(Pipes) /\ "none" \notin Pipes \union Operations
    /\ Operations \cap {"idle", "observe", "acquire", "invalidate", "invalidate first",
                        "lock", "insert", "recheck", "clear recovered"} = {}

VARIABLES
    operation,   \* the journal's operation, Prepared or Active
    answered,    \* operations whose Prepare was answered
    network,     \* the physical network, as Windows would report it
    seen,        \* fingerprint and generation: the network last observed
    registry,    \* references of every permit, by key
    locked,      \* the pipe that holds the registry across steps
    gate,        \* the pipe that holds the mutation gate
    at,          \* where each pipe's handler is; an operation while its
                 \* Prepare has yet to clear the registry
    noted,       \* the generation each handler read
    lease,       \* direct_egress_lease of each pipe
    dropped      \* keys whose permit a late clear revoked

vars == <<operation, answered, network, seen, registry, locked, gate, at, noted, lease, dropped>>

None == "none"
NoKey == [op |-> None, gen |-> 0]
Keys == [op : Operations, gen : 1 .. MaxGeneration]
Key(p) == [op |-> operation, gen |-> noted[p]]

Init ==
    /\ operation = None /\ answered = {} /\ network = 1 /\ seen = 1
    /\ registry = [k \in Keys |-> 0]
    /\ locked = None /\ gate = None
    /\ at = [p \in Pipes |-> "idle"]
    /\ noted = [p \in Pipes |-> 0]
    /\ lease = [p \in Pipes |-> NoKey] /\ dropped = {}

Goto(p, label) == at' = [at EXCEPT ![p] = label]
Empty == [k \in Keys |-> 0]

NetworkChanges ==
    /\ network < MaxGeneration
    /\ network' = network + 1
    /\ UNCHANGED <<operation, answered, seen, registry, locked, gate, at, noted, lease, dropped>>

-----------------------------------------------------------------------------
(* physical_network_info: observe under the generation's lock, invalidate   *)
(* under the registry's.                                                    *)

Ask(p) ==
    /\ "observe" \in Requests
    /\ at[p] = "idle" /\ operation \in answered
    /\ Goto(p, "observe")
    /\ UNCHANGED <<operation, answered, network, seen, registry, locked, gate, noted, lease, dropped>>

Observe(p) ==
    /\ at[p] \in {"observe", "acquire"}
    /\ seen' = network
    /\ noted' = [noted EXCEPT ![p] = network]
    /\ Goto(p, IF gate = p THEN IF seen # network THEN "invalidate first" ELSE "lock"
               ELSE IF seen # network THEN "invalidate" ELSE "idle")
    /\ UNCHANGED <<operation, answered, network, registry, locked, gate, lease, dropped>>

KeepsPrevious(generation) ==
    [k \in Keys |-> IF k.gen + 1 >= generation THEN registry[k] ELSE 0]

\* DirectEgressRegistry::invalidate_before
invalidate_before(generation) ==
    [k \in Keys |-> IF k.gen >= generation THEN registry[k] ELSE 0]

Invalidate(p) ==
    /\ at[p] \in {"invalidate", "invalidate first"} /\ locked = None
    /\ registry' = invalidate_before(noted[p])
    /\ Goto(p, IF at[p] = "invalidate" THEN "idle" ELSE "lock")
    /\ UNCHANGED <<operation, answered, network, seen, locked, gate, noted, lease, dropped>>

-----------------------------------------------------------------------------
(* acquire_direct_egress.                                                   *)

\* An Engine asks for an operation whose preparation it was told of.
Acquire(p) ==
    /\ at[p] = "idle" /\ gate = None /\ lease[p] = NoKey
    /\ operation \in answered
    /\ gate' = p
    /\ Goto(p, "acquire")
    /\ UNCHANGED <<operation, answered, network, seen, registry, locked, noted, lease, dropped>>

Refuse(p) == gate' = None /\ Goto(p, "idle")

Lock(p) ==
    /\ at[p] = "lock" /\ locked = None
    /\ IF noted[p] = seen
       THEN locked' = p /\ Goto(p, "insert") /\ gate' = gate
       ELSE locked' = locked /\ Refuse(p)
    /\ UNCHANGED <<operation, answered, network, seen, registry, noted, lease, dropped>>

\* The permit is shared by the leases of one key; has_capacity admits a new
\* one.
Insert(p) ==
    /\ at[p] = "insert"
    /\ IF registry[Key(p)] > 0 \/ Cardinality({k \in Keys : registry[k] > 0}) < Capacity
       THEN /\ registry' = [registry EXCEPT ![Key(p)] = @ + 1]
            /\ Goto(p, "recheck")
            /\ UNCHANGED <<locked, gate>>
       ELSE registry' = registry /\ locked' = None /\ Refuse(p)
    /\ UNCHANGED <<operation, answered, network, seen, noted, lease, dropped>>

ReleaseOperation(k) ==
    [o \in Keys |-> IF o.op = k.op /\ registry[o] > 0 THEN registry[o] - 1 ELSE registry[o]]

\* DirectEgressRegistry::release of a key that may be gone.
Release(k) ==
    IF k \in Keys /\ registry[k] > 0 THEN [registry EXCEPT ![k] = @ - 1] ELSE registry

Recheck(p) ==
    /\ at[p] = "recheck"
    /\ IF noted[p] = seen
       THEN lease' = [lease EXCEPT ![p] = Key(p)] /\ registry' = registry
       ELSE lease' = lease /\ registry' = Release(Key(p))
    /\ locked' = None
    /\ Refuse(p)
    /\ UNCHANGED <<operation, answered, network, seen, noted, dropped>>

\* The pipe ended; its lease is given back.
EndOfPipe(p) ==
    /\ at[p] = "idle" /\ lease[p] # NoKey /\ locked = None
    /\ registry' = Release(lease[p])
    /\ lease' = [lease EXCEPT ![p] = NoKey]
    /\ UNCHANGED <<operation, answered, network, seen, locked, gate, at, noted, dropped>>

-----------------------------------------------------------------------------
(* Requests that change the operation.  Prepare and Recover clear the       *)
(* registry once more after mutate has left the gate.                       *)

Prepare(p, op) ==
    /\ "prepare" \in Requests
    /\ at[p] = "idle" /\ gate = None /\ operation = None
    /\ op \notin answered /\ \A q \in Pipes : at[q] # op
    /\ operation' = op
    /\ Goto(p, op)
    /\ UNCHANGED <<answered, network, seen, registry, locked, gate, noted, lease, dropped>>

Rollback(p) ==
    /\ "rollback" \in Requests
    /\ at[p] = "idle" /\ gate = None /\ operation \in answered /\ locked = None
    /\ operation' = None
    /\ registry' = Empty
    /\ UNCHANGED <<answered, network, seen, locked, gate, at, noted, lease, dropped>>

\* Recover answers at once when the journal is clean, and still clears.
Recover(p) ==
    /\ "recover" \in Requests
    /\ at[p] = "idle" /\ gate = None /\ locked = None
    /\ operation' = None
    /\ registry' = IF operation = None THEN registry ELSE Empty
    /\ Goto(p, "clear recovered")
    /\ UNCHANGED <<answered, network, seen, locked, gate, noted, lease, dropped>>

ClearLate(p) ==
    /\ at[p] \in Operations \union {"clear recovered"} /\ locked = None
    /\ registry' = Empty
    /\ answered' = answered \union ({at[p]} \intersect Operations)
    /\ dropped' = dropped \union {k \in Keys : registry[k] > 0}
    /\ Goto(p, "idle")
    /\ UNCHANGED <<operation, network, seen, locked, gate, noted, lease>>

Next ==
    \/ NetworkChanges
    \/ \E p \in Pipes :
         \/ Ask(p) \/ Observe(p) \/ Invalidate(p)
         \/ Acquire(p) \/ Lock(p) \/ Insert(p) \/ Recheck(p) \/ EndOfPipe(p)
         \/ \E op \in Operations : Prepare(p, op)
         \/ Rollback(p) \/ Recover(p) \/ ClearLate(p)

Spec == Init /\ [][Next]_vars

-----------------------------------------------------------------------------
\* When the network has changed and the change was observed, no permit of an
\* earlier network stays: a permit on the wrong interface would let traffic
\* bypass the tunnel.  Only an observer may still be on its way to the registry.
NoStalePermit ==
    (\A p \in Pipes : at[p] \notin {"invalidate", "invalidate first"})
    => \A k \in Keys : registry[k] > 0 => k.gen = seen

\* A pipe that holds a lease of the current operation and network has its
\* permit, whatever other pipes were closed, invalidated or cleared.  The one
\* exception is the permit of a newer operation that the second clear of
\* Prepare or Recover, after it left the gate, revokes.
LeaseHasPermit ==
    \A p \in Pipes :
      /\ lease[p] # NoKey /\ lease[p].op = operation /\ lease[p].gen = seen
      /\ lease[p] \notin dropped
      => registry[lease[p]] > 0
=============================================================================
