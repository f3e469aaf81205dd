----------------------- MODULE EngineConnectionProofs -----------------------
(***************************************************************************)
(* Proofs about EngineConnection for every set of profiles and any number  *)
(* of requests, Disconnects, faults and recoveries.  Everything rests on   *)
(* the mutation lock: whoever is between two awaits of a handler that      *)
(* needs it is the first in its queue, and so alone (Lock).  The cleanup   *)
(* task and the Agent do not take it, and what they may do beside a holder *)
(* is what the other parts of the invariant say.                           *)
(***************************************************************************)
EXTENDS EngineConnection, TLAPS

Starting == {"preflight", "inspect", "start", "started"}
Queued == {"lock", "finish", "reconnect"}
Teardown == {"down", "flag", "leave", "queue", "ended"}
Critical == Starting \cup Teardown \cup {"await", "body", "retry", "collect", "clone"}

UserLabels == Starting \cup Teardown \cup {"idle", "lock", "reply", "await", "body"}
StopLabels == Teardown \cup {"idle", "clear", "jobs", "lock", "refused", "retry",
                             "collect", "halt", "joining", "exited"}
MonitorLabels == Starting \cup Teardown \cup
                 {"check", "arm", "read", "idle", "sleep", "poll", "observe", "finish",
                  "reconnect", "collect", "clone", "await", "body", "done"}
Labels == UserLabels \cup StopLabels \cup MonitorLabels
LabelsOf(p) == IF p = "user" THEN UserLabels
               ELSE IF p = "stop" THEN StopLabels ELSE MonitorLabels
Phases == {"Disconnected", "Preparing", "ConnectingHttp3", "ConnectingHttp2", "Connected",
           "Reconnecting", "Disconnecting", "Error"}
TaskStates == Running \cup {"none", "ok", "err", "panicked"}
Intents == [gen : Nat, profile : Profiles, attempted : BOOLEAN]

TypeInv ==
  /\ lease \in {None, "user", "stop"}
  /\ token \in [id : Nat, cancelled : BOOLEAN]
  /\ mutation \in Seq(Procs)
  /\ pc \in [Procs -> Labels]
  /\ \A p \in Procs : pc[p] \in LabelsOf(p)
  /\ call \in [{"user", "stop"} -> {None, "connect", "retry", "disconnect", "exit"}]
  /\ target \in [{"user", "monitor"} -> Profiles \cup {None}]
  /\ mine \in [{"user", "monitor"} -> Nat]
  /\ rec = [gen |-> rec.gen, intent |-> rec.intent, pending |-> rec.pending]
  /\ rec.gen \in Nat /\ rec.intent \in Intents \cup {None}
  /\ phase \in Phases /\ dataPlane \in Profiles \cup {None}
  /\ owners \in Seq(BOOLEAN) /\ failed \in BOOLEAN /\ cleanup \in TaskStates
  /\ retry \in BOOLEAN /\ stopped \in BOOLEAN
  /\ agent \in [state : {"clean", "pending", "active", "exhausted"}, op : Nat]

\* The queue of the mutation lock has whoever waits for it or holds it, once,
\* and a critical section is entered by its head only.
Lock ==
  /\ \A p \in Procs : pc[p] \in Queued \cup Critical
                        <=> \E i \in 1..Len(mutation) : mutation[i] = p
  /\ \A i, j \in 1..Len(mutation) : mutation[i] = mutation[j] => i = j
  /\ \A p \in Procs : pc[p] \in Critical => Holds(p)

\* The provider lease belongs to the request from its acceptance to its reply
\* and to a Disconnect from the moment it holds the lock; a request runs under
\* the token of the moment, and after the last completed Disconnect.
Leased ==
  /\ pc["user"] # "idle" => lease = "user" /\ mine["user"] = token.id /\ ~stopped
  /\ pc["stop"] \in Teardown \cup {"retry", "collect"} => lease = "stop"
  /\ Exiting /\ pc["stop"] \in {"clear", "lock"} => lease = "stop"

\* A start found the owner queue empty and its task collected, and both stay
\* so until the session ends; the task has its owner as long as it works.
Owned ==
  /\ \A p \in Procs : pc[p] \in Starting \cup {"body"} => owners = <<>> /\ cleanup = "none"
  /\ dataPlane # None => owners = <<>> /\ cleanup = "none"
  /\ \A p \in Procs : pc[p] \in Starting \cup {"flag", "queue", "ended", "retry"} => dataPlane = None
  /\ pc["monitor"] \in {"clone", "await"} => owners = <<>>
  /\ cleanup \in {"shutting", "erring", "popped"} => owners # <<>>
  /\ cleanup = "popped" => agent.state # "active"
  /\ pc["user"] \notin {"idle", "reply"} => target["user"] \in Profiles
  /\ pc["monitor"] \in Critical => target["monitor"] \in Profiles
  /\ OwnedUntilClean

\* What is shown follows the session and its holder.
Phased ==
  /\ phase = "Connected" => dataPlane # None
  /\ phase = "Disconnected" => dataPlane = None
  /\ phase = "Disconnecting" => \E p \in Procs : pc[p] \in {"queue", "ended"}
  /\ \A p \in Procs : pc[p] \in {"queue", "ended"}
                        => phase \in {"Disconnecting", "Error", "Disconnected"}
  /\ \A p \in Procs : pc[p] \in Starting => phase \in Connecting \cup {"Preparing"}
  /\ \A p \in Procs : pc[p] \in {"start", "started"} => phase \in Connecting

\* Only the front owner has failed, and the flag of the queue knows.
Flags == \A i \in 1..Len(owners) : owners[i] => i = 1 /\ failed

Flagged == owners # <<>> /\ Head(owners)

\* A teardown that found no failed owner is overtaken by the cleanup task only
\* when the queue is empty.
Overtaken ==
  /\ cleanup = "clearing" => failed \/ owners = <<>>
  /\ \A p \in Procs : pc[p] = "flag" /\ phase = "Disconnected" => failed \/ owners = <<>>
  /\ \A p \in Procs : pc[p] = "leave" =>
       /\ phase = "Disconnected" \/ cleanup = "clearing" => owners = <<>>
       /\ cleanup \in {"spawned", "shutting", "popped"} => ~Flagged

Shown == Flagged /\ cleanup \notin Running \cup {"panicked"} => phase = "Error"

\* A failed cleanup is shown, or somebody who holds or awaits the lock will
\* look at it again, or an unfinished Disconnect cancelled the one who would.
Visible ==
  /\ \/ Shown
     \/ token.cancelled /\ ~stopped
     \/ pc["user"] \in Teardown \cup {"lock", "await"}
     \/ pc["stop"] \in Teardown \cup {"retry"} /\ retry
     \/ pc["monitor"] \in Teardown \cup {"collect"}
  /\ pc["stop"] \in {"down", "flag", "leave"} /\ ~retry => dataPlane # None
  /\ pc["stop"] \in {"queue", "ended"} /\ ~retry => ~Flagged /\ cleanup = "none"
  /\ pc["stop"] = "retry" /\ ~retry => Shown

\* A Disconnect whose cancellation still stands has withdrawn the intent and
\* its watch, and nobody has brought one back.
Withdrawn ==
  /\ token.cancelled /\ ~Exiting
  /\ pc["stop"] \in Teardown \cup {"jobs", "lock", "retry"}
  => rec.intent = None /\ rec.pending = None

\* Once it completed, nobody is inside the lock and nothing is live or watched.
Final ==
  /\ Withdrawn
  /\ stopped => /\ pc["user"] = "idle" /\ pc["stop"] = "idle"
                /\ pc["monitor"] \notin Critical
                /\ dataPlane = None /\ rec.pending = None

IInv ==
  TypeInv /\ Lock /\ Leased /\ Owned /\ Phased /\ Flags /\ Overtaken /\ Visible /\ Final

\* The error of a failed cleanup is shown in no other phase.
ErrorShown == error = "cleanup" => phase = "Error"

-----------------------------------------------------------------------------
(* The lock *)

\* What a critical section may rely on: it is alone in it.
LEMMA Alone ==
    ASSUME Lock, NEW p \in Procs, pc[p] \in Critical
    PROVE  /\ Holds(p)
           /\ \A q \in Procs : q # p => pc[q] \notin Critical
  BY DEF Lock, Holds

\* Whoever holds the lock keeps everybody else out.
LEMMA HolderAlone ==
    ASSUME Lock, NEW p \in Procs, Holds(p)
    PROVE  \A q \in Procs : q # p => pc[q] \notin Critical
  BY DEF Lock, Holds

\* Nobody is in a lock that is free.
LEMMA FreeLock ==
    ASSUME Lock, mutation = <<>>
    PROVE  \A p \in Procs : pc[p] \notin Queued \cup Critical
<1>1. \A i \in 1..Len(mutation) : FALSE
  OBVIOUS
<1> QED BY <1>1 DEF Lock

\* Waiting for the lock.
LEMMA Waits ==
    ASSUME Lock, mutation \in Seq(Procs), pc \in [Procs -> Labels], NEW p \in Procs,
           pc[p] \notin Queued \cup Critical,
           NEW l \in Queued, pc' = [pc EXCEPT ![p] = l], mutation' = Append(mutation, p)
    PROVE  Lock' /\ mutation' \in Seq(Procs)
<1>1. l \notin Critical
  BY DEF Queued, Critical, Starting, Teardown
<1>2. /\ mutation' \in Seq(Procs) /\ Len(mutation') = Len(mutation) + 1
      /\ Len(mutation) \in Nat
      /\ \A i \in 1..Len(mutation) : mutation'[i] = mutation[i]
      /\ mutation'[Len(mutation) + 1] = p
  OBVIOUS
<1>3. ~ \E i \in 1..Len(mutation) : mutation[i] = p
  BY DEF Lock
<1>4. \A q \in Procs : q # p => pc'[q] = pc[q]
  OBVIOUS
<1>5. pc'[p] = l
  OBVIOUS
<1>6. \A q \in Procs : pc'[q] \in Queued \cup Critical
                         <=> \E i \in 1..Len(mutation') : mutation'[i] = q
  <2> SUFFICES ASSUME NEW q \in Procs
               PROVE  pc'[q] \in Queued \cup Critical
                        <=> \E i \in 1..Len(mutation') : mutation'[i] = q
    OBVIOUS
  <2>1. CASE q = p
    BY <2>1, <1>2, <1>5
  <2>2. CASE q # p
    <3>1. pc[q] \in Queued \cup Critical <=> \E i \in 1..Len(mutation) : mutation[i] = q
      BY DEF Lock
    <3>2. (\E i \in 1..Len(mutation) : mutation[i] = q)
            <=> \E i \in 1..Len(mutation') : mutation'[i] = q
      BY <1>2, <2>2
    <3> QED BY <3>1, <3>2, <1>4, <2>2
  <2> QED BY <2>1, <2>2
<1>7. \A i, j \in 1..Len(mutation') : mutation'[i] = mutation'[j] => i = j
  <2>1. \A i, j \in 1..Len(mutation) : mutation[i] = mutation[j] => i = j
    BY DEF Lock
  <2> QED BY <2>1, <1>2, <1>3
<1>8. \A q \in Procs : pc'[q] \in Critical => Holds(q)'
  <2> SUFFICES ASSUME NEW q \in Procs, pc'[q] \in Critical
               PROVE  mutation' # <<>> /\ Head(mutation') = q
    BY DEF Holds
  <2>1. q # p /\ pc[q] \in Critical
    BY <1>1, <1>4, <1>5
  <2>2. mutation # <<>> /\ Head(mutation) = q
    BY <2>1 DEF Lock, Holds
  <2> QED BY <2>2, <1>2
<1> QED BY <1>2, <1>6, <1>7, <1>8 DEF Lock

\* Leaving it: the head of the queue drops the lock.
LEMMA Leaves ==
    ASSUME Lock, mutation \in Seq(Procs), pc \in [Procs -> Labels], NEW p \in Procs,
           Holds(p), NEW l, l \notin Queued \cup Critical,
           pc' = [pc EXCEPT ![p] = l], mutation' = Tail(mutation)
    PROVE  Lock' /\ mutation' \in Seq(Procs)
<1>1. mutation # <<>> /\ mutation[1] = p
  BY DEF Holds
<1>2. /\ mutation' \in Seq(Procs) /\ Len(mutation') = Len(mutation) - 1
      /\ Len(mutation) \in Nat \ {0}
      /\ \A i \in 1..Len(mutation') : mutation'[i] = mutation[i + 1]
  BY <1>1
<1>3. \A i, j \in 1..Len(mutation) : mutation[i] = mutation[j] => i = j
  BY DEF Lock
<1>4. \A q \in Procs : q # p => pc'[q] = pc[q]
  OBVIOUS
<1>5. pc'[p] = l
  OBVIOUS
<1>6. \A q \in Procs : pc'[q] \in Queued \cup Critical
                         <=> \E i \in 1..Len(mutation') : mutation'[i] = q
  <2> SUFFICES ASSUME NEW q \in Procs
               PROVE  pc'[q] \in Queued \cup Critical
                        <=> \E i \in 1..Len(mutation') : mutation'[i] = q
    OBVIOUS
  <2>1. CASE q = p
    BY <2>1, <1>1, <1>2, <1>3, <1>5
  <2>2. CASE q # p
    <3>1. pc[q] \in Queued \cup Critical <=> \E i \in 1..Len(mutation) : mutation[i] = q
      BY DEF Lock
    <3>2. ASSUME NEW i \in 1..Len(mutation), mutation[i] = q
          PROVE  \E k \in 1..Len(mutation') : mutation'[k] = q
      <4>1. i # 1 /\ i - 1 \in 1..Len(mutation')
        BY <3>2, <2>2, <1>1, <1>2
      <4>2. mutation'[i - 1] = mutation[(i - 1) + 1] /\ (i - 1) + 1 = i
        BY <4>1, <1>2
      <4> QED BY <4>1, <4>2, <3>2
    <3>3. ASSUME NEW i \in 1..Len(mutation'), mutation'[i] = q
          PROVE  \E k \in 1..Len(mutation) : mutation[k] = q
      <4>1. i + 1 \in 1..Len(mutation) /\ mutation[i + 1] = q
        BY <3>3, <1>2
      <4> QED BY <4>1
    <3> QED BY <3>1, <3>2, <3>3, <1>4, <2>2
  <2> QED BY <2>1, <2>2
<1>7. \A i, j \in 1..Len(mutation') : mutation'[i] = mutation'[j] => i = j
  BY <1>2, <1>3
<1>8. \A q \in Procs : pc'[q] \in Critical => Holds(q)'
  <2> SUFFICES ASSUME NEW q \in Procs, pc'[q] \in Critical
               PROVE  FALSE
    OBVIOUS
  <2>1. q # p /\ pc[q] \in Critical
    BY <1>4, <1>5
  <2> QED BY <2>1, HolderAlone
<1> QED BY <1>2, <1>6, <1>7, <1>8 DEF Lock

\* A step inside a critical section or into it, and one outside of both.
LEMMA Stays ==
    ASSUME Lock, pc \in [Procs -> Labels], NEW p \in Procs, NEW l,
           pc' = [pc EXCEPT ![p] = l], mutation' = mutation,
           \/ Holds(p) /\ pc[p] \in Queued \cup Critical /\ l \in Critical
           \/ pc[p] \notin Queued \cup Critical /\ l \notin Queued \cup Critical
    PROVE  Lock'
<1>1. pc'[p] = l /\ \A q \in Procs : q # p => pc'[q] = pc[q]
  OBVIOUS
<1>2. \A q \in Procs : pc'[q] \in Queued \cup Critical <=> pc[q] \in Queued \cup Critical
  BY <1>1
<1>3. \A q \in Procs : pc'[q] \in Critical => Holds(q)'
  BY <1>1 DEF Lock, Holds
<1> QED BY <1>2, <1>3 DEF Lock

-----------------------------------------------------------------------------
(* Requests in the lock *)

\* The places of a process that moves.
LEMMA Moves ==
    ASSUME TypeInv, NEW p \in Procs, NEW l \in LabelsOf(p), pc' = [pc EXCEPT ![p] = l]
    PROVE  /\ pc' \in [Procs -> Labels] /\ \A q \in Procs : pc'[q] \in LabelsOf(q)
           /\ pc'[p] = l /\ \A q \in Procs : q # p => pc'[q] = pc[q]
<1>1. pc \in [Procs -> Labels] /\ \A q \in Procs : pc[q] \in LabelsOf(q)
  BY DEF TypeInv
<1>2. l \in Labels
  BY DEF Labels, LabelsOf
<1> QED BY <1>1, <1>2

RecTyped ==
  /\ rec = [gen |-> rec.gen, intent |-> rec.intent, pending |-> rec.pending]
  /\ rec.gen \in Nat /\ rec.intent \in Intents \cup {None}

\* What a withdrawn intent stays through a step.
StaysWithdrawn == rec.intent = None /\ rec.pending = None
                    => rec'.intent = None /\ rec'.pending = None

\* p has left the lock and goes back to where its handler began.
Left(p) ==
  /\ Lock' /\ mutation' \in Seq(Procs)
  /\ pc' \in [Procs -> Labels] /\ \A q \in Procs : pc'[q] \in LabelsOf(q)
  /\ pc'[p] = IF p = "user" THEN "reply" ELSE "check"
  /\ \A q \in Procs : q # p => pc'[q] = pc[q]
  /\ RecTyped' /\ StaysWithdrawn

\* p goes on inside the lock.
GoesOn(p, l) ==
  /\ Lock' /\ mutation' \in Seq(Procs)
  /\ pc' \in [Procs -> Labels] /\ \A q \in Procs : pc'[q] \in LabelsOf(q)
  /\ pc'[p] = l
  /\ \A q \in Procs : q # p => pc'[q] = pc[q]

LEMMA Departs ==
    ASSUME TypeInv, Lock, NEW p \in {"user", "monitor"}, Holds(p),
           pc' = [pc EXCEPT ![p] = IF p = "user" THEN "reply" ELSE "check"],
           mutation' = Tail(mutation), RecTyped', StaysWithdrawn
    PROVE  Left(p)
<1> DEFINE l == IF p = "user" THEN "reply" ELSE "check"
<1>1. p \in Procs /\ l \in LabelsOf(p) /\ l \notin Queued \cup Critical
  BY DEF Procs, LabelsOf, UserLabels, MonitorLabels, Queued, Critical, Starting, Teardown
<1>5. pc' \in [Procs -> Labels] /\ (\A q \in Procs : pc'[q] \in LabelsOf(q))
      /\ pc'[p] = l /\ \A q \in Procs : q # p => pc'[q] = pc[q]
  BY <1>1, Moves
<1>6. Lock' /\ mutation' \in Seq(Procs)
  BY <1>1, Leaves DEF TypeInv
<1> QED BY <1>5, <1>6 DEF Left

LEMMA Proceeds ==
    ASSUME TypeInv, Lock, NEW p \in Procs, Holds(p), pc[p] \in Queued \cup Critical,
           NEW l \in LabelsOf(p) \cap Critical, Goto(p, l), mutation' = mutation
    PROVE  GoesOn(p, l)
<1>1. pc' = [pc EXCEPT ![p] = l]
  BY DEF Goto
<1>2. pc' \in [Procs -> Labels] /\ (\A q \in Procs : pc'[q] \in LabelsOf(q))
      /\ pc'[p] = l /\ \A q \in Procs : q # p => pc'[q] = pc[q]
  BY <1>1, Moves
<1>3. Lock' /\ mutation' \in Seq(Procs)
  BY <1>1, Stays DEF TypeInv
<1> QED BY <1>2, <1>3 DEF GoesOn

\* A handler returns: it leaves the lock, and at most withdraws the intent.
LEMMA Returns ==
    ASSUME TypeInv, Lock, NEW p \in {"user", "monitor"}, Holds(p), NEW err, Return(p, err)
    PROVE  Left(p)
<1>1. pc' = [pc EXCEPT ![p] = IF p = "user" THEN "reply" ELSE "check"]
      /\ mutation' = Tail(mutation)
  BY DEF Return, Goto
<1>2. rec' = rec \/ rec' = [gen |-> rec.gen + 1, intent |-> None, pending |-> None]
  BY DEF Return, ClearIntent, intents
<1>3. RecTyped' /\ StaysWithdrawn
  BY <1>2 DEF TypeInv, RecTyped, StaysWithdrawn
<1> QED BY <1>1, <1>3, Departs

\* An attempt that meets a recovery installs a watch, if its intent stands.
LEMMA EntersRecovery ==
    ASSUME TypeInv, Lock, NEW p \in {"user", "monitor"}, Holds(p), NEW op,
           EnterRecovery(p, op)
    PROVE  Left(p) /\ phase' \in {phase, "Reconnecting", "Error"}
<1>1. CASE rec.intent # None /\ rec.intent.profile = target[p]
  <2>1. /\ pc' = [pc EXCEPT ![p] = IF p = "user" THEN "reply" ELSE "check"]
        /\ mutation' = Tail(mutation) /\ phase' = "Reconnecting"
        /\ \E w : rec' = [rec EXCEPT !.pending = w]
    BY <1>1 DEF EnterRecovery, Goto
  <2>2. rec'.intent = rec.intent /\ rec'.gen = rec.gen
        /\ rec' = [gen |-> rec'.gen, intent |-> rec'.intent, pending |-> rec'.pending]
    BY <2>1 DEF TypeInv
  <2>3. RecTyped' /\ StaysWithdrawn
    BY <1>1, <2>2 DEF RecTyped, StaysWithdrawn, TypeInv
  <2> QED BY <2>1, <2>3, Departs
<1>2. CASE ~(rec.intent # None /\ rec.intent.profile = target[p])
  <2>1. Return(p, TRUE) /\ Unreported(p)
    BY <1>2 DEF EnterRecovery
  <2> QED BY <2>1, Returns DEF Unreported, MarkError
<1> QED BY <1>1, <1>2

\* A holder of the lock that is not about to leave its phase cannot be
\* overtaken by the cleanup task, and nobody else can.
LEMMA OvertakesNobody ==
    ASSUME NEW p \in Procs, \A q \in Procs : q # p => pc[q] \notin Critical /\ pc'[q] = pc[q],
           pc'[p] \notin {"flag", "leave"},
           cleanup' = "clearing" => failed' \/ owners' = <<>>
    PROVE  Overtaken'
  BY DEF Overtaken, Critical, Teardown

-----------------------------------------------------------------------------
(* A connect attempt *)

\* The part of the invariant a holder of the lock relies on.
LEMMA InsideLock ==
    ASSUME IInv, NEW p \in Procs, Holds(p), pc[p] \in Critical
    PROVE  /\ \A q \in Procs : q # p => pc[q] \notin Critical
           /\ ~stopped
           /\ p \in {"user", "monitor"} => target[p] \in Profiles /\ target[p] # None
<1>1. \A q \in Procs : q # p => pc[q] \notin Critical
  BY HolderAlone DEF IInv
<1>2. ~stopped
  BY DEF IInv, Final, Withdrawn, Critical, Starting, Teardown, Procs
<1>3. p \in {"user", "monitor"} => target[p] \in Profiles
  BY DEF IInv, Owned, Critical, Starting, Teardown
<1> QED BY <1>1, <1>2, <1>3, BoundsAssumption

\* An attempt ends before its runtime started.
LEMMA AttemptEnds ==
    ASSUME IInv, NEW p \in {"user", "monitor"}, Holds(p),
           pc[p] \in {"body", "preflight", "inspect", "start"}, Left(p),
           UNCHANGED <<lease, token, call, target, mine, retry, dataPlane, own, stopped>>,
           phase' \in {phase, "Reconnecting", "Error"},
           agent' \in [state : {"clean", "pending", "active", "exhausted"}, op : Nat],
           agent'.state = "active" => agent.state = "active"
    PROVE  IInv'
<1>1. TypeInv /\ Lock /\ Leased /\ Owned /\ Phased /\ Flags /\ Overtaken /\ Visible /\ Final
  BY DEF IInv
<1>2. p \in Procs /\ pc[p] \in Critical
  BY DEF Procs, Critical, Starting, Teardown
<1>3. /\ \A q \in Procs : q # p => pc[q] \notin Critical
      /\ ~stopped /\ target[p] \in Profiles
  BY <1>2, InsideLock
<1>4. owners = <<>> /\ cleanup = "none"
  BY <1>1, <1>2 DEF Owned, Starting, Teardown
<1>5. /\ pc'[p] = IF p = "user" THEN "reply" ELSE "check"
      /\ \A q \in Procs : q # p => pc'[q] = pc[q]
  BY DEF Left
<1>6. TypeInv'
  BY <1>1 DEF TypeInv, Left, RecTyped, own, Phases
<1>7. Leased'
  BY <1>1, <1>2, <1>5 DEF Leased, Exiting, Procs, Teardown
<1>8. Owned'
  BY <1>1, <1>2, <1>3, <1>4, <1>5
     DEF Owned, OwnedUntilClean, Critical, Starting, Teardown, Procs, own
<1>9. Phased'
  BY <1>1, <1>2, <1>3, <1>5 DEF Phased, Connecting, Critical, Starting, Teardown, Procs
<1>10. Flags' /\ Shown' /\ ~Flagged'
  BY <1>1, <1>4 DEF Flags, Shown, Flagged, own
<1>11. Visible'
  BY <1>1, <1>2, <1>3, <1>5, <1>10, <1>4
     DEF Visible, Procs, Critical, Starting, Teardown, own
<1>12. Final'
  BY <1>1, <1>2, <1>3, <1>5
     DEF Final, Withdrawn, Left, StaysWithdrawn, Procs, Exiting, Critical, Starting, Teardown
<1>13. Overtaken'
  BY <1>2, <1>3, <1>4, <1>5 DEF Overtaken, Critical, Starting, Teardown, Procs, own
<1> QED BY <1>6, <1>7, <1>8, <1>9, <1>10, <1>11, <1>12, <1>13 DEF IInv, Left

\* It goes on towards its runtime.
LEMMA AttemptGoesOn ==
    ASSUME IInv, NEW p \in {"user", "monitor"}, Holds(p),
           pc[p] \in {"body", "preflight", "inspect", "start"},
           NEW l \in Starting, GoesOn(p, l), rec' = rec,
           UNCHANGED <<lease, token, call, target, mine, retry, dataPlane, own, stopped>>,
           dataPlane = None, phase' \in Connecting \cup {"Preparing"},
           l \in {"start", "started"} => phase' \in Connecting,
           agent' \in [state : {"clean", "pending", "active", "exhausted"}, op : Nat],
           agent'.state = "active" => agent.state = "active" \/ l = "started"
    PROVE  IInv'
<1>1. TypeInv /\ Lock /\ Leased /\ Owned /\ Phased /\ Flags /\ Overtaken /\ Visible /\ Final
  BY DEF IInv
<1>2. p \in Procs /\ pc[p] \in Critical
  BY DEF Procs, Critical, Starting, Teardown
<1>3. /\ \A q \in Procs : q # p => pc[q] \notin Critical
      /\ ~stopped /\ target[p] \in Profiles
  BY <1>2, InsideLock
<1>4. owners = <<>> /\ cleanup = "none"
  BY <1>1, <1>2 DEF Owned, Starting, Teardown
<1>5. /\ pc'[p] = l
      /\ \A q \in Procs : q # p => pc'[q] = pc[q]
  BY DEF GoesOn
<1>6. TypeInv'
  BY <1>1 DEF TypeInv, GoesOn, own, Phases, Connecting
<1>7. Leased'
  BY <1>1, <1>2, <1>5 DEF Leased, Exiting, Procs, Starting, Teardown
<1>8. Owned'
  BY <1>1, <1>2, <1>3, <1>4, <1>5
     DEF Owned, OwnedUntilClean, Critical, Starting, Teardown, Procs, own
<1>9. Phased'
  BY <1>1, <1>2, <1>3, <1>5 DEF Phased, Connecting, Critical, Starting, Teardown, Procs
<1>10. Flags' /\ Shown' /\ ~Flagged'
  BY <1>1, <1>4 DEF Flags, Shown, Flagged, own
<1>11. Visible'
  BY <1>1, <1>2, <1>3, <1>5, <1>10, <1>4
     DEF Visible, Procs, Critical, Starting, Teardown, own
<1>12. Final'
  BY <1>1, <1>2, <1>3, <1>5
     DEF Final, Withdrawn, Procs, Exiting, Critical, Starting, Teardown
<1>13. Overtaken'
  BY <1>2, <1>3, <1>4, <1>5 DEF Overtaken, Critical, Starting, Teardown, Procs, own
<1> QED BY <1>6, <1>7, <1>8, <1>9, <1>10, <1>11, <1>12, <1>13 DEF IInv, GoesOn

LEMMA PrepareStep ==
    ASSUME IInv, NEW p \in {"user", "monitor"}, Prepare(p)
    PROVE  IInv'
<1>1. /\ pc[p] = "body" /\ Holds(p) /\ p \in Procs /\ TypeInv /\ Lock
      /\ UNCHANGED <<lease, token, call, target, mine, retry, own, agent, stopped>>
      /\ agent \in [state : {"clean", "pending", "active", "exhausted"}, op : Nat]
  BY DEF Prepare, locals, Procs, IInv, TypeInv
<1>2. \/ /\ \E err \in BOOLEAN : Return(p, err)
         /\ UNCHANGED dataPlane /\ phase' \in {phase, "Error"}
      \/ /\ dataPlane = None /\ phase' \in Connecting \cup {"Preparing"}
         /\ Goto(p, "preflight") /\ UNCHANGED <<dataPlane, mutation, rec>>
  BY DEF Prepare, Unreported, MarkError, conn, intents
<1>3. CASE (\E err \in BOOLEAN : Return(p, err)) /\ UNCHANGED dataPlane
           /\ phase' \in {phase, "Error"}
  <2>1. Left(p)
    BY <1>1, <1>3, Returns
  <2> QED BY <1>1, <1>3, <2>1, AttemptEnds
<1>4. CASE /\ dataPlane = None /\ phase' \in Connecting \cup {"Preparing"}
           /\ Goto(p, "preflight") /\ UNCHANGED <<dataPlane, mutation, rec>>
  <2>1. "preflight" \in Starting /\ "preflight" \in LabelsOf(p) \cap Critical
        /\ pc[p] \in Queued \cup Critical
    BY <1>1 DEF Starting, Teardown, LabelsOf, UserLabels, MonitorLabels, Critical
  <2>2. GoesOn(p, "preflight")
    BY <1>1, <1>4, <2>1, Proceeds
  <2> QED BY <1>1, <1>4, <2>1, <2>2, AttemptGoesOn
<1> QED BY <1>2, <1>3, <1>4

LEMMA PreflightStep ==
    ASSUME IInv, NEW p \in {"user", "monitor"}, Preflight(p)
    PROVE  IInv'
<1>1. /\ pc[p] = "preflight" /\ Holds(p) /\ p \in Procs /\ TypeInv /\ Lock
      /\ UNCHANGED <<lease, token, call, target, mine, retry, own, dataPlane, stopped>>
      /\ agent \in [state : {"clean", "pending", "active", "exhausted"}, op : Nat]
      /\ dataPlane = None /\ phase \in Connecting \cup {"Preparing"}
  BY
     DEF Preflight, locals, Procs, IInv, TypeInv, conn, Owned, Phased, Connecting, Starting, Teardown
<1>2. \/ /\ \E err \in BOOLEAN : Return(p, err)
         /\ UNCHANGED agent /\ phase' \in {phase, "Error"}
      \/ /\ phase' = phase /\ Goto(p, "inspect") /\ UNCHANGED <<mutation, rec>>
         /\ \/ agent' = agent
            \/ agent' = [agent EXCEPT !.state = "pending"]
  BY DEF Preflight, MarkError, conn, intents
<1>3. CASE (\E err \in BOOLEAN : Return(p, err)) /\ UNCHANGED agent
           /\ phase' \in {phase, "Error"}
  <2>1. Left(p)
    BY <1>1, <1>3, Returns
  <2> QED BY <1>1, <1>3, <2>1, AttemptEnds
<1>4. CASE /\ phase' = phase /\ Goto(p, "inspect") /\ UNCHANGED <<mutation, rec>>
           /\ \/ agent' = agent
              \/ agent' = [agent EXCEPT !.state = "pending"]
  <2>1. "inspect" \in Starting /\ "inspect" \in LabelsOf(p) \cap Critical
        /\ pc[p] \in Queued \cup Critical
    BY <1>1 DEF Starting, Teardown, LabelsOf, UserLabels, MonitorLabels, Critical
  <2>2. GoesOn(p, "inspect")
    BY <1>1, <1>4, <2>1, Proceeds
  <2>3. agent' \in [state : {"clean", "pending", "active", "exhausted"}, op : Nat]
        /\ (agent'.state = "active" => agent.state = "active")
    BY <1>1, <1>4
  <2> QED BY <1>1, <1>4, <2>1, <2>2, <2>3, AttemptGoesOn
<1> QED BY <1>2, <1>3, <1>4

LEMMA InspectStep ==
    ASSUME IInv, NEW p \in {"user", "monitor"}, Inspect(p)
    PROVE  IInv'
<1>1. /\ pc[p] = "inspect" /\ Holds(p) /\ p \in Procs /\ TypeInv /\ Lock
      /\ UNCHANGED <<lease, token, call, target, mine, retry, own, dataPlane, stopped, agent>>
      /\ agent \in [state : {"clean", "pending", "active", "exhausted"}, op : Nat]
      /\ dataPlane = None
  BY
     DEF Inspect, locals, Procs, IInv, TypeInv, Owned, Phased, Connecting, Starting, Teardown
<1>2. \/ /\ \E err \in BOOLEAN : Return(p, err)
         /\ phase' \in {phase, "Error"}
      \/ EnterRecovery(p, obs[p].op)
      \/ phase' \in Connecting /\ Goto(p, "start") /\ UNCHANGED <<mutation, rec>>
  BY DEF Inspect, Unreported, MarkError, conn, intents
<1>3. CASE (\E err \in BOOLEAN : Return(p, err)) /\ phase' \in {phase, "Error"}
  <2>1. Left(p)
    BY <1>1, <1>3, Returns
  <2> QED BY <1>1, <1>3, <2>1, AttemptEnds
<1>4. CASE EnterRecovery(p, obs[p].op)
  <2>1. Left(p) /\ phase' \in {phase, "Reconnecting", "Error"}
    BY <1>1, <1>4, EntersRecovery
  <2> QED BY <1>1, <2>1, AttemptEnds
<1>5. CASE phase' \in Connecting /\ Goto(p, "start") /\ UNCHANGED <<mutation, rec>>
  <2>1. "start" \in Starting /\ "start" \in LabelsOf(p) \cap Critical
        /\ pc[p] \in Queued \cup Critical
    BY <1>1 DEF Starting, Teardown, LabelsOf, UserLabels, MonitorLabels, Critical
  <2>2. GoesOn(p, "start")
    BY <1>1, <1>5, <2>1, Proceeds
  <2> QED BY <1>1, <1>5, <2>1, <2>2, AttemptGoesOn
<1> QED BY <1>2, <1>3, <1>4, <1>5

LEMMA StartStep ==
    ASSUME IInv, NEW p \in {"user", "monitor"}, Start(p)
    PROVE  IInv'
<1>1. /\ pc[p] = "start" /\ Holds(p) /\ p \in Procs /\ TypeInv /\ Lock
      /\ UNCHANGED <<lease, token, call, target, mine, retry, own, dataPlane, stopped>>
      /\ agent \in [state : {"clean", "pending", "active", "exhausted"}, op : Nat]
      /\ dataPlane = None /\ phase \in Connecting
  BY DEF Start, locals, Procs, IInv, TypeInv, Owned, Phased, Connecting, Starting, Teardown
<1>2. \/ /\ phase' = phase /\ Goto(p, "started") /\ UNCHANGED <<mutation, rec>>
         /\ agent' = [agent EXCEPT !.state = "active"]
      \/ /\ \E err \in BOOLEAN : Return(p, err)
         /\ phase' \in {phase, "Error"}
         /\ \/ agent' = agent
            \/ agent' = [state |-> "pending", op |-> agent.op + 1]
      \/ /\ EnterRecovery(p, agent'.op)
         /\ \/ agent' = agent
            \/ agent' = [state |-> "pending", op |-> agent.op + 1]
  BY DEF Start, MarkError, intents
<1>3. CASE /\ phase' = phase /\ Goto(p, "started") /\ UNCHANGED <<mutation, rec>>
           /\ agent' = [agent EXCEPT !.state = "active"]
  <2>1. "started" \in Starting /\ "started" \in LabelsOf(p) \cap Critical
        /\ pc[p] \in Queued \cup Critical
    BY <1>1 DEF Starting, Teardown, LabelsOf, UserLabels, MonitorLabels, Critical
  <2>2. GoesOn(p, "started")
    BY <1>1, <1>3, <2>1, Proceeds
  <2>3. agent' \in [state : {"clean", "pending", "active", "exhausted"}, op : Nat]
    BY <1>1, <1>3
  <2> QED BY <1>1, <1>3, <2>1, <2>2, <2>3, AttemptGoesOn
<1>4. CASE \/ agent' = agent
           \/ agent' = [state |-> "pending", op |-> agent.op + 1]
  <2>1. agent' \in [state : {"clean", "pending", "active", "exhausted"}, op : Nat]
        /\ (agent'.state = "active" => agent.state = "active")
    BY <1>1, <1>4
  <2>2. CASE (\E err \in BOOLEAN : Return(p, err)) /\ phase' \in {phase, "Error"}
    <3>1. Left(p)
      BY <1>1, <2>2, Returns
    <3> QED BY <1>1, <2>1, <2>2, <3>1, AttemptEnds
  <2>3. CASE EnterRecovery(p, agent'.op)
    <3>1. Left(p) /\ phase' \in {phase, "Reconnecting", "Error"}
      BY <1>1, <2>3, EntersRecovery
    <3> QED BY <1>1, <2>1, <3>1, AttemptEnds
  <2>4. CASE Goto(p, "started") /\ agent' = [agent EXCEPT !.state = "active"]
             /\ phase' = phase /\ UNCHANGED <<mutation, rec>>
    BY <2>4, <1>3
  <2> QED BY <1>2, <2>2, <2>3, <2>4
<1> QED BY <1>2, <1>3, <1>4

\* A new owner has not failed and goes behind the others.
LEMMA NewOwner ==
    ASSUME NEW s \in Seq(BOOLEAN)
    PROVE  /\ Append(s, FALSE) \in Seq(BOOLEAN) /\ Append(s, FALSE) # <<>>
           /\ Len(s) \in Nat /\ Len(Append(s, FALSE)) = Len(s) + 1
           /\ \A i \in 1..Len(s) : Append(s, FALSE)[i] = s[i]
           /\ Append(s, FALSE)[Len(s) + 1] = FALSE
           /\ Head(Append(s, FALSE)) = IF s = <<>> THEN FALSE ELSE Head(s)
<1>1. /\ Append(s, FALSE) \in Seq(BOOLEAN) /\ Len(s) \in Nat
      /\ Len(Append(s, FALSE)) = Len(s) + 1
      /\ \A i \in 1..Len(s) : Append(s, FALSE)[i] = s[i]
      /\ Append(s, FALSE)[Len(s) + 1] = FALSE
  OBVIOUS
<1>2. Append(s, FALSE) # <<>>
  <2>1. Len(<<>>) = 0
    OBVIOUS
  <2>2. Len(Append(s, FALSE)) # 0
    BY <1>1
  <2> QED BY <2>1, <2>2
<1>3. CASE s = <<>>
  BY <1>1, <1>3
<1>4. CASE s # <<>>
  <2>1. 1 \in 1..Len(s)
    BY <1>4
  <2> DEFINE t == Append(s, FALSE)
  <2>2. t[1] = s[1] /\ t \in Seq(BOOLEAN) /\ t # <<>>
    BY <1>1, <1>2, <2>1
  <2> HIDE DEF t
  <2>3. Head(t) = t[1]
    BY <2>2
  <2>4. Head(s) = s[1]
    BY <1>4
  <2> QED BY <1>1, <1>2, <1>4, <2>2, <2>3, <2>4 DEF t
<1> QED BY <1>1, <1>2, <1>3, <1>4

\* The flags of the owners depend on the queue and the flag alone.
LEMMA FlagsOfNewOwner ==
    ASSUME Flags, owners \in Seq(BOOLEAN), owners' = Append(owners, FALSE), failed' = failed
    PROVE  Flags'
<1>1. /\ Len(owners) \in Nat /\ Len(owners') = Len(owners) + 1
      /\ \A i \in 1..Len(owners) : owners'[i] = owners[i]
      /\ owners'[Len(owners) + 1] = FALSE
  BY NewOwner
<1>2. SUFFICES ASSUME NEW i \in 1..Len(owners'), owners'[i]
               PROVE  i = 1 /\ failed'
  BY DEF Flags
<1>3. i # Len(owners) + 1
  BY <1>1, <1>2
<1>4. i \in 1..Len(owners) /\ owners[i]
  BY <1>1, <1>2, <1>3
<1> QED BY <1>4 DEF Flags

LEMMA StartedStep ==
    ASSUME IInv, NEW p \in {"user", "monitor"}, Started(p)
    PROVE  IInv'
<1>1. TypeInv /\ Lock /\ Leased /\ Owned /\ Phased /\ Flags /\ Overtaken /\ Visible /\ Final
  BY DEF IInv
<1>2. /\ pc[p] = "started" /\ Holds(p) /\ Return(p, FALSE) /\ p \in Procs
      /\ UNCHANGED <<lease, token, call, target, mine, retry, failed, cleanup, agent, stopped>>
      /\ \/ owners' = Append(owners, FALSE) /\ UNCHANGED <<phase, dataPlane>>
         \/ dataPlane' = target[p] /\ phase' = "Connected" /\ owners' = owners
  BY DEF Started, Procs, conn, locals
<1>3. /\ \A q \in Procs : q # p => pc[q] \notin Critical
      /\ ~stopped /\ target[p] \in Profiles /\ target[p] # None
  BY <1>2, InsideLock DEF Critical, Starting, Teardown
<1>4. owners = <<>> /\ cleanup = "none" /\ dataPlane = None
  BY <1>1, <1>2 DEF Owned, Starting, Teardown
<1>5. Left(p)
  BY <1>1, <1>2, Returns
<1>6. /\ pc'[p] = IF p = "user" THEN "reply" ELSE "check"
      /\ \A q \in Procs : q # p => pc'[q] = pc[q]
  BY <1>5 DEF Left
<1>7. /\ owners' \in Seq(BOOLEAN) /\ (owners' # <<>> => Head(owners') = FALSE)
      /\ \/ owners' # <<>> /\ UNCHANGED <<phase, dataPlane>>
         \/ dataPlane' = target[p] /\ phase' = "Connected" /\ owners' = <<>>
  BY <1>1, <1>2, <1>4, NewOwner DEF TypeInv
<1>8. TypeInv'
  BY <1>1, <1>2, <1>3, <1>5, <1>7 DEF TypeInv, Left, RecTyped, Phases
<1>9. Leased'
  BY <1>1, <1>2, <1>6 DEF Leased, Exiting, Procs, Teardown
<1>10. Owned'
  BY <1>1, <1>2, <1>3, <1>4, <1>6, <1>7
     DEF Owned, OwnedUntilClean, Critical, Starting, Teardown, Procs
<1>11. Phased'
  BY <1>1, <1>2, <1>3, <1>4, <1>6, <1>7
     DEF Phased, Connecting, Critical, Starting, Teardown, Procs
<1>12. Flags' /\ Shown' /\ ~Flagged'
  <2>1. Flags'
    BY <1>1, <1>2, FlagsOfNewOwner DEF Flags, TypeInv
  <2> QED BY <1>7, <2>1 DEF Shown, Flagged
<1>13. Visible'
  BY <1>1, <1>2, <1>3, <1>4, <1>6, <1>12 DEF Visible, Procs, Critical, Starting, Teardown
<1>14. Final'
  BY <1>1, <1>2, <1>3, <1>5, <1>6
     DEF Final, Withdrawn, Left, StaysWithdrawn, Procs, Exiting, Critical, Starting, Teardown
<1>15. Overtaken'
  BY <1>2, <1>3, <1>4, <1>6, OvertakesNobody
<1> QED BY <1>5, <1>8, <1>9, <1>10, <1>11, <1>12, <1>13, <1>14, <1>15 DEF IInv, Left

\* The front owner failed.
LEMMA FrontFails ==
    ASSUME Flags, owners \in Seq(BOOLEAN), owners # <<>>,
           owners' = [owners EXCEPT ![1] = TRUE], failed' = TRUE
    PROVE  owners' \in Seq(BOOLEAN) /\ owners' # <<>> /\ Flags'
<1>1. /\ owners' \in Seq(BOOLEAN) /\ Len(owners') = Len(owners)
      /\ \A i \in 1..Len(owners) : i # 1 => owners'[i] = owners[i]
  OBVIOUS
<1>2. Len(owners) # 0 /\ Len(<<>>) = 0
  OBVIOUS
<1>3. owners' # <<>>
  BY <1>1, <1>2
<1>4. Flags'
  BY <1>1 DEF Flags
<1> QED BY <1>1, <1>3, <1>4

\* The end of the task is collected: nothing leaves the queue.
LEMMA Collects ==
    ASSUME TypeInv, Flags, Collect
    PROVE  /\ cleanup \notin Running /\ cleanup' = "none"
           /\ owners' \in Seq(BOOLEAN) /\ failed' \in BOOLEAN
           /\ owners' = <<>> <=> owners = <<>>
           /\ Flags'
           /\ cleanup # "panicked" => owners' = owners
           /\ ~Unconfirmed => owners = <<>>
<1>1. cleanup \notin Running /\ cleanup' = "none"
  BY DEF Collect
<1>2. owners \in Seq(BOOLEAN) /\ failed \in BOOLEAN
  BY DEF TypeInv
<1>3. CASE cleanup = "panicked" /\ owners # <<>>
  <2>1. owners' = [owners EXCEPT ![1] = TRUE] /\ failed' = TRUE
    BY <1>3 DEF Collect
  <2> QED BY <1>1, <1>2, <1>3, <2>1, FrontFails DEF Unconfirmed
<1>4. CASE ~(cleanup = "panicked" /\ owners # <<>>)
  <2>1. UNCHANGED <<owners, failed>>
    BY <1>4 DEF Collect
  <2> QED BY <1>1, <1>2, <2>1 DEF Flags, Unconfirmed
<1> QED BY <1>3, <1>4

LEMMA AwaitCleanupStep ==
    ASSUME IInv, NEW p \in {"user", "monitor"}, AwaitCleanup(p)
    PROVE  IInv'
<1>1. TypeInv /\ Lock /\ Leased /\ Owned /\ Phased /\ Flags /\ Overtaken /\ Visible /\ Final
  BY DEF IInv
<1>2. /\ pc[p] = "await" /\ Holds(p) /\ p \in Procs /\ pc[p] \in Critical
      /\ UNCHANGED <<lease, token, call, target, mine, retry, agent, stopped>>
  BY DEF AwaitCleanup, Procs, locals, Critical, Teardown
<1>3. /\ \A q \in Procs : q # p => pc[q] \notin Critical
      /\ ~stopped /\ target[p] \in Profiles /\ target[p] # None
  BY <1>2, InsideLock
<1>4. CASE Cancelled(p) /\ Return(p, FALSE) /\ UNCHANGED <<own, conn>>
  <2>1. Left(p)
    BY <1>1, <1>2, <1>4, Returns
  <2>2. /\ pc'[p] = IF p = "user" THEN "reply" ELSE "check"
        /\ \A q \in Procs : q # p => pc'[q] = pc[q]
    BY <2>1 DEF Left
  <2>3. UNCHANGED <<owners, failed, cleanup, phase, dataPlane>>
    BY <1>4 DEF own, conn
  <2>4. TypeInv'
    BY <1>1, <1>2, <2>1, <2>3 DEF TypeInv, Left, RecTyped
  <2>5. Leased'
    BY <1>1, <1>2, <2>2 DEF Leased, Exiting, Procs, Teardown
  <2>6. Owned'
    BY <1>1, <1>2, <1>3, <2>2, <2>3
       DEF Owned, OwnedUntilClean, Critical, Starting, Teardown, Procs
  <2>7. Phased'
    BY <1>1, <1>2, <1>3, <2>2, <2>3
       DEF Phased, Connecting, Critical, Starting, Teardown, Procs
  <2>8. Flags' /\ (Shown' <=> Shown) /\ (Flagged' <=> Flagged)
    BY <1>1, <2>3 DEF Flags, Shown, Flagged
  <2>9. Shown \/ token.cancelled
    BY <1>1, <1>2, <1>4 DEF Owned, Shown, Flagged, Leased, Cancelled, Teardown
  <2>10. Visible'
    BY <1>1, <1>2, <1>3, <2>2, <2>3, <2>8, <2>9
       DEF Visible, Critical, Starting, Teardown, Procs
  <2>11. Final'
    BY <1>1, <1>2, <1>3, <2>1, <2>2, <2>3
       DEF Final, Withdrawn, Left, StaysWithdrawn, Procs, Exiting, Critical, Starting, Teardown
  <2>12. Overtaken'
    BY <1>1, <1>2, <1>3, <2>2, <2>3, OvertakesNobody DEF Overtaken
  <2> QED BY <2>1, <2>4, <2>5, <2>6, <2>7, <2>8, <2>10, <2>11, <2>12 DEF IInv, Left
<1>5. CASE Collect /\ Unconfirmed /\ Return(p, TRUE) /\ MarkError("cleanup") /\ UNCHANGED dataPlane
  <2>1. Left(p)
    BY <1>1, <1>2, <1>5, Returns
  <2>2. /\ pc'[p] = IF p = "user" THEN "reply" ELSE "check"
        /\ \A q \in Procs : q # p => pc'[q] = pc[q]
    BY <2>1 DEF Left
  <2>3. /\ cleanup \notin Running /\ cleanup' = "none"
        /\ owners' \in Seq(BOOLEAN) /\ failed' \in BOOLEAN
        /\ owners' = <<>> <=> owners = <<>>
        /\ Flags'
        /\ phase' = "Error" /\ dataPlane' = dataPlane
    BY <1>1, <1>5, Collects DEF MarkError
  <2>4. TypeInv'
    BY <1>1, <1>2, <2>1, <2>3 DEF TypeInv, Left, RecTyped, Phases, TaskStates
  <2>5. Leased'
    BY <1>1, <1>2, <2>2 DEF Leased, Exiting, Procs, Teardown
  <2>6. Owned'
    BY <1>1, <1>2, <1>3, <2>2, <2>3
       DEF Owned, OwnedUntilClean, Critical, Starting, Teardown, Procs
  <2>7. Phased'
    BY <1>1, <1>2, <1>3, <2>2, <2>3
       DEF Phased, Connecting, Critical, Starting, Teardown, Procs
  <2>8. Shown'
    BY <2>3 DEF Shown
  <2>9. Visible'
    BY <1>1, <1>2, <1>3, <2>2, <2>3, <2>8 DEF Visible, Critical, Starting, Teardown, Procs
  <2>10. Final'
    BY <1>1, <1>2, <1>3, <2>1, <2>2, <2>3
       DEF Final, Withdrawn, Left, StaysWithdrawn, Procs, Exiting, Critical, Starting, Teardown
  <2>11. Overtaken'
    BY <1>2, <1>3, <2>2, <2>3, OvertakesNobody
  <2> QED BY <2>1, <2>3, <2>4, <2>5, <2>6, <2>7, <2>9, <2>10, <2>11 DEF IInv, Left
<1>6. CASE Collect /\ ~Unconfirmed /\ Goto(p, "body") /\ UNCHANGED <<mutation, intents, conn>>
  <2>1. "body" \in LabelsOf(p) \cap Critical /\ pc[p] \in Queued \cup Critical
    BY <1>2 DEF LabelsOf, UserLabels, MonitorLabels, Critical, Teardown
  <2>2. GoesOn(p, "body")
    BY <1>1, <1>2, <1>6, <2>1, Proceeds
  <2>3. /\ pc'[p] = "body"
        /\ \A q \in Procs : q # p => pc'[q] = pc[q]
    BY <2>2 DEF GoesOn
  <2>4. /\ cleanup' = "none" /\ failed' \in BOOLEAN
        /\ owners' = <<>> /\ owners = <<>> /\ owners' \in Seq(BOOLEAN)
        /\ Flags' /\ UNCHANGED <<phase, dataPlane, rec>>
    BY <1>1, <1>6, Collects DEF conn, intents
  <2>5. TypeInv'
    BY <1>1, <1>2, <2>2, <2>4 DEF TypeInv, GoesOn, TaskStates
  <2>6. Leased'
    BY <1>1, <1>2, <2>3 DEF Leased, Exiting, Procs, Teardown
  <2>7. Owned'
    BY <1>1, <1>2, <1>3, <2>3, <2>4
       DEF Owned, OwnedUntilClean, Critical, Starting, Teardown, Procs
  <2>8. Phased'
    BY <1>1, <1>2, <1>3, <2>3, <2>4
       DEF Phased, Connecting, Critical, Starting, Teardown, Procs
  <2>9. Shown' /\ ~Flagged'
    BY <2>4 DEF Shown, Flagged
  <2>10. Visible'
    BY <1>1, <1>2, <1>3, <2>3, <2>4, <2>9 DEF Visible, Critical, Starting, Teardown, Procs
  <2>11. Final'
    BY <1>1, <1>2, <1>3, <2>3, <2>4
       DEF Final, Withdrawn, Procs, Exiting, Critical, Starting, Teardown
  <2>12. Overtaken'
    BY <1>2, <1>3, <2>3, <2>4, OvertakesNobody
  <2> QED BY <2>2, <2>4, <2>5, <2>6, <2>7, <2>8, <2>10, <2>11, <2>12 DEF IInv, GoesOn
<1> QED BY <1>4, <1>5, <1>6 DEF AwaitCleanup

LEMMA AttemptStep ==
    ASSUME IInv, NEW p \in {"user", "monitor"}, Attempt(p)
    PROVE  IInv'
  BY AwaitCleanupStep, PrepareStep, PreflightStep, InspectStep, StartStep, StartedStep
     DEF Attempt

-----------------------------------------------------------------------------
(* disconnect_locked *)

\* Its end, and the places after it.
LEMMA AfterDownPlace ==
    ASSUME NEW p \in Procs
    PROVE  AfterDown(p) \in LabelsOf(p) \cap Critical
           /\ AfterDown(p) \in {"await", "retry", "collect"}
  BY
     DEF AfterDown, Procs, LabelsOf, UserLabels, StopLabels, MonitorLabels, Critical, Teardown

\* The owner queue has its front owner in view of the flag.
LEMMA FlaggedFailed ==
    ASSUME TypeInv, Flags, Flagged
    PROVE  failed
<1>1. owners \in Seq(BOOLEAN) /\ owners # <<>>
  BY DEF TypeInv, Flagged
<1>2. 1 \in 1..Len(owners) /\ Head(owners) = owners[1]
  BY <1>1
<1>3. owners[1]
  BY <1>2 DEF Flagged
<1> QED BY <1>2, <1>3 DEF Flags

\* The session was down already: only the task may be started.
LEMMA DownAlready ==
    ASSUME IInv, NEW p \in Procs, Holds(p), pc[p] \in {"down", "flag"},
           dataPlane = None, StartQueued, Goto(p, AfterDown(p)),
           UNCHANGED <<lease, token, mutation, call, target, mine, retry, owners, failed,
                       phase, dataPlane, rec, agent, stopped>>
    PROVE  IInv'
<1>1. TypeInv /\ Lock /\ Leased /\ Owned /\ Phased /\ Flags /\ Overtaken /\ Visible /\ Final
  BY DEF IInv
<1>2. pc[p] \in Critical
  BY DEF Critical, Teardown
<1>3. /\ \A q \in Procs : q # p => pc[q] \notin Critical
      /\ ~stopped
  BY <1>2, InsideLock
<1>4. GoesOn(p, AfterDown(p))
  BY <1>1, <1>2, AfterDownPlace, Proceeds
<1>5. /\ pc'[p] = AfterDown(p)
      /\ \A q \in Procs : q # p => pc'[q] = pc[q]
  BY <1>4 DEF GoesOn
<1>6. cleanup' \in {cleanup, "spawned"}
  BY DEF StartQueued
<1>7. TypeInv'
  BY <1>1, <1>4, <1>6 DEF TypeInv, GoesOn, TaskStates, Running
<1>8. Leased'
  BY <1>1, <1>5 DEF Leased, Exiting, Procs, AfterDown, Teardown
<1>9. Owned'
  BY <1>1, <1>3, <1>5, <1>6
     DEF Owned, OwnedUntilClean, Critical, Starting, Teardown, Procs, AfterDown
<1>10. Phased'
  BY <1>1, <1>3, <1>5, <1>6
     DEF Phased, Connecting, Critical, Starting, Teardown, Procs, AfterDown
<1>11. Flags' /\ (Shown => Shown') /\ (Flagged' <=> Flagged)
  BY <1>1, <1>6 DEF Flags, Shown, Flagged, Running
<1>12. Visible'
  BY <1>1, <1>3, <1>5, <1>11 DEF Visible, Critical, Teardown, Procs, AfterDown
<1>13. Final'
  BY <1>1, <1>3, <1>5
     DEF Final, Withdrawn, Procs, Exiting, Critical, Starting, Teardown, AfterDown
<1>14. Overtaken'
  BY <1>1, <1>3, <1>5, <1>6, OvertakesNobody DEF Overtaken, AfterDown
<1> QED BY <1>4, <1>7, <1>8, <1>9, <1>10, <1>11, <1>12, <1>13, <1>14 DEF IInv, GoesOn

\* The teardown goes on, the task in its back.
LEMMA DownGoesOn ==
    ASSUME IInv, NEW p \in Procs, Holds(p), pc[p] \in {"down", "flag"},
           NEW l \in {"flag", "leave"}, Goto(p, l),
           UNCHANGED <<lease, token, mutation, call, target, mine, retry, owners, failed,
                       phase, dataPlane, rec, agent, stopped, cleanup>>,
           l = "flag" => dataPlane = None /\ phase # "Disconnected",
           l = "leave" => /\ phase = "Disconnected" \/ cleanup = "clearing" => owners = <<>>
                          /\ ~Flagged
    PROVE  IInv'
<1>1. TypeInv /\ Lock /\ Leased /\ Owned /\ Phased /\ Flags /\ Overtaken /\ Visible /\ Final
  BY DEF IInv
<1>2. pc[p] \in Critical /\ l \in LabelsOf(p) \cap Critical
  BY DEF Critical, Teardown, Procs, LabelsOf, UserLabels, StopLabels, MonitorLabels
<1>3. /\ \A q \in Procs : q # p => pc[q] \notin Critical
      /\ ~stopped
  BY <1>2, InsideLock
<1>4. GoesOn(p, l)
  BY <1>1, <1>2, Proceeds
<1>5. /\ pc'[p] = l
      /\ \A q \in Procs : q # p => pc'[q] = pc[q]
  BY <1>4 DEF GoesOn
<1>6. TypeInv'
  BY <1>1, <1>4 DEF TypeInv, GoesOn
<1>7. Leased'
  BY <1>1, <1>5 DEF Leased, Exiting, Procs, Teardown
<1>8. Owned'
  BY <1>1, <1>3, <1>5 DEF Owned, OwnedUntilClean, Critical, Starting, Teardown, Procs
<1>9. Phased'
  BY <1>1, <1>3, <1>5 DEF Phased, Connecting, Critical, Starting, Teardown, Procs
<1>10. Flags' /\ (Shown' <=> Shown) /\ (Flagged' <=> Flagged)
  BY <1>1 DEF Flags, Shown, Flagged
<1>11. Visible'
  BY <1>1, <1>3, <1>5, <1>10 DEF Visible, Critical, Teardown, Procs
<1>12. Final'
  BY <1>1, <1>3, <1>5 DEF Final, Withdrawn, Procs, Exiting, Critical, Starting, Teardown
<1>13. Overtaken'
  BY <1>1, <1>3, <1>5, <1>10 DEF Overtaken, Critical, Teardown
<1> QED BY <1>4, <1>6, <1>7, <1>8, <1>9, <1>10, <1>11, <1>12, <1>13 DEF IInv, GoesOn

LEMMA DownStep ==
    ASSUME IInv, NEW p \in Procs, Down(p)
    PROVE  IInv'
<1>1. /\ pc[p] = "down" /\ Holds(p)
      /\ UNCHANGED <<lease, token, mutation, call, target, mine, retry, owners, failed,
                     phase, dataPlane, rec, agent, stopped>>
  BY DEF Down, locals, conn, intents
<1>2. CASE dataPlane = None /\ phase = "Disconnected"
  <2>1. StartQueued /\ Goto(p, AfterDown(p))
    BY <1>2 DEF Down
  <2> QED BY <1>1, <1>2, <2>1, DownAlready
<1>3. CASE dataPlane = None /\ phase # "Disconnected"
  <2>1. cleanup' = cleanup /\ Goto(p, "flag")
    BY <1>3 DEF Down
  <2> QED BY <1>1, <1>3, <2>1, DownGoesOn
<1>4. CASE dataPlane # None
  <2>1. cleanup' = cleanup /\ Goto(p, "leave")
    BY <1>4 DEF Down
  <2>2. owners = <<>> /\ ~Flagged
    BY <1>4 DEF IInv, Owned, Flagged
  <2> QED BY <1>1, <2>1, <2>2, DownGoesOn
<1> QED BY <1>2, <1>3, <1>4

LEMMA DownFlagStep ==
    ASSUME IInv, NEW p \in Procs, DownFlag(p)
    PROVE  IInv'
<1>1. /\ pc[p] = "flag" /\ Holds(p) /\ dataPlane = None
      /\ UNCHANGED <<lease, token, mutation, call, target, mine, retry, owners, failed,
                     phase, dataPlane, rec, agent, stopped>>
  BY DEF DownFlag, locals, conn, intents, IInv, Owned
<1>2. CASE failed
  <2>1. StartQueued /\ Goto(p, AfterDown(p))
    BY <1>2 DEF DownFlag
  <2> QED BY <1>1, <2>1, DownAlready
<1>3. CASE ~failed
  <2>1. cleanup' = cleanup /\ Goto(p, "leave")
    BY <1>3 DEF DownFlag
  <2>2. ~Flagged
    BY <1>3, FlaggedFailed DEF IInv
  <2>3. phase = "Disconnected" \/ cleanup = "clearing" => owners = <<>>
    BY <1>1, <1>3 DEF IInv, Overtaken
  <2> QED BY <1>1, <2>1, <2>2, <2>3, DownGoesOn
<1> QED BY <1>2, <1>3

\* A refused teardown: the task overtook it, and no runtime is left.
LEMMA NotLeftStep ==
    ASSUME IInv, NEW p \in Procs, Leave(p),
           ~(phase = "Disconnecting" \/ CanTransition(phase, "Disconnecting"))
    PROVE  IInv'
<1>1. TypeInv /\ Lock /\ Leased /\ Owned /\ Phased /\ Flags /\ Overtaken /\ Visible /\ Final
  BY DEF IInv
<1>2. /\ pc[p] = "leave" /\ Holds(p) /\ pc[p] \in Critical /\ NotLeft(p)
      /\ UNCHANGED <<token, call, target, mine, retry, dataPlane, owners, failed, cleanup,
                     agent, stopped>>
  BY DEF Leave, locals, own, Critical, Teardown
<1>3. phase = "Disconnected" /\ dataPlane = None /\ owners = <<>>
  BY <1>1, <1>2 DEF TypeInv, Phases, CanTransition, Connecting, Phased, Overtaken
<1>4. /\ \A q \in Procs : q # p => pc[q] \notin Critical
      /\ ~stopped
  BY <1>2, InsideLock
<1> DEFINE l == IF p = "user" THEN "reply" ELSE IF p = "monitor" THEN "check"
                ELSE IF Exiting THEN "retry" ELSE "idle"
<1>5. /\ Lock' /\ mutation' \in Seq(Procs)
      /\ pc' \in [Procs -> Labels] /\ \A q \in Procs : pc'[q] \in LabelsOf(q)
      /\ pc'[p] = l /\ \A q \in Procs : q # p => pc'[q] = pc[q]
      /\ RecTyped' /\ StaysWithdrawn
      /\ phase' \in {"Disconnected", "Error"}
      /\ lease' = IF p = "stop" /\ ~Exiting THEN None ELSE lease
  <2>1. CASE p = "user"
    <3>1. Return(p, TRUE) /\ UNCHANGED <<lease, phase>>
      BY <1>2, <2>1 DEF NotLeft
    <3>2. Left(p)
      BY <1>1, <1>2, <2>1, <3>1, Returns
    <3> QED BY <1>3, <2>1, <3>1, <3>2 DEF Left
  <2>2. CASE p = "monitor"
    <3>1. /\ pc' = [pc EXCEPT ![p] = "check"] /\ mutation' = Tail(mutation)
          /\ rec' = [rec EXCEPT !.pending = None] /\ phase' = "Error" /\ lease' = lease
      BY <1>2, <2>2 DEF NotLeft, Goto, MarkError
    <3>2. RecTyped' /\ StaysWithdrawn
      BY <1>1, <3>1 DEF TypeInv, RecTyped, StaysWithdrawn
    <3>3. Left(p)
      BY <1>1, <1>2, <2>2, <3>1, <3>2, Departs
    <3> QED BY <2>2, <3>1, <3>3 DEF Left
  <2>3. CASE p = "stop" /\ Exiting
    <3>1. Goto(p, AfterDown(p)) /\ UNCHANGED <<lease, mutation, rec, phase>>
      BY <1>2, <2>3 DEF NotLeft, intents
    <3>2. GoesOn(p, AfterDown(p))
      BY <1>1, <1>2, <3>1, AfterDownPlace, Proceeds
    <3>3. RecTyped' /\ StaysWithdrawn
      BY <1>1, <3>1 DEF TypeInv, RecTyped, StaysWithdrawn
    <3> QED BY <1>3, <2>3, <3>1, <3>2, <3>3 DEF GoesOn, AfterDown
  <2>4. CASE p = "stop" /\ ~Exiting
    <3>1. /\ pc' = [pc EXCEPT ![p] = "idle"] /\ mutation' = Tail(mutation) /\ lease' = None
          /\ UNCHANGED <<rec, phase>>
      BY <1>2, <2>4 DEF NotLeft, Goto, intents
    <3>2. "idle" \in LabelsOf(p) /\ "idle" \notin Queued \cup Critical
      BY <2>4 DEF LabelsOf, StopLabels, Queued, Critical, Starting, Teardown
    <3>3. Lock' /\ mutation' \in Seq(Procs)
      BY <1>1, <1>2, <3>1, <3>2, Leaves DEF TypeInv
    <3>4. pc' \in [Procs -> Labels] /\ (\A q \in Procs : pc'[q] \in LabelsOf(q))
          /\ pc'[p] = "idle" /\ \A q \in Procs : q # p => pc'[q] = pc[q]
      BY <1>1, <3>1, <3>2, Moves
    <3>5. RecTyped' /\ StaysWithdrawn
      BY <1>1, <3>1 DEF TypeInv, RecTyped, StaysWithdrawn
    <3> QED BY <1>3, <2>4, <3>1, <3>3, <3>4, <3>5
  <2> QED BY <2>1, <2>2, <2>3, <2>4 DEF Procs
<1>6. TypeInv'
  BY <1>1, <1>2, <1>5 DEF TypeInv, RecTyped, Phases
<1>7. Leased'
  BY <1>1, <1>2, <1>5, BoundsAssumption DEF Leased, Exiting, Procs, Teardown
<1>8. Owned'
  BY <1>1, <1>2, <1>3, <1>4, <1>5
     DEF Owned, OwnedUntilClean, Critical, Starting, Teardown, Procs
<1>9. Phased'
  BY <1>2, <1>3, <1>4, <1>5 DEF Phased, Connecting, Critical, Starting, Teardown, Procs
<1>10. Flags' /\ Shown' /\ ~Flagged'
  BY <1>1, <1>2, <1>3 DEF Flags, Shown, Flagged
<1>11. Visible'
  BY <1>1, <1>2, <1>3, <1>4, <1>5, <1>10 DEF Visible, Critical, Teardown, Procs
<1>12. Final'
  BY <1>1, <1>2, <1>4, <1>5
     DEF Final, Withdrawn, StaysWithdrawn, Procs, Exiting, Critical, Starting, Teardown
<1>13. Overtaken'
  BY <1>2, <1>3, <1>4, <1>5, OvertakesNobody
<1> QED BY <1>5, <1>6, <1>7, <1>8, <1>9, <1>10, <1>11, <1>12, <1>13 DEF IInv

LEMMA LeaveStep ==
    ASSUME IInv, NEW p \in Procs, Leave(p)
    PROVE  IInv'
<1>1. TypeInv /\ Lock /\ Leased /\ Owned /\ Phased /\ Flags /\ Overtaken /\ Visible /\ Final
  BY DEF IInv
<1>2. /\ pc[p] = "leave" /\ Holds(p) /\ pc[p] \in Critical
      /\ UNCHANGED <<token, call, target, mine, retry, owners, failed, cleanup, agent, stopped>>
  BY DEF Leave, locals, own, Critical, Teardown
<1>3. CASE ~(phase = "Disconnecting" \/ CanTransition(phase, "Disconnecting"))
  BY <1>3, NotLeftStep
<1>4. CASE phase = "Disconnecting" \/ CanTransition(phase, "Disconnecting")
  <2> DEFINE l == IF dataPlane = None THEN "ended" ELSE "queue"
  <2>1. phase' = "Disconnecting" /\ dataPlane' = None /\ Goto(p, l)
        /\ UNCHANGED <<lease, mutation, rec>>
    BY <1>4 DEF Leave, intents
  <2>2. l \in LabelsOf(p) \cap Critical
    BY DEF Procs, LabelsOf, UserLabels, StopLabels, MonitorLabels, Critical, Teardown
  <2>3. GoesOn(p, l)
    BY <1>1, <1>2, <2>1, <2>2, Proceeds
  <2>4. /\ pc'[p] = l
        /\ \A q \in Procs : q # p => pc'[q] = pc[q]
    BY <2>3 DEF GoesOn
  <2>5. /\ \A q \in Procs : q # p => pc[q] \notin Critical
        /\ ~stopped
    BY <1>2, InsideLock
  <2>6. dataPlane # None => ~Flagged /\ cleanup = "none"
    BY <1>1 DEF Owned, Flagged
  <2>7. TypeInv'
    BY <1>1, <1>2, <2>1, <2>3 DEF TypeInv, GoesOn, Phases
  <2>8. Leased'
    BY <1>1, <1>2, <2>1, <2>4 DEF Leased, Exiting, Procs, Teardown
  <2>9. Owned'
    BY <1>1, <1>2, <2>1, <2>4, <2>5
       DEF Owned, OwnedUntilClean, Critical, Starting, Teardown, Procs
  <2>10. Phased'
    BY <1>1, <1>2, <2>1, <2>4, <2>5
       DEF Phased, Connecting, Critical, Starting, Teardown, Procs
  <2>11. Flags' /\ (Flagged' <=> Flagged)
    BY <1>1, <1>2 DEF Flags, Flagged
  <2>12. Visible'
    <3>1. CASE p \in {"user", "monitor"}
      BY <3>1, <1>1, <1>2, <2>1, <2>4, <2>5 DEF Visible, Critical, Teardown, Procs
    <3>2. CASE p = "stop" /\ retry
      BY <3>2, <1>2, <2>1, <2>4 DEF Visible, Teardown
    <3>3. CASE p = "stop" /\ ~retry
      <4>1. dataPlane # None /\ ~Flagged' /\ cleanup' = "none" /\ pc'["stop"] = "queue"
        BY <3>3, <1>1, <1>2, <2>4, <2>6, <2>11 DEF Visible
      <4> QED BY <3>3, <1>2, <4>1 DEF Visible, Shown
    <3> QED BY <3>1, <3>2, <3>3 DEF Procs
  <2>13. Final'
    BY <1>1, <1>2, <2>1, <2>4, <2>5
       DEF Final, Withdrawn, Procs, Exiting, Critical, Starting, Teardown
  <2>14. Overtaken'
    BY <1>1, <1>2, <2>4, <2>5, OvertakesNobody DEF Overtaken
  <2> QED BY <2>3, <2>7, <2>8, <2>9, <2>10, <2>11, <2>12, <2>13, <2>14 DEF IInv, GoesOn
<1> QED BY <1>3, <1>4

LEMMA QueueRuntimeStep ==
    ASSUME IInv, NEW p \in Procs, QueueRuntime(p)
    PROVE  IInv'
<1>1. TypeInv /\ Lock /\ Leased /\ Owned /\ Phased /\ Flags /\ Overtaken /\ Visible /\ Final
  BY DEF IInv
<1>2. /\ pc[p] = "queue" /\ Holds(p) /\ pc[p] \in Critical /\ OwnersFree
      /\ owners' = Append(owners, FALSE) /\ Goto(p, "ended")
      /\ UNCHANGED <<lease, token, mutation, call, target, mine, retry, phase, dataPlane,
                     failed, cleanup, rec, agent, stopped>>
  BY DEF QueueRuntime, locals, conn, intents, Critical, Teardown
<1>3. "ended" \in LabelsOf(p) \cap Critical
  BY DEF Procs, LabelsOf, UserLabels, StopLabels, MonitorLabels, Critical, Teardown
<1>4. GoesOn(p, "ended")
  BY <1>1, <1>2, <1>3, Proceeds
<1>5. /\ pc'[p] = "ended"
      /\ \A q \in Procs : q # p => pc'[q] = pc[q]
  BY <1>4 DEF GoesOn
<1>6. /\ \A q \in Procs : q # p => pc[q] \notin Critical
      /\ ~stopped
  BY <1>2, InsideLock
<1>7. /\ owners' \in Seq(BOOLEAN) /\ owners' # <<>> /\ dataPlane = None
      /\ Flagged' => Flagged
  BY <1>1, <1>2, NewOwner DEF TypeInv, Flagged, Owned
<1>8. TypeInv'
  BY <1>1, <1>2, <1>4, <1>7 DEF TypeInv, GoesOn
<1>9. Leased'
  BY <1>1, <1>2, <1>5 DEF Leased, Exiting, Procs, Teardown
<1>10. Owned'
  BY <1>1, <1>2, <1>5, <1>6, <1>7
     DEF Owned, OwnedUntilClean, Critical, Starting, Teardown, Procs
<1>11. Phased'
  BY <1>1, <1>2, <1>5, <1>6 DEF Phased, Connecting, Critical, Starting, Teardown, Procs
<1>12. Flags' /\ (Shown => Shown')
  BY <1>1, <1>2, <1>7, FlagsOfNewOwner DEF TypeInv, Shown
<1>13. Visible'
  BY <1>1, <1>2, <1>5, <1>6, <1>7, <1>12 DEF Visible, Critical, Teardown, Procs
<1>14. Final'
  BY <1>1, <1>2, <1>5, <1>6
     DEF Final, Withdrawn, Procs, Exiting, Critical, Starting, Teardown
<1>15. Overtaken'
  BY <1>2, <1>5, <1>6, OvertakesNobody DEF OwnersFree, Running
<1> QED BY <1>4, <1>8, <1>9, <1>10, <1>11, <1>12, <1>13, <1>14, <1>15 DEF IInv, GoesOn

LEMMA EndedStep ==
    ASSUME IInv, NEW p \in Procs, Ended(p)
    PROVE  IInv'
<1>1. TypeInv /\ Lock /\ Leased /\ Owned /\ Phased /\ Flags /\ Overtaken /\ Visible /\ Final
  BY DEF IInv
<1>2. /\ pc[p] = "ended" /\ Holds(p) /\ pc[p] \in Critical
      /\ phase' = "Disconnected" /\ StartQueued /\ Goto(p, AfterDown(p))
      /\ UNCHANGED <<lease, token, mutation, call, target, mine, retry, dataPlane,
                     owners, failed, rec, agent, stopped>>
  BY DEF Ended, locals, intents, Critical, Teardown
<1>3. GoesOn(p, AfterDown(p))
  BY <1>1, <1>2, AfterDownPlace, Proceeds
<1>4. /\ pc'[p] = AfterDown(p)
      /\ \A q \in Procs : q # p => pc'[q] = pc[q]
  BY <1>3 DEF GoesOn
<1>5. /\ \A q \in Procs : q # p => pc[q] \notin Critical
      /\ ~stopped
  BY <1>2, InsideLock
<1>6. cleanup' \in {cleanup, "spawned"} /\ dataPlane = None
  BY <1>1, <1>2 DEF StartQueued, Owned
<1>7. TypeInv'
  BY <1>1, <1>2, <1>3, <1>6 DEF TypeInv, GoesOn, TaskStates, Running, Phases
<1>8. Leased'
  BY <1>1, <1>2, <1>4 DEF Leased, Exiting, Procs, AfterDown, Teardown
<1>9. Owned'
  BY <1>1, <1>2, <1>4, <1>5, <1>6
     DEF Owned, OwnedUntilClean, Critical, Starting, Teardown, Procs, AfterDown
<1>10. Phased'
  BY <1>1, <1>2, <1>4, <1>5, <1>6
     DEF Phased, Connecting, Critical, Starting, Teardown, Procs, AfterDown
<1>11. Flags' /\ (Flagged' <=> Flagged) /\ (~Flagged => Shown')
  BY <1>1, <1>2 DEF Flags, Shown, Flagged
<1>12. Visible'
  BY <1>1, <1>2, <1>4, <1>5, <1>11 DEF Visible, Critical, Teardown, Procs, AfterDown
<1>13. Final'
  BY <1>1, <1>2, <1>4, <1>5
     DEF Final, Withdrawn, Procs, Exiting, Critical, Starting, Teardown, AfterDown
<1>14. Overtaken'
  BY <1>1, <1>2, <1>4, <1>5, <1>6, OvertakesNobody DEF Overtaken, AfterDown
<1> QED BY <1>3, <1>7, <1>8, <1>9, <1>10, <1>11, <1>12, <1>13, <1>14 DEF IInv, GoesOn

LEMMA DisconnectingStep ==
    ASSUME IInv, NEW p \in Procs, Disconnecting(p)
    PROVE  IInv'
  BY DownStep, DownFlagStep, LeaveStep, QueueRuntimeStep, EndedStep DEF Disconnecting

-----------------------------------------------------------------------------
(* Requests *)

\* A step outside the lock that leaves the session alone.
LEMMA Outside ==
    ASSUME TypeInv, Owned, Phased, Flags, Overtaken, NEW p \in Procs, pc[p] \notin Critical,
           NEW l \in LabelsOf(p), l \notin Critical, p = "user" => l \in {"idle", "reply"},
           pc' = [pc EXCEPT ![p] = l],
           UNCHANGED <<target, phase, dataPlane, owners, failed, cleanup, agent>>
    PROVE  /\ pc' \in [Procs -> Labels] /\ \A q \in Procs : pc'[q] \in LabelsOf(q)
           /\ pc'[p] = l /\ \A q \in Procs : q # p => pc'[q] = pc[q]
           /\ Owned' /\ Phased' /\ Flags' /\ Overtaken'
           /\ Shown' <=> Shown
           /\ Flagged' <=> Flagged
<1>1. /\ pc' \in [Procs -> Labels] /\ \A q \in Procs : pc'[q] \in LabelsOf(q)
      /\ pc'[p] = l /\ \A q \in Procs : q # p => pc'[q] = pc[q]
  BY Moves
<1>2. Owned'
  BY <1>1 DEF Owned, OwnedUntilClean, Critical, Starting, Teardown, Procs
<1>3. Phased'
  BY <1>1 DEF Phased, Connecting, Critical, Starting, Teardown, Procs
<1>4. Flags' /\ (Shown' <=> Shown) /\ (Flagged' <=> Flagged)
  BY DEF Flags, Shown, Flagged
<1>5. Overtaken'
  BY <1>1, <1>4 DEF Overtaken, Critical, Teardown
<1> QED BY <1>1, <1>2, <1>3, <1>4, <1>5

LEMMA RequestStep ==
    ASSUME IInv, NEW k \in {"connect", "retry"}, NEW profile \in Profiles,
           Request(k, profile)
    PROVE  IInv'
<1>1. TypeInv /\ Lock /\ Leased /\ Owned /\ Phased /\ Flags /\ Overtaken /\ Visible /\ Final
  BY DEF IInv
<1>2. /\ pc["user"] = "idle" /\ lease = None /\ lease' = "user" /\ ~Exiting
      /\ token' = IF token.cancelled
                  THEN [id |-> token.id + 1, cancelled |-> FALSE] ELSE token
      /\ mine' = [mine EXCEPT !["user"] = token'.id]
      /\ call' = [call EXCEPT !["user"] = k]
      /\ target' = [target EXCEPT !["user"] = profile]
      /\ mutation' = Append(mutation, "user") /\ pc' = [pc EXCEPT !["user"] = "lock"]
      /\ stopped' = FALSE
      /\ UNCHANGED <<retry, phase, dataPlane, owners, failed, cleanup, rec, agent>>
  BY DEF Request, Goto, conn, own, intents
<1>3. /\ "user" \in Procs /\ "lock" \in LabelsOf("user") /\ "lock" \in Queued
      /\ "lock" \notin Critical /\ "idle" \notin Queued \cup Critical
  BY DEF Procs, LabelsOf, UserLabels, Queued, Critical, Starting, Teardown
<1>4. /\ pc' \in [Procs -> Labels] /\ \A q \in Procs : pc'[q] \in LabelsOf(q)
      /\ pc'["user"] = "lock" /\ \A q \in Procs : q # "user" => pc'[q] = pc[q]
  BY <1>1, <1>2, <1>3, Moves
<1>5. Lock' /\ mutation' \in Seq(Procs)
  BY <1>1, <1>2, <1>3, Waits DEF TypeInv
<1>6. /\ token' \in [id : Nat, cancelled : BOOLEAN] /\ token'.cancelled = FALSE
      /\ mine' \in [{"user", "monitor"} -> Nat] /\ mine'["user"] = token'.id
      /\ call'["stop"] = call["stop"]
      /\ call' \in [{"user", "stop"} -> {None, "connect", "retry", "disconnect", "exit"}]
      /\ target' \in [{"user", "monitor"} -> Profiles \cup {None}]
      /\ target'["user"] = profile /\ target'["monitor"] = target["monitor"]
  BY <1>1, <1>2 DEF TypeInv
<1>7. TypeInv'
  BY <1>1, <1>2, <1>4, <1>5, <1>6 DEF TypeInv
<1>8. Leased'
  BY <1>1, <1>2, <1>4, <1>6, BoundsAssumption DEF Leased, Exiting, Procs, Teardown
<1>9. Owned'
  BY <1>1, <1>2, <1>3, <1>4, <1>6
     DEF Owned, OwnedUntilClean, Critical, Starting, Teardown, Procs
<1>10. Phased'
  BY <1>1, <1>2, <1>3, <1>4 DEF Phased, Connecting, Critical, Starting, Teardown, Procs
<1>11. Flags' /\ (Shown' <=> Shown) /\ (Flagged' <=> Flagged)
  BY <1>1, <1>2 DEF Flags, Shown, Flagged
<1>12. Visible'
  BY <1>1, <1>2, <1>4, <1>11 DEF Visible, Procs, Teardown
<1>13. Final'
  BY <1>2, <1>6 DEF Final, Withdrawn, Teardown
<1>14. Overtaken'
  BY <1>1, <1>2, <1>4, <1>11 DEF Overtaken
<1> QED BY <1>5, <1>7, <1>8, <1>9, <1>10, <1>11, <1>12, <1>13, <1>14 DEF IInv

LEMMA UserLockedStep ==
    ASSUME IInv, UserLocked
    PROVE  IInv'
<1>1. TypeInv /\ Lock /\ Leased /\ Owned /\ Phased /\ Flags /\ Overtaken /\ Visible /\ Final
  BY DEF IInv
<1>2. /\ pc["user"] = "lock" /\ Holds("user") /\ "user" \in Procs
      /\ pc["user"] \in Queued \cup Critical
      /\ UNCHANGED <<lease, token, call, mine, retry, phase, dataPlane, owners, failed,
                     cleanup, agent, stopped>>
  BY DEF UserLocked, Procs, conn, own, Queued
<1>3. /\ \A q \in Procs : q # "user" => pc[q] \notin Critical
      /\ ~stopped /\ lease = "user"
  BY <1>1, <1>2, HolderAlone DEF Leased, Teardown
<1>4. Flags' /\ (Shown' <=> Shown) /\ (Flagged' <=> Flagged)
  BY <1>1, <1>2 DEF Flags, Shown, Flagged
<1>5. CASE Cancelled("user") /\ Return("user", FALSE) /\ target' = target
  <2>1. Left("user")
    BY <1>1, <1>2, <1>5, Returns
  <2>2. /\ pc'["user"] = "reply"
        /\ \A q \in Procs : q # "user" => pc'[q] = pc[q]
    BY <2>1 DEF Left
  <2>3. token.cancelled
    BY <1>1, <1>2, <1>5 DEF Cancelled, Leased, Teardown
  <2>4. TypeInv'
    BY <1>1, <1>2, <1>5, <2>1 DEF TypeInv, Left, RecTyped
  <2>5. Leased'
    BY <1>1, <1>2, <2>2 DEF Leased, Exiting, Procs, Teardown
  <2>6. Owned'
    BY <1>1, <1>2, <1>5, <2>2
       DEF Owned, OwnedUntilClean, Critical, Starting, Teardown, Procs
  <2>7. Phased'
    BY <1>1, <1>2, <2>2 DEF Phased, Connecting, Critical, Starting, Teardown, Procs
  <2>8. Visible'
    BY <1>1, <1>2, <1>3, <1>4, <2>2, <2>3 DEF Visible, Procs, Teardown
  <2>9. Final'
    BY <1>1, <1>2, <1>3, <2>1, <2>2
       DEF Final, Withdrawn, Left, StaysWithdrawn, Procs, Exiting, Teardown
  <2>10. Overtaken'
    BY <1>1, <1>2, <1>3, <2>2, OvertakesNobody DEF Overtaken
  <2> QED BY <1>4, <2>1, <2>4, <2>5, <2>6, <2>7, <2>8, <2>9, <2>10 DEF IInv, Left
<1>6. CASE /\ ~Cancelled("user")
           /\ target' = IF call["user"] = "retry" /\ dataPlane # None
                        THEN [target EXCEPT !["user"] = dataPlane] ELSE target
           /\ BeginIntent(target'["user"])
           /\ Goto("user", IF call["user"] = "retry" THEN "down" ELSE "await")
           /\ UNCHANGED mutation
  <2> DEFINE l == IF call["user"] = "retry" THEN "down" ELSE "await"
  <2>1. l \in LabelsOf("user") \cap Critical
    BY DEF LabelsOf, UserLabels, Critical, Teardown
  <2>2. GoesOn("user", l)
    BY <1>1, <1>2, <1>6, <2>1, Proceeds
  <2>3. /\ pc'["user"] = l
        /\ \A q \in Procs : q # "user" => pc'[q] = pc[q]
    BY <2>2 DEF GoesOn
  <2>4. ~token.cancelled
    BY <1>6 DEF Cancelled
  <2>5. /\ target' \in [{"user", "monitor"} -> Profiles \cup {None}]
        /\ target'["user"] \in Profiles /\ target'["monitor"] = target["monitor"]
    <3>1. target["user"] \in Profiles
      BY <1>1, <1>2 DEF Owned
    <3>2. target \in [{"user", "monitor"} -> Profiles \cup {None}]
          /\ dataPlane \in Profiles \cup {None}
      BY <1>1 DEF TypeInv
    <3>3. CASE call["user"] = "retry" /\ dataPlane # None
      BY <1>6, <3>2, <3>3
    <3>4. CASE ~(call["user"] = "retry" /\ dataPlane # None)
      BY <1>6, <3>1, <3>2, <3>4
    <3> QED BY <3>3, <3>4
  <2>6. RecTyped'
    <3>1. \E w : rec' = [gen |-> rec.gen + 1,
                         intent |-> [gen |-> rec.gen + 1, profile |-> target'["user"],
                                     attempted |-> FALSE],
                         pending |-> w]
      BY <1>6 DEF BeginIntent
    <3>2. rec.gen + 1 \in Nat
      BY <1>1 DEF TypeInv
    <3> QED BY <3>1, <3>2, <2>5 DEF RecTyped, Intents
  <2>7. TypeInv'
    BY <1>1, <1>2, <2>2, <2>5, <2>6 DEF TypeInv, GoesOn, RecTyped
  <2>8. Leased'
    BY <1>1, <1>2, <2>3 DEF Leased, Exiting, Procs, Teardown
  <2>9. Owned'
    BY <1>1, <1>2, <2>3, <2>5
       DEF Owned, OwnedUntilClean, Critical, Starting, Teardown, Procs
  <2>10. Phased'
    BY <1>1, <1>2, <2>3 DEF Phased, Connecting, Critical, Starting, Teardown, Procs
  <2>11. Visible'
    BY <1>1, <1>2, <1>4, <2>3 DEF Visible, Procs, Teardown
  <2>12. Final'
    BY <1>1, <1>2, <1>3, <2>3, <2>4 DEF Final, Withdrawn, Teardown
  <2>13. Overtaken'
    BY <1>1, <1>2, <1>3, <2>3, OvertakesNobody DEF Overtaken
  <2> QED BY <1>4, <2>2, <2>7, <2>8, <2>9, <2>10, <2>11, <2>12, <2>13 DEF IInv, GoesOn
<1> QED BY <1>5, <1>6 DEF UserLocked

LEMMA ReplyStep ==
    ASSUME IInv, Reply
    PROVE  IInv'
<1>1. TypeInv /\ Lock /\ Leased /\ Owned /\ Phased /\ Flags /\ Overtaken /\ Visible /\ Final
  BY DEF IInv
<1>2. /\ pc["user"] = "reply" /\ lease' = None /\ pc' = [pc EXCEPT !["user"] = "idle"]
      /\ UNCHANGED <<token, mutation, call, target, mine, retry, phase, dataPlane, owners,
                     failed, cleanup, rec, agent, stopped>>
  BY DEF Reply, Goto, locals, conn, own, intents
<1>3. /\ "user" \in Procs /\ "idle" \in LabelsOf("user")
      /\ pc["user"] \notin Queued \cup Critical /\ "idle" \notin Queued \cup Critical
  BY <1>2 DEF Procs, LabelsOf, UserLabels, Queued, Critical, Starting, Teardown
<1>4. /\ pc' \in [Procs -> Labels] /\ \A q \in Procs : pc'[q] \in LabelsOf(q)
      /\ pc'["user"] = "idle" /\ \A q \in Procs : q # "user" => pc'[q] = pc[q]
      /\ Owned' /\ Phased' /\ Flags' /\ Overtaken'
      /\ (Shown' <=> Shown) /\ (Flagged' <=> Flagged)
  BY <1>1, <1>2, <1>3, Outside
<1>5. Lock'
  BY <1>1, <1>2, <1>3, Stays DEF TypeInv
<1>6. lease = "user" /\ ~stopped
  BY <1>1, <1>2 DEF Leased, Teardown
<1>7. TypeInv'
  BY <1>1, <1>2, <1>4 DEF TypeInv
<1>8. Leased'
  BY <1>1, <1>2, <1>4, <1>6 DEF Leased, Exiting, Procs, Teardown
<1>9. Visible'
  BY <1>1, <1>2, <1>4 DEF Visible, Procs, Teardown
<1>10. Final'
  BY <1>1, <1>2, <1>4, <1>6 DEF Final, Withdrawn, Exiting, Procs, Teardown
<1> QED BY <1>4, <1>5, <1>7, <1>8, <1>9, <1>10 DEF IInv

-----------------------------------------------------------------------------
(* Disconnect and exit *)

LEMMA StopAction ==
    ASSUME IInv, NEW k \in {"disconnect", "exit"}, Stop(k)
    PROVE  IInv'
<1> DEFINE l == IF k = "exit" THEN "jobs" ELSE "clear"
<1>1. TypeInv /\ Lock /\ Leased /\ Owned /\ Phased /\ Flags /\ Overtaken /\ Visible /\ Final
  BY DEF IInv
<1>2. /\ pc["stop"] = "idle" /\ ~Exiting /\ pc' = [pc EXCEPT !["stop"] = l]
      /\ token' = [token EXCEPT !.cancelled = TRUE]
      /\ call' = [call EXCEPT !["stop"] = k] /\ stopped' = FALSE
      /\ UNCHANGED <<lease, mutation, target, mine, retry, phase, dataPlane, owners,
                     failed, cleanup, rec, agent>>
  BY DEF Stop, Goto, conn, own, intents
<1>3. /\ "stop" \in Procs /\ l \in LabelsOf("stop") /\ l \notin Queued \cup Critical
      /\ pc["stop"] \notin Queued \cup Critical
  BY <1>2 DEF Procs, LabelsOf, StopLabels, Queued, Critical, Starting, Teardown
<1>4. /\ pc' \in [Procs -> Labels] /\ \A q \in Procs : pc'[q] \in LabelsOf(q)
      /\ pc'["stop"] = l /\ \A q \in Procs : q # "stop" => pc'[q] = pc[q]
      /\ Owned' /\ Phased' /\ Flags' /\ Overtaken'
      /\ (Shown' <=> Shown) /\ (Flagged' <=> Flagged)
  BY <1>1, <1>2, <1>3, Outside
<1>5. Lock'
  BY <1>1, <1>2, <1>3, Stays DEF TypeInv
<1>6. /\ token' \in [id : Nat, cancelled : BOOLEAN] /\ token'.cancelled = TRUE
      /\ token'.id = token.id /\ call'["stop"] = k
      /\ call' \in [{"user", "stop"} -> {None, "connect", "retry", "disconnect", "exit"}]
  BY <1>1, <1>2 DEF TypeInv
<1>7. TypeInv'
  BY <1>1, <1>2, <1>4, <1>6 DEF TypeInv
<1>8. Leased'
  BY <1>1, <1>2, <1>4, <1>6 DEF Leased, Exiting, Procs, Teardown
<1>9. Visible'
  BY <1>2, <1>4, <1>6 DEF Visible, Teardown
<1>10. Final'
  BY <1>2, <1>4, <1>6 DEF Final, Withdrawn, Exiting, Teardown
<1> QED BY <1>4, <1>5, <1>7, <1>8, <1>9, <1>10 DEF IInv

\* A step of the Disconnect outside the lock, or on its way into the queue.
LEMMA StopOutside ==
    ASSUME IInv, pc["stop"] \notin Critical \cup {"idle"},
           NEW l \in LabelsOf("stop"), l \notin Critical, pc' = [pc EXCEPT !["stop"] = l],
           mutation' \in Seq(Procs), Lock',
           lease' \in {lease, "stop"}, lease' # lease => lease = None /\ l = "clear",
           Exiting /\ l \in {"clear", "lock"} => lease' = "stop",
           RecTyped', Withdrawn',
           UNCHANGED <<token, call, target, mine, retry, phase, dataPlane, owners,
                       failed, cleanup, agent, stopped>>
    PROVE  IInv'
<1>1. TypeInv /\ Lock /\ Leased /\ Owned /\ Phased /\ Flags /\ Overtaken /\ Visible /\ Final
  BY DEF IInv
<1>2. "stop" \in Procs
  BY DEF Procs
<1>3. /\ pc' \in [Procs -> Labels] /\ \A q \in Procs : pc'[q] \in LabelsOf(q)
      /\ pc'["stop"] = l /\ \A q \in Procs : q # "stop" => pc'[q] = pc[q]
      /\ Owned' /\ Phased' /\ Flags' /\ Overtaken'
      /\ (Shown' <=> Shown) /\ (Flagged' <=> Flagged)
  BY <1>1, <1>2, Outside
<1>4. ~stopped
  BY <1>1 DEF Final
<1>5. TypeInv'
  BY <1>1, <1>3 DEF TypeInv, RecTyped
<1>6. Leased'
  BY <1>1, <1>3, BoundsAssumption DEF Leased, Exiting, Procs, Critical, Starting, Teardown
<1>7. Visible'
  BY <1>1, <1>3 DEF Visible, Procs, Critical, Starting, Teardown
<1>8. Final'
  BY <1>4 DEF Final
<1> QED BY <1>3, <1>5, <1>6, <1>7, <1>8 DEF IInv

LEMMA StopClearStep ==
    ASSUME IInv, StopClear
    PROVE  IInv'
<1> DEFINE l == IF Exiting THEN "lock" ELSE "jobs"
<1>1. TypeInv /\ Lock /\ Leased /\ Final
  BY DEF IInv
<1>2. /\ pc["stop"] = "clear" /\ pc' = [pc EXCEPT !["stop"] = l]
      /\ mutation' = IF Exiting THEN Append(mutation, "stop") ELSE mutation
      /\ rec' = [gen |-> rec.gen + 1, intent |-> None, pending |-> None]
      /\ UNCHANGED <<lease, token, call, target, mine, retry, phase, dataPlane, owners,
                     failed, cleanup, agent, stopped>>
  BY DEF StopClear, ClearIntent, Goto, locals, conn, own
<1>3. /\ "stop" \in Procs /\ l \in LabelsOf("stop") /\ l \notin Critical
      /\ pc["stop"] \notin Queued \cup Critical /\ "lock" \in Queued
      /\ "jobs" \notin Queued \cup Critical
  BY <1>2 DEF Procs, LabelsOf, StopLabels, Queued, Critical, Starting, Teardown
<1>4. Lock' /\ mutation' \in Seq(Procs)
  <2>1. CASE Exiting
    BY <1>1, <1>2, <1>3, <2>1, Waits DEF TypeInv
  <2>2. CASE ~Exiting
    BY <1>1, <1>2, <1>3, <2>2, Stays DEF TypeInv
  <2> QED BY <2>1, <2>2
<1>5. RecTyped' /\ Withdrawn'
  BY <1>1, <1>2 DEF RecTyped, Withdrawn, TypeInv, Teardown
<1>6. Exiting => lease = "stop"
  BY <1>1, <1>2 DEF Leased, Teardown
<1> QED BY <1>2, <1>3, <1>4, <1>5, <1>6, StopOutside

LEMMA StopJobsStep ==
    ASSUME IInv, StopJobs
    PROVE  IInv'
<1>1. TypeInv /\ Lock /\ Leased /\ Final
  BY DEF IInv
<1>2. /\ pc["stop"] = "jobs"
      /\ UNCHANGED <<token, call, target, mine, retry, phase, dataPlane, owners,
                     failed, cleanup, rec, agent, stopped>>
      /\ "stop" \in Procs /\ pc["stop"] \notin Queued \cup Critical
  BY DEF StopJobs, locals, conn, own, intents, Procs, Queued, Critical, Starting, Teardown
<1>3. RecTyped'
  BY <1>1, <1>2 DEF RecTyped, TypeInv
<1>4. ASSUME NEW l \in {"halt", "idle", "clear"}, pc' = [pc EXCEPT !["stop"] = l],
             mutation' = mutation
      PROVE  /\ l \in LabelsOf("stop") /\ l \notin Critical /\ Lock' /\ mutation' \in Seq(Procs)
             /\ Withdrawn'
  <2>1. l \in LabelsOf("stop") /\ l \notin Queued \cup Critical
    BY DEF LabelsOf, StopLabels, Queued, Critical, Starting, Teardown
  <2>2. Lock' /\ mutation' \in Seq(Procs)
    BY <1>1, <1>2, <1>4, <2>1, Stays DEF TypeInv
  <2>3. pc'["stop"] = l
    BY <1>1, <1>2, <1>4 DEF TypeInv
  <2> QED BY <2>1, <2>2, <2>3 DEF Withdrawn, Teardown
<1>5. CASE /\ \E l \in {"halt", "idle"} : pc' = [pc EXCEPT !["stop"] = l]
           /\ UNCHANGED <<lease, mutation>>
  <2>1. PICK l \in {"halt", "idle"} : pc' = [pc EXCEPT !["stop"] = l]
    BY <1>5
  <2> QED BY <1>2, <1>3, <1>4, <1>5, <2>1, StopOutside
<1>6. CASE /\ ~Exiting /\ mutation' = Append(mutation, "stop")
           /\ pc' = [pc EXCEPT !["stop"] = "lock"] /\ UNCHANGED lease
  <2>1. "lock" \in LabelsOf("stop") /\ "lock" \in Queued /\ "lock" \notin Critical
    BY DEF LabelsOf, StopLabels, Queued, Critical, Starting, Teardown
  <2>2. Lock' /\ mutation' \in Seq(Procs)
    BY <1>1, <1>2, <1>6, <2>1, Waits DEF TypeInv
  <2>3. Withdrawn'
    BY <1>1, <1>2, <1>6 DEF Final, Withdrawn, Exiting, Teardown
  <2> QED BY <1>2, <1>3, <1>6, <2>1, <2>2, <2>3, StopOutside
<1>7. CASE /\ lease = None /\ lease' = "stop" /\ UNCHANGED mutation
           /\ pc' = [pc EXCEPT !["stop"] = "clear"]
  BY <1>2, <1>3, <1>4, <1>7, StopOutside
<1> QED BY <1>5, <1>6, <1>7 DEF StopJobs, Goto

LEMMA StopEndsStep ==
    ASSUME IInv, Refused \/ Halt \/ Exit
    PROVE  IInv'
<1>1. TypeInv /\ Lock /\ Leased /\ Final
  BY DEF IInv
<1>2. PICK l \in {"idle", "joining", "exited"} : pc' = [pc EXCEPT !["stop"] = l]
  BY DEF Refused, Halt, Exit, Goto
<1>3. /\ pc["stop"] \in {"refused", "halt", "joining"}
      /\ UNCHANGED <<lease, token, mutation, call, target, mine, retry, phase, dataPlane,
                     owners, failed, cleanup, rec, agent, stopped>>
  BY DEF Refused, Halt, Exit, locals, conn, own, intents
<1>4. /\ "stop" \in Procs /\ l \in LabelsOf("stop") /\ l \notin Queued \cup Critical
      /\ pc["stop"] \notin Queued \cup Critical /\ pc["stop"] # "idle"
  BY <1>3 DEF Procs, LabelsOf, StopLabels, Queued, Critical, Starting, Teardown
<1>5. Lock' /\ mutation' \in Seq(Procs)
  BY <1>1, <1>2, <1>3, <1>4, Stays DEF TypeInv
<1>6. pc'["stop"] = l
  BY <1>1, <1>2, <1>4 DEF TypeInv
<1>7. RecTyped' /\ Withdrawn'
  BY <1>1, <1>3, <1>6 DEF RecTyped, Withdrawn, TypeInv, Teardown
<1> QED BY <1>2, <1>3, <1>4, <1>5, <1>7, StopOutside

LEMMA StopLockedStep ==
    ASSUME IInv, StopLocked
    PROVE  IInv'
<1>1. TypeInv /\ Lock /\ Leased /\ Owned /\ Phased /\ Flags /\ Overtaken /\ Visible /\ Final
  BY DEF IInv
<1>2. /\ pc["stop"] = "lock" /\ Holds("stop") /\ "stop" \in Procs
      /\ pc["stop"] \in Queued \cup Critical /\ pc["stop"] \notin Critical
      /\ UNCHANGED <<token, call, target, mine, phase, dataPlane, owners, failed,
                     cleanup, rec, agent, stopped>>
  BY DEF StopLocked, Procs, conn, own, intents, Queued, Critical, Starting, Teardown
<1>3. /\ \A q \in Procs : q # "stop" => pc[q] \notin Critical
      /\ ~stopped
  BY <1>1, <1>2, HolderAlone DEF Final
<1>4. CASE /\ Exiting \/ lease = None
           /\ lease' = "stop" /\ retry' = (dataPlane = None)
           /\ Goto("stop", "down") /\ UNCHANGED mutation
  <2>1. "down" \in LabelsOf("stop") \cap Critical
    BY DEF LabelsOf, StopLabels, Critical, Teardown
  <2>2. GoesOn("stop", "down")
    BY <1>1, <1>2, <1>4, <2>1, Proceeds
  <2>3. /\ pc'["stop"] = "down"
        /\ \A q \in Procs : q # "stop" => pc'[q] = pc[q]
    BY <2>2 DEF GoesOn
  <2>4. pc["user"] = "idle"
    BY <1>1, <1>2, <1>4, BoundsAssumption DEF Leased, Teardown
  <2>5. TypeInv'
    BY <1>1, <1>2, <1>4, <2>2 DEF TypeInv, GoesOn
  <2>6. Leased'
    BY <1>1, <1>2, <1>4, <2>3, <2>4 DEF Leased, Exiting, Procs, Teardown
  <2>7. Owned'
    BY <1>1, <1>2, <2>3 DEF Owned, OwnedUntilClean, Critical, Starting, Teardown, Procs
  <2>8. Phased'
    BY <1>1, <1>2, <2>3 DEF Phased, Connecting, Starting, Teardown, Procs
  <2>9. Flags' /\ (Shown' <=> Shown)
    BY <1>1, <1>2 DEF Flags, Shown, Flagged
  <2>10. Visible'
    BY <1>1, <1>2, <1>4, <2>3, <2>9 DEF Visible, Procs, Teardown
  <2>11. Final'
    BY <1>1, <1>2, <1>3, <2>3 DEF Final, Withdrawn, Exiting, Teardown
  <2>12. Overtaken'
    BY <1>1, <1>2, <1>3, <2>3, OvertakesNobody DEF Overtaken
  <2> QED BY <2>2, <2>5, <2>6, <2>7, <2>8, <2>9, <2>10, <2>11, <2>12 DEF IInv, GoesOn
<1>5. CASE /\ mutation' = Tail(mutation) /\ Goto("stop", "refused")
           /\ ~Exiting /\ UNCHANGED <<lease, retry>>
  <2>1. /\ "refused" \in LabelsOf("stop") /\ "refused" \notin Queued \cup Critical
        /\ pc' = [pc EXCEPT !["stop"] = "refused"]
    BY <1>5 DEF LabelsOf, StopLabels, Queued, Critical, Starting, Teardown, Goto
  <2>2. Lock' /\ mutation' \in Seq(Procs)
    BY <1>1, <1>2, <1>5, <2>1, Leaves DEF TypeInv
  <2>3. RecTyped' /\ Withdrawn'
    BY <1>1, <1>2, <2>1 DEF RecTyped, Withdrawn, TypeInv, Teardown
  <2> QED BY <1>2, <1>5, <2>1, <2>2, <2>3, StopOutside
<1> QED BY <1>4, <1>5 DEF StopLocked

\* The Disconnect has started the task again where it has to, and is done.
LEMMA RetryCleanupStep ==
    ASSUME IInv, RetryCleanup
    PROVE  IInv'
<1>1. TypeInv /\ Lock /\ Leased /\ Owned /\ Phased /\ Flags /\ Overtaken /\ Visible /\ Final
  BY DEF IInv
<1>2. /\ pc["stop"] = "retry" /\ Holds("stop") /\ "stop" \in Procs
      /\ pc["stop"] \in Critical
      /\ cleanup' = IF ~retry \/ cleanup \in Running THEN cleanup
                    ELSE IF owners # <<>> THEN "spawned" ELSE "none"
      /\ UNCHANGED <<token, call, target, mine, retry, phase, dataPlane, owners, failed,
                     rec, agent>>
  BY DEF RetryCleanup, Procs, conn, intents, locals, Critical, Teardown
<1>3. /\ \A q \in Procs : q # "stop" => pc[q] \notin Critical
      /\ ~stopped
  BY <1>1, <1>2, InsideLock
<1>4. pc["user"] = "idle" /\ dataPlane = None
  BY <1>1, <1>2 DEF Leased, Owned, Teardown
<1>5. Shown'
  BY <1>1, <1>2 DEF Visible, Shown, Flagged, Running, Teardown
<1>6. Flags' /\ cleanup' \in {cleanup, "spawned", "none"}
  BY <1>1, <1>2 DEF Flags
<1>7. CASE Exiting /\ Goto("stop", "collect") /\ UNCHANGED <<mutation, lease, stopped>>
  <2>1. "collect" \in LabelsOf("stop") \cap Critical
    BY DEF LabelsOf, StopLabels, Critical, Teardown
  <2>2. GoesOn("stop", "collect")
    BY <1>1, <1>2, <1>7, <2>1, Proceeds
  <2>3. /\ pc'["stop"] = "collect"
        /\ \A q \in Procs : q # "stop" => pc'[q] = pc[q]
    BY <2>2 DEF GoesOn
  <2>4. TypeInv'
    BY <1>1, <1>2, <1>6, <1>7, <2>2 DEF TypeInv, GoesOn, TaskStates, Running
  <2>5. Leased'
    BY <1>1, <1>2, <1>7, <2>3 DEF Leased, Exiting, Procs, Teardown
  <2>6. Owned'
    BY <1>1, <1>2, <1>3, <1>4, <1>6, <2>3
       DEF Owned, OwnedUntilClean, Critical, Starting, Teardown, Procs
  <2>7. Phased'
    BY <1>1, <1>2, <2>3 DEF Phased, Connecting, Starting, Teardown, Procs
  <2>8. Visible' /\ Final'
    BY <1>2, <1>3, <1>5, <1>7, <2>3 DEF Visible, Final, Withdrawn, Teardown
  <2>9. Overtaken'
    BY <1>1, <1>2, <1>3, <1>6, <2>3, OvertakesNobody DEF Overtaken
  <2> QED BY <1>6, <2>2, <2>4, <2>5, <2>6, <2>7, <2>8, <2>9 DEF IInv, GoesOn
<1>8. CASE /\ ~Exiting /\ Goto("stop", "idle") /\ mutation' = Tail(mutation)
           /\ lease' = None /\ stopped' = token.cancelled
  <2>1. /\ "idle" \in LabelsOf("stop") /\ "idle" \notin Queued \cup Critical
        /\ pc' = [pc EXCEPT !["stop"] = "idle"]
    BY <1>8 DEF LabelsOf, StopLabels, Queued, Critical, Starting, Teardown, Goto
  <2>2. Lock' /\ mutation' \in Seq(Procs)
    BY <1>1, <1>2, <1>8, <2>1, Leaves DEF TypeInv
  <2>3. /\ pc' \in [Procs -> Labels] /\ \A q \in Procs : pc'[q] \in LabelsOf(q)
        /\ pc'["stop"] = "idle" /\ \A q \in Procs : q # "stop" => pc'[q] = pc[q]
    BY <1>1, <1>2, <2>1, Moves
  <2>4. TypeInv'
    BY <1>1, <1>2, <1>6, <1>8, <2>2, <2>3 DEF TypeInv, TaskStates, Running
  <2>5. Leased'
    BY <1>1, <1>2, <1>4, <1>8, <2>3 DEF Leased, Exiting, Procs, Teardown
  <2>6. Owned'
    BY <1>1, <1>2, <1>3, <1>4, <1>6, <2>3
       DEF Owned, OwnedUntilClean, Critical, Starting, Teardown, Procs
  <2>7. Phased'
    BY <1>1, <1>2, <2>3 DEF Phased, Connecting, Starting, Teardown, Procs
  <2>8. Visible'
    BY <1>2, <1>5, <2>3 DEF Visible, Teardown
  <2>9. token.cancelled => rec.pending = None
    BY <1>1, <1>2, <1>8 DEF Final, Withdrawn, Teardown
  <2>10. Final'
    BY <1>2, <1>3, <1>4, <1>8, <2>3, <2>9 DEF Final, Withdrawn, Procs, Teardown
  <2>11. Overtaken'
    BY <1>1, <1>2, <1>3, <1>6, <2>3, OvertakesNobody DEF Overtaken
  <2> QED BY <1>6, <2>2, <2>4, <2>5, <2>6, <2>7, <2>8, <2>10, <2>11 DEF IInv
<1> QED BY <1>7, <1>8 DEF RetryCleanup

LEMMA ExitCollectStep ==
    ASSUME IInv, ExitCollect
    PROVE  IInv'
<1>1. TypeInv /\ Lock /\ Leased /\ Owned /\ Phased /\ Flags /\ Overtaken /\ Visible /\ Final
  BY DEF IInv
<1>2. /\ pc["stop"] = "collect" /\ Holds("stop") /\ "stop" \in Procs
      /\ pc["stop"] \in Critical /\ Collect
      /\ IF cleanup = "panicked" THEN phase' = "Error" ELSE phase' = phase
      /\ mutation' = Tail(mutation) /\ lease' = None
      /\ pc' = [pc EXCEPT !["stop"] = "halt"]
      /\ UNCHANGED <<token, call, target, mine, retry, dataPlane, rec, agent, stopped>>
  BY DEF ExitCollect, Procs, intents, locals, Critical, Teardown, MarkError, Goto
<1>3. /\ \A q \in Procs : q # "stop" => pc[q] \notin Critical
      /\ ~stopped
  BY <1>1, <1>2, InsideLock
<1>4. pc["user"] = "idle"
  BY <1>1, <1>2 DEF Leased, Teardown
<1>5. "halt" \in LabelsOf("stop") /\ "halt" \notin Queued \cup Critical
  BY DEF LabelsOf, StopLabels, Queued, Critical, Starting, Teardown
<1>6. Lock' /\ mutation' \in Seq(Procs)
  BY <1>1, <1>2, <1>5, Leaves DEF TypeInv
<1>7. /\ pc' \in [Procs -> Labels] /\ \A q \in Procs : pc'[q] \in LabelsOf(q)
      /\ pc'["stop"] = "halt" /\ \A q \in Procs : q # "stop" => pc'[q] = pc[q]
  BY <1>1, <1>2, <1>5, Moves
<1>8. /\ cleanup \notin Running /\ cleanup' = "none"
      /\ owners' \in Seq(BOOLEAN) /\ failed' \in BOOLEAN
      /\ owners' = <<>> <=> owners = <<>>
      /\ Flags' /\ (cleanup # "panicked" => owners' = owners)
  BY <1>1, <1>2, Collects
<1>9. TypeInv'
  BY <1>1, <1>2, <1>6, <1>7, <1>8 DEF TypeInv, TaskStates, Phases
<1>10. Leased'
  BY <1>1, <1>2, <1>4, <1>7 DEF Leased, Exiting, Procs, Teardown
<1>11. Owned'
  BY <1>1, <1>2, <1>3, <1>7, <1>8
     DEF Owned, OwnedUntilClean, Critical, Starting, Teardown, Procs
<1>12. Phased'
  BY <1>1, <1>2, <1>3, <1>7 DEF Phased, Connecting, Critical, Starting, Teardown, Procs
<1>13. Shown => Shown'
  BY <1>2, <1>8 DEF Shown, Flagged
<1>14. Visible'
  BY <1>1, <1>2, <1>7, <1>13 DEF Visible, Procs, Teardown
<1>15. Final'
  BY <1>2, <1>3, <1>7 DEF Final, Withdrawn, Teardown
<1>16. Overtaken'
  BY <1>2, <1>3, <1>7, <1>8, OvertakesNobody
<1> QED BY <1>6, <1>8, <1>9, <1>10, <1>11, <1>12, <1>14, <1>15, <1>16 DEF IInv

LEMMA StopStepInv ==
    ASSUME IInv, StopStep
    PROVE  IInv'
  BY StopClearStep, StopJobsStep, StopLockedStep, StopEndsStep, DisconnectingStep,
     RetryCleanupStep, ExitCollectStep DEF StopStep, Procs

-----------------------------------------------------------------------------
(* The monitor *)

\* A step of the monitor outside the lock: the watch it looks at may end.
LEMMA MonitorOutside ==
    ASSUME IInv, pc["monitor"] \notin Critical,
           NEW l \in LabelsOf("monitor"), l \notin Critical,
           pc' = [pc EXCEPT !["monitor"] = l], mutation' \in Seq(Procs), Lock',
           RecTyped', StaysWithdrawn, rec.pending = None => rec'.pending = None,
           \/ phase' = phase
           \/ phase' = "Error" /\ Holds("monitor"),
           UNCHANGED <<lease, token, call, target, mine, retry, dataPlane, owners,
                       failed, cleanup, agent, stopped>>
    PROVE  IInv'
<1>1. TypeInv /\ Lock /\ Leased /\ Owned /\ Phased /\ Flags /\ Overtaken /\ Visible /\ Final
  BY DEF IInv
<1>2. "monitor" \in Procs
  BY DEF Procs
<1>3. /\ pc' \in [Procs -> Labels] /\ \A q \in Procs : pc'[q] \in LabelsOf(q)
      /\ pc'["monitor"] = l /\ \A q \in Procs : q # "monitor" => pc'[q] = pc[q]
  BY <1>1, <1>2, Moves
<1>4. phase' # phase => phase' = "Error" /\ \A q \in Procs : pc[q] \notin Critical
  BY <1>1, <1>2, HolderAlone
<1>5. TypeInv'
  BY <1>1, <1>3, <1>4 DEF TypeInv, RecTyped, Phases
<1>6. Leased'
  BY <1>1, <1>3 DEF Leased, Exiting, Procs, Teardown
<1>7. Owned'
  BY <1>1, <1>3 DEF Owned, OwnedUntilClean, Critical, Starting, Teardown, Procs
<1>8. Phased'
  BY <1>1, <1>3, <1>4 DEF Phased, Connecting, Critical, Starting, Teardown, Procs
<1>9. Flags' /\ (Shown => Shown') /\ (Flagged' <=> Flagged)
  BY <1>1, <1>4 DEF Flags, Shown, Flagged
<1>10. Visible'
  BY <1>1, <1>3, <1>9 DEF Visible, Procs, Critical, Starting, Teardown
<1>11. Final'
  BY <1>1, <1>3 DEF Final, Withdrawn, StaysWithdrawn, Procs, Exiting, Teardown
<1>12. Overtaken'
  BY <1>1, <1>3, <1>4, <1>9 DEF Overtaken, Critical, Teardown
<1> QED BY <1>5, <1>6, <1>7, <1>8, <1>9, <1>10, <1>11, <1>12 DEF IInv

LEMMA MonitorLoopStep ==
    ASSUME IInv,
           MonitorCheck \/ MonitorArm \/ MonitorRead \/ MonitorWake \/ MonitorPoll
             \/ MonitorObserve
    PROVE  IInv'
<1>1. TypeInv /\ Lock
  BY DEF IInv
<1>2. /\ pc["monitor"] \in {"check", "arm", "read", "idle", "sleep", "observe", "poll"}
      /\ UNCHANGED <<lease, token, call, target, mine, retry, phase, dataPlane, owners,
                     failed, cleanup, rec, agent, stopped>>
  BY DEF MonitorCheck, MonitorArm, MonitorRead, MonitorWake, MonitorPoll, MonitorObserve,
         MonitorVars, locals, own, conn, intents
<1>3. \/ \E l \in {"done", "arm", "read", "idle", "sleep", "check", "poll", "observe"} :
           pc' = [pc EXCEPT !["monitor"] = l] /\ mutation' = mutation
      \/ \E l \in {"finish", "reconnect"} :
           pc' = [pc EXCEPT !["monitor"] = l] /\ mutation' = Append(mutation, "monitor")
  <2>1. CASE MonitorCheck \/ MonitorArm \/ MonitorRead
    BY <2>1 DEF MonitorCheck, MonitorArm, MonitorRead, Goto
  <2>2. CASE MonitorWake \/ MonitorPoll
    BY <2>2 DEF MonitorWake, MonitorPoll, Goto
  <2>3. CASE MonitorObserve
    BY <2>3 DEF MonitorObserve, Goto
  <2> QED BY <2>1, <2>2, <2>3
<1>4. /\ "monitor" \in Procs /\ pc["monitor"] \notin Queued \cup Critical
      /\ RecTyped' /\ StaysWithdrawn
  BY <1>1, <1>2
     DEF Procs, Queued, Critical, Starting, Teardown, RecTyped, StaysWithdrawn, TypeInv
<1>5. ASSUME NEW l \in {"done", "arm", "read", "idle", "sleep", "check", "poll", "observe"},
             pc' = [pc EXCEPT !["monitor"] = l], mutation' = mutation
      PROVE  IInv'
  <2>1. l \in LabelsOf("monitor") /\ l \notin Queued \cup Critical
    BY DEF LabelsOf, MonitorLabels, Queued, Critical, Starting, Teardown
  <2>2. Lock' /\ mutation' \in Seq(Procs)
    BY <1>1, <1>4, <1>5, <2>1, Stays DEF TypeInv
  <2> QED BY <1>2, <1>4, <1>5, <2>1, <2>2, MonitorOutside
<1>6. ASSUME NEW l \in {"finish", "reconnect"},
             pc' = [pc EXCEPT !["monitor"] = l], mutation' = Append(mutation, "monitor")
      PROVE  IInv'
  <2>1. l \in LabelsOf("monitor") /\ l \in Queued /\ l \notin Critical
    BY DEF LabelsOf, MonitorLabels, Queued, Critical, Starting, Teardown
  <2>2. Lock' /\ mutation' \in Seq(Procs)
    BY <1>1, <1>4, <1>6, <2>1, Waits DEF TypeInv
  <2> QED BY <1>2, <1>4, <1>6, <2>1, <2>2, MonitorOutside
<1> QED BY <1>3, <1>5, <1>6

LEMMA MonitorFinishStep ==
    ASSUME IInv, MonitorFinish
    PROVE  IInv'
<1>1. TypeInv /\ Lock
  BY DEF IInv
<1>2. /\ pc["monitor"] = "finish" /\ Holds("monitor") /\ "monitor" \in Procs
      /\ \/ rec' = [rec EXCEPT !.pending = None] /\ phase' = "Error"
         \/ UNCHANGED <<rec, phase>>
      /\ mutation' = Tail(mutation) /\ pc' = [pc EXCEPT !["monitor"] = "check"]
      /\ UNCHANGED <<lease, token, call, target, mine, retry, dataPlane, owners, failed,
                     cleanup, agent, stopped>>
  BY DEF MonitorFinish, MonitorVars, MarkError, Goto, Procs, locals, own
<1>3. /\ "check" \in LabelsOf("monitor") /\ "check" \notin Queued \cup Critical
      /\ pc["monitor"] \notin Critical
  BY <1>2 DEF LabelsOf, MonitorLabels, Queued, Critical, Starting, Teardown
<1>4. Lock' /\ mutation' \in Seq(Procs)
  BY <1>1, <1>2, <1>3, Leaves DEF TypeInv
<1>5. RecTyped' /\ StaysWithdrawn /\ (rec.pending = None => rec'.pending = None)
  BY <1>1, <1>2 DEF RecTyped, StaysWithdrawn, TypeInv
<1> QED BY <1>2, <1>3, <1>4, <1>5, MonitorOutside

LEMMA MonitorReconnectStep ==
    ASSUME IInv, MonitorReconnect
    PROVE  IInv'
<1>1. TypeInv /\ Lock /\ Leased /\ Owned /\ Phased /\ Flags /\ Overtaken /\ Visible /\ Final
  BY DEF IInv
<1>2. /\ pc["monitor"] = "reconnect" /\ Holds("monitor") /\ "monitor" \in Procs
      /\ pc["monitor"] \in Queued \cup Critical /\ pc["monitor"] \notin Critical
      /\ UNCHANGED <<lease, token, call, mine, retry, phase, dataPlane, owners, failed,
                     cleanup, agent, stopped>>
  BY DEF MonitorReconnect, Procs, conn, own, Queued, Critical, Starting, Teardown
<1>3. CASE /\ rec.pending # None /\ rec.intent # None
           /\ rec' = [rec EXCEPT !.intent.attempted = TRUE]
           /\ target' = [target EXCEPT !["monitor"] = rec.intent.profile]
           /\ Goto("monitor", "down") /\ UNCHANGED mutation
  <2>1. "down" \in LabelsOf("monitor") \cap Critical
    BY DEF LabelsOf, MonitorLabels, Critical, Teardown
  <2>2. GoesOn("monitor", "down")
    BY <1>1, <1>2, <1>3, <2>1, Proceeds
  <2>3. /\ pc'["monitor"] = "down"
        /\ \A q \in Procs : q # "monitor" => pc'[q] = pc[q]
    BY <2>2 DEF GoesOn
  <2>4. rec.intent \in Intents
    BY <1>1, <1>3 DEF TypeInv
  <2>5. /\ target' \in [{"user", "monitor"} -> Profiles \cup {None}]
        /\ target'["monitor"] \in Profiles /\ target'["user"] = target["user"]
    BY <1>1, <1>3, <2>4 DEF TypeInv, Intents
  <2>6. RecTyped'
    BY <1>1, <1>3, <2>4 DEF TypeInv, RecTyped, Intents
  <2>7. ~stopped
    BY <1>1, <1>3 DEF Final
  <2>8. TypeInv'
    BY <1>1, <1>2, <2>2, <2>5, <2>6 DEF TypeInv, GoesOn, RecTyped
  <2>9. Leased'
    BY <1>1, <1>2, <2>3 DEF Leased, Exiting, Procs, Teardown
  <2>10. Owned'
    BY <1>1, <1>2, <2>3, <2>5
       DEF Owned, OwnedUntilClean, Critical, Starting, Teardown, Procs
  <2>11. Phased'
    BY <1>1, <1>2, <2>3 DEF Phased, Connecting, Starting, Teardown, Procs
  <2>12. Flags' /\ (Shown' <=> Shown) /\ (Flagged' <=> Flagged)
    BY <1>1, <1>2 DEF Flags, Shown, Flagged
  <2>13. Visible'
    BY <1>1, <1>2, <2>3, <2>12 DEF Visible, Procs, Teardown
  <2>14. Final'
    BY <1>1, <1>2, <1>3, <2>3, <2>7 DEF Final, Withdrawn, Exiting, Procs, Teardown
  <2>15. Overtaken'
    BY <1>1, <1>2, <2>3, HolderAlone, OvertakesNobody DEF Overtaken
  <2> QED BY <2>2, <2>8, <2>9, <2>10, <2>11, <2>12, <2>13, <2>14, <2>15 DEF IInv, GoesOn
<1>4. CASE /\ mutation' = Tail(mutation) /\ Goto("monitor", "check")
           /\ UNCHANGED <<rec, target>>
  <2>1. /\ "check" \in LabelsOf("monitor") /\ "check" \notin Queued \cup Critical
        /\ pc' = [pc EXCEPT !["monitor"] = "check"]
    BY <1>4 DEF LabelsOf, MonitorLabels, Queued, Critical, Starting, Teardown, Goto
  <2>2. Lock' /\ mutation' \in Seq(Procs)
    BY <1>1, <1>2, <1>4, <2>1, Leaves DEF TypeInv
  <2>3. RecTyped' /\ StaysWithdrawn
    BY <1>1, <1>4 DEF RecTyped, StaysWithdrawn, TypeInv
  <2> QED BY <1>2, <1>4, <2>1, <2>2, <2>3, MonitorOutside
<1> QED BY <1>3, <1>4 DEF MonitorReconnect, Current

LEMMA MonitorCollectStep ==
    ASSUME IInv, MonitorCollect
    PROVE  IInv'
<1>1. TypeInv /\ Lock /\ Leased /\ Owned /\ Phased /\ Flags /\ Overtaken /\ Visible /\ Final
  BY DEF IInv
<1>2. /\ pc["monitor"] = "collect" /\ Holds("monitor") /\ "monitor" \in Procs
      /\ pc["monitor"] \in Critical /\ Collect
      /\ UNCHANGED <<lease, token, call, target, mine, retry, dataPlane, agent, stopped>>
  BY DEF MonitorCollect, Procs, Critical, Teardown, locals
<1>3. /\ \A q \in Procs : q # "monitor" => pc[q] \notin Critical
      /\ ~stopped /\ target["monitor"] \in Profiles
  BY <1>2, InsideLock
<1>4. /\ cleanup \notin Running /\ cleanup' = "none"
      /\ owners' \in Seq(BOOLEAN) /\ failed' \in BOOLEAN
      /\ owners' = <<>> <=> owners = <<>>
      /\ Flags' /\ (~Unconfirmed => owners = <<>>)
  BY <1>1, <1>2, Collects
<1>5. /\ rec' \in {rec, [rec EXCEPT !.pending = None]}
      /\ \/ phase' = "Error"
         \/ phase' = phase /\ ~Unconfirmed
      /\ \/ pc' = [pc EXCEPT !["monitor"] = "check"] /\ mutation' = Tail(mutation)
         \/ Goto("monitor", "clone") /\ UNCHANGED mutation /\ ~Unconfirmed
  BY DEF MonitorCollect, MarkError, Goto
<1>6. RecTyped' /\ StaysWithdrawn
  BY <1>1, <1>5 DEF RecTyped, StaysWithdrawn, TypeInv
<1>7. \E l \in {"check", "clone"} :
        /\ GoesOn("monitor", l)
        /\ l = "clone" => ~Unconfirmed
  <2>1. CASE pc' = [pc EXCEPT !["monitor"] = "check"] /\ mutation' = Tail(mutation)
    <3>1. Left("monitor")
      BY <1>1, <1>2, <1>6, <2>1, Departs
    <3>2. GoesOn("monitor", "check")
      BY <3>1 DEF Left, GoesOn
    <3> QED BY <3>2
  <2>2. CASE Goto("monitor", "clone") /\ UNCHANGED mutation /\ ~Unconfirmed
    <3>1. "clone" \in LabelsOf("monitor") \cap Critical
      BY DEF LabelsOf, MonitorLabels, Critical, Teardown
    <3>2. GoesOn("monitor", "clone")
      BY <1>1, <1>2, <2>2, <3>1, Proceeds
    <3> QED BY <2>2, <3>2
  <2> QED BY <1>5, <2>1, <2>2
<1>8. PICK l \in {"check", "clone"} :
        /\ GoesOn("monitor", l)
        /\ l = "clone" => ~Unconfirmed
  BY <1>7
<1>9. /\ pc'["monitor"] = l
      /\ \A q \in Procs : q # "monitor" => pc'[q] = pc[q]
  BY <1>8 DEF GoesOn
<1>10. TypeInv'
  BY <1>1, <1>2, <1>4, <1>5, <1>6, <1>8 DEF TypeInv, GoesOn, RecTyped, TaskStates, Phases
<1>11. Leased'
  BY <1>1, <1>2, <1>9 DEF Leased, Exiting, Procs, Teardown
<1>12. Owned'
  BY <1>1, <1>2, <1>3, <1>4, <1>8, <1>9
     DEF Owned, OwnedUntilClean, Critical, Starting, Teardown, Procs
<1>13. Phased'
  BY <1>1, <1>2, <1>3, <1>5, <1>9
     DEF Phased, Connecting, Critical, Starting, Teardown, Procs
<1>14. Shown'
  BY <1>4, <1>5 DEF Shown, Flagged
<1>15. Visible'
  BY <1>1, <1>2, <1>3, <1>9, <1>14 DEF Visible, Critical, Teardown, Procs
<1>16. Final'
  BY <1>1, <1>2, <1>3, <1>6, <1>9
     DEF Final, Withdrawn, StaysWithdrawn, Exiting, Procs, Teardown
<1>17. Overtaken'
  BY <1>2, <1>3, <1>4, <1>9, OvertakesNobody
<1> QED BY <1>4, <1>8, <1>10, <1>11, <1>12, <1>13, <1>15, <1>16, <1>17 DEF IInv, GoesOn

LEMMA MonitorCloneStep ==
    ASSUME IInv, MonitorClone
    PROVE  IInv'
<1>1. TypeInv /\ Lock /\ Leased /\ Owned /\ Phased /\ Flags /\ Overtaken /\ Visible /\ Final
  BY DEF IInv
<1>2. /\ pc["monitor"] = "clone" /\ Holds("monitor") /\ "monitor" \in Procs
      /\ pc["monitor"] \in Critical /\ Goto("monitor", "await")
      /\ mine' = [mine EXCEPT !["monitor"] = token.id]
      /\ UNCHANGED <<lease, token, mutation, call, target, retry, phase, dataPlane, owners,
                     failed, cleanup, rec, agent, stopped>>
  BY DEF MonitorClone, Procs, Critical, Teardown, conn, own, intents
<1>3. /\ "await" \in LabelsOf("monitor") \cap Critical
      /\ pc["monitor"] \in Queued \cup Critical
  BY <1>2 DEF LabelsOf, MonitorLabels, Critical, Teardown
<1>4. GoesOn("monitor", "await")
  BY <1>1, <1>2, <1>3, Proceeds
<1>5. /\ pc'["monitor"] = "await"
      /\ \A q \in Procs : q # "monitor" => pc'[q] = pc[q]
  BY <1>4 DEF GoesOn
<1>6. mine' \in [{"user", "monitor"} -> Nat] /\ mine'["user"] = mine["user"]
  BY <1>1, <1>2 DEF TypeInv
<1>7. TypeInv'
  BY <1>1, <1>2, <1>4, <1>6 DEF TypeInv, GoesOn
<1>8. Leased'
  BY <1>1, <1>2, <1>5, <1>6 DEF Leased, Exiting, Procs, Teardown
<1>9. Owned'
  BY <1>1, <1>2, <1>5 DEF Owned, OwnedUntilClean, Critical, Starting, Teardown, Procs
<1>10. Phased'
  BY <1>1, <1>2, <1>5 DEF Phased, Connecting, Starting, Teardown, Procs
<1>11. Flags' /\ (Shown' <=> Shown) /\ (Flagged' <=> Flagged)
  BY <1>1, <1>2 DEF Flags, Shown, Flagged
<1>12. Visible'
  BY <1>1, <1>2, <1>5, <1>11 DEF Visible, Procs, Teardown
<1>13. Final'
  BY <1>1, <1>2, <1>3, <1>5 DEF Final, Withdrawn, Exiting, Procs, Teardown
<1>14. Overtaken'
  BY <1>1, <1>2, <1>5, HolderAlone, OvertakesNobody DEF Overtaken
<1> QED BY <1>4, <1>7, <1>8, <1>9, <1>10, <1>11, <1>12, <1>13, <1>14 DEF IInv, GoesOn

LEMMA MonitorStepInv ==
    ASSUME IInv, MonitorStep
    PROVE  IInv'
  BY MonitorLoopStep, MonitorFinishStep, MonitorReconnectStep, DisconnectingStep,
     MonitorCollectStep, MonitorCloneStep, AttemptStep DEF MonitorStep, Procs

-----------------------------------------------------------------------------
(* The cleanup task, the Agent and the clock *)

\* Nobody moves; whatever the task has done, a failure that it leaves is shown.
LEMMA BesideLock ==
    ASSUME IInv, Owned', Phased', Flags', Overtaken', Shown',
           cleanup # "none" \/ cleanup' = "none",
           Flagged' => Flagged \/ cleanup # "none",
           owners' \in Seq(BOOLEAN), failed' \in BOOLEAN, cleanup' \in TaskStates,
           phase' \in Phases,
           agent' \in [state : {"clean", "pending", "active", "exhausted"}, op : Nat],
           UNCHANGED <<lease, token, mutation, pc, call, target, mine, retry, dataPlane,
                       rec, stopped>>
    PROVE  IInv'
<1>1. TypeInv /\ Lock /\ Leased /\ Visible /\ Final
  BY DEF IInv
<1>2. TypeInv'
  BY <1>1 DEF TypeInv
<1>3. Lock'
  BY <1>1 DEF Lock, Holds
<1>4. Leased'
  BY <1>1 DEF Leased, Exiting, Teardown
<1>5. Visible'
  BY <1>1 DEF Visible, Teardown
<1>6. Final'
  BY <1>1 DEF Final, Withdrawn, Exiting, Teardown
<1> QED BY <1>2, <1>3, <1>4, <1>5, <1>6 DEF IInv

LEMMA TaskNextStep ==
    ASSUME IInv, TaskNext
    PROVE  IInv'
<1>1. TypeInv /\ Lock /\ Leased /\ Owned /\ Phased /\ Flags /\ Overtaken /\ Visible /\ Final
  BY DEF IInv
<1>2. /\ cleanup = "spawned" /\ cleanup' = IF owners = <<>> THEN "ok" ELSE "shutting"
      /\ UNCHANGED <<lease, token, mutation, pc, call, target, mine, retry, phase,
                     dataPlane, owners, failed, rec, agent, stopped>>
  BY DEF TaskNext, TaskVars, locals, intents, conn
<1>3. Owned' /\ Phased'
  BY <1>1, <1>2 DEF Owned, OwnedUntilClean, Phased, Connecting, Starting, Teardown
<1>4. Flags' /\ Shown' /\ (Flagged' <=> Flagged)
  BY <1>1, <1>2 DEF Flags, Shown, Flagged, Running
<1>5. cleanup' \in TaskStates /\ cleanup # "none"
  BY <1>2 DEF TaskStates, Running
<1>6. Overtaken'
  BY <1>1, <1>2, <1>4 DEF Overtaken
<1> QED BY <1>1, <1>2, <1>3, <1>4, <1>5, <1>6, BesideLock DEF TypeInv

LEMMA TaskShutdownStep ==
    ASSUME IInv, TaskShutdown
    PROVE  IInv'
<1>1. TypeInv /\ Lock /\ Leased /\ Owned /\ Phased /\ Flags /\ Overtaken /\ Visible /\ Final
  BY DEF IInv
<1>2. /\ cleanup = "shutting"
      /\ \/ /\ agent' = [agent EXCEPT !.state = "clean"] /\ cleanup' = "popped"
            /\ UNCHANGED <<owners, failed>>
         \/ /\ owners' = [owners EXCEPT ![1] = TRUE] /\ failed' = TRUE
            /\ cleanup' = "erring"
            /\ \/ UNCHANGED agent
               \/ agent' = [state |-> "pending", op |-> agent.op + 1]
         \/ cleanup' = "panicked" /\ UNCHANGED <<owners, failed, agent>>
      /\ UNCHANGED <<lease, token, mutation, pc, call, target, mine, retry, phase,
                     dataPlane, rec, stopped>>
  BY DEF TaskShutdown, TaskVars, locals, intents, conn
<1>3. owners # <<>> /\ owners \in Seq(BOOLEAN) /\ dataPlane = None
      /\ agent \in [state : {"clean", "pending", "active", "exhausted"}, op : Nat]
  BY <1>1, <1>2 DEF Owned, TypeInv
<1>4. owners' \in Seq(BOOLEAN) /\ owners' # <<>> /\ Flags' /\ failed' \in BOOLEAN
  <2>1. CASE UNCHANGED <<owners, failed>>
    BY <1>1, <1>3, <2>1 DEF Flags, TypeInv
  <2>2. CASE owners' = [owners EXCEPT ![1] = TRUE] /\ failed' = TRUE
    BY <1>1, <1>3, <2>2, FrontFails
  <2> QED BY <1>2, <2>1, <2>2
<1>5. /\ agent' \in [state : {"clean", "pending", "active", "exhausted"}, op : Nat]
      /\ cleanup' \in {"popped", "erring", "panicked"}
      /\ cleanup' = "popped" => agent'.state = "clean"
  BY <1>2, <1>3
<1>6. Owned'
  BY <1>1, <1>2, <1>3, <1>4, <1>5 DEF Owned, OwnedUntilClean, Starting, Teardown
<1>7. Phased' /\ Shown' /\ cleanup' \in TaskStates /\ cleanup # "none"
  BY <1>1, <1>2, <1>5 DEF Phased, Connecting, Shown, Running, TaskStates
<1>8. Overtaken'
  BY <1>1, <1>2, <1>3 DEF Overtaken, Flagged
<1> QED BY <1>1, <1>2, <1>4, <1>5, <1>6, <1>7, <1>8, BesideLock DEF TypeInv

LEMMA TaskErrorStep ==
    ASSUME IInv, TaskError
    PROVE  IInv'
<1>1. TypeInv /\ Lock /\ Leased /\ Owned /\ Phased /\ Flags /\ Overtaken /\ Visible /\ Final
  BY DEF IInv
<1>2. /\ cleanup = "erring" /\ cleanup' = "err" /\ phase' = "Error"
      /\ UNCHANGED <<lease, token, mutation, pc, call, target, mine, retry, dataPlane,
                     owners, failed, rec, agent, stopped>>
  BY DEF TaskError, TaskVars, locals, intents, MarkError
<1>3. owners # <<>>
  BY <1>1, <1>2 DEF Owned
<1>4. Owned' /\ Phased'
  BY <1>1, <1>2, <1>3 DEF Owned, OwnedUntilClean, Phased, Connecting, Starting, Teardown
<1>5. Flags' /\ Shown' /\ (Flagged' <=> Flagged)
  BY <1>1, <1>2 DEF Flags, Shown, Flagged
<1>6. cleanup' \in TaskStates /\ cleanup # "none" /\ phase' \in Phases
  BY <1>2 DEF TaskStates, Running, Phases
<1>7. Overtaken'
  BY <1>1, <1>2 DEF Overtaken
<1> QED BY <1>1, <1>2, <1>4, <1>5, <1>6, <1>7, BesideLock DEF TypeInv

\* A confirmed owner leaves: the platform is clean, and the owners behind it
\* have not been tried.
LEMMA TaskPopStep ==
    ASSUME IInv, TaskPop
    PROVE  IInv'
<1>1. TypeInv /\ Lock /\ Leased /\ Owned /\ Phased /\ Flags /\ Overtaken /\ Visible /\ Final
  BY DEF IInv
<1>2. /\ cleanup = "popped" /\ owners' = Tail(owners)
      /\ cleanup' = IF Head(owners) THEN "clearing" ELSE "spawned"
      /\ failed' = IF Len(owners) = 1 THEN FALSE ELSE failed
      /\ UNCHANGED <<lease, token, mutation, pc, call, target, mine, retry, phase,
                     dataPlane, rec, agent, stopped>>
  BY DEF TaskPop, TaskVars, locals, intents, conn
<1>3. owners # <<>> /\ owners \in Seq(BOOLEAN) /\ dataPlane = None
      /\ agent.state # "active"
  BY <1>1, <1>2 DEF Owned, TypeInv
<1>4. owners' \in Seq(BOOLEAN) /\ Len(owners') = Len(owners) - 1 /\ Len(owners) \in Nat \ {0}
      /\ \A i \in 1..Len(owners') : owners'[i] = owners[i + 1]
  <2>1. owners' = Tail(owners)
    BY <1>2
  <2> QED BY <1>3, <2>1
<1>5. \A i \in 1..Len(owners') : ~owners'[i]
  <2> SUFFICES ASSUME NEW i \in 1..Len(owners'), owners'[i]
               PROVE  FALSE
    OBVIOUS
  <2>1. i + 1 \in 1..Len(owners) /\ owners[i + 1] /\ i + 1 # 1
    BY <1>4
  <2> QED BY <1>1, <2>1 DEF Flags
<1>6. Flags'
  BY <1>5 DEF Flags
<1>7. Owned'
  BY <1>1, <1>2, <1>3 DEF Owned, OwnedUntilClean, Starting, Teardown
<1>8. Phased'
  BY <1>1, <1>2, <1>3 DEF Phased, Connecting, Owned, Starting, Teardown
<1>9. Shown' /\ cleanup' \in TaskStates /\ cleanup # "none" /\ phase' \in Phases
      /\ failed' \in BOOLEAN
  BY <1>1, <1>2 DEF Shown, Running, TaskStates, Phases, TypeInv
<1>10. ~Flagged'
  <2>1. owners' # <<>> => 1 \in 1..Len(owners') /\ Head(owners') = owners'[1]
    BY <1>4
  <2> QED BY <1>5, <2>1 DEF Flagged
<1>11. failed => failed' \/ owners' = <<>>
  <2>1. failed' = IF Len(owners) = 1 THEN FALSE ELSE failed
    BY <1>2
  <2> QED BY <1>4, <2>1
<1>12. cleanup' = "clearing" => failed /\ Flagged
  BY <1>1, <1>2, <1>3, FlaggedFailed DEF Flagged
<1>13. Overtaken'
  BY <1>1, <1>2, <1>3, <1>10, <1>11, <1>12 DEF Overtaken
<1> QED BY <1>1, <1>2, <1>4, <1>6, <1>7, <1>8, <1>9, <1>13, BesideLock DEF TypeInv

\* The error of an owner that has left is taken back.
LEMMA TaskClearStep ==
    ASSUME IInv, TaskClear
    PROVE  IInv'
<1>1. TypeInv /\ Lock /\ Leased /\ Owned /\ Phased /\ Flags /\ Overtaken /\ Visible /\ Final
  BY DEF IInv
<1>2. /\ cleanup = "clearing" /\ cleanup' = "spawned" /\ phase' \in {phase, "Disconnected"}
      /\ UNCHANGED <<lease, token, mutation, pc, call, target, mine, retry, dataPlane,
                     owners, failed, rec, agent, stopped>>
  BY DEF TaskClear, TaskVars, locals, intents
<1>3. dataPlane = None
  BY <1>1, <1>2 DEF Owned
<1>4. Owned'
  BY <1>1, <1>2 DEF Owned, OwnedUntilClean, Starting, Teardown
<1>5. Phased'
  BY <1>1, <1>2, <1>3 DEF Phased, Connecting, Owned, Starting, Teardown
<1>6. Flags' /\ Shown' /\ (Flagged' <=> Flagged)
  BY <1>1, <1>2 DEF Flags, Shown, Flagged, Running
<1>7. cleanup' \in TaskStates /\ cleanup # "none" /\ phase' \in Phases
  BY <1>1, <1>2 DEF TaskStates, Running, Phases, TypeInv
<1>8. Overtaken'
  BY <1>1, <1>2 DEF Overtaken, Flagged
<1> QED BY <1>1, <1>2, <1>4, <1>5, <1>6, <1>7, <1>8, BesideLock DEF TypeInv

LEMMA AgentStep ==
    ASSUME IInv, AgentRecovers \/ Expire
    PROVE  IInv'
<1>1. TypeInv /\ Lock /\ Leased /\ Owned /\ Phased /\ Flags /\ Overtaken /\ Visible /\ Final
  BY DEF IInv
<1>2. /\ \/ agent' = agent
         \/ \E s \in {"clean", "exhausted"} : agent' = [agent EXCEPT !.state = s]
      /\ UNCHANGED <<lease, token, mutation, pc, call, target, mine, retry, phase,
                     dataPlane, owners, failed, cleanup, rec, stopped>>
  BY DEF AgentRecovers, Expire, locals, conn, own, intents
<1>3. /\ agent' \in [state : {"clean", "pending", "active", "exhausted"}, op : Nat]
      /\ agent'.state = "active" => agent.state = "active"
  BY <1>1, <1>2 DEF TypeInv
<1>4. TypeInv'
  BY <1>1, <1>2, <1>3 DEF TypeInv
<1>5. Lock' /\ Leased'
  BY <1>1, <1>2 DEF Lock, Holds, Leased, Exiting, Teardown
<1>6. Owned'
  BY <1>1, <1>2, <1>3 DEF Owned, OwnedUntilClean
<1>7. Phased' /\ Flags'
  BY <1>1, <1>2 DEF Phased, Connecting, Flags
<1>8. Visible' /\ Final' /\ Overtaken'
  BY <1>1, <1>2 DEF Visible, Shown, Flagged, Final, Withdrawn, Exiting, Teardown, Overtaken
<1> QED BY <1>4, <1>5, <1>6, <1>7, <1>8 DEF IInv

LEMMA Stutter ==
    ASSUME IInv, UNCHANGED vars
    PROVE  IInv'
<1>1. UNCHANGED <<lease, token, mutation, pc, call, target, mine, retry, phase,
                  dataPlane, owners, failed, cleanup, rec, agent, stopped>>
  BY DEF vars, locals, conn, own, intents
<1>2. TypeInv' /\ Lock' /\ Leased'
  BY <1>1 DEF IInv, TypeInv, Lock, Holds, Leased, Exiting, Teardown
<1>3. Owned' /\ Phased' /\ Flags'
  BY <1>1 DEF IInv, Owned, OwnedUntilClean, Phased, Connecting, Flags
<1>4. Visible' /\ Final' /\ Overtaken'
  BY <1>1 DEF IInv, Visible, Shown, Flagged, Final, Withdrawn, Exiting, Teardown, Overtaken
<1> QED BY <1>2, <1>3, <1>4 DEF IInv

LEMMA InitIInv == Init => IInv
<1> SUFFICES ASSUME Init PROVE IInv
  OBVIOUS
<1>1. /\ pc["user"] = "idle" /\ pc["stop"] = "idle" /\ pc["monitor"] = "check"
      /\ pc \in [Procs -> {"idle", "check"}]
  BY DEF Init, Procs
<1>2. TypeInv
  <2>1. pc \in [Procs -> Labels] /\ \A p \in Procs : pc[p] \in LabelsOf(p)
    BY <1>1 DEF Procs, LabelsOf, Labels, UserLabels, StopLabels, MonitorLabels, Teardown
  <2>2. /\ mutation \in Seq(Procs) /\ owners \in Seq(BOOLEAN)
        /\ rec = [gen |-> 0, intent |-> None, pending |-> None]
    BY DEF Init
  <2>3. /\ rec = [gen |-> rec.gen, intent |-> rec.intent, pending |-> rec.pending]
        /\ rec.gen \in Nat /\ rec.intent \in Intents \cup {None}
    BY <2>2
  <2>4. agent \in [state : {"clean", "pending", "active", "exhausted"}, op : Nat]
    BY DEF Init
  <2>5. token \in [id : Nat, cancelled : BOOLEAN]
    BY DEF Init
  <2> QED BY <2>1, <2>2, <2>3, <2>4, <2>5 DEF Init, TypeInv, Phases, TaskStates
<1>3. Lock
  BY <1>1 DEF Lock, Init, Procs, Queued, Critical, Starting, Teardown
<1>4. Leased
  BY <1>1 DEF Leased, Teardown
<1>5. Owned
  BY <1>1 DEF Owned, OwnedUntilClean, Init, Procs, Starting, Teardown, Critical
<1>6. Phased
  BY <1>1 DEF Phased, Connecting, Init, Procs, Starting, Teardown
<1>7. Flags
  <2>1. owners = <<>> /\ Len(<<>>) = 0
    BY DEF Init
  <2> QED BY <2>1 DEF Flags
<1>8. Visible /\ Final
  BY <1>1 DEF Visible, Shown, Flagged, Final, Withdrawn, Init, Teardown
<1>9. Overtaken
  BY <1>1 DEF Overtaken, Init, Procs
<1> QED BY <1>2, <1>3, <1>4, <1>5, <1>6, <1>7, <1>8, <1>9 DEF IInv

LEMMA StepIInv == IInv /\ [Next]_vars => IInv'
<1> SUFFICES ASSUME IInv, [Next]_vars PROVE IInv'
  OBVIOUS
<1>1. CASE \E k \in {"connect", "retry"}, profile \in Profiles : Request(k, profile)
  BY <1>1, RequestStep
<1>2. CASE \E k \in {"disconnect", "exit"} : Stop(k)
  BY <1>2, StopAction
<1>3. CASE UserStep
  BY <1>3, UserLockedStep, AttemptStep, DisconnectingStep, ReplyStep DEF UserStep, Procs
<1>4. CASE StopStep
  BY <1>4, StopStepInv
<1>5. CASE MonitorStep
  BY <1>5, MonitorStepInv
<1>6. CASE TaskStep
  BY <1>6, TaskNextStep, TaskShutdownStep, TaskErrorStep, TaskPopStep, TaskClearStep
     DEF TaskStep
<1>7. CASE AgentRecovers \/ Expire
  BY <1>7, AgentStep
<1>8. CASE UNCHANGED vars
  BY <1>8, Stutter
<1> QED BY <1>1, <1>2, <1>3, <1>4, <1>5, <1>6, <1>7, <1>8 DEF Next

-----------------------------------------------------------------------------
(* Theorems *)

\* The inductive invariant holds in every reachable state of the Engine.
THEOREM EngineInvariance == Spec => []IInv
  BY InitIInv, StepIInv, PTL DEF Spec

\* connect_locked, retry, the automatic reconnect and the cleanup task: a
\* platform transaction has an owner until it is clean, and no session is live
\* beside an unconfirmed one.
THEOREM OwnersNeverPassed == Spec => []OwnersAreKept
<1>1. IInv => OwnersAreKept
  BY DEF IInv, Owned, OwnersAreKept, NoBypass
<1> QED BY <1>1, EngineInvariance, PTL

\* await_disconnect_cleanup and the task: a failed cleanup that nobody retries
\* is shown as an error.
THEOREM FailuresAreShown == Spec => []CleanupVisible
<1>1. IInv => CleanupVisible
  <2> SUFFICES ASSUME IInv, owners # <<>>, Head(owners), mutation = <<>>,
                      token.cancelled => stopped,
                      cleanup \notin Running \cup {"panicked"}
               PROVE  phase = "Error"
    BY DEF CleanupVisible
  <2>1. \A p \in Procs : pc[p] \notin Queued \cup Critical
    BY FreeLock DEF IInv
  <2>2. /\ pc["user"] \notin Teardown \cup {"lock", "await"}
        /\ pc["stop"] \notin Teardown \cup {"retry"}
        /\ pc["monitor"] \notin Teardown \cup {"collect"}
    BY <2>1 DEF Procs, Queued, Critical, Teardown
  <2>3. Shown
    BY <2>2 DEF IInv, Visible, Teardown
  <2> QED BY <2>3 DEF Shown, Flagged
<1> QED BY <1>1, EngineInvariance, PTL

\* A step reports the error of a failed cleanup in the phase of an error, or
\* leaves the phase and the error alone.
LEMMA ErrorShownStep == ErrorShown /\ [Next]_vars => ErrorShown'
<1> SUFFICES ASSUME ErrorShown, [Next]_vars
             PROVE  \/ UNCHANGED <<phase, error>>
                    \/ phase' = "Error"
                    \/ error' = None
  BY BoundsAssumption DEF ErrorShown
<1>1. CASE \/ \E k \in {"connect", "retry"}, profile \in Profiles : Request(k, profile)
           \/ \E k \in {"disconnect", "exit"} : Stop(k)
           \/ UNCHANGED vars
  BY <1>1 DEF Request, Stop, vars, conn
<1>2. ASSUME NEW p \in Procs, Attempt(p)
      PROVE  UNCHANGED <<phase, error>> \/ phase' = "Error" \/ error' = None
  BY <1>2 DEF Attempt, AwaitCleanup, Prepare, Preflight, Inspect, Start, Started,
     EnterRecovery, Unreported, MarkError, conn
<1>3. ASSUME NEW p \in Procs, Disconnecting(p)
      PROVE  UNCHANGED <<phase, error>> \/ phase' = "Error" \/ error' = None
  <2>1. CASE Leave(p)
    BY <2>1 DEF Leave, NotLeft, MarkError, Procs
  <2> QED BY <1>3, <2>1 DEF Disconnecting, Down, DownFlag, QueueRuntime, Ended, conn
<1>4. CASE UserStep
  BY <1>2, <1>3, <1>4 DEF UserStep, UserLocked, Reply, Procs, conn
<1>5. CASE StopStep
  BY <1>3, <1>5 DEF StopStep, StopClear, StopJobs, StopLocked, Refused, RetryCleanup,
     ExitCollect, Halt, Exit, MarkError, Procs, conn
<1>6. CASE MonitorStep
  BY <1>2, <1>3, <1>6 DEF MonitorStep, MonitorCheck, MonitorArm, MonitorRead, MonitorWake,
     MonitorPoll, MonitorObserve, MonitorFinish, MonitorReconnect, MonitorCollect,
     MonitorClone, MarkError, Procs, conn
<1>7. CASE TaskStep \/ AgentRecovers \/ Expire
  BY <1>7 DEF TaskStep, TaskNext, TaskShutdown, TaskError, TaskPop, TaskClear, MarkError,
     AgentRecovers, Expire, conn
<1> QED BY <1>1, <1>4, <1>5, <1>6, <1>7 DEF Next

\* The state machine of the core: whatever the cleanup task published in
\* between, it refuses a handler only a teardown with nothing left to take
\* down, and HTTP/3 after a cancelled HTTP/2 start.
THEOREM TransitionsAreLegal == Spec => []LegalTransitions
<1>1. IInv /\ ErrorShown => LegalTransitions
  <2> SUFFICES ASSUME IInv, ErrorShown
               PROVE  LegalTransitions
    OBVIOUS
  <2>1. phase \in Phases /\ Phased /\ Owned /\ Overtaken
    BY DEF IInv, TypeInv
  <2>2. ASSUME NEW p \in Procs, Holds(p)
        PROVE  /\ pc[p] = "body" /\ dataPlane = None =>
                    phase \in Connecting \cup {"Preparing"} \/ CanTransition(phase, "Preparing")
               /\ pc[p] \in {"inspect", "start"} => CanTransition(phase, "Reconnecting")
               /\ pc[p] = "inspect" =>
                    \/ \A t \in Connecting : phase = t \/ CanTransition(phase, t)
                    \/ phase = "ConnectingHttp2" /\ owners = <<>> /\ dataPlane = None
               /\ pc[p] = "started" => CanTransition(phase, "Connected")
               /\ pc[p] = "leave" =>
                    \/ phase = "Disconnecting" \/ CanTransition(phase, "Disconnecting")
                    \/ phase = "Disconnected" /\ owners = <<>> /\ dataPlane = None
               /\ pc[p] = "ended" => CanTransition(phase, "Disconnected")
    <3>1. \A q \in Procs : q # p => pc[q] \notin Critical
      BY <2>2, HolderAlone DEF IInv
    <3>2. pc[p] = "body" => phase # "Disconnecting"
      BY <2>1, <3>1 DEF Phased, Critical, Teardown
    <3>3. pc[p] = "body" /\ dataPlane = None =>
            phase \in Connecting \cup {"Preparing"} \/ CanTransition(phase, "Preparing")
      BY <2>1, <3>2 DEF Phased, Connecting, Phases, CanTransition
    <3>4. pc[p] \in {"inspect", "start"} => CanTransition(phase, "Reconnecting")
      BY <2>1 DEF Phased, Starting, Connecting, CanTransition
    <3>5. pc[p] = "inspect" =>
            \/ \A t \in Connecting : phase = t \/ CanTransition(phase, t)
            \/ phase = "ConnectingHttp2" /\ owners = <<>> /\ dataPlane = None
      BY <2>1 DEF Phased, Owned, Starting, Connecting, CanTransition
    <3>6. pc[p] = "started" => CanTransition(phase, "Connected")
      BY <2>1 DEF Phased, Connecting, CanTransition
    <3>7. pc[p] = "leave" =>
            \/ phase = "Disconnecting" \/ CanTransition(phase, "Disconnecting")
            \/ phase = "Disconnected" /\ owners = <<>> /\ dataPlane = None
      BY <2>1 DEF Phases, Phased, Overtaken, Connecting, CanTransition
    <3>8. pc[p] = "ended" => CanTransition(phase, "Disconnected")
      BY <2>1 DEF Phased, CanTransition
    <3> QED BY <3>3, <3>4, <3>5, <3>6, <3>7, <3>8
  <2>3. cleanup = "clearing" /\ error = "cleanup" => CanTransition(phase, "Disconnecting")
    BY DEF ErrorShown, CanTransition
  <2> QED BY <2>2, <2>3 DEF LegalTransitions
<1>2. Init => ErrorShown
  BY BoundsAssumption DEF Init, ErrorShown
<1>3. Spec => []ErrorShown
  BY <1>2, ErrorShownStep, PTL DEF Spec
<1> QED BY <1>1, <1>3, EngineInvariance, PTL

\* Disconnect: what it stopped stays stopped until the next request, whatever
\* the monitor had read before.
THEOREM StopsAreFinal == Spec => StoppedIsFinal
<1> DEFINE A == stopped' =>
                  /\ dataPlane' = None /\ rec'.pending = None
                  /\ stopped => /\ rec' = rec
                                /\ phase' # phase => cleanup \in {"erring", "clearing"}
<1>1. ASSUME IInv, IInv', [Next]_vars PROVE A
  <2>1. stopped' => dataPlane' = None /\ rec'.pending = None
    BY <1>1 DEF IInv, Final
  <2>2. SUFFICES ASSUME stopped, stopped'
                 PROVE  rec' = rec /\ (phase' # phase => cleanup \in {"erring", "clearing"})
    BY <2>1
  <2>3. /\ pc["user"] = "idle" /\ pc["stop"] = "idle" /\ pc["monitor"] \notin Critical
        /\ rec.pending = None
    BY <1>1, <2>2 DEF IInv, Final
  <2>4. CASE UNCHANGED vars
    BY <2>4 DEF vars, intents, conn
  <2>5. CASE \E k \in {"connect", "retry"}, profile \in Profiles : Request(k, profile)
    BY <2>5, <2>2 DEF Request
  <2>6. CASE \E k \in {"disconnect", "exit"} : Stop(k)
    BY <2>6, <2>2 DEF Stop
  <2>7. CASE UserStep
    BY <2>7, <2>3 DEF UserStep, UserLocked, Attempt, AwaitCleanup, Prepare, Preflight,
       Inspect, Start, Started, Disconnecting, Down, DownFlag, Leave, QueueRuntime, Ended, Reply
  <2>8. CASE StopStep
    BY <2>8, <2>3 DEF StopStep, StopClear, StopJobs, StopLocked, Refused, Disconnecting,
       Down, DownFlag, Leave, QueueRuntime, Ended, RetryCleanup, ExitCollect, Halt, Exit
  <2>9. CASE MonitorStep
    <3>1. CASE Disconnecting("monitor") \/ MonitorCollect \/ MonitorClone \/ Attempt("monitor")
      BY <3>1, <2>3 DEF Attempt, AwaitCleanup, Prepare, Preflight, Inspect, Start, Started,
         Disconnecting, Down, DownFlag, Leave, QueueRuntime, Ended, MonitorCollect, MonitorClone,
         Critical, Starting, Teardown
    <3>2. CASE MonitorFinish \/ MonitorReconnect
      BY <3>2, <2>3 DEF MonitorFinish, MonitorReconnect, Current, conn
    <3>3. CASE MonitorCheck \/ MonitorArm \/ MonitorRead \/ MonitorWake \/ MonitorPoll
               \/ MonitorObserve
      BY <3>3 DEF MonitorCheck, MonitorArm, MonitorRead, MonitorWake, MonitorPoll,
         MonitorObserve, intents, conn
    <3> QED BY <2>9, <3>1, <3>2, <3>3 DEF MonitorStep
  <2>10. CASE TaskStep
    BY <2>10
       DEF TaskStep, TaskNext, TaskShutdown, TaskError, TaskPop, TaskClear, TaskVars, intents, conn
  <2>11. CASE AgentRecovers \/ Expire
    BY <2>11 DEF AgentRecovers, Expire, intents, conn
  <2> QED BY <1>1, <2>4, <2>5, <2>6, <2>7, <2>8, <2>9, <2>10, <2>11 DEF Next
<1>2. IInv /\ IInv' /\ [Next]_vars => [A]_vars
  BY <1>1
<1>3. Spec => [][A]_vars
  BY <1>2, EngineInvariance, PTL DEF Spec
<1> QED BY <1>3 DEF StoppedIsFinal
=============================================================================
