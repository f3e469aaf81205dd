---------------------------- MODULE AutomaticRace ----------------------------
(***************************************************************************)
(* race_automatic (crates/usque-transport/src/endpoint_race/automatic.rs): *)
(* candidates of two carriers are admitted one by one, within a limit per  *)
(* carrier and a limit for all; a permit of a semaphore that several races *)
(* share is held from before a handshake until its connection is chosen or *)
(* shut down.  H3 starts again after a pause for as long as H2 is not      *)
(* exhausted.                                                              *)
(***************************************************************************)
EXTENDS RecoveryPolicy, FiniteSets

CONSTANTS
    H3Targets,    \* H3 candidates of one round
    H2Targets,    \* H2 candidates of the race
    Limit,        \* AUTOMATIC_CANDIDATE_LIMIT   [14]
    H3Limit,      \* H3_CANDIDATE_LIMIT          [8]
    H2Limit,      \* H2_CANDIDATE_LIMIT          [10]
    Slots,        \* permits that this race can get
    Outcomes      \* how a handshake may end: "ok" or a failure

ASSUME AutomaticAssumption ==
    /\ {H3Targets, H2Targets} \subseteq Nat
    /\ {Limit, H3Limit, H2Limit, Slots} \subseteq Nat \ {0}
    /\ Outcomes \subseteq Failures \union {"ok"}

Ids == 1 .. Limit           \* tasks.len() never exceeds the limit
Lanes == {"h3", "h2"}
NoOne == 0

VARIABLES
    left,         \* left[l]: targets of a lane that were not admitted yet
    completed,    \* h3_completed
    restart,      \* h3_restart: unset, armed or due
    h2Open,       \* h2_start has passed
    carrier,      \* next_carrier
    task,         \* task[i]: lane, state and result of a spawned task
    open,         \* tasks with an established connection
    permits,      \* free permits of the semaphore
    tokens,       \* tasks whose token is cancelled
    cancelled,    \* the owner's token
    phase,        \* of the owner: top, admit, select, drain, check, done
    winner, terminal,
    pinned, last, \* CandidateFailures
    outcome, caller, moved,
    seen          \* history: the failures of the tasks that were joined

vars == <<left, completed, restart, h2Open, carrier, task, open, permits, tokens,
          cancelled, phase, winner, terminal, pinned, last, outcome, caller, moved,
          seen>>
loop == <<left, completed, restart, carrier>>
verdict == <<winner, terminal, pinned, last, seen>>

Free == [lane |-> "h3", at |-> "free", result |-> None]
At(states) == {i \in Ids : task[i].at \in states}
Flying == Ids \ At({"free"})
InFlight(l) == Cardinality({i \in Flying : task[i].lane = l})
Cancelled(i) == cancelled \/ i \in tokens

Init ==
    /\ left = [l \in Lanes |-> IF l = "h3" THEN H3Targets ELSE H2Targets]
    /\ completed = (H3Targets = 0) /\ h2Open = (H3Targets = 0)
    /\ restart = "unset" /\ carrier = "h3"
    /\ task = [i \in Ids |-> Free]
    /\ open = {} /\ permits = Slots /\ tokens = {} /\ cancelled = FALSE
    /\ phase = "top" /\ winner = NoOne /\ terminal = None
    /\ pinned = FALSE /\ last = None
    /\ outcome = None /\ caller = "waiting" /\ moved = FALSE
    /\ seen = {}

(***************************************************************************)
(* The loop of the owner.                                                  *)
(***************************************************************************)
\* Leaving the loop drops `cancellations', which cancels every task in it.
Leave == phase' = "drain" /\ tokens' = Flying

\* The network is the one the race began with, some target is left, and the
\* H3 targets are taken again when their pause is over.
Top ==
    /\ phase = "top"
    /\ \/ /\ moved
          /\ terminal' = "network"
          /\ Leave
          /\ UNCHANGED <<left, restart>>
       \/ /\ ~moved
          /\ completed /\ left["h2"] = 0 /\ InFlight("h2") = 0
          /\ Leave
          /\ UNCHANGED <<left, restart, terminal>>
       \/ /\ ~moved
          /\ ~(completed /\ left["h2"] = 0 /\ InFlight("h2") = 0)
          /\ phase' = "admit"
          /\ IF left["h3"] = 0 /\ InFlight("h3") = 0 /\ H3Targets > 0
             THEN IF restart = "due"
                  THEN left' = [left EXCEPT !["h3"] = H3Targets] /\ restart' = "unset"
                  ELSE restart' = "armed" /\ UNCHANGED left
             ELSE UNCHANGED <<left, restart>>
          /\ UNCHANGED <<terminal, tokens>>
    /\ UNCHANGED <<completed, h2Open, carrier, task, open, permits, cancelled,
                   winner, pinned, last, seen, outcome, caller, moved>>

Ready(l) ==
    /\ left[l] > 0
    /\ IF l = "h3" THEN InFlight(l) < H3Limit ELSE h2Open /\ InFlight(l) < H2Limit

Other(l) == IF l = "h3" THEN "h2" ELSE "h3"

\* The lane whose turn it is, or the other one.
Admit ==
    /\ phase = "admit"
    /\ Flying # Ids
    /\ \E l \in Lanes :
          /\ Ready(l)
          /\ l = carrier \/ ~Ready(carrier)
          /\ carrier' = Other(l)
          /\ left' = [left EXCEPT ![l] = @ - 1]
          /\ LET i == CHOOSE i \in Ids : i \notin Flying
             IN  task' = [task EXCEPT ![i] = [lane |-> l, at |-> "delay", result |-> None]]
    /\ UNCHANGED <<completed, restart, h2Open, open, permits, tokens, cancelled, phase,
                   verdict, outcome, caller, moved>>

Admitted ==
    /\ phase = "admit"
    /\ Flying = Ids \/ \A l \in Lanes : ~Ready(l)
    /\ phase' = "select"
    /\ UNCHANGED <<loop, h2Open, task, open, permits, tokens, cancelled, verdict,
                   outcome, caller, moved>>

\* The timers that the select waits for.
H2Starts ==
    /\ ~h2Open
    /\ h2Open' = TRUE
    /\ phase' = IF phase = "select" THEN "top" ELSE phase
    /\ UNCHANGED <<loop, task, open, permits, tokens, cancelled, verdict, outcome,
                   caller, moved>>

RestartDue ==
    /\ restart = "armed"
    /\ restart' = "due"
    /\ phase' = IF phase = "select" THEN "top" ELSE phase
    /\ UNCHANGED <<left, completed, carrier, h2Open, task, open, permits, tokens,
                   cancelled, verdict, outcome, caller, moved>>

SeeCancelled ==
    /\ phase = "select" /\ cancelled
    /\ terminal' = "closed"
    /\ Leave
    /\ UNCHANGED <<loop, h2Open, task, open, permits, cancelled, winner, pinned, last,
                   seen, outcome, caller, moved>>

\* CandidateFailures::record: a failure ends the race or is remembered.
Ends(f) == f = "network" \/ Decision(f) = "Stop"
\* Mutant: the pin evidence lasts until the next failure only.
RecordLastOnly(f) ==
    IF Ends(f) THEN UNCHANGED <<pinned, last>>
    ELSE pinned' = (f = "pin") /\ last' = f

Record(f) ==
    IF Ends(f) THEN UNCHANGED <<pinned, last>>
    ELSE pinned' = (pinned \/ f = "pin") /\ last' = f

\* Mutant: the first round of H3 is never noted as complete.
JoinTaskNeverCompletes(i) ==
    /\ phase = "select" /\ ~cancelled
    /\ task[i].at = "ended"
    /\ task' = [task EXCEPT ![i] = IF @.result = "ok" THEN [@ EXCEPT !.at = "won"] ELSE Free]
    /\ UNCHANGED completed
    /\ seen' = seen \union ({task[i].result} \ {"ok"})
    /\ IF task[i].result = "ok"
       THEN /\ winner' = i
            /\ phase' = "drain" /\ tokens' = Flying \ {i}
            /\ UNCHANGED <<terminal, pinned, last>>
       ELSE /\ Record(task[i].result)
            /\ UNCHANGED winner
            /\ IF Ends(task[i].result)
               THEN terminal' = task[i].result /\ Leave
               ELSE phase' = "top" /\ tokens' = tokens \ {i} /\ UNCHANGED terminal
    /\ UNCHANGED <<left, restart, carrier, h2Open, open, permits, cancelled, outcome,
                   caller, moved>>

\* A task that ended is joined: it wins, or its failure is recorded.  The
\* permit of a winner stays with its connection.
JoinTask(i) ==
    /\ phase = "select" /\ ~cancelled
    /\ task[i].at = "ended"
    /\ task' = [task EXCEPT ![i] = IF @.result = "ok" THEN [@ EXCEPT !.at = "won"] ELSE Free]
    /\ completed' = (completed \/ ( /\ task[i].lane = "h3" /\ left["h3"] = 0
                                    /\ InFlight("h3") = 1))
    /\ seen' = seen \union ({task[i].result} \ {"ok"})
    /\ IF task[i].result = "ok"
       THEN /\ winner' = i
            /\ phase' = "drain" /\ tokens' = Flying \ {i}
            /\ UNCHANGED <<terminal, pinned, last>>
       ELSE /\ Record(task[i].result)
            /\ UNCHANGED winner
            /\ IF Ends(task[i].result)
               THEN terminal' = task[i].result /\ Leave
               ELSE phase' = "top" /\ tokens' = tokens \ {i} /\ UNCHANGED terminal
    /\ UNCHANGED <<left, restart, carrier, h2Open, open, permits, cancelled, outcome,
                   caller, moved>>

(***************************************************************************)
(* A candidate task: delay, permit, handshake.                             *)
(***************************************************************************)
GiveUp(i) ==
    /\ task[i].at \in {"delay", "permit"}
    /\ Cancelled(i)
    /\ task' = [task EXCEPT ![i].at = "ended", ![i].result = "closed"]
    /\ UNCHANGED <<loop, h2Open, open, permits, tokens, cancelled, phase, verdict,
                   outcome, caller, moved>>

EndDelay(i) ==
    /\ task[i].at = "delay" /\ ~Cancelled(i)
    /\ task' = [task EXCEPT ![i].at = "permit"]
    /\ UNCHANGED <<loop, h2Open, open, permits, tokens, cancelled, phase, verdict,
                   outcome, caller, moved>>

AcquireSlot(i) ==
    /\ task[i].at = "permit" /\ ~Cancelled(i)
    /\ permits > 0
    /\ permits' = permits - 1
    /\ task' = [task EXCEPT ![i].at = "connecting"]
    /\ UNCHANGED <<loop, h2Open, open, tokens, cancelled, phase, verdict, outcome,
                   caller, moved>>

\* The time limit of a handshake cancels the task's own token.
TimeOut(i) ==
    /\ task[i].at = "connecting"
    /\ task' = [task EXCEPT ![i].at = "late"]
    /\ tokens' = tokens \union {i}
    /\ UNCHANGED <<loop, h2Open, open, permits, cancelled, phase, verdict, outcome,
                   caller, moved>>

\* Mutant: a handshake that is complete gives its permit back at once.
HandshakeFreesPermit(i, r) ==
    /\ task[i].at = "connecting"
    /\ task' = [task EXCEPT ![i].at = "ended", ![i].result = r]
    /\ open' = IF r = "ok" THEN open \union {i} ELSE open
    /\ permits' = permits + 1
    /\ UNCHANGED <<loop, h2Open, tokens, cancelled, phase, verdict, outcome, caller, moved>>

\* A handshake ends.  Without a connection the permit is free again.
Handshake(i, r) ==
    /\ task[i].at = "connecting"
    /\ task' = [task EXCEPT ![i].at = "ended", ![i].result = r]
    /\ open' = IF r = "ok" THEN open \union {i} ELSE open
    /\ permits' = IF r = "ok" THEN permits ELSE permits + 1
    /\ UNCHANGED <<loop, h2Open, tokens, cancelled, phase, verdict, outcome, caller, moved>>

\* A handshake that was cancelled, or is late, and connects all the same is
\* shut down by its task; a late one hides all but the failures that matter.
HandshakeAborted(i, r) ==
    /\ \/ task[i].at = "connecting" /\ Cancelled(i)
       \/ task[i].at = "late"
    /\ LET f == IF task[i].at = "connecting" THEN IF r = "ok" THEN "closed" ELSE r
                ELSE IF r # "ok" /\ (Stops("Automatic", r) \/ r = "pin") THEN r
                ELSE "retry"
       IN  task' = [task EXCEPT ![i].at = "ended", ![i].result = f]
    /\ permits' = permits + 1
    /\ UNCHANGED <<loop, h2Open, open, tokens, cancelled, phase, verdict, outcome,
                   caller, moved>>

(***************************************************************************)
(* After the loop.                                                         *)
(***************************************************************************)
Drain(i) ==
    /\ phase = "drain" /\ task[i].at = "ended"
    /\ task' = [task EXCEPT ![i] = Free]
    /\ tokens' = tokens \ {i}
    /\ open' = open \ {i}
    /\ permits' = IF i \in open THEN permits + 1 ELSE permits
    /\ seen' = seen \union ({task[i].result} \ {"ok"})
    /\ IF task[i].result \in {"ok", "closed"}
       THEN UNCHANGED <<terminal, pinned, last>>
       ELSE /\ Record(task[i].result)
            /\ terminal' = IF Ends(task[i].result) /\ Outranks(task[i].result, terminal)
                           THEN task[i].result ELSE terminal
    /\ UNCHANGED <<loop, h2Open, cancelled, phase, winner, outcome, caller, moved>>

\* The owner's own cancellation, a terminal failure and a dead winner come
\* before a winner; a generation that moved comes last (finish_generation).
Verdict(alive) ==
    IF cancelled THEN "closed"
    ELSE IF terminal # None THEN terminal
    ELSE IF winner # NoOne /\ alive THEN IF moved THEN "network" ELSE "ok"
    ELSE IF pinned THEN "pin"
    ELSE IF last # None THEN last ELSE "retry"

Conclude(alive) ==
    /\ phase = "drain" /\ Flying \subseteq {winner}
    /\ phase' = "done"
    /\ outcome' = Verdict(alive)
    /\ open' = IF outcome' = "ok" THEN open ELSE {}
    /\ task' = [i \in Ids |-> Free]
    /\ permits' = IF winner = NoOne THEN permits ELSE permits + 1
    /\ UNCHANGED <<loop, h2Open, tokens, cancelled, verdict, caller, moved>>

Return ==
    /\ phase = "done" /\ caller = "waiting"
    /\ caller' = "returned"
    /\ UNCHANGED <<loop, h2Open, task, open, permits, tokens, cancelled, phase,
                   verdict, outcome, moved>>

\* RaceOwner::drop
DropCaller ==
    /\ caller = "waiting"
    /\ caller' = "dropped"
    /\ cancelled' = TRUE
    /\ open' = IF phase = "done" THEN {} ELSE open
    /\ UNCHANGED <<loop, h2Open, task, permits, tokens, phase, verdict, outcome, moved>>

NetworkChanges ==
    /\ ~moved
    /\ moved' = TRUE
    /\ UNCHANGED <<loop, h2Open, task, open, permits, tokens, cancelled, phase,
                   verdict, outcome, caller>>

Owner ==
    \/ Top \/ Admit \/ Admitted \/ SeeCancelled \/ Return
    \/ \E i \in Ids : JoinTask(i) \/ Drain(i)
    \/ \E alive \in BOOLEAN : Conclude(alive)

Task(i) ==
    \/ GiveUp(i) \/ EndDelay(i) \/ AcquireSlot(i)
    \/ \E r \in Outcomes : Handshake(i, r) \/ HandshakeAborted(i, r)

Finished == phase = "done" /\ caller # "waiting" /\ UNCHANGED vars

Next ==
    \/ Owner
    \/ \E i \in Ids : Task(i) \/ TimeOut(i)
    \/ H2Starts \/ RestartDue \/ DropCaller \/ NetworkChanges
    \/ Finished

(***************************************************************************)
(* Properties.                                                             *)
(***************************************************************************)
\* "A completed handshake still owns its socket and endpoint authorization
\* until it is selected or explicitly shut down": sockets that are connecting
\* or connected never outnumber the permits, and when the owner is done every
\* permit is back and only a connection that is returned is open.
SocketsHoldPermits ==
    /\ phase # "done" => Cardinality(At({"connecting", "late"}) \union open) + permits = Slots
    /\ phase = "done" => /\ permits = Slots
                         /\ outcome # "ok" \/ caller = "dropped" => open = {}
                         /\ outcome = "ok" => open \subseteq {winner}

\* Whatever order the tasks end in, also while the losers are drained: a
\* failure that ends the race is never hidden by a winner or by a failure that
\* is retried, and a rejected pin never by one that is retried.
EvidenceIsKept ==
    phase = "done" =>
        /\ (\E f \in seen : Ends(f)) => outcome \in {"network", "stop", "closed"}
        /\ "stop" \in seen => outcome \in {"stop", "closed"}
        /\ "pin" \in seen => outcome # "retry"
=============================================================================
