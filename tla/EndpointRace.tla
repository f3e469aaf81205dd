----------------------------- MODULE EndpointRace -----------------------------
(***************************************************************************)
(* race_batch_with_policy (crates/usque-transport/src/endpoint_race.rs):   *)
(* candidate connections run as tasks of one owning task; the first that   *)
(* connects wins, the others are cancelled, joined and shut down before    *)
(* the owner returns.  The caller may be dropped at any time; the owner    *)
(* then goes on until everything is cleaned up.                            *)
(***************************************************************************)
EXTENDS RecoveryPolicy, FiniteSets

CONSTANTS
    Candidates,   \* the targets of one batch
    Preferred,    \* those without a delay
    Policy,       \* "Strict" or "Automatic"
    HasDeadline   \* the batch has a deadline

NoOne == "no one"

VARIABLES
    task,         \* task[c]: what the task of a candidate is doing
    result,       \* result[c]: "ok" or the failure of a task that ended
    open,         \* candidates whose connection is established and not shut down
    tokens,       \* candidates whose own token is cancelled
    cancelled,    \* the owner's token, parent of the others
    phase,        \* the owner: race, drain, check, done
    winner,       \* the candidate whose connection was chosen
    failure,      \* the failure that the race loop keeps
    terminal,     \* terminal_failure of the drain loop
    outcome,      \* what the owner returns: "ok" or a failure
    caller,       \* waiting, returned (it has the outcome) or dropped
    moved         \* the network generation changed since the race began

vars == <<task, result, open, tokens, cancelled, phase, winner,
          failure, terminal, outcome, caller, moved>>
owner == <<phase, winner, failure, terminal, outcome>>

Cancelled(c) == cancelled \/ c \in tokens
Joined == {c \in Candidates : task[c] = "joined"}

Init ==
    /\ task = [c \in Candidates |-> IF c \in Preferred THEN "connecting" ELSE "delayed"]
    /\ result = [c \in Candidates |-> None]
    /\ open = {} /\ tokens = {} /\ cancelled = FALSE
    /\ phase = "race" /\ winner = NoOne
    /\ failure = None /\ terminal = None /\ outcome = None
    /\ caller = "waiting" /\ moved = FALSE

(***************************************************************************)
(* Candidate tasks.  A handshake may end in any way, also after it was     *)
(* cancelled; a task that panics is a failure that stops the retries.      *)
(***************************************************************************)
\* A cancelled task gives up before it connects.  Its timer, or the failure of
\* the last preferred candidate, lets it connect: at any time, as timers go.
LeaveDelay(c) ==
    /\ task[c] = "delayed"
    /\ \/ /\ Cancelled(c)
          /\ task' = [task EXCEPT ![c] = "ended"]
          /\ result' = [result EXCEPT ![c] = "closed"]
       \/ /\ ~Cancelled(c)
          /\ task' = [task EXCEPT ![c] = "connecting"]
          /\ UNCHANGED result
    /\ UNCHANGED <<open, tokens, cancelled, owner, caller, moved>>

Connect(c, r) ==
    /\ task[c] = "connecting"
    /\ task' = [task EXCEPT ![c] = "ended"]
    /\ result' = [result EXCEPT ![c] = r]
    /\ open' = IF r = "ok" THEN open \union {c} ELSE open
    /\ UNCHANGED <<tokens, cancelled, owner, caller, moved>>

NetworkChanges ==
    /\ ~moved
    /\ moved' = TRUE
    /\ UNCHANGED <<task, result, open, tokens, cancelled, owner, caller>>

(***************************************************************************)
(* The race loop of the owner.  Its select is biased: a cancellation is    *)
(* seen before a task that ended.                                          *)
(***************************************************************************)
\* Leaving the loop cancels every token that is still in `cancellations'.
BeginDrain(w) == phase' = "drain" /\ tokens' = Candidates \ {w}

SeeCancelled ==
    /\ phase = "race" /\ cancelled
    /\ failure' = "closed"
    /\ BeginDrain(NoOne)
    /\ UNCHANGED <<task, result, open, cancelled, winner, terminal,
                   outcome, caller, moved>>

Deadline ==
    /\ HasDeadline
    /\ phase = "race" /\ ~cancelled
    /\ BeginDrain(NoOne)
    /\ UNCHANGED <<task, result, open, cancelled, winner, failure,
                   terminal, outcome, caller, moved>>

AllJoined ==
    /\ phase = "race" /\ ~cancelled
    /\ Joined = Candidates
    /\ BeginDrain(NoOne)
    /\ UNCHANGED <<task, result, open, cancelled, winner, failure,
                   terminal, outcome, caller, moved>>

JoinWinner(c) ==
    /\ phase = "race" /\ ~cancelled
    /\ task[c] = "ended" /\ result[c] = "ok"
    /\ task' = [task EXCEPT ![c] = "joined"]
    /\ winner' = c
    /\ BeginDrain(c)
    /\ UNCHANGED <<result, open, cancelled, failure, terminal,
                   outcome, caller, moved>>

\* Of several failures the one of the highest priority is kept.
JoinFailed(c) ==
    /\ phase = "race" /\ ~cancelled
    /\ task[c] = "ended" /\ result[c] # "ok"
    /\ task' = [task EXCEPT ![c] = "joined"]
    /\ IF Stops(Policy, result[c])
       THEN failure' = result[c] /\ BeginDrain(NoOne)
       ELSE /\ failure' = IF /\ failure # None
                             /\ recovery_priority(failure) > recovery_priority(result[c])
                          THEN failure ELSE result[c]
            /\ UNCHANGED <<phase, tokens>>
    /\ UNCHANGED <<result, open, cancelled, winner, terminal, outcome, caller, moved>>

(***************************************************************************)
(* The drain loop: every task is joined, a late connection is shut down.   *)
(***************************************************************************)
\* Mutant: a task that connected late is joined, its connection forgotten.
DrainForgetsLate(c) ==
    /\ phase = "drain" /\ task[c] = "ended"
    /\ task' = [task EXCEPT ![c] = "joined"]
    /\ terminal' = IF /\ result[c] \notin {"ok", "closed"}
                      /\ Stops(Policy, result[c]) \/ result[c] = "pin"
                      /\ Outranks(result[c], terminal)
                   THEN result[c] ELSE terminal
    /\ UNCHANGED <<result, open, tokens, cancelled, phase, winner,
                   failure, outcome, caller, moved>>

Drain(c) ==
    /\ phase = "drain" /\ task[c] = "ended"
    /\ task' = [task EXCEPT ![c] = "joined"]
    /\ open' = open \ {c}
    /\ terminal' = IF /\ result[c] \notin {"ok", "closed"}
                      /\ Stops(Policy, result[c]) \/ result[c] = "pin"
                      /\ Outranks(result[c], terminal)
                   THEN result[c] ELSE terminal
    /\ UNCHANGED <<result, tokens, cancelled, phase, winner, failure,
                   outcome, caller, moved>>

Drained ==
    /\ phase = "drain" /\ Joined = Candidates
    /\ phase' = "check"
    /\ UNCHANGED <<task, result, open, tokens, cancelled, winner,
                   failure, terminal, outcome, caller, moved>>

\* Mutant: a winner hides a terminal failure that was found while draining.
VerdictWinnerFirst(alive) ==
    IF cancelled THEN "closed"
    ELSE IF winner # NoOne THEN IF alive THEN "ok" ELSE "closed"
    ELSE IF terminal # None /\ Outranks(terminal, failure) THEN terminal
    ELSE IF failure # None THEN failure ELSE "retry"

\* What is returned once all tasks are joined; `alive' is is_alive of the winner.
Verdict(alive) ==
    IF cancelled THEN "closed"
    ELSE IF winner # NoOne
         THEN IF terminal # None /\ Stops(Policy, terminal) THEN terminal
              ELSE IF alive THEN "ok" ELSE "closed"
    ELSE IF terminal # None /\ Outranks(terminal, failure) THEN terminal
    ELSE IF failure # None THEN failure ELSE "retry"

\* A winner that is not returned is shut down.
Conclude(alive) ==
    /\ phase = "check"
    /\ phase' = "done"
    /\ outcome' = Verdict(alive)
    /\ open' = IF Verdict(alive) = "ok" THEN open ELSE open \ {winner}
    /\ UNCHANGED <<task, result, tokens, cancelled, winner, failure,
                   terminal, caller, moved>>

(***************************************************************************)
(* The caller.  finish_generation is what the automatic callers do with a  *)
(* result; RaceOwner::drop is what is left of a caller that was dropped.   *)
(***************************************************************************)
finish_generation(r) ==
    IF Policy = "Strict" \/ Decision(r) = "Stop" \/ ~moved THEN r ELSE "network"

Return ==
    /\ phase = "done" /\ caller = "waiting"
    /\ caller' = "returned"
    /\ outcome' = finish_generation(outcome)
    /\ open' = IF outcome' = "ok" THEN open ELSE open \ {winner}
    /\ UNCHANGED <<task, result, tokens, cancelled, phase, winner,
                   failure, terminal, moved>>

\* Mutant: dropping the caller cancels, and nobody awaits the owner's result.
DropCallerDetached ==
    /\ caller = "waiting"
    /\ caller' = "dropped"
    /\ cancelled' = TRUE
    /\ UNCHANGED <<task, result, open, tokens, owner, moved>>

\* The drop cancels; the spawned cleanup shuts down a connection that the
\* owner has already returned.
DropCaller ==
    /\ caller = "waiting"
    /\ caller' = "dropped"
    /\ cancelled' = TRUE
    /\ open' = IF phase = "done" THEN open \ {winner} ELSE open
    /\ UNCHANGED <<task, result, tokens, owner, moved>>

Owner ==
    \/ SeeCancelled \/ AllJoined \/ Drained
    \/ \E c \in Candidates : JoinWinner(c) \/ JoinFailed(c) \/ Drain(c)
    \/ \E alive \in BOOLEAN : Conclude(alive)
    \/ Return

Task(c) == LeaveDelay(c) \/ \E r \in Failures \union {"ok"} : Connect(c, r)

Finished == phase = "done" /\ caller # "waiting" /\ UNCHANGED vars

Next ==
    \/ Owner
    \/ \E c \in Candidates : Task(c)
    \/ Deadline \/ NetworkChanges \/ DropCaller
    \/ Finished

(***************************************************************************)
(* Properties.                                                             *)
(***************************************************************************)
\* "child protocol drivers and exact socket leases have stopped before another
\* batch begins": a caller that has its result has no other connection left
\* open and no candidate still at work, and after an error it has none.
OnlyTheWinnerLives ==
    caller = "returned" =>
        /\ Joined = Candidates
        /\ open = IF outcome = "ok" THEN {winner} ELSE {}

\* A failure that stops the retries, or that asks for a pin refresh, is never
\* hidden by a weaker failure, nor a stopping one by a candidate that won:
\* not even when it arrives while the losers are being joined.
WorstFailureReported ==
    caller = "returned" =>
        \A c \in Candidates :
            /\ Stops(Policy, result[c]) /\ result[c] # "ok" => outcome # "ok"
            /\ (Stops(Policy, result[c]) \/ result[c] = "pin")
               /\ outcome \notin {"ok", "closed"}
               => recovery_priority(outcome) >= recovery_priority(result[c])
=============================================================================
