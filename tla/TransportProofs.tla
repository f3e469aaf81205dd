---------------------------- MODULE TransportProofs ----------------------------
(***************************************************************************)
(* The transport of a connection.  For MasqueConnect, SocketsAreOwned and   *)
(* WorstFailureReported for every set of candidates, every limit of tasks   *)
(* and permits, and any way in which handshakes end.  For L4Budget,         *)
(* BudgetIsAccounted and NobodySleepsOnCapacity for any number of tasks and *)
(* threads, any sizes of requests, of the pool and of the budget.           *)
(***************************************************************************)
EXTENDS MasqueConnect, L4Budget, FiniteSetTheorems, WellFoundedInduction, TLAPS

-----------------------------------------------------------------------------
(* A batch.  Both policies run the same loop; the one that is run decides    *)
(* which failures end it.                                                    *)

policy == IF mode = "strict" THEN "Strict" ELSE "Automatic"
Answers == Failures \union {"ok"}

BatchTypes ==
    /\ mode \in {"automatic", "strict", "generation"}
    /\ b_task \in [Candidates -> {"delayed", "connecting", "ended", "joined"}]
    /\ b_result \in [Candidates -> Answers \union {None}]
    /\ b_open \in SUBSET Candidates
    /\ b_cancelled \in BOOLEAN /\ b_moved \in BOOLEAN
    /\ b_phase \in {"race", "drain", "check", "done"}
    /\ b_winner \in Candidates \union {Strict!NoOne}
    /\ b_failure \in Failures \union {None} /\ b_terminal \in Failures \union {None}
    /\ b_outcome \in Answers \union {None}
    /\ b_caller \in {"waiting", "returned", "dropped"}

\* An established connection is the result of a task that is still to be
\* joined, or the winner's; a winner keeps it until the verdict.
Connected ==
    /\ \A c \in Candidates : b_task[c] \in {"ended", "joined"} <=> b_result[c] # None
    /\ \A c \in Candidates : b_task[c] = "ended" /\ b_result[c] = "ok" => c \in b_open
    /\ \A c \in b_open : b_result[c] = "ok" /\ (b_task[c] = "joined" => c = b_winner)
    /\ b_winner # Strict!NoOne =>
          /\ b_task[b_winner] = "joined" /\ b_phase # "race"
          /\ b_result[b_winner] = "ok"
          /\ b_phase # "done" => b_winner \in b_open

\* The owner has joined every task before it answers, and its answer says
\* what is left open.
Answered ==
    /\ b_phase \in {"check", "done"} => Strict!Joined = Candidates
    /\ b_phase = "done" /\ b_caller # "dropped" =>
          b_open = IF b_outcome = "ok" THEN {b_winner} ELSE {}
    /\ b_caller = "returned" => b_phase = "done"
    /\ b_cancelled <=> b_caller = "dropped"
    /\ b_phase = "done" => b_outcome # None

\* A failure that matters, and one that a kept failure is no weaker than.
Matters(f) == Stops(policy, f) \/ f = "pin"
Covers(kept, f) == kept # None /\ recovery_priority(kept) >= recovery_priority(f)

\* Until the caller goes, the failure of a task that was joined is covered by
\* what the loops keep: one that ends the race has ended it, and while there is
\* a winner only the drain loop can have met one.
Kept ==
    b_caller # "dropped" =>
        \A c \in Strict!Joined :
            /\ Matters(b_result[c]) =>
                  Covers(b_failure, b_result[c]) \/ Covers(b_terminal, b_result[c])
            /\ Stops(policy, b_result[c]) => b_phase # "race"
            /\ Stops(policy, b_result[c]) /\ b_winner # Strict!NoOne =>
                  Covers(b_terminal, b_result[c])

\* What the drain loop keeps is a failure that matters.
Terminal == b_terminal # None => Matters(b_terminal)

\* The answer of an owner whose caller is there.
Reported ==
    b_phase = "done" /\ b_caller # "dropped" =>
        \A c \in Candidates :
            /\ Stops(policy, b_result[c]) => b_outcome # "ok"
            /\ Stops(policy, b_result[c]) \/ (Matters(b_result[c]) /\ b_outcome \notin {"ok", "closed"})
               => recovery_priority(b_outcome) >= recovery_priority(b_result[c])

BatchInv ==
    BatchTypes /\ Connected /\ Answered /\ Kept /\ Terminal /\ Reported

-----------------------------------------------------------------------------
(* The failures and their order. *)

LEMMA Priorities ==
    /\ recovery_priority("retry") = 0 /\ recovery_priority("closed") = 0
    /\ recovery_priority("pin") = 1 /\ recovery_priority("network") = 2
    /\ recovery_priority("stop") = 3 /\ recovery_priority("ok") = 0
    /\ recovery_priority(None) = 0
  BY DEF recovery_priority, Decision, None

LEMMA Stopping ==
    \A f \in Answers \union {None} :
        /\ Stops("Strict", f) <=> f \in {"stop", "pin"}
        /\ Stops("Automatic", f) <=> f \in {"stop", "network"}
        /\ Decision(f) = "Stop" <=> f = "stop"
  BY DEF Answers, Failures, None, Stops, Decision

\* The policy of the mode, in the terms of both instances.
LEMMA SameRules ==
    /\ \A p, f : Strict!Stops(p, f) <=> Stops(p, f)
    /\ \A p, f : Generation!Stops(p, f) <=> Stops(p, f)
    /\ \A f : Strict!recovery_priority(f) = recovery_priority(f)
    /\ \A f : Generation!recovery_priority(f) = recovery_priority(f)
    /\ \A f, g : Strict!Outranks(f, g) <=> Outranks(f, g)
    /\ \A f, g : Generation!Outranks(f, g) <=> Outranks(f, g)
    /\ Strict!None = None /\ Generation!None = None
    /\ Strict!Failures = Failures /\ Generation!Failures = Failures
    /\ Strict!NoOne = Generation!NoOne /\ Strict!Joined = Generation!Joined
  BY DEF Strict!Stops, Generation!Stops, Strict!Decision, Generation!Decision, Stops, Decision,
         Strict!recovery_priority, Generation!recovery_priority, recovery_priority,
         Strict!Outranks, Generation!Outranks, Outranks, Strict!None, Generation!None, None,
         Strict!Failures, Generation!Failures, Failures, Strict!NoOne, Generation!NoOne,
         Strict!Joined, Generation!Joined

-----------------------------------------------------------------------------
(* The steps of a batch. *)

LEMMA InitBatch == InitConnect => BatchInv
<1> SUFFICES ASSUME InitConnect PROVE BatchInv OBVIOUS
<1> USE BatchAssumption, SameRules DEF InitConnect, Strict!Init, None
<1>1. BatchTypes BY DEF BatchTypes
<1>2. Connected BY DEF Connected
<1>3. Strict!Joined = {} BY DEF Strict!Joined
<1>4. Answered BY DEF Answered
<1>5. Kept BY <1>3 DEF Kept
<1> QED BY <1>1, <1>2, <1>4, <1>5 DEF BatchInv, Terminal, Reported

\* What is kept does not change as long as nobody is joined.
LEMMA KeptStays ==
    ASSUME BatchInv, BatchTypes', mode' = mode, Strict!Joined' = Strict!Joined,
           \A c \in Strict!Joined : b_result'[c] = b_result[c],
           b_caller = "dropped" => b_caller' = "dropped",
           \/ UNCHANGED <<b_failure, b_terminal>>
           \/ b_caller = "dropped" /\ b_terminal' = b_terminal,
           b_phase # "race" => b_phase' # "race", b_winner' = b_winner
    PROVE  Kept' /\ Terminal'
<1>1. policy' = policy BY DEF policy
<1>2. Kept'
  BY <1>1 DEF BatchInv, Kept, Covers, Matters
<1> QED BY <1>1, <1>2 DEF BatchInv, Terminal, Matters

LEMMA LeaveDelayKeeps ==
    ASSUME BatchInv, mode' = mode, NEW c \in Candidates, Strict!LeaveDelay(c)
    PROVE  BatchInv'
<1> USE DEF Strict!LeaveDelay, Strict!owner, Strict!None, None
<1>1. BatchTypes' BY DEF BatchInv, BatchTypes, Answers, Failures
<1>2. Strict!Joined' = Strict!Joined BY DEF Strict!Joined, BatchInv, BatchTypes
<1>3. c \notin b_open /\ b_result[c] = None /\ c # b_winner /\ c \notin Strict!Joined
  BY BatchAssumption DEF BatchInv, Connected, BatchTypes, Strict!Joined, Strict!NoOne
<1>4. Connected' BY <1>3 DEF BatchInv, Connected, BatchTypes
<1>5. b_phase \notin {"check", "done"} BY <1>3 DEF BatchInv, Answered
<1>6. Answered' BY <1>2, <1>5 DEF BatchInv, Answered
<1>7. \A d \in Strict!Joined : b_result'[d] = b_result[d]
  BY <1>3 DEF BatchInv, BatchTypes, Strict!Joined
<1>8. Kept' /\ Terminal' BY <1>1, <1>2, <1>7, KeptStays
<1> QED BY <1>1, <1>4, <1>5, <1>6, <1>8 DEF BatchInv, Reported

LEMMA ConnectKeeps ==
    ASSUME BatchInv, mode' = mode, NEW c \in Candidates, NEW r \in Answers, Strict!Connect(c, r)
    PROVE  BatchInv'
<1> USE DEF Strict!Connect, Strict!owner, Strict!None, None
<1>1. BatchTypes' BY DEF BatchInv, BatchTypes, Answers, Failures
<1>2. Strict!Joined' = Strict!Joined BY DEF Strict!Joined, BatchInv, BatchTypes
<1>3. c \notin b_open /\ b_result[c] = None /\ c # b_winner /\ c \notin Strict!Joined
  BY BatchAssumption DEF BatchInv, Connected, BatchTypes, Strict!Joined, Strict!NoOne
<1>4. Connected' BY <1>3 DEF BatchInv, Connected, BatchTypes, Answers, Failures
<1>5. b_phase \notin {"check", "done"} BY <1>3 DEF BatchInv, Answered
<1>6. Answered' BY <1>2, <1>5 DEF BatchInv, Answered
<1>7. \A d \in Strict!Joined : b_result'[d] = b_result[d]
  BY <1>3 DEF BatchInv, BatchTypes, Strict!Joined
<1>8. Kept' /\ Terminal' BY <1>1, <1>2, <1>7, KeptStays
<1> QED BY <1>1, <1>4, <1>5, <1>6, <1>8 DEF BatchInv, Reported

\* The owner leaves the race loop without a winner, or goes on to the verdict.
LEMMA LeaveKeeps ==
    ASSUME BatchInv, mode' = mode,
           Strict!SeeCancelled \/ Strict!Deadline \/ Strict!AllJoined \/ Strict!Drained
    PROVE  BatchInv'
<1> USE DEF Strict!SeeCancelled, Strict!Deadline, Strict!AllJoined, Strict!Drained,
            Strict!BeginDrain, None
<1>1. BatchTypes' BY DEF BatchInv, BatchTypes, Answers, Failures
<1>2. Strict!Joined' = Strict!Joined BY DEF Strict!Joined
<1>3. Connected' BY DEF BatchInv, Connected
<1>4. Answered' BY <1>2 DEF BatchInv, Answered
<1>5. Kept' /\ Terminal'
  BY <1>1, <1>2, KeptStays DEF BatchInv, Answered
<1> QED BY <1>1, <1>3, <1>4, <1>5 DEF BatchInv, Reported

LEMMA OutsideKeeps ==
    ASSUME BatchInv, mode' = mode, Strict!NetworkChanges \/ Strict!DropCaller
    PROVE  BatchInv'
<1> USE DEF Strict!NetworkChanges, Strict!DropCaller, Strict!owner
<1>1. BatchTypes' BY DEF BatchInv, BatchTypes
<1>2. Strict!Joined' = Strict!Joined BY DEF Strict!Joined
<1>3. Connected' BY BatchAssumption DEF BatchInv, BatchTypes, Connected, Strict!NoOne
<1>4. Answered' BY <1>2 DEF BatchInv, Answered
<1>5. Kept' /\ Terminal' BY <1>1, <1>2, KeptStays DEF BatchInv
<1>6. policy' = policy BY DEF policy
<1> QED BY <1>1, <1>3, <1>4, <1>5, <1>6 DEF BatchInv, Reported, Matters

LEMMA JoinWinnerKeeps ==
    ASSUME BatchInv, mode' = mode, NEW c \in Candidates, Strict!JoinWinner(c)
    PROVE  BatchInv'
<1> USE DEF Strict!JoinWinner, Strict!BeginDrain, None
<1>1. BatchTypes' BY DEF BatchInv, BatchTypes
<1>2. Strict!Joined' = Strict!Joined \union {c}
  BY DEF Strict!Joined, BatchInv, BatchTypes
<1>3. c \in b_open /\ b_winner = Strict!NoOne /\ b_result[c] = "ok"
  BY BatchAssumption DEF BatchInv, Connected, BatchTypes
<1>4. Connected'
  <2>1. \A d \in Candidates : b_task'[d] = IF d = c THEN "joined" ELSE b_task[d]
    BY DEF BatchInv, BatchTypes
  <2>2. \A d \in b_open : d \in Candidates /\ b_result[d] = "ok" /\ b_task[d] # "joined"
    BY <1>3, BatchAssumption DEF BatchInv, Connected, BatchTypes, Strict!NoOne
  <2> QED BY <1>3, <2>1, <2>2 DEF BatchInv, Connected
<1>5. Answered' BY <1>3 DEF BatchInv, Answered, BatchTypes
<1>6. policy' = policy BY DEF policy
<1>7. ~Matters("ok") /\ ~Stops(policy, "ok") BY Stopping DEF Matters, policy, Answers
<1>8. b_caller # "dropped" => \A d \in Strict!Joined : ~Stops(policy, b_result[d])
  BY DEF BatchInv, Kept
<1>9. Kept' BY <1>2, <1>6, <1>7, <1>8 DEF BatchInv, Kept, Matters, Covers
<1> QED BY <1>1, <1>4, <1>5, <1>6, <1>9 DEF BatchInv, Reported, Terminal, Matters

\* What the policies tell apart, as the loops use it.
LEMMA Weights ==
    ASSUME NEW f \in Answers \union {None}
    PROVE  /\ recovery_priority(f) \in 0 .. 3
           /\ Matters(f) => f \in Failures \ {"retry", "closed"} /\ recovery_priority(f) > 0
           /\ Stops(policy, f) => Matters(f)
           /\ Matters(f) /\ ~Stops(policy, f) => f = "pin" /\ policy = "Automatic"
           /\ policy = "Automatic" =>
                 (Stops(policy, f) <=> f # None /\ recovery_priority(f) >= 2)
           /\ policy = "Strict" /\ Matters(f) => Stops(policy, f)
           /\ Matters(f) /\ recovery_priority(f) = 1 => f = "pin"
  BY Stopping, Priorities DEF Matters, policy, Answers, Failures, None

LEMMA JoinFailedKeeps ==
    ASSUME BatchInv, mode' = mode, NEW c \in Candidates,
           \/ mode = "strict" /\ Strict!JoinFailed(c)
           \/ mode = "generation" /\ Generation!JoinFailed(c)
    PROVE  BatchInv'
<1> DEFINE r == b_result[c]
<1>1. /\ b_phase = "race" /\ ~b_cancelled
      /\ b_task[c] = "ended" /\ r # "ok"
      /\ b_task' = [b_task EXCEPT ![c] = "joined"]
      /\ \/ Stops(policy, r) /\ b_failure' = r /\ b_phase' = "drain"
         \/ /\ ~Stops(policy, r) /\ b_phase' = b_phase
            /\ b_failure' = IF b_failure # None /\ recovery_priority(b_failure) > recovery_priority(r)
                            THEN b_failure ELSE r
      /\ UNCHANGED <<b_result, b_open, b_cancelled, b_winner, b_terminal, b_outcome,
                     b_caller, b_moved>>
  BY SameRules DEF Strict!JoinFailed, Generation!JoinFailed, Strict!BeginDrain,
                   Generation!BeginDrain, policy
<1>2. r \in Failures /\ r \in Answers \union {None} /\ b_winner = Strict!NoOne
  BY <1>1 DEF BatchInv, BatchTypes, Connected, Answers
<1>3. BatchTypes'
  <2>1. b_task' \in [Candidates -> {"delayed", "connecting", "ended", "joined"}]
    BY <1>1 DEF BatchInv, BatchTypes
  <2>2. b_failure' \in Failures \union {None} BY <1>1, <1>2 DEF BatchInv, BatchTypes
  <2> QED BY <1>1, <2>1, <2>2 DEF BatchInv, BatchTypes
<1>4. Strict!Joined' = Strict!Joined \union {c}
  BY <1>1 DEF Strict!Joined, BatchInv, BatchTypes
<1>5. Connected'
  <2>1. \A d \in Candidates : b_task'[d] = IF d = c THEN "joined" ELSE b_task[d]
    BY <1>1 DEF BatchInv, BatchTypes
  <2>2. c \notin b_open BY <1>1 DEF BatchInv, Connected
  <2> QED BY <1>1, <1>2, <2>1, <2>2 DEF BatchInv, BatchTypes, Connected
<1>6. Answered' BY <1>1 DEF BatchInv, Answered
<1>7. policy' = policy BY DEF policy
<1>8. Kept'
  <2> SUFFICES ASSUME b_caller # "dropped", NEW d \in Strict!Joined \union {c}
      PROVE  /\ Matters(b_result[d]) =>
                   Covers(b_failure', b_result[d]) \/ Covers(b_terminal, b_result[d])
             /\ Stops(policy, b_result[d]) => b_phase' # "race"
    BY <1>1, <1>2, <1>4, <1>7 DEF Kept, Covers, Matters
  <2>1. d \in Candidates /\ b_result[d] \in Answers \union {None}
    BY DEF Strict!Joined, BatchInv, BatchTypes
  <2>2. b_failure \in Answers \union {None} BY DEF BatchInv, BatchTypes, Answers
  <2>3. r # None BY <1>1 DEF BatchInv, Connected
  <2>4. CASE d = c
    BY <1>1, <1>2, <2>2, <2>3, <2>4, Weights DEF Covers
  <2>5. CASE d # c
    <3>1. d \in Strict!Joined /\ ~Stops(policy, b_result[d])
      BY <1>1, <2>5 DEF BatchInv, Kept
    <3>2. Matters(b_result[d]) =>
             Covers(b_failure, b_result[d]) \/ Covers(b_terminal, b_result[d])
      BY <3>1 DEF BatchInv, Kept
    <3>3. Matters(b_result[d]) => b_result[d] = "pin" /\ policy = "Automatic"
      BY <2>1, <3>1, Weights
    <3>4. Stops(policy, r) /\ policy = "Automatic" => recovery_priority(r) >= 2
      BY <1>2, Weights
    <3> QED BY <1>1, <1>2, <2>1, <2>2, <2>3, <3>1, <3>2, <3>3, <3>4, Weights, Priorities DEF Covers
  <2> QED BY <2>4, <2>5
<1> QED BY <1>1, <1>3, <1>5, <1>6, <1>7, <1>8 DEF BatchInv, Reported, Terminal, Matters

LEMMA DrainKeeps ==
    ASSUME BatchInv, mode' = mode, NEW c \in Candidates,
           \/ mode = "strict" /\ Strict!Drain(c)
           \/ mode = "generation" /\ Generation!Drain(c)
    PROVE  BatchInv'
<1> DEFINE r == b_result[c]
<1>1. /\ b_phase = "drain" /\ b_task[c] = "ended"
      /\ b_task' = [b_task EXCEPT ![c] = "joined"]
      /\ b_open' = b_open \ {c}
      /\ b_terminal' = IF r \notin {"ok", "closed"} /\ Matters(r) /\ Outranks(r, b_terminal)
                       THEN r ELSE b_terminal
      /\ UNCHANGED <<b_result, b_cancelled, b_phase, b_winner, b_failure, b_outcome,
                     b_caller, b_moved>>
  BY SameRules DEF Strict!Drain, Generation!Drain, policy, Matters
<1>2. r \in Answers \union {None} /\ r # None /\ c # b_winner
  BY <1>1, BatchAssumption DEF BatchInv, BatchTypes, Connected, Strict!NoOne
<1>3. BatchTypes'
  <2>1. b_task' \in [Candidates -> {"delayed", "connecting", "ended", "joined"}]
    BY <1>1 DEF BatchInv, BatchTypes
  <2>2. b_terminal' \in Failures \union {None} BY <1>1, <1>2 DEF BatchInv, BatchTypes, Answers
  <2> QED BY <1>1, <2>1, <2>2 DEF BatchInv, BatchTypes
<1>4. Strict!Joined' = Strict!Joined \union {c}
  BY <1>1 DEF Strict!Joined, BatchInv, BatchTypes
<1>5. Connected'
  <2>1. \A d \in Candidates : b_task'[d] = IF d = c THEN "joined" ELSE b_task[d]
    BY <1>1 DEF BatchInv, BatchTypes
  <2> QED BY <1>1, <1>2, <2>1 DEF BatchInv, BatchTypes, Connected
<1>6. Answered' BY <1>1 DEF BatchInv, Answered
<1>7. policy' = policy BY DEF policy
<1>8. b_terminal \in Answers \union {None} BY DEF BatchInv, BatchTypes, Answers
<1>9. \A f \in Answers \union {None} : Covers(b_terminal, f) => Covers(b_terminal', f)
  BY <1>1, <1>2, <1>8, Weights DEF Covers, Outranks
<1>10. Matters(r) => Covers(b_terminal', r)
  BY <1>1, <1>2, <1>8, Weights DEF Covers, Outranks, Failures
<1>11. Kept'
  <2> SUFFICES ASSUME b_caller # "dropped", NEW d \in Strict!Joined \union {c}
      PROVE  /\ Matters(b_result[d]) =>
                   Covers(b_failure, b_result[d]) \/ Covers(b_terminal', b_result[d])
             /\ Stops(policy, b_result[d]) /\ b_winner # Strict!NoOne => Covers(b_terminal', b_result[d])
    BY <1>1, <1>4, <1>7 DEF Kept, Covers, Matters, Strict!NoOne
  <2>1. d \in Candidates /\ b_result[d] \in Answers \union {None}
    BY DEF Strict!Joined, BatchInv, BatchTypes
  <2>2. CASE d = c BY <1>2, <1>10, <2>2, Weights
  <2>3. CASE d # c BY <1>9, <2>1, <2>3 DEF BatchInv, Kept
  <2> QED BY <2>2, <2>3
<1>12. Terminal' BY <1>1, <1>7 DEF BatchInv, Terminal, Matters
<1> QED BY <1>1, <1>3, <1>5, <1>6, <1>11, <1>12 DEF BatchInv, Reported

LEMMA ConcludeKeeps ==
    ASSUME BatchInv, mode' = mode, NEW alive \in BOOLEAN,
           \/ mode = "strict" /\ Strict!Conclude(alive)
           \/ mode = "generation" /\ Generation!Conclude(alive)
    PROVE  BatchInv'
<1> DEFINE v == b_outcome'
<1>1. /\ b_phase = "check" /\ b_phase' = "done"
      /\ v = IF b_cancelled THEN "closed"
             ELSE IF b_winner # Strict!NoOne
                  THEN IF b_terminal # None /\ Stops(policy, b_terminal) THEN b_terminal
                       ELSE IF alive THEN "ok" ELSE "closed"
             ELSE IF b_terminal # None /\ Outranks(b_terminal, b_failure) THEN b_terminal
             ELSE IF b_failure # None THEN b_failure ELSE "retry"
      /\ b_open' = IF v = "ok" THEN b_open ELSE b_open \ {b_winner}
      /\ UNCHANGED <<b_task, b_result, b_cancelled, b_winner, b_failure, b_terminal,
                     b_caller, b_moved>>
  BY SameRules DEF Strict!Conclude, Generation!Conclude, Strict!Verdict, Generation!Verdict, policy
<1>2. /\ b_failure \in Answers \union {None} /\ b_terminal \in Answers \union {None}
      /\ b_failure # "ok" /\ b_terminal # "ok"
  BY DEF BatchInv, BatchTypes, Answers, Failures, None
<1>3. v \in Answers /\ v # None
  BY <1>1, <1>2 DEF Answers, Failures, None
<1>4. BatchTypes' BY <1>1, <1>3 DEF BatchInv, BatchTypes
<1>5. Strict!Joined' = Strict!Joined BY <1>1 DEF Strict!Joined
<1>6. Strict!Joined = Candidates BY <1>1 DEF BatchInv, Answered
<1>7. b_open \subseteq {b_winner} /\ (b_winner # Strict!NoOne => b_winner \in b_open)
  BY <1>1, <1>6 DEF BatchInv, BatchTypes, Connected, Strict!Joined
<1>8. v = "ok" => b_winner # Strict!NoOne BY <1>1, <1>2
<1>9. Connected'
  BY <1>1, BatchAssumption DEF BatchInv, BatchTypes, Connected, Strict!NoOne
<1>10. Answered' BY <1>1, <1>3, <1>5, <1>6, <1>7, <1>8 DEF BatchInv, Answered, BatchTypes
<1>11. policy' = policy BY DEF policy
<1>12. Kept' /\ Terminal' BY <1>1, <1>4, <1>5, KeptStays
<1>13. Reported'
  <2> SUFFICES ASSUME b_caller # "dropped", NEW c \in Candidates, Matters(b_result[c])
      PROVE  /\ Stops(policy, b_result[c]) => v # "ok"
             /\ Stops(policy, b_result[c]) \/ v \notin {"ok", "closed"}
                => recovery_priority(v) >= recovery_priority(b_result[c])
    BY <1>1, <1>11 DEF Reported, Matters
  <2>1. b_result[c] \in Answers \union {None} BY DEF BatchInv, BatchTypes
  <2>2. ~b_cancelled BY DEF BatchInv, Answered
  <2>3. Covers(b_failure, b_result[c]) \/ Covers(b_terminal, b_result[c])
    BY <1>6 DEF BatchInv, Kept
  <2>4. CASE b_winner # Strict!NoOne
    <3>1. Stops(policy, b_result[c]) => Covers(b_terminal, b_result[c])
      BY <1>6, <2>4 DEF BatchInv, Kept
    <3>2. b_terminal # None => Matters(b_terminal) BY DEF BatchInv, Terminal
    <3>3. Stops(policy, b_result[c]) => b_terminal # None /\ Stops(policy, b_terminal)
      <4>1. CASE policy = "Strict" BY <1>2, <3>1, <3>2, <4>1, Weights DEF Covers
      <4>2. CASE policy = "Automatic" BY <1>2, <2>1, <3>1, <3>2, <4>2, Weights DEF Covers
      <4> QED BY <4>1, <4>2 DEF policy
    <3>4. CASE Stops(policy, b_result[c])
      BY <1>1, <1>2, <2>2, <2>4, <3>1, <3>3, <3>4 DEF Covers
    <3>5. CASE ~Stops(policy, b_result[c])
      <4>1. b_result[c] = "pin" /\ recovery_priority(b_result[c]) = 1
        BY <2>1, <3>5, Weights, Priorities
      <4>2. v \notin {"ok", "closed"} => v = b_terminal /\ b_terminal # None
        BY <1>1, <2>2, <2>4
      <4>3. v \notin {"ok", "closed"} => recovery_priority(v) > 0
        BY <1>2, <4>2, <3>2, Weights
      <4>4. recovery_priority(v) \in 0 .. 3 BY <1>3, Weights
      <4> QED BY <3>5, <4>1, <4>3, <4>4
    <3> QED BY <3>4, <3>5
  <2>5. CASE b_winner = Strict!NoOne
    <3>1. recovery_priority(b_failure) \in 0 .. 3 /\ recovery_priority(b_terminal) \in 0 .. 3
      BY <1>2, Weights
    <3>2. recovery_priority(b_result[c]) \in 0 .. 3 BY <2>1, Weights
    <3> QED BY <1>1, <1>2, <2>2, <2>3, <2>5, <3>1, <3>2 DEF Covers, Outranks
  <2> QED BY <2>4, <2>5
<1> QED BY <1>4, <1>9, <1>10, <1>12, <1>13 DEF BatchInv

LEMMA ReturnKeeps ==
    ASSUME BatchInv, mode' = mode,
           \/ mode = "strict" /\ Strict!Return
           \/ mode = "generation" /\ Generation!Return
    PROVE  BatchInv'
<1> DEFINE o == b_outcome
           v == b_outcome'
<1>1. /\ b_phase = "done" /\ b_caller = "waiting" /\ b_caller' = "returned"
      /\ v = o \/ (v = "network" /\ policy = "Automatic" /\ o # "stop")
      /\ b_open' = IF v = "ok" THEN b_open ELSE b_open \ {b_winner}
      /\ UNCHANGED <<b_task, b_result, b_cancelled, b_phase, b_winner, b_failure,
                     b_terminal, b_moved>>
  <2>1. Generation!Decision("stop") = "Stop" BY DEF Generation!Decision
  <2> QED BY <2>1 DEF Strict!Return, Generation!Return, Strict!finish_generation,
                  Generation!finish_generation, policy
<1>2. o \in Answers \union {None} /\ o # None
  BY <1>1 DEF BatchInv, BatchTypes, Answered
<1>3. v \in Answers \union {None} /\ v # None
  BY <1>1, <1>2 DEF Answers, Failures, None
<1>4. BatchTypes' BY <1>1, <1>3 DEF BatchInv, BatchTypes
<1>5. Strict!Joined' = Strict!Joined BY <1>1 DEF Strict!Joined
<1>6. Connected'
  BY <1>1, BatchAssumption DEF BatchInv, BatchTypes, Connected, Strict!NoOne
<1>7. b_open = IF o = "ok" THEN {b_winner} ELSE {} BY <1>1 DEF BatchInv, Answered
<1>8. Answered' BY <1>1, <1>3, <1>5, <1>7 DEF BatchInv, Answered
<1>9. policy' = policy BY DEF policy
<1>10. Kept' /\ Terminal' BY <1>1, <1>4, <1>5, KeptStays
<1>11. Reported'
  <2> SUFFICES ASSUME NEW c \in Candidates, Matters(b_result[c])
      PROVE  /\ Stops(policy, b_result[c]) => v # "ok"
             /\ Stops(policy, b_result[c]) \/ v \notin {"ok", "closed"}
                => recovery_priority(v) >= recovery_priority(b_result[c])
    BY <1>1, <1>9 DEF Reported, Matters
  <2>1. /\ Stops(policy, b_result[c]) => o # "ok"
        /\ Stops(policy, b_result[c]) \/ o \notin {"ok", "closed"}
           => recovery_priority(o) >= recovery_priority(b_result[c])
    BY <1>1 DEF BatchInv, Reported
  <2>2. CASE v = o BY <2>1, <2>2
  <2>3. CASE v = "network" /\ policy = "Automatic" /\ o # "stop"
    <3>1. b_result[c] \in Answers \union {None} BY DEF BatchInv, BatchTypes
    <3>2. recovery_priority(o) <= 2
      BY <1>2, <2>3, Priorities DEF Answers, Failures, None
    <3>3. Stops(policy, b_result[c]) => recovery_priority(b_result[c]) <= 2
      BY <1>2, <2>1, <3>1, <3>2, Weights
    <3>4. ~Stops(policy, b_result[c]) => recovery_priority(b_result[c]) = 1
      BY <3>1, Weights, Priorities
    <3> QED BY <2>3, <3>3, <3>4, Priorities
  <2> QED BY <1>1, <2>2, <2>3
<1> QED BY <1>4, <1>6, <1>8, <1>10, <1>11 DEF BatchInv

\* The batch stands still while nothing of it changes.
LEMMA BatchStays == BatchInv /\ UNCHANGED <<mode, batch>> => BatchInv'
<1> SUFFICES ASSUME BatchInv, UNCHANGED <<mode, batch>> PROVE BatchInv' OBVIOUS
<1> USE DEF batch
<1>1. policy' = policy /\ Strict!Joined' = Strict!Joined BY DEF policy, Strict!Joined
<1>2. BatchTypes' BY DEF BatchInv, BatchTypes
<1>3. Connected' BY DEF BatchInv, Connected, Strict!NoOne
<1>4. Answered' BY <1>1 DEF BatchInv, Answered
<1>5. Kept' /\ Terminal' BY <1>1, <1>2, KeptStays
<1>6. Reported' BY <1>1 DEF BatchInv, Reported, Matters
<1> QED BY <1>2, <1>3, <1>4, <1>5, <1>6 DEF BatchInv

\* A step of a batch under the policy of its mode.
LEMMA BatchKeeps ==
    ASSUME BatchInv, mode' = mode,
           (mode = "strict" /\ Strict!Next) \/ (mode = "generation" /\ Generation!Next)
    PROVE  BatchInv'
<1>1. CASE mode = "strict" /\ Strict!Next
  <2>1. CASE \E c \in Candidates : Strict!LeaveDelay(c) BY <2>1, LeaveDelayKeeps
  <2>2. CASE \E c \in Candidates, r \in Answers : Strict!Connect(c, r) BY <2>2, ConnectKeeps
  <2>3. CASE Strict!SeeCancelled \/ Strict!Deadline \/ Strict!AllJoined \/ Strict!Drained
    BY <2>3, LeaveKeeps
  <2>4. CASE Strict!NetworkChanges \/ Strict!DropCaller BY <2>4, OutsideKeeps
  <2>5. CASE \E c \in Candidates : Strict!JoinWinner(c) BY <2>5, JoinWinnerKeeps
  <2>6. CASE \E c \in Candidates : Strict!JoinFailed(c) BY <1>1, <2>6, JoinFailedKeeps
  <2>7. CASE \E c \in Candidates : Strict!Drain(c) BY <1>1, <2>7, DrainKeeps
  <2>8. CASE \E alive \in BOOLEAN : Strict!Conclude(alive) BY <1>1, <2>8, ConcludeKeeps
  <2>9. CASE Strict!Return BY <1>1, <2>9, ReturnKeeps
  <2>10. CASE Strict!Finished BY <2>10, BatchStays DEF Strict!Finished, Strict!vars, batch
  <2> QED BY <1>1, <2>1, <2>2, <2>3, <2>4, <2>5, <2>6, <2>7, <2>8, <2>9, <2>10, SameRules
          DEF Strict!Next, Strict!Owner, Strict!Task, Answers
<1>2. CASE mode = "generation" /\ Generation!Next
  <2>1. CASE \E c \in Candidates : Generation!LeaveDelay(c)
    BY <2>1, LeaveDelayKeeps
       DEF Strict!LeaveDelay, Generation!LeaveDelay, Strict!Cancelled, Generation!Cancelled,
           Strict!owner, Generation!owner
  <2>2. CASE \E c \in Candidates, r \in Answers : Generation!Connect(c, r)
    BY <2>2, ConnectKeeps DEF Strict!Connect, Generation!Connect, Strict!owner, Generation!owner
  <2>3. CASE Generation!SeeCancelled \/ Generation!AllJoined \/ Generation!Drained
    BY <2>3, LeaveKeeps, SameRules
       DEF Strict!SeeCancelled, Generation!SeeCancelled, Strict!AllJoined, Generation!AllJoined,
           Strict!Drained, Generation!Drained, Strict!BeginDrain, Generation!BeginDrain
  <2>4. CASE Generation!NetworkChanges \/ Generation!DropCaller
    BY <2>4, OutsideKeeps
       DEF Strict!NetworkChanges, Generation!NetworkChanges, Strict!DropCaller,
           Generation!DropCaller, Strict!owner, Generation!owner
  <2>5. CASE \E c \in Candidates : Generation!JoinWinner(c)
    BY <2>5, JoinWinnerKeeps
       DEF Strict!JoinWinner, Generation!JoinWinner, Strict!BeginDrain, Generation!BeginDrain
  <2>6. CASE \E c \in Candidates : Generation!JoinFailed(c) BY <1>2, <2>6, JoinFailedKeeps
  <2>7. CASE \E c \in Candidates : Generation!Drain(c) BY <1>2, <2>7, DrainKeeps
  <2>8. CASE \E alive \in BOOLEAN : Generation!Conclude(alive) BY <1>2, <2>8, ConcludeKeeps
  <2>9. CASE Generation!Return BY <1>2, <2>9, ReturnKeeps
  <2>10. CASE Generation!Finished
    BY <2>10, BatchStays DEF Generation!Finished, Generation!vars, batch
  <2> QED BY <1>2, <2>1, <2>2, <2>3, <2>4, <2>5, <2>6, <2>7, <2>8, <2>9, <2>10, SameRules
          DEF Generation!Next, Generation!Owner, Generation!Task, Generation!Deadline, Answers
<1> QED BY <1>1, <1>2

-----------------------------------------------------------------------------
(* The automatic race. *)

States == {"free", "delay", "permit", "connecting", "late", "ended", "won"}
TaskRec == [lane : Lanes, at : States, result : Answers \union {None}]

RaceTypes ==
    /\ task \in [Ids -> TaskRec]
    /\ open \in SUBSET Ids /\ permits \in Nat
    /\ winner \in Ids \union {NoOne}
    /\ phase \in {"top", "admit", "select", "drain", "done"}
    /\ cancelled \in BOOLEAN /\ moved \in BOOLEAN /\ pinned \in BOOLEAN
    /\ terminal \in {None, "network", "stop", "closed"}
    /\ last \in Failures \union {None}
    /\ seen \in SUBSET (Failures \union {None})
    /\ caller \in {"waiting", "returned", "dropped"}

\* A task has a connection, or a permit for the one that it makes.
HasConnection(x) == x.at = "won" \/ (x.at = "ended" /\ x.result = "ok")
HoldsPermit(x) == x.at \in {"connecting", "late"} \/ HasConnection(x)
Holders == {i \in Ids : HoldsPermit(task[i])}

\* Until the owner is done a connection belongs to a task, and every permit is
\* free or with the task that holds it.
Owned ==
    /\ phase # "done" =>
          /\ open = {i \in Ids : HasConnection(task[i])}
          /\ Cardinality(Holders) + permits = Slots
          /\ \A i \in Ids : task[i].at = "won" <=> i = winner
    /\ winner # NoOne => phase \in {"drain", "done"}
    /\ phase = "done" =>
          /\ \A i \in Ids : task[i].at = "free"
          /\ permits = Slots
          /\ outcome # "ok" \/ caller = "dropped" => open = {}
          /\ outcome = "ok" => open \subseteq {winner}

\* Unless the owner was cancelled, what it has joined decides what it keeps.
Evidence ==
    /\ cancelled <=> caller = "dropped"
    /\ phase \in {"top", "admit", "select"} => terminal = None /\ seen \cap {"network", "stop"} = {}
    /\ ~cancelled => /\ terminal # "closed"
                     /\ "stop" \in seen => terminal = "stop"
                     /\ "network" \in seen => terminal \in {"network", "stop"}
    /\ "pin" \in seen => pinned
    /\ EvidenceIsKept

RaceInv == RaceTypes /\ Owned /\ Evidence

LEMMA InitRace == Init => RaceInv
<1> SUFFICES ASSUME Init PROVE RaceInv OBVIOUS
<1> USE AutomaticAssumption DEF Init, Free, None, NoOne, Lanes
<1>1. RaceTypes BY DEF RaceTypes, TaskRec, Answers, States
<1>2. Holders = {} BY DEF Holders, HoldsPermit, HasConnection
<1>3. Cardinality({}) = 0 BY FS_EmptySet
<1>4. Owned BY <1>2, <1>3 DEF Owned, HasConnection, Ids
<1> QED BY <1>1, <1>4 DEF RaceInv, Evidence, EvidenceIsKept

LEMMA Ending == \A f \in Answers \union {None} : Ends(f) <=> f \in {"network", "stop"}
  BY Stopping DEF Ends, Answers, Failures, None

\* The owner goes on, leaves its loop, or a timer or the network acts.
LEMMA OwnerMoves ==
    ASSUME RaceInv, UNCHANGED <<task, open, permits, cancelled, verdict, outcome, caller>>,
           moved' \in BOOLEAN, phase' \in {"top", "admit", "select", "drain", "done"},
           phase = "drain" => phase' = "drain", phase = "done" <=> phase' = "done"
    PROVE  RaceInv'
<1> USE DEF verdict
<1>1. RaceTypes' BY DEF RaceInv, RaceTypes
<1>2. Holders' = Holders BY DEF Holders
<1>3. Owned' BY <1>2 DEF RaceInv, Owned
<1>4. Evidence' BY DEF RaceInv, RaceTypes, Evidence, EvidenceIsKept
<1> QED BY <1>1, <1>3, <1>4 DEF RaceInv

LEMMA TopKeeps == RaceInv /\ Top => RaceInv'
<1> SUFFICES ASSUME RaceInv, Top PROVE RaceInv' OBVIOUS
<1>1. /\ phase = "top"
      /\ UNCHANGED <<task, open, permits, cancelled, winner, pinned, last, seen,
                     outcome, caller, moved>>
      /\ \/ terminal' = "network" /\ phase' = "drain"
         \/ terminal' = terminal /\ phase' \in {"drain", "admit"}
  BY DEF Top, Leave
<1>2. CASE terminal' = terminal
  BY <1>1, <1>2, OwnerMoves DEF verdict, RaceInv, RaceTypes
<1>3. CASE terminal' = "network" /\ phase' = "drain"
  <2>1. RaceTypes' BY <1>1, <1>3 DEF RaceInv, RaceTypes
  <2>2. Holders' = Holders BY <1>1 DEF Holders
  <2>3. Owned' BY <1>1, <1>3, <2>2 DEF RaceInv, Owned
  <2>4. Evidence' BY <1>1, <1>3 DEF RaceInv, Evidence, EvidenceIsKept
  <2> QED BY <2>1, <2>3, <2>4 DEF RaceInv
<1> QED BY <1>1, <1>2, <1>3

LEMMA SeeCancelledKeeps == RaceInv /\ SeeCancelled => RaceInv'
<1> SUFFICES ASSUME RaceInv, SeeCancelled PROVE RaceInv' OBVIOUS
<1> USE DEF SeeCancelled, Leave
<1>1. RaceTypes' BY DEF RaceInv, RaceTypes
<1>2. Holders' = Holders BY DEF Holders
<1>3. Owned' BY <1>2 DEF RaceInv, Owned
<1>4. Evidence' BY DEF RaceInv, Evidence, EvidenceIsKept
<1> QED BY <1>1, <1>3, <1>4 DEF RaceInv

\* One task goes from its record to another: the permits follow.
LEMMA PermitsFollow ==
    ASSUME RaceInv, NEW i \in Ids, NEW x \in TaskRec, task' = [task EXCEPT ![i] = x],
           phase # "done",
           permits' = permits + (IF HoldsPermit(task[i]) THEN 1 ELSE 0)
                              - (IF HoldsPermit(x) THEN 1 ELSE 0)
    PROVE  Cardinality(Holders') + permits' = Slots
<1>1. \A j \in Ids : task'[j] = IF j = i THEN x ELSE task[j] BY DEF RaceInv, RaceTypes
<1>2. Holders' = IF HoldsPermit(x) THEN Holders \union {i} ELSE Holders \ {i}
  BY <1>1 DEF Holders
<1>3. i \in Holders <=> HoldsPermit(task[i]) BY DEF Holders
<1>4. IsFiniteSet(Holders)
  <2>1. IsFiniteSet(Ids) BY FS_Interval, AutomaticAssumption DEF Ids
  <2>2. Holders \subseteq Ids BY DEF Holders
  <2> QED BY <2>1, <2>2, FS_Subset
<1>5. /\ Cardinality(Holders) \in Nat
      /\ Cardinality(Holders \union {i}) =
            IF i \in Holders THEN Cardinality(Holders) ELSE Cardinality(Holders) + 1
      /\ Cardinality(Holders \ {i}) =
            IF i \in Holders THEN Cardinality(Holders) - 1 ELSE Cardinality(Holders)
  BY <1>4, FS_CardinalityType, FS_AddElement, FS_RemoveElement
<1>6. Cardinality(Holders) + permits = Slots BY DEF RaceInv, Owned
<1>7. permits \in Nat /\ Slots \in Nat BY AutomaticAssumption DEF RaceInv, RaceTypes
<1> QED BY <1>2, <1>3, <1>5, <1>6, <1>7

\* A step of one task that neither wins nor is joined.
LEMMA TaskMoves ==
    ASSUME RaceInv, NEW i \in Ids, NEW x \in TaskRec, task' = [task EXCEPT ![i] = x],
           phase # "done", task[i].at # "won", x.at # "won",
           open' = IF HasConnection(x) THEN open \union {i} ELSE open \ {i},
           permits' \in Nat,
           permits' = permits + (IF HoldsPermit(task[i]) THEN 1 ELSE 0)
                              - (IF HoldsPermit(x) THEN 1 ELSE 0),
           UNCHANGED <<cancelled, phase, verdict, outcome, caller, moved>>
    PROVE  RaceInv'
<1> USE DEF verdict
<1>2. RaceTypes' BY DEF RaceInv, RaceTypes
<1>3. \A j \in Ids : task'[j] = IF j = i THEN x ELSE task[j] BY DEF RaceInv, RaceTypes
<1>4. Cardinality(Holders') + permits' = Slots BY PermitsFollow
<1>5. open' = {j \in Ids : HasConnection(task'[j])}
  BY <1>3 DEF RaceInv, Owned
<1>6. \A j \in Ids : task'[j].at = "won" <=> j = winner
  BY <1>3 DEF RaceInv, Owned
<1>7. Owned' BY <1>4, <1>5, <1>6 DEF RaceInv, Owned
<1>8. Evidence' BY DEF RaceInv, Evidence, EvidenceIsKept
<1> QED BY <1>2, <1>7, <1>8 DEF RaceInv

\* The record of a task, and what an EXCEPT of it is.
LEMMA Records ==
    ASSUME RaceTypes, NEW i \in Ids
    PROVE  /\ task[i] \in TaskRec /\ task[i].lane \in Lanes
           /\ task[i].result \in Answers \union {None}
           /\ \A s : [task EXCEPT ![i].at = s] =
                        [task EXCEPT ![i] = [lane |-> task[i].lane, at |-> s, result |-> task[i].result]]
           /\ \A s, r : [task EXCEPT ![i].at = s, ![i].result = r] =
                        [task EXCEPT ![i] = [lane |-> task[i].lane, at |-> s, result |-> r]]
<1>1. task[i] \in TaskRec BY DEF RaceTypes
<1>2. task[i] = [lane |-> task[i].lane, at |-> task[i].at, result |-> task[i].result]
  BY <1>1 DEF TaskRec
<1>3. \A s : [task[i] EXCEPT !.at = s] = [lane |-> task[i].lane, at |-> s, result |-> task[i].result]
  BY <1>2
<1>4. ASSUME NEW s, NEW r
      PROVE  [[task[i] EXCEPT !.at = s] EXCEPT !.result = r]
                = [lane |-> task[i].lane, at |-> s, result |-> r]
  <2>1. [task[i] EXCEPT !.at = s] = [lane |-> task[i].lane, at |-> s, result |-> task[i].result]
    BY <1>3
  <2>2. [[lane |-> task[i].lane, at |-> s, result |-> task[i].result] EXCEPT !.result = r]
           = [lane |-> task[i].lane, at |-> s, result |-> r]
    OBVIOUS
  <2> QED BY <2>1, <2>2
<1>5. task \in [Ids -> TaskRec] BY DEF RaceTypes
<1>6. ASSUME NEW s
      PROVE  [task EXCEPT ![i].at = s] =
                [task EXCEPT ![i] = [lane |-> task[i].lane, at |-> s, result |-> task[i].result]]
  BY <1>3, <1>5
<1>7. ASSUME NEW s, NEW r
      PROVE  [task EXCEPT ![i].at = s, ![i].result = r] =
                [task EXCEPT ![i] = [lane |-> task[i].lane, at |-> s, result |-> r]]
  BY <1>4, <1>5
<1> QED BY <1>1, <1>6, <1>7 DEF TaskRec

LEMMA AdmitKeeps == RaceInv /\ Admit => RaceInv'
<1> SUFFICES ASSUME RaceInv, Admit PROVE RaceInv' OBVIOUS
<1> DEFINE i == CHOOSE j \in Ids : j \notin Flying
           x(l) == [lane |-> l, at |-> "delay", result |-> None]
<1>1. PICK l \in Lanes : task' = [task EXCEPT ![i] = x(l)]
  BY DEF Admit
<1>2. i \in Ids /\ i \notin Flying
  BY DEF Admit, Flying, At
<1>3. task[i].at = "free" BY <1>2 DEF Flying, At
<1>4. x(l) \in TaskRec /\ x(l).at = "delay" BY DEF TaskRec, States, Answers
<1>5. ~HoldsPermit(task[i]) /\ ~HoldsPermit(x(l)) /\ ~HasConnection(x(l)) /\ i \notin open
  BY <1>2, <1>3 DEF HoldsPermit, HasConnection, RaceInv, Owned, Admit
<1>6. phase # "done" /\ UNCHANGED <<open, permits, cancelled, phase, verdict, outcome, caller, moved>>
  BY DEF Admit
<1>7. permits \in Nat BY DEF RaceInv, RaceTypes
<1> HIDE DEF i, x
<1>8. open' = IF HasConnection(x(l)) THEN open \union {i} ELSE open \ {i} BY <1>5, <1>6
<1>9. permits' = permits + (IF HoldsPermit(task[i]) THEN 1 ELSE 0) - (IF HoldsPermit(x(l)) THEN 1 ELSE 0)
  BY <1>5, <1>6, <1>7
<1>10. permits' \in Nat BY <1>6, <1>7
<1> QED BY <1>1, <1>2, <1>3, <1>4, <1>6, <1>8, <1>9, <1>10, TaskMoves

\* The steps of a task, each by the record that it leaves.
LEMMA TaskKeeps ==
    ASSUME RaceInv, NEW i \in Ids, Task(i) \/ TimeOut(i)
    PROVE  RaceInv'
<1>1. permits \in Nat /\ RaceTypes BY DEF RaceInv, RaceTypes
<1>2. task[i].at \in {"delay", "permit", "connecting", "late"}
  BY DEF Task, TimeOut, GiveUp, EndDelay, AcquireSlot, Handshake, HandshakeAborted
<1>3. phase # "done" BY <1>2 DEF RaceInv, Owned
<1>4. i \notin open BY <1>2, <1>3 DEF RaceInv, Owned, HasConnection
<1>5. HoldsPermit(task[i]) <=> task[i].at \in {"connecting", "late"}
  BY <1>2 DEF HoldsPermit, HasConnection
<1> DEFINE X(s, r) == [lane |-> task[i].lane, at |-> s, result |-> r]
           Goes(s, r) == task' = [task EXCEPT ![i] = X(s, r)]
<1>6. ASSUME NEW s \in States \ {"won"}, NEW r \in Answers \union {None}, Goes(s, r),
             open' = IF s = "ended" /\ r = "ok" THEN open \union {i} ELSE open,
             permits' \in Nat,
             permits' = permits + (IF task[i].at \in {"connecting", "late"} THEN 1 ELSE 0)
                                - (IF s \in {"connecting", "late"} \/ (s = "ended" /\ r = "ok")
                                   THEN 1 ELSE 0),
             UNCHANGED <<cancelled, phase, verdict, outcome, caller, moved>>
      PROVE  RaceInv'
  <2>1. X(s, r) \in TaskRec /\ X(s, r).at = s /\ X(s, r).result = r
    BY <1>1, Records DEF TaskRec
  <2> HIDE DEF X
  <2>2. HasConnection(X(s, r)) <=> s = "ended" /\ r = "ok" BY <1>6, <2>1 DEF HasConnection
  <2>3. open' = IF HasConnection(X(s, r)) THEN open \union {i} ELSE open \ {i}
    BY <1>4, <1>6, <2>2
  <2>4. HoldsPermit(X(s, r)) <=> s \in {"connecting", "late"} \/ (s = "ended" /\ r = "ok")
    BY <2>1, <2>2 DEF HoldsPermit
  <2>5. permits' = permits + (IF HoldsPermit(task[i]) THEN 1 ELSE 0)
                           - (IF HoldsPermit(X(s, r)) THEN 1 ELSE 0)
    BY <1>5, <1>6, <2>4
  <2> QED BY <1>2, <1>3, <1>6, <2>1, <2>3, <2>5, TaskMoves
<1>7. task[i].result \in Answers \union {None} BY <1>1, Records
<1>8. \A f \in Failures : f \in Answers \union {None} /\ f # "ok" BY DEF Answers, Failures
<1>9. \A r \in Outcomes : r \in Answers \union {None} /\ r \in Failures \union {"ok"}
  BY AutomaticAssumption DEF Answers
<1>10. \A s : [task EXCEPT ![i].at = s] = [task EXCEPT ![i] = X(s, task[i].result)]
  BY <1>1, Records
<1>11. \A s, r : [task EXCEPT ![i].at = s, ![i].result = r] = [task EXCEPT ![i] = X(s, r)]
  BY <1>1, Records
<1>12. CASE GiveUp(i)
  <2>1. Goes("ended", "closed") BY <1>11, <1>12 DEF GiveUp
  <2>2. "ended" \in States \ {"won"} /\ "closed" \in Answers \union {None}
    BY <1>8 DEF States, Failures
  <2> HIDE DEF Goes
  <2> QED BY <1>1, <1>6, <1>12, <2>1, <2>2 DEF GiveUp
<1>13. CASE EndDelay(i)
  <2>1. Goes("permit", task[i].result) BY <1>10, <1>13 DEF EndDelay
  <2>2. "permit" \in States \ {"won"} BY DEF States
  <2> HIDE DEF Goes
  <2> QED BY <1>1, <1>6, <1>7, <1>13, <2>1, <2>2 DEF EndDelay
<1>14. CASE AcquireSlot(i)
  <2>1. Goes("connecting", task[i].result) BY <1>10, <1>14 DEF AcquireSlot
  <2>2. "connecting" \in States \ {"won"} BY DEF States
  <2> HIDE DEF Goes
  <2> QED BY <1>1, <1>6, <1>7, <1>14, <2>1, <2>2 DEF AcquireSlot
<1>15. CASE TimeOut(i)
  <2>1. Goes("late", task[i].result) BY <1>10, <1>15 DEF TimeOut
  <2>2. "late" \in States \ {"won"} BY DEF States
  <2> HIDE DEF Goes
  <2> QED BY <1>1, <1>6, <1>7, <1>15, <2>1, <2>2 DEF TimeOut
<1>16. ASSUME NEW r \in Outcomes, Handshake(i, r) PROVE RaceInv'
  <2>1. Goes("ended", r) BY <1>11, <1>16 DEF Handshake
  <2>2. "ended" \in States \ {"won"} BY DEF States
  <2> HIDE DEF Goes
  <2> QED BY <1>1, <1>6, <1>9, <1>16, <2>1, <2>2 DEF Handshake
<1>17. ASSUME NEW r \in Outcomes, HandshakeAborted(i, r) PROVE RaceInv'
  <2>1. PICK f \in Failures : task' = [task EXCEPT ![i].at = "ended", ![i].result = f]
    BY <1>9, <1>17 DEF HandshakeAborted, Failures
  <2>2. Goes("ended", f) BY <1>11, <2>1
  <2>3. "ended" \in States \ {"won"} BY DEF States
  <2> HIDE DEF Goes
  <2> QED BY <1>1, <1>6, <1>8, <1>17, <2>2, <2>3 DEF HandshakeAborted
<1> QED BY <1>12, <1>13, <1>14, <1>15, <1>16, <1>17 DEF Task

\* CandidateFailures::record
LEMMA Recorded ==
    ASSUME RaceInv, NEW f \in Failures \union {None}, Record(f)
    PROVE  /\ pinned' \in BOOLEAN /\ last' \in Failures \union {None}
           /\ pinned \/ f = "pin" => pinned'
<1>1. Ends(f) <=> f \in {"network", "stop"} BY Ending DEF Answers
<1> QED BY <1>1 DEF Record, RaceInv, RaceTypes

LEMMA JoinTaskKeeps ==
    ASSUME RaceInv, NEW i \in Ids, JoinTask(i)
    PROVE  RaceInv'
<1> DEFINE r == task[i].result
           won == [lane |-> task[i].lane, at |-> "won", result |-> r]
<1>1. /\ phase = "select" /\ ~cancelled /\ task[i].at = "ended"
      /\ UNCHANGED <<open, permits, cancelled, outcome, caller, moved>>
      /\ seen' = seen \union ({r} \ {"ok"})
  BY DEF JoinTask
<1>2. RaceTypes /\ task[i] \in TaskRec /\ task[i].lane \in Lanes /\ r \in Answers \union {None}
  BY Records DEF RaceInv
<1>3. Ends(r) <=> r \in {"network", "stop"} BY <1>2, Ending
<1>4. terminal = None /\ seen \cap {"network", "stop"} = {} /\ winner = NoOne
  BY <1>1 DEF RaceInv, Evidence, Owned
<1>5. \A j \in Ids : task[j].at # "won" BY <1>1, <1>4 DEF RaceInv, Owned, Ids, NoOne
<1>6. CASE r = "ok"
  <2>1. [task[i] EXCEPT !.at = "won"] = won BY <1>2 DEF TaskRec
  <2>2. task' = [task EXCEPT ![i] = won]
    <3>1. task' = [task EXCEPT ![i] = IF @.result = "ok" THEN [@ EXCEPT !.at = "won"] ELSE Free]
      BY DEF JoinTask
    <3> QED BY <1>2, <1>6, <2>1, <3>1 DEF RaceTypes
  <2>3. winner' = i /\ phase' = "drain" /\ UNCHANGED <<terminal, pinned, last, seen>>
    BY <1>1, <1>6 DEF JoinTask
  <2>4. won \in TaskRec /\ won.at = "won" /\ won.result = "ok" BY <1>2, <1>6 DEF TaskRec, States
  <2> HIDE DEF won
  <2>5. RaceTypes' BY <1>1, <1>2, <2>2, <2>3, <2>4 DEF RaceTypes
  <2>6. \A j \in Ids : task'[j] = IF j = i THEN won ELSE task[j] BY <1>2, <2>2 DEF RaceTypes
  <2>7. HasConnection(task[i]) /\ HasConnection(won) /\ HoldsPermit(task[i]) /\ HoldsPermit(won)
    BY <1>1, <1>6, <2>4 DEF HasConnection, HoldsPermit
  <2>8. permits' = permits + (IF HoldsPermit(task[i]) THEN 1 ELSE 0) - (IF HoldsPermit(won) THEN 1 ELSE 0)
    BY <1>1, <1>2, <2>7 DEF RaceTypes
  <2>9. Cardinality(Holders') + permits' = Slots BY <1>1, <2>2, <2>4, <2>8, PermitsFollow
  <2>10. open' = {j \in Ids : HasConnection(task'[j])} BY <1>1, <2>6, <2>7 DEF RaceInv, Owned
  <2>11. \A j \in Ids : task'[j].at = "won" <=> j = winner' BY <1>5, <2>3, <2>4, <2>6
  <2>12. Owned' BY <2>3, <2>9, <2>10, <2>11 DEF Owned
  <2>13. Evidence' BY <1>1, <1>4, <2>3 DEF RaceInv, Evidence, EvidenceIsKept
  <2> QED BY <2>5, <2>12, <2>13 DEF RaceInv
<1>7. CASE r # "ok"
  <2>1. task' = [task EXCEPT ![i] = Free]
    <3>1. task' = [task EXCEPT ![i] = IF @.result = "ok" THEN [@ EXCEPT !.at = "won"] ELSE Free]
      BY DEF JoinTask
    <3> QED BY <1>2, <1>7, <3>1 DEF RaceTypes
  <2>2. /\ Record(r) /\ winner' = winner /\ seen' = seen \union {r}
        /\ IF r \in {"network", "stop"} THEN terminal' = r /\ phase' = "drain"
           ELSE phase' = "top" /\ terminal' = terminal
    BY <1>1, <1>3, <1>7 DEF JoinTask, Leave
  <2>3. Free \in TaskRec /\ Free.at = "free" BY DEF Free, TaskRec, States, Lanes
  <2>4. r \in Failures \union {None} BY <1>2, <1>7 DEF Answers
  <2>5. /\ pinned' \in BOOLEAN /\ last' \in Failures \union {None}
        /\ pinned \/ r = "pin" => pinned'
    BY <2>2, <2>4, Recorded
  <2>6. RaceTypes' BY <1>1, <1>2, <2>1, <2>2, <2>3, <2>4, <2>5 DEF RaceTypes
  <2>7. \A j \in Ids : task'[j] = IF j = i THEN Free ELSE task[j] BY <1>2, <2>1 DEF RaceTypes
  <2>8. ~HasConnection(task[i]) /\ ~HasConnection(Free) /\ ~HoldsPermit(task[i]) /\ ~HoldsPermit(Free)
    BY <1>1, <1>7, <2>3 DEF HasConnection, HoldsPermit
  <2>9. permits' = permits + (IF HoldsPermit(task[i]) THEN 1 ELSE 0) - (IF HoldsPermit(Free) THEN 1 ELSE 0)
    BY <1>1, <1>2, <2>8 DEF RaceTypes
  <2>10. Cardinality(Holders') + permits' = Slots BY <1>1, <2>1, <2>3, <2>9, PermitsFollow
  <2>11. open' = {j \in Ids : HasConnection(task'[j])} BY <1>1, <2>7, <2>8 DEF RaceInv, Owned
  <2>12. \A j \in Ids : task'[j].at = "won" <=> j = winner'
    BY <1>1, <2>2, <2>3, <2>7 DEF RaceInv, Owned
  <2>13. Owned' BY <1>4, <2>2, <2>10, <2>11, <2>12 DEF Owned
  <2>14. Evidence' BY <1>1, <1>4, <2>2, <2>5 DEF RaceInv, Evidence, EvidenceIsKept, None
  <2> QED BY <2>6, <2>13, <2>14 DEF RaceInv
<1> QED BY <1>6, <1>7

LEMMA DrainTaskKeeps ==
    ASSUME RaceInv, NEW i \in Ids, Drain(i)
    PROVE  RaceInv'
<1> DEFINE r == task[i].result
<1>1. /\ phase = "drain" /\ task[i].at = "ended" /\ task' = [task EXCEPT ![i] = Free]
      /\ open' = open \ {i} /\ permits' = IF i \in open THEN permits + 1 ELSE permits
      /\ seen' = seen \union ({r} \ {"ok"})
      /\ UNCHANGED <<cancelled, phase, winner, outcome, caller, moved>>
  BY DEF Drain
<1>2. RaceTypes /\ task[i] \in TaskRec /\ r \in Answers \union {None}
  BY Records DEF RaceInv
<1>3. Ends(r) <=> r \in {"network", "stop"} BY <1>2, Ending
<1>4. IF r \in {"ok", "closed"} THEN UNCHANGED <<terminal, pinned, last>>
      ELSE /\ Record(r)
           /\ terminal' = IF r \in {"network", "stop"} /\ Outranks(r, terminal)
                          THEN r ELSE terminal
  BY <1>3 DEF Drain
<1>5. /\ pinned' \in BOOLEAN /\ last' \in Failures \union {None}
      /\ pinned \/ r = "pin" => pinned'
  <2>1. CASE r \in {"ok", "closed"} BY <1>2, <1>4, <2>1 DEF RaceTypes
  <2>2. CASE r \notin {"ok", "closed"} BY <1>2, <1>4, <2>2, Recorded DEF Answers
  <2> QED BY <2>1, <2>2
<1>6. Free \in TaskRec /\ Free.at = "free" BY DEF Free, TaskRec, States, Lanes
<1>7. RaceTypes'
  <2>1. terminal' \in {None, "network", "stop", "closed"} BY <1>2, <1>4 DEF RaceTypes
  <2>2. seen' \in SUBSET (Failures \union {None}) BY <1>1, <1>2 DEF RaceTypes, Answers
  <2> QED BY <1>1, <1>2, <1>5, <1>6, <2>1, <2>2 DEF RaceTypes
<1>8. \A j \in Ids : task'[j] = IF j = i THEN Free ELSE task[j] BY <1>1, <1>2 DEF RaceTypes
<1>9. ~HasConnection(Free) /\ ~HoldsPermit(Free) /\ (HoldsPermit(task[i]) <=> i \in open)
  BY <1>1, <1>6 DEF HasConnection, HoldsPermit, RaceInv, Owned
<1>10. permits' = permits + (IF HoldsPermit(task[i]) THEN 1 ELSE 0) - (IF HoldsPermit(Free) THEN 1 ELSE 0)
  BY <1>1, <1>2, <1>9 DEF RaceTypes
<1>11. Cardinality(Holders') + permits' = Slots BY <1>1, <1>6, <1>10, PermitsFollow
<1>12. open' = {j \in Ids : HasConnection(task'[j])} BY <1>1, <1>8, <1>9 DEF RaceInv, Owned
<1>13. \A j \in Ids : task'[j].at = "won" <=> j = winner'
  BY <1>1, <1>6, <1>8 DEF RaceInv, Owned
<1>14. Owned' BY <1>1, <1>11, <1>12, <1>13 DEF RaceInv, Owned
<1>15. ~cancelled => /\ terminal' # "closed"
                     /\ "stop" \in seen' => terminal' = "stop"
                     /\ "network" \in seen' => terminal' \in {"network", "stop"}
  <2> SUFFICES ASSUME ~cancelled
      PROVE  /\ terminal' # "closed"
             /\ "stop" \in seen' => terminal' = "stop"
             /\ "network" \in seen' => terminal' \in {"network", "stop"}
    OBVIOUS
  <2>1. /\ terminal \in {None, "network", "stop"}
        /\ "stop" \in seen => terminal = "stop"
        /\ "network" \in seen => terminal \in {"network", "stop"}
    BY <1>2 DEF RaceInv, Evidence, RaceTypes
  <2>2. Outranks("stop", terminal) <=> terminal # "stop"
    BY <2>1, Priorities DEF Outranks, None
  <2>3. Outranks("network", terminal) <=> terminal = None
    BY <2>1, Priorities DEF Outranks, None
  <2> QED BY <1>1, <1>4, <2>1, <2>2, <2>3 DEF None
<1>16. Evidence' BY <1>1, <1>5, <1>15 DEF RaceInv, Evidence, EvidenceIsKept
<1> QED BY <1>7, <1>14, <1>16 DEF RaceInv

LEMMA ConcludeRaceKeeps ==
    ASSUME RaceInv, NEW alive \in BOOLEAN, Conclude(alive)
    PROVE  RaceInv'
<1>1. /\ phase = "drain" /\ Flying \subseteq {winner} /\ phase' = "done"
      /\ outcome' = Verdict(alive)
      /\ open' = IF outcome' = "ok" THEN open ELSE {}
      /\ task' = [i \in Ids |-> Free]
      /\ permits' = IF winner = NoOne THEN permits ELSE permits + 1
      /\ UNCHANGED <<cancelled, verdict, caller, moved>>
  BY DEF Conclude
<1>2. Free \in TaskRec /\ Free.at = "free" BY DEF Free, TaskRec, States, Lanes
<1>3. permits \in Nat /\ Slots \in Nat BY AutomaticAssumption DEF RaceInv, RaceTypes
<1>4. RaceTypes' BY <1>1, <1>2, <1>3 DEF RaceInv, RaceTypes, verdict
<1>5. \A i \in Ids : i # winner => task[i].at = "free" BY <1>1 DEF Flying, At
<1>6. \A i \in Ids : task[i].at = "won" <=> i = winner BY <1>1 DEF RaceInv, Owned
<1>7. \A i \in Ids : HasConnection(task[i]) <=> i = winner BY <1>5, <1>6 DEF HasConnection
<1>8. Holders = {i \in Ids : i = winner}
  BY <1>5, <1>6, <1>7 DEF Holders, HoldsPermit
<1>9. open = {i \in Ids : i = winner} BY <1>1, <1>7 DEF RaceInv, Owned
<1>10. permits' = Slots
  <2>1. Cardinality(Holders) + permits = Slots BY <1>1 DEF RaceInv, Owned
  <2>2. CASE winner = NoOne
    <3>1. Holders = {} BY <1>8, <2>2 DEF NoOne, Ids
    <3> QED BY <1>1, <1>3, <2>1, <2>2, <3>1, FS_EmptySet
  <2>3. CASE winner # NoOne
    <3>1. winner \in Ids BY <2>3 DEF RaceInv, RaceTypes
    <3>2. Holders = {winner} BY <1>8, <3>1
    <3>3. Cardinality({winner}) = 1 BY FS_Singleton
    <3> QED BY <1>1, <1>3, <2>1, <2>3, <3>2, <3>3
  <2> QED BY <2>2, <2>3
<1>11. caller = "dropped" => outcome' = "closed" BY <1>1 DEF Verdict, RaceInv, Evidence
<1>12. Owned' BY <1>1, <1>2, <1>9, <1>10, <1>11 DEF Owned, verdict
<1>13. EvidenceIsKept'
  <2> SUFFICES ASSUME ~cancelled
      PROVE  /\ (\E f \in seen : Ends(f)) => outcome' \in {"network", "stop", "closed"}
             /\ "stop" \in seen => outcome' \in {"stop", "closed"}
             /\ "pin" \in seen => outcome' # "retry"
    BY <1>1 DEF EvidenceIsKept, verdict, Verdict
  <2>1. (\E f \in seen : Ends(f)) <=> seen \cap {"network", "stop"} # {}
    BY Ending DEF RaceInv, RaceTypes, Answers
  <2>2. outcome' = IF terminal # None THEN terminal
                   ELSE IF winner # NoOne /\ alive THEN IF moved THEN "network" ELSE "ok"
                   ELSE IF pinned THEN "pin"
                   ELSE IF last # None THEN last ELSE "retry"
    BY <1>1 DEF Verdict
  <2>3. /\ terminal \in {None, "network", "stop"}
        /\ "stop" \in seen => terminal = "stop"
        /\ "network" \in seen => terminal \in {"network", "stop"}
        /\ "pin" \in seen => pinned
    BY DEF RaceInv, Evidence, RaceTypes
  <2> QED BY <2>1, <2>2, <2>3 DEF None
<1>14. Evidence' BY <1>1, <1>13 DEF RaceInv, Evidence, verdict
<1> QED BY <1>4, <1>12, <1>14 DEF RaceInv

LEMMA CallerKeeps == RaceInv /\ (Return \/ DropCaller) => RaceInv'
<1> SUFFICES ASSUME RaceInv, Return \/ DropCaller PROVE RaceInv' OBVIOUS
<1> USE DEF Return, DropCaller, verdict
<1>1. RaceTypes' BY DEF RaceInv, RaceTypes
<1>2. Holders' = Holders BY DEF Holders
<1>3. Owned' BY <1>2 DEF RaceInv, Owned
<1>4. Evidence' BY DEF RaceInv, Evidence, EvidenceIsKept
<1> QED BY <1>1, <1>3, <1>4 DEF RaceInv

LEMMA RaceKeeps == RaceInv /\ [Next]_vars => RaceInv'
<1> SUFFICES ASSUME RaceInv, [Next]_vars PROVE RaceInv' OBVIOUS
<1>1. phase \in {"top", "admit", "select", "drain", "done"} /\ moved \in BOOLEAN
  BY DEF RaceInv, RaceTypes
<1>2. CASE Top BY <1>2, TopKeeps
<1>3. CASE Admit BY <1>3, AdmitKeeps
<1>4. CASE Admitted BY <1>1, <1>4, OwnerMoves DEF Admitted
<1>5. CASE SeeCancelled BY <1>5, SeeCancelledKeeps
<1>6. CASE Return \/ DropCaller BY <1>6, CallerKeeps
<1>7. CASE \E i \in Ids : JoinTask(i) BY <1>7, JoinTaskKeeps
<1>8. CASE \E i \in Ids : Drain(i) BY <1>8, DrainTaskKeeps
<1>9. CASE \E alive \in BOOLEAN : Conclude(alive) BY <1>9, ConcludeRaceKeeps
<1>10. CASE \E i \in Ids : Task(i) \/ TimeOut(i) BY <1>10, TaskKeeps
<1>11. CASE H2Starts
  <2>1. /\ phase' \in {"top", "admit", "select", "drain", "done"}
        /\ phase = "drain" => phase' = "drain"
        /\ phase = "done" <=> phase' = "done"
    BY <1>1, <1>11 DEF H2Starts
  <2> QED BY <1>1, <1>11, <2>1, OwnerMoves DEF H2Starts
<1>12. CASE RestartDue
  <2>1. /\ phase' \in {"top", "admit", "select", "drain", "done"}
        /\ phase = "drain" => phase' = "drain"
        /\ phase = "done" <=> phase' = "done"
    BY <1>1, <1>12 DEF RestartDue
  <2> QED BY <1>1, <1>12, <2>1, OwnerMoves DEF RestartDue
<1>13. CASE NetworkChanges BY <1>1, <1>13, OwnerMoves DEF NetworkChanges
<1>14. CASE Finished \/ UNCHANGED vars
  <2>1. UNCHANGED vars BY <1>14 DEF Finished
  <2> QED BY <1>1, <2>1, OwnerMoves DEF vars, verdict
<1> QED BY <1>2, <1>3, <1>4, <1>5, <1>6, <1>7, <1>8, <1>9, <1>10, <1>11, <1>12, <1>13, <1>14
        DEF Next, Owner

-----------------------------------------------------------------------------
(* Both races. *)

LEMMA ConnectInvariant == SpecConnect => [](BatchInv /\ RaceInv)
<1>1. InitConnect => BatchInv /\ RaceInv BY InitBatch, InitRace DEF InitConnect
<1>2. BatchInv /\ RaceInv /\ [NextConnect]_all => BatchInv' /\ RaceInv'
  <2> SUFFICES ASSUME BatchInv, RaceInv, [NextConnect]_all PROVE BatchInv' /\ RaceInv' OBVIOUS
  <2>1. CASE mode = "automatic" /\ Next /\ UNCHANGED <<mode, batch>>
    BY <2>1, BatchStays, RaceKeeps
  <2>2. CASE mode = "strict" /\ Strict!Next /\ UNCHANGED <<mode, vars>>
    BY <2>2, BatchKeeps, RaceKeeps
  <2>3. CASE mode = "generation" /\ Generation!Next /\ UNCHANGED <<mode, vars>>
    BY <2>3, BatchKeeps, RaceKeeps
  <2>4. CASE UNCHANGED all BY <2>4, BatchStays, RaceKeeps DEF all
  <2> QED BY <2>1, <2>2, <2>3, <2>4 DEF NextConnect
<1> QED BY <1>1, <1>2, PTL DEF SpecConnect

\* A caller of a batch that has its result has no connection but the winner's
\* and no task at work (race_batch_with_policy), and at every moment of the
\* automatic race the connections and handshakes hold exactly the permits that
\* are missing: for any number of candidates, any limits and any outcomes.
THEOREM Owning == SpecConnect => []SocketsAreOwned
<1>1. BatchInv => Strict!OnlyTheWinnerLives
  BY DEF BatchInv, Answered, Strict!OnlyTheWinnerLives
<1>2. RaceInv => SocketsHoldPermits
  <2> SUFFICES ASSUME RaceInv PROVE SocketsHoldPermits OBVIOUS
  <2>1. phase # "done" => At({"connecting", "late"}) \union open = Holders
    BY DEF RaceInv, Owned, At, Holders, HoldsPermit
  <2> QED BY <2>1 DEF RaceInv, Owned, SocketsHoldPermits
<1> QED BY <1>1, <1>2, ConnectInvariant, PTL DEF SocketsAreOwned

\* Whatever order the tasks of a race end in, and whoever wins: a failure that
\* ends the retries is what the caller is told, and a rejected pin is not hidden
\* by a failure that is retried (CandidateFailures, the drain loops of
\* race_batch_with_policy and race_automatic).
THEOREM Reporting == SpecConnect => []WorstFailureReported
<1>1. BatchInv => /\ mode = "strict" => Strict!WorstFailureReported
                  /\ mode = "generation" => Generation!WorstFailureReported
  <2> SUFFICES ASSUME BatchInv, b_caller = "returned", NEW c \in Candidates
      PROVE  /\ Stops(policy, b_result[c]) /\ b_result[c] # "ok" => b_outcome # "ok"
             /\ (Stops(policy, b_result[c]) \/ b_result[c] = "pin")
                /\ b_outcome \notin {"ok", "closed"}
                => recovery_priority(b_outcome) >= recovery_priority(b_result[c])
    BY SameRules DEF Strict!WorstFailureReported, Generation!WorstFailureReported, policy
  <2>1. b_phase = "done" BY DEF BatchInv, Answered
  <2> QED BY <2>1 DEF BatchInv, Reported, Matters
<1>2. RaceInv => EvidenceIsKept BY DEF RaceInv, Evidence
<1> QED BY <1>1, <1>2, ConnectInvariant, PTL DEF WorstFailureReported

-----------------------------------------------------------------------------
(* Natural numbers. *)

\* A nonempty set of natural numbers has a least one.
LEMMA LeastNumber ==
    ASSUME NEW T, T \subseteq Nat, T # {}
    PROVE  \E x \in T : \A y \in T : x <= y
<1> DEFINE R == {p \in Nat \X Nat : p[1] < p[2]}
<1>1. IsWellFoundedOn(R, Nat) BY NatLessThanWellFounded DEF OpToRel
<1> HIDE DEF R
<1>2. PICK x \in T : \A y \in T : ~(<<y, x>> \in R) BY <1>1, WFMin
<1>3. \A y \in T : y < x => <<y, x>> \in R BY DEF R
<1>4. \A y \in T : x \in Nat /\ y \in Nat /\ ~(y < x) BY <1>2, <1>3
<1> QED BY <1>4

\* Induction, over a set instead of a predicate.
LEMMA Inductive ==
    ASSUME NEW T, T \subseteq Nat, 0 \in T, \A n \in T : n + 1 \in T
    PROVE  T = Nat
<1> SUFFICES ASSUME T # Nat PROVE FALSE OBVIOUS
<1>1. PICK x \in Nat \ T : \A y \in Nat \ T : x <= y BY LeastNumber
<1>2. x - 1 \in Nat BY <1>1
<1>3. x - 1 \in T BY <1>1, <1>2
<1> QED BY <1>1, <1>3

-----------------------------------------------------------------------------
(* The blocks in leases: the fold that BudgetIsAccounted sums with.  It is    *)
(* a function of the sets of consumers, and such a function exists.           *)

Used(h) == MapThenSumSet(LAMBDA c : Units(c) * h[c], Consumers)

First(s) == CHOOSE x \in s : TRUE
Unfold(g, h, s) == IF s = {} THEN 0 ELSE Units(First(s)) * h[First(s)] + g[s \ {First(s)}]
IsFold(g, h) == g = [s \in SUBSET Consumers |-> Unfold(g, h, s)]
Fold(h) == CHOOSE g : IsFold(g, h)

LEMMA UsedIsFold == ASSUME NEW h PROVE Used(h) = Fold(h)[Consumers]
  BY DEF Used, MapThenSumSet, MapThenFoldSet, Fold, IsFold, Unfold, First

LEMMA FiniteConsumers ==
    /\ IsFiniteSet(Consumers) /\ IsFiniteSet(Droppers) /\ IsFiniteSet(Admitters)
    /\ \A s \in SUBSET Consumers : IsFiniteSet(s) /\ Cardinality(s) \in Nat
    /\ \A s \in SUBSET Consumers :
          s # {} => First(s) \in s /\ Cardinality(s \ {First(s)}) = Cardinality(s) - 1
<1>1. \A s : s \subseteq Threads => IsFiniteSet(s) BY ThreadAssumption, FS_Subset
<1>2. Consumers \subseteq Threads /\ Droppers \subseteq Threads /\ Admitters \subseteq Consumers
  BY DEF Consumers, Threads
<1>3. \A s \in SUBSET Consumers : IsFiniteSet(s) /\ Cardinality(s) \in Nat
  BY <1>1, <1>2, FS_CardinalityType
<1>4. ASSUME NEW s \in SUBSET Consumers, s # {}
      PROVE  First(s) \in s /\ Cardinality(s \ {First(s)}) = Cardinality(s) - 1
  <2>1. First(s) \in s BY <1>4 DEF First
  <2> QED BY <1>3, <2>1, FS_RemoveElement
<1> QED BY <1>1, <1>2, <1>3, <1>4

LEMMA FoldExists == ASSUME NEW h PROVE \E g : IsFold(g, h)
<1> DEFINE D(n) == {s \in SUBSET Consumers : Cardinality(s) <= n}
           T == {n \in Nat : \E g : g = [s \in D(n) |-> Unfold(g, h, s)]}
<1>1. 0 \in T
  <2>1. \A s \in D(0) : s = {}
    BY FiniteConsumers, FS_EmptySet
  <2>2. [s \in D(0) |-> 0] = [s \in D(0) |-> Unfold([r \in D(0) |-> 0], h, s)]
    BY <2>1 DEF Unfold
  <2> QED BY <2>2
<1>2. ASSUME NEW n \in T PROVE n + 1 \in T
  <2>1. PICK g : g = [s \in D(n) |-> Unfold(g, h, s)] OBVIOUS
  <2> DEFINE k == [s \in D(n + 1) |-> IF s \in D(n) THEN g[s] ELSE Unfold(g, h, s)]
  <2>2. n \in Nat /\ D(n) \subseteq D(n + 1) BY FiniteConsumers
  <2>3. \A s \in D(n + 1) : s # {} => s \ {First(s)} \in D(n)
    BY FiniteConsumers, <2>2
  <2> HIDE DEF D
  <2>4. \A s \in D(n) : k[s] = g[s] BY <2>2
  <2>5. ASSUME NEW s \in D(n + 1) PROVE Unfold(k, h, s) = Unfold(g, h, s)
    <3> HIDE DEF k
    <3> QED BY <2>3, <2>4 DEF Unfold
  <2>6. \A s \in D(n) : g[s] = Unfold(g, h, s) BY <2>1
  <2>7. \A s \in D(n + 1) : k[s] = Unfold(k, h, s) BY <2>5, <2>6
  <2>8. k = [s \in D(n + 1) |-> Unfold(k, h, s)] BY <2>7
  <2>9. \E e : e = [s \in D(n + 1) |-> Unfold(e, h, s)]
    <3> HIDE DEF k
    <3> QED BY <2>8
  <2> QED BY <2>2, <2>9
<1>3. T = Nat BY <1>1, <1>2, Inductive
<1>4. Cardinality(Consumers) \in T BY <1>3, FiniteConsumers
<1>5. D(Cardinality(Consumers)) = SUBSET Consumers
  BY FiniteConsumers, FS_Subset
<1> QED BY <1>4, <1>5 DEF IsFold

LEMMA FoldUnfolds ==
    ASSUME NEW h, NEW s \in SUBSET Consumers
    PROVE  Fold(h)[s] = Unfold(Fold(h), h, s)
<1>1. IsFold(Fold(h), h) BY FoldExists DEF Fold
<1> HIDE DEF Fold
<1> QED BY <1>1 DEF IsFold

LEMMA UnitsType ==
    ASSUME NEW c \in Consumers
    PROVE  /\ Units(c) \in Nat \ {0} /\ Ask(c) \in Nat \ {0}
           /\ Ask(c) = Units(c) + (IF c \in Admitters THEN Headroom ELSE 0)
           /\ c \in Readers => Units(c) = 1
           /\ Headroom \in Nat \ {0}
  BY BudgetAssumption DEF Units, Ask

\* The sum over a set in which one consumer's leases change by d.
LEMMA FoldChanges ==
    ASSUME NEW h \in [Consumers -> Nat], NEW c \in Consumers, NEW d \in Int, h[c] + d \in Nat,
           NEW s \in SUBSET Consumers
    PROVE  LET k == [h EXCEPT ![c] = @ + d]
           IN  /\ Fold(h)[s] \in Int
               /\ Fold(k)[s] = Fold(h)[s] + (IF c \in s THEN Units(c) * d ELSE 0)
<1> DEFINE k == [h EXCEPT ![c] = @ + d]
           Same(e) == /\ Fold(h)[e] \in Int
                      /\ Fold(k)[e] = Fold(h)[e] + (IF c \in e THEN Units(c) * d ELSE 0)
           T == {n \in Nat : \A e \in SUBSET Consumers : Cardinality(e) = n => Same(e)}
<1>1. \A x \in Consumers : /\ Units(x) \in Nat /\ h[x] \in Nat /\ k[x] \in Nat
                           /\ k[x] = IF x = c THEN h[x] + d ELSE h[x]
  BY UnitsType
<1>2. Units(c) * (h[c] + d) = Units(c) * h[c] + Units(c) * d /\ Units(c) * d \in Int
  BY <1>1
<1>3. \A x \in Consumers :
         /\ Units(x) * h[x] \in Int
         /\ Units(x) * k[x] = Units(x) * h[x] + (IF x = c THEN Units(c) * d ELSE 0)
  BY <1>1, <1>2
<1> HIDE DEF k
<1>4. 0 \in T
  <2>1. ASSUME NEW e \in SUBSET Consumers, Cardinality(e) = 0 PROVE Same(e)
    <3>1. e = {} BY <2>1, FiniteConsumers, FS_EmptySet
    <3>2. Fold(h)[e] = 0 BY <3>1, FoldUnfolds DEF Unfold
    <3>3. Fold(k)[e] = 0 BY <3>1, FoldUnfolds DEF Unfold
    <3> QED BY <3>1, <3>2, <3>3
  <2> QED BY <2>1
<1>5. ASSUME NEW n \in T PROVE n + 1 \in T
  <2>1. ASSUME NEW e \in SUBSET Consumers, Cardinality(e) = n + 1 PROVE Same(e)
    <3> DEFINE x == First(e)
               r == e \ {x}
    <3>1. e # {}
      <4>1. n \in Nat /\ Cardinality({}) = 0 BY FS_EmptySet
      <4>2. n + 1 # 0 BY <4>1
      <4>3. Cardinality(e) # Cardinality({}) BY <2>1, <4>1, <4>2
      <4> HIDE DEF T
      <4> QED BY <4>3
    <3>2. x \in e /\ r \in SUBSET Consumers /\ Cardinality(r) = n BY <2>1, <3>1, FiniteConsumers
    <3>3. Same(r) BY <3>2
    <3>4. Fold(h)[e] = Units(x) * h[x] + Fold(h)[r] BY <3>1, FoldUnfolds DEF Unfold
    <3>5. Fold(k)[e] = Units(x) * k[x] + Fold(k)[r] BY <3>1, FoldUnfolds DEF Unfold
    <3>6. x \in Consumers BY <3>2
    <3>7. c \in e <=> (x = c \/ c \in r) BY <3>2
    <3>8. ~(x = c /\ c \in r) OBVIOUS
    <3> HIDE DEF x, r
    <3> QED BY <1>2, <1>3, <3>3, <3>4, <3>5, <3>6, <3>7, <3>8
  <2> QED BY <2>1
<1>6. T = Nat BY <1>4, <1>5, Inductive
<1>7. Cardinality(s) \in T BY <1>6, FiniteConsumers
<1>8. Same(s) BY <1>7
<1> QED BY <1>8 DEF k

LEMMA UsedChanges ==
    ASSUME NEW h \in [Consumers -> Nat], NEW c \in Consumers
    PROVE  /\ Used(h) \in Int
           /\ Used([h EXCEPT ![c] = @ + 1]) = Used(h) + Units(c)
           /\ h[c] > 0 => Used([h EXCEPT ![c] = @ - 1]) = Used(h) - Units(c)
<1>1. Units(c) \in Nat BY UnitsType
<1>2. Fold(h)[Consumers] \in Int
      /\ Fold([h EXCEPT ![c] = @ + 1])[Consumers] = Fold(h)[Consumers] + Units(c) * 1
  <2>1. h[c] + 1 \in Nat /\ 1 \in Int /\ Consumers \in SUBSET Consumers OBVIOUS
  <2> QED BY <2>1, FoldChanges
<1>3. ASSUME h[c] > 0
      PROVE Fold([h EXCEPT ![c] = @ + (-1)])[Consumers] = Fold(h)[Consumers] + Units(c) * (-1)
  <2>1. h[c] + (-1) \in Nat /\ -1 \in Int BY <1>3
  <2> QED BY <2>1, FoldChanges
<1>4. h[c] > 0 => [h EXCEPT ![c] = @ + (-1)] = [h EXCEPT ![c] = @ - 1] OBVIOUS
<1> QED BY <1>1, <1>2, <1>3, <1>4, UsedIsFold

LEMMA UsedType == ASSUME NEW h \in [Consumers -> Nat] PROVE Used(h) \in Int
<1>1. CASE Consumers = {}
  <2>1. Fold(h)[{}] = 0 BY FoldUnfolds DEF Unfold
  <2> QED BY <1>1, <2>1, UsedIsFold
<1>2. CASE Consumers # {} BY <1>2, UsedChanges
<1> QED BY <1>1, <1>2

-----------------------------------------------------------------------------
(* The invariant. *)

ConsumerSteps == {"idle", "try", "reserve", "trim", "notify", "again", "split", "disarm",
                  "arm", "armed", "pending"}
DropperSteps == {"idle", "recycle", "send", "check", "trim", "notify"}
CloserSteps == {"idle", "trim", "notify", "done"}

Places ==
    /\ at \in [Threads -> ConsumerSteps \union DropperSteps \union CloserSteps]
    /\ \A c \in Consumers : at[c] \in ConsumerSteps /\ (at[c] = "split" => c \in Admitters)
    /\ \A t \in Droppers : at[t] \in DropperSteps
    /\ at[Closer] \in CloserSteps

Types ==
    /\ available \in Nat /\ idle \in Nat /\ idleBytes \in Int /\ waiters \in Int
    /\ closed \in BOOLEAN
    /\ held \in [Consumers -> Nat]
    /\ armed \in SUBSET Consumers /\ woken \in SUBSET Consumers /\ second \in SUBSET Consumers
    /\ back \in SUBSET Threads
    /\ Places

\* How many threads of X are at one of the steps L.
CountAt(a, X, L) == Cardinality({t \in X : a[t] \in L})
Hits(t, l, X, L) == IF t \in X /\ l \in L THEN 1 ELSE 0

\* Every block is free, in the pool, in a lease, in the hands of a thread that
\* returns it, or part of a margin that is only tested.
BlocksAdd ==
    available + idle + Used(held) + CountAt(at, Droppers, {"recycle", "send"})
        + Headroom * CountAt(at, Admitters, {"split"}) = Total

\* The counters lead: one that is to be queued or armed was counted before.
CountersLead ==
    /\ idleBytes = idle + CountAt(at, Droppers, {"send"})
    /\ waiters = Cardinality(armed) + CountAt(at, Consumers, {"armed"})

\* Somebody will look into the queue of a closed pool again.
Emptied ==
    closed /\ idle > 0 =>
        \E t \in Threads : at[t] \in {"check", "trim"} \/ (at[t] = "notify" /\ t \in back)

\* A consumer that tries for the second time is armed, or was woken since.
Registered ==
    \A c \in Consumers :
        /\ at[c] = "pending" => c \in second
        /\ c \in second /\ at[c] \in {"try", "reserve", "trim", "notify", "again", "pending"}
              => c \in armed \union woken

\* A thread that has released or returned something and is still to notify.
Notifying ==
    \E t \in Threads : at[t] = "notify" \/ (t \in Droppers /\ at[t] \in {"check", "trim"})

\* What consumer c can count on once the margins of the others are back.
Capacity(c) == available + idle + Headroom * CountAt(at, Admitters \ {c}, {"split"})
Needs(c) == Ask(c) + Headroom * Cardinality(Admitters \ {c})

\* With no wake-up on its way, the last attempt that failed failed for good.
Starved(c) ==
    c \in second /\ c \notin woken /\ ~(c \in Readers /\ closed) /\ ~Notifying =>
        /\ at[c] = "again" => idle = 0
        /\ at[c] = "pending" => Capacity(c) < Needs(c)

BudgetInv ==
    /\ Types /\ BlocksAdd /\ CountersLead /\ Emptied /\ Registered
    /\ \A c \in Consumers : Starved(c)

-----------------------------------------------------------------------------
(* One thread goes from its step to another. *)

LEMMA Roles ==
    /\ Consumers \subseteq Threads /\ Droppers \subseteq Threads /\ Closer \in Threads
    /\ Admitters \subseteq Consumers /\ Readers \subseteq Consumers /\ Writers \subseteq Consumers
    /\ \A t \in Threads : t \in Consumers \/ t \in Droppers \/ t = Closer
    /\ \A c \in Consumers : c \notin Droppers /\ c # Closer
    /\ \A c \in Readers : c \notin Admitters /\ c \notin Writers
    /\ \A c \in Writers : c \notin Admitters
    /\ Closer \notin Droppers
  BY ThreadAssumption DEF Threads, Consumers

LEMMA Went ==
    ASSUME Types, NEW t \in Threads, NEW l, Goto(t, l)
    PROVE  \A u \in Threads : at'[u] = IF u = t THEN l ELSE at[u]
  BY DEF Types, Places, Goto

LEMMA PlacesStay ==
    ASSUME Types, NEW t \in Threads, NEW l, Goto(t, l),
           t \in Consumers => l \in ConsumerSteps /\ (l = "split" => t \in Admitters),
           t \in Droppers => l \in DropperSteps, t = Closer => l \in CloserSteps
    PROVE  Places'
<1>1. \A u \in Threads : at'[u] = IF u = t THEN l ELSE at[u] BY Went
<1>2. l \in ConsumerSteps \union DropperSteps \union CloserSteps BY Roles
<1>3. at' \in [Threads -> ConsumerSteps \union DropperSteps \union CloserSteps]
  BY <1>2 DEF Types, Places, Goto
<1> QED BY <1>1, <1>3, Roles DEF Types, Places

LEMMA CountType ==
    ASSUME NEW X, X \subseteq Threads, NEW a, NEW L
    PROVE  /\ CountAt(a, X, L) \in Nat /\ Cardinality(X) \in Nat
           /\ CountAt(a, X, L) <= Cardinality(X)
           /\ IsFiniteSet({t \in X : a[t] \in L})
  BY ThreadAssumption, FS_Subset, FS_CardinalityType DEF CountAt

LEMMA Counts ==
    ASSUME Types, NEW t \in Threads, NEW l, Goto(t, l), NEW X, X \subseteq Threads, NEW L
    PROVE  /\ CountAt(at, X, L) \in Nat
           /\ CountAt(at', X, L) = CountAt(at, X, L) + Hits(t, l, X, L) - Hits(t, at[t], X, L)
<1> DEFINE S == {u \in X : at[u] \in L}
           S2 == {u \in X : at'[u] \in L}
<1>1. \A u \in Threads : at'[u] = IF u = t THEN l ELSE at[u] BY Went
<1>2. S2 = IF t \in X /\ l \in L THEN S \union {t} ELSE S \ {t} BY <1>1
<1>3. IsFiniteSet(S) /\ Cardinality(S) \in Nat
  BY ThreadAssumption, FS_Subset, FS_CardinalityType
<1>4. t \in S <=> t \in X /\ at[t] \in L OBVIOUS
<1>5. /\ Cardinality(S \union {t}) = IF t \in S THEN Cardinality(S) ELSE Cardinality(S) + 1
      /\ Cardinality(S \ {t}) = IF t \in S THEN Cardinality(S) - 1 ELSE Cardinality(S)
  BY <1>3, FS_AddElement, FS_RemoveElement
<1>6. CountAt(at, X, L) = Cardinality(S) /\ CountAt(at', X, L) = Cardinality(S2) BY DEF CountAt
<1> HIDE DEF S, S2
<1> QED BY <1>2, <1>3, <1>4, <1>5, <1>6 DEF Hits

\* What a thread t stands for at step l: a block that it returns, the margin
\* that it has taken, a block or a waiter that is counted and not there yet, and
\* whether it is going to empty a closed pool or to notify.
Returns(t, l) == Hits(t, l, Droppers, {"recycle", "send"})
Margin(t, l) == IF t \in Admitters /\ l = "split" THEN Headroom ELSE 0
Queues(t, l) == Hits(t, l, Droppers, {"send"})
Arms(t, l) == Hits(t, l, Consumers, {"armed"})
Empties(l, again) == l \in {"check", "trim"} \/ (l = "notify" /\ again)
Notifies(t, l) == l = "notify" \/ (t \in Droppers /\ l \in {"check", "trim"})

\* The margins that are out among the tasks of X.
LEMMA MarginsOut ==
    ASSUME Types, NEW t \in Threads, NEW l, Goto(t, l), NEW X \in SUBSET Admitters
    PROVE  /\ Headroom * CountAt(at, X, {"split"}) \in Int
           /\ t \in X \/ t \notin Admitters =>
                 Headroom * CountAt(at', X, {"split"})
                    = Headroom * CountAt(at, X, {"split"}) + Margin(t, l) - Margin(t, at[t])
<1> DEFINE L == {"split"}
           m == CountAt(at, X, L)
           m2 == CountAt(at', X, L)
<1>1. X \subseteq Threads BY Roles
<1>2. (l \in L <=> l = "split") /\ (at[t] \in L <=> at[t] = "split") OBVIOUS
<1> HIDE DEF L
<1>3. m \in Nat /\ m2 = m + Hits(t, l, X, L) - Hits(t, at[t], X, L)
  BY <1>1, Counts
<1>4. Headroom \in Nat BY BudgetAssumption
<1> HIDE DEF m, m2
<1>5. /\ Headroom * (m + 1) = Headroom * m + Headroom
      /\ Headroom * (m - 1) = Headroom * m - Headroom
      /\ Headroom * m \in Int
  BY <1>3, <1>4
<1>6. ASSUME t \in X \/ t \notin Admitters
      PROVE  Headroom * m2 = Headroom * m + Margin(t, l) - Margin(t, at[t])
  <2>1. t \in X <=> t \in Admitters BY <1>6
  <2>2. CASE t \in X /\ l = "split" /\ at[t] = "split"
    <3>1. m2 = m BY <1>2, <1>3, <2>2 DEF Hits
    <3> QED BY <1>4, <1>5, <2>1, <2>2, <3>1 DEF Margin
  <2>3. CASE t \in X /\ l = "split" /\ at[t] # "split"
    <3>1. m2 = m + 1 BY <1>2, <1>3, <2>3 DEF Hits
    <3> QED BY <1>4, <1>5, <2>1, <2>3, <3>1 DEF Margin
  <2>4. CASE t \in X /\ l # "split" /\ at[t] = "split"
    <3>1. m2 = m - 1 BY <1>2, <1>3, <2>4 DEF Hits
    <3> QED BY <1>4, <1>5, <2>1, <2>4, <3>1 DEF Margin
  <2>5. CASE t \notin X \/ (l # "split" /\ at[t] # "split")
    <3>1. m2 = m BY <1>2, <1>3, <2>5 DEF Hits
    <3> QED BY <1>4, <1>5, <2>1, <2>5, <3>1 DEF Margin
  <2> QED BY <2>2, <2>3, <2>4, <2>5
<1> QED BY <1>5, <1>6 DEF m, m2, L

LEMMA BlocksStay ==
    ASSUME BudgetInv, NEW t \in Threads, NEW l, Goto(t, l), available' \in Int, idle' \in Int,
           Used(held)' \in Int,
           available' + idle' + Used(held)' + Returns(t, l) + Margin(t, l)
               = available + idle + Used(held) + Returns(t, at[t]) + Margin(t, at[t])
    PROVE  BlocksAdd'
<1>1. available \in Int /\ idle \in Int /\ Used(held) \in Int /\ Headroom \in Int /\ Types
  BY UsedType, BudgetAssumption DEF BudgetInv, Types
<1> DEFINE r == CountAt(at, Droppers, {"recycle", "send"})
           r2 == CountAt(at', Droppers, {"recycle", "send"})
           m == Headroom * CountAt(at, Admitters, {"split"})
           m2 == Headroom * CountAt(at', Admitters, {"split"})
<1>2. r \in Nat /\ r2 = r + Returns(t, l) - Returns(t, at[t])
  BY <1>1, Roles, Counts DEF Returns
<1>3. m \in Int /\ m2 = m + Margin(t, l) - Margin(t, at[t])
  <2>1. t \in Admitters \/ t \notin Admitters OBVIOUS
  <2> QED BY <1>1, <2>1, MarginsOut
<1> HIDE DEF r, r2, m, m2
<1>4. available + idle + Used(held) + r + m = Total BY DEF BudgetInv, BlocksAdd, r, m
<1>5. Margin(t, l) \in Int /\ Margin(t, at[t]) \in Int /\ Returns(t, l) \in Int /\ Returns(t, at[t]) \in Int
  BY <1>1 DEF Margin, Returns, Hits
<1>6. r2 \in Int /\ m2 \in Int BY <1>2, <1>3, <1>5
<1>7. r2 - r = Returns(t, l) - Returns(t, at[t]) /\ m2 - m = Margin(t, l) - Margin(t, at[t])
  BY <1>2, <1>3, <1>5, <1>6
<1>8. available' + idle' + Used(held)' + r2 + m2 = available + idle + Used(held) + r + m
  BY <1>1, <1>2, <1>3, <1>5, <1>6, <1>7
<1>9. available' + idle' + Used(held)' + r2 + m2 = Total
  BY <1>4, <1>8
<1> QED BY <1>9 DEF BlocksAdd, r2, m2

LEMMA CountersStay ==
    ASSUME BudgetInv, NEW t \in Threads, NEW l, Goto(t, l),
           idle' \in Int, idleBytes' \in Int, waiters' \in Int, armed' \in SUBSET Consumers,
           idleBytes' - idle' - Queues(t, l) = idleBytes - idle - Queues(t, at[t]),
           waiters' - Cardinality(armed') - Arms(t, l) = waiters - Cardinality(armed) - Arms(t, at[t])
    PROVE  CountersLead'
<1>1. Types BY DEF BudgetInv
<1> DEFINE q == CountAt(at, Droppers, {"send"})
           q2 == CountAt(at', Droppers, {"send"})
           a == CountAt(at, Consumers, {"armed"})
           a2 == CountAt(at', Consumers, {"armed"})
<1>2. q \in Nat /\ q2 = q + Queues(t, l) - Queues(t, at[t])
  BY <1>1, Roles, Counts DEF Queues
<1>3. a \in Nat /\ a2 = a + Arms(t, l) - Arms(t, at[t])
  BY <1>1, Roles, Counts DEF Arms
<1>4. Cardinality(armed) \in Nat /\ Cardinality(armed') \in Nat
  BY <1>1, FiniteConsumers DEF Types
<1>5. idleBytes = idle + q /\ waiters = Cardinality(armed) + a BY DEF BudgetInv, CountersLead
<1> HIDE DEF q, q2, a, a2
<1>6. Queues(t, l) \in Int /\ Queues(t, at[t]) \in Int /\ Arms(t, l) \in Int /\ Arms(t, at[t]) \in Int
  BY DEF Queues, Arms, Hits
<1>7. idleBytes' = idle' + q2 /\ waiters' = Cardinality(armed') + a2
  BY <1>1, <1>2, <1>3, <1>4, <1>5, <1>6 DEF Types
<1> QED BY <1>7 DEF CountersLead, q2, a2

LEMMA EmptiedStays ==
    ASSUME BudgetInv, NEW t \in Threads, NEW l, Goto(t, l), \A u \in Threads \ {t} : u \in back => u \in back',
           \/ Empties(l, t \in back')
           \/ ~(closed' /\ idle' > 0)
           \/ closed /\ idle > 0 /\ ~Empties(at[t], t \in back)
    PROVE  Emptied'
<1>1. \A u \in Threads : at'[u] = IF u = t THEN l ELSE at[u] BY Went DEF BudgetInv
<1> QED BY <1>1 DEF BudgetInv, Emptied, Empties

\* The other consumers: a wake-up is on its way, or nothing came back.
LEMMA OthersStarve ==
    ASSUME BudgetInv, NEW t \in Threads, NEW l, Goto(t, l), closed => closed',
           available' \in Int, idle' \in Int,
           NEW c \in Consumers, c # t, c \in second' => c \in second, c \in woken => c \in woken',
           \/ Notifies(t, l)
           \/ /\ ~Notifies(t, at[t])
              /\ idle = 0 => idle' = 0
              /\ available' + idle' + Margin(t, l) <= available + idle + Margin(t, at[t])
    PROVE  Starved(c)'
<1>1. \A u \in Threads : at'[u] = IF u = t THEN l ELSE at[u] BY Went DEF BudgetInv
<1>2. Types BY DEF BudgetInv
<1>3. CASE Notifies(t, l)
  <2>1. Notifying' BY <1>1, <1>3 DEF Notifying, Notifies
  <2> QED BY <2>1 DEF Starved
<1>4. CASE /\ ~Notifies(t, at[t])
           /\ idle = 0 => idle' = 0
           /\ available' + idle' + Margin(t, l) <= available + idle + Margin(t, at[t])
  <2>1. Notifying => Notifying' BY <1>1, <1>4 DEF Notifying, Notifies
  <2> DEFINE m == CountAt(at, Admitters \ {c}, {"split"})
             m2 == CountAt(at', Admitters \ {c}, {"split"})
  <2>2. Headroom * m \in Int /\ Headroom * m2 = Headroom * m + Margin(t, l) - Margin(t, at[t])
    <3>1. t \in Admitters \ {c} \/ t \notin Admitters OBVIOUS
    <3>2. Admitters \ {c} \in SUBSET Admitters OBVIOUS
    <3> QED BY <1>2, <3>1, <3>2, MarginsOut
  <2>3. Headroom \in Nat BY BudgetAssumption
  <2> HIDE DEF m, m2
  <2>6. Margin(t, l) \in Int /\ Margin(t, at[t]) \in Int BY <2>3 DEF Margin
  <2>7. available + idle + Headroom * m >= available' + idle' + Headroom * m2
    BY <1>2, <1>4, <2>2, <2>6 DEF Types
  <2>8. Capacity(c) = available + idle + Headroom * m /\ Capacity(c)' = available' + idle' + Headroom * m2
    BY DEF Capacity, m, m2
  <2>9. Needs(c)' = Needs(c) /\ Needs(c) \in Int
    <3>1. Cardinality(Admitters \ {c}) \in Nat BY Roles, CountType
    <3>2. Headroom * Cardinality(Admitters \ {c}) \in Int BY <2>3, <3>1
    <3> QED BY <3>2, UnitsType DEF Needs
  <2>10. Capacity(c)' <= Capacity(c) /\ Capacity(c) \in Int /\ Capacity(c)' \in Int
    BY <1>2, <2>2, <2>6, <2>7, <2>8 DEF Types
  <2>11. at'[c] = at[c] BY <1>1, Roles
  <2>12. Starved(c) BY DEF BudgetInv
  <2>13. Capacity(c) < Needs(c) => Capacity(c)' < Needs(c)' BY <2>9, <2>10
  <2>14. ASSUME c \in second', c \notin woken', ~(c \in Readers /\ closed'), ~Notifying'
         PROVE  /\ at'[c] = "again" => idle' = 0
                /\ at'[c] = "pending" => Capacity(c)' < Needs(c)'
    BY <1>4, <2>1, <2>11, <2>12, <2>13, <2>14 DEF Starved
  <2> QED BY <2>14 DEF Starved
<1> QED BY <1>3, <1>4

\* The parts together.
LEMMA Advance ==
    ASSUME BudgetInv, NEW t \in Threads, NEW l, Goto(t, l), Types', BlocksAdd', CountersLead', Emptied',
           \A c \in Consumers \ {t} :
               /\ c \in second' <=> c \in second
               /\ c \in armed \union woken => c \in armed' \union woken'
               /\ Starved(c)',
           t \in Consumers =>
               /\ l = "pending" => t \in second'
               /\ t \in second' /\ l \in {"try", "reserve", "trim", "notify", "again", "pending"}
                     => t \in armed' \union woken'
               /\ l \in {"again", "pending"} => Starved(t)'
    PROVE  BudgetInv'
<1>1. \A u \in Threads : at'[u] = IF u = t THEN l ELSE at[u] BY Went DEF BudgetInv
<1>2. Registered'
  <2> SUFFICES ASSUME NEW c \in Consumers
      PROVE  /\ at'[c] = "pending" => c \in second'
             /\ c \in second' /\ at'[c] \in {"try", "reserve", "trim", "notify", "again", "pending"}
                   => c \in armed' \union woken'
    BY DEF Registered
  <2>1. at'[c] = IF c = t THEN l ELSE at[c] BY <1>1, Roles
  <2>2. CASE c = t BY <2>1, <2>2
  <2>3. CASE c # t BY <2>1, <2>3 DEF BudgetInv, Registered
  <2> QED BY <2>2, <2>3
<1>3. \A c \in Consumers : Starved(c)'
  <2> SUFFICES ASSUME NEW c \in Consumers PROVE Starved(c)' OBVIOUS
  <2>1. CASE c # t BY <2>1
  <2>2. CASE c = t /\ l \in {"again", "pending"} BY <2>2
  <2>3. CASE c = t /\ l \notin {"again", "pending"}
    <3>1. at'[c] = l BY <1>1, <2>3, Roles
    <3> QED BY <2>3, <3>1 DEF Starved
  <2> QED BY <2>1, <2>2, <2>3
<1> QED BY <1>2, <1>3 DEF BudgetInv

LEMMA Disarms ==
    ASSUME Types, NEW cs, Disarm(cs)
    PROVE  /\ armed' \in SUBSET Consumers /\ waiters' \in Int
           /\ waiters' - Cardinality(armed') = waiters - Cardinality(armed)
           /\ Cardinality(armed) \in Nat /\ Cardinality(armed') \in Nat
<1>1. armed \in SUBSET Consumers /\ waiters \in Int BY DEF Types
<1>2. IsFiniteSet(armed) BY <1>1, FiniteConsumers
<1>3. Cardinality(armed \ cs) = Cardinality(armed) - Cardinality(armed \cap cs)
  BY <1>2, FS_Difference
<1>4. armed \ cs \in SUBSET Consumers /\ armed \cap cs \in SUBSET Consumers BY <1>1
<1>5. /\ Cardinality(armed) \in Nat /\ Cardinality(armed \cap cs) \in Nat
      /\ Cardinality(armed \ cs) \in Nat
  BY <1>1, <1>4, FiniteConsumers
<1> QED BY <1>1, <1>3, <1>4, <1>5 DEF Disarm

\* What a consumer stands for.
LEMMA ConsumerStands ==
    ASSUME NEW c \in Consumers, NEW l
    PROVE  /\ Returns(c, l) = 0 /\ Queues(c, l) = 0
           /\ Arms(c, l) = IF l = "armed" THEN 1 ELSE 0
           /\ Notifies(c, l) <=> l = "notify"
           /\ l # "split" => Margin(c, l) = 0
           /\ c \in Threads
  BY Roles DEF Returns, Queues, Arms, Notifies, Margin, Hits

\* A step of a consumer moves blocks between the budget, the pool and its lease.
LEMMA ConsumerBlocks ==
    ASSUME BudgetInv, NEW c \in Consumers, NEW l, Goto(c, l), Types',
           available' + idle' + Used(held') + Margin(c, l) = available + idle + Used(held) + Margin(c, at[c])
    PROVE  BlocksAdd'
<1>1. /\ c \in Threads /\ Returns(c, l) = 0 /\ Returns(c, at[c]) = 0
      /\ Margin(c, l) \in Int /\ Margin(c, at[c]) \in Int
  BY ConsumerStands, BudgetAssumption DEF Margin
<1>2. /\ available \in Int /\ idle \in Int /\ Used(held) \in Int
      /\ available' \in Int /\ idle' \in Int /\ Used(held') \in Int
  BY UsedType DEF BudgetInv, Types
<1>3. available' + idle' + Used(held') + Returns(c, l) + Margin(c, l)
         = available + idle + Used(held) + Returns(c, at[c]) + Margin(c, at[c])
  BY <1>1, <1>2
<1> QED BY <1>1, <1>2, <1>3, BlocksStay

\* A consumer that does not touch the counters, or the two of the pool alike.
LEMMA ConsumerCounters ==
    ASSUME BudgetInv, NEW c \in Consumers, NEW l, Goto(c, l), Types',
           l # "armed", at[c] # "armed",
           idleBytes' - idle' = idleBytes - idle,
           waiters' - Cardinality(armed') = waiters - Cardinality(armed)
    PROVE  CountersLead'
<1>1. /\ c \in Threads /\ Queues(c, l) = 0 /\ Queues(c, at[c]) = 0
      /\ Arms(c, l) = 0 /\ Arms(c, at[c]) = 0
  BY ConsumerStands
<1>2. Cardinality(armed) \in Nat /\ Cardinality(armed') \in Nat
  BY FiniteConsumers DEF BudgetInv, Types
<1>3. /\ idleBytes' - idle' - Queues(c, l) = idleBytes - idle - Queues(c, at[c])
      /\ waiters' - Cardinality(armed') - Arms(c, l) = waiters - Cardinality(armed) - Arms(c, at[c])
  BY <1>1, <1>2 DEF BudgetInv, Types
<1> QED BY <1>1, <1>3, CountersStay DEF Types

LEMMA PollKeeps ==
    ASSUME BudgetInv, NEW c \in Consumers, Poll(c)
    PROVE  BudgetInv'
<1>1. Types /\ c \in Threads /\ Used(held) \in Int BY Roles, UsedType DEF BudgetInv, Types
<1>2. /\ at[c] \in {"idle", "pending"} /\ Goto(c, "try") /\ Disarm({c} \ Writers)
      /\ UNCHANGED <<available, idle, idleBytes, closed, held, back>>
      /\ second' = second \ {c} /\ woken' = woken \ {c}
  BY DEF Poll, pool
<1>3. /\ armed' \in SUBSET Consumers /\ waiters' \in Int
      /\ waiters' - Cardinality(armed') = waiters - Cardinality(armed)
      /\ Cardinality(armed) \in Nat /\ Cardinality(armed') \in Nat
  BY <1>1, <1>2, Disarms
<1>4. Types'
  <2>1. Places' BY <1>1, <1>2, PlacesStay, Roles DEF ConsumerSteps
  <2> QED BY <1>1, <1>2, <1>3, <2>1 DEF Types
<1>5. BlocksAdd'
  <2>1. Margin(c, "try") = 0 /\ Margin(c, at[c]) = 0 BY <1>2, ConsumerStands
  <2> QED BY <1>1, <1>2, <1>4, <2>1, ConsumerBlocks
<1>6. CountersLead' BY <1>1, <1>2, <1>3, <1>4, ConsumerCounters
<1>7. Emptied' BY <1>1, <1>2, EmptiedStays DEF Empties
<1>8. \A d \in Consumers \ {c} :
         (d \in second' <=> d \in second) /\ (d \in woken' <=> d \in woken) /\ (d \in armed' <=> d \in armed)
  BY <1>2 DEF Disarm
<1>9. \A d \in Consumers \ {c} : Starved(d)'
  BY <1>1, <1>2, <1>8, ConsumerStands, OthersStarve DEF Types
<1> QED BY <1>1, <1>2, <1>4, <1>5, <1>6, <1>7, <1>8, <1>9, Advance

\* A step of a consumer that leaves the waiters alone: what it takes it holds.
LEMMA ConsumerTakes ==
    ASSUME BudgetInv, NEW c \in Consumers, NEW l \in ConsumerSteps \ {"armed", "notify"}, Goto(c, l),
           at[c] \in {"try", "reserve", "again", "split"},
           UNCHANGED <<closed, waiters, armed, woken, second, back>>,
           available' \in Nat, idle' \in Nat, idleBytes' \in Int, held' \in [Consumers -> Nat],
           idle' <= idle, idleBytes' - idle' = idleBytes - idle,
           available' + idle' + Used(held') + Margin(c, l) = available + idle + Used(held) + Margin(c, at[c]),
           available' + idle' + Margin(c, l) <= available + idle + Margin(c, at[c]),
           l = "split" => c \in Admitters, l = "pending" => c \in second,
           at[c] = "split" => l \in {"disarm", "idle"},
           l \in {"again", "pending"} => Starved(c)'
    PROVE  BudgetInv'
<1>1. Types /\ c \in Threads BY Roles DEF BudgetInv
<1>2. Types'
  <2>1. Places' BY <1>1, PlacesStay, Roles
  <2> QED BY <1>1, <2>1 DEF Types
<1>3. BlocksAdd' BY <1>2, ConsumerBlocks
<1>4. CountersLead' BY <1>2, ConsumerCounters
<1>5. Emptied'
  <2>1. idle' > 0 => idle > 0 BY <1>1, <1>2 DEF Types
  <2> QED BY <1>1, <2>1, EmptiedStays DEF Empties
<1>6. \A d \in Consumers \ {c} : Starved(d)'
  <2> SUFFICES ASSUME NEW d \in Consumers \ {c} PROVE Starved(d)' OBVIOUS
  <2>1. ~Notifies(c, at[c]) BY ConsumerStands
  <2>2. idle = 0 => idle' = 0 BY <1>1, <1>2 DEF Types
  <2> QED BY <1>1, <2>1, <2>2, OthersStarve
<1>7. c \in second /\ l \in {"try", "reserve", "trim", "notify", "again", "pending"} => c \in armed \union woken
  BY DEF BudgetInv, Registered
<1> QED BY <1>1, <1>2, <1>3, <1>4, <1>5, <1>6, <1>7, Advance

LEMMA Gets ==
    ASSUME Types, NEW c \in Consumers, Got(c)
    PROVE  /\ held' \in [Consumers -> Nat] /\ Used(held') = Used(held) + Units(c) /\ Used(held) \in Int
           /\ \E l \in {"split", "disarm", "idle"} :
                 Goto(c, l) /\ (l = "split" => c \in Admitters) /\ Margin(c, l) = Ask(c) - Units(c)
<1>1. held \in [Consumers -> Nat] /\ held' = [held EXCEPT ![c] = @ + 1] BY DEF Types, Got
<1>2. held' \in [Consumers -> Nat] BY <1>1
<1>3. Used(held') = Used(held) + Units(c) /\ Used(held) \in Int BY <1>1, UsedChanges
<1>4. CASE c \in Admitters
  <2>1. Goto(c, "split") BY <1>4 DEF Got
  <2>2. Margin(c, "split") = Ask(c) - Units(c) BY <1>4, UnitsType DEF Margin
  <2> QED BY <1>2, <1>3, <1>4, <2>1, <2>2
<1>5. CASE c \notin Admitters
  <2>1. PICK l \in {"disarm", "idle"} : Goto(c, l) BY <1>5 DEF Got
  <2>2. Margin(c, l) = 0 /\ Ask(c) - Units(c) = 0 BY <1>5, UnitsType DEF Margin
  <2> QED BY <1>2, <1>3, <2>1, <2>2
<1> QED BY <1>4, <1>5

LEMMA Misses ==
    ASSUME NEW c \in Consumers, Missed(c)
    PROVE  \E l \in {"pending", "arm"} : Goto(c, l) /\ (l = "pending" => c \in second) /\ Margin(c, l) = 0
  BY DEF Missed, Margin

LEMMA TryKeeps ==
    ASSUME BudgetInv, NEW c \in Consumers, Try(c)
    PROVE  BudgetInv'
<1>1. Types /\ c \in Threads /\ Used(held) \in Int BY Roles, UsedType DEF BudgetInv, Types
<1>2. /\ at[c] = "try" /\ Margin(c, at[c]) = 0
      /\ UNCHANGED <<available, closed, waiters, armed, woken, second, back>>
  BY ConsumerStands DEF Try, wake
<1>3. CASE c \in Readers /\ closed
  <2>1. Missed(c) /\ UNCHANGED <<idle, idleBytes, held>> BY <1>3 DEF Try
  <2>2. PICK l \in {"pending", "arm"} : Goto(c, l) /\ (l = "pending" => c \in second) /\ Margin(c, l) = 0
    BY <2>1, Misses
  <2>3. Starved(c)' BY <1>2, <1>3 DEF Starved
  <2>4. l \in ConsumerSteps \ {"armed", "notify"} BY <2>2 DEF ConsumerSteps
  <2> QED BY <1>1, <1>2, <2>1, <2>2, <2>3, <2>4, ConsumerTakes DEF Types
<1>4. CASE c \in Readers /\ ~closed /\ idle > 0
  <2>1. Got(c) /\ idle' = idle - 1 /\ idleBytes' = idleBytes - 1 BY <1>4 DEF Try
  <2>2. PICK l \in {"split", "disarm", "idle"} :
           Goto(c, l) /\ (l = "split" => c \in Admitters) /\ Margin(c, l) = Ask(c) - Units(c)
    BY <1>1, <2>1, Gets
  <2>3. held' \in [Consumers -> Nat] /\ Used(held') = Used(held) + 1 BY <1>1, <1>4, <2>1, Gets, UnitsType
  <2>4. Margin(c, l) = 0 BY <1>4, <2>2, UnitsType, Roles
  <2>5. l \in ConsumerSteps \ {"armed", "notify"} BY <2>2 DEF ConsumerSteps
  <2>6. /\ available' \in Nat /\ idle' \in Nat /\ idleBytes' \in Int
        /\ idle' <= idle /\ idleBytes' - idle' = idleBytes - idle
        /\ available' + idle' + Used(held') + Margin(c, l) = available + idle + Used(held) + Margin(c, at[c])
        /\ available' + idle' + Margin(c, l) <= available + idle + Margin(c, at[c])
    BY <1>1, <1>2, <1>4, <2>1, <2>3, <2>4 DEF Types
  <2> QED BY <1>1, <1>2, <2>2, <2>3, <2>5, <2>6, ConsumerTakes
<1>5. CASE ~(c \in Readers /\ closed) /\ ~(c \in Readers /\ idle > 0)
  <2>1. Goto(c, "reserve") /\ UNCHANGED <<idle, idleBytes, held>> BY <1>5 DEF Try
  <2>2. Margin(c, "reserve") = 0 /\ "reserve" \in ConsumerSteps \ {"armed", "notify"}
    BY ConsumerStands DEF ConsumerSteps
  <2> QED BY <1>1, <1>2, <2>1, <2>2, ConsumerTakes DEF Types
<1> QED BY <1>3, <1>4, <1>5

\* An attempt at the semaphore that succeeds.
LEMMA ReserveGets ==
    ASSUME BudgetInv, NEW c \in Consumers, Reserve(c) \/ ReserveAgain(c), available >= Ask(c)
    PROVE  BudgetInv'
<1>1. Types /\ c \in Threads /\ Used(held) \in Int BY Roles, UsedType DEF BudgetInv, Types
<1>2. /\ at[c] \in {"reserve", "again"} /\ Margin(c, at[c]) = 0
      /\ UNCHANGED <<idle, idleBytes, closed, waiters, armed, woken, second, back>>
      /\ available' = available - Ask(c) /\ Got(c)
  BY ConsumerStands DEF Reserve, ReserveAgain, wake, pool
<1>3. PICK l \in {"split", "disarm", "idle"} :
         Goto(c, l) /\ (l = "split" => c \in Admitters) /\ Margin(c, l) = Ask(c) - Units(c)
  BY <1>1, <1>2, Gets
<1>4. held' \in [Consumers -> Nat] /\ Used(held') = Used(held) + Units(c) BY <1>1, <1>2, Gets
<1>5. l \in ConsumerSteps \ {"armed", "notify"} BY <1>3 DEF ConsumerSteps
<1>6. Units(c) \in Nat /\ Ask(c) \in Nat BY UnitsType
<1>7. /\ available' \in Nat /\ idle' \in Nat /\ idleBytes' \in Int
      /\ idle' <= idle /\ idleBytes' - idle' = idleBytes - idle
      /\ available' + idle' + Used(held') + Margin(c, l) = available + idle + Used(held) + Margin(c, at[c])
      /\ available' + idle' + Margin(c, l) <= available + idle + Margin(c, at[c])
  BY <1>1, <1>2, <1>3, <1>4, <1>6 DEF Types
<1> QED BY <1>1, <1>2, <1>3, <1>4, <1>5, <1>7, ConsumerTakes

\* The second attempt fails: nobody returned anything without a wake-up since
\* the pool was found empty, and the margins that are out are other tasks'.
LEMMA ReserveFails ==
    ASSUME BudgetInv, NEW c \in Consumers, Reserve(c) \/ ReserveAgain(c), ~(available >= Ask(c))
    PROVE  BudgetInv'
<1>1. Types /\ c \in Threads /\ Used(held) \in Int BY Roles, UsedType DEF BudgetInv, Types
<1>2. /\ at[c] \in {"reserve", "again"} /\ Margin(c, at[c]) = 0
      /\ UNCHANGED <<available, idle, idleBytes, closed, held, waiters, armed, woken, second, back>>
      /\ (at[c] = "reserve" /\ Goto(c, "trim")) \/ (at[c] = "again" /\ Missed(c))
  BY ConsumerStands DEF Reserve, ReserveAgain, wake, pool
<1>3. CASE at[c] = "reserve" /\ Goto(c, "trim")
  <2>1. Margin(c, "trim") = 0 /\ "trim" \in ConsumerSteps \ {"armed", "notify"}
    BY ConsumerStands DEF ConsumerSteps
  <2> QED BY <1>1, <1>2, <1>3, <2>1, ConsumerTakes DEF Types
<1>4. CASE at[c] = "again" /\ Missed(c)
  <2>1. PICK l \in {"pending", "arm"} : Goto(c, l) /\ (l = "pending" => c \in second) /\ Margin(c, l) = 0
    BY <1>4, Misses
  <2>2. l \in ConsumerSteps \ {"armed", "notify"} BY <2>1 DEF ConsumerSteps
  <2>3. \A u \in Threads : at'[u] = IF u = c THEN l ELSE at[u] BY <1>1, <2>1, Went
  <2>4. Notifying => Notifying' BY <1>4, <2>3, Roles DEF Notifying
  <2> DEFINE n == Cardinality(Admitters \ {c})
             m == CountAt(at', Admitters \ {c}, {"split"})
  <2>5. n \in Nat /\ m \in Nat /\ m <= n /\ Headroom \in Nat
    BY Roles, CountType, BudgetAssumption
  <2>6. Capacity(c)' = available + idle + Headroom * m /\ Needs(c)' = Ask(c) + Headroom * n
    BY <1>2 DEF Capacity, Needs
  <2> HIDE DEF m, n
  <2>7. Headroom * m \in Nat /\ Headroom * n \in Nat /\ Headroom * m <= Headroom * n
    BY <2>5
  <2>8. idle = 0 => Capacity(c)' < Needs(c)'
    <3>1. Ask(c) \in Nat BY UnitsType
    <3> QED BY <1>1, <2>6, <2>7, <3>1 DEF Types
  <2>9. Starved(c) BY DEF BudgetInv
  <2>10. at'[c] = l BY <1>1, <2>3
  <2>11. Starved(c)' BY <1>2, <1>4, <2>1, <2>4, <2>8, <2>9, <2>10 DEF Starved
  <2> QED BY <1>1, <1>2, <2>1, <2>2, <2>11, ConsumerTakes DEF Types
<1> QED BY <1>2, <1>3, <1>4

LEMMA SplitKeeps ==
    ASSUME BudgetInv, NEW c \in Consumers, Split(c)
    PROVE  BudgetInv'
<1>1. Types /\ c \in Threads /\ Used(held) \in Int BY Roles, UsedType DEF BudgetInv, Types
<1>2. /\ at[c] = "split" /\ available' = available + Headroom
      /\ UNCHANGED <<idle, idleBytes, closed, held, waiters, armed, woken, second, back>>
  BY DEF Split, wake, pool
<1>3. PICK l \in {"disarm", "idle"} : Goto(c, l) BY DEF Split
<1>4. Margin(c, at[c]) = Headroom /\ Margin(c, l) = 0 /\ Headroom \in Nat
  BY <1>1, <1>2, BudgetAssumption DEF Margin, Types, Places
<1>5. l \in ConsumerSteps \ {"armed", "notify"} BY DEF ConsumerSteps
<1>6. /\ available' \in Nat /\ idle' <= idle
      /\ available' + idle' + Used(held') + Margin(c, l) = available + idle + Used(held) + Margin(c, at[c])
      /\ available' + idle' + Margin(c, l) <= available + idle + Margin(c, at[c])
  BY <1>1, <1>2, <1>4 DEF Types
<1> QED BY <1>1, <1>2, <1>3, <1>5, <1>6, ConsumerTakes DEF Types

LEMMA DisarmKeeps ==
    ASSUME BudgetInv, NEW c \in Consumers, DisarmGot(c)
    PROVE  BudgetInv'
<1>1. Types /\ c \in Threads /\ Used(held) \in Int BY Roles, UsedType DEF BudgetInv, Types
<1>2. /\ at[c] = "disarm" /\ Goto(c, "idle") /\ Disarm({c})
      /\ UNCHANGED <<available, idle, idleBytes, closed, held, woken, second, back>>
  BY DEF DisarmGot, pool
<1>3. /\ armed' \in SUBSET Consumers /\ waiters' \in Int
      /\ waiters' - Cardinality(armed') = waiters - Cardinality(armed)
  BY <1>1, <1>2, Disarms
<1>4. Types'
  <2>1. Places' BY <1>1, <1>2, PlacesStay, Roles DEF ConsumerSteps
  <2> QED BY <1>1, <1>2, <1>3, <2>1 DEF Types
<1>5. BlocksAdd'
  <2>1. Margin(c, "idle") = 0 /\ Margin(c, at[c]) = 0 BY <1>2, ConsumerStands
  <2> QED BY <1>1, <1>2, <1>4, <2>1, ConsumerBlocks
<1>6. CountersLead' BY <1>1, <1>2, <1>3, <1>4, ConsumerCounters
<1>7. Emptied' BY <1>1, <1>2, EmptiedStays DEF Empties
<1>8. \A d \in Consumers \ {c} : d \in armed' <=> d \in armed BY <1>2 DEF Disarm
<1>9. \A d \in Consumers \ {c} : Starved(d)'
  BY <1>1, <1>2, ConsumerStands, OthersStarve DEF Types
<1> QED BY <1>1, <1>2, <1>4, <1>5, <1>6, <1>7, <1>8, <1>9, Advance

LEMMA ArmKeeps ==
    ASSUME BudgetInv, NEW c \in Consumers, Arm(c)
    PROVE  BudgetInv'
<1>1. Types /\ c \in Threads /\ Used(held) \in Int BY Roles, UsedType DEF BudgetInv, Types
<1>2. UNCHANGED <<available, idle, idleBytes, closed, held, woken, back>> BY DEF Arm, pool
<1>3. PICK l \in {"armed", "try"} :
         /\ Goto(c, l) /\ at[c] = IF l = "armed" THEN "arm" ELSE "armed"
         /\ IF l = "armed" THEN waiters' = waiters + 1 /\ UNCHANGED <<armed, second>>
            ELSE /\ armed' = armed \union {c} /\ second' = second \union {c}
                 /\ waiters' = IF c \in armed THEN waiters - 1 ELSE waiters
  BY DEF Arm
<1>4. /\ Cardinality(armed) \in Nat
      /\ Cardinality(armed \union {c}) = IF c \in armed THEN Cardinality(armed) ELSE Cardinality(armed) + 1
  BY <1>1, FiniteConsumers, FS_AddElement DEF Types
<1>5. Types'
  <2>1. Places' BY <1>1, <1>3, PlacesStay, Roles DEF ConsumerSteps
  <2> QED BY <1>1, <1>2, <1>3, <2>1 DEF Types
<1>6. BlocksAdd'
  <2>1. Margin(c, l) = 0 /\ Margin(c, at[c]) = 0 BY <1>3, ConsumerStands
  <2> QED BY <1>1, <1>2, <1>3, <1>5, <2>1, ConsumerBlocks
<1>7. CountersLead'
  <2>1. /\ Queues(c, l) = 0 /\ Queues(c, at[c]) = 0
        /\ Arms(c, l) = (IF l = "armed" THEN 1 ELSE 0)
        /\ Arms(c, at[c]) = (IF l = "armed" THEN 0 ELSE 1)
    BY <1>3, ConsumerStands
  <2>2. waiters' - Cardinality(armed') - Arms(c, l) = waiters - Cardinality(armed) - Arms(c, at[c])
    <3>1. CASE l = "armed" BY <1>1, <1>3, <1>4, <2>1, <3>1 DEF Types
    <3>2. CASE l = "try" BY <1>1, <1>3, <1>4, <2>1, <3>2 DEF Types
    <3> QED BY <3>1, <3>2
  <2>3. idleBytes' - idle' - Queues(c, l) = idleBytes - idle - Queues(c, at[c]) BY <1>2, <2>1
  <2> QED BY <1>1, <1>3, <1>5, <2>2, <2>3, CountersStay DEF Types
<1>8. Emptied' BY <1>1, <1>2, <1>3, EmptiedStays DEF Empties
<1>9. \A d \in Consumers \ {c} : (d \in armed' <=> d \in armed) /\ (d \in second' <=> d \in second)
  BY <1>3
<1>10. \A d \in Consumers \ {c} : Starved(d)'
  <2> SUFFICES ASSUME NEW d \in Consumers \ {c} PROVE Starved(d)' OBVIOUS
  <2>1. Margin(c, l) = 0 /\ Margin(c, at[c]) = 0 /\ ~Notifies(c, at[c]) BY <1>3, ConsumerStands
  <2> QED BY <1>1, <1>2, <1>3, <1>9, <2>1, OthersStarve DEF Types
<1>11. c \in second' /\ l = "try" => c \in armed' BY <1>3
<1> QED BY <1>1, <1>2, <1>3, <1>5, <1>6, <1>7, <1>8, <1>9, <1>10, <1>11, Advance

\* notify_capacity: whoever was armed is woken.
LEMMA NotifyKeeps ==
    ASSUME BudgetInv, NEW t \in Threads, Notify(t)
    PROVE  BudgetInv'
<1>1. Types /\ Used(held) \in Int BY UsedType DEF BudgetInv, Types
<1>2. /\ at[t] = "notify" /\ UNCHANGED <<available, idle, idleBytes, closed, held, second>>
      /\ back' = back \ {t}
  BY DEF Notify, pool
<1>3. PICK l \in {"trim", "done", "idle"} :
         Goto(t, l) /\ (l = "done" <=> t = Closer /\ t \notin back) /\ (l = "trim" <=> t \in back)
  BY DEF Notify
<1>4. /\ armed' \in SUBSET Consumers /\ waiters' \in Int /\ woken' \in SUBSET Consumers
      /\ waiters' - Cardinality(armed') = waiters - Cardinality(armed)
      /\ Cardinality(armed) \in Nat /\ Cardinality(armed') \in Nat
      /\ woken \union armed \subseteq woken'
  <2>1. IsFiniteSet(armed) /\ Cardinality(armed) \in Nat /\ armed \in SUBSET Consumers
    BY <1>1, FiniteConsumers DEF Types
  <2>2. CASE waiters = 0
    <3>1. CountAt(at, Consumers, {"armed"}) \in Nat BY Roles, CountType
    <3>2. Cardinality(armed) = 0 BY <2>1, <2>2, <3>1 DEF BudgetInv, CountersLead
    <3>3. armed = {} BY <2>1, <3>2, FS_EmptySet
    <3> QED BY <1>1, <2>1, <2>2, <3>3 DEF Notify, wake, Types
  <2>3. CASE waiters # 0
    <3>1. Disarm(Consumers) /\ woken' = woken \union armed BY <2>3 DEF Notify
    <3> QED BY <1>1, <3>1, Disarms DEF Types
  <2> QED BY <2>2, <2>3
<1>5. Types'
  <2>1. Places'
    BY <1>1, <1>2, <1>3, PlacesStay, Roles DEF ConsumerSteps, DropperSteps, CloserSteps
  <2> QED BY <1>1, <1>2, <1>4, <2>1 DEF Types
<1>6. /\ Returns(t, l) = 0 /\ Returns(t, at[t]) = 0 /\ Margin(t, l) = 0 /\ Margin(t, at[t]) = 0
      /\ Queues(t, l) = 0 /\ Queues(t, at[t]) = 0 /\ Arms(t, l) = 0 /\ Arms(t, at[t]) = 0
  BY <1>2, <1>3 DEF Returns, Margin, Queues, Arms, Hits
<1>7. BlocksAdd' BY <1>1, <1>2, <1>3, <1>6, BlocksStay DEF Types
<1>8. CountersLead' BY <1>1, <1>2, <1>3, <1>4, <1>6, CountersStay DEF Types
<1>9. Emptied' BY <1>1, <1>2, <1>3, EmptiedStays DEF Empties
<1>10. \A c \in Consumers \ {t} : Starved(c)'
  <2> SUFFICES ASSUME NEW c \in Consumers \ {t} PROVE Starved(c)' OBVIOUS
  <2>1. at'[c] = at[c] BY <1>1, <1>3, Went, Roles
  <2>2. c \in second /\ at[c] \in {"again", "pending"} => c \in woken'
    BY <1>4 DEF BudgetInv, Registered
  <2> QED BY <1>2, <2>1, <2>2 DEF Starved
<1>11. t \in Consumers /\ t \in second /\ l = "trim" => t \in armed \union woken
  BY <1>2 DEF BudgetInv, Registered
<1> QED BY <1>2, <1>3, <1>4, <1>5, <1>7, <1>8, <1>9, <1>10, <1>11, Advance

\* A step of a thread that returns a lease or a buffer.  It leaves the waiters
\* alone; what comes back is followed by a wake-up.
LEMMA Gives ==
    ASSUME BudgetInv, NEW t \in Threads, NEW l, Goto(t, l), Types',
           UNCHANGED <<waiters, armed, woken, second>>, closed => closed',
           \A u \in Threads \ {t} : u \in back => u \in back',
           available' + idle' + Used(held') + Returns(t, l) + Margin(t, l)
               = available + idle + Used(held) + Returns(t, at[t]) + Margin(t, at[t]),
           idleBytes' - idle' - Queues(t, l) = idleBytes - idle - Queues(t, at[t]),
           Arms(t, l) = 0, Arms(t, at[t]) = 0,
           \/ Empties(l, t \in back')
           \/ ~(closed' /\ idle' > 0)
           \/ closed /\ idle > 0 /\ ~Empties(at[t], t \in back),
           \/ Notifies(t, l)
           \/ /\ ~Notifies(t, at[t])
              /\ idle = 0 => idle' = 0
              /\ available' + idle' + Margin(t, l) <= available + idle + Margin(t, at[t]),
           t \in Consumers => /\ l \in {"notify", "again"} /\ at[t] = "trim"
                              /\ l = "again" => idle' = 0
    PROVE  BudgetInv'
<1>1. Types BY DEF BudgetInv
<1>2. Used(held') \in Int
  BY UsedType DEF Types
<1>3. BlocksAdd' BY <1>2, BlocksStay DEF Types
<1>4. CountersLead' BY CountersStay DEF Types
<1>5. Emptied' BY EmptiedStays
<1>6. \A c \in Consumers \ {t} : Starved(c)'
  <2> SUFFICES ASSUME NEW c \in Consumers, c # t PROVE Starved(c)' OBVIOUS
  <2>1. available' \in Int /\ idle' \in Int BY DEF Types
  <2> QED BY <2>1, OthersStarve
<1>7. ASSUME t \in Consumers
      PROVE  /\ t \in second' /\ l \in {"try", "reserve", "trim", "notify", "again", "pending"}
                   => t \in armed' \union woken'
             /\ l \in {"again", "pending"} => Starved(t)'
  <2>1. at'[t] = l BY <1>1, Went
  <2> QED BY <1>7, <2>1 DEF BudgetInv, Registered, Starved
<1> QED BY <1>3, <1>4, <1>5, <1>6, <1>7, Advance

\* What a thread that drops stands for.
LEMMA DropperStands ==
    ASSUME NEW t \in Droppers, NEW l
    PROVE  /\ Margin(t, l) = 0 /\ Arms(t, l) = 0
           /\ Returns(t, l) = IF l \in {"recycle", "send"} THEN 1 ELSE 0
           /\ Queues(t, l) = IF l = "send" THEN 1 ELSE 0
           /\ Notifies(t, l) <=> l \in {"notify", "check", "trim"}
           /\ t \in Threads /\ t \notin Consumers /\ t # Closer
  BY Roles DEF Returns, Queues, Arms, Notifies, Margin, Hits

LEMMA DropKeeps ==
    ASSUME BudgetInv, NEW t \in Droppers, NEW c \in Consumers, Drop(t, c)
    PROVE  BudgetInv'
<1>1. Types /\ t \in Threads /\ Used(held) \in Int /\ Units(c) \in Nat
  BY Roles, UsedType, UnitsType DEF BudgetInv, Types
<1>2. /\ at[t] = "idle" /\ held[c] > 0 /\ held' = [held EXCEPT ![c] = @ - 1]
      /\ UNCHANGED <<idle, idleBytes, closed, waiters, armed, woken, second, back>>
  BY DEF Drop, pool, wake
<1>3. held' \in [Consumers -> Nat] /\ Used(held') = Used(held) - Units(c)
  <2>1. held \in [Consumers -> Nat] BY <1>1 DEF Types
  <2>2. held' \in [Consumers -> Nat] BY <1>2, <2>1
  <2> QED BY <1>2, <2>1, <2>2, UsedChanges
<1>4. CASE c \in Readers
  <2>1. Goto(t, "recycle") /\ available' = available BY <1>4 DEF Drop
  <2>2. Units(c) = 1 BY <1>4, UnitsType
  <2>3. Types'
    <3>1. Places' BY <1>1, <2>1, PlacesStay, DropperStands DEF DropperSteps
    <3> QED BY <1>1, <1>2, <1>3, <2>1, <3>1 DEF Types
  <2>4. available' + idle' + Used(held') + Returns(t, "recycle") + Margin(t, "recycle")
           = available + idle + Used(held) + Returns(t, at[t]) + Margin(t, at[t])
    BY <1>1, <1>2, <1>3, <2>1, <2>2, DropperStands DEF Types
  <2>5. /\ Queues(t, "recycle") = 0 /\ Queues(t, at[t]) = 0 /\ ~Notifies(t, at[t])
        /\ Margin(t, "recycle") = 0 /\ Margin(t, at[t]) = 0
        /\ Arms(t, "recycle") = 0 /\ Arms(t, at[t]) = 0 /\ t \notin Consumers
    BY <1>2, DropperStands
  <2>6. ~Empties(at[t], t \in back) BY <1>2 DEF Empties
  <2>7. /\ available' + idle' + Margin(t, "recycle") <= available + idle + Margin(t, at[t])
        /\ idleBytes' - idle' - Queues(t, "recycle") = idleBytes - idle - Queues(t, at[t])
    BY <1>1, <1>2, <2>1, <2>5 DEF Types
  <2> QED BY <1>1, <1>2, <2>1, <2>3, <2>4, <2>5, <2>6, <2>7, Gives
<1>5. CASE c \notin Readers
  <2>1. Goto(t, "notify") /\ available' = available + Units(c) BY <1>5 DEF Drop, Release
  <2>2. Types'
    <3>1. Places' BY <1>1, <2>1, PlacesStay, DropperStands DEF DropperSteps
    <3> QED BY <1>1, <1>2, <1>3, <2>1, <3>1 DEF Types
  <2>3. available' + idle' + Used(held') + Returns(t, "notify") + Margin(t, "notify")
           = available + idle + Used(held) + Returns(t, at[t]) + Margin(t, at[t])
    BY <1>1, <1>2, <1>3, <2>1, DropperStands DEF Types
  <2>4. /\ Queues(t, "notify") = 0 /\ Queues(t, at[t]) = 0 /\ Notifies(t, "notify")
        /\ Arms(t, "notify") = 0 /\ Arms(t, at[t]) = 0 /\ t \notin Consumers
    BY <1>2, DropperStands
  <2>5. ~Empties(at[t], t \in back) BY <1>2 DEF Empties
  <2> QED BY <1>1, <1>2, <2>1, <2>2, <2>3, <2>4, <2>5, Gives DEF Types
<1> QED BY <1>4, <1>5

LEMMA RecycleKeeps ==
    ASSUME BudgetInv, NEW t \in Droppers, Recycle(t)
    PROVE  BudgetInv'
<1>1. Types /\ t \in Threads /\ Used(held) \in Int BY Roles, UsedType DEF BudgetInv, Types
<1>2. /\ at[t] = "recycle" /\ UNCHANGED <<idle, closed, held, waiters, armed, woken, second, back>>
  BY DEF Recycle, pool, wake
<1>3. PICK l \in {"notify", "send"} :
         /\ Goto(t, l)
         /\ available' = available + (IF l = "notify" THEN 1 ELSE 0)
         /\ idleBytes' = idleBytes + (IF l = "send" THEN 1 ELSE 0)
  BY <1>1 DEF Recycle, Release, pool, Types
<1>4. Types'
  <2>1. Places' BY <1>1, <1>3, PlacesStay, DropperStands DEF DropperSteps
  <2> QED BY <1>1, <1>2, <1>3, <2>1 DEF Types
<1>5. /\ available' + idle' + Used(held') + Returns(t, l) + Margin(t, l)
            = available + idle + Used(held) + Returns(t, at[t]) + Margin(t, at[t])
      /\ idleBytes' - idle' - Queues(t, l) = idleBytes - idle - Queues(t, at[t])
  <2>1. CASE l = "notify" BY <1>1, <1>2, <1>3, <2>1, DropperStands DEF Types
  <2>2. CASE l = "send" BY <1>1, <1>2, <1>3, <2>2, DropperStands DEF Types
  <2> QED BY <2>1, <2>2
<1>6. Arms(t, l) = 0 /\ Arms(t, at[t]) = 0 /\ t \notin Consumers /\ ~Empties(at[t], t \in back)
  BY <1>2, DropperStands DEF Empties
<1>7. \/ Notifies(t, l)
      \/ /\ ~Notifies(t, at[t]) /\ (idle = 0 => idle' = 0)
         /\ available' + idle' + Margin(t, l) <= available + idle + Margin(t, at[t])
  <2>1. CASE l = "notify" BY <2>1, DropperStands
  <2>2. CASE l = "send" BY <1>1, <1>2, <1>3, <2>2, DropperStands DEF Types
  <2> QED BY <2>1, <2>2
<1>8. ~(closed' /\ idle' > 0) \/ (closed /\ idle > 0 /\ ~Empties(at[t], t \in back))
  BY <1>2, <1>6
<1> QED BY <1>1, <1>2, <1>3, <1>4, <1>5, <1>6, <1>7, <1>8, Gives

LEMMA SendKeeps ==
    ASSUME BudgetInv, NEW t \in Droppers, Send(t)
    PROVE  BudgetInv'
<1>1. Types /\ t \in Threads /\ Used(held) \in Int BY Roles, UsedType DEF BudgetInv, Types
<1>2. /\ at[t] = "send" /\ UNCHANGED <<closed, held, waiters, armed, woken, second, back>>
  BY DEF Send, wake
<1>3. PICK l \in {"check", "notify"} :
         /\ Goto(t, l)
         /\ available' = available + (IF l = "notify" THEN 1 ELSE 0)
         /\ idle' = idle + (IF l = "check" THEN 1 ELSE 0)
         /\ idleBytes' = idleBytes - (IF l = "notify" THEN 1 ELSE 0)
  BY <1>1 DEF Send, Release, Types
<1>4. Types'
  <2>1. Places' BY <1>1, <1>3, PlacesStay, DropperStands DEF DropperSteps
  <2> QED BY <1>1, <1>2, <1>3, <2>1 DEF Types
<1>5. /\ available' + idle' + Used(held') + Returns(t, l) + Margin(t, l)
            = available + idle + Used(held) + Returns(t, at[t]) + Margin(t, at[t])
      /\ idleBytes' - idle' - Queues(t, l) = idleBytes - idle - Queues(t, at[t])
  <2>1. CASE l = "notify" BY <1>1, <1>2, <1>3, <2>1, DropperStands DEF Types
  <2>2. CASE l = "check" BY <1>1, <1>2, <1>3, <2>2, DropperStands DEF Types
  <2> QED BY <2>1, <2>2
<1>6. Arms(t, l) = 0 /\ Arms(t, at[t]) = 0 /\ t \notin Consumers /\ Notifies(t, l)
  BY <1>2, <1>3, DropperStands
<1>7. \/ Empties(l, t \in back')
      \/ ~(closed' /\ idle' > 0)
      \/ closed /\ idle > 0 /\ ~Empties(at[t], t \in back)
  <2>1. CASE l = "check" BY <2>1 DEF Empties
  <2>2. CASE l = "notify" BY <1>1, <1>2, <1>3, <2>2 DEF Empties, Types
  <2> QED BY <2>1, <2>2
<1> QED BY <1>1, <1>2, <1>3, <1>4, <1>5, <1>6, <1>7, Gives

LEMMA CheckKeeps ==
    ASSUME BudgetInv, NEW t \in Droppers, Check(t)
    PROVE  BudgetInv'
<1>1. Types /\ t \in Threads /\ Used(held) \in Int BY Roles, UsedType DEF BudgetInv, Types
<1>2. /\ at[t] = "check"
      /\ UNCHANGED <<available, idle, idleBytes, closed, held, waiters, armed, woken, second, back>>
  BY DEF Check, pool, wake
<1>3. PICK l \in {"trim", "notify"} : Goto(t, l) /\ (l = "trim" <=> closed) BY <1>1 DEF Check, Types
<1>4. Types'
  <2>1. Places' BY <1>1, <1>3, PlacesStay, DropperStands DEF DropperSteps
  <2> QED BY <1>1, <1>2, <2>1 DEF Types
<1>5. /\ Returns(t, l) = 0 /\ Returns(t, at[t]) = 0 /\ Margin(t, l) = 0 /\ Margin(t, at[t]) = 0
      /\ Queues(t, l) = 0 /\ Queues(t, at[t]) = 0 /\ Arms(t, l) = 0 /\ Arms(t, at[t]) = 0
      /\ Notifies(t, l) /\ t \notin Consumers
  BY <1>2, <1>3, DropperStands
<1>6. Empties(l, t \in back') \/ ~(closed' /\ idle' > 0) BY <1>2, <1>3 DEF Empties
<1> QED BY <1>1, <1>2, <1>3, <1>4, <1>5, <1>6, Gives

LEMMA TrimKeeps ==
    ASSUME BudgetInv, NEW t \in Threads, Trim(t)
    PROVE  BudgetInv'
<1>1. Types /\ Used(held) \in Int BY UsedType DEF BudgetInv, Types
<1>2. at[t] = "trim" /\ UNCHANGED <<closed, held, waiters, armed, woken, second>>
  BY DEF Trim, wake
<1>3. \A l \in {"notify", "again", "done", "trim"} :
         Returns(t, l) = 0 /\ Margin(t, l) = 0 /\ Queues(t, l) = 0 /\ Arms(t, l) = 0
  BY DEF Returns, Margin, Queues, Arms, Hits
<1>4. CASE idle > 0
  <2>1. /\ idle' = idle - 1 /\ idleBytes' = idleBytes - 1 /\ available' = available + 1
        /\ Goto(t, "notify") /\ back' = back \union {t}
    BY <1>4 DEF Trim, Release
  <2>2. Types'
    <3>1. Places'
      BY <1>1, <2>1, PlacesStay, Roles DEF ConsumerSteps, DropperSteps, CloserSteps
    <3> QED BY <1>1, <1>2, <1>4, <2>1, <3>1 DEF Types
  <2>3. /\ available' + idle' + Used(held') + Returns(t, "notify") + Margin(t, "notify")
              = available + idle + Used(held) + Returns(t, at[t]) + Margin(t, at[t])
        /\ idleBytes' - idle' - Queues(t, "notify") = idleBytes - idle - Queues(t, at[t])
    BY <1>1, <1>2, <1>3, <1>4, <2>1 DEF Types
  <2>4. Empties("notify", t \in back') BY <2>1 DEF Empties
  <2>5. Notifies(t, "notify") BY DEF Notifies
  <2> QED BY <1>2, <1>3, <2>1, <2>2, <2>3, <2>4, <2>5, Gives
<1>5. CASE ~(idle > 0)
  <2>1. UNCHANGED <<available, idle, idleBytes, back>> /\ idle = 0 BY <1>1, <1>5 DEF Trim, Types
  <2>2. PICK l \in {"again", "done", "notify"} :
           /\ Goto(t, l) /\ (t \in Consumers => l = "again")
           /\ t \in Droppers => l = "notify"
           /\ t = Closer => l = "done"
    BY <1>5, Roles DEF Trim
  <2>3. Types'
    <3>1. Places'
      BY <1>1, <2>2, PlacesStay, Roles DEF ConsumerSteps, DropperSteps, CloserSteps
    <3> QED BY <1>1, <1>2, <2>1, <3>1 DEF Types
  <2>4. /\ available' + idle' + Used(held') + Returns(t, l) + Margin(t, l)
              = available + idle + Used(held) + Returns(t, at[t]) + Margin(t, at[t])
        /\ idleBytes' - idle' - Queues(t, l) = idleBytes - idle - Queues(t, at[t])
        /\ available' + idle' + Margin(t, l) <= available + idle + Margin(t, at[t])
    BY <1>1, <1>2, <1>3, <2>1 DEF Types
  <2>5. ~(idle' > 0) /\ idle' = 0 BY <2>1
  <2>6. Notifies(t, l) \/ ~Notifies(t, at[t]) BY <1>2, <2>2, Roles DEF Notifies
  <2> QED BY <1>2, <1>3, <2>1, <2>2, <2>3, <2>4, <2>5, <2>6, Gives
<1> QED BY <1>4, <1>5

LEMMA CloseKeeps ==
    ASSUME BudgetInv, Close
    PROVE  BudgetInv'
<1>1. Types /\ Used(held) \in Int /\ Closer \in Threads /\ Closer \notin Consumers
  BY UsedType, Roles DEF BudgetInv, Types
<1>2. /\ at[Closer] = "idle" /\ closed' = TRUE /\ Goto(Closer, "trim")
      /\ UNCHANGED <<available, idle, idleBytes, held, waiters, armed, woken, second, back>>
  BY DEF Close, wake
<1>3. Types'
  <2>1. Places' BY <1>1, <1>2, PlacesStay, Roles DEF CloserSteps
  <2> QED BY <1>1, <1>2, <2>1 DEF Types
<1>4. \A l \in {"idle", "trim"} : /\ Returns(Closer, l) = 0 /\ Margin(Closer, l) = 0
                                 /\ Queues(Closer, l) = 0 /\ Arms(Closer, l) = 0
  BY DEF Returns, Margin, Queues, Arms, Hits
<1>5. Empties("trim", Closer \in back') /\ ~Notifies(Closer, at[Closer])
  BY <1>2, Roles DEF Empties, Notifies
<1>6. available' + idle' + Margin(Closer, "trim") <= available + idle + Margin(Closer, at[Closer])
  BY <1>1, <1>2, <1>4 DEF Types
<1> QED BY <1>1, <1>2, <1>3, <1>4, <1>5, <1>6, Gives

LEMMA BudgetInitially == InitBudget => BudgetInv
<1> SUFFICES ASSUME InitBudget PROVE BudgetInv OBVIOUS
<1> USE DEF InitBudget
<1>1. Types
  <2>1. Places BY Roles DEF Places, ConsumerSteps, DropperSteps, CloserSteps
  <2>2. Total \in Nat /\ 0 \in Nat /\ 0 \in Int BY BudgetAssumption
  <2>3. held \in [Consumers -> Nat] BY <2>2
  <2> QED BY <2>1, <2>2, <2>3 DEF Types
<1>2. \A X \in SUBSET Threads : \A L : "idle" \notin L => CountAt(at, X, L) = 0
  <2> SUFFICES ASSUME NEW X \in SUBSET Threads, NEW L, "idle" \notin L PROVE CountAt(at, X, L) = 0
    OBVIOUS
  <2>1. {t \in X : at[t] \in L} = {} OBVIOUS
  <2> QED BY <2>1, FS_EmptySet DEF CountAt
<1>3. /\ CountAt(at, Droppers, {"recycle", "send"}) = 0 /\ CountAt(at, Droppers, {"send"}) = 0
      /\ CountAt(at, Admitters, {"split"}) = 0 /\ CountAt(at, Consumers, {"armed"}) = 0
  <2>1. Droppers \in SUBSET Threads /\ Admitters \in SUBSET Threads /\ Consumers \in SUBSET Threads
    BY Roles
  <2>2. "idle" \notin {"recycle", "send"} /\ "idle" \notin {"send"} /\ "idle" \notin {"split"}
        /\ "idle" \notin {"armed"}
    OBVIOUS
  <2> QED BY <1>2, <2>1, <2>2
<1>4. Used(held) = 0
  <2> DEFINE T == {n \in Nat : \A s \in SUBSET Consumers : Cardinality(s) = n => Fold(held)[s] = 0}
  <2>1. 0 \in T
    <3>1. ASSUME NEW s \in SUBSET Consumers, Cardinality(s) = 0 PROVE Fold(held)[s] = 0
      <4>1. s = {} BY <3>1, FiniteConsumers, FS_EmptySet
      <4> QED BY <4>1, FoldUnfolds DEF Unfold
    <3> QED BY <3>1
  <2>2. ASSUME NEW n \in T PROVE n + 1 \in T
    <3>1. ASSUME NEW s \in SUBSET Consumers, Cardinality(s) = n + 1 PROVE Fold(held)[s] = 0
      <4> DEFINE x == First(s)
      <4>1. s # {}
        <5>1. n \in Nat /\ Cardinality({}) = 0 BY FS_EmptySet
        <5>2. n + 1 # 0 BY <5>1
        <5>3. Cardinality(s) # Cardinality({}) BY <3>1, <5>1, <5>2
        <5> HIDE DEF T
        <5> QED BY <5>3
      <4>2. x \in s /\ s \ {x} \in SUBSET Consumers /\ Cardinality(s \ {x}) = n
        BY <3>1, <4>1, FiniteConsumers
      <4>3. Fold(held)[s \ {x}] = 0 BY <4>2
      <4>4. Fold(held)[s] = Units(x) * held[x] + Fold(held)[s \ {x}] BY <4>1, FoldUnfolds DEF Unfold
      <4>5. held[x] = 0 /\ Units(x) \in Nat BY <4>2, UnitsType
      <4> HIDE DEF x
      <4> QED BY <4>3, <4>4, <4>5
    <3> QED BY <3>1
  <2>3. T = Nat BY <2>1, <2>2, Inductive
  <2>4. Cardinality(Consumers) \in T BY <2>3, FiniteConsumers
  <2> QED BY <2>4, UsedIsFold
<1>5. BlocksAdd
  <2>1. Headroom * 0 = 0 BY BudgetAssumption
  <2> QED BY <1>3, <1>4, <2>1, BudgetAssumption DEF BlocksAdd
<1>6. CountersLead BY <1>3, FS_EmptySet DEF CountersLead
<1> QED BY <1>1, <1>5, <1>6, Roles DEF BudgetInv, Emptied, Registered, Starved

LEMMA BudgetPreserved == BudgetInv /\ [NextBudget]_budget => BudgetInv'
<1> SUFFICES ASSUME BudgetInv, [NextBudget]_budget PROVE BudgetInv' OBVIOUS
<1>1. ASSUME NEW c \in Consumers, Consume(c) PROVE BudgetInv'
  <2>1. CASE Reserve(c) \/ ReserveAgain(c) BY <2>1, ReserveGets, ReserveFails
  <2> QED BY <1>1, <2>1, PollKeeps, TryKeeps, SplitKeeps, DisarmKeeps, ArmKeeps DEF Consume
<1>2. ASSUME NEW t \in Droppers, (\E c \in Consumers : Drop(t, c)) \/ Recycle(t) \/ Send(t) \/ Check(t)
      PROVE  BudgetInv'
  BY <1>2, DropKeeps, RecycleKeeps, SendKeeps, CheckKeeps
<1>3. ASSUME NEW t \in Threads, Notify(t) \/ Trim(t) PROVE BudgetInv'
  BY <1>3, NotifyKeeps, TrimKeeps
<1>4. CASE Close BY <1>4, CloseKeeps
<1>5. CASE UNCHANGED budget
  <2>1. Types' BY <1>5 DEF budget, BudgetInv, Types, Places
  <2>2. BlocksAdd' /\ CountersLead' BY <1>5 DEF budget, BudgetInv, BlocksAdd, CountersLead
  <2>3. Emptied' /\ Registered' BY <1>5 DEF budget, BudgetInv, Emptied, Registered
  <2>4. \A c \in Consumers : Starved(c)'
    BY <1>5 DEF budget, BudgetInv, Starved, Notifying, Capacity, Needs
  <2> QED BY <2>1, <2>2, <2>3, <2>4 DEF BudgetInv
<1> QED BY <1>1, <1>2, <1>3, <1>4, <1>5 DEF NextBudget

LEMMA BudgetInvariant == SpecBudget => []BudgetInv
  BY BudgetInitially, BudgetPreserved, PTL DEF SpecBudget

-----------------------------------------------------------------------------
(* The theorems. *)

\* In a quiet state nobody is at a step that stands for anything.
LEMMA QuietCounts ==
    ASSUME Types, Quiet, NEW X, X \subseteq Threads, NEW L, L \cap {"idle", "pending", "done"} = {}
    PROVE  CountAt(at, X, L) = 0
<1>1. {t \in X : at[t] \in L} = {} BY DEF Quiet
<1> QED BY <1>1, FS_EmptySet DEF CountAt

\* However leases, returned buffers, a trim and the closing of the pool
\* interleave (BufferBudget, ReceivePool), no block of the budget is lost or
\* counted twice, no counter passes below zero, and a closed pool keeps nothing.
THEOREM Accounting == SpecBudget => []BudgetIsAccounted
<1>1. BudgetInv => BudgetIsAccounted
  <2> SUFFICES ASSUME BudgetInv PROVE BudgetIsAccounted OBVIOUS
  <2>1. Types BY DEF BudgetInv
  <2>2. CountAt(at, Droppers, {"send"}) \in Nat /\ CountAt(at, Consumers, {"armed"}) \in Nat
    BY Roles, CountType
  <2>3. Cardinality(armed) \in Nat BY <2>1, FiniteConsumers DEF Types
  <2>4. available >= 0 /\ idleBytes >= 0 /\ waiters >= 0
    BY <2>1, <2>2, <2>3 DEF BudgetInv, CountersLead, Types
  <2>5. ASSUME Quiet
        PROVE  /\ available + idle + Used(held) = Total
               /\ idleBytes = idle /\ waiters = Cardinality(armed) /\ (closed => idle = 0)
    <3>1. CountAt(at, Droppers, {"send"}) = 0 BY <2>1, <2>5, Roles, QuietCounts
    <3>2. CountAt(at, Consumers, {"armed"}) = 0 BY <2>1, <2>5, Roles, QuietCounts
    <3>3. CountAt(at, Droppers, {"recycle", "send"}) = 0 BY <2>1, <2>5, Roles, QuietCounts
    <3>4. CountAt(at, Admitters, {"split"}) = 0
      <4>1. Admitters \subseteq Threads BY Roles
      <4> QED BY <2>1, <2>5, <4>1, QuietCounts
    <3>5. Headroom * 0 = 0 BY BudgetAssumption
    <3>6. Used(held) \in Int BY <2>1, UsedType DEF Types
    <3>7. available + idle + Used(held) = Total
      BY <2>1, <3>3, <3>4, <3>5, <3>6 DEF BudgetInv, BlocksAdd, Types
    <3>8. idleBytes = idle /\ waiters = Cardinality(armed)
      BY <2>1, <2>3, <3>1, <3>2 DEF BudgetInv, CountersLead, Types
    <3>9. closed => idle = 0 BY <2>1, <2>5 DEF BudgetInv, Emptied, Quiet, Types
    <3> QED BY <3>7, <3>8, <3>9
  <2> QED BY <2>4, <2>5 DEF BudgetIsAccounted, Used
<1> QED BY <1>1, BudgetInvariant, PTL

\* A task that registered its waker and tried again (BudgetWaiter) never sleeps
\* on capacity that is there, whatever was returned between its two attempts.
THEOREM NoSleeper == SpecBudget => []NobodySleepsOnCapacity
<1>1. BudgetInv => NobodySleepsOnCapacity
  <2> SUFFICES ASSUME BudgetInv, Quiet, NEW c \in Consumers,
                      at[c] = "pending", c \notin woken, ~(c \in Readers /\ closed)
      PROVE  available + idle < Ask(c) + Cardinality(Admitters \ {c}) * Headroom
    BY DEF NobodySleepsOnCapacity
  <2>1. Types /\ c \in second BY DEF BudgetInv, Registered
  <2>2. ~Notifying BY DEF Quiet, Notifying
  <2>3. Capacity(c) < Needs(c) BY <2>1, <2>2 DEF BudgetInv, Starved
  <2>4. CountAt(at, Admitters \ {c}, {"split"}) = 0
    <3>1. Admitters \ {c} \subseteq Threads BY Roles
    <3> QED BY <2>1, <3>1, QuietCounts
  <2>5. Headroom * 0 = 0 /\ Headroom \in Nat BY BudgetAssumption
  <2>6. Cardinality(Admitters \ {c}) \in Nat BY Roles, CountType
  <2>7. Headroom * Cardinality(Admitters \ {c}) = Cardinality(Admitters \ {c}) * Headroom
    BY <2>5, <2>6
  <2>8. Capacity(c) = available + idle BY <2>1, <2>4, <2>5 DEF Capacity, Types
  <2> QED BY <2>3, <2>7, <2>8 DEF Needs
<1> QED BY <1>1, BudgetInvariant, PTL
===============================================================================
