-------------------------- MODULE RecoverySupervisor --------------------------
(***************************************************************************)
(* The Agent's automatic recovery (usque-agent/src/windows/server.rs): a    *)
(* supervisor task that retries the recovery of a failed operation a        *)
(* limited number of times, and the requests that change the journal, or    *)
(* the budget, while it sleeps, waits for the gate or publishes a result.   *)
(*                                                                          *)
(* The mutation gate serialises requests and attempts; the runtime record   *)
(* has a lock of its own and is written outside the gate as well.  The      *)
(* journal is abstracted to the operation and to what the supervisor tells  *)
(* apart; "Replacing" is RecoveryRequired with a replacement pending.       *)
(***************************************************************************)
EXTENDS Naturals

CONSTANTS
    OperationIds, \* bound: operations that are begun, each once
    Limit,        \* AUTOMATIC_RECOVERY_ATTEMPT_LIMIT
    MaxRetries,   \* bound: budgets that the user grants again
    MayStop       \* the service may be asked to stop

ASSUME LimitAssumption ==
    /\ Limit \in Nat \ {0} /\ MaxRetries \in Nat /\ MayStop \in BOOLEAN
    /\ "none" \notin OperationIds

VARIABLES
    journal,      \* the coordinator's journal
    begun,        \* operations used so far
    mutationGate, \* mutation_gate: "free" or who holds it
    runtime,      \* AutomaticRecoveryRuntime
    sup,          \* the supervisor task
    registered,   \* its Notified future exists
    woken,        \* and was notified
    stopping,     \* how often begin_shutdown has run
    spent,        \* attempts since the budget of runtime.op was granted
    retries       \* budgets granted again

supervisorVars == <<journal, begun, mutationGate, runtime, sup, registered, woken,
                    stopping, spent, retries>>
notify == <<registered, woken>>

NoOperation == "none"
Inactive == [op |-> NoOperation, stage |-> "Inactive", attempts |-> 0, revision |-> 0]
Clean == [op |-> NoOperation, phase |-> "Clean"]

SupervisorInit ==
    /\ journal = Clean /\ begun = {} /\ mutationGate = "free"
    /\ runtime = Inactive
    /\ sup = [at |-> "top", op |-> NoOperation, attempts |-> 0, revision |-> 0,
              result |-> "none", seen |-> Clean]
    /\ registered = FALSE /\ woken = FALSE /\ stopping = 0
    /\ spent = 0 /\ retries = 0

At(label) == [sup EXCEPT !.at = label]

\* Notify::notify_waiters reaches the futures that exist, polled or not.
Wake == woken' = (woken \/ registered)

-----------------------------------------------------------------------------
(* Requests: mutate holds the gate over the change of the journal, and over *)
(* reconcile_automatic_recovery_state after it.                             *)

\* What a request, as a whole, can make of the journal: nothing, if it fails.
Becomes(j) ==
    {j} \union
    CASE j.phase = "Clean" ->
           {[op |-> o, phase |-> p] : o \in OperationIds \ begun,
                                      p \in {"Live", "RecoveryRequired"}}
      [] j.phase = "Live" ->
           {[j EXCEPT !.phase = p] : p \in {"RecoveryRequired", "Replacing"}} \union {Clean}
      [] j.phase = "Replacing" -> {[j EXCEPT !.phase = "Live"], Clean}
      [] OTHER -> {Clean}

Request ==
    /\ mutationGate = "free" /\ stopping = 0
    /\ mutationGate' = "request"
    /\ journal' \in Becomes(journal)
    /\ begun' = begun \union ({journal'.op} \ {NoOperation})
    /\ UNCHANGED <<runtime, sup, notify, stopping, spent, retries>>

Eligible == journal.phase = "RecoveryRequired"
NewBudget(op) ==
    [op |-> op, stage |-> "Waiting", attempts |-> 0, revision |-> runtime.revision + 1]

ReconciledWaiting ==
    CASE Eligible /\ (runtime.op # journal.op \/ runtime.stage \in {"Inactive", "Waiting"}) ->
           NewBudget(journal.op)
      [] ~Eligible /\ (runtime.stage # "Inactive" \/ runtime.op # NoOperation) ->
           [Inactive EXCEPT !.revision = runtime.revision + 1]
      [] OTHER -> runtime

ReconciledNeverClears ==
    IF Eligible /\ (runtime.op # journal.op \/ runtime.stage = "Inactive")
    THEN NewBudget(journal.op) ELSE runtime

\* reconcile_automatic_recovery_state: what becomes of the runtime.
Reconciled ==
    CASE Eligible /\ (runtime.op # journal.op \/ runtime.stage = "Inactive") ->
           NewBudget(journal.op)
      [] ~Eligible /\ (runtime.stage # "Inactive" \/ runtime.op # NoOperation) ->
           [Inactive EXCEPT !.revision = runtime.revision + 1]
      [] OTHER -> runtime

ReconcileSilently ==
    /\ mutationGate = "request"
    /\ mutationGate' = "free"
    /\ runtime' = Reconciled
    /\ spent' = IF runtime'.op # runtime.op \/ runtime.stage = "Inactive" THEN 0 ELSE spent
    /\ UNCHANGED <<journal, begun, sup, notify, stopping, retries>>

Reconcile ==
    /\ mutationGate = "request"
    /\ mutationGate' = "free"
    /\ runtime' = Reconciled
    /\ spent' = IF runtime'.op # runtime.op \/ runtime.stage = "Inactive" THEN 0 ELSE spent
    /\ IF runtime' # runtime THEN Wake ELSE woken' = woken
    /\ UNCHANGED <<journal, begun, sup, registered, stopping, retries>>

\* restart_automatic_recovery with an exhausted budget: the adapter proves to
\* be gone and the journal becomes clean, or a new budget is granted.
RestartBudget ==
    /\ mutationGate = "free" /\ stopping = 0 /\ retries < MaxRetries
    /\ Eligible /\ runtime.op = journal.op /\ runtime.stage = "Exhausted"
    /\ retries' = retries + 1 /\ spent' = 0
    /\ \/ journal' = Clean /\ runtime' = Inactive
       \/ journal' = journal /\ runtime' = NewBudget(runtime.op)
    /\ Wake
    /\ UNCHANGED <<begun, mutationGate, sup, registered, stopping>>

-----------------------------------------------------------------------------
(* run_automatic_recovery_with_delays.                                      *)

Top ==
    /\ sup.at = "top"
    /\ sup' = At(IF stopping > 0 THEN "ended" ELSE "register")
    /\ registered' = FALSE /\ woken' = FALSE
    /\ UNCHANGED <<journal, begun, mutationGate, runtime, stopping, spent, retries>>

Register ==
    /\ sup.at = "register"
    /\ registered' = TRUE
    /\ sup' = At("sample")
    /\ UNCHANGED <<journal, begun, mutationGate, runtime, woken, stopping, spent, retries>>

Sample ==
    /\ sup.at = "sample"
    /\ sup' = IF runtime.stage = "Waiting" /\ runtime.attempts < Limit
              THEN [sup EXCEPT !.at = "sleep", !.op = runtime.op,
                       !.attempts = runtime.attempts, !.revision = runtime.revision]
              ELSE At("wait")
    /\ UNCHANGED <<journal, begun, mutationGate, runtime, notify, stopping, spent, retries>>

Notified ==
    /\ sup.at \in {"wait", "sleep"} /\ woken
    /\ sup' = At("top")
    /\ UNCHANGED <<journal, begun, mutationGate, runtime, notify, stopping, spent, retries>>

\* The delay is over; a notification that is there as well wins.
Elapsed ==
    /\ sup.at = "sleep" /\ ~woken
    /\ sup' = At(IF stopping > 0 THEN "ended" ELSE "claim")
    /\ UNCHANGED <<journal, begun, mutationGate, runtime, notify, stopping, spent, retries>>

Claim ==
    /\ sup.at = "claim"
    /\ IF /\ runtime.op = sup.op /\ runtime.stage = "Waiting"
          /\ runtime.attempts = sup.attempts /\ runtime.revision = sup.revision
       THEN /\ sup' = At("attempt")
            /\ runtime' = [runtime EXCEPT !.stage = "Running"]
            /\ Wake
       ELSE sup' = At("top") /\ UNCHANGED <<runtime, woken>>
    /\ UNCHANGED <<journal, begun, mutationGate, registered, stopping, spent, retries>>

-----------------------------------------------------------------------------
(* automatic_recovery_attempt and finish_automatic_recovery_attempt.        *)

EnterGate ==
    /\ sup.at = "attempt" /\ mutationGate = "free"
    /\ IF stopping > 0
       THEN sup' = [At("read") EXCEPT !.result = "stopping"] /\ mutationGate' = mutationGate
       ELSE sup' = At("native") /\ mutationGate' = "supervisor"
    /\ UNCHANGED <<journal, begun, runtime, notify, stopping, spent, retries>>

\* recover_automatic: the exact failed operation or nothing.  Clean is published
\* before the device is retired, which may still fail the attempt.
Attempt ==
    /\ sup.at = "native"
    /\ mutationGate' = "free"
    /\ IF journal.op = sup.op /\ Eligible
       THEN /\ spent' = spent + 1
            /\ \/ journal' = Clean /\ sup' = [At("read") EXCEPT !.result = "ok"]
               \/ \E r \in {"retryable", "blocked"} :
                    /\ journal' \in {journal, Clean}
                    /\ sup' = [At("read") EXCEPT !.result = r]
       ELSE /\ sup' = [At("read") EXCEPT !.result = "blocked"]
            /\ UNCHANGED <<journal, spent>>
    /\ UNCHANGED <<begun, runtime, notify, stopping, retries>>

\* The journal is read before the runtime is locked, outside the gate.
ReadJournal ==
    /\ sup.at = "read"
    /\ sup' = [At("publish") EXCEPT !.seen = journal]
    /\ UNCHANGED <<journal, begun, mutationGate, runtime, notify, stopping, spent, retries>>

Assessed ==
    LET done == [runtime EXCEPT !.attempts = @ + 1, !.revision = @ + 1] IN
    CASE sup.result = "ok" /\ sup.seen.phase = "Clean" ->
           [Inactive EXCEPT !.revision = done.revision]
      [] sup.seen.op = sup.op /\ sup.seen.phase \in {"RecoveryRequired", "Replacing"}
         /\ sup.result = "retryable" ->
           [done EXCEPT !.stage = IF done.attempts < Limit THEN "Waiting" ELSE "Exhausted"]
      [] OTHER -> [done EXCEPT !.stage = "Blocked"]

Publish ==
    /\ sup.at = "publish"
    /\ sup' = At("top")
    /\ IF runtime.op = sup.op /\ runtime.stage = "Running"
       THEN runtime' = Assessed /\ Wake
       ELSE UNCHANGED <<runtime, woken>>
    /\ UNCHANGED <<journal, begun, mutationGate, registered, stopping, spent, retries>>

\* begin_shutdown: serve_until_ready calls it when it leaves its loop and
\* once more after it, and then waits for the supervisor.
BeginShutdown ==
    /\ MayStop /\ stopping < 2
    /\ stopping' = stopping + 1
    /\ Wake
    /\ UNCHANGED <<journal, begun, mutationGate, runtime, sup, registered, spent, retries>>

Supervisor ==
    \/ Top \/ Register \/ Sample \/ Notified \/ Elapsed \/ Claim
    \/ EnterGate \/ Attempt \/ ReadJournal \/ Publish

SupervisorNext == Request \/ Reconcile \/ RestartBudget \/ Supervisor \/ BeginShutdown

\* The runtime polls the task again when it was woken or its timer fired, and
\* the gate is a fair mutex; a request that holds it ends.
Fairness ==
    SF_supervisorVars(Supervisor) /\ WF_supervisorVars(Reconcile)

SpecSupervisor == SupervisorInit /\ [][SupervisorNext]_supervisorVars
FairSpec == SpecSupervisor /\ Fairness

-----------------------------------------------------------------------------
\* The recovery of one operation is attempted at most Limit times for each
\* budget, whatever requests come in between and however late a result is
\* published.
BudgetIsKept == spent <= Limit /\ runtime.attempts <= Limit

\* What the supervisor shows after an attempt that cleaned the journal and then
\* could not retire the device: blocked, until the next request is over.
Leftover ==
    /\ journal = Clean /\ sup.seen = Clean /\ sup.result \in {"retryable", "blocked"}
    /\ runtime.op = sup.op /\ runtime.stage = "Blocked"

\* Between requests, a failed operation is in the supervisor's care, and the
\* supervisor cares for no operation that is not failed, unless the result of
\* an attempt is not published yet or is such a leftover.
FailedIsWatched ==
    mutationGate = "free" /\ sup.at \notin {"read", "publish"}
    => IF Eligible THEN runtime.op = journal.op /\ runtime.stage # "Inactive"
       ELSE (runtime.op = NoOperation /\ runtime.stage = "Inactive") \/ Leftover

\* The supervisor works for the operation that failed, and within its budget.
CareIsExact == BudgetIsKept /\ FailedIsWatched

\* A failed operation is recovered, or its budget ends in a final state that
\* the user sees; the supervisor never sleeps through one.
RecoveryIsDecided ==
    Eligible ~> ~Eligible \/ runtime.stage \in {"Exhausted", "Blocked"} \/ stopping > 0
=============================================================================
