-------------------------- MODULE EngineConnection --------------------------
(***************************************************************************)
(* The connection life cycle of the Windows Engine: one Connect or Retry   *)
(* request at a time (the dispatcher holds an exclusive provider lease     *)
(* for it), Disconnect and the Engine's exit, the monitor that watches the *)
(* Agent's automatic recovery and reconnects once, and the task that shuts *)
(* abandoned runtimes down.  Requests and monitor serialise on the         *)
(* mutation lock, a fair tokio mutex; the cleanup task holds only the lock *)
(* of the owner queue.  Everything a handler does between two awaits that  *)
(* another process can tell apart is one step.                             *)
(*                                                                         *)
(* Left out: the continuous worker, chain exits and in-place retries, the  *)
(* reattachment to an active Agent session, health reports of a live       *)
(* runtime (a published runtime stays healthy), and the statistics part of *)
(* the status snapshot.                                                    *)
(***************************************************************************)
EXTENDS Naturals, Sequences

CONSTANTS
  Profiles,      \* the profiles a request may name
  None,          \* no intent, no watch, no runtime, no error
  MaxRequests,   \* Connect and Retry requests
  MaxStops,      \* Disconnect requests
  MaxFaults,     \* failed job cancellations, starts, RPCs and shutdowns
  MaxOps,        \* recovery transactions of the Agent
  Exits          \* whether the desktop may exit

ASSUME BoundsAssumption ==
  /\ {MaxRequests, MaxStops, MaxFaults, MaxOps} \subseteq Nat
  /\ Exits \in BOOLEAN
  /\ None \notin Profiles \cup {"user", "stop", "cleanup"}

VARIABLES
  lease,      \* holder of the provider lease, or None
  token,      \* gate_startup_cancel: [id, cancelled]
  mutation,   \* waiters of mutation_lock, its holder first
  pc,         \* where "user", "stop" and "monitor" are
  call,       \* the request "user" and "stop" execute
  target,     \* the profile "user" and "monitor" connect
  mine,       \* the startup token "user" and "monitor" cloned
  myIntent,   \* the intent generation the user's request began
  rec,        \* windows_recovery: [gen, intent, pending]
  phase, error, dataPlane,
  owners,     \* disconnect_owners: whether each has a last_error
  failed,     \* disconnect_cleanup_failed
  cleanup,    \* disconnect_cleanup: the state of its task
  retry,      \* Disconnect found no data plane and retries the cleanup
  agent,      \* the Agent's transaction: [state, op]
  obs,        \* the Agent state "user" and "monitor" last read
  watch,      \* the monitor's copy of the pending watch
  woken,      \* the monitor's Notified future has fired
  expired,    \* ninety seconds passed since the watch began
  stopping,   \* windows_recovery_stopping
  stopped,    \* a Disconnect completed and no request came after it began
  requests, stops, faults

conn == <<phase, error, dataPlane>>
own == <<owners, failed, cleanup>>
intents == <<rec, woken, expired>>
locals == <<call, target, mine, myIntent, retry>>
seen == <<obs, watch>>
budget == <<requests, stops>>
vars == <<lease, token, mutation, pc, locals, conn, own, intents, agent, seen,
          stopping, stopped, budget, faults>>

Procs == {"user", "stop", "monitor"}
Running == {"spawned", "shutting", "erring", "popped", "clearing"}
Listening == {"read", "idle", "sleep", "observe"}

Connecting == {"ConnectingHttp3", "ConnectingHttp2"}

\* can_transition; Degraded is Connected here.
CanTransition(from, to) ==
  \/ from = "Disconnected" /\ to \in {"Preparing", "Reconnecting", "Disconnected"}
  \/ from = "Preparing" /\ to \in Connecting \cup {"Reconnecting", "Disconnecting", "Error"}
  \/ from = "ConnectingHttp3" /\ to = "ConnectingHttp2"
  \/ from \in Connecting \cup {"Connected"}
     /\ to \in {"Connected", "Reconnecting", "Disconnecting", "Error"}
  \/ from = "Reconnecting" /\ to \in Connecting \cup {"Preparing", "Connected",
                                                     "Disconnecting", "Error"}
  \/ from = "Disconnecting" /\ to \in {"Disconnected", "Error"}
  \/ from = "Error" /\ to \in {"Preparing", "Reconnecting", "Disconnecting",
                              "Disconnected", "Error"}

Init ==
  /\ lease = None
  /\ token = [id |-> 0, cancelled |-> FALSE]
  /\ mutation = <<>>
  /\ pc = [p \in Procs |-> IF p = "monitor" THEN "check" ELSE "idle"]
  /\ call = [p \in {"user", "stop"} |-> None]
  /\ target = [p \in {"user", "monitor"} |-> None]
  /\ mine = [p \in {"user", "monitor"} |-> 0]
  /\ myIntent = 0
  /\ rec = [gen |-> 0, intent |-> None, pending |-> None]
  /\ phase = "Disconnected" /\ error = None /\ dataPlane = None
  /\ owners = <<>> /\ failed = FALSE /\ cleanup = "none"
  /\ retry = FALSE
  \* A previous Engine may have left a transaction behind.
  /\ agent \in [state : {"clean", "pending"}, op : {0}]
  /\ obs = [p \in {"user", "monitor"} |-> None]
  /\ watch = None
  /\ woken = FALSE /\ expired = FALSE /\ stopping = FALSE
  /\ stopped = FALSE
  /\ requests = 0 /\ stops = 0 /\ faults = 0

-----------------------------------------------------------------------------
(* Helpers *)

Holds(p) == mutation # <<>> /\ Head(mutation) = p
Goto(p, label) == pc' = [pc EXCEPT ![p] = label]
Cancelled(p) == token.cancelled \/ mine[p] # token.id
Notify == woken' = (woken \/ pc["monitor"] \in Listening)
Fault == faults < MaxFaults /\ faults' = faults + 1
NoFault == UNCHANGED faults

MarkError(kind) == phase' = "Error" /\ error' = kind
Exiting == call["stop"] = "exit"

\* The watch is still the one the monitor acts for.
Current(w) ==
  rec.pending # None /\ rec.pending.gen = w.gen /\ rec.pending.op = w.op

\* A new intent of the same profile takes the pending watch over.
BeginIntent(profile) ==
  LET carried == rec.intent # None /\ rec.intent.profile = profile
                 /\ rec.pending # None
  IN /\ rec' = [gen     |-> rec.gen + 1,
                intent  |-> [gen |-> rec.gen + 1, profile |-> profile,
                             attempted |-> FALSE],
                pending |-> IF carried
                            THEN [rec.pending EXCEPT !.gen = rec.gen + 1,
                                                     !.reconnect = TRUE]
                            ELSE None]
     /\ expired' = FALSE
     /\ Notify

ClearIntent ==
  /\ rec' = [gen |-> rec.gen + 1, intent |-> None, pending |-> None]
  /\ expired' = FALSE
  /\ Notify

\* A handler returns and drops the mutation lock: a failed request withdraws
\* its own intent, the monitor goes back to its loop.  A monitor that called
\* connect_locked in vain also reports the error (Reported below).
Return(p, err) ==
  /\ mutation' = Tail(mutation)
  /\ Goto(p, IF p = "user" THEN "reply" ELSE "check")
  /\ IF p = "user" /\ err /\ rec.intent # None /\ rec.intent.gen = myIntent
     THEN ClearIntent
     ELSE UNCHANGED intents

\* What the error a connect attempt returns without reporting it leaves.
Unreported(p) ==
  IF p = "monitor" THEN MarkError("other") ELSE UNCHANGED <<phase, error>>

-----------------------------------------------------------------------------
(* Connect and Retry *)

\* The dispatcher takes the exclusive provider lease, or refuses; the request
\* takes a live startup token and waits for the mutation lock.
Request(k, profile) ==
  /\ pc["user"] = "idle" /\ lease = None /\ ~Exiting
  /\ requests < MaxRequests
  /\ requests' = requests + 1
  /\ lease' = "user"
  /\ token' = IF token.cancelled
              THEN [id |-> token.id + 1, cancelled |-> FALSE] ELSE token
  /\ mine' = [mine EXCEPT !["user"] = token'.id]
  /\ call' = [call EXCEPT !["user"] = k]
  /\ target' = [target EXCEPT !["user"] = profile]
  /\ mutation' = Append(mutation, "user")
  /\ Goto("user", "lock")
  /\ stopped' = FALSE
  /\ UNCHANGED <<myIntent, retry, conn, own, intents, agent, seen, stopping,
                 stops, faults>>

\* A Retry is for the profile of the live session, if there is one.
UserLocked ==
  /\ pc["user"] = "lock" /\ Holds("user")
  /\ \/ /\ Cancelled("user")
        /\ Return("user", FALSE)
        /\ UNCHANGED <<target, myIntent>>
     \/ /\ ~Cancelled("user")
        /\ target' = IF call["user"] = "retry" /\ dataPlane # None
                     THEN [target EXCEPT !["user"] = dataPlane] ELSE target
        /\ BeginIntent(target'["user"])
        /\ myIntent' = rec.gen + 1
        /\ Goto("user", IF call["user"] = "retry" THEN "down" ELSE "await")
        /\ UNCHANGED mutation
  /\ UNCHANGED <<lease, token, call, mine, retry, conn, own, agent, seen,
                 stopping, stopped, budget, faults>>

\* handle_payload drops the lease after the handler dropped the lock.
Reply ==
  /\ pc["user"] = "reply"
  /\ lease' = None
  /\ Goto("user", "idle")
  /\ UNCHANGED <<token, mutation, locals, conn, own, intents, agent, seen,
                 stopping, stopped, budget, faults>>

\* await_disconnect_cleanup once its task ended: an aborted or panicked task
\* leaves its error with the retained owner.
Collect ==
  /\ cleanup \notin Running
  /\ cleanup' = "none"
  /\ IF cleanup = "panicked" /\ owners # <<>>
     THEN /\ owners' = [owners EXCEPT ![1] = TRUE]
          /\ failed' = TRUE
     ELSE UNCHANGED <<owners, failed>>

\* Mutant: a clean Agent is taken for the confirmation of every owner.
UnconfirmedByAgent == owners # <<>> /\ agent.state # "clean"

\* Its result, and the owners that are left whatever the result was.
Unconfirmed == cleanup \in {"err", "panicked"} \/ owners # <<>>

AwaitCleanup(p) ==
  /\ pc[p] = "await" /\ Holds(p)
  /\ \/ /\ Cancelled(p)
        /\ Return(p, FALSE)
        /\ UNCHANGED <<own, conn>>
     \/ /\ ~Cancelled(p)
        /\ Collect
        /\ IF Unconfirmed
           THEN Return(p, TRUE) /\ MarkError("cleanup") /\ UNCHANGED dataPlane
           ELSE Goto(p, "body") /\ UNCHANGED <<mutation, intents, conn>>
  /\ UNCHANGED <<lease, token, locals, agent, seen, stopping, stopped, budget,
                 faults>>

\* The checks before a runtime is started, up to the preflight.
Prepare(p) ==
  /\ pc[p] = "body" /\ Holds(p)
  /\ \/ /\ Cancelled(p) \/ dataPlane = target[p]
        /\ Return(p, FALSE)
        /\ UNCHANGED conn /\ NoFault
     \/ /\ ~Cancelled(p)
        /\ dataPlane \notin {None, target[p]}
        /\ Return(p, TRUE)
        /\ UNCHANGED conn /\ NoFault
     \/ /\ ~Cancelled(p) /\ dataPlane = None
        /\ IF phase \in Connecting \cup {"Preparing"} THEN UNCHANGED <<phase, error>>
           ELSE phase' = "Preparing" /\ error' = None
        /\ Goto(p, "preflight")
        /\ UNCHANGED <<dataPlane, mutation, intents>> /\ NoFault
     \* The profile, a credential or a feature is not available.
     \/ /\ ~Cancelled(p) /\ dataPlane = None
        /\ Fault
        /\ Return(p, TRUE)
        /\ Unreported(p) /\ UNCHANGED dataPlane
  /\ UNCHANGED <<lease, token, locals, own, agent, seen, stopping, stopped, budget>>

\* The Agent answers the recovery preflight; an explicit request restarts an
\* exhausted recovery.
Preflight(p) ==
  /\ pc[p] = "preflight" /\ Holds(p)
  /\ \/ /\ Cancelled(p)
        /\ Return(p, FALSE)
        /\ UNCHANGED <<agent, obs, conn>> /\ NoFault
     \/ /\ ~Cancelled(p)
        /\ agent' = IF agent.state = "exhausted" /\ p = "user"
                    THEN [agent EXCEPT !.state = "pending"] ELSE agent
        /\ obs' = [obs EXCEPT ![p] = agent']
        /\ Goto(p, "inspect")
        /\ UNCHANGED <<mutation, intents, conn>> /\ NoFault
     \/ /\ ~Cancelled(p)
        /\ Fault
        /\ MarkError("other") /\ UNCHANGED dataPlane
        /\ Return(p, TRUE)
        /\ UNCHANGED <<agent, obs>>
  /\ UNCHANGED <<lease, token, locals, own, watch, stopping, stopped, budget>>

\* enter_windows_automatic_recovery: only the intent of this profile may
\* install a watch, and only its first one may reconnect.
EnterRecovery(p, op) ==
  IF rec.intent # None /\ rec.intent.profile = target[p]
  THEN /\ rec' = [rec EXCEPT !.pending =
                    [gen |-> rec.intent.gen, op |-> op,
                     reconnect |-> ~rec.intent.attempted]]
       /\ expired' = FALSE
       /\ Notify
       /\ phase' = "Reconnecting" /\ error' = None
       /\ mutation' = Tail(mutation)
       /\ Goto(p, IF p = "user" THEN "reply" ELSE "check")
  ELSE Return(p, TRUE) /\ Unreported(p)

Inspect(p) ==
  /\ pc[p] = "inspect" /\ Holds(p)
  /\ \/ /\ Cancelled(p)
        /\ Return(p, FALSE)
        /\ UNCHANGED <<phase, error>> /\ NoFault
     \/ /\ ~Cancelled(p) /\ obs[p].state = "pending"
        /\ EnterRecovery(p, obs[p].op)
        /\ NoFault
     \/ /\ ~Cancelled(p) /\ obs[p].state = "exhausted"
        /\ MarkError("other")
        /\ Return(p, TRUE)
        /\ NoFault
     \* The chosen gate is not available.
     \/ /\ ~Cancelled(p) /\ obs[p].state \in {"clean", "active"}
        /\ Fault
        /\ Return(p, TRUE)
        /\ Unreported(p)
     \* The transport the profile asks for; a refused transition is an error.
     \/ /\ ~Cancelled(p) /\ obs[p].state \in {"clean", "active"}
        /\ \E t \in Connecting :
             IF phase = t \/ CanTransition(phase, t)
             THEN phase' = t /\ error' = None /\ Goto(p, "start") /\ UNCHANGED <<mutation, intents>>
             ELSE Return(p, TRUE) /\ Unreported(p)
        /\ NoFault
  /\ UNCHANGED <<lease, token, locals, own, dataPlane, agent, seen, stopping,
                 stopped, budget>>

\* The start of the runtime, as long as the network and the Agent take.  An
\* error after a cancellation is not reported.
Start(p) ==
  /\ pc[p] = "start" /\ Holds(p)
  /\ \/ /\ agent.state = "clean"
        /\ agent' = [agent EXCEPT !.state = "active"]
        /\ Goto(p, "started")
        /\ UNCHANGED <<mutation, intents, phase, error>> /\ NoFault
     \/ /\ IF agent.state = "clean" THEN Fault ELSE NoFault
        /\ agent.state # "pending"
        /\ IF Cancelled(p) THEN Return(p, FALSE) /\ UNCHANGED <<phase, error>>
                           ELSE Return(p, TRUE) /\ MarkError("other")
        /\ UNCHANGED agent
     \/ /\ \/ agent.state = "pending" /\ UNCHANGED agent /\ NoFault
           \/ /\ agent.state = "clean" /\ agent.op < MaxOps
              /\ Fault
              /\ agent' = [state |-> "pending", op |-> agent.op + 1]
        /\ IF Cancelled(p) THEN Return(p, FALSE) /\ UNCHANGED <<phase, error>>
                           ELSE EnterRecovery(p, agent'.op)
  /\ UNCHANGED <<lease, token, locals, own, dataPlane, seen, stopping, stopped,
                 budget>>

\* The cleanup task holds the lock of the queue while it works on an owner.
OwnersFree == cleanup \notin {"shutting", "erring", "popped", "clearing"}

\* Mutant: a cancelled startup drops its runtime.
StartedDropped(p) ==
  /\ pc[p] = "started" /\ Holds(p)
  /\ IF Cancelled(p)
     THEN UNCHANGED conn
     ELSE dataPlane' = target[p] /\ phase' = "Connected" /\ error' = None
  /\ Return(p, FALSE)
  /\ UNCHANGED <<lease, token, locals, own, agent, seen, stopping, stopped, budget,
                 faults>>

\* A runtime whose start was cancelled joins the owner queue, any other one
\* becomes the data plane.
Started(p) ==
  /\ pc[p] = "started" /\ Holds(p)
  /\ IF Cancelled(p)
     THEN /\ OwnersFree
          /\ owners' = Append(owners, FALSE)
          /\ UNCHANGED conn
     ELSE /\ dataPlane' = target[p]
          /\ phase' = "Connected" /\ error' = None
          /\ UNCHANGED owners
  /\ Return(p, FALSE)
  /\ UNCHANGED <<lease, token, locals, failed, cleanup, agent, seen, stopping,
                 stopped, budget, faults>>

-----------------------------------------------------------------------------
(* disconnect_locked, for a Retry, a Disconnect, the exit and the monitor *)

AfterDown(p) ==
  IF p = "user" THEN "await" ELSE IF p = "stop" THEN "retry" ELSE "collect"

\* start_queued_shutdown: a failed owner waits for an explicit retry.
StartQueued ==
  cleanup' = IF cleanup = "none" /\ owners # <<>> /\ ~Head(owners)
             THEN "spawned" ELSE cleanup

\* The phase is read under the lock of the data plane, the flag after it, and
\* the state is locked again to leave the phase: the cleanup task may finish
\* between any two.
Down(p) ==
  /\ pc[p] = "down" /\ Holds(p)
  /\ IF dataPlane = None /\ phase = "Disconnected"
     THEN StartQueued /\ Goto(p, AfterDown(p))
     ELSE UNCHANGED cleanup /\ Goto(p, IF dataPlane = None THEN "flag" ELSE "leave")
  /\ UNCHANGED <<lease, token, mutation, locals, conn, owners, failed, intents, agent,
                 seen, stopping, stopped, budget, faults>>

DownFlag(p) ==
  /\ pc[p] = "flag" /\ Holds(p)
  /\ IF failed THEN StartQueued /\ Goto(p, AfterDown(p))
               ELSE UNCHANGED cleanup /\ Goto(p, "leave")
  /\ UNCHANGED <<lease, token, mutation, locals, conn, owners, failed, intents, agent,
                 seen, stopping, stopped, budget, faults>>

\* What a refused disconnect_locked leaves: a Retry and a Disconnect fail, the
\* exit goes on, and the monitor gives its watch up and reports the error.
NotLeft(p) ==
  CASE p = "user" -> Return(p, TRUE) /\ UNCHANGED <<lease, phase, error>>
    [] p = "stop" /\ Exiting ->
         Goto(p, AfterDown(p)) /\ UNCHANGED <<lease, mutation, intents, phase, error>>
    [] p = "stop" /\ ~Exiting ->
         /\ Goto(p, "idle") /\ mutation' = Tail(mutation) /\ lease' = None
         /\ UNCHANGED <<intents, phase, error>>
    [] p = "monitor" ->
         /\ Goto(p, "check") /\ mutation' = Tail(mutation)
         /\ rec' = [rec EXCEPT !.pending = None] /\ MarkError("other")
         /\ UNCHANGED <<lease, woken, expired>>

Leave(p) ==
  /\ pc[p] = "leave" /\ Holds(p)
  /\ IF phase = "Disconnecting" \/ CanTransition(phase, "Disconnecting")
     THEN /\ phase' = "Disconnecting" /\ error' = None
          /\ dataPlane' = None
          /\ Goto(p, IF dataPlane = None THEN "ended" ELSE "queue")
          /\ UNCHANGED <<lease, mutation, intents>>
     ELSE NotLeft(p) /\ UNCHANGED dataPlane
  /\ UNCHANGED <<token, locals, own, agent, seen, stopping, stopped, budget, faults>>

QueueRuntime(p) ==
  /\ pc[p] = "queue" /\ Holds(p) /\ OwnersFree
  /\ owners' = Append(owners, FALSE)
  /\ Goto(p, "ended")
  /\ UNCHANGED <<lease, token, mutation, locals, conn, failed, cleanup, intents,
                 agent, seen, stopping, stopped, budget, faults>>

\* Mutant: the session is left in Disconnecting.
EndedUnpublished(p) ==
  /\ pc[p] = "ended" /\ Holds(p)
  /\ StartQueued
  /\ Goto(p, AfterDown(p))
  /\ UNCHANGED <<lease, token, mutation, locals, conn, owners, failed, intents,
                 agent, seen, stopping, stopped, budget, faults>>

Ended(p) ==
  /\ pc[p] = "ended" /\ Holds(p)
  /\ phase' = "Disconnected" /\ error' = None
  /\ StartQueued
  /\ Goto(p, AfterDown(p))
  /\ UNCHANGED <<lease, token, mutation, locals, dataPlane, owners, failed,
                 intents, agent, seen, stopping, stopped, budget, faults>>

-----------------------------------------------------------------------------
(* Disconnect and exit *)

\* Both signal the startup before they wait for anything.
Stop(k) ==
  /\ pc["stop"] = "idle" /\ ~Exiting
  /\ \/ k = "disconnect" /\ stops < MaxStops /\ stops' = stops + 1
     \/ k = "exit" /\ Exits /\ UNCHANGED stops
  /\ token' = [token EXCEPT !.cancelled = TRUE]
  /\ call' = [call EXCEPT !["stop"] = k]
  /\ Goto("stop", IF k = "exit" THEN "jobs" ELSE "clear")
  /\ stopped' = FALSE
  /\ UNCHANGED <<lease, mutation, target, mine, myIntent, retry, conn, own,
                 intents, agent, seen, stopping, requests, faults>>

\* Mutant: Disconnect withdraws the intent and leaves its watch.
StopClearIntentOnly ==
  /\ pc["stop"] = "clear"
  /\ rec' = [rec EXCEPT !.gen = rec.gen + 1, !.intent = None]
  /\ Notify
  /\ IF Exiting
     THEN mutation' = Append(mutation, "stop") /\ Goto("stop", "lock")
     ELSE UNCHANGED mutation /\ Goto("stop", "jobs")
  /\ UNCHANGED <<lease, token, locals, conn, own, expired, agent, seen, stopping,
                 stopped, budget, faults>>

StopClear ==
  /\ pc["stop"] = "clear"
  /\ ClearIntent
  /\ IF Exiting
     THEN mutation' = Append(mutation, "stop") /\ Goto("stop", "lock")
     ELSE UNCHANGED mutation /\ Goto("stop", "jobs")
  /\ UNCHANGED <<lease, token, locals, conn, own, agent, seen, stopping, stopped,
                 budget, faults>>

\* Cancelling the provider jobs may fail.  The exit takes the provider lease
\* here, before it waits for the mutation lock.
StopJobs ==
  /\ pc["stop"] = "jobs"
  /\ \/ /\ Fault
        /\ Goto("stop", IF Exiting THEN "halt" ELSE "idle")
        /\ UNCHANGED <<lease, mutation>>
     \/ /\ NoFault /\ ~Exiting
        /\ mutation' = Append(mutation, "stop")
        /\ Goto("stop", "lock")
        /\ UNCHANGED lease
     \/ /\ NoFault /\ Exiting /\ lease = None
        /\ lease' = "stop"
        /\ Goto("stop", "clear")
        /\ UNCHANGED mutation
     \/ /\ NoFault /\ Exiting /\ lease # None
        /\ Goto("stop", "halt")
        /\ UNCHANGED <<lease, mutation>>
  /\ UNCHANGED <<token, locals, conn, own, intents, agent, seen, stopping, stopped,
                 budget>>

\* Disconnect takes the lease once it holds the lock; a held lease refuses it.
StopLocked ==
  /\ pc["stop"] = "lock" /\ Holds("stop")
  /\ \/ /\ Exiting \/ lease = None
        /\ lease' = "stop"
        /\ retry' = (dataPlane = None)
        /\ Goto("stop", "down")
        /\ UNCHANGED mutation
     \/ /\ ~Exiting /\ lease # None
        /\ mutation' = Tail(mutation)
        /\ Goto("stop", "refused")
        /\ UNCHANGED <<lease, retry>>
  /\ UNCHANGED <<token, call, target, mine, myIntent, conn, own, intents, agent,
                 seen, stopping, stopped, budget, faults>>

Refused ==
  /\ pc["stop"] = "refused"
  /\ Goto("stop", "idle")
  /\ UNCHANGED <<lease, token, mutation, locals, conn, own, intents, agent, seen,
                 stopping, stopped, budget, faults>>

\* retry_disconnect_cleanup drops a finished task and starts another one for
\* whatever is still owned.
RetryCleanup ==
  /\ pc["stop"] = "retry" /\ Holds("stop")
  /\ cleanup' = IF ~retry \/ cleanup \in Running THEN cleanup
                ELSE IF owners # <<>> THEN "spawned" ELSE "none"
  /\ IF Exiting
     THEN Goto("stop", "collect") /\ UNCHANGED <<mutation, lease, stopped>>
     ELSE /\ Goto("stop", "idle")
          /\ mutation' = Tail(mutation)
          /\ lease' = None
          /\ stopped' = token.cancelled
  /\ UNCHANGED <<token, locals, conn, owners, failed, intents, agent, seen,
                 stopping, budget, faults>>

\* The exit waits for the cleanup, then releases lease and lock.
ExitCollect ==
  /\ pc["stop"] = "collect" /\ Holds("stop")
  /\ Collect
  /\ IF cleanup = "panicked" THEN MarkError("cleanup") ELSE UNCHANGED <<phase, error>>
  /\ mutation' = Tail(mutation)
  /\ lease' = None
  /\ Goto("stop", "halt")
  /\ UNCHANGED <<token, locals, dataPlane, intents, agent, seen, stopping, stopped,
                 budget, faults>>

\* main stops the monitor and waits for it before the process ends.
Halt ==
  /\ pc["stop"] = "halt"
  /\ stopping' = TRUE
  /\ Notify
  /\ Goto("stop", "joining")
  /\ UNCHANGED <<lease, token, mutation, locals, conn, own, rec, expired, agent,
                 seen, stopped, budget, faults>>

Exit ==
  /\ pc["stop"] = "joining" /\ pc["monitor"] = "done"
  /\ Goto("stop", "exited")
  /\ UNCHANGED <<lease, token, mutation, locals, conn, own, intents, agent, seen,
                 stopping, stopped, budget, faults>>

-----------------------------------------------------------------------------
(* The task that shuts the owned runtimes down *)

TaskVars == <<lease, token, mutation, pc, locals, intents, seen, stopping, stopped,
              budget>>

TaskNext ==
  /\ cleanup = "spawned"
  /\ cleanup' = IF owners = <<>> THEN "ok" ELSE "shutting"
  /\ UNCHANGED <<TaskVars, conn, owners, failed, agent, faults>>

\* shutdown() of the front owner: restored, failed or panicked.
TaskShutdown ==
  /\ cleanup = "shutting"
  /\ \/ /\ agent.state \in {"active", "clean"}
        /\ agent' = [agent EXCEPT !.state = "clean"]
        /\ cleanup' = "popped"
        /\ UNCHANGED <<owners, failed>> /\ NoFault
     \/ /\ agent.state \in {"pending", "exhausted"}
        /\ owners' = [owners EXCEPT ![1] = TRUE] /\ failed' = TRUE
        /\ cleanup' = "erring"
        /\ UNCHANGED agent /\ NoFault
     \/ /\ agent.state = "active" /\ Fault
        /\ owners' = [owners EXCEPT ![1] = TRUE] /\ failed' = TRUE
        /\ cleanup' = "erring"
        /\ \/ UNCHANGED agent
           \/ agent.op < MaxOps /\ agent' = [state |-> "pending", op |-> agent.op + 1]
     \/ /\ Fault
        /\ cleanup' = "panicked"
        /\ UNCHANGED <<owners, failed, agent>>
  /\ UNCHANGED <<TaskVars, conn>>

\* Mutant: a failed shutdown is recorded and not shown.
TaskErrorHidden ==
  /\ cleanup = "erring"
  /\ cleanup' = "err"
  /\ UNCHANGED <<TaskVars, conn, owners, failed, agent, faults>>

TaskError ==
  /\ cleanup = "erring"
  /\ MarkError("cleanup")
  /\ cleanup' = "err"
  /\ UNCHANGED <<TaskVars, dataPlane, owners, failed, agent, faults>>

\* The confirmed owner leaves the queue, and its own error, if it had one, is
\* then taken back under the lock of the state.
TaskPop ==
  /\ cleanup = "popped"
  /\ owners' = Tail(owners)
  /\ failed' = IF Len(owners) = 1 THEN FALSE ELSE failed
  /\ cleanup' = IF Head(owners) THEN "clearing" ELSE "spawned"
  /\ UNCHANGED <<TaskVars, conn, agent, faults>>

TaskClear ==
  /\ cleanup = "clearing"
  /\ IF error = "cleanup" THEN phase' = "Disconnected" /\ error' = None
                          ELSE UNCHANGED <<phase, error>>
  /\ cleanup' = "spawned"
  /\ UNCHANGED <<TaskVars, dataPlane, owners, failed, agent, faults>>

-----------------------------------------------------------------------------
(* run_windows_recovery_monitor *)

MonitorVars == <<lease, token, locals, own, dataPlane, agent, stopping, stopped,
                 budget, faults>>

\* The loop loads the stop flag, then creates its Notified future.
MonitorCheck ==
  /\ pc["monitor"] = "check"
  /\ Goto("monitor", IF stopping THEN "done" ELSE "arm")
  /\ UNCHANGED <<MonitorVars, mutation, phase, error, intents, seen>>

MonitorArm ==
  /\ pc["monitor"] = "arm"
  /\ woken' = FALSE
  /\ Goto("monitor", "read")
  /\ UNCHANGED <<MonitorVars, mutation, phase, error, rec, expired, seen>>

MonitorRead ==
  /\ pc["monitor"] = "read"
  /\ watch' = rec.pending
  /\ IF rec.pending # None /\ expired
     THEN mutation' = Append(mutation, "monitor") /\ Goto("monitor", "finish")
     ELSE /\ Goto("monitor", IF rec.pending = None THEN "idle" ELSE "sleep")
          /\ UNCHANGED mutation
  /\ UNCHANGED <<MonitorVars, phase, error, intents, obs>>

\* A notification restarts the loop; the poll interval leads to a second look
\* at the stop flag and a second future.
MonitorWake ==
  /\ pc["monitor"] \in {"idle", "sleep", "observe"}
  /\ woken
  /\ Goto("monitor", "check")
  /\ UNCHANGED <<MonitorVars, mutation, phase, error, intents, seen>>

MonitorPoll ==
  /\ \/ /\ pc["monitor"] = "sleep" /\ ~woken
        /\ Goto("monitor", "poll")
        /\ UNCHANGED woken
     \/ /\ pc["monitor"] = "poll"
        /\ Goto("monitor", IF stopping THEN "done" ELSE "observe")
        /\ woken' = FALSE
  /\ UNCHANGED <<MonitorVars, mutation, phase, error, rec, expired, seen>>

\* The observation the monitor acts on later: a clean Agent reconnects if the
\* watch may, a transaction still recovering is observed again, the Agent may
\* be away, and everything else ends the watch with an error.
MonitorObserve ==
  /\ pc["monitor"] = "observe" /\ ~woken
  /\ LET again == agent.state = "pending" /\ agent.op = watch.op
     IN \/ /\ again
           /\ Goto("monitor", "check")
           /\ UNCHANGED mutation /\ NoFault
        \/ /\ ~again
           /\ mutation' = Append(mutation, "monitor")
           /\ Goto("monitor", IF agent.state = "clean" /\ watch.reconnect
                              THEN "reconnect" ELSE "finish")
           /\ NoFault
        \/ /\ Fault
           /\ Goto("monitor", "check")
           /\ UNCHANGED mutation
  /\ UNCHANGED <<lease, token, locals, own, conn, agent, stopping, stopped, budget,
                 intents, seen>>

\* Mutant: the verdict is published without a second look at the watch.
MonitorFinishStale ==
  /\ pc["monitor"] = "finish" /\ Holds("monitor")
  /\ rec' = [rec EXCEPT !.pending = None]
  /\ MarkError("other")
  /\ mutation' = Tail(mutation)
  /\ Goto("monitor", "check")
  /\ UNCHANGED <<MonitorVars, woken, expired, seen>>

\* finish_windows_recovery_with_error, if the watch is still current.
MonitorFinish ==
  /\ pc["monitor"] = "finish" /\ Holds("monitor")
  /\ IF Current(watch)
     THEN /\ rec' = [rec EXCEPT !.pending = None]
          /\ MarkError("other")
     ELSE UNCHANGED <<rec, phase, error>>
  /\ mutation' = Tail(mutation)
  /\ Goto("monitor", "check")
  /\ UNCHANGED <<MonitorVars, woken, expired, seen>>

\* reconnect_after_windows_recovery spends the intent's only reconnect.
MonitorReconnect ==
  /\ pc["monitor"] = "reconnect" /\ Holds("monitor")
  /\ IF Current(watch) /\ rec.intent # None /\ rec.intent.gen = watch.gen
        /\ ~rec.intent.attempted
     THEN /\ rec' = [rec EXCEPT !.intent.attempted = TRUE]
          /\ target' = [target EXCEPT !["monitor"] = rec.intent.profile]
          /\ Goto("monitor", "down")
          /\ UNCHANGED mutation
     ELSE /\ mutation' = Tail(mutation)
          /\ Goto("monitor", "check")
          /\ UNCHANGED <<rec, target>>
  /\ UNCHANGED <<lease, token, call, mine, myIntent, retry, conn, own, agent,
                 stopping, stopped, budget, faults, woken, expired, seen>>

\* It waits for the cleanup and checks its watch and intent again.
MonitorCollect ==
  /\ pc["monitor"] = "collect" /\ Holds("monitor")
  /\ Collect
  /\ \/ /\ Unconfirmed
        /\ rec' = [rec EXCEPT !.pending = None]
        /\ MarkError("cleanup")
        /\ mutation' = Tail(mutation)
        /\ Goto("monitor", "check")
     \/ /\ ~Unconfirmed
        /\ Current(watch) /\ rec.intent # None /\ rec.intent.gen = watch.gen
        /\ rec' = [rec EXCEPT !.pending = None]
        /\ Goto("monitor", "clone")
        /\ UNCHANGED <<mutation, phase, error>>
     \/ /\ ~Unconfirmed
        /\ ~(Current(watch) /\ rec.intent # None /\ rec.intent.gen = watch.gen)
        /\ mutation' = Tail(mutation)
        /\ Goto("monitor", "check")
        /\ UNCHANGED <<rec, phase, error>>
  /\ UNCHANGED <<lease, token, locals, dataPlane, agent, stopping, stopped, budget,
                 faults, woken, expired, seen>>

\* connect_locked clones the startup token of the moment, cancelled or not.
MonitorClone ==
  /\ pc["monitor"] = "clone" /\ Holds("monitor")
  /\ mine' = [mine EXCEPT !["monitor"] = token.id]
  /\ Goto("monitor", "await")
  /\ UNCHANGED <<lease, token, call, target, myIntent, retry, conn, own, agent,
                 stopping, stopped, budget, faults, mutation, intents, seen>>

-----------------------------------------------------------------------------
(* The Agent and the clock *)

AgentRecovers ==
  /\ agent.state = "pending"
  /\ \E s \in {"clean", "exhausted"} : agent' = [agent EXCEPT !.state = s]
  /\ UNCHANGED <<lease, token, mutation, pc, locals, conn, own, intents, seen,
                 stopping, stopped, budget, faults>>

Expire ==
  /\ rec.pending # None /\ ~expired
  /\ expired' = TRUE
  /\ UNCHANGED <<lease, token, mutation, pc, locals, conn, own, rec, woken, agent,
                 seen, stopping, stopped, budget, faults>>

-----------------------------------------------------------------------------

Attempt(p) ==
  \/ AwaitCleanup(p) \/ Prepare(p) \/ Preflight(p) \/ Inspect(p)
  \/ Start(p) \/ Started(p)

Disconnecting(p) == Down(p) \/ DownFlag(p) \/ Leave(p) \/ QueueRuntime(p) \/ Ended(p)

UserStep == UserLocked \/ Attempt("user") \/ Disconnecting("user") \/ Reply

StopStep ==
  \/ StopClear \/ StopJobs \/ StopLocked \/ Refused \/ Disconnecting("stop")
  \/ RetryCleanup \/ ExitCollect \/ Halt \/ Exit

MonitorStep ==
  \/ MonitorCheck \/ MonitorArm \/ MonitorRead \/ MonitorWake \/ MonitorPoll
  \/ MonitorObserve \/ MonitorFinish \/ MonitorReconnect
  \/ Disconnecting("monitor") \/ MonitorCollect \/ MonitorClone
  \/ Attempt("monitor")

TaskStep == TaskNext \/ TaskShutdown \/ TaskError \/ TaskPop \/ TaskClear

\* Once the process has exited nothing more happens.
Next ==
  /\ pc["stop"] # "exited"
  /\ \/ \E k \in {"connect", "retry"}, profile \in Profiles : Request(k, profile)
     \/ \E k \in {"disconnect", "exit"} : Stop(k)
     \/ UserStep \/ StopStep \/ MonitorStep \/ TaskStep
     \/ AgentRecovers \/ Expire

Spec == Init /\ [][Next]_vars

-----------------------------------------------------------------------------
(* Properties *)

\* No session is live while an earlier runtime's platform cleanup is
\* unconfirmed: consuming a cleanup error, or cancelling the wait for it, never
\* lets Connect, Retry or the automatic reconnect pass the retained owner.
NoBypass == dataPlane # None => owners = <<>>

\* A platform transaction the Engine opened always has an owner in the Engine:
\* the data plane, the owner queue, or the handler about to hand it to one.
OwnedUntilClean ==
  agent.state = "active" =>
    \/ dataPlane # None \/ owners # <<>>
    \/ \E p \in Procs : pc[p] \in {"started", "queue"}

\* Every runtime whose cleanup is not confirmed has an owner, and nothing new
\* starts beside it.
OwnersAreKept == NoBypass /\ OwnedUntilClean

\* While a failed shutdown is retained and nobody retries it, the Engine shows
\* an error: no request leaves the session presented as cleanly disconnected,
\* unless a Disconnect or exit that has not completed cancelled it midway.
\* (A panic of the task is known only once somebody awaits it.)
CleanupVisible ==
  (/\ owners # <<>> /\ Head(owners) /\ mutation = <<>>
   /\ token.cancelled => stopped
   /\ cleanup \notin Running \cup {"panicked"})
    => phase = "Error"

\* A completed Disconnect leaves no live session and no watch that would start
\* one, whatever the monitor was doing when it came; and from then until the
\* next request no late verdict or reconnect of the monitor changes what is
\* shown: only the cleanup task may.
StoppedIsFinal ==
  [][stopped' =>
       /\ dataPlane' = None /\ rec'.pending = None
       /\ stopped => /\ rec' = rec
                     /\ phase' # phase => cleanup \in {"erring", "clearing"}]_vars

\* Every state transition a handler makes with `?` is one the state machine
\* allows, whatever the cleanup task and the monitor reported before it, with
\* two exceptions that leave nothing undone: a teardown that the cleanup task
\* overtook, so that no runtime is left to take down, and a Connect after a
\* cancelled HTTP/2 start that asks for HTTP/3, before anything was started.
LegalTransitions ==
  /\ \A p \in Procs : Holds(p) =>
       /\ pc[p] = "body" /\ dataPlane = None =>
            phase \in Connecting \cup {"Preparing"} \/ CanTransition(phase, "Preparing")
       /\ pc[p] \in {"inspect", "start"} => CanTransition(phase, "Reconnecting")
       /\ pc[p] = "inspect" =>
            \/ \A t \in Connecting : phase = t \/ CanTransition(phase, t)
            \/ phase = "ConnectingHttp2" /\ owners = <<>> /\ dataPlane = None
       /\ pc[p] = "started" => CanTransition(phase, "Connected")
       /\ pc[p] = "leave" =>
            \/ phase = "Disconnecting" \/ CanTransition(phase, "Disconnecting")
            \/ phase = "Disconnected" /\ owners = <<>> /\ dataPlane = None
       /\ pc[p] = "ended" => CanTransition(phase, "Disconnected")
  /\ cleanup = "clearing" /\ error = "cleanup" => CanTransition(phase, "Disconnecting")

=============================================================================
