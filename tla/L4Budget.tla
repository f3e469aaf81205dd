------------------------------- MODULE L4Budget -------------------------------
(***************************************************************************)
(* The byte budget of the L4 data plane (crates/usque-transport/src/l4):   *)
(* BufferBudget with its leases (stream.rs), ReceivePool which keeps        *)
(* returned receive buffers with their leases (pool.rs), and BudgetWaiter  *)
(* which tells a task that capacity came back (budget_wait.rs).  There is  *)
(* no lock around the three: every atomic operation is a step of its own.  *)
(* The read-modify-write operations that the wake-ups rest on are taken as *)
(* sequentially consistent.                                                *)
(***************************************************************************)
EXTENDS Integers, FiniteSets, FiniteSetsExt

CONSTANTS
    Readers,      \* the session actor: ReceivePool::take, one block
    Writers,      \* L4Stream::poll_write: BufferBudget::copy
    Admitters,    \* reserve_admission: keeps progress_headroom free
    Droppers,     \* threads that drop a buffer or a lease
    WriteUnits,   \* blocks that one write takes
    AdmitUnits,   \* blocks that one admission takes
    Headroom,     \* progress_headroom
    Total,        \* blocks of the budget
    IdleCap,      \* IDLE_BYTES / BLOCK
    Hold          \* how many leases one consumer holds at most (bound)

ASSUME BudgetAssumption ==
    {WriteUnits, AdmitUnits, Headroom, Total, IdleCap, Hold} \subseteq Nat \ {0}

Consumers == Readers \union Writers \union Admitters
Closer == "closer"
Threads == Consumers \union Droppers \union {Closer}

\* Every task has one role.
ASSUME ThreadAssumption ==
    /\ IsFiniteSet(Threads)
    /\ Readers \cap Writers = {} /\ Readers \cap Admitters = {} /\ Writers \cap Admitters = {}
    /\ Consumers \cap Droppers = {} /\ Closer \notin Consumers \union Droppers

VARIABLES
    available,    \* available permits of the semaphore
    idle,         \* allocations in the pool's queue
    idleBytes,    \* receive_pool_idle_bytes, in blocks
    closed,       \* of the pool
    held,         \* held[c]: leases of a consumer that nobody dropped yet
    waiters,      \* waiter_count
    armed,        \* consumers whose BudgetWaiter is armed
    woken,        \* consumers that were woken
    at,           \* at[t]: the next step of a thread
    second,       \* consumers that are at their second attempt
    back          \* threads that go back to trim after they have notified

budget == <<available, idle, idleBytes, closed, held, waiters, armed, woken, at, second, back>>
pool == <<idle, idleBytes, closed>>
wake == <<waiters, armed, woken>>

Units(c) == IF c \in Readers THEN 1 ELSE IF c \in Writers THEN WriteUnits ELSE AdmitUnits
Ask(c) == IF c \in Admitters THEN Units(c) + Headroom ELSE Units(c)

InitBudget ==
    /\ available = Total /\ idle = 0 /\ idleBytes = 0 /\ closed = FALSE
    /\ held = [c \in Consumers |-> 0]
    /\ waiters = 0 /\ armed = {} /\ woken = {}
    /\ at = [t \in Threads |-> "idle"]
    /\ second = {} /\ back = {}

Goto(t, l) == at' = [at EXCEPT ![t] = l]

\* BudgetWaiter::disarm: the count goes down only for a waiter that was armed.
Disarm(cs) ==
    /\ armed' = armed \ cs
    /\ waiters' = waiters - Cardinality(armed \cap cs)

(***************************************************************************)
(* A consumer: try, register the interest, try again.                      *)
(***************************************************************************)
\* The actor and the client disarm when they are polled; a writer does not.
Poll(c) ==
    /\ \/ at[c] = "idle" /\ held[c] < Hold
       \/ at[c] = "pending" /\ c \in woken
    /\ Goto(c, "try")
    /\ second' = second \ {c}
    /\ woken' = woken \ {c}
    /\ Disarm({c} \ Writers)
    /\ UNCHANGED <<available, pool, held, back>>

Missed(c) == Goto(c, IF c \in second THEN "pending" ELSE "arm")

Got(c) ==
    /\ held' = [held EXCEPT ![c] = @ + 1]
    /\ Goto(c, IF c \in Admitters THEN "split"
               ELSE IF c \in Writers \union second THEN "disarm" ELSE "idle")

\* ReceivePool::take looks at the closed pool, then into its queue.
Try(c) ==
    /\ at[c] = "try"
    /\ IF c \in Readers /\ closed THEN Missed(c) /\ UNCHANGED <<idle, idleBytes, held>>
       ELSE IF c \in Readers /\ idle > 0
       THEN idle' = idle - 1 /\ idleBytes' = idleBytes - 1 /\ Got(c)
       ELSE Goto(c, "reserve") /\ UNCHANGED <<idle, idleBytes, held>>
    /\ UNCHANGED <<available, closed, wake, second, back>>

\* reserve_with_headroom: all permits at once, or the pool is trimmed first.
Reserve(c) ==
    /\ at[c] = "reserve"
    /\ IF available >= Ask(c) THEN available' = available - Ask(c) /\ Got(c)
       ELSE Goto(c, "trim") /\ UNCHANGED <<available, held>>
    /\ UNCHANGED <<pool, wake, second, back>>

ReserveAgain(c) ==
    /\ at[c] = "again"
    /\ IF available >= Ask(c) THEN available' = available - Ask(c) /\ Got(c)
       ELSE Missed(c) /\ UNCHANGED <<available, held>>
    /\ UNCHANGED <<pool, wake, second, back>>

\* The margin was only tested: it goes back to the semaphore.
Split(c) ==
    /\ at[c] = "split"
    /\ available' = available + Headroom
    /\ Goto(c, IF c \in second THEN "disarm" ELSE "idle")
    /\ UNCHANGED <<pool, held, wake, second, back>>

DisarmGot(c) ==
    /\ at[c] = "disarm"
    /\ Disarm({c})
    /\ Goto(c, "idle")
    /\ UNCHANGED <<available, pool, held, woken, second, back>>

\* Mutant: the flag is set before the count goes up.
ArmFlagFirst(c) ==
    /\ \/ /\ at[c] = "arm"
          /\ armed' = armed \union {c}
          /\ Goto(c, IF c \in armed THEN "try" ELSE "armed")
          /\ second' = IF c \in armed THEN second \union {c} ELSE second
          /\ UNCHANGED waiters
       \/ /\ at[c] = "armed"
          /\ waiters' = waiters + 1
          /\ second' = second \union {c}
          /\ Goto(c, "try")
          /\ UNCHANGED armed
    /\ UNCHANGED <<available, pool, held, woken, back>>

\* BudgetWaiter::arm: the count goes up first, and down again if it was armed.
Arm(c) ==
    /\ \/ /\ at[c] = "arm"
          /\ waiters' = waiters + 1
          /\ Goto(c, "armed")
          /\ UNCHANGED <<armed, second>>
       \/ /\ at[c] = "armed"
          /\ armed' = armed \union {c}
          /\ waiters' = IF c \in armed THEN waiters - 1 ELSE waiters
          /\ second' = second \union {c}
          /\ Goto(c, "try")
    /\ UNCHANGED <<available, pool, held, woken, back>>

(***************************************************************************)
(* Leases and buffers come back.                                           *)
(***************************************************************************)
\* BufferLease::drop: the permits first, then whoever waits for them.
Release(t, n) == available' = available + n /\ Goto(t, "notify")

\* Mutant: one release wakes one waiter, whatever that waiter asks for.
NotifyFirstOnly(t) ==
    /\ at[t] = "notify"
    /\ IF waiters = 0 \/ armed = {} THEN UNCHANGED wake
       ELSE LET c == CHOOSE c \in armed : TRUE
            IN  Disarm({c}) /\ woken' = woken \union {c}
    /\ Goto(t, IF t \in back THEN "trim" ELSE IF t = Closer THEN "done" ELSE "idle")
    /\ back' = back \ {t}
    /\ UNCHANGED <<available, pool, held, second>>

\* notify_capacity wakes every armed waiter, unless the count is zero.
Notify(t) ==
    /\ at[t] = "notify"
    /\ IF waiters = 0 THEN UNCHANGED wake
       ELSE Disarm(Consumers) /\ woken' = woken \union armed
    /\ Goto(t, IF t \in back THEN "trim" ELSE IF t = Closer THEN "done" ELSE "idle")
    /\ back' = back \ {t}
    /\ UNCHANGED <<available, pool, held, second>>

Drop(t, c) ==
    /\ at[t] = "idle" /\ held[c] > 0
    /\ held' = [held EXCEPT ![c] = @ - 1]
    /\ IF c \in Readers THEN Goto(t, "recycle") /\ UNCHANGED available
       ELSE Release(t, Units(c))
    /\ UNCHANGED <<pool, wake, second, back>>

\* Mutant: the counter follows the buffer.
RecycleCountsLate(t) ==
    /\ at[t] = "recycle"
    /\ IF closed THEN Release(t, 1) /\ UNCHANGED pool
       ELSE Goto(t, "send") /\ UNCHANGED <<pool, available>>
    /\ UNCHANGED <<held, wake, second, back>>

\* recycle: a closed pool takes nothing.  The counter goes up before the queue.
Recycle(t) ==
    /\ at[t] = "recycle"
    /\ IF closed THEN Release(t, 1) /\ UNCHANGED pool
       ELSE idleBytes' = idleBytes + 1 /\ Goto(t, "send") /\ UNCHANGED <<idle, closed, available>>
    /\ UNCHANGED <<held, wake, second, back>>

Send(t) ==
    /\ at[t] = "send"
    /\ IF idle < IdleCap
       THEN idle' = idle + 1 /\ Goto(t, "check") /\ UNCHANGED <<idleBytes, available>>
       ELSE idleBytes' = idleBytes - 1 /\ Release(t, 1) /\ UNCHANGED idle
    /\ UNCHANGED <<closed, held, wake, second, back>>

\* Mutant: nobody looks whether the pool was closed in the meantime.
CheckNothing(t) ==
    /\ at[t] = "check"
    /\ Goto(t, "notify")
    /\ UNCHANGED <<available, pool, held, wake, second, back>>

\* Closing may race with returning a buffer.
Check(t) ==
    /\ at[t] = "check"
    /\ Goto(t, IF closed THEN "trim" ELSE "notify")
    /\ UNCHANGED <<available, pool, held, wake, second, back>>

\* trim: one buffer of the queue after the other is dropped.
Trim(t) ==
    /\ at[t] = "trim"
    /\ IF idle > 0
       THEN /\ idle' = idle - 1 /\ idleBytes' = idleBytes - 1
            /\ Release(t, 1)
            /\ back' = back \union {t}
       ELSE /\ Goto(t, IF t \in Consumers THEN "again" ELSE IF t = Closer THEN "done" ELSE "notify")
            /\ UNCHANGED <<idle, idleBytes, available, back>>
    /\ UNCHANGED <<closed, held, wake, second>>

\* ReceivePool::close
Close ==
    /\ at[Closer] = "idle"
    /\ closed' = TRUE
    /\ Goto(Closer, "trim")
    /\ UNCHANGED <<available, idle, idleBytes, held, wake, second, back>>

Consume(c) ==
    Poll(c) \/ Try(c) \/ Reserve(c) \/ ReserveAgain(c) \/ Split(c) \/ DisarmGot(c) \/ Arm(c)

NextBudget ==
    \/ \E c \in Consumers : Consume(c)
    \/ \E t \in Droppers : (\E c \in Consumers : Drop(t, c)) \/ Recycle(t) \/ Send(t) \/ Check(t)
    \/ \E t \in Threads : Notify(t) \/ Trim(t)
    \/ Close

SpecBudget == InitBudget /\ [][NextBudget]_budget

(***************************************************************************)
(* Properties.                                                             *)
(***************************************************************************)
Quiet == \A t \in Threads : at[t] \in {"idle", "pending", "done"}

\* "caching cannot hide resident buffers": when nothing is under way every block
\* of the budget is free, in the pool or in a lease, the counters agree, and a
\* closed pool holds none, however the close raced with buffers that came back.
\* The counters are unsigned: at no moment does one pass below zero.
BudgetIsAccounted ==
    /\ available >= 0 /\ idleBytes >= 0 /\ waiters >= 0
    /\ Quiet =>
         /\ available + idle + MapThenSumSet(LAMBDA c : Units(c) * held[c], Consumers)
                = Total
         /\ idleBytes = idle
         /\ waiters = Cardinality(armed)
         /\ closed => idle = 0

\* "Register before retrying capacity": no task sleeps on capacity that is there.
\* When nothing is under way, a consumer that waits and was not woken could not
\* be served, not even by trimming the pool.  The margin is an exception: an
\* admission takes it for a moment and gives it back without a wake-up.
NobodySleepsOnCapacity ==
    Quiet =>
        \A c \in Consumers :
            (at[c] = "pending" /\ c \notin woken /\ ~(c \in Readers /\ closed))
                => available + idle < Ask(c) + Cardinality(Admitters \ {c}) * Headroom
=============================================================================
