---------------------------- MODULE MasqueConnect ----------------------------
(***************************************************************************)
(* The races of one connection (crates/usque-transport/src/netstack.rs,    *)
(* l4/client.rs).  The profile decides once which race is run: a tunnel    *)
(* with automatic endpoints runs race_automatic, presets race batches under *)
(* the strict policy, and the L4 client with automatic endpoints races one *)
(* batch under the automatic policy.                                       *)
(***************************************************************************)
EXTENDS AutomaticRace

CONSTANTS
    Candidates,   \* the targets of one batch
    Preferred     \* those without a delay

ASSUME BatchAssumption ==
    Preferred \subseteq Candidates /\ "no one" \notin Candidates

VARIABLES
    mode,         \* automatic, strict or generation: the race of this connection
    b_task, b_result, b_open, b_tokens, b_cancelled, b_phase, b_winner, b_failure,
    b_terminal, b_outcome, b_caller, b_moved    \* the variables of a batch

batch == <<b_task, b_result, b_open, b_tokens, b_cancelled, b_phase, b_winner, b_failure,
           b_terminal, b_outcome, b_caller, b_moved>>
all == <<mode, vars, batch>>

\* A batch with a deadline that stops at a rejected pin, and one whose caller
\* looks at the generation of the network.
Strict == INSTANCE EndpointRace WITH Policy <- "Strict", HasDeadline <- TRUE,
    task <- b_task, result <- b_result, open <- b_open, tokens <- b_tokens,
    cancelled <- b_cancelled, phase <- b_phase, winner <- b_winner,
    failure <- b_failure, terminal <- b_terminal, outcome <- b_outcome,
    caller <- b_caller, moved <- b_moved
Generation == INSTANCE EndpointRace WITH Policy <- "Automatic", HasDeadline <- FALSE,
    task <- b_task, result <- b_result, open <- b_open, tokens <- b_tokens,
    cancelled <- b_cancelled, phase <- b_phase, winner <- b_winner,
    failure <- b_failure, terminal <- b_terminal, outcome <- b_outcome,
    caller <- b_caller, moved <- b_moved

InitConnect ==
    /\ mode \in {"automatic", "strict", "generation"}
    /\ Init /\ Strict!Init

NextConnect ==
    \/ mode = "automatic" /\ Next /\ UNCHANGED <<mode, batch>>
    \/ mode = "strict" /\ Strict!Next /\ UNCHANGED <<mode, vars>>
    \/ mode = "generation" /\ Generation!Next /\ UNCHANGED <<mode, vars>>

\* Scheduled tasks run, timers fire, and a handshake ends by its time limit.
\* The semaphore is fair, so that a task which waits for a permit gets one, and
\* a JoinSet hands out its tasks in the order in which they ended.
FairAutomatic ==
    /\ WF_vars(mode = "automatic" /\ Owner)
    /\ WF_vars(mode = "automatic" /\ H2Starts) /\ WF_vars(mode = "automatic" /\ RestartDue)
    /\ \A i \in Ids :
         /\ WF_vars(mode = "automatic" /\ Task(i))
         /\ SF_vars(mode = "automatic" /\ AcquireSlot(i))
         /\ SF_vars(mode = "automatic" /\ JoinTask(i))

FairBatch ==
    /\ WF_batch(mode = "strict" /\ Strict!Owner)
    /\ WF_batch(mode = "generation" /\ Generation!Owner)
    /\ \A c \in Candidates : WF_batch(mode # "automatic" /\ Strict!Task(c))

SpecConnect == InitConnect /\ [][NextConnect]_all /\ FairAutomatic /\ FairBatch

-----------------------------------------------------------------------------
\* "child protocol drivers and exact socket leases have stopped before another
\* batch begins": a caller that has its result has no connection but the winner
\* (EndpointRace), and at every moment an open socket has its permit
\* (AutomaticRace).
SocketsAreOwned == Strict!OnlyTheWinnerLives /\ SocketsHoldPermits

\* The worst failure of a batch or a rejected pin of the automatic race is never
\* hidden, not even when it arrives while the losers are being joined: see
\* EndpointRace and AutomaticRace.
WorstFailureReported ==
    /\ EvidenceIsKept
    /\ mode = "strict" => Strict!WorstFailureReported
    /\ mode = "generation" => Generation!WorstFailureReported

\* Whichever race is run, it ends for a caller that waits, and when the caller
\* is gone neither a connection nor a task is left behind: H3 starts again only
\* while H2 has candidates, and the owner of a race outlives its caller.
ConnectEnds ==
    /\ <>(caller # "waiting" \/ b_caller # "waiting")
    /\ (caller = "dropped") ~> (phase = "done" /\ open = {})
    /\ (b_caller = "dropped") ~> (b_open = {} /\ Strict!Joined = Candidates)
=============================================================================
