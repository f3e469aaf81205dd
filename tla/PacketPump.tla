------------------------------ MODULE PacketPump ------------------------------
(***************************************************************************)
(* The packet session between the Agent and the Engine on Windows.  Each   *)
(* direction of the shared ring is a bounded FIFO (see PacketRing) with an  *)
(* auto-reset event that tells its consumer to look.  The Agent has one    *)
(* thread for both directions and the Wintun device (packet_session.rs);   *)
(* the Engine has a blocking waiter that turns the event into a token of a *)
(* channel of one place, and an async pump that never holds more than one  *)
(* packet of each direction (windows_agent/packet_pump.rs).                *)
(***************************************************************************)
EXTENDS Naturals, Sequences

CONSTANTS
    DownCap,      \* packets that the Engine-to-Agent ring holds
    UpCap,        \* packets that the Agent-to-Engine ring holds
    DeviceCap,    \* packets that wait in the Wintun device
    AgentBatch,   \* PACKET_WAKE_BATCH of the Agent    [64]
    EngineBatch   \* PACKET_WAKE_BATCH of the Engine   [64]

ASSUME PumpAssumption ==
    {DownCap, UpCap, DeviceCap, AgentBatch, EngineBatch} \subseteq Nat \ {0}

VARIABLES
    down,         \* the Engine-to-Agent ring; a packet from the tunnel is the
                  \* number of those before it that the Agent has yet to take
    up,           \* how many packets the Agent-to-Engine ring holds
    downEvent, upEvent,   \* auto-reset events of the two directions
    shutdown,     \* the manual-reset event, shared by both processes
    device, deviceEvent,  \* packets in the Wintun device, its wait event
    agent,        \* the Agent's thread: at, drained packets, published
    waiter,       \* the Engine's blocking waiter
    token,        \* the channel of one place holds a token
    pump,         \* the Engine's pump: at, readable, upload, batch, then
    pending,      \* download: the packet to publish
    due,          \* publish_after has passed
    next,         \* the number of the next packet from the tunnel
    cancelled,    \* the CancellationToken of the pumps
    tasks         \* the runtime's view: running, stopping or joined

vars == <<down, up, downEvent, upEvent, shutdown, device, deviceEvent, agent,
          waiter, token, pump, pending, due, next, cancelled, tasks>>
agentVars == <<device, deviceEvent, agent>>
pumpVars == <<pump, pending, due, next>>

None == DownCap + 2

Idle(at) ==
    [at |-> at, readable |-> FALSE, upload |-> FALSE, batch |-> 0, then |-> "select"]

Init ==
    /\ down = <<>> /\ up = 0
    /\ downEvent = FALSE /\ upEvent = FALSE /\ shutdown = FALSE
    /\ device = 0 /\ deviceEvent = FALSE
    /\ agent = [at |-> "wait", drained |-> 0, published |-> FALSE]
    /\ waiter = "wait" /\ token = FALSE
    /\ pump = Idle("top")
    /\ pending = None /\ due = FALSE /\ next = 0
    /\ cancelled = FALSE /\ tasks = "running"

(***************************************************************************)
(* The Agent's thread.                                                     *)
(***************************************************************************)
\* The device (external): its event is set with every packet.
DeviceReceives ==
    /\ device < DeviceCap
    /\ device' = device + 1
    /\ deviceEvent' = TRUE
    /\ UNCHANGED <<down, up, downEvent, upEvent, shutdown, agent, waiter, token,
                   pumpVars, cancelled, tasks>>

\* WaitForMultipleObjects returns the first event of the list that is set.
AgentWait ==
    /\ agent.at = "wait"
    /\ \/ /\ shutdown
          /\ agent' = [agent EXCEPT !.at = "ended"]
          /\ UNCHANGED <<downEvent, deviceEvent>>
       \/ /\ ~shutdown /\ downEvent
          /\ downEvent' = FALSE
          /\ agent' = [agent EXCEPT !.at = "ring"]
          /\ UNCHANGED deviceEvent
       \/ /\ ~shutdown /\ ~downEvent /\ deviceEvent
          /\ deviceEvent' = FALSE
          /\ agent' = [agent EXCEPT !.at = "device"]
          /\ UNCHANGED downEvent
    /\ UNCHANGED <<down, up, upEvent, shutdown, device, waiter, token, pumpVars,
                   cancelled, tasks>>

\* The Agent takes the oldest packet: one less before every other one.
Take ==
    /\ down' = [i \in 1 .. Len(down) - 1 |-> down[i + 1] - 1]
    /\ pending' = IF pending = None THEN None ELSE pending - 1
    /\ next' = next - 1

\* A packet is taken from the ring; after a full batch the shutdown event is
\* looked at.  A device that is full drops the packet, another failure of the
\* device (~sent) ends the thread.
AgentRing(sent) ==
    /\ agent.at = "ring"
    /\ IF down = <<>>
       THEN /\ agent' = [agent EXCEPT !.at = "wait", !.drained = 0]
            /\ UNCHANGED <<down, pending, next>>
       ELSE /\ Take
            /\ agent' = [agent EXCEPT
                   !.at = IF (agent.drained = AgentBatch /\ shutdown) \/ ~sent
                          THEN "ended" ELSE "ring",
                   !.drained = IF agent.drained = AgentBatch THEN 1 ELSE @ + 1]
    /\ UNCHANGED <<up, downEvent, upEvent, shutdown, device, deviceEvent, waiter, token,
                   pump, due, cancelled, tasks>>

\* drain_wintun_packets: a packet for which the ring has no room is dropped.  A
\* batch is full after AgentBatch packets, or after some number of bytes (full).
AgentDevice(full) ==
    /\ agent.at = "device"
    /\ device > 0
    /\ device' = device - 1
    /\ up' = IF up < UpCap THEN up + 1 ELSE up
    /\ agent' = [agent EXCEPT !.at = IF full \/ agent.drained + 1 = AgentBatch
                                     THEN "batch" ELSE "device",
                              !.drained = @ + 1,
                              !.published = @ \/ up < UpCap]
    /\ UNCHANGED <<down, downEvent, upEvent, shutdown, deviceEvent, waiter, token,
                   pumpVars, cancelled, tasks>>

\* The device is empty, or it fails: what was published is signalled first.
AgentDeviceEnd(failed) ==
    /\ agent.at = "device"
    /\ failed \/ device = 0
    /\ agent' = [agent EXCEPT !.at = IF failed THEN "failing" ELSE "signal"]
    /\ UNCHANGED <<down, up, downEvent, upEvent, shutdown, device, deviceEvent,
                   waiter, token, pumpVars, cancelled, tasks>>

\* signal_agent_packets: once for a batch, and only if something was published.
AgentSignal ==
    /\ agent.at \in {"batch", "signal", "failing"}
    /\ upEvent' = (upEvent \/ agent.published)
    /\ agent' = [agent EXCEPT
           !.at = IF @ = "failing" THEN "ended" ELSE IF @ = "signal" THEN "wait"
                  ELSE IF shutdown THEN "signal" ELSE "device",
           !.drained = 0, !.published = FALSE]
    /\ UNCHANGED <<down, up, downEvent, shutdown, device, deviceEvent, waiter,
                   token, pumpVars, cancelled, tasks>>

\* PacketPump::stop and drop: the Agent closes the session, or goes away.
AgentStops ==
    /\ ~shutdown
    /\ shutdown' = TRUE
    /\ UNCHANGED <<down, up, downEvent, upEvent, agentVars, waiter, token, pumpVars,
                   cancelled, tasks>>

(***************************************************************************)
(* The Engine's waiter.                                                    *)
(***************************************************************************)
WaiterWait ==
    /\ waiter = "wait"
    /\ \/ /\ shutdown
          /\ waiter' = "ended"
          /\ UNCHANGED upEvent
       \/ /\ ~shutdown /\ upEvent
          /\ upEvent' = FALSE
          /\ waiter' = "notify"
    /\ UNCHANGED <<down, up, downEvent, shutdown, agentVars, token, pumpVars, cancelled,
                   tasks>>

\* try_send: a full channel is as good; a channel without a receiver ends it.
WaiterNotify ==
    /\ waiter = "notify"
    /\ IF pump.at = "ended" THEN waiter' = "ended" /\ UNCHANGED token
       ELSE waiter' = "wait" /\ token' = TRUE
    /\ UNCHANGED <<down, up, downEvent, upEvent, shutdown, agentVars, pumpVars, cancelled,
                   tasks>>

(***************************************************************************)
(* The Engine's pump.                                                      *)
(***************************************************************************)
\* Dropping PumpContext sets the shutdown event, whatever ended the task.
EndPump ==
    /\ pump' = Idle("ended") /\ pending' = None /\ due' = FALSE
    /\ shutdown' = TRUE

\* report_pump_failure
Fail == EndPump /\ cancelled' = TRUE

\* Mutant: one token is taken for one packet.
PumpTopOnePerToken ==
    /\ pump.at = "top"
    /\ LET pop == ~pump.upload /\ pump.readable IN
       IF cancelled THEN EndPump /\ UNCHANGED up
       ELSE /\ pump' = [pump EXCEPT
                   !.at = IF pending # None /\ due THEN "publish" ELSE "select",
                   !.upload = @ \/ (pop /\ up > 0),
                   !.readable = @ /\ ~pop]
            /\ up' = IF pop /\ up > 0 THEN up - 1 ELSE up
            /\ UNCHANGED <<shutdown, pending, due>>
    /\ UNCHANGED <<down, downEvent, upEvent, agentVars, waiter, token, next, cancelled,
                   tasks>>

\* Mutant: uploads wait while a download is pending.
PumpTopOneWay ==
    /\ pump.at = "top"
    /\ LET pop == ~pump.upload /\ pump.readable /\ pending = None IN
       IF cancelled THEN EndPump /\ UNCHANGED up
       ELSE /\ pump' = [pump EXCEPT
                   !.at = IF pending # None /\ due THEN "publish" ELSE "select",
                   !.upload = @ \/ (pop /\ up > 0),
                   !.readable = @ /\ ~(pop /\ up = 0)]
            /\ up' = IF pop /\ up > 0 THEN up - 1 ELSE up
            /\ UNCHANGED <<shutdown, pending, due>>
    /\ UNCHANGED <<down, downEvent, upEvent, agentVars, waiter, token, next, cancelled,
                   tasks>>

\* The ring is read until it is empty, one packet for each upload that is done.
PumpTop ==
    /\ pump.at = "top"
    /\ LET pop == ~pump.upload /\ pump.readable IN
       IF cancelled THEN EndPump /\ UNCHANGED up
       ELSE /\ pump' = [pump EXCEPT
                   !.at = IF pending # None /\ due THEN "publish" ELSE "select",
                   !.upload = @ \/ (pop /\ up > 0),
                   !.readable = @ /\ ~(pop /\ up = 0)]
            /\ up' = IF pop /\ up > 0 THEN up - 1 ELSE up
            /\ UNCHANGED <<shutdown, pending, due>>
    /\ UNCHANGED <<down, downEvent, upEvent, agentVars, waiter, token, next, cancelled,
                   tasks>>

\* Mutant: a packet that finds the ring full is given up.
PublishDrops(more) ==
    /\ pump.at = "publish" /\ ~cancelled
    /\ IF Len(down) = DownCap
       THEN /\ pump' = [pump EXCEPT !.at = "signal", !.then = "blocked"]
            /\ pending' = None
            /\ UNCHANGED <<down, next>>
       ELSE /\ down' = Append(down, pending)
            /\ pump' = [pump EXCEPT !.batch = @ + 1,
                   !.at = IF more = "packet" /\ pump.batch + 1 < EngineBatch
                          THEN "publish" ELSE "signal",
                   !.then = IF more = "error" /\ pump.batch + 1 < EngineBatch
                            THEN "failed" ELSE "ready"]
            /\ IF more = "packet" /\ pump.batch + 1 < EngineBatch
               THEN pending' = next /\ next' = next + 1
               ELSE pending' = None /\ UNCHANGED next
    /\ UNCHANGED <<up, downEvent, upEvent, shutdown, agentVars, waiter, token, due,
                   cancelled, tasks>>

\* publish_engine_packet_batch: a packet goes into the ring, and the tunnel may
\* have more of them at hand, or fail; "full" is a batch that has enough bytes.
Publish(more) ==
    /\ pump.at = "publish" /\ ~cancelled
    /\ IF Len(down) = DownCap
       THEN /\ pump' = [pump EXCEPT !.at = "signal", !.then = "blocked"]
            /\ UNCHANGED <<down, pending, next>>
       ELSE /\ down' = Append(down, pending)
            /\ pump' = [pump EXCEPT !.batch = @ + 1,
                   !.at = IF more = "packet" /\ pump.batch + 1 < EngineBatch
                          THEN "publish" ELSE "signal",
                   !.then = IF more = "error" /\ pump.batch + 1 < EngineBatch
                            THEN "failed" ELSE "ready"]
            /\ IF more = "packet" /\ pump.batch + 1 < EngineBatch
               THEN pending' = next /\ next' = next + 1
               ELSE pending' = None /\ UNCHANGED next
    /\ UNCHANGED <<up, downEvent, upEvent, shutdown, agentVars, waiter, token, due,
                   cancelled, tasks>>

PublishCancelled ==
    /\ pump.at = "publish" /\ cancelled
    /\ pump' = [pump EXCEPT !.at = "signal", !.then = "cancelled"]
    /\ UNCHANGED <<down, up, downEvent, upEvent, shutdown, agentVars, waiter, token,
                   pending, due, next, cancelled, tasks>>

\* The published prefix is signalled whatever stopped the batch.
PublishSignal ==
    /\ pump.at = "signal"
    /\ downEvent' = (downEvent \/ pump.batch > 0)
    /\ \/ pump.then = "failed" /\ Fail
       \/ pump.then = "cancelled" /\ EndPump /\ UNCHANGED cancelled
       \/ /\ pump.then \notin {"failed", "cancelled"}
          /\ pump' = [pump EXCEPT !.at = "select", !.batch = 0, !.then = "select"]
          /\ due' = FALSE
          /\ UNCHANGED <<shutdown, cancelled, pending>>
    /\ UNCHANGED <<down, up, upEvent, agentVars, waiter, token, next, tasks>>

(***************************************************************************)
(* The select: cancellation first, the rest in no order.                   *)
(***************************************************************************)
SelectCancelled ==
    /\ pump.at = "select" /\ cancelled
    /\ EndPump
    /\ UNCHANGED <<down, up, downEvent, upEvent, agentVars, waiter, token, next, cancelled,
                   tasks>>

SelectReady ==
    /\ pump.at = "select" /\ ~cancelled
    /\ token
    /\ token' = FALSE
    /\ pump' = [pump EXCEPT !.at = "top", !.readable = TRUE]
    /\ UNCHANGED <<down, up, downEvent, upEvent, shutdown, agentVars, waiter, pending,
                   due, next, cancelled, tasks>>

\* Mutant: a closed channel is taken for a wake-up.
SelectClosedGoesOn ==
    /\ pump.at = "select" /\ ~cancelled
    /\ ~token /\ waiter = "ended"
    /\ pump' = [pump EXCEPT !.at = "top", !.readable = TRUE]
    /\ UNCHANGED <<down, up, downEvent, upEvent, shutdown, agentVars, waiter, token,
                   pending, due, next, cancelled, tasks>>

\* The waiter is gone: its end of the channel is closed.
SelectClosed ==
    /\ pump.at = "select" /\ ~cancelled
    /\ ~token /\ waiter = "ended"
    /\ Fail
    /\ UNCHANGED <<down, up, downEvent, upEvent, agentVars, waiter, token, next, tasks>>

\* The tunnel accepts the packet in its own time, or fails.
SelectSent(ok) ==
    /\ pump.at = "select" /\ ~cancelled
    /\ pump.upload
    /\ IF ok THEN pump' = [pump EXCEPT !.at = "top", !.upload = FALSE]
                  /\ UNCHANGED <<shutdown, cancelled, pending, due>>
       ELSE Fail
    /\ UNCHANGED <<down, up, downEvent, upEvent, agentVars, waiter, token, next, tasks>>

SelectReceived(ok) ==
    /\ pump.at = "select" /\ ~cancelled
    /\ pending = None
    /\ IF ok THEN /\ pump' = [pump EXCEPT !.at = "top"]
                  /\ pending' = next /\ next' = next + 1 /\ due' = TRUE
                  /\ UNCHANGED <<shutdown, cancelled>>
       ELSE Fail /\ UNCHANGED next
    /\ UNCHANGED <<down, up, downEvent, upEvent, agentVars, waiter, token, tasks>>

\* PACKET_RING_RETRY_INTERVAL is over.
SelectRetry ==
    /\ pump.at = "select" /\ ~cancelled
    /\ pending # None
    /\ due' = TRUE
    /\ pump' = [pump EXCEPT !.at = "top"]
    /\ UNCHANGED <<down, up, downEvent, upEvent, shutdown, agentVars, waiter, token,
                   pending, next, cancelled, tasks>>

(***************************************************************************)
(* The runtime that owns the two tasks.                                    *)
(***************************************************************************)
\* cancel_packet_pumps: an abort ends the pump where it awaits; the waiter has
\* to see the event.
CancelPumps ==
    /\ tasks = "running"
    /\ tasks' = "stopping"
    /\ cancelled' = TRUE
    /\ shutdown' = TRUE
    /\ IF pump.at = "select" THEN EndPump ELSE UNCHANGED <<pump, pending, due>>
    /\ UNCHANGED <<down, up, downEvent, upEvent, agentVars, waiter, token, next>>

\* start_agent_liveness_watch: the pipe to the Agent ended.
LivenessLost ==
    /\ ~cancelled
    /\ cancelled' = TRUE
    /\ shutdown' = TRUE
    /\ UNCHANGED <<down, up, downEvent, upEvent, agentVars, waiter, token, pumpVars, tasks>>

\* stop_tasks: the pump is joined before the waiter.
StopTasks ==
    /\ tasks = "stopping"
    /\ pump.at = "ended" /\ waiter = "ended"
    /\ tasks' = "joined"
    /\ UNCHANGED <<down, up, downEvent, upEvent, shutdown, agentVars, waiter, token,
                   pumpVars, cancelled>>

Agent ==
    \/ AgentWait \/ AgentSignal
    \/ \E sent \in BOOLEAN : AgentRing(sent)
    \/ \E b \in BOOLEAN : AgentDevice(b) \/ AgentDeviceEnd(b)

Waiter == WaiterWait \/ WaiterNotify

PumpWorks ==
    \/ PumpTop \/ PublishCancelled \/ PublishSignal \/ SelectCancelled
    \/ \E more \in {"packet", "none", "full", "error"} : Publish(more)

Finished ==
    /\ agent.at = "ended" /\ waiter = "ended" /\ pump.at = "ended" /\ tasks = "joined"
    /\ UNCHANGED vars

Next ==
    \/ DeviceReceives \/ AgentStops \/ LivenessLost \/ CancelPumps \/ StopTasks
    \/ Agent \/ Waiter \/ PumpWorks
    \/ SelectReady \/ SelectClosed \/ SelectRetry
    \/ \E ok \in BOOLEAN : SelectSent(ok) \/ SelectReceived(ok)
    \/ Finished

\* Threads and tasks run.  tokio's select polls its branches in random order,
\* so that a branch which is ready again and again is taken; the tunnel takes an
\* upload in the end (or fails).  Nothing obliges the tunnel to have a packet,
\* the device to receive one, or the two owners to stop.
Spec ==
    /\ Init /\ [][Next]_vars
    /\ WF_vars(Agent) /\ WF_vars(Waiter) /\ WF_vars(PumpWorks) /\ WF_vars(StopTasks)
    /\ SF_vars(SelectReady \/ SelectClosed) /\ SF_vars(SelectRetry)
    /\ SF_vars(\E ok \in BOOLEAN : SelectSent(ok))

(***************************************************************************)
(* Properties.                                                             *)
(***************************************************************************)
\* "The consumer drains until empty, so auto-reset event coalescing cannot
\* strand packets": while a session lives, a packet in a ring always has somebody
\* who is going to look: an event that is set, a producer about to set it, a
\* token under way, or a consumer that is still reading.
NobodyStranded ==
    ~shutdown =>
        /\ up > 0 /\ agent.at # "ended" =>
               \/ upEvent \/ waiter = "notify" \/ token \/ pump.readable
               \/ agent.published
        /\ down # <<>> /\ agent.at # "ended" =>
               downEvent \/ agent.at = "ring" \/ (pump.at \in {"publish", "signal"} /\ pump.batch > 0)
        /\ device > 0 /\ agent.at # "ended" =>
               deviceEvent \/ agent.at \in {"device", "batch", "failing"}

\* A packet from the tunnel that finds the ring full waits in the pump: the
\* packets in the ring and the one that waits are exactly those that the Agent
\* has not taken yet, in the order in which the tunnel delivered them.
DownloadIsLossless ==
    pump.at # "ended" =>
    LET way == IF pending = None THEN down ELSE Append(down, pending)
    IN  next = Len(way) /\ \A i \in 1 .. Len(way) : way[i] = i - 1

\* A session that is shut down from either side, or fails on the Engine's side,
\* ends as a whole: both processes' workers end and the Engine joins its own,
\* although the tunnel and the device go on delivering packets.
ShutdownEndsAll ==
    (shutdown \/ cancelled)
    ~> /\ agent.at = "ended" /\ waiter = "ended" /\ pump.at = "ended"
       /\ tasks # "stopping"

\* "Full rings retain one owned packet and return immediately so the main
\* select can still upload packets": a full upload ring gets room although the
\* download may be blocked all the time, or the session ends.
UploadMoves == (up = UpCap) ~> (up < UpCap \/ pump.at = "ended")

\* The pumps neither starve each other nor outlive their session.
PumpsProgress == ShutdownEndsAll /\ UploadMoves
=============================================================================
