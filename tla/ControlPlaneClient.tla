-------------------------- MODULE ControlPlaneClient --------------------------
(***************************************************************************)
(* pkg/client and internal/metrics: what the recorder hands to the control *)
(* plane client, and the client's connection: RunWithReconnect, the        *)
(* sendLoop and recvLoop goroutines of one stream, and the Disconnect that *)
(* Shutdown calls from another goroutine.                                  *)
(*                                                                         *)
(* An item is a telemetry event, an incident report or a repair report;    *)
(* items of a kind are numbered in the order in which they are produced.   *)
(* The telemetry buffer is the one of module RingBuffer.  The stream is    *)
(* external (grpc): a Send that succeeds puts the message on the wire, and *)
(* a stream that breaks loses the wire.                                    *)
(***************************************************************************)
EXTENDS Integers, Sequences, FiniteSets, SequencesExt

CONSTANTS
    MaxItems,   \* bound: telemetry events produced
    MaxReports, \* bound, per kind of report
    BufferCap,  \* capacity of the telemetry ring buffer
    ReportCap,  \* capacity of each report channel (128 in the agent)
    MaxBackoff  \* the backoff's cap, in doublings of the first delay

ASSUME ClientConstants ==
    /\ MaxItems \in Nat /\ MaxReports \in [{"incident", "repair"} -> Nat] /\ BufferCap \in Nat \ {0} /\ ReportCap \in Nat \ {0}
    /\ MaxBackoff \in Nat

VARIABLES
    ctx,        \* the agent's context: "live" or "done"
    shut,       \* Shutdown has called Disconnect
    run,        \* where RunWithReconnect is
    conn,       \* c.conn: "nil" or "open"
    connected,  \* c.connected
    local,      \* RunWithReconnect's copy of c.conn
    backoff,    \* how often the delay was doubled
    stream,     \* "none", "up" or "broken"
    sender,     \* sendLoop: "off", "hello", "select" or "sending"
    receiver,   \* recvLoop: "off" or "receiving"
    produced,   \* kind -> number of items produced
    buf, head, count,  \* the telemetry ring buffer
    channels,   \* kind of report -> its channel
    outbox,     \* the items of the message sendLoop is about to send
    wire,       \* items sent and not yet received
    received,   \* history: kind -> numbers of the items the control plane got
    panicked    \* a method of a nil connection was called

vars == <<ctx, shut, run, conn, connected, local, backoff, stream, sender, receiver,
          produced, buf, head, count, channels, outbox, wire, received, panicked>>

agent == <<ctx, shut>>
link == <<run, conn, connected, local, backoff, panicked>>
loops == <<sender, receiver>>
ring == <<buf, head, count>>
queues == <<buf, head, count, channels>>
data == <<produced, queues, outbox, wire, received>>

Reports == {"incident", "repair"}
Kinds == {"telemetry"} \cup Reports
Item == [kind : Kinds, n : 1..MaxItems]

Buffer == INSTANCE RingBuffer WITH Events <- 1..MaxItems, Capacity <- BufferCap, Zero <- 0

TypeOK ==
    /\ ctx \in {"live", "done"} /\ shut \in BOOLEAN
    /\ run \in {"top", "connecting", "grabbing", "opening", "streaming", "ended",
                "backoff", "returned"}
    /\ conn \in {"nil", "open"} /\ connected \in BOOLEAN /\ local \in {"nil", "open"}
    /\ backoff \in 0..MaxBackoff
    /\ stream \in {"none", "up", "broken"}
    /\ sender \in {"off", "hello", "select", "sending"}
    /\ receiver \in {"off", "receiving"}
    /\ produced \in [Kinds -> 0..MaxItems]
    /\ Buffer!TypeOK
    /\ channels \in [Reports -> Seq(1..MaxItems)]
    /\ \A k \in Reports : Len(channels[k]) <= ReportCap
    /\ outbox \in Seq(Item) /\ wire \in Seq(Item) /\ received \in [Kinds -> Seq(1..MaxItems)]
    /\ panicked \in BOOLEAN

-----------------------------------------------------------------------------
(* The recorder.  A report to a full channel is dropped. *)

\* Recorder.emit: every record pushes an event.
emit ==
    /\ produced["telemetry"] < MaxItems
    /\ Buffer!Push(produced["telemetry"] + 1)

\* Mutant: the channel's capacity is ignored.
ReportedAnyway(k) == Append(channels[k], produced[k] + 1)

\* ReportIncident and ReportRepair.
Reported(k) ==
    IF Len(channels[k]) < ReportCap THEN Append(channels[k], produced[k] + 1)
                                    ELSE channels[k]

RecordCheckResult ==
    /\ emit
    /\ produced' = [produced EXCEPT !["telemetry"] = @ + 1]
    /\ UNCHANGED <<agent, link, stream, loops, channels, outbox, wire, received>>

\* RecordIncidentOpened and Resolved, RecordRepairStarted and Completed: an
\* event and a report.
RecordAndReport(k) ==
    /\ emit /\ produced[k] < MaxReports[k]
    /\ produced' = [produced EXCEPT !["telemetry"] = @ + 1, ![k] = @ + 1]
    /\ channels' = [channels EXCEPT ![k] = Reported(k)]
    /\ UNCHANGED <<agent, link, stream, loops, outbox, wire, received>>

-----------------------------------------------------------------------------
(* RunWithReconnect *)

CheckContext ==
    /\ run = "top"
    /\ run' = IF ctx = "done" THEN "returned" ELSE "connecting"
    /\ UNCHANGED <<agent, conn, connected, local, backoff, panicked, stream, loops, data>>

\* Connect does nothing when c.connected is set.
Connect ==
    /\ run = "connecting"
    /\ conn' = IF connected THEN conn ELSE "open"
    /\ connected' = TRUE
    /\ run' = "grabbing"
    /\ UNCHANGED <<agent, local, backoff, panicked, stream, loops, data>>

ConnectFails ==
    /\ run = "connecting" /\ ~connected
    /\ run' = "backoff"
    /\ UNCHANGED <<agent, conn, connected, local, backoff, panicked, stream, loops, data>>

GrabConn ==
    /\ run = "grabbing"
    /\ local' = conn
    /\ run' = "opening"
    /\ UNCHANGED <<agent, conn, connected, backoff, panicked, stream, loops, data>>

\* rpcClient.Connect on the connection: a nil one is dereferenced.
OpenNil ==
    /\ run = "opening" /\ local = "nil"
    /\ panicked' = TRUE /\ run' = "returned"
    /\ UNCHANGED <<agent, conn, connected, local, backoff, stream, loops, data>>

OpenStream ==
    /\ run = "opening" /\ local = "open" /\ conn = "open" /\ ctx = "live"
    /\ stream' = "up" /\ run' = "streaming"
    /\ sender' = "hello" /\ receiver' = "receiving"
    /\ UNCHANGED <<agent, conn, connected, local, backoff, panicked, data>>

OpenFails ==
    /\ run = "opening" /\ local = "open"
    /\ run' = "ended"
    /\ UNCHANGED <<agent, conn, connected, local, backoff, panicked, stream, loops, data>>

\* Mutant: the first loop to exit ends the stream.
JoinFirst ==
    /\ run = "streaming" /\ (sender = "off" \/ receiver = "off")
    /\ stream' = "none" /\ wire' = << >>
    /\ run' = "ended"
    /\ UNCHANGED <<agent, conn, connected, local, backoff, panicked, loops, produced,
                   queues, outbox, received>>

\* runStream waits for both loops.
JoinLoops ==
    /\ run = "streaming" /\ sender = "off" /\ receiver = "off"
    /\ stream' = "none" /\ wire' = << >>
    /\ run' = "ended"
    /\ UNCHANGED <<agent, conn, connected, local, backoff, panicked, loops, produced,
                   queues, outbox, received>>

\* Mutant: c.connected survives the broken stream.
ForgetOnlyConn ==
    /\ run = "ended"
    /\ IF ctx = "done"
         THEN run' = "returned" /\ UNCHANGED conn
         ELSE run' = "backoff" /\ conn' = "nil"
    /\ UNCHANGED <<agent, connected, local, backoff, panicked, stream, loops, data>>

\* The error path marks the client disconnected, unless the agent is stopping.
ForgetConnection ==
    /\ run = "ended"
    /\ IF ctx = "done"
         THEN run' = "returned" /\ UNCHANGED <<conn, connected>>
         ELSE run' = "backoff" /\ conn' = "nil" /\ connected' = FALSE
    /\ UNCHANGED <<agent, local, backoff, panicked, stream, loops, data>>

\* Mutant: the wait does not watch the context, and comes back only when live.
BackOffLiveOnly ==
    /\ run = "backoff" /\ ctx = "live"
    /\ run' = "top"
    /\ backoff' = IF backoff < MaxBackoff THEN backoff + 1 ELSE MaxBackoff
    /\ UNCHANGED <<agent, conn, connected, local, panicked, stream, loops, data>>

\* Mutant: the client gives up when the delay has reached its cap.
BackOffGivesUp ==
    /\ run = "backoff"
    /\ IF ctx = "done" \/ backoff = MaxBackoff
         THEN run' = "returned" /\ UNCHANGED backoff
         ELSE run' = "top" /\ backoff' = backoff + 1
    /\ UNCHANGED <<agent, conn, connected, local, panicked, stream, loops, data>>

\* time.After(backoff) or ctx.Done; the delay is never reset.
BackOff ==
    /\ run = "backoff"
    /\ \/ /\ run' = "top"
          /\ backoff' = IF backoff < MaxBackoff THEN backoff + 1 ELSE MaxBackoff
       \/ /\ ctx = "done"
          /\ run' = "returned" /\ UNCHANGED backoff
    /\ UNCHANGED <<agent, conn, connected, local, panicked, stream, loops, data>>

-----------------------------------------------------------------------------
(* sendLoop and recvLoop.  loopCtx is done when the agent's context is, or *)
(* when the other loop has returned.                                       *)

LoopDone == ctx = "done" \/ receiver = "off"

\* sendHeartbeat, first and on its ticker; the count it carries is not modelled.
Heartbeat ==
    /\ sender = "hello"
    /\ sender' = IF stream = "up" THEN "select" ELSE "off"
    /\ UNCHANGED <<agent, link, stream, receiver, data>>

SelectHeartbeat ==
    /\ sender = "select" /\ sender' = "hello"
    /\ UNCHANGED <<agent, link, stream, receiver, data>>

SelectDone ==
    /\ sender = "select" /\ LoopDone /\ sender' = "off"
    /\ UNCHANGED <<agent, link, stream, receiver, data>>

Batch(k, numbers) == [i \in DOMAIN numbers |-> [kind |-> k, n |-> numbers[i]]]

\* Mutant: the message is limited to one event, the drain is not.
SelectTelemetryOldest ==
    /\ sender = "select" /\ count > 0
    /\ outbox' = Batch("telemetry", <<Head(Buffer!Snapshot)>>)
    /\ Buffer!Drain
    /\ sender' = "sending"
    /\ UNCHANGED <<agent, link, stream, receiver, produced, channels, wire, received>>

\* sendTelemetry, on the telemetry ticker, drains the buffer.
SelectTelemetry ==
    /\ sender = "select" /\ count > 0
    /\ outbox' = Batch("telemetry", Buffer!Snapshot)
    /\ Buffer!Drain
    /\ sender' = "sending"
    /\ UNCHANGED <<agent, link, stream, receiver, produced, channels, wire, received>>

\* A report is taken from its channel one at a time.
SelectReport(k) ==
    /\ sender = "select" /\ channels[k] # << >>
    /\ outbox' = Batch(k, <<Head(channels[k])>>)
    /\ channels' = [channels EXCEPT ![k] = Tail(@)]
    /\ sender' = "sending"
    /\ UNCHANGED <<agent, link, stream, receiver, produced, ring, wire, received>>

Send ==
    /\ sender = "sending" /\ stream = "up"
    /\ wire' = wire \o outbox /\ outbox' = << >>
    /\ sender' = "select"
    /\ UNCHANGED <<agent, link, stream, receiver, produced, queues, received>>

\* Mutant: a batch of reports goes back into its channel, behind what came
\* meanwhile.
SendFailsRequeue ==
    /\ sender = "sending" /\ stream = "broken"
    /\ channels' = [k \in Reports |->
                       IF outbox[1].kind = k THEN Append(channels[k], outbox[1].n)
                                             ELSE channels[k]]
    /\ outbox' = << >>
    /\ sender' = "off"
    /\ UNCHANGED <<agent, link, stream, receiver, produced, ring, wire, received>>

\* The message was taken from its queue and is not put back.
SendFails ==
    /\ sender = "sending" /\ stream = "broken"
    /\ outbox' = << >>
    /\ sender' = "off"
    /\ UNCHANGED <<agent, link, stream, receiver, produced, queues, wire, received>>

\* Recv returns a message; the handlers of ConfigUpdate and CommandRequest only
\* log, and the loop looks at its context before it receives again.
ReceiveMessage ==
    /\ receiver = "receiving" /\ stream = "up"
    /\ receiver' = IF ctx = "done" \/ sender = "off" THEN "off" ELSE "receiving"
    /\ UNCHANGED <<agent, link, stream, sender, data>>

ReceiveFails ==
    /\ receiver = "receiving" /\ stream = "broken"
    /\ receiver' = "off"
    /\ UNCHANGED <<agent, link, stream, sender, data>>

-----------------------------------------------------------------------------
(* The network, and the agent's shutdown *)

Deliver ==
    /\ wire # << >> /\ stream = "up"
    /\ received' = [received EXCEPT ![Head(wire).kind] = Append(@, Head(wire).n)]
    /\ wire' = Tail(wire)
    /\ UNCHANGED <<agent, link, stream, loops, produced, queues, outbox>>

\* The network fails, or the canceled context ends the stream.
BreakStream ==
    /\ stream = "up"
    /\ stream' = "broken" /\ wire' = << >>
    /\ UNCHANGED <<agent, link, loops, produced, queues, outbox, received>>

Cancel ==
    /\ ctx = "live" /\ ctx' = "done"
    /\ UNCHANGED <<shut, link, stream, loops, data>>

\* Shutdown, once; closing the connection breaks its stream.
Disconnect ==
    /\ ctx = "done" /\ ~shut
    /\ shut' = TRUE
    /\ IF connected
         THEN /\ conn' = "nil" /\ connected' = FALSE
              /\ stream' = IF stream = "up" THEN "broken" ELSE stream
              /\ wire' = << >>
         ELSE UNCHANGED <<conn, connected, stream, wire>>
    /\ UNCHANGED <<ctx, run, local, backoff, panicked, loops, produced, queues,
                   outbox, received>>

Init ==
    /\ ctx = "live" /\ shut = FALSE /\ run = "top"
    /\ conn = "nil" /\ connected = FALSE /\ local = "nil"
    /\ backoff = 0
    /\ stream = "none" /\ sender = "off" /\ receiver = "off"
    /\ produced = [k \in Kinds |-> 0]
    /\ Buffer!Init
    /\ channels = [k \in Reports |-> << >>]
    /\ outbox = << >> /\ wire = << >> /\ received = [k \in Kinds |-> << >>]
    /\ panicked = FALSE

RunStep ==
    \/ CheckContext \/ Connect \/ ConnectFails \/ GrabConn
    \/ OpenNil \/ OpenStream \/ OpenFails
    \/ JoinLoops \/ ForgetConnection \/ BackOff
SenderStep ==
    \/ Heartbeat \/ SelectHeartbeat \/ SelectDone \/ Send \/ SendFails
    \/ SelectTelemetry \/ \E k \in Reports : SelectReport(k)
ReceiverStep == ReceiveMessage \/ ReceiveFails

\* A panic ends the process.
Next ==
    /\ ~panicked
    /\ \/ RecordCheckResult \/ RecordAndReport("incident") \/ RecordAndReport("repair")
       \/ RunStep \/ SenderStep \/ ReceiverStep
       \/ Deliver \/ BreakStream \/ Cancel \/ Disconnect

Spec == Init /\ [][Next]_vars

\* Goroutines run; a ready ctx.Done is chosen by select sooner or later; the
\* control plane is reachable again and again; a canceled context ends the
\* stream, whose failure Recv reports.
Fairness ==
    /\ WF_vars(RunStep) /\ SF_vars(Connect) /\ SF_vars(OpenStream)
    /\ WF_vars(SenderStep) /\ SF_vars(SelectDone)
    /\ SF_vars(ReceiveFails)
    /\ WF_vars(BreakStream /\ ctx = "done")
FairSpec == Spec /\ Fairness

-----------------------------------------------------------------------------
(* Properties *)

\* Items of a kind reach the control plane in the order in which they were
\* recorded, and none of them twice, through drops, broken streams and
\* reconnections (the queues, Drain and the single sendLoop of a stream).
ReceivedInOrder ==
    \A k \in Kinds : \A i, j \in 1..Len(received[k]) :
       i < j => received[k][i] < received[k][j]

\* No loop of an earlier stream is left when the client opens the next one:
\* otherwise two senders would compete for the queues (errCh read twice in
\* runStream).
NoOrphanLoops ==
    run # "streaming" => sender = "off" /\ receiver = "off"

\* "Connection established - run the bidirectional stream" (RunWithReconnect):
\* the connection it runs the stream on is one, except when Shutdown's Disconnect
\* comes between Connect and the read of c.conn.
NilConnOnlyAtShutdown == panicked => shut

\* Where the items of a kind are: in their queue, in a message or on the wire, or
\* at the control plane.
Waiting(k) == IF k = "telemetry" THEN Buffer!Snapshot ELSE channels[k]
Of(items, k) == {items[i].n : i \in {j \in 1..Len(items) : items[j].kind = k}}
Held(k) == ToSet(Waiting(k)) \cup Of(outbox, k) \cup Of(wire, k) \cup ToSet(received[k])

\* "store events when disconnected, retry sending periodically, drop oldest
\* entries if full" (docs, Telemetry Buffer): an event leaves the agent by being
\* sent, or as the oldest one of a full buffer.
TelemetryKept ==
    [][\A n \in ToSet(Buffer!Snapshot) \cup Of(outbox, "telemetry") :
          \/ n \in ToSet(Buffer!Snapshot') \cup Of(outbox' \o wire', "telemetry")
          \/ produced' # produced /\ Buffer!Full /\ n = Head(Buffer!Snapshot)]_vars

\* An item is lost in one of four ways, and in no other: a report whose channel is
\* full when it is made; the oldest event of a full buffer, when another is
\* recorded; a message whose Send fails on a broken stream; and what is on the wire
\* when the stream ends (Push, ReportIncident, ReportRepair, the send methods, and
\* sendLoop, which forgets a message only after its Send).
LossesAreNamed ==
    [][\A k \in Kinds :
          /\ produced'[k] # produced[k] =>
               produced'[k] \in Held(k)' \/ (k \in Reports /\ Len(channels[k]) = ReportCap)
          /\ \A n \in Held(k) \ Held(k)' :
               \/ k = "telemetry" /\ produced' # produced /\ Buffer!Full /\ n = Head(Waiting(k))
               \/ n \in Of(outbox, k) /\ stream = "broken"
               \/ n \in Of(wire, k) /\ stream' # "up"]_vars

\* The index arithmetic of Push and Drain, as the recorder and the sender use
\* them, implements the drop-oldest queue that RingBuffer's comment promises.
BufferImplementsQueue == Buffer!ImplementsQueue

\* The client streams again and again while the agent runs, whatever connection
\* attempts and streams fail.
Reconnects == []<>(run = "streaming" \/ ctx = "done")

\* After the cancellation RunWithReconnect returns (or the process panicked).
ClientStops == ctx = "done" ~> run = "returned"
=============================================================================
