----------------------- MODULE ControlPlaneClientProofs -----------------------
(***************************************************************************)
(* Theorems about the control plane client and its telemetry buffer, for   *)
(* any capacities, any number of items and any order of failures.          *)
(***************************************************************************)
EXTENDS ControlPlaneClient, SequenceTheorems, TLAPS

-----------------------------------------------------------------------------
(* The index arithmetic of the ring buffer *)

\* An index that ran at most once around the ring.
Wrap(a) == IF a < BufferCap THEN a ELSE a - BufferCap

LEMMA ModWraps ==
    ASSUME NEW c \in Nat \ {0}, NEW a \in Nat, a < c + c
    PROVE  a % c = IF a < c THEN a ELSE a - c
OBVIOUS

LEMMA ModIsWrap ==
    ASSUME NEW a \in Nat, a < BufferCap + BufferCap
    PROVE  a % BufferCap = Wrap(a)
<1>1. BufferCap \in Nat \ {0}
  BY ClientConstants
<1> QED BY <1>1, ModWraps DEF Wrap

Telemetries == (1..MaxItems) \cup {0}

\* The live events, without the modulus.
LEMMA SnapshotIs ==
    ASSUME NEW h \in 0..(BufferCap - 1), NEW n \in 0..BufferCap,
           NEW b \in [0..(BufferCap - 1) -> Telemetries],
           NEW s, s = [i \in 1..n |-> b[(h + i - 1) % BufferCap]]
    PROVE  /\ s \in Seq(Telemetries) /\ Len(s) = n
           /\ \A i \in 1..n : s[i] = b[Wrap(h + i - 1)]
<1>1. BufferCap \in Nat \ {0}
  BY ClientConstants
<1>2. ASSUME NEW i \in 1..n
      PROVE  (h + i - 1) % BufferCap = Wrap(h + i - 1) /\ Wrap(h + i - 1) \in 0..(BufferCap - 1)
  <2> DEFINE a == h + i - 1
  <2>1. a \in Nat /\ a < BufferCap + BufferCap
    BY <1>1
  <2> HIDE DEF a
  <2>2. a % BufferCap = Wrap(a) /\ Wrap(a) \in 0..(BufferCap - 1)
    <3>1. a % BufferCap = Wrap(a)
      BY <2>1, ModIsWrap
    <3>2. Wrap(a) \in 0..(BufferCap - 1)
      BY <1>1, <2>1 DEF Wrap
    <3> QED BY <3>1, <3>2
  <2> QED BY <2>2 DEF a
<1>3. \A i \in 1..n : s[i] = b[Wrap(h + i - 1)] /\ s[i] \in Telemetries
  BY <1>2
<1>4. s \in [1..n -> Telemetries] /\ n \in Nat
  BY <1>1, <1>3
<1>5. s \in Seq(Telemetries) /\ Len(s) = n
  BY <1>4
<1> QED BY <1>3, <1>5

\* Push appends to the live events; a full buffer loses the oldest.
LEMMA PushAppends ==
    ASSUME Buffer!TypeOK, NEW e \in 1..MaxItems, Buffer!Push(e)
    PROVE  Buffer!Snapshot' = IF count = BufferCap
                                THEN Append(Tail(Buffer!Snapshot), e)
                                ELSE Append(Buffer!Snapshot, e)
<1> DEFINE old == Buffer!Snapshot
           new == Buffer!Snapshot'
<1>1. BufferCap \in Nat \ {0}
  BY ClientConstants
<1>2. head \in 0..(BufferCap - 1) /\ count \in 0..BufferCap
      /\ buf \in [0..(BufferCap - 1) -> Telemetries]
  BY DEF Buffer!TypeOK, Buffer!Slots, Telemetries
<1>3. buf' = [buf EXCEPT ![Wrap(head + count)] = e]
  <2>1. head + count \in Nat /\ head + count < BufferCap + BufferCap
    BY <1>1, <1>2
  <2> QED BY <2>1, ModIsWrap DEF Buffer!Push
<1>4. buf' \in [0..(BufferCap - 1) -> Telemetries]
  BY <1>2, <1>3 DEF Telemetries
<1>5. /\ old \in Seq(Telemetries) /\ Len(old) = count
      /\ \A i \in 1..count : old[i] = buf[Wrap(head + i - 1)]
  BY <1>2, SnapshotIs DEF Buffer!Snapshot
<1>6. IF count = BufferCap THEN head' = Wrap(head + 1) /\ count' = count
                           ELSE head' = head /\ count' = count + 1
  <2>1. head + 1 \in Nat /\ head + 1 < BufferCap + BufferCap
    BY <1>1, <1>2
  <2> QED BY <2>1, ModIsWrap DEF Buffer!Push, Buffer!Full
<1>7. head' \in 0..(BufferCap - 1) /\ count' \in 0..BufferCap
  BY <1>1, <1>2, <1>6 DEF Wrap
<1>8. /\ new \in Seq(Telemetries) /\ Len(new) = count'
      /\ \A i \in 1..count' : new[i] = buf'[Wrap(head' + i - 1)]
  BY <1>4, <1>7, SnapshotIs DEF Buffer!Snapshot
<1> HIDE DEF old, new
<1>9. e \in Telemetries
  BY DEF Telemetries
<1>10. CASE count # BufferCap
  <2> DEFINE t == Append(old, e)
  <2>1. t \in Seq(Telemetries) /\ Len(t) = count + 1 /\ t[count + 1] = e
        /\ \A i \in 1..count : t[i] = old[i]
    BY <1>5, <1>9
  <2> HIDE DEF t
  <2>2. ASSUME NEW i \in 1..(count + 1) PROVE new[i] = t[i]
    <3>1. CASE i = count + 1
      BY <1>1, <1>2, <1>3, <1>6, <1>8, <1>10, <2>1, <3>1 DEF Wrap
    <3>2. CASE i \in 1..count
      <4>1. Wrap(head + i - 1) # Wrap(head + count)
        BY <1>1, <1>2, <1>10, <3>2 DEF Wrap
      <4>2. Wrap(head + i - 1) \in 0..(BufferCap - 1)
        BY <1>1, <1>2, <1>10, <3>2 DEF Wrap
      <4>3. buf'[Wrap(head + i - 1)] = buf[Wrap(head + i - 1)]
        BY <1>2, <1>3, <4>1, <4>2
      <4>4. i \in 1..count' /\ head' = head
        BY <1>2, <1>6, <1>10, <3>2
      <4>5. new[i] = buf'[Wrap(head + i - 1)]
        BY <1>8, <4>4
      <4> QED BY <1>5, <2>1, <3>2, <4>3, <4>5
    <3> QED BY <1>2, <3>1, <3>2
  <2>3. new = t
    BY <1>2, <1>6, <1>8, <1>10, <2>1, <2>2, SeqEqual
  <2> QED BY <2>3, <1>10 DEF old, new, t
<1>11. CASE count = BufferCap
  <2> DEFINE t == Append(Tail(old), e)
  <2>1. /\ Tail(old) \in Seq(Telemetries) /\ Len(Tail(old)) = count - 1
        /\ \A i \in 1..(count - 1) : Tail(old)[i] = old[i + 1]
    BY <1>1, <1>5, <1>11
  <2>2. t \in Seq(Telemetries) /\ Len(t) = count /\ t[count] = e
        /\ \A i \in 1..(count - 1) : t[i] = old[i + 1]
    BY <1>1, <1>11, <1>9, <2>1, AppendProperties
  <2> HIDE DEF t
  <2>3. ASSUME NEW i \in 1..count PROVE new[i] = t[i]
    <3>1. CASE i = count
      <4>1. Wrap(head' + i - 1) = Wrap(head + count)
        BY <1>1, <1>2, <1>6, <1>11, <3>1 DEF Wrap
      <4>2. Wrap(head + count) \in 0..(BufferCap - 1)
        BY <1>1, <1>2, <1>11 DEF Wrap
      <4>3. buf'[Wrap(head + count)] = e
        BY <1>2, <1>3, <4>2
      <4> QED BY <1>6, <1>8, <1>11, <2>2, <3>1, <4>1, <4>3
    <3>2. CASE i \in 1..(count - 1)
      <4>1. Wrap(head' + i - 1) = Wrap(head + (i + 1) - 1)
        BY <1>1, <1>2, <1>6, <1>11, <3>2 DEF Wrap
      <4>2. Wrap(head + (i + 1) - 1) # Wrap(head + count)
        BY <1>1, <1>2, <1>11, <3>2 DEF Wrap
      <4>3. Wrap(head + (i + 1) - 1) \in 0..(BufferCap - 1) /\ i + 1 \in 1..count
        BY <1>1, <1>2, <1>11, <3>2 DEF Wrap
      <4>4. buf'[Wrap(head + (i + 1) - 1)] = buf[Wrap(head + (i + 1) - 1)]
        BY <1>2, <1>3, <4>2, <4>3
      <4>5. old[i + 1] = buf[Wrap(head + (i + 1) - 1)]
        BY <1>5, <4>3
      <4>6. new[i] = buf'[Wrap(head' + i - 1)]
        BY <1>6, <1>8, <1>11, <3>2
      <4> QED BY <2>2, <3>2, <4>1, <4>4, <4>5, <4>6
    <3> QED BY <1>2, <3>1, <3>2
  <2>4. new = t
    BY <1>6, <1>8, <1>11, <2>2, <2>3, SeqEqual
  <2> QED BY <2>4, <1>11 DEF old, new, t
<1> QED BY <1>10, <1>11 DEF old, new

-----------------------------------------------------------------------------
(* Types *)

Numbers == 1..MaxItems

\* Every record pushes an event, so no kind of report is ahead of the telemetry.
ReportsBehindEvents == \A k \in Reports : produced[k] <= produced["telemetry"]

\* No live slot of the buffer is one that was not pushed into.
LiveSlotsWritten == Buffer!Snapshot \in Seq(Numbers)

ClientType == TypeOK /\ ReportsBehindEvents /\ LiveSlotsWritten

\* Everything but the data: the types of the connection and its loops.
LinkType ==
    /\ ctx \in {"live", "done"} /\ shut \in BOOLEAN
    /\ run \in {"top", "connecting", "grabbing", "opening", "streaming", "ended",
                "backoff", "returned"}
    /\ conn \in {"nil", "open"} /\ connected \in BOOLEAN /\ local \in {"nil", "open"}
    /\ backoff \in 0..MaxBackoff
    /\ stream \in {"none", "up", "broken"}
    /\ sender \in {"off", "hello", "select", "sending"}
    /\ receiver \in {"off", "receiving"}
    /\ panicked \in BOOLEAN

QueuesType ==
    /\ Buffer!TypeOK /\ LiveSlotsWritten
    /\ channels \in [Reports -> Seq(Numbers)]
    /\ \A k \in Reports : Len(channels[k]) <= ReportCap

DataType ==
    /\ produced \in [Kinds -> 0..MaxItems] /\ ReportsBehindEvents
    /\ QueuesType
    /\ outbox \in Seq(Item) /\ wire \in Seq(Item) /\ received \in [Kinds -> Seq(Numbers)]

LEMMA TypeParts == ClientType <=> LinkType /\ DataType
BY DEF ClientType, TypeOK, LinkType, DataType, QueuesType, Numbers

LEMMA SnapshotLength == DataType => Len(Buffer!Snapshot) = count
BY SnapshotIs, ClientConstants
   DEF DataType, QueuesType, Buffer!TypeOK, Buffer!Slots, Buffer!Snapshot, Telemetries

\* A record's push.
LEMMA EmitType ==
    ASSUME DataType, emit
    PROVE  /\ Buffer!TypeOK' /\ LiveSlotsWritten'
           /\ produced["telemetry"] + 1 \in Numbers
<1> DEFINE e == produced["telemetry"] + 1
<1>1. e \in Numbers /\ Buffer!Push(e)
  BY ClientConstants DEF emit, DataType, Kinds, Numbers
<1> HIDE DEF e
<1>2. /\ head \in 0..(BufferCap - 1) /\ count \in 0..BufferCap /\ BufferCap \in Nat \ {0}
      /\ buf \in [0..(BufferCap - 1) -> (1..MaxItems) \cup {0}]
  BY ClientConstants DEF DataType, QueuesType, Buffer!TypeOK, Buffer!Slots
<1>3. Buffer!TypeOK'
  <2>1. buf' \in [0..(BufferCap - 1) -> (1..MaxItems) \cup {0}]
    BY <1>1, <1>2 DEF Buffer!Push, Numbers
  <2>2. head' \in 0..(BufferCap - 1) /\ count' \in 0..BufferCap
    <3>1. (head + 1) % BufferCap \in 0..(BufferCap - 1)
      BY <1>2, ModIsWrap DEF Wrap
    <3> QED BY <1>1, <1>2, <3>1 DEF Buffer!Push, Buffer!Full
  <2> QED BY <2>1, <2>2 DEF Buffer!TypeOK, Buffer!Slots
<1>4. LiveSlotsWritten'
  <2>1. Buffer!Snapshot' = IF count = BufferCap THEN Append(Tail(Buffer!Snapshot), e)
                                                ELSE Append(Buffer!Snapshot, e)
    BY <1>1, PushAppends DEF DataType, QueuesType, Numbers
  <2>2. Buffer!Snapshot \in Seq(Numbers)
    BY DEF DataType, QueuesType, LiveSlotsWritten
  <2>3. count = BufferCap => Buffer!Snapshot # << >>
    <3>1. Len(Buffer!Snapshot) = count
      BY SnapshotLength
    <3>2. Len(<< >>) = 0
      OBVIOUS
    <3> QED BY <1>2, <3>1, <3>2
  <2>4. count = BufferCap => Tail(Buffer!Snapshot) \in Seq(Numbers)
    BY <2>2, <2>3, HeadTailProperties
  <2> QED BY <1>1, <2>1, <2>2, <2>4, AppendProperties DEF LiveSlotsWritten
<1> QED BY <1>1, <1>3, <1>4 DEF e

LEMMA RecordType ==
    ASSUME DataType,
           RecordCheckResult \/ \E k \in Reports : RecordAndReport(k)
    PROVE  DataType'
<1>1. emit
  BY DEF RecordCheckResult, RecordAndReport
<1>2. /\ produced \in [Kinds -> 0..MaxItems]
      /\ \A k \in Reports : produced[k] <= produced["telemetry"]
      /\ produced["telemetry"] < MaxItems
  BY <1>1 DEF DataType, ReportsBehindEvents, emit
<1>3. CASE RecordCheckResult
  <2>1. produced' \in [Kinds -> 0..MaxItems] /\ ReportsBehindEvents'
    BY <1>2, <1>3, ClientConstants DEF RecordCheckResult, ReportsBehindEvents, Kinds, Reports
  <2>2. UNCHANGED <<channels, outbox, wire, received>>
    BY <1>3 DEF RecordCheckResult
  <2> QED BY <1>1, <2>1, <2>2, EmitType DEF DataType, QueuesType
<1>4. ASSUME NEW k \in Reports, RecordAndReport(k) PROVE DataType'
  <2>1. produced[k] \in Nat /\ produced[k] < MaxItems
    BY <1>2, <1>4, ClientConstants DEF Kinds, Reports
  <2>2. produced' \in [Kinds -> 0..MaxItems] /\ ReportsBehindEvents'
    BY <1>2, <1>4, <2>1, ClientConstants
       DEF RecordAndReport, ReportsBehindEvents, Kinds, Reports
  <2>3. Reported(k) \in Seq(Numbers) /\ Len(Reported(k)) <= ReportCap
    <3>1. channels[k] \in Seq(Numbers) /\ Len(channels[k]) <= ReportCap
      BY DEF DataType, QueuesType
    <3>2. produced[k] + 1 \in Numbers
      BY <2>1, ClientConstants DEF Numbers
    <3> QED BY <3>1, <3>2, ClientConstants, AppendProperties, LenProperties DEF Reported
  <2>4. channels' \in [Reports -> Seq(Numbers)] /\ \A j \in Reports : Len(channels'[j]) <= ReportCap
    BY <1>4, <2>3 DEF RecordAndReport, DataType, QueuesType
  <2>5. UNCHANGED <<outbox, wire, received>>
    BY <1>4 DEF RecordAndReport
  <2> QED BY <1>1, <2>2, <2>4, <2>5, EmitType DEF DataType, QueuesType
<1> QED BY <1>3, <1>4

LEMMA IsSeq ==
    ASSUME NEW S, NEW n \in Nat, NEW f \in [1..n -> S]
    PROVE  f \in Seq(S) /\ Len(f) = n
<1>1. f \in Seq(S)
  OBVIOUS
<1>2. DOMAIN f = 1..n /\ DOMAIN f = 1..Len(f) /\ Len(f) \in Nat
  BY <1>1, LenProperties
<1> QED BY <1>1, <1>2

\* A message for the wire.
LEMMA BatchType ==
    ASSUME NEW k \in Kinds, NEW s \in Seq(Numbers)
    PROVE  /\ Batch(k, s) \in Seq(Item) /\ Len(Batch(k, s)) = Len(s)
           /\ \A i \in 1..Len(s) : Batch(k, s)[i] = [kind |-> k, n |-> s[i]]
<1>1. DOMAIN s = 1..Len(s) /\ Len(s) \in Nat /\ \A i \in 1..Len(s) : s[i] \in Numbers
  OBVIOUS
<1>2. Batch(k, s) = [i \in 1..Len(s) |-> [kind |-> k, n |-> s[i]]]
  BY <1>1 DEF Batch
<1>3. \A i \in 1..Len(s) : [kind |-> k, n |-> s[i]] \in Item
  BY <1>1 DEF Item, Numbers
<1>4. Batch(k, s) \in [1..Len(s) -> Item]
  BY <1>2, <1>3
<1>5. Batch(k, s) \in Seq(Item) /\ Len(Batch(k, s)) = Len(s)
  <2>1. Len(s) \in Nat
    BY <1>1
  <2> QED BY <1>4, <2>1, IsSeq
<1>6. \A i \in 1..Len(s) : Batch(k, s)[i] = [kind |-> k, n |-> s[i]]
  BY <1>2
<1> QED BY <1>5, <1>6

LEMMA DrainType ==
    ASSUME DataType, Buffer!Drain
    PROVE  Buffer!TypeOK' /\ LiveSlotsWritten' /\ Buffer!Snapshot' = << >>
<1>1. count' = 0 /\ Buffer!Snapshot' = << >>
  BY DEF Buffer!Drain, Buffer!Snapshot
<1>2. Buffer!TypeOK'
  BY ClientConstants DEF DataType, QueuesType, Buffer!TypeOK, Buffer!Drain, Buffer!Slots
<1> QED BY <1>1, <1>2 DEF LiveSlotsWritten

\* What sendLoop does to the data.
LEMMA SenderType ==
    ASSUME DataType,
           SelectTelemetry \/ (\E k \in Reports : SelectReport(k)) \/ Send \/ SendFails
    PROVE  DataType'
<1>1. CASE SelectTelemetry
  <2>1. outbox' \in Seq(Item)
    BY <1>1, BatchType DEF SelectTelemetry, DataType, QueuesType, LiveSlotsWritten, Kinds
  <2>2. Buffer!Drain /\ UNCHANGED <<produced, channels, wire, received>>
    BY <1>1 DEF SelectTelemetry
  <2> QED BY <2>1, <2>2, DrainType DEF DataType, QueuesType, ReportsBehindEvents
<1>2. ASSUME NEW k \in Reports, SelectReport(k) PROVE DataType'
  <2>1. channels[k] \in Seq(Numbers) /\ channels[k] # << >> /\ Len(channels[k]) <= ReportCap
    BY <1>2 DEF SelectReport, DataType, QueuesType
  <2>2. /\ Head(channels[k]) \in Numbers
        /\ Tail(channels[k]) \in Seq(Numbers) /\ Len(Tail(channels[k])) <= ReportCap
    BY <2>1, HeadTailProperties, LenProperties, ClientConstants
  <2>3. <<Head(channels[k])>> \in Seq(Numbers)
    BY <2>2
  <2>4. outbox' \in Seq(Item)
    BY <1>2, <2>3, BatchType DEF SelectReport, Kinds
  <2>5. channels' \in [Reports -> Seq(Numbers)] /\ \A j \in Reports : Len(channels'[j]) <= ReportCap
    BY <1>2, <2>2 DEF SelectReport, DataType, QueuesType
  <2>6. UNCHANGED <<produced, buf, head, count, wire, received>>
    BY <1>2 DEF SelectReport, ring
  <2> QED BY <2>4, <2>5, <2>6
          DEF DataType, QueuesType, ReportsBehindEvents, LiveSlotsWritten, Buffer!TypeOK,
              Buffer!Snapshot
<1>3. CASE Send \/ SendFails
  <2>1. outbox' = << >> /\ wire' \in {wire \o outbox, wire}
        /\ UNCHANGED <<produced, buf, head, count, channels, received>>
    BY <1>3 DEF Send, SendFails, queues
  <2>2. wire \in Seq(Item) /\ outbox \in Seq(Item)
    BY DEF DataType
  <2>3. wire \o outbox \in Seq(Item)
    BY <2>2, ConcatProperties
  <2>4. wire' \in Seq(Item) /\ outbox' \in Seq(Item)
    <3>1. << >> \in Seq(Item)
      OBVIOUS
    <3> HIDE DEF Item
    <3>2. CASE wire' = wire
      BY <2>1, <2>2, <3>1, <3>2
    <3>3. CASE wire' = wire \o outbox
      BY <2>1, <2>3, <3>1, <3>3, Zenon
    <3> QED BY <2>1, <3>2, <3>3
  <2> QED BY <2>1, <2>4
          DEF DataType, QueuesType, ReportsBehindEvents, LiveSlotsWritten, Buffer!TypeOK,
              Buffer!Snapshot
<1> QED BY <1>1, <1>2, <1>3

\* What the network does to the data.
LEMMA NetworkType ==
    ASSUME DataType, Deliver \/ BreakStream \/ JoinLoops \/ Disconnect
    PROVE  DataType'
<1> USE DEF queues
<1>1. UNCHANGED <<produced, buf, head, count, channels, outbox>>
  BY DEF Deliver, BreakStream, JoinLoops, Disconnect
<1>2. wire' \in Seq(Item) /\ received' \in [Kinds -> Seq(Numbers)]
  <2>1. CASE Deliver
    <3>1. wire \in Seq(Item) /\ wire # << >>
      BY <2>1 DEF Deliver, DataType
    <3>2. PICK h \in Item : h = Head(wire)
      BY <3>1, HeadTailProperties
    <3>3. Tail(wire) \in Seq(Item)
      BY <3>1, HeadTailProperties
    <3>4. h.kind \in Kinds /\ h.n \in Numbers
      BY DEF Item, Numbers
    <3>5. received \in [Kinds -> Seq(Numbers)]
      BY DEF DataType
    <3>6. Append(received[h.kind], h.n) \in Seq(Numbers)
      BY <3>4, <3>5, AppendProperties
    <3>7. received' = [received EXCEPT ![h.kind] = Append(received[h.kind], h.n)]
      BY <2>1, <3>2 DEF Deliver
    <3>8. received' \in [Kinds -> Seq(Numbers)]
      BY <3>4, <3>5, <3>6, <3>7
    <3>9. wire' = Tail(wire)
      BY <2>1 DEF Deliver
    <3> QED BY <3>3, <3>8, <3>9, Zenon
  <2>2. CASE BreakStream \/ JoinLoops \/ Disconnect
    <3>1. wire' = wire \/ wire' = << >>
      BY <2>2 DEF BreakStream, JoinLoops, Disconnect
    <3>2. received' = received
      BY <2>2 DEF BreakStream, JoinLoops, Disconnect
    <3>3. wire \in Seq(Item) /\ received \in [Kinds -> Seq(Numbers)]
      BY DEF DataType
    <3>4. << >> \in Seq(Item)
      OBVIOUS
    <3> QED BY <3>1, <3>2, <3>3, <3>4, Zenon
  <2> QED BY <2>1, <2>2
<1> QED BY <1>1, <1>2
        DEF DataType, QueuesType, ReportsBehindEvents, LiveSlotsWritten, Buffer!TypeOK,
            Buffer!Snapshot
\* The steps that move no item.
QuietStep ==
    \/ CheckContext \/ Connect \/ ConnectFails \/ GrabConn
    \/ OpenNil \/ OpenStream \/ OpenFails \/ ForgetConnection \/ BackOff
    \/ Heartbeat \/ SelectHeartbeat \/ SelectDone
    \/ ReceiverStep \/ Cancel

LEMMA QuietStepKeepsData == QuietStep => UNCHANGED data
BY DEF QuietStep, CheckContext, Connect, ConnectFails, GrabConn, OpenNil, OpenStream,
       OpenFails, ForgetConnection, BackOff, Heartbeat, SelectHeartbeat, SelectDone,
       ReceiverStep, ReceiveMessage, ReceiveFails, Cancel

\* The steps that move items, and the parts they are made of.
LEMMA StepKinds ==
    ASSUME [Next]_vars
    PROVE  \/ RecordCheckResult \/ \E k \in Reports : RecordAndReport(k)
           \/ SelectTelemetry \/ (\E k \in Reports : SelectReport(k)) \/ Send \/ SendFails
           \/ Deliver \/ BreakStream \/ JoinLoops \/ Disconnect
           \/ QuietStep \/ UNCHANGED vars
<1>1. "incident" \in Reports /\ "repair" \in Reports
  BY DEF Reports
<1> QED BY <1>1 DEF Next, RunStep, SenderStep, QuietStep

LEMMA UnchangedDataType == ASSUME DataType, UNCHANGED data PROVE DataType'
BY DEF DataType, QueuesType, ReportsBehindEvents, LiveSlotsWritten, Buffer!TypeOK,
       Buffer!Snapshot, data, queues

LEMMA DataTypeStep == ASSUME DataType, [Next]_vars PROVE DataType'
<1>1. UNCHANGED vars => UNCHANGED data
  BY DEF vars, data, queues
<1> QED BY <1>1, StepKinds, RecordType, SenderType, NetworkType, QuietStepKeepsData,
           UnchangedDataType

LEMMA LinkTypeStep == ASSUME LinkType, [Next]_vars PROVE LinkType'
<1> USE DEF LinkType, agent, link, loops
<1>1. CASE RecordCheckResult \/ \E k \in Reports : RecordAndReport(k)
  BY <1>1 DEF RecordCheckResult, RecordAndReport
<1>2. CASE \/ SelectTelemetry \/ (\E k \in Reports : SelectReport(k)) \/ Send \/ SendFails
           \/ Heartbeat \/ SelectHeartbeat \/ SelectDone
  BY <1>2 DEF SelectTelemetry, SelectReport, Send, SendFails, Heartbeat, SelectHeartbeat,
              SelectDone
<1>3. CASE ReceiverStep \/ Cancel \/ Deliver \/ BreakStream \/ JoinLoops
  BY <1>3 DEF ReceiverStep, ReceiveMessage, ReceiveFails, Cancel, Deliver, BreakStream, JoinLoops
<1>4. CASE Disconnect
  BY <1>4 DEF Disconnect
<1>5. CASE \/ CheckContext \/ Connect \/ ConnectFails \/ GrabConn \/ OpenNil \/ OpenStream
           \/ OpenFails \/ ForgetConnection
  BY <1>5 DEF CheckContext, Connect, ConnectFails, GrabConn, OpenNil, OpenStream, OpenFails,
              ForgetConnection
<1>6. CASE BackOff
  BY <1>6, ClientConstants DEF BackOff
<1>7. CASE UNCHANGED vars
  BY <1>7 DEF vars
<1> QED BY <1>1, <1>2, <1>3, <1>4, <1>5, <1>6, <1>7, StepKinds DEF QuietStep

LEMMA InitType == Init => LinkType /\ DataType
<1> SUFFICES ASSUME Init PROVE LinkType /\ DataType
  OBVIOUS
<1>1. LinkType
  <2>1. backoff = 0 /\ MaxBackoff \in Nat
    BY ClientConstants DEF Init
  <2>2. backoff \in 0..MaxBackoff
    BY <2>1
  <2>3. shut = FALSE /\ connected = FALSE /\ panicked = FALSE
    BY DEF Init
  <2>4. /\ ctx = "live" /\ run = "top" /\ conn = "nil" /\ local = "nil"
        /\ stream = "none" /\ sender = "off" /\ receiver = "off"
    BY DEF Init
  <2> QED BY <2>2, <2>3, <2>4 DEF LinkType
<1>2. Buffer!TypeOK /\ Buffer!Snapshot = << >>
  BY ClientConstants DEF Init, Buffer!Init, Buffer!TypeOK, Buffer!Slots, Buffer!Snapshot
<1>3. channels = [k \in Reports |-> << >>] /\ \A k \in Reports : Len(channels[k]) = 0
  BY DEF Init
<1>4. QueuesType
  BY <1>2, <1>3, ClientConstants DEF QueuesType, LiveSlotsWritten
<1>5. produced \in [Kinds -> 0..MaxItems] /\ ReportsBehindEvents
  BY ClientConstants DEF Init, ReportsBehindEvents, Kinds
<1>6. outbox \in Seq(Item) /\ wire \in Seq(Item) /\ received \in [Kinds -> Seq(Numbers)]
  BY DEF Init
<1> QED BY <1>1, <1>4, <1>5, <1>6 DEF DataType

LEMMA TypeInvariant == Spec => [](LinkType /\ DataType)
<1>1. ASSUME LinkType /\ DataType, [Next]_vars PROVE (LinkType /\ DataType)'
  BY <1>1, LinkTypeStep, DataTypeStep
<1> QED BY <1>1, InitType, PTL DEF Spec

\* TypeOK, for every capacity of the buffer and of the report channels: the
\* ring's indices stay in range, and no channel holds more than its capacity
\* (TelemetryBuffer.Push and Drain, the selects with a default of Recorder).
THEOREM ClientTypeCorrect == Spec => []TypeOK
<1>1. LinkType /\ DataType => TypeOK
  BY TypeParts DEF ClientType
<1> QED BY <1>1, TypeInvariant, PTL

-----------------------------------------------------------------------------
(* The connection and its loops *)

\* The steps that leave run, the loops, the connection and shut alone.
LEMMA ItemStepsKeepLink ==
    \/ RecordCheckResult \/ (\E k \in Reports : RecordAndReport(k))
    \/ Deliver \/ BreakStream \/ Cancel \/ UNCHANGED vars
    => UNCHANGED <<shut, link, loops>>
BY DEF RecordCheckResult, RecordAndReport, Deliver, BreakStream, Cancel, agent, link, loops, vars

\* A loop starts in OpenStream only, and moves only while it runs; runStream
\* ends in JoinLoops only.
LEMMA NoOrphanLoopsStep ==
    ASSUME NoOrphanLoops, [Next]_vars PROVE NoOrphanLoops'
<1> USE DEF NoOrphanLoops, link, loops
<1>1. CASE \/ RecordCheckResult \/ (\E k \in Reports : RecordAndReport(k))
           \/ Deliver \/ BreakStream \/ Cancel \/ UNCHANGED vars
  BY <1>1, ItemStepsKeepLink
<1>2. CASE \/ SelectTelemetry \/ (\E k \in Reports : SelectReport(k)) \/ Send \/ SendFails
           \/ Heartbeat \/ SelectHeartbeat \/ SelectDone \/ ReceiverStep
  BY <1>2 DEF SelectTelemetry, SelectReport, Send, SendFails, Heartbeat, SelectHeartbeat,
              SelectDone, ReceiverStep, ReceiveMessage, ReceiveFails
<1>3. CASE \/ CheckContext \/ Connect \/ ConnectFails \/ GrabConn \/ OpenNil \/ OpenStream
           \/ OpenFails \/ ForgetConnection \/ BackOff \/ JoinLoops \/ Disconnect
  BY <1>3 DEF CheckContext, Connect, ConnectFails, GrabConn, OpenNil, OpenStream, OpenFails,
              ForgetConnection, BackOff, JoinLoops, Disconnect
<1> QED BY <1>1, <1>2, <1>3, StepKinds DEF QuietStep

\* NoOrphanLoops: a stream is opened only when both loops of the one before
\* have returned, so one sendLoop at a time takes from the queues (errCh read
\* twice in runStream).
THEOREM NoLoopSurvivesItsStream == Spec => []NoOrphanLoops
<1>1. Init => NoOrphanLoops
  BY DEF Init, NoOrphanLoops
<1> QED BY <1>1, NoOrphanLoopsStep, PTL DEF Spec

\* c.connected and c.conn change together; and until Shutdown, RunWithReconnect
\* finds between Connect and rpcClient.Connect the connection it made.
ConnectionInv ==
    /\ connected = (conn = "open")
    /\ run = "grabbing" /\ ~shut => conn = "open"
    /\ run = "opening" /\ ~shut => local = "open"
    /\ NilConnOnlyAtShutdown

LEMMA ConnectionStep ==
    ASSUME ConnectionInv, [Next]_vars PROVE ConnectionInv'
<1> USE DEF ConnectionInv, NilConnOnlyAtShutdown, agent, link, loops
<1>1. CASE \/ RecordCheckResult \/ (\E k \in Reports : RecordAndReport(k))
           \/ Deliver \/ BreakStream \/ Cancel \/ UNCHANGED vars
  BY <1>1, ItemStepsKeepLink
<1>2. CASE \/ SelectTelemetry \/ (\E k \in Reports : SelectReport(k)) \/ Send \/ SendFails
           \/ Heartbeat \/ SelectHeartbeat \/ SelectDone \/ ReceiverStep
  <2>1. UNCHANGED <<shut, run, conn, connected, local, panicked>>
    BY <1>2 DEF SelectTelemetry, SelectReport, Send, SendFails, Heartbeat, SelectHeartbeat,
                SelectDone, ReceiverStep, ReceiveMessage, ReceiveFails
  <2> QED BY <2>1
<1>3. CASE \/ CheckContext \/ ConnectFails \/ OpenStream \/ OpenFails \/ BackOff \/ JoinLoops
  BY <1>3 DEF CheckContext, ConnectFails, OpenStream, OpenFails, BackOff, JoinLoops
<1>4. CASE Connect
  <2>1. connected' = TRUE /\ conn' = "open"
    BY <1>4 DEF Connect
  <2>2. run' = "grabbing" /\ shut' = shut /\ panicked' = panicked
    BY <1>4 DEF Connect
  <2> QED BY <2>1, <2>2
<1>5. CASE GrabConn
  BY <1>5 DEF GrabConn
<1>6. CASE OpenNil
  BY <1>6 DEF OpenNil
<1>7. CASE ForgetConnection
  BY <1>7 DEF ForgetConnection
<1>8. CASE Disconnect
  BY <1>8 DEF Disconnect
<1> QED BY <1>1, <1>2, <1>3, <1>4, <1>5, <1>6, <1>7, <1>8, StepKinds DEF QuietStep

\* NilConnOnlyAtShutdown: RunWithReconnect runs its stream on a nil connection
\* only when Disconnect came between its Connect and its read of c.conn.
THEOREM PanicOnlyAtShutdown == Spec => []NilConnOnlyAtShutdown
<1>1. Init => ConnectionInv
  BY DEF Init, ConnectionInv, NilConnOnlyAtShutdown
<1>2. ConnectionInv => NilConnOnlyAtShutdown
  BY DEF ConnectionInv
<1> QED BY <1>1, <1>2, ConnectionStep, PTL DEF Spec

-----------------------------------------------------------------------------
(* The ring buffer implements the drop-oldest queue *)

LEMMA PushIsQueuePush ==
    ASSUME DataType, emit
    PROVE  \E e \in 1..MaxItems : Buffer!Queue!Push(e)
<1> DEFINE e == produced["telemetry"] + 1
<1>1. e \in 1..MaxItems /\ Buffer!Push(e)
  BY EmitType DEF emit, Numbers
<1> HIDE DEF e
<1>2. Buffer!Snapshot' = IF count = BufferCap THEN Append(Tail(Buffer!Snapshot), e)
                                              ELSE Append(Buffer!Snapshot, e)
  BY <1>1, PushAppends DEF DataType, QueuesType
<1>3. Len(Buffer!Snapshot) = count
  BY SnapshotLength
<1> QED BY <1>1, <1>2, <1>3 DEF Buffer!Queue!Push

LEMMA BufferStep ==
    ASSUME DataType, [Next]_vars
    PROVE  [Buffer!Queue!Next]_(Buffer!Snapshot)
<1>1. CASE RecordCheckResult \/ \E k \in Reports : RecordAndReport(k)
  <2>1. emit
    BY <1>1 DEF RecordCheckResult, RecordAndReport
  <2> QED BY <2>1, PushIsQueuePush DEF Buffer!Queue!Next
<1>2. CASE SelectTelemetry
  <2>1. Buffer!Drain
    BY <1>2 DEF SelectTelemetry
  <2>2. Buffer!Snapshot' = << >>
    BY <2>1, DrainType
  <2> QED BY <2>2 DEF Buffer!Queue!Next, Buffer!Queue!Drain
<1>3. CASE \/ (\E k \in Reports : SelectReport(k)) \/ Send \/ SendFails
           \/ Deliver \/ BreakStream \/ JoinLoops \/ Disconnect
           \/ QuietStep \/ UNCHANGED vars
  <2>1. UNCHANGED <<buf, head, count>>
    BY <1>3, QuietStepKeepsData
       DEF SelectReport, Send, SendFails, Deliver, BreakStream, JoinLoops, Disconnect, data,
           queues, ring, vars
  <2>2. Buffer!Snapshot' = Buffer!Snapshot
    BY <2>1 DEF Buffer!Snapshot
  <2> QED BY <2>2
<1> QED BY <1>1, <1>2, <1>3, StepKinds

\* BufferImplementsQueue: the circular buffer, as the recorder pushes into it
\* and sendTelemetry drains it, is the drop-oldest queue, for every capacity:
\* each record appends and drops at most the oldest event, a drain empties it
\* (TelemetryBuffer.Push, Drain and Snapshot).
THEOREM RingBufferIsQueue == Spec => BufferImplementsQueue
<1>1. Init => Buffer!Queue!Init
  BY InitType DEF Init, Buffer!Init, Buffer!Snapshot, Buffer!Queue!Init
<1>2. DataType /\ [Next]_vars => [Buffer!Queue!Next]_(Buffer!Snapshot)
  BY BufferStep
<1> QED BY <1>1, <1>2, TypeInvariant, PTL
        DEF Spec, BufferImplementsQueue, Buffer!ImplementsQueue, Buffer!Queue!Spec

-----------------------------------------------------------------------------
(* The order of the items *)

Sorted(s) == \A i, j \in 1..Len(s) : i < j => s[i] < s[j]
Values(s) == {s[i] : i \in 1..Len(s)}

\* The items of one kind in a message or on the wire.
SortedOf(items, k) ==
    \A i, j \in 1..Len(items) :
       i < j /\ items[i].kind = k /\ items[j].kind = k => items[i].n < items[j].n

Below(S, T) == \A m \in S, n \in T : m < n

LEMMA AppendSorted ==
    ASSUME NEW s \in Seq(Numbers), NEW n \in Numbers, Sorted(s), Below(Values(s), {n})
    PROVE  Sorted(Append(s, n)) /\ Values(Append(s, n)) \subseteq Values(s) \cup {n}
<1> DEFINE t == Append(s, n)
<1>1. /\ t \in Seq(Numbers) /\ Len(t) = Len(s) + 1 /\ t[Len(s) + 1] = n
      /\ \A i \in 1..Len(s) : t[i] = s[i]
  BY AppendProperties
<1>2. Len(s) \in Nat
  OBVIOUS
<1> HIDE DEF t
<1>3. ASSUME NEW i \in 1..Len(t) PROVE t[i] \in Values(s) \cup {n}
  <2>1. CASE i \in 1..Len(s)
    BY <1>1, <2>1 DEF Values
  <2>2. CASE i = Len(s) + 1
    BY <1>1, <2>2
  <2> QED BY <1>1, <1>2, <2>1, <2>2
<1>4. ASSUME NEW i \in 1..Len(t), NEW j \in 1..Len(t), i < j PROVE t[i] < t[j]
  <2>1. i \in 1..Len(s) /\ t[i] = s[i] /\ s[i] \in Values(s)
    BY <1>1, <1>2, <1>4 DEF Values
  <2>2. CASE j \in 1..Len(s)
    BY <1>1, <1>4, <2>1, <2>2 DEF Sorted
  <2>3. CASE j = Len(s) + 1
    BY <1>1, <2>1, <2>3 DEF Below
  <2> QED BY <1>1, <1>2, <2>2, <2>3
<1> QED BY <1>3, <1>4 DEF Sorted, Values, t

LEMMA TailSorted ==
    ASSUME NEW s \in Seq(Numbers), s # << >>, Sorted(s)
    PROVE  /\ Sorted(Tail(s)) /\ Values(Tail(s)) \subseteq Values(s)
           /\ Head(s) \in Values(s) /\ Below({Head(s)}, Values(Tail(s)))
<1> DEFINE t == Tail(s)
<1>1. /\ Len(s) \in Nat \ {0} /\ Len(t) = Len(s) - 1 /\ Head(s) = s[1]
      /\ \A i \in 1..Len(t) : t[i] = s[i + 1]
  BY HeadTailProperties, EmptySeq
<1> HIDE DEF t
<1>2. \A i \in 1..Len(t) : i + 1 \in 1..Len(s) /\ 1 < i + 1
  BY <1>1
<1>3. Sorted(t)
  BY <1>1, <1>2 DEF Sorted
<1>4. Values(t) \subseteq Values(s)
  BY <1>1, <1>2 DEF Values
<1>5. Head(s) \in Values(s)
  BY <1>1 DEF Values
<1>6. Below({Head(s)}, Values(t))
  BY <1>1, <1>2 DEF Below, Values, Sorted
<1> QED BY <1>3, <1>4, <1>5, <1>6 DEF t

LEMMA TailSortedOf ==
    ASSUME NEW w \in Seq(Item), w # << >>, NEW k, SortedOf(w, k)
    PROVE  /\ SortedOf(Tail(w), k) /\ Of(Tail(w), k) \subseteq Of(w, k)
           /\ Head(w).kind = k => /\ Head(w).n \in Of(w, k)
                                  /\ Below({Head(w).n}, Of(Tail(w), k))
<1> DEFINE t == Tail(w)
<1>1. /\ Len(w) \in Nat \ {0} /\ Len(t) = Len(w) - 1 /\ Head(w) = w[1]
      /\ \A i \in 1..Len(t) : t[i] = w[i + 1]
  BY HeadTailProperties, EmptySeq
<1> HIDE DEF t
<1>2. \A i \in 1..Len(t) : i + 1 \in 1..Len(w) /\ 1 < i + 1
  BY <1>1
<1>3. SortedOf(t, k)
  <2> SUFFICES ASSUME NEW i \in 1..Len(t), NEW j \in 1..Len(t), i < j, t[i].kind = k, t[j].kind = k
               PROVE  t[i].n < t[j].n
    BY DEF SortedOf
  <2>1. t[i] = w[i + 1] /\ t[j] = w[j + 1]
    BY <1>1
  <2>2. i + 1 \in 1..Len(w) /\ j + 1 \in 1..Len(w) /\ i + 1 < j + 1
    BY <1>2
  <2>3. w[i + 1].kind = k /\ w[j + 1].kind = k
    BY <2>1
  <2>4. w[i + 1].n < w[j + 1].n
    BY <2>2, <2>3 DEF SortedOf
  <2> QED BY <2>1, <2>4
<1>4. Of(t, k) \subseteq Of(w, k)
  BY <1>1, <1>2 DEF Of
<1>5. ASSUME Head(w).kind = k PROVE Head(w).n \in Of(w, k) /\ Below({Head(w).n}, Of(t, k))
  <2>1. Head(w).n \in Of(w, k)
    BY <1>1, <1>5 DEF Of
  <2>2. Below({Head(w).n}, Of(t, k))
    BY <1>1, <1>2, <1>5 DEF Below, Of, SortedOf
  <2> QED BY <2>1, <2>2
<1> QED BY <1>3, <1>4, <1>5 DEF t

LEMMA ConcatSortedOf ==
    ASSUME NEW u \in Seq(Item), NEW v \in Seq(Item), NEW k,
           SortedOf(u, k), SortedOf(v, k), Below(Of(u, k), Of(v, k))
    PROVE  SortedOf(u \o v, k) /\ Of(u \o v, k) \subseteq Of(u, k) \cup Of(v, k)
<1> DEFINE t == u \o v
<1>1. /\ Len(u) \in Nat /\ Len(v) \in Nat /\ Len(t) = Len(u) + Len(v)
      /\ \A i \in 1..Len(t) : t[i] = IF i <= Len(u) THEN u[i] ELSE v[i - Len(u)]
  BY ConcatProperties
<1> HIDE DEF t
<1>2. ASSUME NEW i \in 1..Len(t)
      PROVE  \/ i \in 1..Len(u) /\ t[i] = u[i]
             \/ i - Len(u) \in 1..Len(v) /\ Len(u) < i /\ t[i] = v[i - Len(u)]
  BY <1>1
<1>3. ASSUME NEW i \in 1..Len(t), t[i].kind = k
      PROVE  \/ i \in 1..Len(u) /\ t[i] = u[i] /\ t[i].n \in Of(u, k)
             \/ /\ i - Len(u) \in 1..Len(v) /\ Len(u) < i
                /\ t[i] = v[i - Len(u)] /\ t[i].n \in Of(v, k)
  BY <1>2, <1>3 DEF Of
<1>4. Of(t, k) \subseteq Of(u, k) \cup Of(v, k)
  <2>1. ASSUME NEW i \in 1..Len(t), t[i].kind = k PROVE t[i].n \in Of(u, k) \cup Of(v, k)
    BY <1>3, <2>1
  <2> QED BY <2>1 DEF Of
<1>5. ASSUME NEW i \in 1..Len(t), NEW j \in 1..Len(t), i < j, t[i].kind = k, t[j].kind = k
      PROVE  t[i].n < t[j].n
  <2>1. CASE j \in 1..Len(u)
    BY <1>1, <1>2, <1>5, <2>1 DEF SortedOf
  <2>2. CASE i \in 1..Len(u) /\ Len(u) < j
    <3>1. t[i].n \in Of(u, k)
      BY <1>1, <1>3, <1>5, <2>2
    <3>2. t[j].n \in Of(v, k)
      BY <1>1, <1>3, <1>5, <2>2
    <3> QED BY <3>1, <3>2 DEF Below
  <2>3. CASE Len(u) < i
    <3>1. t[i] = v[i - Len(u)] /\ i - Len(u) \in 1..Len(v)
      BY <1>1, <1>2, <2>3
    <3>2. t[j] = v[j - Len(u)] /\ j - Len(u) \in 1..Len(v)
      BY <1>1, <1>2, <1>5, <2>3
    <3>3. i - Len(u) < j - Len(u)
      BY <1>1, <1>5
    <3> QED BY <1>5, <3>1, <3>2, <3>3 DEF SortedOf
  <2> QED BY <1>1, <1>5, <2>1, <2>2, <2>3
<1> QED BY <1>4, <1>5 DEF SortedOf, t

\* A message has the items of its batch, and only of its kind.
LEMMA BatchIs ==
    ASSUME NEW s \in Seq(Numbers), NEW j \in Kinds, NEW k \in Kinds
    PROVE  Of(Batch(j, s), k) = IF j = k THEN Values(s) ELSE {}
<1> DEFINE b == Batch(j, s)
<1>1. Len(b) = Len(s) /\ \A i \in 1..Len(s) : b[i] = [kind |-> j, n |-> s[i]]
  BY BatchType
<1> HIDE DEF b
<1>2. ASSUME NEW i \in 1..Len(s) PROVE b[i].kind = j /\ b[i].n = s[i]
  <2>1. b[i] = [kind |-> j, n |-> s[i]]
    BY <1>1
  <2> QED BY <2>1
<1>3. Of(b, k) = IF j = k THEN Values(s) ELSE {}
  <2>1. CASE j = k
    BY <1>1, <1>2, <2>1 DEF Of, Values
  <2>2. CASE j # k
    BY <1>1, <1>2, <2>2 DEF Of
  <2> QED BY <2>1, <2>2
<1> QED BY <1>3 DEF b

LEMMA BatchSorted ==
    ASSUME NEW s \in Seq(Numbers), NEW j \in Kinds, NEW k \in Kinds, Sorted(s)
    PROVE  /\ SortedOf(Batch(j, s), k)
           /\ Of(Batch(j, s), k) = IF j = k THEN Values(s) ELSE {}
<1> DEFINE b == Batch(j, s)
<1>1. Len(b) = Len(s) /\ \A i \in 1..Len(s) : b[i] = [kind |-> j, n |-> s[i]]
  BY BatchType
<1> HIDE DEF b
<1>2. ASSUME NEW i \in 1..Len(s) PROVE b[i].kind = j /\ b[i].n = s[i]
  <2>1. b[i] = [kind |-> j, n |-> s[i]]
    BY <1>1
  <2> QED BY <2>1
<1>3. SortedOf(b, k)
  BY <1>1, <1>2 DEF SortedOf, Sorted
<1> QED BY <1>3, BatchIs DEF b

\* An item moves from its queue through a message and the wire to the control
\* plane; whatever is ahead on that way was produced earlier.
Chain(got, onWire, out, waiting, p) ==
    /\ Below(got, onWire) /\ Below(got, out) /\ Below(got, waiting)
    /\ Below(onWire, out) /\ Below(onWire, waiting) /\ Below(out, waiting)
    /\ \A n \in got \cup onWire \cup out \cup waiting : n <= p

SortedAt(k) ==
    Sorted(received[k]) /\ SortedOf(wire, k) /\ SortedOf(outbox, k) /\ Sorted(Waiting(k))

ChainAt(k) ==
    Chain(Values(received[k]), Of(wire, k), Of(outbox, k), Values(Waiting(k)), produced[k])

OrderInv == \A k \in Kinds : SortedAt(k) /\ ChainAt(k)

LEMMA WaitingType == DataType => \A k \in Kinds : Waiting(k) \in Seq(Numbers)
BY DEF DataType, QueuesType, LiveSlotsWritten, Waiting, Kinds

LEMMA OrderImpliesProperty == OrderInv => ReceivedInOrder
BY DEF OrderInv, SortedAt, Sorted, ReceivedInOrder

LEMMA EmptyItems ==
    \A k : Of(<< >>, k) = {} /\ SortedOf(<< >>, k) /\ Values(<< >>) = {} /\ Sorted(<< >>)
BY DEF Of, SortedOf, Values, Sorted

LEMMA OrderInit == Init => OrderInv
<1> SUFFICES ASSUME Init, NEW k \in Kinds PROVE SortedAt(k) /\ ChainAt(k)
  BY DEF OrderInv
<1>1. received[k] = << >> /\ wire = << >> /\ outbox = << >>
  BY DEF Init
<1>2. Buffer!Snapshot = << >>
  BY DEF Init, Buffer!Init, Buffer!Snapshot
<1>3. Waiting(k) = << >>
  BY <1>2 DEF Init, Waiting, Kinds
<1> QED BY <1>1, <1>3, EmptyItems DEF SortedAt, ChainAt, Chain, Below

\* What the steps do to a chain: a queue grows by the item just produced, a
\* message takes the head of a queue, is sent, is delivered, or is lost.
LEMMA ChainProduce ==
    ASSUME NEW G \in SUBSET Nat, NEW W \in SUBSET Nat, NEW O \in SUBSET Nat,
           NEW Q \in SUBSET Nat, NEW p \in Nat, Chain(G, W, O, Q, p),
           NEW R, R \subseteq Q \cup {p + 1}
    PROVE  Chain(G, W, O, R, p + 1)
BY DEF Chain, Below

LEMMA ChainTake ==
    ASSUME NEW G, NEW W, NEW O, NEW Q, NEW p, Chain(G, W, O, Q, p),
           NEW M, M \subseteq Q, NEW R, R \subseteq Q, Below(M, R)
    PROVE  Chain(G, W, M, R, p)
BY DEF Chain, Below

LEMMA ChainSend ==
    ASSUME NEW G, NEW W, NEW O, NEW Q, NEW p, Chain(G, W, O, Q, p),
           NEW V, V \subseteq W \cup O
    PROVE  Chain(G, V, {}, Q, p)
BY DEF Chain, Below

LEMMA ChainDeliver ==
    ASSUME NEW G, NEW W, NEW O, NEW Q, NEW p, Chain(G, W, O, Q, p),
           NEW h \in W, NEW V, V \subseteq W, Below({h}, V),
           NEW H, H \subseteq G \cup {h}
    PROVE  Chain(H, V, O, Q, p)
BY DEF Chain, Below

LEMMA ChainLose ==
    ASSUME NEW G, NEW W, NEW O, NEW Q, NEW p, Chain(G, W, O, Q, p),
           NEW V, V \subseteq W, NEW M, M \subseteq O
    PROVE  Chain(G, V, M, Q, p)
BY DEF Chain, Below

LEMMA StationsAreNumbers ==
    ASSUME DataType, NEW k \in Kinds
    PROVE  /\ Values(received[k]) \in SUBSET Numbers /\ Of(wire, k) \in SUBSET Numbers
           /\ Of(outbox, k) \in SUBSET Numbers /\ Values(Waiting(k)) \in SUBSET Numbers
<1>1. ASSUME NEW s \in Seq(Numbers) PROVE Values(s) \subseteq Numbers
  BY DEF Values
<1>2. ASSUME NEW s \in Seq(Item) PROVE Of(s, k) \subseteq Numbers
  <2>1. \A i \in 1..Len(s) : s[i] \in Item
    OBVIOUS
  <2>2. \A i \in 1..Len(s) : s[i].n \in Numbers
    BY <2>1 DEF Item, Numbers
  <2> QED BY <2>2 DEF Of
<1>3. received[k] \in Seq(Numbers) /\ wire \in Seq(Item) /\ outbox \in Seq(Item)
  BY DEF DataType
<1>4. Waiting(k) \in Seq(Numbers)
  BY WaitingType
<1> QED BY <1>1, <1>2, <1>3, <1>4

\* An item is produced, and its queue keeps it, perhaps at the cost of the
\* oldest, or drops it.
LEMMA ProduceOrder ==
    ASSUME DataType, NEW k \in Kinds, SortedAt(k), ChainAt(k),
           produced'[k] = produced[k] + 1, produced[k] + 1 \in Numbers,
           UNCHANGED <<outbox, wire, received>>,
           \/ Waiting(k)' = Waiting(k)
           \/ Waiting(k)' = Append(Waiting(k), produced[k] + 1)
           \/ Waiting(k) # << >> /\ Waiting(k)' = Append(Tail(Waiting(k)), produced[k] + 1)
    PROVE  SortedAt(k)' /\ ChainAt(k)'
<1> DEFINE q == Waiting(k)
           r == Waiting(k)'
           e == produced[k] + 1
<1>1. q \in Seq(Numbers) /\ Sorted(q) /\ e \in Numbers /\ produced[k] \in Nat
  BY WaitingType, ClientConstants DEF SortedAt, DataType
<1>2. Below(Values(q), {e})
  <2>1. \A n \in Values(q) : n <= produced[k] /\ n \in Nat
    BY StationsAreNumbers DEF ChainAt, Chain, Numbers
  <2> QED BY <1>1, <2>1 DEF Below
<1>3. r = q \/ r = Append(q, e) \/ (q # << >> /\ r = Append(Tail(q), e))
  OBVIOUS
<1> HIDE DEF q, r, e
<1>4. Sorted(r) /\ Values(r) \subseteq Values(q) \cup {e}
  <2>1. CASE r = q
    BY <1>1, <2>1
  <2>2. CASE r = Append(q, e)
    BY <1>1, <1>2, <2>2, AppendSorted
  <2>3. CASE q # << >> /\ r = Append(Tail(q), e)
    <3>1. Tail(q) \in Seq(Numbers) /\ Sorted(Tail(q)) /\ Values(Tail(q)) \subseteq Values(q)
      BY <1>1, <2>3, TailSorted, HeadTailProperties
    <3>2. Below(Values(Tail(q)), {e})
      BY <1>2, <3>1 DEF Below
    <3>3. Sorted(r) /\ Values(r) \subseteq Values(Tail(q)) \cup {e}
      BY <1>1, <2>3, <3>1, <3>2, AppendSorted
    <3> QED BY <3>1, <3>3
  <2> QED BY <1>3, <2>1, <2>2, <2>3
<1>5. Chain(Values(received[k]), Of(wire, k), Of(outbox, k), Values(r), e)
  <2>1. /\ Values(received[k]) \in SUBSET Nat /\ Of(wire, k) \in SUBSET Nat
        /\ Of(outbox, k) \in SUBSET Nat /\ Values(q) \in SUBSET Nat
    <3>1. /\ Values(received[k]) \in SUBSET Numbers /\ Of(wire, k) \in SUBSET Numbers
          /\ Of(outbox, k) \in SUBSET Numbers /\ Values(q) \in SUBSET Numbers
      BY StationsAreNumbers DEF q
    <3>2. Numbers \subseteq Nat
      BY ClientConstants DEF Numbers
    <3> QED BY <3>1, <3>2
  <2>2. Chain(Values(received[k]), Of(wire, k), Of(outbox, k), Values(q), produced[k])
    BY DEF ChainAt, q
  <2> QED BY <1>1, <1>4, <2>1, <2>2, ChainProduce DEF e
<1>6. SortedAt(k)'
  BY <1>4 DEF SortedAt, r
<1>7. ChainAt(k)'
  BY <1>5 DEF ChainAt, r, e
<1> QED BY <1>6, <1>7

LEMMA UnchangedOrder ==
    ASSUME NEW k \in Kinds, SortedAt(k), ChainAt(k),
           UNCHANGED <<outbox, wire, received>>,
           Waiting(k)' = Waiting(k), produced'[k] = produced[k]
    PROVE  SortedAt(k)' /\ ChainAt(k)'
BY DEF SortedAt, ChainAt

LEMMA RecordOrder ==
    ASSUME DataType, OrderInv,
           RecordCheckResult \/ \E k \in Reports : RecordAndReport(k)
    PROVE  OrderInv'
<1>1. PICK r \in Reports \cup {"none"} :
         IF r = "none" THEN RecordCheckResult ELSE RecordAndReport(r)
  BY DEF Reports
<1>2. emit /\ UNCHANGED <<outbox, wire, received>>
  BY <1>1 DEF RecordCheckResult, RecordAndReport
<1>3. produced \in [Kinds -> 0..MaxItems] /\ "telemetry" \in Kinds
  BY DEF DataType, Kinds
<1> DEFINE e == produced["telemetry"] + 1
<1>4. e \in Numbers /\ e \in 1..MaxItems /\ Buffer!Push(e)
  BY <1>2, EmitType DEF emit, Numbers
<1>5. /\ produced'["telemetry"] = e
      /\ r # "none" => /\ produced'[r] = produced[r] + 1
                       /\ channels' = [channels EXCEPT ![r] = Reported(r)]
      /\ r = "none" => channels' = channels
      /\ \A k \in Kinds : k # r /\ k # "telemetry" => produced'[k] = produced[k]
  BY <1>1, <1>3 DEF RecordCheckResult, RecordAndReport, Reports, Kinds
<1>6. Buffer!Snapshot' = IF count = BufferCap THEN Append(Tail(Buffer!Snapshot), e)
                                              ELSE Append(Buffer!Snapshot, e)
  BY <1>4, PushAppends DEF DataType, QueuesType
<1>7. count = BufferCap => Buffer!Snapshot # << >>
  BY SnapshotLength, ClientConstants, EmptySeq
<1> HIDE DEF e
<1> SUFFICES ASSUME NEW k \in Kinds PROVE SortedAt(k)' /\ ChainAt(k)'
  BY DEF OrderInv
<1>8. SortedAt(k) /\ ChainAt(k)
  BY DEF OrderInv
<1>9. CASE k = "telemetry"
  <2>1. Waiting(k) = Buffer!Snapshot /\ Waiting(k)' = Buffer!Snapshot'
    BY <1>9 DEF Waiting
  <2>2. produced'[k] = produced[k] + 1 /\ e = produced[k] + 1
    BY <1>5, <1>9 DEF e
  <2> QED BY <1>2, <1>4, <1>6, <1>7, <1>8, <2>1, <2>2, ProduceOrder
<1>10. CASE k # "telemetry" /\ k = r
  <2>1. Waiting(k) = channels[k] /\ Waiting(k)' = Reported(k) /\ k \in Reports
    BY <1>5, <1>10 DEF Waiting, Kinds, Reports, DataType, QueuesType
  <2>2. Waiting(k)' = Waiting(k) \/ Waiting(k)' = Append(Waiting(k), produced[k] + 1)
    BY <2>1 DEF Reported
  <2>3. produced[k] + 1 \in Numbers
    <3>1. produced[k] <= produced["telemetry"]
      BY <2>1 DEF DataType, ReportsBehindEvents
    <3> QED BY <1>3, <1>4, <3>1, ClientConstants DEF e, Numbers
  <2>4. produced'[k] = produced[k] + 1
    BY <1>5, <1>10, <2>1 DEF Reports
  <2> QED BY <1>2, <1>8, <2>2, <2>3, <2>4, ProduceOrder
<1>11. CASE k # "telemetry" /\ k # r
  <2>1. Waiting(k)' = Waiting(k) /\ produced'[k] = produced[k]
    BY <1>5, <1>11 DEF Waiting, Kinds, DataType, QueuesType
  <2> QED BY <1>2, <1>8, <2>1, UnchangedOrder
<1> QED BY <1>9, <1>10, <1>11

LEMMA TelemetryOrder ==
    ASSUME DataType, OrderInv, SelectTelemetry PROVE OrderInv'
<1>1. /\ outbox' = Batch("telemetry", Buffer!Snapshot) /\ Buffer!Snapshot' = << >>
      /\ UNCHANGED <<produced, channels, wire, received>>
  BY DrainType DEF SelectTelemetry
<1> SUFFICES ASSUME NEW k \in Kinds PROVE SortedAt(k)' /\ ChainAt(k)'
  BY DEF OrderInv
<1>2. SortedAt(k) /\ ChainAt(k) /\ Sorted(Buffer!Snapshot)
  BY DEF OrderInv, SortedAt, Waiting, Kinds
<1>3. /\ SortedOf(outbox', k)
      /\ Of(outbox', k) = IF k = "telemetry" THEN Values(Buffer!Snapshot) ELSE {}
  BY <1>1, <1>2, BatchSorted DEF DataType, QueuesType, LiveSlotsWritten, Kinds
<1>4. Waiting(k)' = IF k = "telemetry" THEN << >> ELSE Waiting(k)
  BY <1>1 DEF Waiting
<1>5. /\ Sorted(Waiting(k)') /\ Values(Waiting(k)') \subseteq Values(Waiting(k))
      /\ Of(outbox', k) \subseteq Values(Waiting(k)) /\ Below(Of(outbox', k), Values(Waiting(k)'))
  BY <1>2, <1>3, <1>4, EmptyItems DEF SortedAt, Below, Waiting
<1>6. Chain(Values(received[k]), Of(wire, k), Of(outbox', k), Values(Waiting(k)'), produced[k])
  BY <1>2, <1>5, ChainTake DEF ChainAt
<1>7. SortedAt(k)'
  BY <1>1, <1>2, <1>3, <1>5 DEF SortedAt
<1> QED BY <1>1, <1>6, <1>7 DEF ChainAt

LEMMA ReportOrder ==
    ASSUME DataType, OrderInv, NEW r \in Reports, SelectReport(r) PROVE OrderInv'
<1> DEFINE q == channels[r]
<1>1. q \in Seq(Numbers) /\ q # << >>
  BY DEF SelectReport, DataType, QueuesType
<1>2. /\ outbox' = Batch(r, <<Head(q)>>) /\ channels' = [channels EXCEPT ![r] = Tail(q)]
      /\ UNCHANGED <<produced, buf, head, count, wire, received>>
  BY DEF SelectReport, ring
<1>3. Waiting(r) = q /\ Waiting(r)' = Tail(q) /\ r \in Kinds
  BY <1>2 DEF Waiting, Reports, Kinds, DataType, QueuesType
<1>4. ASSUME NEW k \in Kinds, k # r PROVE Waiting(k)' = Waiting(k)
  BY <1>2, <1>4 DEF Waiting, Kinds, Buffer!Snapshot, DataType, QueuesType
<1> HIDE DEF q
<1>5. Sorted(q)
  BY <1>3 DEF OrderInv, SortedAt
<1>6. /\ Sorted(Tail(q)) /\ Values(Tail(q)) \subseteq Values(q)
      /\ Head(q) \in Values(q) /\ Below({Head(q)}, Values(Tail(q)))
  BY <1>1, <1>5, TailSorted
<1> DEFINE m == <<Head(q)>>
<1>7. m \in Seq(Numbers) /\ Values(m) = {Head(q)} /\ Sorted(m)
  <2>1. Head(q) \in Numbers
    BY <1>1, HeadTailProperties
  <2>2. Len(m) = 1 /\ m[1] = Head(q)
    OBVIOUS
  <2>3. m \in Seq(Numbers)
    BY <2>1
  <2> HIDE DEF m
  <2> QED BY <2>2, <2>3 DEF Values, Sorted
<1> HIDE DEF m
<1> SUFFICES ASSUME NEW k \in Kinds PROVE SortedAt(k)' /\ ChainAt(k)'
  BY DEF OrderInv
<1>8. SortedAt(k) /\ ChainAt(k)
  BY DEF OrderInv
<1>9. SortedOf(outbox', k) /\ Of(outbox', k) = IF r = k THEN {Head(q)} ELSE {}
  BY <1>2, <1>3, <1>7, BatchSorted DEF m
<1>10. /\ Sorted(Waiting(k)') /\ Values(Waiting(k)') \subseteq Values(Waiting(k))
       /\ Of(outbox', k) \subseteq Values(Waiting(k)) /\ Below(Of(outbox', k), Values(Waiting(k)'))
  <2>1. CASE k = r
    BY <1>3, <1>6, <1>9, <2>1
  <2>2. CASE k # r
    BY <1>4, <1>8, <1>9, <2>2 DEF SortedAt, Below
  <2> QED BY <2>1, <2>2
<1>11. Chain(Values(received[k]), Of(wire, k), Of(outbox', k), Values(Waiting(k)'), produced[k])
  BY <1>8, <1>10, ChainTake DEF ChainAt
<1>12. SortedAt(k)'
  BY <1>2, <1>8, <1>9, <1>10 DEF SortedAt
<1> QED BY <1>2, <1>11, <1>12 DEF ChainAt

LEMMA SendOrder ==
    ASSUME DataType, OrderInv, Send PROVE OrderInv'
<1>1. /\ wire' = wire \o outbox /\ outbox' = << >>
      /\ UNCHANGED <<produced, buf, head, count, channels, received>>
  BY DEF Send, queues
<1> SUFFICES ASSUME NEW k \in Kinds PROVE SortedAt(k)' /\ ChainAt(k)'
  BY DEF OrderInv
<1>2. SortedAt(k) /\ ChainAt(k)
  BY DEF OrderInv
<1>3. Waiting(k)' = Waiting(k)
  BY <1>1 DEF Waiting, Buffer!Snapshot
<1>4. Of(outbox', k) = {} /\ SortedOf(outbox', k)
  BY <1>1, EmptyItems
<1>5. SortedOf(wire', k) /\ Of(wire', k) \subseteq Of(wire, k) \cup Of(outbox, k)
  <2>1. wire \in Seq(Item) /\ outbox \in Seq(Item)
    BY DEF DataType
  <2>2. SortedOf(wire, k) /\ SortedOf(outbox, k) /\ Below(Of(wire, k), Of(outbox, k))
    BY <1>2 DEF SortedAt, ChainAt, Chain
  <2> QED BY <1>1, <2>1, <2>2, ConcatSortedOf
<1>6. Chain(Values(received[k]), Of(wire', k), {}, Values(Waiting(k)), produced[k])
  BY <1>2, <1>5, ChainSend DEF ChainAt
<1>7. SortedAt(k)'
  BY <1>1, <1>2, <1>3, <1>4, <1>5 DEF SortedAt
<1> QED BY <1>1, <1>3, <1>4, <1>6, <1>7 DEF ChainAt

\* Items that are lost leave the others in order.
LEMMA LoseOrder ==
    ASSUME OrderInv, wire' = wire \/ wire' = << >>, outbox' = outbox \/ outbox' = << >>,
           UNCHANGED <<produced, buf, head, count, channels, received>>
    PROVE  OrderInv'
<1> SUFFICES ASSUME NEW k \in Kinds PROVE SortedAt(k)' /\ ChainAt(k)'
  BY DEF OrderInv
<1>1. SortedAt(k) /\ ChainAt(k)
  BY DEF OrderInv
<1>2. Waiting(k)' = Waiting(k)
  BY DEF Waiting, Buffer!Snapshot
<1>3. SortedOf(wire', k) /\ Of(wire', k) \subseteq Of(wire, k)
  BY <1>1, EmptyItems DEF SortedAt
<1>4. SortedOf(outbox', k) /\ Of(outbox', k) \subseteq Of(outbox, k)
  BY <1>1, EmptyItems DEF SortedAt
<1>5. Chain(Values(received[k]), Of(wire', k), Of(outbox', k), Values(Waiting(k)), produced[k])
  BY <1>1, <1>3, <1>4, ChainLose DEF ChainAt
<1>6. SortedAt(k)'
  BY <1>1, <1>2, <1>3, <1>4 DEF SortedAt
<1> QED BY <1>2, <1>5, <1>6 DEF ChainAt

LEMMA DeliverOrder ==
    ASSUME DataType, OrderInv, Deliver PROVE OrderInv'
<1>1. wire \in Seq(Item) /\ wire # << >> /\ received \in [Kinds -> Seq(Numbers)]
  BY DEF Deliver, DataType
<1>2. PICK h \in Item : h = Head(wire)
  BY <1>1, HeadTailProperties
<1>3. h.kind \in Kinds /\ h.n \in Numbers
  BY DEF Item, Numbers
<1>4. /\ received' = [received EXCEPT ![h.kind] = Append(received[h.kind], h.n)]
      /\ wire' = Tail(wire) /\ UNCHANGED <<produced, buf, head, count, channels, outbox>>
  BY <1>2 DEF Deliver, queues
<1> SUFFICES ASSUME NEW k \in Kinds PROVE SortedAt(k)' /\ ChainAt(k)'
  BY DEF OrderInv
<1>5. SortedAt(k) /\ ChainAt(k)
  BY DEF OrderInv
<1>6. Waiting(k)' = Waiting(k)
  BY <1>4 DEF Waiting, Buffer!Snapshot
<1>7. /\ SortedOf(wire', k) /\ Of(wire', k) \subseteq Of(wire, k)
      /\ h.kind = k => h.n \in Of(wire, k) /\ Below({h.n}, Of(wire', k))
  BY <1>1, <1>2, <1>4, <1>5, TailSortedOf DEF SortedAt
<1>8. CASE h.kind = k
  <2>1. received'[k] = Append(received[k], h.n) /\ received[k] \in Seq(Numbers)
    BY <1>1, <1>4, <1>8
  <2>2. Sorted(received[k]) /\ Below(Values(received[k]), {h.n})
    BY <1>5, <1>7, <1>8 DEF SortedAt, ChainAt, Chain, Below
  <2>3. /\ Sorted(received'[k])
        /\ Values(received'[k]) \subseteq Values(received[k]) \cup {h.n}
    BY <1>3, <2>1, <2>2, AppendSorted
  <2>4. Chain(Values(received'[k]), Of(wire', k), Of(outbox, k), Values(Waiting(k)), produced[k])
    BY <1>5, <1>7, <1>8, <2>3, ChainDeliver DEF ChainAt
  <2>5. SortedAt(k)'
    BY <1>4, <1>5, <1>6, <1>7, <2>3 DEF SortedAt
  <2> QED BY <1>4, <1>6, <2>4, <2>5 DEF ChainAt
<1>9. CASE h.kind # k
  <2>1. received'[k] = received[k]
    BY <1>1, <1>4, <1>9
  <2>2. Chain(Values(received[k]), Of(wire', k), Of(outbox, k), Values(Waiting(k)), produced[k])
    BY <1>5, <1>7, ChainLose DEF ChainAt
  <2>3. SortedAt(k)'
    BY <1>4, <1>5, <1>6, <1>7, <2>1 DEF SortedAt
  <2> QED BY <1>4, <1>6, <2>1, <2>2, <2>3 DEF ChainAt
<1> QED BY <1>8, <1>9

LEMMA OrderStep == ASSUME DataType, OrderInv, [Next]_vars PROVE OrderInv'
<1>1. CASE SendFails \/ BreakStream \/ JoinLoops \/ Disconnect \/ QuietStep \/ UNCHANGED vars
  <2>1. (wire' = wire \/ wire' = << >>) /\ (outbox' = outbox \/ outbox' = << >>)
    BY <1>1, QuietStepKeepsData
       DEF SendFails, BreakStream, JoinLoops, Disconnect, data, vars
  <2>2. UNCHANGED <<produced, buf, head, count, channels, received>>
    BY <1>1, QuietStepKeepsData
       DEF SendFails, BreakStream, JoinLoops, Disconnect, data, queues, vars
  <2> QED BY <2>1, <2>2, LoseOrder
<1> QED BY <1>1, StepKinds, RecordOrder, TelemetryOrder, ReportOrder, SendOrder, DeliverOrder

\* ReceivedInOrder: the control plane gets the items of a kind in the order of
\* their production and none twice, whatever the capacities, the drops and the
\* streams that break (Recorder, TelemetryBuffer, sendLoop and its send methods).
THEOREM ItemsArriveInOrder == Spec => []ReceivedInOrder
<1>1. DataType /\ OrderInv /\ [Next]_vars => OrderInv'
  BY OrderStep
<1> QED BY <1>1, OrderInit, OrderImpliesProperty, TypeInvariant, PTL DEF Spec

-----------------------------------------------------------------------------
(* What is lost *)

\* sendLoop holds a message only between the select that made it and its Send.
OutboxInv == sender # "sending" => outbox = << >>

LEMMA OutboxStep == ASSUME NoOrphanLoops, OutboxInv, [Next]_vars PROVE OutboxInv'
<1> USE DEF OutboxInv, agent, link, loops, data, queues
<1>1. CASE RecordCheckResult \/ \E k \in Reports : RecordAndReport(k)
  BY <1>1 DEF RecordCheckResult, RecordAndReport
<1>2. CASE SelectTelemetry \/ (\E k \in Reports : SelectReport(k)) \/ Send \/ SendFails
  BY <1>2 DEF SelectTelemetry, SelectReport, Send, SendFails
<1>3. CASE Deliver \/ BreakStream \/ JoinLoops \/ Disconnect
  BY <1>3 DEF Deliver, BreakStream, JoinLoops, Disconnect
<1>4. CASE OpenStream
  \* Only here does NoOrphanLoops matter: no loop holds a message when a stream opens.
  BY <1>4 DEF OpenStream, NoOrphanLoops
<1>5. CASE \/ CheckContext \/ Connect \/ ConnectFails \/ GrabConn \/ OpenNil \/ OpenFails
           \/ ForgetConnection \/ BackOff
  BY <1>5 DEF CheckContext, Connect, ConnectFails, GrabConn, OpenNil, OpenFails,
              ForgetConnection, BackOff
<1>6. CASE Heartbeat \/ SelectHeartbeat \/ SelectDone
  BY <1>6 DEF Heartbeat, SelectHeartbeat, SelectDone
<1>7. CASE ReceiverStep \/ Cancel
  BY <1>7 DEF ReceiverStep, ReceiveMessage, ReceiveFails, Cancel
<1>8. CASE UNCHANGED vars
  BY <1>8 DEF vars
<1> QED BY <1>1, <1>2, <1>3, <1>4, <1>5, <1>6, <1>7, <1>8, StepKinds DEF QuietStep

LEMMA ValuesIs == ASSUME NEW s \in Seq(Numbers) PROVE ToSet(s) = Values(s)
BY DEF ToSet, Values

LEMMA AppendValues ==
    ASSUME NEW s \in Seq(Numbers), NEW n \in Numbers
    PROVE  Values(s) \cup {n} \subseteq Values(Append(s, n))
<1> DEFINE t == Append(s, n)
<1>1. /\ Len(t) = Len(s) + 1 /\ t[Len(s) + 1] = n /\ Len(s) \in Nat
      /\ \A i \in 1..Len(s) : t[i] = s[i]
  BY AppendProperties
<1> HIDE DEF t
<1>2. Len(s) + 1 \in 1..Len(t) /\ \A i \in 1..Len(s) : i \in 1..Len(t)
  BY <1>1
<1>3. n \in Values(t)
  BY <1>1, <1>2 DEF Values
<1>4. Values(s) \subseteq Values(t)
  BY <1>1, <1>2 DEF Values
<1> QED BY <1>3, <1>4 DEF t

LEMMA TailValues ==
    ASSUME NEW s \in Seq(Numbers), s # << >>
    PROVE  Values(s) \subseteq Values(Tail(s)) \cup {Head(s)}
<1> DEFINE t == Tail(s)
<1>1. /\ Len(s) \in Nat \ {0} /\ Len(t) = Len(s) - 1 /\ Head(s) = s[1]
      /\ \A i \in 1..Len(t) : t[i] = s[i + 1]
  BY HeadTailProperties, EmptySeq
<1> HIDE DEF t
<1>2. ASSUME NEW i \in 1..Len(s), i # 1 PROVE s[i] \in Values(t)
  <2>1. i - 1 \in 1..Len(t) /\ t[i - 1] = s[i]
    BY <1>1, <1>2
  <2> QED BY <2>1 DEF Values
<1> QED BY <1>1, <1>2 DEF Values, t

LEMMA TailOf ==
    ASSUME NEW w \in Seq(Item), w # << >>, NEW k
    PROVE  \A n \in Of(w, k) : n \in Of(Tail(w), k) \/ (Head(w).kind = k /\ n = Head(w).n)
<1> DEFINE t == Tail(w)
<1>1. /\ Len(w) \in Nat \ {0} /\ Len(t) = Len(w) - 1 /\ Head(w) = w[1]
      /\ \A i \in 1..Len(t) : t[i] = w[i + 1]
  BY HeadTailProperties, EmptySeq
<1> HIDE DEF t
<1>2. ASSUME NEW i \in 1..Len(w), w[i].kind = k, i # 1 PROVE w[i].n \in Of(t, k)
  <2>1. i - 1 \in 1..Len(t) /\ t[i - 1] = w[i]
    BY <1>1, <1>2
  <2> QED BY <1>2, <2>1 DEF Of
<1> QED BY <1>1, <1>2 DEF Of, t

LEMMA ConcatOf ==
    ASSUME NEW u \in Seq(Item), NEW v \in Seq(Item), NEW k
    PROVE  Of(u, k) \cup Of(v, k) \subseteq Of(u \o v, k)
<1> DEFINE t == u \o v
<1>1. /\ Len(u) \in Nat /\ Len(v) \in Nat /\ Len(t) = Len(u) + Len(v)
      /\ \A i \in 1..Len(t) : t[i] = IF i <= Len(u) THEN u[i] ELSE v[i - Len(u)]
  BY ConcatProperties
<1> HIDE DEF t
<1>2. \A i \in 1..Len(u) : i \in 1..Len(t) /\ t[i] = u[i]
  BY <1>1
<1>3. \A i \in 1..Len(v) : i + Len(u) \in 1..Len(t) /\ t[i + Len(u)] = v[i]
  BY <1>1
<1>4. Of(u, k) \subseteq Of(t, k)
  BY <1>2 DEF Of
<1>5. Of(v, k) \subseteq Of(t, k)
  BY <1>3 DEF Of
<1> QED BY <1>4, <1>5 DEF t

LEMMA HeldIs ==
    ASSUME DataType, NEW k \in Kinds
    PROVE  /\ Held(k) = Values(Waiting(k)) \cup Of(outbox, k) \cup Of(wire, k)
                        \cup Values(received[k])
           /\ Waiting(k) \in Seq(Numbers) /\ received[k] \in Seq(Numbers)
<1>1. Waiting(k) \in Seq(Numbers) /\ received[k] \in Seq(Numbers)
  BY WaitingType DEF DataType
<1> QED BY <1>1, ValuesIs DEF Held

LEMMA HeldIsNext ==
    ASSUME DataType', NEW k \in Kinds
    PROVE  Held(k)' = Values(Waiting(k)') \cup Of(outbox', k) \cup Of(wire', k)
                      \cup Values(received'[k])
<1>1. Waiting(k)' \in Seq(Numbers) /\ received'[k] \in Seq(Numbers)
  BY DEF DataType, QueuesType, LiveSlotsWritten, Waiting, Kinds
<1>2. ToSet(Waiting(k)') = Values(Waiting(k)') /\ ToSet(received'[k]) = Values(received'[k])
  BY <1>1, ValuesIs
<1> QED BY <1>2 DEF Held

\* What LossesAreNamed says of one kind.
NamedLoss(k, n) ==
    \/ k = "telemetry" /\ produced' # produced /\ Buffer!Full /\ n = Head(Waiting(k))
    \/ n \in Of(outbox, k) /\ stream = "broken"
    \/ n \in Of(wire, k) /\ stream' # "up"

KeepsItems(k) == \A n \in Held(k) : n \in Held(k)' \/ NamedLoss(k, n)

KeepsNew(k) ==
    produced'[k] # produced[k] =>
       produced'[k] \in Held(k)' \/ (k \in Reports /\ Len(channels[k]) = ReportCap)

\* A record: the queue takes the new item, or drops it because it is a report
\* to a full channel; a full buffer drops its oldest.
LEMMA RecordLosses ==
    ASSUME DataType, DataType', NEW k \in Kinds,
           RecordCheckResult \/ \E r \in Reports : RecordAndReport(r)
    PROVE  KeepsItems(k) /\ KeepsNew(k)
<1>0. PICK r \in Reports \cup {"none"} :
         IF r = "none" THEN RecordCheckResult ELSE RecordAndReport(r)
  BY DEF Reports
<1>1. emit /\ UNCHANGED <<outbox, wire, received>>
  BY <1>0 DEF RecordCheckResult, RecordAndReport
<1>2. /\ Held(k) = Values(Waiting(k)) \cup Of(outbox, k) \cup Of(wire, k) \cup Values(received[k])
      /\ Held(k)' = Values(Waiting(k)') \cup Of(outbox, k) \cup Of(wire, k) \cup Values(received[k])
      /\ Waiting(k) \in Seq(Numbers)
  BY <1>1, HeldIs, HeldIsNext
<1>3. produced \in [Kinds -> 0..MaxItems] /\ "telemetry" \in Kinds
  BY DEF DataType, Kinds
<1>4. CASE k = "telemetry"
  <2> DEFINE q == Waiting(k)
             e == produced["telemetry"] + 1
  <2>1. e \in Numbers /\ e \in 1..MaxItems /\ Buffer!Push(e)
    BY <1>1, EmitType DEF emit, Numbers
  <2>2. q = Buffer!Snapshot /\ Waiting(k)' = Buffer!Snapshot'
    BY <1>4 DEF Waiting
  <2>3. produced'[k] = e /\ produced' # produced
    BY <1>0, <1>3, <1>4 DEF RecordCheckResult, RecordAndReport, Reports, Kinds
  <2> HIDE DEF e
  <2>4. Waiting(k)' = IF count = BufferCap THEN Append(Tail(q), e) ELSE Append(q, e)
    BY <2>1, <2>2, PushAppends DEF DataType, QueuesType
  <2>5. count = BufferCap => q # << >> /\ Buffer!Full
    BY <2>2, SnapshotLength, ClientConstants, EmptySeq DEF Buffer!Full
  <2>6. q \in Seq(Numbers)
    BY <1>2
  <2> HIDE DEF q
  <2>7. CASE count = BufferCap
    <3>1. Tail(q) \in Seq(Numbers) /\ Values(q) \subseteq Values(Tail(q)) \cup {Head(q)}
      BY <2>5, <2>6, <2>7, TailValues, HeadTailProperties
    <3>2. Values(Tail(q)) \cup {e} \subseteq Values(Waiting(k)')
      BY <2>1, <2>4, <2>7, <3>1, AppendValues
    <3> QED BY <1>2, <1>4, <2>3, <2>5, <2>7, <3>1, <3>2 DEF KeepsItems, KeepsNew, NamedLoss, q
  <2>8. CASE count # BufferCap
    <3>1. Values(q) \cup {e} \subseteq Values(Waiting(k)')
      BY <2>1, <2>4, <2>6, <2>8, AppendValues
    <3> QED BY <1>2, <2>3, <3>1 DEF KeepsItems, KeepsNew, q
  <2> QED BY <2>7, <2>8
<1>5. CASE k # "telemetry" /\ k = r
  <2>1. /\ k \in Reports /\ Waiting(k) = channels[k] /\ Waiting(k)' = Reported(k)
        /\ produced'[k] = produced[k] + 1
    BY <1>0, <1>3, <1>5 DEF RecordAndReport, Waiting, Kinds, Reports, DataType, QueuesType
  <2>2. produced[k] + 1 \in Numbers
    <3>1. produced'[k] \in 0..MaxItems /\ produced[k] \in 0..MaxItems
      BY <1>3 DEF DataType
    <3> QED BY <2>1, <3>1, ClientConstants DEF Numbers
  <2>3. CASE Len(channels[k]) < ReportCap
    <3>1. Waiting(k)' = Append(Waiting(k), produced[k] + 1)
      BY <2>1, <2>3 DEF Reported
    <3>2. Values(Waiting(k)) \cup {produced[k] + 1} \subseteq Values(Waiting(k)')
      BY <1>2, <2>2, <3>1, AppendValues
    <3> QED BY <1>2, <2>1, <3>2 DEF KeepsItems, KeepsNew
  <2>4. CASE ~(Len(channels[k]) < ReportCap)
    <3>1. Waiting(k)' = Waiting(k)
      BY <2>1, <2>4 DEF Reported
    <3>2. Len(channels[k]) = ReportCap
      <4>1. Len(channels[k]) <= ReportCap /\ Len(channels[k]) \in Nat /\ ReportCap \in Nat
        BY <2>1, ClientConstants, LenProperties DEF DataType, QueuesType
      <4> QED BY <2>4, <4>1
    <3> QED BY <1>2, <2>1, <3>1, <3>2 DEF KeepsItems, KeepsNew
  <2> QED BY <2>3, <2>4
<1>6. CASE k # "telemetry" /\ k # r
  <2>1. produced'[k] = produced[k]
    BY <1>0, <1>3, <1>6 DEF RecordCheckResult, RecordAndReport, Kinds, Reports
  <2>2. Waiting(k)' = Waiting(k)
    BY <1>0, <1>6 DEF RecordCheckResult, RecordAndReport, Waiting, Kinds, DataType, QueuesType
  <2> QED BY <1>2, <2>1, <2>2 DEF KeepsItems, KeepsNew
<1> QED BY <1>4, <1>5, <1>6

\* A message takes items from a queue; sendLoop holds no other one.
LEMMA SelectLosses ==
    ASSUME DataType, DataType', OutboxInv, NEW k \in Kinds,
           SelectTelemetry \/ \E r \in Reports : SelectReport(r)
    PROVE  KeepsItems(k) /\ KeepsNew(k)
<1>0. /\ outbox = << >> /\ UNCHANGED <<produced, wire, received>>
  BY DEF SelectTelemetry, SelectReport, OutboxInv
<1>1. KeepsNew(k)
  BY <1>0 DEF KeepsNew
<1>2. /\ Held(k) = Values(Waiting(k)) \cup Of(outbox, k) \cup Of(wire, k) \cup Values(received[k])
      /\ Held(k)' = Values(Waiting(k)') \cup Of(outbox', k) \cup Of(wire, k) \cup Values(received[k])
      /\ Waiting(k) \in Seq(Numbers) /\ Of(outbox, k) = {}
  BY <1>0, HeldIs, HeldIsNext, EmptyItems
<1>3. CASE SelectTelemetry
  <2>1. outbox' = Batch("telemetry", Buffer!Snapshot) /\ UNCHANGED channels
    BY <1>3 DEF SelectTelemetry
  <2>2. k # "telemetry" => Waiting(k)' = Waiting(k)
    BY <2>1 DEF Waiting
  <2>3. k = "telemetry" => Of(outbox', k) = Values(Waiting(k))
    <3>1. Buffer!Snapshot \in Seq(Numbers) /\ "telemetry" \in Kinds
      BY DEF DataType, QueuesType, LiveSlotsWritten, Kinds
    <3>2. Of(Batch("telemetry", Buffer!Snapshot), "telemetry") = Values(Buffer!Snapshot)
      BY <3>1, BatchIs
    <3> QED BY <2>1, <3>2 DEF Waiting
  <2> QED BY <1>1, <1>2, <2>2, <2>3 DEF KeepsItems
<1>4. ASSUME NEW r \in Reports, SelectReport(r) PROVE KeepsItems(k)
  <2> DEFINE q == channels[r]
  <2>1. /\ q \in Seq(Numbers) /\ q # << >> /\ outbox' = Batch(r, <<Head(q)>>)
        /\ channels' = [channels EXCEPT ![r] = Tail(q)] /\ UNCHANGED <<buf, head, count>>
        /\ r \in Kinds /\ channels \in [Reports -> Seq(Numbers)]
    BY <1>4 DEF SelectReport, DataType, QueuesType, ring, Kinds
  <2>2. CASE k = r
    <3>1. Waiting(k) = q /\ Waiting(k)' = Tail(q)
      BY <2>1, <2>2 DEF Waiting, Reports
    <3>2. Values(q) \subseteq Values(Tail(q)) \cup {Head(q)}
      BY <2>1, TailValues
    <3>3. Head(q) \in Of(outbox', k)
      <4> DEFINE m == <<Head(q)>>
      <4>1. Head(q) \in Numbers
        BY <2>1, HeadTailProperties
      <4>2. m \in Seq(Numbers) /\ Len(m) = 1 /\ m[1] = Head(q)
        BY <4>1
      <4> HIDE DEF m
      <4>3. Head(q) \in Values(m)
        BY <4>2 DEF Values
      <4>4. Of(Batch(r, m), r) = Values(m)
        BY <2>1, <4>2, BatchIs
      <4>5. outbox' = Batch(r, m)
        BY <2>1 DEF m
      <4> QED BY <2>2, <4>3, <4>4, <4>5
    <3> HIDE DEF q
    <3> QED BY <1>2, <3>1, <3>2, <3>3 DEF KeepsItems
  <2>3. CASE k # r
    <3>1. Waiting(k)' = Waiting(k)
      BY <2>1, <2>3 DEF Waiting, Kinds, Buffer!Snapshot
    <3> QED BY <1>2, <3>1 DEF KeepsItems
  <2> QED BY <2>2, <2>3
<1> QED BY <1>1, <1>3, <1>4

\* A Send that succeeds, a failed one, a delivery and the end of a stream.
LEMMA NetworkLosses ==
    ASSUME DataType, DataType', NEW k \in Kinds,
           Send \/ SendFails \/ Deliver \/ BreakStream \/ JoinLoops \/ Disconnect
    PROVE  KeepsItems(k) /\ KeepsNew(k)
<1>0. UNCHANGED <<produced, buf, head, count, channels>>
  BY DEF Send, SendFails, Deliver, BreakStream, JoinLoops, Disconnect, queues
<1>1. KeepsNew(k) /\ Waiting(k)' = Waiting(k)
  BY <1>0 DEF KeepsNew, Waiting, Buffer!Snapshot
<1>2. /\ Held(k) = Values(Waiting(k)) \cup Of(outbox, k) \cup Of(wire, k) \cup Values(received[k])
      /\ Held(k)' = Values(Waiting(k)) \cup Of(outbox', k) \cup Of(wire', k) \cup Values(received'[k])
  BY <1>1, HeldIs, HeldIsNext
<1>3. outbox \in Seq(Item) /\ wire \in Seq(Item)
  BY DEF DataType
<1>4. CASE Send
  <2>1. wire' = wire \o outbox /\ received' = received
    BY <1>4 DEF Send
  <2>2. Of(wire, k) \cup Of(outbox, k) \subseteq Of(wire', k)
    BY <1>3, <2>1, ConcatOf
  <2> QED BY <1>1, <1>2, <2>1, <2>2 DEF KeepsItems
<1>5. CASE SendFails
  <2>1. stream = "broken" /\ UNCHANGED <<wire, received>>
    BY <1>5 DEF SendFails
  <2> QED BY <1>1, <1>2, <2>1 DEF KeepsItems, NamedLoss
<1>6. CASE Deliver
  <2>1. /\ received' = [received EXCEPT ![Head(wire).kind] = Append(@, Head(wire).n)]
        /\ wire # << >> /\ wire' = Tail(wire) /\ outbox' = outbox
    BY <1>6 DEF Deliver
  <2>2. PICK h \in Item : h = Head(wire)
    BY <1>3, <2>1, HeadTailProperties
  <2>3. h.kind \in Kinds /\ h.n \in Numbers
    BY DEF Item, Numbers
  <2>4. received \in [Kinds -> Seq(Numbers)]
    BY DEF DataType
  <2>5. received'[k] = IF h.kind = k THEN Append(received[k], h.n) ELSE received[k]
    BY <2>1, <2>2, <2>3, <2>4
  <2>6. Values(received[k]) \subseteq Values(received'[k])
        /\ (h.kind = k => h.n \in Values(received'[k]))
    BY <2>3, <2>4, <2>5, AppendValues
  <2>7. \A n \in Of(wire, k) : n \in Of(wire', k) \/ (h.kind = k /\ n = h.n)
    BY <1>3, <2>1, <2>2, TailOf
  <2> QED BY <1>1, <1>2, <2>1, <2>6, <2>7 DEF KeepsItems
<1>7. CASE BreakStream \/ JoinLoops \/ Disconnect
  <2>1. UNCHANGED <<outbox, received>> /\ (wire' = wire \/ stream' # "up")
    BY <1>7 DEF BreakStream, JoinLoops, Disconnect
  <2> QED BY <1>1, <1>2, <2>1 DEF KeepsItems, NamedLoss
<1> QED BY <1>4, <1>5, <1>6, <1>7

\* LossesAreNamed: an item that is recorded is in its queue, in a message, on the
\* wire or at the control plane, unless it was lost in one of the four ways: for
\* every capacity, through reconnections and the agent's shutdown.
THEOREM OnlyNamedLosses == Spec => LossesAreNamed
<1>1. DataType /\ DataType' /\ OutboxInv /\ [Next]_vars
        => \A k \in Kinds : KeepsItems(k) /\ KeepsNew(k)
  <2> SUFFICES ASSUME DataType, DataType', OutboxInv, [Next]_vars, NEW k \in Kinds
               PROVE  KeepsItems(k) /\ KeepsNew(k)
    OBVIOUS
  <2>1. CASE QuietStep \/ UNCHANGED vars
    <3>1. UNCHANGED data
      BY <2>1, QuietStepKeepsData DEF data, queues, vars
    <3>2. Held(k)' = Held(k) /\ produced' = produced
      BY <3>1 DEF data, queues, Held, Waiting, Buffer!Snapshot
    <3> QED BY <3>2 DEF KeepsItems, KeepsNew
  <2> QED BY <2>1, StepKinds, RecordLosses, SelectLosses, NetworkLosses
<1>2. (\A k \in Kinds : KeepsItems(k) /\ KeepsNew(k))
        => \A k \in Kinds :
             /\ produced'[k] # produced[k] =>
                  produced'[k] \in Held(k)' \/ (k \in Reports /\ Len(channels[k]) = ReportCap)
             /\ \A n \in Held(k) \ Held(k)' :
                  \/ k = "telemetry" /\ produced' # produced /\ Buffer!Full /\ n = Head(Waiting(k))
                  \/ n \in Of(outbox, k) /\ stream = "broken"
                  \/ n \in Of(wire, k) /\ stream' # "up"
  BY DEF KeepsItems, KeepsNew, NamedLoss
<1>3. Init => OutboxInv
  BY DEF Init, OutboxInv
<1>4. NoOrphanLoops /\ OutboxInv /\ [Next]_vars => OutboxInv'
  BY OutboxStep
<1> QED BY <1>1, <1>2, <1>3, <1>4, TypeInvariant, NoLoopSurvivesItsStream, PTL
        DEF Spec, LossesAreNamed
=============================================================================
