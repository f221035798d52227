--------------------------- MODULE Client_proofs ---------------------------
(***************************************************************************)
(* Theorems about Client, for any capacities, local changes, arrivals and  *)
(* connections: the types, InboundConserved, SavedFilesAppliedOnce and     *)
(* OutboundOrdered.                                                        *)
(*                                                                         *)
(* The two orders need to know where everything is that has not reached    *)
(* its end yet: Line for what comes from the hub, Departing and Piped for  *)
(* what leaves.  Piped is about the chunks still to be written, those in   *)
(* the queue and those the supervisor has not queued yet: they follow one  *)
(* another without a gap, and the first of them follows the last one       *)
(* written, unless the connection that one went out on is over.            *)
(***************************************************************************)
EXTENDS Client, TLAPS

LEMMA Constants ==
    /\ InboundCap \in Nat /\ OutboundCap \in Nat
    /\ InboundFilesCap \in Nat /\ OutboundFilesCap \in Nat /\ EventCap \in Nat
    /\ MaxArrivals \in Nat /\ MaxConnections \in Nat /\ MaxChanges \in Nat
    /\ ChunksPerFile \in Nat /\ ChunksPerFile >= 1
    /\ ~OneShot
BY TransportAssumption, ClientAssumption

USE Constants

----------------------------------------------------------------------------
(* Where the two tasks are *)

\* From the handshake to the end of the connection.
Alive(t) == t \in {"handshaking", "greeting", "serving", "forwarding", "draining"}

\* The frame the transport holds, the ends the supervisor holds and the chunks
\* it has not queued are those that their places in the code say.
Places ==
    /\ task \in {"greeting", "forwarding"} => Len(held) = 1
    /\ task \notin {"greeting", "forwarding", "stopped"} => held = << >>
    /\ Alive(task) => conns >= 1
    /\ task = "stopped" => supervisor = "returned"
    /\ handle = IF supervisor = "returned" THEN {} ELSE Ends
    /\ supervisor = "selecting" => toSend = << >>
    /\ supervisor = "queueing" => toSend # << >>

LEMMA TypesInit ==
    ASSUME Init
    PROVE  TypeOK /\ Places
BY DEF Init, TransportInit, TypeOK, TransportTypeOK, Places, Tasks, Ends, Supervisors, Alive

LEMMA Dequeue ==
    ASSUME NEW S, NEW s \in Seq(S), s # << >>, NEW cap \in Nat
    PROVE  /\ Head(s) \in S /\ Tail(s) \in Seq(S)
           /\ Len(s) <= cap => Len(Tail(s)) <= cap
OBVIOUS

LEMMA Enqueue ==
    ASSUME NEW S, NEW s \in Seq(S), NEW x \in S, NEW cap \in Nat
    PROVE  /\ Append(s, x) \in Seq(S)
           /\ Len(s) < cap => Len(Append(s, x)) <= cap
OBVIOUS

LEMMA Join ==
    ASSUME NEW S, NEW s \in Seq(S), NEW t \in Seq(S), NEW cap \in Nat
    PROVE  /\ s \o t \in Seq(S)
           /\ Len(s) < cap /\ Len(t) <= 1 => Len(s \o t) <= cap
OBVIOUS

LEMMA TypesTransport ==
    ASSUME TypeOK, Places, TransportTask, UNCHANGED supervisorVars
    PROVE  TypeOK' /\ Places'
<1>1. CASE Dialed
  <2>1. conns' \in 1..MaxConnections
    BY <1>1 DEF Dialed, TypeOK, TransportTypeOK
  <2> QED
    BY <1>1, <2>1 DEF Dialed, TypeOK, TransportTypeOK, Places, Tasks, Alive, Ends,
        Supervisors, transportVars, supervisorVars, channels, sent, applied
<1>2. CASE DialFails
  BY <1>2 DEF DialFails, TypeOK, TransportTypeOK, Places, Tasks, Alive, Ends,
        Supervisors, transportVars, supervisorVars, channels, sent, applied
<1>3. CASE Forward
  <2>1. /\ held \in Seq(Arrivals) /\ Len(held) <= 1
        /\ inbound \in Seq(Arrivals) /\ Len(inbound) <= InboundCap
        /\ inboundFiles \in Seq(Arrivals) /\ Len(inboundFiles) <= InboundFilesCap
    BY DEF TypeOK, TransportTypeOK
  <2>2. inboundFiles' \in Seq(Arrivals) /\ Len(inboundFiles') <= InboundFilesCap
    BY <1>3, <2>1, Join DEF Forward
  <2>3. inbound' \in Seq(Arrivals) /\ Len(inbound') <= InboundCap
    BY <1>3, <2>1, Join DEF Forward
  <2> QED
    BY <1>3, <2>2, <2>3 DEF Forward, TypeOK, TransportTypeOK, Places, Tasks, Alive, Ends,
        Supervisors, transportVars, supervisorVars, channels, sent, applied
<1>4. CASE ForwardRefused
  BY <1>4 DEF ForwardRefused, TypeOK, TransportTypeOK, Places, Tasks, Alive, Ends,
        Supervisors, transportVars, supervisorVars, channels, sent, applied
<1>5. CASE SendClip
  <2> DEFINE n == Head(outbound)
  <2>1. outbound \in Seq(1..MaxChanges) /\ sentClips \in Seq(1..MaxChanges)
        /\ Len(outbound) <= OutboundCap
    BY DEF TypeOK, TransportTypeOK
  <2>2. n \in 1..MaxChanges
    BY <1>5, <2>1, Dequeue DEF SendClip
  <2>3. Append(sentClips, n) \in Seq(1..MaxChanges)
    BY <2>1, <2>2, Enqueue
  <2>4. sentClips' \in Seq(1..MaxChanges)
    BY <1>5, <2>1, <2>3 DEF SendClip
  <2>5. outbound' \in Seq(1..MaxChanges) /\ Len(outbound') <= OutboundCap
    BY <1>5, <2>1, Dequeue DEF SendClip
  <2> QED
    BY <1>5, <2>4, <2>5 DEF SendClip, TypeOK, TransportTypeOK, Places, Tasks, Alive, Ends,
        Supervisors, transportVars, supervisorVars, channels, sent, applied
<1>6. CASE SendChunk
  <2> DEFINE C == Chunk(MaxChanges, ChunksPerFile)
             S == SentChunk(MaxChanges, ChunksPerFile)
             c == Head(outboundFiles)
             written == [n |-> c.n, i |-> c.i, on |-> conns]
  <2>1. /\ outboundFiles \in Seq(C) /\ Len(outboundFiles) <= OutboundFilesCap
        /\ sentChunks \in Seq(S)
    BY DEF TypeOK, TransportTypeOK
  <2>2. outboundFiles # << >> /\ outboundFiles' = Tail(outboundFiles)
    BY <1>6 DEF SendChunk, WriteChunk
  <2>3. conns \in 1..MaxConnections
    BY <1>6 DEF SendChunk, TypeOK, TransportTypeOK, Places, Alive
  <2>4. c \in C
    BY <2>1, <2>2, Dequeue
  <2>5. written \in S
    BY <2>3, <2>4 DEF Chunk, SentChunk
  <2>6. sentChunks' \in {sentChunks, Append(sentChunks, written)}
    BY <1>6 DEF SendChunk, WriteChunk
  <2> HIDE DEF C, S, c, written
  <2>7. sentChunks' \in Seq(S)
    BY <2>1, <2>5, <2>6, Enqueue
  <2>8. outboundFiles' \in Seq(C) /\ Len(outboundFiles') <= OutboundFilesCap
    BY <2>1, <2>2, Dequeue
  <2> QED
    BY <1>6, <2>7, <2>8 DEF SendChunk, WriteChunk, C, S, TypeOK, TransportTypeOK, Places, Tasks, Alive, Ends,
        Supervisors, transportVars, supervisorVars, channels, sent, applied
<1>7. CASE OutboundClosed \/ OutboundFilesClosed
  BY <1>7 DEF OutboundClosed, OutboundFilesClosed, TypeOK, TransportTypeOK, Places, Tasks, Alive, Ends,
        Supervisors, transportVars, supervisorVars, channels, sent, applied
<1>8. CASE AttemptEnds \/ Retry
  BY <1>8 DEF AttemptEnds, Retry, TypeOK, TransportTypeOK, Places, Tasks, Alive, Ends,
        Supervisors, transportVars, supervisorVars, channels, sent, applied
<1> QED
  BY <1>1, <1>2, <1>3, <1>4, <1>5, <1>6, <1>7, <1>8 DEF TransportTask

LEMMA TypesNetwork ==
    ASSUME TypeOK, Places, Network, UNCHANGED supervisorVars
    PROVE  TypeOK' /\ Places'
<1>1. CASE HandshakeFails \/ ReadWelcome \/ ConnectionEnds
  BY <1>1 DEF HandshakeFails, ReadWelcome, ConnectionEnds, TypeOK, TransportTypeOK, Places, Tasks, Alive, Ends,
        Supervisors, transportVars, supervisorVars, channels, sent, applied
<1>2. ASSUME NEW kind \in {"clip", "opaque", "chunk"}, Read(kind)
      PROVE  /\ arrived' \in Seq(Arrivals)
             /\ held' \in Seq(Arrivals) /\ Len(held') = 1
  <2> DEFINE n == Len(arrived) + 1
             frame == [kind |-> kind, n |-> n]
  <2>1. arrived \in Seq(Arrivals)
    BY DEF TypeOK, TransportTypeOK
  <2>2. n \in 1..MaxArrivals
    BY <1>2, <2>1 DEF Read
  <2>3. frame \in Arrivals
    BY <2>2 DEF Arrivals
  <2>4. arrived' = Append(arrived, frame) /\ held' = <<frame>>
    BY <1>2 DEF Read
  <2> HIDE DEF frame
  <2> QED
    BY <2>1, <2>3, <2>4
<1>3. ASSUME NEW kind \in {"clip", "opaque"}, ReadWelcomeWithClip(kind)
      PROVE  TypeOK' /\ Places'
  <2>1. arrived' \in Seq(Arrivals) /\ held' \in Seq(Arrivals) /\ Len(held') = 1
    BY <1>2, <1>3 DEF ReadWelcomeWithClip
  <2> QED
    BY <1>3, <2>1 DEF ReadWelcomeWithClip, TypeOK, TransportTypeOK, Places, Tasks, Alive, Ends,
        Supervisors, transportVars, supervisorVars, channels, sent, applied
<1>4. ASSUME NEW kind \in {"clip", "opaque", "chunk"}, ReadRelay(kind)
      PROVE  TypeOK' /\ Places'
  <2>1. arrived' \in Seq(Arrivals) /\ held' \in Seq(Arrivals) /\ Len(held') = 1
    BY <1>2, <1>4 DEF ReadRelay
  <2> QED
    BY <1>4, <2>1 DEF ReadRelay, TypeOK, TransportTypeOK, Places, Tasks, Alive, Ends,
        Supervisors, transportVars, supervisorVars, channels, sent, applied
<1> QED
  BY <1>1, <1>3, <1>4 DEF Network

LEMMA TypesSupervisor ==
    ASSUME TypeOK, Places, SupervisorTask
    PROVE  TypeOK' /\ Places'
<1> DEFINE C == Chunk(MaxChanges, ChunksPerFile)
<1>0. /\ outbound \in Seq(1..MaxChanges) /\ Len(outbound) <= OutboundCap
      /\ outboundFiles \in Seq(C) /\ Len(outboundFiles) <= OutboundFilesCap
      /\ inbound \in Seq(Arrivals) /\ Len(inbound) <= InboundCap
      /\ inboundFiles \in Seq(Arrivals) /\ Len(inboundFiles) <= InboundFilesCap
      /\ events \in Seq(Event) /\ Len(events) <= EventCap
      /\ toSend \in Seq(C)
      /\ pendingFiles \in Seq(Arrival) /\ saved \in Seq(Arrival)
      /\ appliedClips \in Seq(Arrival) /\ appliedFiles \in Seq(Arrival)
  BY DEF TypeOK, TransportTypeOK
<1> HIDE DEF C
<1>1. CASE TakeLocalClip
  <2>1. events # << >> /\ events' = Tail(events)
    BY <1>1 DEF TakeLocalClip
  <2>2. Head(events) \in Event /\ events' \in Seq(Event) /\ Len(events') <= EventCap
    BY <1>0, <2>1, Dequeue
  <2>3. Head(events).n \in 1..MaxChanges
    BY <2>2 DEF Event
  <2>4. outbound' \in Seq(1..MaxChanges) /\ Len(outbound') <= OutboundCap
    BY <1>0, <1>1, <2>3, Enqueue DEF TakeLocalClip
  <2> QED
    BY <1>1, <2>2, <2>4 DEF TakeLocalClip, TypeOK, TransportTypeOK, Places, Tasks, Alive, Ends,
        Supervisors, transportVars, supervisorVars, channels, sent, applied
<1>2. CASE TakeLocalFile
  <2> DEFINE n == Head(events).n
             chunk(i) == [n |-> n, i |-> i]
  <2>1. events # << >> /\ events' = Tail(events)
    BY <1>2 DEF TakeLocalFile
  <2>2. Head(events) \in Event /\ events' \in Seq(Event) /\ Len(events') <= EventCap
    BY <1>0, <2>1, Dequeue
  <2>3. n \in 1..MaxChanges
    BY <2>2 DEF Event
  <2>4. \A i \in 1..ChunksPerFile : chunk(i) \in C
    BY <2>3 DEF Chunk, C
  <2>5. toSend' = [i \in 1..ChunksPerFile |-> chunk(i)]
    BY <1>2 DEF TakeLocalFile
  <2> HIDE DEF n, chunk
  <2>6. toSend' \in Seq(C)
    BY <2>4, <2>5
  <2> QED
    BY <1>2, <2>2, <2>6 DEF TakeLocalFile, C, TypeOK, TransportTypeOK, Places, Tasks, Alive, Ends,
        Supervisors, transportVars, supervisorVars, channels, sent, applied
<1>3. CASE ReadChunk
  <2>1. toSend' = toSend \/ toSend' = << >>
    BY <1>3 DEF ReadChunk
  <2>2. toSend \in Seq(C) /\ << >> \in Seq(C)
    BY <1>0
  <2>3. toSend' \in Seq(C)
    BY <2>1, <2>2, Zenon
  <2> QED
    BY <1>3, <2>3 DEF ReadChunk, C, TypeOK, TransportTypeOK, Places, Tasks, Alive, Ends,
        Supervisors, transportVars, supervisorVars, channels, sent, applied
<1>4. CASE QueueChunk
  <2>1. toSend # << >>
    BY <1>4 DEF QueueChunk, Places
  <2>2. Head(toSend) \in C /\ Tail(toSend) \in Seq(C)
    BY <1>0, <2>1, Dequeue
  <2>3. outboundFiles' \in Seq(C) /\ Len(outboundFiles') <= OutboundFilesCap
    BY <1>0, <1>4, <2>2, Enqueue DEF QueueChunk
  <2> QED
    BY <1>4, <2>2, <2>3 DEF QueueChunk, C, TypeOK, TransportTypeOK, Places, Tasks, Alive, Ends,
        Supervisors, transportVars, supervisorVars, channels, sent, applied
<1>5. CASE TakeInboundClip
  <2>1. inbound # << >>
    BY <1>5 DEF TakeInboundClip
  <2>2. /\ Head(inbound) \in Arrivals /\ Tail(inbound) \in Seq(Arrivals)
        /\ Len(Tail(inbound)) <= InboundCap
    BY <1>0, <2>1, Dequeue
  <2>3. Head(inbound).n \in Arrival
    BY <2>2 DEF Arrivals, Arrival
  <2>4. Append(appliedClips, Head(inbound).n) \in Seq(Arrival)
    BY <1>0, <2>3, Enqueue
  <2>5. CASE Head(inbound).kind = "clip" /\ ~clipboard
    <3>1. ReturnFromSupervisor
      BY <1>5, <2>5 DEF TakeInboundClip
    <3> QED
      BY <3>1 DEF ReturnFromSupervisor, TypeOK, TransportTypeOK, Places, Tasks, Alive, Ends,
        Supervisors, transportVars, supervisorVars, channels, sent, applied
  <2>6. CASE ~(Head(inbound).kind = "clip" /\ ~clipboard)
    <3>1. /\ inbound' = Tail(inbound)
          /\ appliedClips' \in {appliedClips, Append(appliedClips, Head(inbound).n)}
      BY <1>5, <2>6 DEF TakeInboundClip
    <3>2. inbound' \in Seq(Arrivals) /\ Len(inbound') <= InboundCap
      BY <2>2, <3>1
    <3>3. appliedClips' \in Seq(Arrival)
      BY <1>0, <2>4, <3>1
    <3> QED
      BY <1>5, <2>6, <3>2, <3>3 DEF TakeInboundClip, TypeOK, TransportTypeOK, Places, Tasks, Alive, Ends,
        Supervisors, transportVars, supervisorVars, channels, sent, applied
  <2> QED
    BY <2>5, <2>6
<1>6. CASE TakeInboundChunk
  <2>1. inboundFiles # << >> /\ inboundFiles' = Tail(inboundFiles)
    BY <1>6 DEF TakeInboundChunk
  <2>2. /\ Head(inboundFiles) \in Arrivals /\ inboundFiles' \in Seq(Arrivals)
        /\ Len(inboundFiles') <= InboundFilesCap
    BY <1>0, <2>1, Dequeue
  <2>3. Head(inboundFiles).n \in Arrival
    BY <2>2 DEF Arrivals, Arrival
  <2>4. saved' \in Seq(Arrival) /\ pendingFiles' \in Seq(Arrival)
    BY <1>0, <1>6, <2>3, Enqueue DEF TakeInboundChunk
  <2> QED
    BY <1>6, <2>2, <2>4 DEF TakeInboundChunk, TypeOK, TransportTypeOK, Places, Tasks, Alive, Ends,
        Supervisors, transportVars, supervisorVars, channels, sent, applied
<1>7. CASE ApplyBatch
  <2>1. appliedFiles' \in Seq(Arrival)
    BY <1>0, <1>7, Join DEF ApplyBatch, PutOnClipboard
  <2> QED
    BY <1>7, <2>1 DEF ApplyBatch, PutOnClipboard, TypeOK, TransportTypeOK, Places, Tasks, Alive, Ends,
        Supervisors, transportVars, supervisorVars, channels, sent, applied
<1>8. CASE EventsClosed
  BY <1>8 DEF EventsClosed, ReturnFromSupervisor, TypeOK, TransportTypeOK, Places, Tasks, Alive, Ends,
        Supervisors, transportVars, supervisorVars, channels, sent, applied
<1> QED
  BY <1>1, <1>2, <1>3, <1>4, <1>5, <1>6, <1>7, <1>8 DEF SupervisorTask

LEMMA TypesNext ==
    ASSUME TypeOK, Places, [Next]_vars
    PROVE  TypeOK' /\ Places'
<1>1. ASSUME NEW kind \in {"clip", "files"}, LocalChange(kind)
      PROVE  TypeOK' /\ Places'
  <2> DEFINE n == changes + 1
             event == [kind |-> kind, n |-> n]
  <2>1. events \in Seq(Event) /\ Len(events) <= EventCap /\ n \in 1..MaxChanges
    BY <1>1 DEF LocalChange, TypeOK, TransportTypeOK
  <2>2. event \in Event
    BY <2>1 DEF Event
  <2>3. /\ changes' = n
        /\ events' = IF Len(events) < EventCap /\ supervisor # "returned"
                     THEN Append(events, event) ELSE events
    BY <1>1 DEF LocalChange
  <2> HIDE DEF n, event
  <2>4. events' \in Seq(Event) /\ Len(events') <= EventCap
    BY <2>1, <2>2, <2>3, Enqueue
  <2> QED
    BY <1>1, <2>1, <2>3, <2>4 DEF LocalChange, TypeOK, TransportTypeOK, Places, Tasks, Alive, Ends,
        Supervisors, transportVars, supervisorVars, channels, sent, applied
<1>2. CASE ClipboardFails
  BY <1>2 DEF ClipboardFails, TypeOK, TransportTypeOK, Places, Tasks, Alive, Ends,
        Supervisors, transportVars, supervisorVars, channels, sent, applied
<1>3. CASE AbortSupervisor
  BY <1>3 DEF AbortSupervisor, ReturnFromSupervisor, TypeOK, TransportTypeOK, Places, Tasks, Alive, Ends,
        Supervisors, transportVars, supervisorVars, channels, sent, applied
<1>4. CASE AbortTransport
  BY <1>4 DEF AbortTransport, TypeOK, TransportTypeOK, Places, Tasks, Alive, Ends,
        Supervisors, transportVars, supervisorVars, channels, sent, applied
<1>5. CASE UNCHANGED vars
  BY <1>5 DEF vars, TypeOK, TransportTypeOK, Places, Tasks, Alive, Ends,
        Supervisors, transportVars, supervisorVars, channels, sent, applied
<1> QED
  BY TypesTransport, TypesNetwork, TypesSupervisor, <1>1, <1>2, <1>3, <1>4, <1>5 DEF Next

\* Every queue keeps within its capacity, whoever fills it: the type invariant,
\* from Client's initial states and under every step.
THEOREM TypeCorrect == Spec => []TypeOK
<1>1. Init => TypeOK /\ Places
  BY TypesInit
<1>2. TypeOK /\ Places /\ [Next]_vars => (TypeOK /\ Places)'
  BY TypesNext
<1> QED
  BY <1>1, <1>2, PTL DEF Spec

----------------------------------------------------------------------------
(* Files for the clipboard *)

\* Every saved file is put on the clipboard once, in the order of completion:
\* the batch that the window closes on is taken, and nothing else ends it.
THEOREM SavedOnce == Spec => []SavedFilesAppliedOnce
<1>1. Init => SavedFilesAppliedOnce
  BY DEF Init, SavedFilesAppliedOnce
<1>2. ASSUME TypeOK, SavedFilesAppliedOnce, [Next]_vars
      PROVE  SavedFilesAppliedOnce'
  <2>0. pendingFiles \in Seq(Arrival) /\ saved \in Seq(Arrival) /\ appliedFiles \in Seq(Arrival)
    BY <1>2 DEF TypeOK
  <2>1. ASSUME UNCHANGED <<pendingFiles, saved, appliedFiles>>, clipboard' => clipboard
        PROVE  SavedFilesAppliedOnce'
    BY <1>2, <2>1 DEF SavedFilesAppliedOnce
  <2>2. CASE TakeInboundChunk
    <3>1. CASE UNCHANGED <<saved, pendingFiles>>
      BY <2>1, <2>2, <3>1 DEF TakeInboundChunk, applied
    <3>2. CASE ~UNCHANGED <<saved, pendingFiles>>
      <4> DEFINE n == Head(inboundFiles).n
      <4>1. /\ saved' = Append(saved, n) /\ pendingFiles' = Append(pendingFiles, n)
            /\ appliedFiles' = appliedFiles /\ clipboard' = clipboard
        BY <2>2, <3>2 DEF TakeInboundChunk, applied
      <4>2. n \in Arrival
        <5>1. Head(inboundFiles) \in Arrivals
          BY <1>2, <2>2, Dequeue DEF TakeInboundChunk, TypeOK, TransportTypeOK
        <5> QED
          BY <5>1 DEF Arrivals, Arrival
      <4> HIDE DEF n
      <4>3. appliedFiles \o Append(pendingFiles, n) = Append(appliedFiles \o pendingFiles, n)
        BY <2>0, <4>2
      <4> QED
        BY <1>2, <4>1, <4>3 DEF SavedFilesAppliedOnce
    <3> QED
      BY <3>1, <3>2
  <2>3. CASE ApplyBatch
    <3>1. (appliedFiles \o pendingFiles) \o << >> = appliedFiles \o pendingFiles
      BY <2>0
    <3> QED
      BY <1>2, <2>3, <3>1 DEF ApplyBatch, PutOnClipboard, SavedFilesAppliedOnce
  <2>4. CASE TakeInboundClip
    BY <2>1, <2>4 DEF TakeInboundClip, ReturnFromSupervisor, applied
  <2>5. CASE TakeLocalClip \/ TakeLocalFile \/ ReadChunk \/ QueueChunk \/ EventsClosed
    BY <2>1, <2>5 DEF TakeLocalClip, TakeLocalFile, ReadChunk, QueueChunk, EventsClosed,
       ReturnFromSupervisor, applied
  <2>6. CASE UNCHANGED supervisorVars
    BY <2>1, <2>6 DEF supervisorVars, applied
  <2>7. ASSUME NEW kind \in {"clip", "files"}, LocalChange(kind)
        PROVE  SavedFilesAppliedOnce'
    BY <2>1, <2>7 DEF LocalChange, applied
  <2>8. CASE ClipboardFails
    BY <2>1, <2>8 DEF ClipboardFails, applied
  <2>9. CASE AbortSupervisor
    BY <2>1, <2>9 DEF AbortSupervisor, ReturnFromSupervisor, applied
  <2>10. CASE AbortTransport
    BY <2>6, <2>10 DEF AbortTransport
  <2>11. CASE UNCHANGED vars
    BY <2>6, <2>11 DEF vars
  <2> QED
    BY <1>2, <2>2, <2>3, <2>4, <2>5, <2>6, <2>7, <2>8, <2>9, <2>10, <2>11
       DEF Next, SupervisorTask
<1> QED
  BY <1>1, <1>2, TypeCorrect, PTL DEF Spec

----------------------------------------------------------------------------
(* Clips for the clipboard *)

Values(a) == {a[i] : i \in 1..Len(a)}

\* The numbers of a and those of the frames fs, one behind the other, grow up to m.
Waits(a, fs, m) ==
    /\ Increasing(a)
    /\ \A i, j \in 1..Len(fs) : i < j => fs[i].n < fs[j].n
    /\ \A i \in 1..Len(a), j \in 1..Len(fs) : a[i] < fs[j].n
    /\ \A i \in 1..Len(a) : a[i] <= m
    /\ \A j \in 1..Len(fs) : fs[j].n <= m

\* Of the frames arr read off the sockets, the clips in a are applied, and the
\* frames fs, in the queue and in the transport's hands, are on their way.
Line(a, fs, arr) ==
    /\ Waits(a, fs, Len(arr))
    /\ Values(a) \union ClipsIn(fs) = ClipsIn(arr)

ClipOf(f) == IF f.kind = "clip" THEN {f.n} ELSE {}

LEMMA ClipsAppend ==
    ASSUME NEW fs \in Seq(Arrivals), NEW f \in Arrivals
    PROVE  ClipsIn(Append(fs, f)) = ClipsIn(fs) \union ClipOf(f)
<1> DEFINE n == Len(fs) + 1
           gs == Append(fs, f)
<1>1. /\ Len(gs) = n /\ gs[n] = f /\ \A i \in 1..Len(fs) : gs[i] = fs[i]
      /\ 1..n = (1..Len(fs)) \union {n}
  OBVIOUS
<1> HIDE DEF n, gs
<1>2. ClipsIn(gs) = ClipsIn(fs) \union ClipOf(f)
  BY <1>1 DEF ClipsIn, ClipOf
<1> QED
  BY <1>2 DEF gs

LEMMA ClipsTail ==
    ASSUME NEW fs \in Seq(Arrivals), fs # << >>
    PROVE  ClipsIn(fs) = ClipOf(Head(fs)) \union ClipsIn(Tail(fs))
<1> DEFINE gs == Tail(fs)
<1>1. /\ \A i \in 1..Len(gs) : gs[i] = fs[i + 1] /\ i + 1 \in 1..Len(fs)
      /\ \A i \in 1..Len(fs) : i = 1 \/ (i - 1 \in 1..Len(gs) /\ gs[i - 1] = fs[i])
      /\ Head(fs) = fs[1] /\ 1 \in 1..Len(fs)
  OBVIOUS
<1> HIDE DEF gs
<1>2. ClipsIn(fs) \subseteq ClipOf(Head(fs)) \union ClipsIn(gs)
  BY <1>1 DEF ClipsIn, ClipOf
<1>3. ClipOf(Head(fs)) \union ClipsIn(gs) \subseteq ClipsIn(fs)
  BY <1>1 DEF ClipsIn, ClipOf
<1> QED
  BY <1>2, <1>3 DEF gs

LEMMA Typed ==
    ASSUME NEW a \in Seq(Arrival), NEW fs \in Seq(Arrivals)
    PROVE  /\ \A i \in 1..Len(a) : a[i] \in Nat
           /\ \A j \in 1..Len(fs) : fs[j] \in Arrivals /\ fs[j].n \in Arrival /\ fs[j].n \in Nat
           /\ Len(a) \in Nat /\ Len(fs) \in Nat
<1>1. \A i \in 1..Len(a) : a[i] \in Arrival
  OBVIOUS
<1>2. \A j \in 1..Len(fs) : fs[j] \in Arrivals
  OBVIOUS
<1> QED
  BY <1>1, <1>2 DEF Arrival, Arrivals

\* A frame is read.
LEMMA LineRead ==
    ASSUME NEW a \in Seq(Arrival), NEW fs \in Seq(Arrivals), NEW arr \in Seq(Arrivals),
           NEW f \in Arrivals, f.n = Len(arr) + 1, Line(a, fs, arr)
    PROVE  Line(a, Append(fs, f), Append(arr, f))
<1> DEFINE gs == Append(fs, f)
           arr2 == Append(arr, f)
           m == Len(arr)
<1>1. Waits(a, gs, m + 1)
  <2>1. /\ Len(gs) = Len(fs) + 1 /\ gs[Len(fs) + 1] = f
        /\ \A i \in 1..Len(fs) : gs[i] = fs[i]
        /\ m \in Nat
    OBVIOUS
  <2>2. Waits(a, fs, m) /\ f.n = m + 1
    BY DEF Line
  <2>3. /\ \A i \in 1..Len(a) : a[i] <= m
        /\ \A j \in 1..Len(fs) : fs[j].n <= m /\ fs[j].n \in Nat
        /\ \A i \in 1..Len(a) : a[i] \in Nat
    BY <2>2, Typed DEF Waits
  <2> HIDE DEF gs, m
  <2>4. ASSUME NEW i \in 1..Len(gs), NEW j \in 1..Len(gs), i < j
        PROVE  gs[i].n < gs[j].n
    <3>1. i \in 1..Len(fs) /\ (j \in 1..Len(fs) \/ j = Len(fs) + 1)
      BY <2>1, <2>4
    <3>2. CASE j \in 1..Len(fs)
      BY <2>1, <2>2, <2>4, <3>1, <3>2 DEF Waits
    <3>3. CASE j = Len(fs) + 1
      <4>1. gs[i].n = fs[i].n /\ gs[j].n = m + 1
        BY <2>1, <2>2, <3>1, <3>3
      <4> QED
        BY <2>1, <2>3, <3>1, <4>1
    <3> QED
      BY <3>1, <3>2, <3>3
  <2>5. ASSUME NEW i \in 1..Len(a), NEW j \in 1..Len(gs)
        PROVE  a[i] < gs[j].n
    <3>1. j \in 1..Len(fs) \/ j = Len(fs) + 1
      BY <2>1
    <3> QED
      BY <2>1, <2>2, <2>3, <3>1 DEF Waits
  <2>6. ASSUME NEW j \in 1..Len(gs)
        PROVE  gs[j].n <= m + 1
    <3>1. CASE j \in 1..Len(fs)
      <4>1. gs[j].n = fs[j].n /\ fs[j].n <= m /\ fs[j].n \in Nat
        BY <2>1, <2>3, <3>1
      <4> QED
        BY <2>1, <4>1
    <3>2. CASE j = Len(fs) + 1
      BY <2>1, <2>2, <3>2
    <3> QED
      BY <2>1, <3>1, <3>2
  <2>7. \A i \in 1..Len(a) : a[i] <= m + 1
    BY <2>1, <2>3
  <2> QED
    BY <2>2, <2>4, <2>5, <2>6, <2>7 DEF Waits
<1>2. Len(arr2) = m + 1
  OBVIOUS
<1>3. ClipsIn(gs) = ClipsIn(fs) \union ClipOf(f) /\ ClipsIn(arr2) = ClipsIn(arr) \union ClipOf(f)
  BY ClipsAppend
<1>4. Values(a) \union ClipsIn(fs) = ClipsIn(arr)
  BY DEF Line
<1> HIDE DEF gs, arr2, m
<1>5. Line(a, gs, arr2)
  BY <1>1, <1>2, <1>3, <1>4 DEF Line
<1> QED
  BY <1>5 DEF gs, arr2

\* The last frame, a chunk, takes the other queue.
LEMMA LineWithoutLast ==
    ASSUME NEW a \in Seq(Arrival), NEW fs \in Seq(Arrivals), NEW arr \in Seq(Arrivals),
           NEW f \in Arrivals, f.kind # "clip", Line(a, Append(fs, f), arr)
    PROVE  Line(a, fs, arr)
<1> DEFINE gs == Append(fs, f)
           m == Len(arr)
<1>1. /\ Len(gs) = Len(fs) + 1 /\ \A i \in 1..Len(fs) : gs[i] = fs[i]
  OBVIOUS
<1>2. ClipsIn(gs) = ClipsIn(fs)
  BY ClipsAppend DEF ClipOf
<1>3. Waits(a, gs, m) /\ Values(a) \union ClipsIn(gs) = ClipsIn(arr)
  BY DEF Line
<1> HIDE DEF gs, m
<1>4. Waits(a, fs, m)
  BY <1>1, <1>3, Typed DEF Waits
<1> QED
  BY <1>2, <1>3, <1>4 DEF Line, m

\* The first frame is a clip, and is applied.
LEMMA LineApply ==
    ASSUME NEW a \in Seq(Arrival), NEW fs \in Seq(Arrivals), NEW arr \in Seq(Arrivals),
           fs # << >>, Head(fs).kind = "clip", Line(a, fs, arr)
    PROVE  Line(Append(a, Head(fs).n), Tail(fs), arr)
<1> DEFINE gs == Tail(fs)
           n == Head(fs).n
           b == Append(a, n)
           m == Len(arr)
<1>1. /\ \A i \in 1..Len(gs) : gs[i] = fs[i + 1] /\ i + 1 \in 1..Len(fs)
      /\ n = fs[1].n /\ 1 \in 1..Len(fs)
  OBVIOUS
<1>2. n \in Arrival
  BY <1>1, Typed
<1>3. Len(b) = Len(a) + 1 /\ b[Len(a) + 1] = n /\ \A i \in 1..Len(a) : b[i] = a[i]
  BY <1>2
<1>4. Values(b) = Values(a) \union {n}
  <2>1. 1..Len(b) = (1..Len(a)) \union {Len(a) + 1}
    BY <1>3
  <2> HIDE DEF b
  <2> QED
    BY <1>3, <2>1 DEF Values
<1>5. ClipsIn(fs) = {n} \union ClipsIn(gs)
  BY ClipsTail DEF ClipOf
<1>6. Waits(a, fs, m) /\ Values(a) \union ClipsIn(fs) = ClipsIn(arr)
  BY DEF Line
<1>7. Len(gs) \in Nat
  OBVIOUS
<1> HIDE DEF gs, n, b, m
<1>8. Waits(b, gs, m)
  <2>1. ASSUME NEW i \in 1..Len(b), NEW j \in 1..Len(b), i < j
        PROVE  b[i] < b[j]
    <3>1. i \in 1..Len(a) /\ (j \in 1..Len(a) \/ j = Len(a) + 1)
      BY <1>3, <2>1, Typed
    <3> QED
      BY <1>1, <1>3, <1>6, <2>1, <3>1 DEF Waits, Increasing
  <2>2. ASSUME NEW i \in 1..Len(gs), NEW j \in 1..Len(gs), i < j
        PROVE  gs[i].n < gs[j].n
    <3>1. i + 1 \in 1..Len(fs) /\ j + 1 \in 1..Len(fs) /\ i + 1 < j + 1
      BY <1>1, <2>2
    <3> QED
      BY <1>1, <1>6, <3>1 DEF Waits
  <2>3. ASSUME NEW i \in 1..Len(b), NEW j \in 1..Len(gs)
        PROVE  b[i] < gs[j].n
    <3>1. /\ i \in 1..Len(a) \/ i = Len(a) + 1
          /\ j + 1 \in 1..Len(fs) /\ 1 < j + 1
      BY <1>1, <1>3, Typed
    <3> QED
      BY <1>1, <1>3, <1>6, <3>1 DEF Waits
  <2>4. \A i \in 1..Len(b) : b[i] <= m
    BY <1>1, <1>3, <1>6, Typed DEF Waits
  <2>5. \A j \in 1..Len(gs) : gs[j].n <= m
    BY <1>1, <1>6 DEF Waits
  <2> QED
    BY <2>1, <2>2, <2>3, <2>4, <2>5 DEF Waits, Increasing
<1>9. Line(b, gs, arr)
  BY <1>4, <1>5, <1>6, <1>8 DEF Line, m
<1> QED
  BY <1>9 DEF gs, n, b

\* The first frame cannot be applied.
LEMMA LineSkip ==
    ASSUME NEW a \in Seq(Arrival), NEW fs \in Seq(Arrivals), NEW arr \in Seq(Arrivals),
           fs # << >>, Head(fs).kind # "clip", Line(a, fs, arr)
    PROVE  Line(a, Tail(fs), arr)
<1> DEFINE gs == Tail(fs)
           m == Len(arr)
<1>1. Len(gs) \in Nat /\ \A i \in 1..Len(gs) : gs[i] = fs[i + 1] /\ i + 1 \in 1..Len(fs)
  OBVIOUS
<1>2. ClipsIn(fs) = ClipsIn(gs)
  BY ClipsTail DEF ClipOf
<1>3. Waits(a, fs, m) /\ Values(a) \union ClipsIn(fs) = ClipsIn(arr)
  BY DEF Line
<1> HIDE DEF gs, m
<1>4. Waits(a, gs, m)
  <2>1. ASSUME NEW i \in 1..Len(gs), NEW j \in 1..Len(gs), i < j
        PROVE  gs[i].n < gs[j].n
    <3>1. i + 1 \in 1..Len(fs) /\ j + 1 \in 1..Len(fs) /\ i + 1 < j + 1
      BY <1>1, <2>1
    <3> QED
      BY <1>1, <1>3, <3>1 DEF Waits
  <2> QED
    BY <1>1, <1>3, <2>1 DEF Waits
<1>5. Line(a, gs, arr)
  BY <1>2, <1>3, <1>4 DEF Line, m
<1> QED
  BY <1>5 DEF gs

LEMMA LineConserves ==
    ASSUME NEW a \in Seq(Arrival), NEW fs \in Seq(Arrivals), NEW arr \in Seq(Arrivals),
           Line(a, fs, arr)
    PROVE  /\ Increasing(a \o Numbers(fs))
           /\ Values(a) \union ClipsIn(fs) = ClipsIn(arr)
<1> DEFINE ns == Numbers(fs)
           all == a \o ns
<1>1. ns \in Seq(Arrival) /\ Len(ns) = Len(fs) /\ \A i \in 1..Len(fs) : ns[i] = fs[i].n
  BY Typed DEF Numbers
<1> HIDE DEF ns
<1>2. /\ Len(all) = Len(a) + Len(fs)
      /\ \A i \in 1..Len(a) : all[i] = a[i]
      /\ \A i \in 1..Len(all) : i > Len(a) => all[i] = ns[i - Len(a)]
  <2>1. Len(all) = Len(a) + Len(ns) /\ Len(a) \in Nat /\ Len(ns) \in Nat
    <3>1. ns \in Seq(Arrival)
      BY <1>1
    <3> QED
      BY <3>1
  <2>2. \A i \in 1..(Len(a) + Len(ns)) : all[i] = IF i <= Len(a) THEN a[i] ELSE ns[i - Len(a)]
    BY <1>1
  <2> HIDE DEF all
  <2> QED
    BY <1>1, <2>1, <2>2
<1> HIDE DEF all
<1>3. Waits(a, fs, Len(arr)) /\ Len(a) \in Nat /\ Len(fs) \in Nat
  BY DEF Line
<1>4. ASSUME NEW i \in 1..Len(all), NEW j \in 1..Len(all), i < j
      PROVE  all[i] < all[j]
  <2>1. CASE j <= Len(a)
    BY <1>2, <1>3, <1>4, <2>1 DEF Waits, Increasing
  <2>2. CASE i <= Len(a) /\ j > Len(a)
    <3>1. all[i] = a[i] /\ all[j] = fs[j - Len(a)].n /\ j - Len(a) \in 1..Len(fs)
      BY <1>1, <1>2, <1>3, <2>2
    <3> QED
      BY <1>3, <2>2, <3>1 DEF Waits
  <2>3. CASE i > Len(a)
    <3>1. i - Len(a) \in 1..Len(fs) /\ j - Len(a) \in 1..Len(fs) /\ i - Len(a) < j - Len(a)
      BY <1>2, <1>3, <1>4, <2>3
    <3>2. i > Len(a) /\ j > Len(a)
      BY <1>2, <1>3, <1>4, <2>3
    <3>3. all[i] = ns[i - Len(a)] /\ all[j] = ns[j - Len(a)]
      BY <1>2, <3>2
    <3>4. all[i] = fs[i - Len(a)].n /\ all[j] = fs[j - Len(a)].n
      BY <1>1, <3>1, <3>3
    <3> QED
      BY <1>3, <3>1, <3>4 DEF Waits
  <2> QED
    BY <1>3, <2>1, <2>2, <2>3
<1>5. Increasing(all)
  BY <1>4 DEF Increasing
<1> QED
  BY <1>5 DEF all, ns, Line

OnTheWay == handle # {} => Line(appliedClips, inbound \o held, arrived)

LEMMA Concatenations ==
    ASSUME NEW S, NEW s \in Seq(S)
    PROVE  /\ s \o << >> = s
           /\ \A f \in S : s \o <<f>> = Append(s, f)
           /\ \A u \in Seq(S) : s # << >> =>
                 /\ s \o u # << >> /\ Head(s \o u) = Head(s)
                 /\ Tail(s \o u) = Tail(s) \o u
<1>1. s \o << >> = s
  OBVIOUS
<1>2. ASSUME NEW f \in S
      PROVE  s \o <<f>> = Append(s, f)
  OBVIOUS
<1>3. ASSUME NEW u \in Seq(S), s # << >>
      PROVE  /\ s \o u # << >> /\ Head(s \o u) = Head(s)
             /\ Tail(s \o u) = Tail(s) \o u
  <2>1. s \o u \in Seq(S) /\ Len(s \o u) = Len(s) + Len(u) /\ Len(s) >= 1
    BY <1>3
  <2>2. (s \o u)[1] = s[1] /\ Head(s \o u) = (s \o u)[1] /\ s \o u # << >>
    BY <1>3, <2>1
  <2>3. /\ Tail(s \o u) \in Seq(S) /\ Len(Tail(s \o u)) = Len(s) + Len(u) - 1
        /\ \A i \in 1..(Len(s) + Len(u) - 1) : Tail(s \o u)[i] = (s \o u)[i + 1]
    BY <1>3, <2>1, <2>2
  <2>4. /\ Tail(s) \in Seq(S) /\ Len(Tail(s)) = Len(s) - 1
        /\ \A i \in 1..(Len(s) - 1) : Tail(s)[i] = s[i + 1]
    BY <1>3
  <2>5. /\ Tail(s) \o u \in Seq(S) /\ Len(Tail(s) \o u) = Len(s) + Len(u) - 1
        /\ \A i \in 1..(Len(s) + Len(u) - 1) :
              (Tail(s) \o u)[i] = IF i <= Len(s) - 1 THEN Tail(s)[i] ELSE u[i - (Len(s) - 1)]
    BY <1>3, <2>4
  <2>6. \A i \in 1..(Len(s) + Len(u)) :
            (s \o u)[i] = IF i <= Len(s) THEN s[i] ELSE u[i - Len(s)]
    BY <1>3
  <2>7. ASSUME NEW i \in 1..(Len(s) + Len(u) - 1)
        PROVE  Tail(s \o u)[i] = (Tail(s) \o u)[i]
    <3>1. i + 1 \in 1..(Len(s) + Len(u)) /\ (i + 1) - Len(s) = i - (Len(s) - 1)
      BY <2>1
    <3>2. (s \o u)[i + 1] = IF i + 1 <= Len(s) THEN s[i + 1] ELSE u[(i + 1) - Len(s)]
      BY <2>6, <3>1
    <3>3. i <= Len(s) - 1 => i \in 1..(Len(s) - 1)
      BY <2>1
    <3> QED
      BY <2>1, <2>3, <2>4, <2>5, <3>1, <3>2, <3>3
  <2>8. Tail(s \o u) = Tail(s) \o u
    <3> DEFINE x == Tail(s \o u)
               y == Tail(s) \o u
    <3>1. x \in Seq(S) /\ y \in Seq(S) /\ Len(x) = Len(y) /\ \A i \in 1..Len(x) : x[i] = y[i]
      BY <2>3, <2>5, <2>7
    <3> HIDE DEF x, y
    <3>2. x = y
      BY <3>1
    <3> QED
      BY <3>2 DEF x, y
  <2> QED
    BY <1>3, <2>2, <2>8
<1> QED
  BY <1>1, <1>2, <1>3

LEMMA OneHeld ==
    ASSUME NEW s \in Seq(Arrivals), Len(s) = 1
    PROVE  \E f \in Arrivals : s = <<f>> /\ s[1] = f
<1> DEFINE f == s[1]
<1>1. f \in Arrivals
  OBVIOUS
<1> HIDE DEF f
<1>2. <<f>> \in Seq(Arrivals) /\ Len(<<f>>) = 1 /\ <<f>>[1] = f
  BY <1>1
<1>3. \A i \in 1..Len(s) : s[i] = <<f>>[i]
  BY <1>2 DEF f
<1>4. s = <<f>>
  BY <1>2, <1>3
<1> QED
  BY <1>1, <1>4 DEF f

\* A frame is read when none is held.
LEMMA OnTheWayRead ==
    ASSUME TypeOK, TypeOK', Places, OnTheWay,
           NEW kind \in {"clip", "opaque", "chunk"}, Read(kind),
           task \in {"handshaking", "serving"}, UNCHANGED <<channels, handle, applied>>
    PROVE  OnTheWay'
<1> SUFFICES ASSUME handle # {}
             PROVE  Line(appliedClips, inbound \o held', arrived')
  BY DEF OnTheWay, channels, applied
<1> DEFINE n == Len(arrived) + 1
           f == [kind |-> kind, n |-> n]
<1>1. /\ inbound \in Seq(Arrivals) /\ arrived \in Seq(Arrivals)
      /\ appliedClips \in Seq(Arrival)
  BY DEF TypeOK, TransportTypeOK
<1>2. arrived' = Append(arrived, f) /\ held' = <<f>> /\ n \in 1..MaxArrivals
  BY <1>1 DEF Read
<1>3. f \in Arrivals /\ f.n = n
  BY <1>2 DEF Arrivals
<1>4. held = << >> /\ inbound \o held = inbound
  BY <1>1, Concatenations DEF Places
<1>5. Line(appliedClips, inbound, arrived)
  BY <1>4 DEF OnTheWay
<1> HIDE DEF f
<1>6. Line(appliedClips, Append(inbound, f), Append(arrived, f))
  BY <1>1, <1>3, <1>5, LineRead
<1>7. inbound \o held' = Append(inbound, f)
  BY <1>1, <1>2, <1>3, Concatenations
<1> QED
  BY <1>2, <1>6, <1>7

LEMMA OnTheWayForward ==
    ASSUME TypeOK, TypeOK', Places, OnTheWay, Forward, UNCHANGED applied
    PROVE  OnTheWay'
<1>1. /\ inbound \in Seq(Arrivals) /\ held \in Seq(Arrivals) /\ arrived \in Seq(Arrivals)
      /\ appliedClips \in Seq(Arrival) /\ inbound' \in Seq(Arrivals)
  BY DEF TypeOK, TransportTypeOK
<1>2. PICK f \in Arrivals : held = <<f>> /\ held[1] = f
  BY <1>1, OneHeld DEF Forward, Places
<1>3. /\ handle' = handle /\ arrived' = arrived /\ appliedClips' = appliedClips
      /\ held' = << >> /\ inbound' \o held' = inbound'
  BY <1>1, Concatenations DEF Forward, applied
<1> SUFFICES ASSUME handle # {}
             PROVE  Line(appliedClips, inbound', arrived)
  BY <1>3 DEF OnTheWay
<1>4. Line(appliedClips, inbound \o held, arrived)
  BY DEF OnTheWay
<1>5. CASE held[1].kind = "chunk"
  <2>1. inbound \o held = Append(inbound, f)
    BY <1>1, <1>2, Concatenations
  <2>2. inbound' = inbound
    BY <1>5 DEF Forward
  <2> QED
    BY <1>1, <1>2, <1>4, <1>5, <2>1, <2>2, LineWithoutLast
<1>6. CASE held[1].kind # "chunk"
  BY <1>4, <1>6 DEF Forward
<1> QED
  BY <1>5, <1>6

LEMMA OnTheWayTake ==
    ASSUME TypeOK, TypeOK', Places, OnTheWay, TakeInboundClip
    PROVE  OnTheWay'
<1>1. /\ inbound \in Seq(Arrivals) /\ held \in Seq(Arrivals) /\ arrived \in Seq(Arrivals)
      /\ appliedClips \in Seq(Arrival) /\ inbound # << >>
  BY DEF TypeOK, TransportTypeOK, TakeInboundClip
<1> DEFINE fs == inbound \o held
<1>2. fs \in Seq(Arrivals) /\ fs # << >> /\ Head(fs) = Head(inbound)
      /\ Tail(fs) = Tail(inbound) \o held
  BY <1>1, Concatenations
<1>3. CASE ReturnFromSupervisor
  BY <1>3 DEF ReturnFromSupervisor, OnTheWay
<1>4. CASE ~ReturnFromSupervisor
  <2>1. /\ handle' = handle /\ arrived' = arrived /\ held' = held /\ inbound' = Tail(inbound)
        /\ appliedClips' = IF Head(inbound).kind = "clip"
                           THEN Append(appliedClips, Head(inbound).n)
                           ELSE appliedClips
    BY <1>4 DEF TakeInboundClip
  <2> SUFFICES ASSUME handle # {}
               PROVE  Line(appliedClips', Tail(fs), arrived)
    BY <1>2, <2>1 DEF OnTheWay
  <2>2. Line(appliedClips, fs, arrived)
    BY DEF OnTheWay
  <2> HIDE DEF fs
  <2>3. CASE Head(fs).kind = "clip"
    BY <1>1, <1>2, <2>1, <2>2, <2>3, LineApply
  <2>4. CASE Head(fs).kind # "clip"
    BY <1>1, <1>2, <2>1, <2>2, <2>4, LineSkip
  <2> QED
    BY <2>3, <2>4
<1> QED
  BY <1>3, <1>4

LEMMA OnTheWayNext ==
    ASSUME TypeOK, TypeOK', Places, OnTheWay, [Next]_vars
    PROVE  OnTheWay'
<1>1. ASSUME UNCHANGED <<inbound, held, arrived, appliedClips, handle>>
      PROVE  OnTheWay'
  BY <1>1 DEF OnTheWay
<1>2. CASE ReturnFromSupervisor
  BY <1>2 DEF ReturnFromSupervisor, OnTheWay
<1>3. CASE TransportTask /\ UNCHANGED supervisorVars
  <2>1. UNCHANGED applied
    BY <1>3 DEF supervisorVars
  <2>2. CASE Forward
    BY <2>1, <2>2, OnTheWayForward
  <2>3. CASE ForwardRefused
    BY <2>3 DEF ForwardRefused, Places, Ends, OnTheWay
  <2>4. CASE Dialed \/ DialFails \/ SendClip \/ AttemptEnds \/ Retry
    BY <1>1, <2>1, <2>4 DEF Dialed, DialFails, SendClip, AttemptEnds, Retry, channels, applied
  <2>5. CASE SendChunk \/ OutboundClosed \/ OutboundFilesClosed
    BY <1>1, <2>1, <2>5 DEF SendChunk, WriteChunk, OutboundClosed, OutboundFilesClosed,
       channels, applied
  <2> QED
    BY <1>3, <2>2, <2>3, <2>4, <2>5 DEF TransportTask
<1>4. CASE Network /\ UNCHANGED supervisorVars
  <2>1. UNCHANGED applied
    BY <1>4 DEF supervisorVars
  <2>2. CASE HandshakeFails \/ ReadWelcome \/ ConnectionEnds
    BY <1>1, <2>1, <2>2 DEF HandshakeFails, ReadWelcome, ConnectionEnds, channels, applied
  <2>3. ASSUME NEW kind \in {"clip", "opaque"}, ReadWelcomeWithClip(kind)
        PROVE  OnTheWay'
    BY <2>1, <2>3, OnTheWayRead DEF ReadWelcomeWithClip
  <2>4. ASSUME NEW kind \in {"clip", "opaque", "chunk"}, ReadRelay(kind)
        PROVE  OnTheWay'
    BY <2>1, <2>4, OnTheWayRead DEF ReadRelay
  <2> QED
    BY <1>4, <2>2, <2>3, <2>4 DEF Network
<1>5. CASE SupervisorTask
  <2>1. CASE TakeInboundClip
    BY <2>1, OnTheWayTake
  <2>2. CASE TakeLocalClip \/ TakeLocalFile \/ ReadChunk \/ QueueChunk
    BY <1>1, <2>2 DEF TakeLocalClip, TakeLocalFile, ReadChunk, QueueChunk, transportVars,
       channels, applied
  <2>3. CASE TakeInboundChunk \/ ApplyBatch
    BY <1>1, <2>3 DEF TakeInboundChunk, ApplyBatch, PutOnClipboard, transportVars, channels,
       applied
  <2>4. CASE EventsClosed
    BY <1>2, <2>4 DEF EventsClosed
  <2> QED
    BY <1>5, <2>1, <2>2, <2>3, <2>4 DEF SupervisorTask
<1>6. ASSUME NEW kind \in {"clip", "files"}, LocalChange(kind)
      PROVE  OnTheWay'
  BY <1>1, <1>6 DEF LocalChange, transportVars, channels, applied
<1>7. CASE ClipboardFails
  BY <1>1, <1>7 DEF ClipboardFails, transportVars, channels, applied
<1>8. CASE AbortSupervisor
  BY <1>2, <1>8 DEF AbortSupervisor
<1>9. CASE AbortTransport
  BY <1>1, <1>9 DEF AbortTransport, channels, supervisorVars, applied
<1>10. CASE UNCHANGED vars
  BY <1>1, <1>10 DEF vars, transportVars, channels, supervisorVars, applied
<1> QED
  BY <1>3, <1>4, <1>5, <1>6, <1>7, <1>8, <1>9, <1>10 DEF Next

\* Towards the clipboard no clip is lost, repeated or reordered between the socket
\* and apply_tx, whatever the capacities and over any number of connections.
THEOREM NothingLostInbound == Spec => []InboundConserved
<1>1. Init => OnTheWay
  <2> SUFFICES ASSUME Init
               PROVE  Line(<< >>, << >>, << >>)
    BY DEF Init, TransportInit, OnTheWay
  <2> QED
    BY DEF Line, Waits, Increasing, Values, ClipsIn
<1>2. TypeOK /\ TypeOK' /\ Places /\ OnTheWay /\ [Next]_vars => OnTheWay'
  BY OnTheWayNext
<1>3. TypeOK /\ OnTheWay => InboundConserved
  <2> SUFFICES ASSUME TypeOK, OnTheWay, handle # {}
               PROVE  /\ Increasing(appliedClips \o Numbers(inbound \o held))
                      /\ Values(appliedClips) \union ClipsIn(inbound \o held) = ClipsIn(arrived)
    BY DEF InboundConserved, Values
  <2>1. /\ inbound \o held \in Seq(Arrivals) /\ arrived \in Seq(Arrivals)
        /\ appliedClips \in Seq(Arrival)
    BY DEF TypeOK, TransportTypeOK
  <2> QED
    BY <2>1, LineConserves DEF OnTheWay
<1>4. Init => TypeOK /\ Places
  BY TypesInit
<1>5. TypeOK /\ Places /\ [Next]_vars => (TypeOK /\ Places)'
  BY TypesNext
<1> QED
  BY <1>1, <1>2, <1>3, <1>4, <1>5, PTL DEF Spec

----------------------------------------------------------------------------
(* Clips for the hub *)

\* The clips sent and those queued grow, up to the change m.
Departing(sc, out, m) ==
    /\ Increasing(sc) /\ Increasing(out)
    /\ \A i \in 1..Len(sc), j \in 1..Len(out) : sc[i] < out[j]
    /\ \A i \in 1..Len(sc) : sc[i] <= m
    /\ \A i \in 1..Len(out) : out[i] <= m

\* The changes still to be taken come after m, in order, up to the last one, c.
Coming(ev, m, c) ==
    /\ m <= c
    /\ \A i, j \in 1..Len(ev) : i < j => ev[i].n < ev[j].n
    /\ \A i \in 1..Len(ev) : m < ev[i].n /\ ev[i].n <= c

LEMMA Rest ==
    ASSUME NEW S, NEW s \in Seq(S), s # << >>
    PROVE  /\ Len(s) \in Nat /\ 1 \in 1..Len(s) /\ Head(s) = s[1]
           /\ Len(Tail(s)) = Len(s) - 1 /\ Tail(s) \in Seq(S)
           /\ \A i \in 1..Len(Tail(s)) : i + 1 \in 1..Len(s) /\ Tail(s)[i] = s[i + 1]
OBVIOUS

LEMMA More ==
    ASSUME NEW S, NEW s \in Seq(S), NEW x \in S
    PROVE  /\ Len(s) \in Nat /\ Len(Append(s, x)) = Len(s) + 1 /\ Append(s, x) \in Seq(S)
           /\ Append(s, x)[Len(s) + 1] = x
           /\ \A i \in 1..Len(s) : Append(s, x)[i] = s[i]
           /\ \A i \in 1..Len(Append(s, x)) : i \in 1..Len(s) \/ i = Len(s) + 1
OBVIOUS

LEMMA IncreasingTail ==
    ASSUME NEW s \in Seq(Nat), s # << >>, Increasing(s)
    PROVE  /\ Increasing(Tail(s))
           /\ \A i \in 1..Len(Tail(s)) : Head(s) < Tail(s)[i]
<1> DEFINE u == Tail(s)
<1>1. /\ Len(s) \in Nat /\ 1 \in 1..Len(s) /\ Head(s) = s[1] /\ Len(u) = Len(s) - 1
      /\ \A i \in 1..Len(u) : i + 1 \in 1..Len(s) /\ u[i] = s[i + 1]
  BY Rest
<1> HIDE DEF u
<1>2. ASSUME NEW i \in 1..Len(u), NEW j \in 1..Len(u), i < j
      PROVE  u[i] < u[j]
  <2>1. i + 1 \in 1..Len(s) /\ j + 1 \in 1..Len(s) /\ i + 1 < j + 1
    BY <1>1, <1>2
  <2> QED
    BY <1>1, <2>1 DEF Increasing
<1>3. ASSUME NEW i \in 1..Len(u)
      PROVE  Head(s) < u[i]
  <2>1. i + 1 \in 1..Len(s) /\ 1 < i + 1
    BY <1>1
  <2> QED
    BY <1>1, <2>1 DEF Increasing
<1> QED
  BY <1>2, <1>3 DEF Increasing, u

LEMMA IncreasingAppend ==
    ASSUME NEW s \in Seq(Nat), NEW x \in Nat, Increasing(s), \A i \in 1..Len(s) : s[i] < x
    PROVE  Increasing(Append(s, x))
<1> DEFINE u == Append(s, x)
<1>1. /\ Len(s) \in Nat /\ Len(u) = Len(s) + 1 /\ u[Len(s) + 1] = x
      /\ \A i \in 1..Len(s) : u[i] = s[i]
  BY More
<1> HIDE DEF u
<1>2. ASSUME NEW i \in 1..Len(u), NEW j \in 1..Len(u), i < j
      PROVE  u[i] < u[j]
  <2>1. i \in 1..Len(s) /\ (j \in 1..Len(s) \/ j = Len(s) + 1)
    BY <1>1, <1>2
  <2> QED
    BY <1>1, <1>2, <2>1 DEF Increasing
<1> QED
  BY <1>2 DEF Increasing, u

\* The first clip is written.
LEMMA DepartingSent ==
    ASSUME NEW sc \in Seq(Nat), NEW out \in Seq(Nat), NEW m \in Nat,
           out # << >>, Departing(sc, out, m)
    PROVE  Departing(Append(sc, Head(out)), Tail(out), m)
<1> DEFINE x == Head(out)
           u == Tail(out)
           sd == Append(sc, x)
<1>1. /\ 1 \in 1..Len(out) /\ x = out[1] /\ x \in Nat
      /\ \A i \in 1..Len(u) : i + 1 \in 1..Len(out) /\ u[i] = out[i + 1]
  BY Rest
<1>2. /\ sd[Len(sc) + 1] = x
      /\ \A i \in 1..Len(sc) : sd[i] = sc[i]
      /\ \A i \in 1..Len(sd) : i \in 1..Len(sc) \/ i = Len(sc) + 1
  BY <1>1, More
<1>3. Increasing(u) /\ \A i \in 1..Len(u) : x < u[i]
  BY IncreasingTail DEF Departing
<1>4. Increasing(sd)
  BY <1>1, IncreasingAppend DEF Departing
<1> HIDE DEF x, u, sd
<1>5. ASSUME NEW i \in 1..Len(sd), NEW j \in 1..Len(u)
      PROVE  sd[i] < u[j]
  BY <1>1, <1>2, <1>3 DEF Departing
<1>6. \A i \in 1..Len(sd) : sd[i] <= m
  BY <1>1, <1>2 DEF Departing
<1>7. \A i \in 1..Len(u) : u[i] <= m
  BY <1>1 DEF Departing
<1>8. Departing(sd, u, m)
  BY <1>3, <1>4, <1>5, <1>6, <1>7 DEF Departing
<1> QED
  BY <1>8 DEF x, u, sd

\* The first clip is lost.
LEMMA DepartingLost ==
    ASSUME NEW sc \in Seq(Nat), NEW out \in Seq(Nat), NEW m \in Nat,
           out # << >>, Departing(sc, out, m)
    PROVE  Departing(sc, Tail(out), m)
<1> DEFINE u == Tail(out)
<1>1. \A i \in 1..Len(u) : i + 1 \in 1..Len(out) /\ u[i] = out[i + 1]
  BY Rest
<1>2. Increasing(u)
  BY IncreasingTail DEF Departing
<1> HIDE DEF u
<1>3. Departing(sc, u, m)
  BY <1>1, <1>2 DEF Departing
<1> QED
  BY <1>3 DEF u

\* A later change is taken: a clip is queued, or the queue stays as it is.
LEMMA DepartingLater ==
    ASSUME NEW sc \in Seq(Nat), NEW out \in Seq(Nat), NEW m \in Nat, NEW n \in Nat,
           m < n, Departing(sc, out, m)
    PROVE  Departing(sc, Append(out, n), n) /\ Departing(sc, out, n)
<1> DEFINE u == Append(out, n)
<1>0. /\ \A i \in 1..Len(sc) : sc[i] \in Nat /\ sc[i] < n /\ sc[i] <= n
      /\ \A i \in 1..Len(out) : out[i] \in Nat /\ out[i] < n /\ out[i] <= n
  <2>1. /\ \A i \in 1..Len(sc) : sc[i] \in Nat /\ sc[i] <= m
        /\ \A i \in 1..Len(out) : out[i] \in Nat /\ out[i] <= m
    BY DEF Departing
  <2> QED
    BY <2>1
<1>1. /\ u[Len(out) + 1] = n
      /\ \A i \in 1..Len(out) : u[i] = out[i]
      /\ \A i \in 1..Len(u) : i \in 1..Len(out) \/ i = Len(out) + 1
  BY More
<1>2. Increasing(u)
  BY <1>0, IncreasingAppend DEF Departing
<1> HIDE DEF u
<1>3. ASSUME NEW i \in 1..Len(sc), NEW j \in 1..Len(u)
      PROVE  sc[i] < u[j]
  BY <1>0, <1>1 DEF Departing
<1>4. \A i \in 1..Len(u) : u[i] <= n
  BY <1>0, <1>1
<1>5. Departing(sc, u, n)
  BY <1>0, <1>2, <1>3, <1>4 DEF Departing
<1>6. Departing(sc, out, n)
  BY <1>0 DEF Departing
<1> QED
  BY <1>5, <1>6 DEF u

LEMMA EventNumbers ==
    ASSUME NEW ev \in Seq(Event)
    PROVE  \A i \in 1..Len(ev) : ev[i] \in Event /\ ev[i].n \in Nat /\ ev[i].n \in 1..MaxChanges
<1>1. \A i \in 1..Len(ev) : ev[i] \in Event
  OBVIOUS
<1> QED
  BY <1>1 DEF Event

\* The user copies something, and the event fits or not.
LEMMA ComingMore ==
    ASSUME NEW ev \in Seq(Event), NEW m \in Nat, NEW c \in Nat, NEW e \in Event,
           e.n = c + 1, Coming(ev, m, c)
    PROVE  Coming(Append(ev, e), m, c + 1) /\ Coming(ev, m, c + 1)
<1> DEFINE u == Append(ev, e)
<1>1. /\ Len(ev) \in Nat /\ Len(u) = Len(ev) + 1 /\ u[Len(ev) + 1] = e
      /\ \A i \in 1..Len(ev) : u[i] = ev[i]
      /\ \A i \in 1..Len(u) : i \in 1..Len(ev) \/ i = Len(ev) + 1
  BY More
<1>2. \A i \in 1..Len(ev) : ev[i].n \in Nat /\ m < ev[i].n /\ ev[i].n < c + 1 /\ ev[i].n <= c + 1
  <2>1. \A i \in 1..Len(ev) : ev[i].n \in Nat /\ m < ev[i].n /\ ev[i].n <= c
    BY EventNumbers DEF Coming
  <2> QED
    BY <2>1
<1>3. m <= c
  BY DEF Coming
<1> HIDE DEF u
<1>4. ASSUME NEW i \in 1..Len(u), NEW j \in 1..Len(u), i < j
      PROVE  u[i].n < u[j].n
  <2>1. i \in 1..Len(ev) /\ (j \in 1..Len(ev) \/ j = Len(ev) + 1)
    BY <1>1, <1>4
  <2> QED
    BY <1>1, <1>2, <1>4, <2>1 DEF Coming
<1>5. ASSUME NEW i \in 1..Len(u)
      PROVE  m < u[i].n /\ u[i].n <= c + 1
  <2>1. CASE i \in 1..Len(ev)
    BY <1>1, <1>2, <2>1
  <2>2. CASE i = Len(ev) + 1
    BY <1>1, <1>3, <2>2
  <2> QED
    BY <1>1, <2>1, <2>2
<1>6. m <= c + 1
  BY <1>3
<1>7. Coming(u, m, c + 1)
  BY <1>4, <1>5, <1>6 DEF Coming
<1>8. Coming(ev, m, c + 1)
  BY <1>2, <1>6 DEF Coming
<1> QED
  BY <1>7, <1>8 DEF u

\* The next change is taken.
LEMMA ComingTaken ==
    ASSUME NEW ev \in Seq(Event), NEW m \in Nat, NEW c \in Nat, ev # << >>, Coming(ev, m, c)
    PROVE  /\ Head(ev).n \in Nat /\ m < Head(ev).n /\ Head(ev).n <= c
           /\ Coming(Tail(ev), Head(ev).n, c)
<1> DEFINE u == Tail(ev)
           n == Head(ev).n
<1>1. /\ Len(ev) \in Nat /\ 1 \in 1..Len(ev) /\ Head(ev) = ev[1] /\ Len(u) = Len(ev) - 1
      /\ \A i \in 1..Len(u) : i + 1 \in 1..Len(ev) /\ u[i] = ev[i + 1]
  BY Rest
<1>2. n = ev[1].n /\ n \in Nat /\ m < n /\ n <= c
  BY <1>1, EventNumbers DEF Coming
<1> HIDE DEF u, n
<1>3. ASSUME NEW i \in 1..Len(u), NEW j \in 1..Len(u), i < j
      PROVE  u[i].n < u[j].n
  <2>1. i + 1 \in 1..Len(ev) /\ j + 1 \in 1..Len(ev) /\ i + 1 < j + 1
    BY <1>1, <1>3
  <2> QED
    BY <1>1, <2>1 DEF Coming
<1>4. ASSUME NEW i \in 1..Len(u)
      PROVE  n < u[i].n /\ u[i].n <= c
  <2>1. i + 1 \in 1..Len(ev) /\ 1 < i + 1
    BY <1>1
  <2> QED
    BY <1>1, <1>2, <2>1 DEF Coming
<1>5. Coming(u, n, c)
  BY <1>2, <1>3, <1>4 DEF Coming
<1> QED
  BY <1>2, <1>5 DEF u, n

----------------------------------------------------------------------------
(* Chunks for the hub *)

Follows(a, b) == a.n < b.n \/ (a.n = b.n /\ b.i = a.i + 1)

\* b goes out after a was written, on the connection up or a later one: what was
\* between them went down with a's connection, if at all.
Resumes(a, b, up) ==
    \/ Follows(a, b)
    \/ a.n = b.n /\ a.i < b.i /\ a.on < up

\* What OutboundOrdered says of two chunks written one after the other.
InOrder(a, b) ==
    \/ a.n < b.n
    \/ a.n = b.n /\ a.i < b.i /\ a.on < b.on
    \/ a.n = b.n /\ a.i + 1 = b.i /\ a.on = b.on

\* The chunks p on their way follow one another and continue those written, sk;
\* none goes out on a connection before up.
Piped(p, sk, m, up) ==
    /\ \A k \in 1..(Len(p) - 1) : Follows(p[k], p[k + 1])
    /\ \A k \in 1..Len(p) : p[k].n <= m
    /\ \A k \in 1..(Len(sk) - 1) : InOrder(sk[k], sk[k + 1])
    /\ \A k \in 1..Len(sk) : sk[k].n <= m /\ sk[k].on <= up
    /\ (sk # << >> /\ p # << >>) => Resumes(sk[Len(sk)], p[1], up)

C == Chunk(MaxChanges, ChunksPerFile)
S == SentChunk(MaxChanges, ChunksPerFile)

LEMMA ChunkTypes ==
    /\ \A p \in Seq(C) : \A k \in 1..Len(p) : p[k] \in C /\ p[k].n \in Nat /\ p[k].i \in Nat
    /\ \A sk \in Seq(S) : \A k \in 1..Len(sk) :
          sk[k] \in S /\ sk[k].n \in Nat /\ sk[k].i \in Nat /\ sk[k].on \in Nat
<1>1. ASSUME NEW p \in Seq(C), NEW k \in 1..Len(p)
      PROVE  p[k] \in C /\ p[k].n \in Nat /\ p[k].i \in Nat
  <2>1. p[k] \in C
    OBVIOUS
  <2> QED
    BY <2>1 DEF C, Chunk
<1>2. ASSUME NEW sk \in Seq(S), NEW k \in 1..Len(sk)
      PROVE  sk[k] \in S /\ sk[k].n \in Nat /\ sk[k].i \in Nat /\ sk[k].on \in Nat
  <2>1. sk[k] \in S
    OBVIOUS
  <2> QED
    BY <2>1 DEF S, SentChunk
<1> QED
  BY <1>1, <1>2

\* Later changes and connections disturb nothing.
LEMMA PipedStays ==
    ASSUME NEW p \in Seq(C), NEW sk \in Seq(S), NEW m \in Nat, NEW up \in Nat,
           Piped(p, sk, m, up), NEW m2 \in Nat, NEW up2 \in Nat, m <= m2, up <= up2
    PROVE  Piped(p, sk, m2, up2)
<1>1. \A k \in 1..Len(p) : p[k].n <= m2
  BY ChunkTypes DEF Piped
<1>2. \A k \in 1..Len(sk) : sk[k].n <= m2 /\ sk[k].on <= up2
  BY ChunkTypes DEF Piped
<1>3. ASSUME sk # << >>, p # << >>
      PROVE  Resumes(sk[Len(sk)], p[1], up2)
  <2> DEFINE on == sk[Len(sk)].on
  <2>1. Len(sk) \in 1..Len(sk)
    BY <1>3
  <2>2. on \in Nat
    BY <2>1, ChunkTypes
  <2>3. Resumes(sk[Len(sk)], p[1], up)
    BY <1>3 DEF Piped
  <2>4. on < up => on < up2
    BY <2>2
  <2> QED
    BY <2>3, <2>4 DEF Resumes
<1> QED
  BY <1>1, <1>2, <1>3 DEF Piped

\* The first chunk is lost, and the connection with it.
LEMMA PipedLost ==
    ASSUME NEW p \in Seq(C), NEW sk \in Seq(S), NEW m \in Nat, NEW up \in Nat,
           p # << >>, Piped(p, sk, m, up)
    PROVE  Piped(Tail(p), sk, m, up + 1)
<1> DEFINE u == Tail(p)
<1>1. /\ Len(p) \in Nat /\ 1 \in 1..Len(p) /\ Len(u) = Len(p) - 1 /\ u \in Seq(C)
      /\ \A i \in 1..Len(u) : i + 1 \in 1..Len(p) /\ u[i] = p[i + 1]
  BY Rest
<1> HIDE DEF u
<1>2. ASSUME NEW k \in 1..(Len(u) - 1)
      PROVE  Follows(u[k], u[k + 1])
  <2>1. k \in 1..Len(u) /\ k + 1 \in 1..Len(u) /\ k + 1 \in 1..(Len(p) - 1)
    BY <1>1
  <2> QED
    BY <1>1, <2>1 DEF Piped
<1>3. \A k \in 1..Len(u) : u[k].n <= m
  BY <1>1 DEF Piped
<1>4. ASSUME sk # << >>, u # << >>
      PROVE  Resumes(sk[Len(sk)], u[1], up + 1)
  <2> DEFINE a == sk[Len(sk)]
  <2>1. Len(sk) \in 1..Len(sk) /\ 1 \in 1..Len(u) /\ 1 \in 1..(Len(p) - 1) /\ 2 \in 1..Len(p)
    BY <1>1, <1>4
  <2>2. Follows(p[1], p[2]) /\ u[1] = p[2]
    BY <1>1, <2>1 DEF Piped
  <2>3. Follows(a, p[1]) \/ (a.n = p[1].n /\ a.i < p[1].i)
    BY <1>1, <1>4 DEF Piped, Resumes
  <2>4. /\ a.n \in Nat /\ a.i \in Nat /\ p[1].n \in Nat /\ p[1].i \in Nat
        /\ p[2].n \in Nat /\ p[2].i \in Nat
    BY <1>1, <2>1, ChunkTypes
  <2>6. a.on < up + 1
    BY <2>1, ChunkTypes DEF Piped
  <2> HIDE DEF a
  <2>5. Resumes(a, p[2], up + 1)
    <3>1. CASE a.n < p[1].n \/ p[1].n < p[2].n
      BY <2>2, <2>3, <2>4, <3>1 DEF Follows, Resumes
    <3>2. CASE a.n = p[1].n /\ p[1].n = p[2].n
      <4>1. p[2].i = p[1].i + 1 /\ (p[1].i = a.i + 1 \/ a.i < p[1].i)
        BY <2>2, <2>3, <2>4, <3>2 DEF Follows
      <4> QED
        BY <2>4, <2>6, <3>2, <4>1 DEF Resumes
    <3> QED
      BY <2>2, <2>3, <2>4, <3>1, <3>2 DEF Follows
  <2> QED
    BY <2>2, <2>5 DEF a
<1>6. \A k \in 1..Len(sk) : sk[k].n <= m /\ sk[k].on <= up + 1
  BY ChunkTypes DEF Piped
<1>5. Piped(u, sk, m, up + 1)
  BY <1>2, <1>3, <1>4, <1>6 DEF Piped
<1> QED
  BY <1>5 DEF u

\* The first chunk is written.
LEMMA PipedWritten ==
    ASSUME NEW p \in Seq(C), NEW sk \in Seq(S), NEW m \in Nat, NEW up \in Nat, p # << >>,
           NEW w \in S, w.n = Head(p).n, w.i = Head(p).i, w.on = up,
           Piped(p, sk, m, up)
    PROVE  Piped(Tail(p), Append(sk, w), m, up)
<1> DEFINE u == Tail(p)
           su == Append(sk, w)
<1>1. /\ Len(p) \in Nat /\ 1 \in 1..Len(p) /\ Len(u) = Len(p) - 1 /\ u \in Seq(C)
      /\ \A i \in 1..Len(u) : i + 1 \in 1..Len(p) /\ u[i] = p[i + 1]
      /\ Head(p) = p[1]
  BY Rest
<1>2. /\ Len(sk) \in Nat /\ Len(su) = Len(sk) + 1 /\ su \in Seq(S) /\ su[Len(sk) + 1] = w
      /\ \A i \in 1..Len(sk) : su[i] = sk[i]
  BY More
<1>3. /\ w.n = p[1].n /\ w.i = p[1].i /\ w.on = up
      /\ p[1].n \in Nat /\ p[1].i \in Nat /\ p[1].n <= m
  BY <1>1, ChunkTypes DEF Piped
<1> HIDE DEF u, su
<1>4. ASSUME NEW k \in 1..(Len(u) - 1)
      PROVE  Follows(u[k], u[k + 1])
  <2>1. k \in 1..Len(u) /\ k + 1 \in 1..Len(u) /\ k + 1 \in 1..(Len(p) - 1)
    BY <1>1
  <2> QED
    BY <1>1, <2>1 DEF Piped
<1>5. \A k \in 1..Len(u) : u[k].n <= m
  BY <1>1 DEF Piped
<1>6. ASSUME NEW k \in 1..(Len(su) - 1)
      PROVE  InOrder(su[k], su[k + 1])
  <2>1. CASE k \in 1..(Len(sk) - 1)
    <3>1. k \in 1..Len(sk) /\ k + 1 \in 1..Len(sk)
      BY <1>2, <2>1
    <3> QED
      BY <1>2, <2>1, <3>1 DEF Piped
  <2>2. CASE k = Len(sk)
    <3> DEFINE a == sk[Len(sk)]
    <3>1. k \in 1..Len(sk) /\ sk # << >> /\ su[k] = a /\ su[k + 1] = w
      BY <1>2, <1>6, <2>2
    <3>2. Resumes(a, p[1], up)
      BY <1>1, <3>1 DEF Piped, Resumes
    <3>3. a.n \in Nat /\ a.i \in Nat /\ a.on \in Nat /\ a.on <= up
      BY <2>2, <3>1, ChunkTypes DEF Piped
    <3> HIDE DEF a
    <3>4. InOrder(a, w)
      BY <1>3, <3>2, <3>3 DEF Resumes, Follows, InOrder
    <3> QED
      BY <3>1, <3>4
  <2> QED
    BY <1>2, <2>1, <2>2
<1>7. ASSUME NEW k \in 1..Len(su)
      PROVE  su[k].n <= m /\ su[k].on <= up
  <2>1. CASE k \in 1..Len(sk)
    BY <1>2, <2>1 DEF Piped
  <2>2. CASE k = Len(sk) + 1
    BY <1>2, <1>3, <2>2
  <2> QED
    BY <1>2, <2>1, <2>2
<1>8. ASSUME u # << >>
      PROVE  Resumes(su[Len(su)], u[1], up)
  <2>1. 1 \in 1..Len(u) /\ 1 \in 1..(Len(p) - 1)
    BY <1>1, <1>8
  <2>2. Follows(p[1], p[2]) /\ u[1] = p[2]
    BY <1>1, <2>1 DEF Piped
  <2>3. su[Len(su)] = w
    BY <1>2
  <2>4. Follows(w, u[1])
    BY <1>3, <2>2 DEF Follows
  <2> QED
    BY <2>3, <2>4 DEF Resumes
<1>9. Piped(u, su, m, up)
  BY <1>4, <1>5, <1>6, <1>7, <1>8 DEF Piped
<1> QED
  BY <1>9 DEF u, su

LEMMA Joined ==
    ASSUME NEW T, NEW s \in Seq(T), NEW u \in Seq(T)
    PROVE  /\ Len(s) \in Nat /\ Len(u) \in Nat
           /\ s \o u \in Seq(T) /\ Len(s \o u) = Len(s) + Len(u)
           /\ \A k \in 1..(Len(s) + Len(u)) :
                 (s \o u)[k] = IF k <= Len(s) THEN s[k] ELSE u[k - Len(s)]
OBVIOUS

\* A chunk moves from the file to the queue.
LEMMA Moved ==
    ASSUME NEW T, NEW s \in Seq(T), NEW u \in Seq(T), u # << >>
    PROVE  Append(s, Head(u)) \o Tail(u) = s \o u
<1> DEFINE x == Append(s, Head(u)) \o Tail(u)
           y == s \o u
           m == Len(s) + Len(u)
<1>1. /\ Len(u) \in Nat /\ Head(u) = u[1] /\ 1 \in 1..Len(u) /\ Tail(u) \in Seq(T)
      /\ Len(Tail(u)) = Len(u) - 1
      /\ \A i \in 1..Len(Tail(u)) : i + 1 \in 1..Len(u) /\ Tail(u)[i] = u[i + 1]
  BY Rest
<1>2. Head(u) \in T
  BY <1>1
<1>3. /\ Len(s) \in Nat /\ Append(s, Head(u)) \in Seq(T)
      /\ Len(Append(s, Head(u))) = Len(s) + 1
      /\ Append(s, Head(u))[Len(s) + 1] = u[1]
      /\ \A i \in 1..Len(s) : Append(s, Head(u))[i] = s[i]
  BY <1>1, <1>2, More
<1>4. /\ x \in Seq(T) /\ Len(x) = m
      /\ \A k \in 1..m : x[k] = IF k <= Len(s) + 1 THEN Append(s, Head(u))[k]
                                                   ELSE Tail(u)[k - (Len(s) + 1)]
  BY <1>1, <1>3, Joined
<1>5. /\ y \in Seq(T) /\ Len(y) = m
      /\ \A k \in 1..m : y[k] = IF k <= Len(s) THEN s[k] ELSE u[k - Len(s)]
  BY Joined
<1> HIDE DEF x, y
<1>6. ASSUME NEW k \in 1..m
      PROVE  x[k] = y[k]
  <2>1. CASE k <= Len(s)
    <3>1. k \in 1..Len(s)
      BY <1>3, <2>1
    <3> QED
      BY <1>3, <1>4, <1>5, <2>1, <3>1
  <2>2. CASE k = Len(s) + 1
    <3>1. k - Len(s) = 1
      BY <1>3, <2>2
    <3> QED
      BY <1>3, <1>4, <1>5, <2>2, <3>1
  <2>3. CASE k > Len(s) + 1
    <3>1. /\ k - (Len(s) + 1) \in 1..Len(Tail(u))
          /\ (k - (Len(s) + 1)) + 1 = k - Len(s)
      BY <1>1, <1>3, <2>3
    <3> QED
      BY <1>1, <1>3, <1>4, <1>5, <2>3, <3>1
  <2> QED
    BY <1>1, <1>3, <2>1, <2>2, <2>3
<1>7. x = y
  BY <1>4, <1>5, <1>6
<1> QED
  BY <1>7 DEF x, y

\* The rest of a file is given up.
LEMMA PipedShorter ==
    ASSUME NEW s \in Seq(C), NEW u \in Seq(C), NEW sk \in Seq(S), NEW m \in Nat, NEW up \in Nat,
           Piped(s \o u, sk, m, up)
    PROVE  Piped(s, sk, m, up)
<1> DEFINE p == s \o u
<1>1. /\ Len(s) \in Nat /\ Len(u) \in Nat /\ Len(p) = Len(s) + Len(u)
      /\ \A k \in 1..Len(s) : k \in 1..Len(p) /\ p[k] = s[k]
  BY Joined
<1>2. Piped(p, sk, m, up)
  OBVIOUS
<1> HIDE DEF p
<1>3. ASSUME NEW k \in 1..(Len(s) - 1)
      PROVE  Follows(s[k], s[k + 1])
  <2>1. k \in 1..(Len(p) - 1) /\ k \in 1..Len(s) /\ k + 1 \in 1..Len(s)
    BY <1>1
  <2> QED
    BY <1>1, <1>2, <2>1 DEF Piped
<1>4. \A k \in 1..Len(s) : s[k].n <= m
  BY <1>1, <1>2 DEF Piped
<1>5. ASSUME sk # << >>, s # << >>
      PROVE  Resumes(sk[Len(sk)], s[1], up)
  <2>1. 1 \in 1..Len(s)
    BY <1>1, <1>5
  <2>2. p # << >> /\ p[1] = s[1]
    BY <1>1, <2>1
  <2> QED
    BY <1>2, <1>5, <2>2 DEF Piped
<1> QED
  BY <1>2, <1>3, <1>4, <1>5 DEF Piped

\* A file is started: its chunks come after all others.
LEMMA PipedFile ==
    ASSUME NEW s \in Seq(C), NEW u \in Seq(C), NEW sk \in Seq(S), NEW m \in Nat, NEW up \in Nat,
           Piped(s, sk, m, up),
           NEW n \in Nat, m < n, \A k \in 1..Len(u) : u[k].n = n /\ u[k].i = k
    PROVE  Piped(s \o u, sk, n, up)
<1> DEFINE p == s \o u
<1>1. /\ Len(s) \in Nat /\ Len(u) \in Nat /\ Len(p) = Len(s) + Len(u) /\ p \in Seq(C)
      /\ \A k \in 1..(Len(s) + Len(u)) : p[k] = IF k <= Len(s) THEN s[k] ELSE u[k - Len(s)]
  BY Joined
<1> HIDE DEF p
<1>2. \A k \in 1..Len(s) : p[k] = s[k] /\ s[k].n \in Nat /\ s[k].n < n /\ s[k].n <= n
  <2>1. \A k \in 1..Len(s) : s[k].n \in Nat /\ s[k].n <= m
    BY ChunkTypes DEF Piped
  <2>2. \A k \in 1..Len(s) : p[k] = s[k]
    BY <1>1
  <2> QED
    BY <2>1, <2>2
<1>3. ASSUME NEW k \in 1..Len(p), k > Len(s)
      PROVE  p[k].n = n /\ p[k].i = k - Len(s)
  <2>1. k - Len(s) \in 1..Len(u) /\ p[k] = u[k - Len(s)]
    BY <1>1, <1>3
  <2> QED
    BY <2>1
<1>4. ASSUME NEW k \in 1..(Len(p) - 1)
      PROVE  Follows(p[k], p[k + 1])
  <2>1. CASE k + 1 <= Len(s)
    <3>1. k \in 1..(Len(s) - 1) /\ k \in 1..Len(s) /\ k + 1 \in 1..Len(s)
      BY <1>1, <2>1
    <3> QED
      BY <1>2, <3>1 DEF Piped
  <2>2. CASE k = Len(s)
    <3>1. k \in 1..Len(s) /\ k + 1 \in 1..Len(p) /\ k + 1 > Len(s)
      BY <1>1, <1>4, <2>2
    <3> QED
      BY <1>2, <1>3, <3>1 DEF Follows
  <2>3. CASE k > Len(s)
    <3>1. k \in 1..Len(p) /\ k + 1 \in 1..Len(p) /\ k + 1 > Len(s)
      BY <1>1, <1>4, <2>3
    <3>2. p[k].n = n /\ p[k].i = k - Len(s) /\ p[k + 1].n = n /\ p[k + 1].i = (k + 1) - Len(s)
      BY <1>3, <2>3, <3>1
    <3>3. (k + 1) - Len(s) = (k - Len(s)) + 1
      BY <1>1
    <3> QED
      BY <3>2, <3>3 DEF Follows
  <2> QED
    BY <1>1, <2>1, <2>2, <2>3
<1>5. ASSUME NEW k \in 1..Len(p)
      PROVE  p[k].n <= n
  <2>1. CASE k \in 1..Len(s)
    BY <1>2, <2>1
  <2>2. CASE k > Len(s)
    BY <1>3, <2>2
  <2> QED
    BY <1>1, <2>1, <2>2
<1>6. \A k \in 1..Len(sk) : sk[k].n \in Nat /\ sk[k].n < n /\ sk[k].n <= n /\ sk[k].on <= up
  <2>1. \A k \in 1..Len(sk) : sk[k].n \in Nat /\ sk[k].n <= m /\ sk[k].on <= up
    BY ChunkTypes DEF Piped
  <2> QED
    BY <2>1
<1>7. ASSUME sk # << >>, p # << >>
      PROVE  Resumes(sk[Len(sk)], p[1], up)
  <2>1. Len(sk) \in 1..Len(sk) /\ 1 \in 1..Len(p)
    BY <1>1, <1>7
  <2>2. CASE Len(s) = 0
    <3>1. p[1].n = n
      BY <1>3, <2>1, <2>2
    <3> QED
      BY <1>6, <2>1, <3>1 DEF Resumes, Follows
  <2>3. CASE Len(s) # 0
    <3>1. 1 \in 1..Len(s) /\ s # << >>
      BY <1>1, <2>3
    <3>2. p[1] = s[1]
      BY <1>2, <3>1
    <3> QED
      BY <1>7, <3>1, <3>2 DEF Piped
  <2> QED
    BY <2>2, <2>3
<1>8. Piped(p, sk, n, up)
  BY <1>4, <1>5, <1>6, <1>7 DEF Piped
<1> QED
  BY <1>8 DEF p

----------------------------------------------------------------------------
(* What leaves *)

\* The connection that the next chunk can go out on, if not a later one.
Up(cs, t) == IF Alive(t) THEN cs ELSE cs + 1

\* m is the last change the supervisor took.
Leaving(m) ==
    /\ Departing(sentClips, outbound, m)
    /\ Coming(events, m, changes)
    /\ Piped(outboundFiles \o toSend, sentChunks, m, Up(conns, task))

InStep == \E m \in 0..changes : Leaving(m)

LEMMA LeavingTypes ==
    ASSUME TypeOK
    PROVE  /\ sentClips \in Seq(Nat) /\ outbound \in Seq(Nat)
           /\ events \in Seq(Event) /\ changes \in Nat
           /\ outboundFiles \in Seq(C) /\ toSend \in Seq(C) /\ outboundFiles \o toSend \in Seq(C)
           /\ sentChunks \in Seq(S) /\ conns \in Nat
<1>1. ASSUME NEW s \in Seq(1..MaxChanges)
      PROVE  s \in Seq(Nat)
  OBVIOUS
<1>2. sentClips \in Seq(1..MaxChanges) /\ outbound \in Seq(1..MaxChanges)
  BY DEF TypeOK, TransportTypeOK
<1>3. outboundFiles \in Seq(C) /\ toSend \in Seq(C)
  BY DEF TypeOK, TransportTypeOK, C
<1>4. outboundFiles \o toSend \in Seq(C)
  BY <1>3
<1> QED
  BY <1>1, <1>2, <1>3, <1>4 DEF TypeOK, TransportTypeOK, S

\* No queue is touched, and the connection is not brought back to life.
LEMMA InStepStays ==
    ASSUME TypeOK, TypeOK', InStep,
           UNCHANGED <<sentClips, outbound, events, changes, outboundFiles, toSend, sentChunks>>,
           \/ conns' = conns /\ (Alive(task') => Alive(task))
           \/ conns' = conns + 1
    PROVE  InStep'
<1>1. PICK m \in 0..changes : Leaving(m)
  BY DEF InStep
<1>2. /\ outboundFiles \o toSend \in Seq(C) /\ sentChunks \in Seq(S)
      /\ m \in Nat /\ conns \in Nat /\ conns' \in Nat
  BY LeavingTypes
<1>3. /\ Up(conns, task) \in Nat /\ Up(conns', task') \in Nat /\ m <= m
      /\ Up(conns, task) <= Up(conns', task')
  <2>1. CASE conns' = conns /\ (Alive(task') => Alive(task))
    BY <1>2, <2>1 DEF Up, Alive
  <2>2. CASE conns' = conns + 1
    BY <1>2, <2>2 DEF Up, Alive
  <2> QED
    BY <2>1, <2>2
<1>4. Piped(outboundFiles \o toSend, sentChunks, m, Up(conns, task))
  BY <1>1 DEF Leaving
<1>5. Piped(outboundFiles \o toSend, sentChunks, m, Up(conns', task'))
  BY <1>2, <1>3, <1>4, PipedStays
<1> QED
  BY <1>1, <1>5 DEF Leaving, InStep, Up, Alive

LEMMA InStepSendClip ==
    ASSUME TypeOK, TypeOK', InStep, SendClip, UNCHANGED supervisorVars
    PROVE  InStep'
<1>1. PICK m \in 0..changes : Leaving(m)
  BY DEF InStep
<1>2. /\ sentClips \in Seq(Nat) /\ outbound \in Seq(Nat) /\ m \in Nat
      /\ outbound # << >> /\ Departing(sentClips, outbound, m)
  BY <1>1, LeavingTypes DEF SendClip, Leaving
<1>3. Departing(sentClips', outbound', m)
  <2>1. CASE sentClips' = Append(sentClips, Head(outbound))
    BY <1>2, <2>1, DepartingSent DEF SendClip
  <2>2. CASE sentClips' = sentClips
    BY <1>2, <2>2, DepartingLost DEF SendClip
  <2> QED
    BY <2>1, <2>2 DEF SendClip
<1>4. /\ outboundFiles \o toSend \in Seq(C) /\ sentChunks \in Seq(S) /\ conns \in Nat
  BY LeavingTypes
<1>5. /\ (outboundFiles \o toSend)' = outboundFiles \o toSend /\ sentChunks' = sentChunks
      /\ conns' = conns /\ events' = events /\ changes' = changes
      /\ task = "serving" /\ task' \in {"serving", "ended"}
  BY DEF SendClip, supervisorVars
<1>6. Piped(outboundFiles \o toSend, sentChunks, m, Up(conns, task))
  BY <1>1 DEF Leaving
<1>7. /\ Up(conns, task) \in Nat /\ Up(conns, task') \in Nat /\ m <= m
      /\ Up(conns, task) <= Up(conns, task')
  BY <1>2, <1>4, <1>5 DEF Up, Alive
<1>8. Piped(outboundFiles \o toSend, sentChunks, m, Up(conns, task'))
  BY <1>2, <1>4, <1>5, <1>6, <1>7, PipedStays
<1>9. Coming(events, m, changes)
  BY <1>1 DEF Leaving
<1>10. Leaving(m)'
  BY <1>3, <1>5, <1>8, <1>9 DEF Leaving, Up, Alive
<1> QED
  BY <1>5, <1>10 DEF InStep

LEMMA InStepSendChunk ==
    ASSUME TypeOK, TypeOK', Places, InStep, SendChunk, UNCHANGED supervisorVars
    PROVE  InStep'
<1> DEFINE p == outboundFiles \o toSend
           c == Head(outboundFiles)
           w == [n |-> c.n, i |-> c.i, on |-> conns]
<1>1. PICK m \in 0..changes : Leaving(m)
  BY DEF InStep
<1>2. /\ outboundFiles # << >> /\ outboundFiles' = Tail(outboundFiles) /\ toSend' = toSend
      /\ conns' = conns /\ events' = events /\ changes' = changes
      /\ sentClips' = sentClips /\ outbound' = outbound
      /\ task \in {"serving", "draining"} /\ m \in Nat
  BY DEF SendChunk, WriteChunk, supervisorVars
<1>3. /\ outboundFiles \in Seq(C) /\ toSend \in Seq(C) /\ p \in Seq(C)
      /\ sentChunks \in Seq(S) /\ conns \in Nat
  BY LeavingTypes
<1>4. p # << >> /\ Head(p) = c /\ p' = Tail(p)
  BY <1>2, <1>3, Concatenations
<1>5. c \in C
  BY <1>2, <1>3, Rest
<1>6. conns \in 1..MaxConnections
  BY <1>2 DEF Places, Alive, TypeOK, TransportTypeOK
<1>7. w \in S /\ w.n = c.n /\ w.i = c.i /\ w.on = conns
  BY <1>5, <1>6 DEF C, S, Chunk, SentChunk
<1>8. Up(conns, task) = conns
  BY <1>2 DEF Up, Alive
<1>9. Piped(p, sentChunks, m, conns)
  BY <1>1, <1>8 DEF Leaving
<1>10. \/ sentChunks' = Append(sentChunks, w) /\ task' = task
       \/ sentChunks' = sentChunks /\ task' = "ended"
  BY DEF SendChunk, WriteChunk
<1> HIDE DEF p, c, w
<1>11. Piped(p', sentChunks', m, Up(conns', task'))
  <2>1. CASE sentChunks' = Append(sentChunks, w) /\ task' = task
    <3>1. Piped(Tail(p), Append(sentChunks, w), m, conns)
      BY <1>2, <1>3, <1>4, <1>7, <1>9, PipedWritten
    <3> QED
      BY <1>2, <1>4, <1>8, <2>1, <3>1
  <2>2. CASE sentChunks' = sentChunks /\ task' = "ended"
    <3>1. Up(conns', task') = conns + 1
      BY <1>2, <2>2 DEF Up, Alive
    <3>2. Piped(Tail(p), sentChunks, m, conns + 1)
      BY <1>2, <1>3, <1>4, <1>9, PipedLost
    <3> QED
      BY <1>2, <1>4, <2>2, <3>1, <3>2
  <2> QED
    BY <1>10, <2>1, <2>2
<1>12. Leaving(m)'
  BY <1>1, <1>2, <1>11 DEF Leaving, Up, Alive, p
<1> QED
  BY <1>2, <1>12 DEF InStep

LEMMA InStepTake ==
    ASSUME TypeOK, TypeOK', Places, InStep, TakeLocalClip \/ TakeLocalFile
    PROVE  InStep'
<1> DEFINE p == outboundFiles \o toSend
<1>1. PICK m \in 0..changes : Leaving(m)
  BY DEF InStep
<1>2. /\ events # << >> /\ events' = Tail(events) /\ changes' = changes /\ m \in Nat
      /\ sentClips' = sentClips /\ sentChunks' = sentChunks /\ conns' = conns /\ task' = task
      /\ outboundFiles' = outboundFiles
  BY DEF TakeLocalClip, TakeLocalFile, transportVars, channels, sent
<1>3. /\ sentClips \in Seq(Nat) /\ outbound \in Seq(Nat) /\ sentChunks \in Seq(S)
      /\ events \in Seq(Event) /\ changes \in Nat /\ conns \in Nat
      /\ outboundFiles \in Seq(C) /\ p \in Seq(C) /\ Up(conns, task) \in Nat
  BY LeavingTypes DEF Up
<1>4. /\ Departing(sentClips, outbound, m)
      /\ Coming(events, m, changes)
      /\ Piped(p, sentChunks, m, Up(conns, task))
  BY <1>1 DEF Leaving
<1>0. PICK n : n = Head(events).n
  OBVIOUS
<1>5. n \in Nat /\ m < n /\ n <= changes /\ Coming(Tail(events), n, changes)
  BY <1>0, <1>2, <1>3, <1>4, ComingTaken
<1>6. Departing(sentClips, Append(outbound, n), n) /\ Departing(sentClips, outbound, n)
  BY <1>2, <1>3, <1>4, <1>5, DepartingLater
<1>7. CASE TakeLocalClip
  <2>1. (outbound' = Append(outbound, n) \/ outbound' = outbound) /\ toSend' = toSend
    BY <1>0, <1>7 DEF TakeLocalClip
  <2>2. Departing(sentClips, outbound', n)
    BY <1>6, <2>1
  <2> HIDE DEF p
  <2>3. Piped(p, sentChunks, n, Up(conns, task))
    BY <1>2, <1>3, <1>4, <1>5, PipedStays
  <2>4. Leaving(n)'
    BY <1>2, <1>5, <2>1, <2>2, <2>3 DEF Leaving, Up, Alive, p
  <2> QED
    BY <1>2, <1>3, <1>5, <2>4 DEF InStep
<1>8. CASE TakeLocalFile
  <2>1. /\ outbound' = outbound /\ toSend = << >>
        /\ toSend' = [i \in 1..ChunksPerFile |-> [n |-> n, i |-> i]]
    BY <1>0, <1>8 DEF TakeLocalFile, transportVars, channels, Places
  <2>2. p = outboundFiles
    BY <1>3, <2>1, Concatenations
  <2>3. toSend' \in Seq(C)
    BY DEF TypeOK, C
  <2>4. Len(toSend') = ChunksPerFile
        /\ \A k \in 1..Len(toSend') : toSend'[k].n = n /\ toSend'[k].i = k
    BY <2>1, <2>3
  <2> HIDE DEF p
  <2>5. Piped(outboundFiles \o toSend', sentChunks, n, Up(conns, task))
    BY <1>2, <1>3, <1>4, <1>5, <2>2, <2>3, <2>4, PipedFile
  <2>6. Leaving(n)'
    BY <1>2, <1>5, <1>6, <2>1, <2>5 DEF Leaving, Up, Alive
  <2> QED
    BY <1>2, <1>3, <1>5, <2>6 DEF InStep
<1> QED
  BY <1>7, <1>8

LEMMA InStepRead ==
    ASSUME TypeOK, TypeOK', InStep, ReadChunk
    PROVE  InStep'
<1>1. PICK m \in 0..changes : Leaving(m)
  BY DEF InStep
<1>2. UNCHANGED <<sentClips, outbound, events, changes, outboundFiles, sentChunks, conns, task>>
  BY DEF ReadChunk, transportVars, channels, sent
<1>3. CASE toSend' = toSend
  BY <1>2, <1>3, InStepStays
<1>4. CASE toSend' = << >>
  <2>1. /\ outboundFiles \in Seq(C) /\ toSend \in Seq(C) /\ sentChunks \in Seq(S)
        /\ conns \in Nat /\ m \in Nat /\ Up(conns, task) \in Nat
    BY LeavingTypes DEF Up
  <2>2. Piped(outboundFiles \o toSend, sentChunks, m, Up(conns, task))
    BY <1>1 DEF Leaving
  <2>3. Piped(outboundFiles, sentChunks, m, Up(conns, task))
    BY <2>1, <2>2, PipedShorter
  <2>4. outboundFiles' \o toSend' = outboundFiles
    BY <1>2, <1>4, <2>1, Concatenations
  <2>5. Leaving(m)'
    BY <1>1, <1>2, <2>3, <2>4 DEF Leaving, Up, Alive
  <2> QED
    BY <1>2, <2>5 DEF InStep
<1> QED
  BY <1>3, <1>4 DEF ReadChunk

LEMMA InStepQueue ==
    ASSUME TypeOK, TypeOK', Places, InStep, QueueChunk
    PROVE  InStep'
<1>1. PICK m \in 0..changes : Leaving(m)
  BY DEF InStep
<1>2. /\ UNCHANGED <<sentClips, outbound, events, changes, sentChunks, conns, task>>
      /\ outboundFiles' = Append(outboundFiles, Head(toSend)) /\ toSend' = Tail(toSend)
      /\ toSend # << >>
  BY DEF QueueChunk, sent, Places
<1>3. outboundFiles \in Seq(C) /\ toSend \in Seq(C)
  BY LeavingTypes
<1>4. Append(outboundFiles, Head(toSend)) \o Tail(toSend) = outboundFiles \o toSend
  BY <1>2, <1>3, Moved
<1>5. Leaving(m)'
  BY <1>1, <1>2, <1>4 DEF Leaving, Up, Alive
<1> QED
  BY <1>2, <1>5 DEF InStep

LEMMA InStepNext ==
    ASSUME TypeOK, TypeOK', Places, InStep, [Next]_vars
    PROVE  InStep'
<1> USE DEF channels, sent, applied
<1>1. CASE ReturnFromSupervisor
  BY <1>1, InStepStays DEF ReturnFromSupervisor
<1>2. CASE TransportTask /\ UNCHANGED supervisorVars
  <2>1. UNCHANGED <<events, changes, toSend>>
    BY <1>2 DEF supervisorVars
  <2>2. CASE Dialed
    BY <2>1, <2>2, InStepStays DEF Dialed
  <2>3. CASE DialFails \/ Forward \/ ForwardRefused
    BY <2>1, <2>3, InStepStays DEF DialFails, Forward, ForwardRefused, Alive
  <2>4. CASE SendClip
    BY <1>2, <2>4, InStepSendClip
  <2>5. CASE SendChunk
    BY <1>2, <2>5, InStepSendChunk
  <2>6. CASE OutboundClosed \/ OutboundFilesClosed
    BY <2>1, <2>6, InStepStays DEF OutboundClosed, OutboundFilesClosed, Alive
  <2>7. CASE AttemptEnds \/ Retry
    BY <2>1, <2>7, InStepStays DEF AttemptEnds, Retry, Alive
  <2> QED
    BY <1>2, <2>2, <2>3, <2>4, <2>5, <2>6, <2>7 DEF TransportTask
<1>3. CASE Network /\ UNCHANGED supervisorVars
  <2>1. UNCHANGED <<events, changes, toSend>>
    BY <1>3 DEF supervisorVars
  <2>2. CASE HandshakeFails \/ ReadWelcome \/ ConnectionEnds
    BY <2>1, <2>2, InStepStays DEF HandshakeFails, ReadWelcome, ConnectionEnds, Alive
  <2>3. ASSUME NEW kind \in {"clip", "opaque"}, ReadWelcomeWithClip(kind)
        PROVE  InStep'
    BY <2>1, <2>3, InStepStays DEF ReadWelcomeWithClip, Alive
  <2>4. ASSUME NEW kind \in {"clip", "opaque", "chunk"}, ReadRelay(kind)
        PROVE  InStep'
    BY <2>1, <2>4, InStepStays DEF ReadRelay, Alive
  <2> QED
    BY <1>3, <2>2, <2>3, <2>4 DEF Network
<1>4. CASE SupervisorTask
  <2>1. CASE TakeLocalClip \/ TakeLocalFile
    BY <2>1, InStepTake
  <2>2. CASE ReadChunk
    BY <2>2, InStepRead
  <2>3. CASE QueueChunk
    BY <2>3, InStepQueue
  <2>4. CASE TakeInboundClip
    BY <1>1, <2>4, InStepStays DEF TakeInboundClip
  <2>5. CASE TakeInboundChunk \/ ApplyBatch
    BY <2>5, InStepStays DEF TakeInboundChunk, ApplyBatch, PutOnClipboard, transportVars
  <2>6. CASE EventsClosed
    BY <1>1, <2>6 DEF EventsClosed
  <2> QED
    BY <1>4, <2>1, <2>2, <2>3, <2>4, <2>5, <2>6 DEF SupervisorTask
<1>5. ASSUME NEW kind \in {"clip", "files"}, LocalChange(kind)
      PROVE  InStep'
  <2> DEFINE e == [kind |-> kind, n |-> changes + 1]
  <2>1. PICK m \in 0..changes : Leaving(m)
    BY DEF InStep
  <2>2. events \in Seq(Event) /\ changes \in Nat /\ m \in Nat /\ changes + 1 \in 1..MaxChanges
    BY <1>5, LeavingTypes DEF LocalChange, TypeOK
  <2>3. e \in Event /\ e.n = changes + 1
    BY <2>2 DEF Event
  <2>4. /\ UNCHANGED <<sentClips, outbound, outboundFiles, toSend, sentChunks, conns, task>>
        /\ changes' = changes + 1
        /\ events' = Append(events, e) \/ events' = events
    BY <1>5 DEF LocalChange, transportVars
  <2> HIDE DEF e
  <2>5. Coming(events, m, changes)
    BY <2>1 DEF Leaving
  <2>6. Coming(events', m, changes')
    BY <2>2, <2>3, <2>4, <2>5, ComingMore
  <2>7. Leaving(m)'
    BY <2>1, <2>4, <2>6 DEF Leaving, Up, Alive
  <2> QED
    BY <2>2, <2>4, <2>7 DEF InStep
<1>6. CASE ClipboardFails
  BY <1>6, InStepStays DEF ClipboardFails, transportVars
<1>7. CASE AbortSupervisor
  BY <1>1, <1>7 DEF AbortSupervisor
<1>8. CASE AbortTransport
  BY <1>8, InStepStays DEF AbortTransport, supervisorVars, Alive
<1>9. CASE UNCHANGED vars
  BY <1>9, InStepStays DEF vars, transportVars, supervisorVars
<1> QED
  BY <1>2, <1>3, <1>4, <1>5, <1>6, <1>7, <1>8, <1>9 DEF Next

\* Towards the hub no change is repeated or reordered, and the chunks of a file
\* leave one connection without a gap, over any number of connections.
THEOREM OrderKept == Spec => []OutboundOrdered
<1>1. Init => InStep
  <2> SUFFICES ASSUME Init
               PROVE  Leaving(0)
    BY DEF InStep, Init
  <2>1. /\ sentClips = << >> /\ outbound = << >> /\ events = << >> /\ changes = 0
        /\ outboundFiles = << >> /\ toSend = << >> /\ sentChunks = << >>
    BY DEF Init, TransportInit
  <2>2. << >> \o << >> = << >>
    OBVIOUS
  <2>3. /\ Departing(<< >>, << >>, 0) /\ Coming(<< >>, 0, 0)
        /\ \A up : Piped(<< >>, << >>, 0, up)
    BY DEF Departing, Increasing, Coming, Piped
  <2> QED
    BY <2>1, <2>2, <2>3 DEF Leaving
<1>2. TypeOK /\ TypeOK' /\ Places /\ InStep /\ [Next]_vars => InStep'
  BY InStepNext
<1>3. InStep => OutboundOrdered
  <2> SUFFICES ASSUME NEW m \in 0..changes, Leaving(m)
               PROVE  OutboundOrdered
    BY DEF InStep
  <2>1. Increasing(sentClips)
    BY DEF Leaving, Departing
  <2>2. \A k \in 1..(Len(sentChunks) - 1) : InOrder(sentChunks[k], sentChunks[k + 1])
    BY DEF Leaving, Piped
  <2> QED
    BY <2>1, <2>2 DEF OutboundOrdered, InOrder
<1>4. Init => TypeOK /\ Places
  BY TypesInit
<1>5. TypeOK /\ Places /\ [Next]_vars => (TypeOK /\ Places)'
  BY TypesNext
<1> QED
  BY <1>1, <1>2, <1>3, <1>4, <1>5, PTL DEF Spec

============================================================================
