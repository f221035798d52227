----------------------------- MODULE HubServer -----------------------------
(***************************************************************************)
(* The server: the hub (module Hub) and the connection tasks of            *)
(* core/src/server/ws.rs.  Each connection has three tasks that interleave *)
(* freely: handle_socket itself (phase), the reader and the writer it      *)
(* spawns.  The remote client is the environment: it may send any frame,   *)
(* close, fall silent or break its socket at any moment.                   *)
(***************************************************************************)
EXTENDS Hub

CONSTANTS
    FrameTypes,   \* bound: what the remote clients publish
    Steady,       \* bound: clients whose connection never ends
    Slow          \* clients that may stop draining their socket for ever

ASSUME ClientsAssumption ==
    /\ FrameTypes \subseteq {"Publish", "PublishFile"}
    /\ Steady \subseteq Conns
    /\ Slow \subseteq Conns

VARIABLES
    permits,    \* free permits of AppState::conn_sem
    phase,      \* phase[c]: where sync_handler / handle_socket is
    internal,   \* internal[c]: c's internal channel (welcome, errors), capacity 8
    reader,     \* reader[c]: the reader task
    writer,     \* writer[c]: the writer task
    kinds,      \* history: kinds[c] are those of the frames written to c's socket
    told,       \* history: told[c] are the clips in these frames
    published   \* frames numbered so far

out == <<kinds, told>>
connVars == <<permits, phase, internal, reader, writer, out, published>>
vars == <<hubVars, connVars>>

\* "registering": Register sent, reply awaited; "serving": both tasks spawned;
\* "deregistering": a task ended, Deregister not sent yet; "returning":
\* Deregister sent (or registration refused), permit still held.
Phases == {"none", "upgrading", "registering", "serving", "deregistering",
           "returning", "gone"}

\* "rejected": the reader queued an error frame and ended.
ReaderStates == {"none", "running", "ended", "rejected"}

\* The writer polls its sources one after the other: "idle" is before it polls
\* the internal channel, "polling" after it found that channel empty.
\* "broken": it ended because the socket failed.
WriterStates == {"none", "idle", "polling", "ended", "broken"}

\* What travels on an internal channel: the body of a welcome is the snapshot.
WireFrames ==
    [kind: {"welcome"}, body: Frames \cup {NoClip}] \cup [kind: {"error"}, body: {NoClip}]
Wire(kind, body) == [kind |-> kind, body |-> body]

\* The clips that a frame with the given body carries.
Bodies(body) == IF body = NoClip THEN << >> ELSE <<body>>

InternalCap == 8   \* mpsc::channel::<Frame>(8)

TypeOK ==
    /\ HubTypeOK
    /\ permits \in 0..MaxConns
    /\ phase \in [Conns -> Phases]
    /\ internal \in [Conns -> Seq(WireFrames)]
    /\ reader \in [Conns -> ReaderStates]
    /\ writer \in [Conns -> WriterStates]
    /\ kinds \in [Conns -> Seq({"welcome", "clip", "chunk", "error"})]
    /\ told \in [Conns -> Seq(Frames)]
    /\ published \in 0..MaxFrames

Init ==
    /\ HubInit
    /\ permits = MaxConns
    /\ phase = [c \in Conns |-> "none"]
    /\ internal = [c \in Conns |-> << >>]
    /\ reader = [c \in Conns |-> "none"]
    /\ writer = [c \in Conns |-> "none"]
    /\ kinds = [c \in Conns |-> << >>]
    /\ told = [c \in Conns |-> << >>]
    /\ published = 0

ReaderDone(c) == reader[c] \in {"ended", "rejected"}
WriterDone(c) == writer[c] \in {"ended", "broken"}
Listening == {c \in Conns : ~WriterDone(c)}

----------------------------------------------------------------------------
(* sync_handler and handle_socket *)

\* try_acquire_owned: without a free permit the request gets 503 and nothing
\* changes.
Upgrade(c) ==
    /\ phase[c] = "none"
    /\ permits > 0
    /\ permits' = permits - 1
    /\ phase' = [phase EXCEPT ![c] = "upgrading"]
    /\ UNCHANGED <<hubVars, internal, reader, writer, out, published>>

\* The client never completes the upgrade: axum drops the callback that owns
\* the permit.
UpgradeFails(c) ==
    /\ phase[c] = "upgrading"
    /\ permits' = permits + 1
    /\ phase' = [phase EXCEPT ![c] = "gone"]
    /\ UNCHANGED <<hubVars, internal, reader, writer, out, published>>

\* HubHandle::register, up to the await of the reply.
Register(c) ==
    /\ phase[c] = "upgrading"
    /\ Enqueue("Register", c, 0)
    /\ phase' = [phase EXCEPT ![c] = "registering"]
    /\ UNCHANGED <<clients, lastClip, stats, ack, clipq, fileq, missed>>
    /\ UNCHANGED <<permits, internal, reader, writer, out, published>>

\* Bug variant: the welcome carries the hub's clip of the moment, not the
\* snapshot taken with the registration.
WelcomeWithCurrentClip(c) ==
    /\ phase[c] = "registering"
    /\ ack[c].result = "Accepted"
    /\ phase' = [phase EXCEPT ![c] = "serving"]
    /\ internal' = [internal EXCEPT ![c] = Append(@, Wire("welcome", lastClip))]
    /\ reader' = [reader EXCEPT ![c] = "running"]
    /\ writer' = [writer EXCEPT ![c] = "idle"]
    /\ UNCHANGED <<hubVars, permits, out, published>>

\* The reply arrives: queue the welcome and spawn both tasks, or, if the hub
\* refused, close the socket and return.
ReceiveAck(c) ==
    /\ phase[c] = "registering"
    /\ ack[c].result # "none"
    /\ IF ack[c].result = "Accepted"
       THEN /\ phase' = [phase EXCEPT ![c] = "serving"]
            /\ internal' = [internal EXCEPT ![c] =
                               Append(@, Wire("welcome", ack[c].lastClip))]
            /\ reader' = [reader EXCEPT ![c] = "running"]
            /\ writer' = [writer EXCEPT ![c] = "idle"]
       ELSE /\ phase' = [phase EXCEPT ![c] = "returning"]
            /\ UNCHANGED <<internal, reader, writer>>
    /\ UNCHANGED <<hubVars, permits, out, published>>

\* Bug variant: join! in place of select!, so that both tasks must end first.
BothEndsObserved(c) ==
    /\ phase[c] = "serving"
    /\ ReaderDone(c) /\ WriterDone(c)
    /\ phase' = [phase EXCEPT ![c] = "deregistering"]
    /\ UNCHANGED <<hubVars, permits, internal, reader, writer, out, published>>

\* Bug variant: only the reader's end is waited for.
ReaderEndObserved(c) ==
    /\ phase[c] = "serving"
    /\ ReaderDone(c)
    /\ phase' = [phase EXCEPT ![c] = "deregistering"]
    /\ UNCHANGED <<hubVars, permits, internal, reader, writer, out, published>>

\* select! on the two join handles.  The handle of the other task is dropped,
\* which detaches that task: it keeps running.
TaskEndObserved(c) ==
    /\ phase[c] = "serving"
    /\ ReaderDone(c) \/ WriterDone(c)
    /\ phase' = [phase EXCEPT ![c] = "deregistering"]
    /\ UNCHANGED <<hubVars, permits, internal, reader, writer, out, published>>

\* Bug variant: try_send in place of send().await, so that a full inbox loses
\* the message.
DeregisterUnlessFull(c) ==
    /\ phase[c] = "deregistering"
    /\ inbox' = IF Len(inbox) < InboxCap
                THEN Append(inbox, [type |-> "Deregister", conn |-> c, n |-> 0])
                ELSE inbox
    /\ phase' = [phase EXCEPT ![c] = "returning"]
    /\ UNCHANGED <<clients, lastClip, stats, ack, clipq, fileq, missed>>
    /\ UNCHANGED <<permits, internal, reader, writer, out, published>>

\* HubHandle::deregister.
Deregister(c) ==
    /\ phase[c] = "deregistering"
    /\ Enqueue("Deregister", c, 0)
    /\ phase' = [phase EXCEPT ![c] = "returning"]
    /\ UNCHANGED <<clients, lastClip, stats, ack, clipq, fileq, missed>>
    /\ UNCHANGED <<permits, internal, reader, writer, out, published>>

\* handle_socket returns: its internal_tx and then the permit are dropped.
Return(c) ==
    /\ phase[c] = "returning"
    /\ permits' = permits + 1
    /\ phase' = [phase EXCEPT ![c] = "gone"]
    /\ UNCHANGED <<hubVars, internal, reader, writer, out, published>>

----------------------------------------------------------------------------
(* The reader task *)

\* A valid clip or file_chunk frame is forwarded to the hub.
ReadPublish(c, type) ==
    /\ reader[c] = "running"
    /\ published < MaxFrames
    /\ Enqueue(type, c, published + 1)
    /\ published' = published + 1
    /\ UNCHANGED <<clients, lastClip, stats, ack, clipq, fileq, missed>>
    /\ UNCHANGED <<permits, phase, internal, reader, writer, out>>

\* Any other frame: queue an error frame for the writer and end.
ReadBadFrame(c) ==
    /\ reader[c] = "running"
    /\ Len(internal[c]) < InternalCap
    /\ internal' = [internal EXCEPT ![c] = Append(@, Wire("error", NoClip))]
    /\ reader' = [reader EXCEPT ![c] = "rejected"]
    /\ UNCHANGED <<hubVars, permits, phase, writer, out, published>>

\* Close frame, end of stream, read error, or READ_TIMEOUT without a frame.
ReadEnds(c) ==
    /\ reader[c] = "running"
    /\ reader' = [reader EXCEPT ![c] = "ended"]
    /\ UNCHANGED <<hubVars, permits, phase, internal, writer, out, published>>

----------------------------------------------------------------------------
(* The writer task: the arms of its biased select!, in order *)

\* The internal channel has a sender while handle_socket or the reader lives.
InternalOpen(c) == phase[c] # "gone" \/ reader[c] = "running"

\* A frame goes out on c's socket.
Written(c, kind, clips) ==
    /\ kinds' = [kinds EXCEPT ![c] = Append(@, kind)]
    /\ told' = [told EXCEPT ![c] = @ \o clips]

\* Bug variant: the writer goes on after an error frame.
WriteInternalGoingOn(c) ==
    /\ writer[c] = "idle"
    /\ internal[c] # << >>
    /\ Written(c, Head(internal[c]).kind, Bodies(Head(internal[c]).body))
    /\ internal' = [internal EXCEPT ![c] = Tail(@)]
    /\ UNCHANGED <<hubVars, permits, phase, reader, writer, published>>

\* internal_rx: write the frame; after an error frame close and end.
WriteInternal(c) ==
    /\ writer[c] = "idle"
    /\ internal[c] # << >>
    /\ Written(c, Head(internal[c]).kind, Bodies(Head(internal[c]).body))
    /\ internal' = [internal EXCEPT ![c] = Tail(@)]
    /\ writer' = [writer EXCEPT ![c] =
                     IF Head(internal[c]).kind = "error" THEN "ended" ELSE "idle"]
    /\ UNCHANGED <<hubVars, permits, phase, reader, published>>

\* internal_rx.recv() is None: every sender is gone.
InternalClosed(c) ==
    /\ writer[c] = "idle"
    /\ internal[c] = << >>
    /\ ~InternalOpen(c)
    /\ writer' = [writer EXCEPT ![c] = "ended"]
    /\ UNCHANGED <<hubVars, permits, phase, internal, reader, out, published>>

\* internal_rx is pending: go on to the other arms.  Other tasks may run in
\* between.
PollPastInternal(c) ==
    /\ writer[c] = "idle"
    /\ internal[c] = << >>
    /\ InternalOpen(c)
    /\ writer' = [writer EXCEPT ![c] = "polling"]
    /\ UNCHANGED <<hubVars, permits, phase, internal, reader, out, published>>

\* Bug variant: clip_rx is read last-in first-out.
WriteNewestClip(c) ==
    /\ writer[c] = "polling"
    /\ clipq[c] # << >>
    /\ Written(c, "clip", <<clipq[c][Len(clipq[c])]>>)
    /\ clipq' = [clipq EXCEPT ![c] = SubSeq(@, 1, Len(@) - 1)]
    /\ writer' = [writer EXCEPT ![c] = "idle"]
    /\ UNCHANGED <<inbox, clients, lastClip, stats, ack, fileq, missed>>
    /\ UNCHANGED <<permits, phase, internal, reader, published>>

\* clip_rx.
WriteClip(c) ==
    /\ writer[c] = "polling"
    /\ clipq[c] # << >>
    /\ Written(c, "clip", <<Head(clipq[c])>>)
    /\ clipq' = [clipq EXCEPT ![c] = Tail(@)]
    /\ writer' = [writer EXCEPT ![c] = "idle"]
    /\ UNCHANGED <<inbox, clients, lastClip, stats, ack, fileq, missed>>
    /\ UNCHANGED <<permits, phase, internal, reader, published>>

\* clip_rx.recv() is None: the hub dropped its sender with the registration.
ClipClosed(c) ==
    /\ writer[c] = "polling"
    /\ clipq[c] = << >>
    /\ c \notin clients
    /\ writer' = [writer EXCEPT ![c] = "ended"]
    /\ UNCHANGED <<hubVars, permits, phase, internal, reader, out, published>>

\* file_rx.
WriteChunk(c) ==
    /\ writer[c] = "polling"
    /\ clipq[c] = << >>
    /\ c \in clients
    /\ fileq[c] # << >>
    /\ Written(c, "chunk", << >>)
    /\ fileq' = [fileq EXCEPT ![c] = Tail(@)]
    /\ writer' = [writer EXCEPT ![c] = "idle"]
    /\ UNCHANGED <<inbox, clients, lastClip, stats, ack, clipq, missed>>
    /\ UNCHANGED <<permits, phase, internal, reader, published>>

\* Nothing is ready: wait, perhaps send a Ping, then poll again.
PollAgain(c) ==
    /\ writer[c] = "polling"
    /\ clipq[c] = << >>
    /\ fileq[c] = << >>
    /\ c \in clients
    /\ writer' = [writer EXCEPT ![c] = "idle"]
    /\ UNCHANGED <<hubVars, permits, phase, internal, reader, out, published>>

\* sink.send fails, for a frame or for a Ping.
SinkFails(c) ==
    /\ writer[c] \in {"idle", "polling"}
    /\ writer' = [writer EXCEPT ![c] = "broken"]
    /\ UNCHANGED <<hubVars, permits, phase, internal, reader, out, published>>

----------------------------------------------------------------------------
HubTurn ==
    /\ HubStep(Listening)
    /\ UNCHANGED connVars

Handler(c) ==
    \/ Upgrade(c)
    \/ UpgradeFails(c)
    \/ Register(c)
    \/ ReceiveAck(c)
    \/ TaskEndObserved(c)
    \/ Deregister(c)
    \/ Return(c)

\* The client goes: its reader or its writer ends.
Departure(c) ==
    \/ ReadBadFrame(c)
    \/ ReadEnds(c)
    \/ SinkFails(c)

Writer(c) ==
    \/ WriteInternal(c)
    \/ InternalClosed(c)
    \/ PollPastInternal(c)
    \/ WriteClip(c)
    \/ ClipClosed(c)
    \/ WriteChunk(c)
    \/ PollAgain(c)

Next ==
    \/ HubTurn
    \/ \E c \in Conns : Handler(c) \/ Writer(c)
    \/ \E c \in Conns, type \in FrameTypes : ReadPublish(c, type)
    \/ \E c \in Conns \ Steady : Departure(c)

Spec == Init /\ [][Next]_vars

\* The runtime polls every ready task again, so the hub, a handler that has
\* sent its Register, and the writer of a client that drains its socket keep
\* moving.  Nothing is assumed of what remote clients send or whether their
\* upgrade completes, nor of a Slow client's writer, which may wait in
\* sink.send for ever.
Fairness ==
    /\ WF_vars(HubTurn)
    /\ \A c \in Conns :
        WF_vars(ReceiveAck(c) \/ TaskEndObserved(c) \/ Deregister(c) \/ Return(c))
    /\ \A c \in Conns \ Slow : WF_vars(Writer(c))

FairSpec == Spec /\ Fairness
----------------------------------------------------------------------------
(* Safety *)

\* The hub never answers AtCapacity, which ws.rs calls impossible: a permit is
\* returned only after the Deregister is in the inbox, so a later Register
\* finds room, however long the inbox has waited.
HubNeverRefuses == \A c \in Conns : ack[c].result # "AtCapacity"

\* The live counter the tray shows counts the registered clients, each of
\* which holds a permit or has its Deregister on the way, so it can exceed
\* neither the capacity nor the connections that exist.
LiveCount ==
    /\ stats = Cardinality(clients)
    /\ stats <= MaxConns
    /\ \A c \in clients :
          \/ phase[c] \in {"registering", "serving", "deregistering"}
          \/ \E i \in 1..Len(inbox) :
                inbox[i].type = "Deregister" /\ inbox[i].conn = c

\* The snapshot in a welcome still to be written: by WelcomeFirst, no other
\* frame of the internal channel carries a clip.
Owed(c) == IF internal[c] = << >> THEN << >> ELSE Bodies(Head(internal[c]).body)

\* Of all frames written to c or waiting in its internal channel, the first and
\* only the first is a welcome.
WelcomeFirst(c) ==
    /\ \A i \in 1..Len(kinds[c]) : kinds[c][i] = "welcome" <=> i = 1
    /\ \A i \in 1..Len(internal[c]) :
          internal[c][i].kind = "welcome" <=> i = 1 /\ kinds[c] = << >>

\* What a client has been told, and is still owed, is in publication order
\* from the welcome on: no clip is told twice (in the welcome and again as a
\* relay), none overtakes another, and none is the client's own.
StreamInOrder ==
    \A c \in Conns :
        LET clips == told[c] \o Owed(c) \o clipq[c]
        IN  /\ \A i, j \in 1..Len(clips) : i < j => clips[i].n < clips[j].n
            /\ \A i \in 1..Len(clips) : clips[i].from # c
            /\ WelcomeFirst(c)

\* c's writer has nothing left to write and the hub knows c.
Drained(c) ==
    /\ phase[c] = "serving"
    /\ ~WriterDone(c)
    /\ internal[c] = << >>
    /\ clipq[c] = << >>

\* Whoever is drained was last told the cached clip, unless it published that
\* clip itself or its queue was full at that very clip: "last-write-wins, so
\* dropping an intermediate value is acceptable" (hub.rs).
PeersConverge ==
    lastClip # NoClip =>
        \A c \in Conns \ missed :
            Drained(c) /\ lastClip.from # c =>
                told[c] # << >> /\ told[c][Len(told[c])] = lastClip

\* A socket carries nothing after its error frame, and a writer that ended
\* writes nothing: a step only extends what the client was sent.
NothingAfterError ==
    [][\A c \in Conns :
          kinds'[c] # kinds[c] \/ told'[c] # told[c] =>
              /\ ~WriterDone(c)
              /\ \A i \in 1..Len(kinds[c]) : kinds[c][i] # "error"]_vars

----------------------------------------------------------------------------
(* Liveness, under FairSpec *)

\* A connection with a dead task is reaped, even when its writer is stuck: it
\* leaves the hub and its permit comes back.
DeadConnectionsReaped ==
    \A c \in Conns :
        phase[c] = "serving" /\ (ReaderDone(c) \/ WriterDone(c))
            ~> phase[c] = "gone" /\ c \notin clients

\* The detached writer of a client that drains its socket ends after the
\* reader, through the channels the other tasks close.
WriterFollowsReader ==
    \A c \in Conns \ Slow : ReaderDone(c) ~> WriterDone(c)

\* One stuck client delays nobody: whatever its queues hold, every message in
\* the hub's inbox is handled, and a clip queued for a client that drains its
\* socket is written to it.
SlowPeerDelaysNobody ==
    /\ inbox # << >> ~> inbox = << >>
    /\ \A c \in Conns \ Slow, n \in 1..MaxFrames :
          (\E i \in 1..Len(clipq[c]) : clipq[c][i].n = n)
              ~> WriterDone(c) \/ \E i \in 1..Len(told[c]) : told[c][i].n = n

----------------------------------------------------------------------------
(* Refinement: the server implements ClipRelay *)

\* The clip c's registration was answered with, in the sequence c is fed.
Snapshot(c) == Bodies(ack[c].lastClip)

\* All that c was ever fed: the snapshot, the relays written to its socket,
\* and the relays still queued.
Feed(c) ==
    (IF kinds[c] = << >> /\ internal[c] = << >> THEN Snapshot(c)
     ELSE told[c] \o Owed(c)) \o clipq[c]

Relay == INSTANCE ClipRelay WITH
            Clips <- Frames, last <- lastClip, members <- clients,
            feed <- [c \in Conns |-> Feed(c)]

\* Seen from its clients, the server is a last-write-wins register with one
\* ordered, lossy feed per member.
ImplementsClipRelay == Relay!Spec
============================================================================
