-------------------------- MODULE ClientTransport --------------------------
(***************************************************************************)
(* The client's transport task (core/src/client/transport.rs): it dials    *)
(* the hub, reads the welcome, relays frames both ways over four bounded   *)
(* channels, and dials again when the connection ends.  The server and     *)
(* the network are the environment.  The owner of the other channel ends   *)
(* is in Client.                                                           *)
(*                                                                         *)
(* Frames that arrive are numbered as they are read off the socket; frames *)
(* that leave are numbered by the local change they come from.  How long   *)
(* the task sleeps before it dials again is not modelled.                  *)
(***************************************************************************)
EXTENDS Naturals, Sequences

CONSTANTS
    InboundCap,         \* INBOUND_BUF
    OutboundCap,        \* OUTBOUND_BUF
    InboundFilesCap,    \* INBOUND_FILES_BUF
    OutboundFilesCap,   \* OUTBOUND_FILES_BUF
    OneShot,            \* SpawnOptions::one_shot
    MaxArrivals,        \* bound: frames read in a behaviour
    MaxConnections      \* bound: connections established in a behaviour

ASSUME TransportAssumption ==
    /\ {InboundCap, OutboundCap, InboundFilesCap, OutboundFilesCap} \subseteq Nat \ {0}
    /\ OneShot \in BOOLEAN
    /\ {MaxArrivals, MaxConnections} \subseteq Nat

VARIABLES
    task,           \* where run_loop / connect_and_serve is
    held,           \* the frame `tx.send(..).await` holds, in a sequence of at most one
    status,         \* the watch channel the tray reads
    inbound,        \* clips for the owner
    inboundFiles,   \* file chunks for the owner
    outbound,       \* clips from the owner
    outboundFiles,  \* file chunks from the owner
    handle,         \* the ends of the channels that their owner still has
    conns,          \* connections established so far
    \* History:
    arrived,        \* every clip and chunk read from the socket, in order
    sentClips,      \* every clip written to the socket, in order
    sentChunks      \* every chunk written to a socket, in order, and on which

sent == <<sentClips, sentChunks>>
channels == <<inbound, inboundFiles, outbound, outboundFiles>>
transportVars == <<task, held, status, channels, handle, arrived, sent, conns>>

\* "greeting": forwarding the welcome's clip; "forwarding": forwarding a relayed
\* frame; "draining": drain_outbound_files; "ended": connect_and_serve returned.
Tasks == {"dialing", "handshaking", "greeting", "serving", "forwarding",
          "draining", "ended", "sleeping", "stopped"}

\* "opaque": a clip whose content type or encoding the client cannot use.
Arrivals == [kind: {"clip", "opaque", "chunk"}, n: 1..MaxArrivals]

\* What leaves: a clip is the number of its change, a chunk is the i-th of a file.
Chunk(changes, chunks) == [n: 1..changes, i: 1..chunks]

\* A chunk written, and the connection it went out on.
SentChunk(changes, chunks) == [n: 1..changes, i: 1..chunks, on: 1..MaxConnections]

\* The Transport struct: two senders and two receivers.
Ends == {"senders", "receivers"}

TransportTypeOK(changes, chunks) ==
    /\ task \in Tasks
    /\ held \in Seq(Arrivals) /\ Len(held) <= 1
    /\ status \in {"Connecting", "Connected", "Disconnected"}
    /\ inbound \in Seq(Arrivals) /\ Len(inbound) <= InboundCap
    /\ inboundFiles \in Seq(Arrivals) /\ Len(inboundFiles) <= InboundFilesCap
    /\ outbound \in Seq(1..changes) /\ Len(outbound) <= OutboundCap
    /\ outboundFiles \in Seq(Chunk(changes, chunks))
    /\ Len(outboundFiles) <= OutboundFilesCap
    /\ handle \in SUBSET Ends
    /\ arrived \in Seq(Arrivals)
    /\ sentClips \in Seq(1..changes)
    /\ sentChunks \in Seq(SentChunk(changes, chunks))
    /\ conns \in 0..MaxConnections

TransportInit ==
    /\ task = "dialing"
    /\ held = << >>
    /\ status = "Connecting"
    /\ inbound = << >>
    /\ inboundFiles = << >>
    /\ outbound = << >>
    /\ outboundFiles = << >>
    /\ handle = Ends
    /\ arrived = << >>
    /\ sentClips = << >>
    /\ sentChunks = << >>
    /\ conns = 0

----------------------------------------------------------------------------
(* The connection *)

\* The TCP, TLS and WebSocket handshakes succeed.
Dialed ==
    /\ task = "dialing"
    /\ conns < MaxConnections
    /\ conns' = conns + 1
    /\ task' = "handshaking"
    /\ status' = "Connected"
    /\ UNCHANGED <<held, channels, handle, arrived, sent>>

DialFails ==
    /\ task = "dialing"
    /\ task' = "ended"
    /\ UNCHANGED <<held, status, channels, handle, arrived, sent, conns>>

\* The first frame is not a welcome, or none comes.
HandshakeFails ==
    /\ task = "handshaking"
    /\ task' = "ended"
    /\ UNCHANGED <<held, status, channels, handle, arrived, sent, conns>>

Read(kind) ==
    LET frame == [kind |-> kind, n |-> Len(arrived) + 1]
    IN  /\ Len(arrived) < MaxArrivals
        /\ arrived' = Append(arrived, frame)
        /\ held' = <<frame>>

\* A welcome, without or with the hub's cached clip.
ReadWelcome ==
    /\ task = "handshaking"
    /\ task' = "serving"
    /\ UNCHANGED <<held, status, channels, handle, arrived, sent, conns>>

ReadWelcomeWithClip(kind) ==
    /\ task = "handshaking"
    /\ Read(kind)
    /\ task' = "greeting"
    /\ UNCHANGED <<status, channels, handle, sent, conns>>

\* A relayed clip or chunk.  Other frames are logged and change nothing, nor do
\* chunks that no receiver is wired for (receive_files is off with one_shot).
ReadRelay(kind) ==
    /\ task = "serving"
    /\ OneShot => kind # "chunk"
    /\ Read(kind)
    /\ task' = "forwarding"
    /\ UNCHANGED <<status, channels, handle, sent, conns>>

\* Bug variant: try_send in place of send().await.
ForwardUnlessFull ==
    /\ task \in {"greeting", "forwarding"}
    /\ "receivers" \in handle
    /\ IF held[1].kind = "chunk"
       THEN /\ inboundFiles' = IF Len(inboundFiles) < InboundFilesCap
                               THEN inboundFiles \o held ELSE inboundFiles
            /\ UNCHANGED inbound
       ELSE /\ inbound' = IF Len(inbound) < InboundCap THEN inbound \o held ELSE inbound
            /\ UNCHANGED inboundFiles
    /\ held' = << >>
    /\ task' = "serving"
    /\ UNCHANGED <<status, outbound, outboundFiles, handle, arrived, sent, conns>>

\* `inbound_tx.send(..).await` finds room.  The task does nothing else until
\* then, not even answer pings.
Forward ==
    /\ task \in {"greeting", "forwarding"}
    /\ "receivers" \in handle
    /\ IF held[1].kind = "chunk"
       THEN /\ Len(inboundFiles) < InboundFilesCap
            /\ inboundFiles' = inboundFiles \o held
            /\ UNCHANGED inbound
       ELSE /\ Len(inbound) < InboundCap
            /\ inbound' = inbound \o held
            /\ UNCHANGED inboundFiles
    /\ held' = << >>
    /\ task' = "serving"
    /\ UNCHANGED <<status, outbound, outboundFiles, handle, arrived, sent, conns>>

\* The receiver is gone: ignored for the welcome's clip, the end of the
\* connection otherwise.
ForwardRefused ==
    /\ task \in {"greeting", "forwarding"}
    /\ "receivers" \notin handle
    /\ held' = << >>
    /\ task' = IF task = "greeting" THEN "serving" ELSE "ended"
    /\ UNCHANGED <<status, channels, handle, arrived, sent, conns>>

\* The server closes, the stream fails, or a ping cannot be sent.
ConnectionEnds ==
    /\ task = "serving"
    /\ task' = "ended"
    /\ UNCHANGED <<held, status, channels, handle, arrived, sent, conns>>

\* Bug variant: a clip is put back, at the end of the queue, when its send fails.
SendClipRequeueing ==
    /\ task = "serving"
    /\ outbound # << >>
    /\ \/ /\ sentClips' = Append(sentClips, Head(outbound))
          /\ outbound' = Tail(outbound)
          /\ UNCHANGED task
       \/ /\ outbound' = Append(Tail(outbound), Head(outbound))
          /\ task' = "ended"
          /\ UNCHANGED sentClips
    /\ UNCHANGED <<held, status, inbound, inboundFiles, outboundFiles, handle, arrived,
                   sentChunks, conns>>

\* A clip taken off its queue is written, or lost with the connection.
SendClip ==
    /\ task = "serving"
    /\ outbound # << >>
    /\ outbound' = Tail(outbound)
    /\ \/ /\ sentClips' = Append(sentClips, Head(outbound))
          /\ UNCHANGED task
       \/ /\ task' = "ended"
          /\ UNCHANGED sentClips
    /\ UNCHANGED <<held, status, inbound, inboundFiles, outboundFiles, handle, arrived,
                   sentChunks, conns>>

WriteChunk ==
    /\ outboundFiles # << >>
    /\ outboundFiles' = Tail(outboundFiles)
    /\ \/ /\ LET c == Head(outboundFiles)
             IN  sentChunks' = Append(sentChunks, [n |-> c.n, i |-> c.i, on |-> conns])
          /\ UNCHANGED task
       \/ /\ task' = "ended"
          /\ UNCHANGED sentChunks
    /\ UNCHANGED <<held, status, inbound, inboundFiles, outbound, handle, arrived,
                   sentClips, conns>>

\* Bug variant: the select! arm is disabled, chunks leave in the drain only.
SendChunkInDrainOnly == task = "draining" /\ WriteChunk

\* In the select loop, or in drain_outbound_files.
SendChunk == task \in {"serving", "draining"} /\ WriteChunk

\* outbound_rx.recv() is None: drain the file chunks, then return.
OutboundClosed ==
    /\ task = "serving"
    /\ "senders" \notin handle
    /\ outbound = << >>
    /\ task' = "draining"
    /\ UNCHANGED <<held, status, channels, handle, arrived, sent, conns>>

\* outbound_files_rx.recv() is None, in the loop or at the end of the drain.
OutboundFilesClosed ==
    /\ task \in {"serving", "draining"}
    /\ "senders" \notin handle
    /\ outboundFiles = << >>
    /\ task' = "ended"
    /\ UNCHANGED <<held, status, channels, handle, arrived, sent, conns>>

----------------------------------------------------------------------------
(* run_loop, around connect_and_serve *)

\* Bug variant: a dropped handle is not looked at, so the task dials again.
AttemptEndsRetrying ==
    /\ task = "ended"
    /\ IF OneShot
       THEN task' = "stopped" /\ UNCHANGED status
       ELSE task' = "sleeping" /\ status' = "Disconnected"
    /\ UNCHANGED <<held, channels, handle, arrived, sent, conns>>

\* connect_and_serve returned: stop, or sleep the backoff.
AttemptEnds ==
    /\ task = "ended"
    /\ IF OneShot \/ "senders" \notin handle
       THEN task' = "stopped" /\ UNCHANGED status
       ELSE task' = "sleeping" /\ status' = "Disconnected"
    /\ UNCHANGED <<held, channels, handle, arrived, sent, conns>>

Retry ==
    /\ task = "sleeping"
    /\ task' = "dialing"
    /\ status' = "Connecting"
    /\ UNCHANGED <<held, channels, handle, arrived, sent, conns>>

\* What the task does on its own; whether a dial succeeds is the network's
\* choice, but it ends one way or the other.
TransportTask ==
    \/ Dialed \/ DialFails
    \/ Forward \/ ForwardRefused
    \/ SendClip \/ SendChunk
    \/ OutboundClosed \/ OutboundFilesClosed
    \/ AttemptEnds \/ Retry

\* What the server and the network do; a welcome may never come.
Network ==
    \/ HandshakeFails
    \/ ReadWelcome
    \/ \E kind \in {"clip", "opaque"} : ReadWelcomeWithClip(kind)
    \/ \E kind \in {"clip", "opaque", "chunk"} : ReadRelay(kind)
    \/ ConnectionEnds
============================================================================
