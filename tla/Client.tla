------------------------------- MODULE Client -------------------------------
(***************************************************************************)
(* The desktop client: the supervisor of core/src/client/mod.rs between    *)
(* the clipboard thread and the transport task (module ClientTransport).   *)
(* The clipboard thread is the environment: it reports local changes and   *)
(* takes whatever it is told to apply.  Reassembly of a file is reduced to *)
(* its answer: a chunk completes a file or not.                            *)
(***************************************************************************)
EXTENDS ClientTransport

CONSTANTS
    EventCap,        \* EVENT_BUFFER
    ChunksPerFile,   \* bound: chunks of a copied file
    MaxChanges       \* bound: local changes in a behaviour

ASSUME ClientAssumption ==
    /\ ~OneShot
    /\ EventCap \in Nat \ {0}
    /\ ChunksPerFile \in Nat \ {0}
    /\ MaxChanges \in Nat

VARIABLES
    supervisor,     \* where run_supervisor is
    toSend,         \* chunks of the file being sent that are not queued yet
    events,         \* events_rx: local changes, as the clipboard thread saw them
    changes,        \* local changes so far
    clipboard,      \* the clipboard thread runs and holds its channel ends
    pendingFiles,   \* saved files waiting for the batch window to close
    \* History:
    saved,          \* every file saved, in order, by the chunk that completed it
    appliedClips,   \* every clip sent on apply_tx, in order
    appliedFiles    \* every file sent on apply_tx, in order

applied == <<appliedClips, appliedFiles>>
supervisorVars ==
    <<supervisor, toSend, events, changes, clipboard, pendingFiles, saved, applied>>
vars == <<transportVars, supervisorVars>>

\* "reading" and "queueing": in send_file_through, before the read of a chunk
\* and in the `send(chunk).await` that follows it.
Supervisors == {"selecting", "reading", "queueing", "returned"}

Arrival == 1..MaxArrivals
Event == [kind: {"clip", "files"}, n: 1..MaxChanges]

TypeOK ==
    /\ TransportTypeOK(MaxChanges, ChunksPerFile)
    /\ supervisor \in Supervisors
    /\ toSend \in Seq(Chunk(MaxChanges, ChunksPerFile))
    /\ events \in Seq(Event)
    /\ Len(events) <= EventCap
    /\ changes \in 0..MaxChanges
    /\ clipboard \in BOOLEAN
    /\ pendingFiles \in Seq(Arrival)
    /\ saved \in Seq(Arrival)
    /\ appliedClips \in Seq(Arrival)
    /\ appliedFiles \in Seq(Arrival)

Init ==
    /\ TransportInit
    /\ supervisor = "selecting"
    /\ toSend = << >>
    /\ events = << >>
    /\ changes = 0
    /\ clipboard = TRUE
    /\ pendingFiles = << >>
    /\ saved = << >>
    /\ appliedClips = << >>
    /\ appliedFiles = << >>

Connected == task \in {"greeting", "serving", "forwarding"}

----------------------------------------------------------------------------
(* The clipboard thread, as the supervisor sees it *)

\* The user copies something; try_send drops the event when the buffer is full.
LocalChange(kind) ==
    /\ clipboard
    /\ changes < MaxChanges
    /\ changes' = changes + 1
    /\ events' = IF Len(events) < EventCap /\ supervisor # "returned"
                 THEN Append(events, [kind |-> kind, n |-> changes + 1])
                 ELSE events
    /\ UNCHANGED <<transportVars, supervisor, toSend, clipboard, pendingFiles, saved, applied>>

\* The thread exits: arboard cannot be initialised.
ClipboardFails ==
    /\ clipboard
    /\ changes = 0 /\ appliedClips = << >> /\ appliedFiles = << >>
    /\ clipboard' = FALSE
    /\ UNCHANGED <<transportVars, supervisor, toSend, events, changes, pendingFiles, saved, applied>>

----------------------------------------------------------------------------
(* run_supervisor: the arms of its select! *)

\* Returning drops the Transport struct, and with it what is queued for its owner.
ReturnFromSupervisor ==
    /\ supervisor' = "returned"
    /\ handle' = {}
    /\ inbound' = << >>
    /\ inboundFiles' = << >>
    /\ UNCHANGED <<task, held, status, outbound, outboundFiles, arrived, sent, conns>>
    /\ UNCHANGED <<toSend, events, changes, clipboard, pendingFiles, saved, applied>>

\* A text or an image: try_send drops it when the channel is full.  (No channel
\* to or from the transport closes under the supervisor: the transport stops
\* only when its owner has let go of it.)
TakeLocalClip ==
    /\ supervisor = "selecting"
    /\ events # << >>
    /\ Head(events).kind = "clip"
    /\ events' = Tail(events)
    /\ outbound' = IF Len(outbound) < OutboundCap
                   THEN Append(outbound, Head(events).n)
                   ELSE outbound
    /\ UNCHANGED <<task, held, status, inbound, inboundFiles, outboundFiles, handle, arrived,
                   sent, conns>>
    /\ UNCHANGED <<supervisor, toSend, changes, clipboard, pendingFiles, saved, applied>>

\* A file: send_file_through, which the supervisor awaits inside the arm.
TakeLocalFile ==
    /\ supervisor = "selecting"
    /\ events # << >>
    /\ Head(events).kind = "files"
    /\ events' = Tail(events)
    /\ toSend' = [i \in 1..ChunksPerFile |-> [n |-> Head(events).n, i |-> i]]
    /\ supervisor' = "reading"
    /\ UNCHANGED <<transportVars, changes, clipboard, pendingFiles, saved, applied>>

\* The next chunk is read; at the end of the file, or if it cannot be read, the
\* supervisor selects again.
ReadChunk ==
    /\ supervisor = "reading"
    /\ \/ /\ toSend # << >>
          /\ supervisor' = "queueing"
          /\ UNCHANGED toSend
       \/ /\ supervisor' = "selecting"
          /\ toSend' = << >>
    /\ UNCHANGED <<transportVars, events, changes, clipboard, pendingFiles, saved, applied>>

\* Bug variant: an unbounded channel.
QueueChunkUnbounded ==
    /\ supervisor = "queueing"
    /\ outboundFiles' = Append(outboundFiles, Head(toSend))
    /\ toSend' = Tail(toSend)
    /\ supervisor' = "reading"
    /\ UNCHANGED <<task, held, status, inbound, inboundFiles, outbound, handle, arrived,
                   sent, conns>>
    /\ UNCHANGED <<events, changes, clipboard, pendingFiles, saved, applied>>

\* `outbound_files_tx.send(chunk).await` finds room.
QueueChunk ==
    /\ supervisor = "queueing"
    /\ Len(outboundFiles) < OutboundFilesCap
    /\ outboundFiles' = Append(outboundFiles, Head(toSend))
    /\ toSend' = Tail(toSend)
    /\ supervisor' = "reading"
    /\ UNCHANGED <<task, held, status, inbound, inboundFiles, outbound, handle, arrived,
                   sent, conns>>
    /\ UNCHANGED <<events, changes, clipboard, pendingFiles, saved, applied>>

\* An inbound clip: applied if it can be decoded, skipped otherwise; the
\* supervisor returns when the clipboard thread is gone.
TakeInboundClip ==
    /\ supervisor = "selecting"
    /\ inbound # << >>
    /\ IF Head(inbound).kind = "clip" /\ ~clipboard
       THEN ReturnFromSupervisor
       ELSE /\ inbound' = Tail(inbound)
            /\ appliedClips' = IF Head(inbound).kind = "clip"
                               THEN Append(appliedClips, Head(inbound).n)
                               ELSE appliedClips
            /\ UNCHANGED <<task, held, status, inboundFiles, outbound, outboundFiles, handle,
                           arrived, sent, conns>>
            /\ UNCHANGED <<supervisor, toSend, events, changes, clipboard, pendingFiles, saved,
                           appliedFiles>>

\* FileReceiver::receive_chunk: a file is complete and (re)opens the batch
\* window, or the chunk is stored or refused.
TakeInboundChunk ==
    /\ supervisor = "selecting"
    /\ inboundFiles # << >>
    /\ inboundFiles' = Tail(inboundFiles)
    /\ \/ /\ saved' = Append(saved, Head(inboundFiles).n)
          /\ pendingFiles' = Append(pendingFiles, Head(inboundFiles).n)
       \/ UNCHANGED <<saved, pendingFiles>>
    /\ UNCHANGED <<task, held, status, inbound, outbound, outboundFiles, handle, arrived,
                   sent, conns>>
    /\ UNCHANGED <<supervisor, toSend, events, changes, clipboard, applied>>

PutOnClipboard ==
    /\ appliedFiles' = IF clipboard THEN appliedFiles \o pendingFiles ELSE appliedFiles
    /\ UNCHANGED <<transportVars, supervisor, toSend, events, changes, clipboard, saved,
                   appliedClips>>

\* Bug variant: pending_files is cloned, not taken.
ApplyBatchKeepingFiles ==
    /\ supervisor = "selecting"
    /\ pendingFiles # << >>
    /\ PutOnClipboard
    /\ UNCHANGED pendingFiles

\* The batch window closes.
ApplyBatch ==
    /\ supervisor = "selecting"
    /\ pendingFiles # << >>
    /\ PutOnClipboard
    /\ pendingFiles' = << >>

\* events_rx.recv() is None.
EventsClosed ==
    /\ supervisor = "selecting"
    /\ ~clipboard
    /\ events = << >>
    /\ ReturnFromSupervisor

\* The tray reloads or quits: the supervisor is aborted at whichever await.
AbortSupervisor ==
    /\ supervisor \in {"selecting", "queueing"}
    /\ ReturnFromSupervisor

\* AbortOnDrop: the transport is cancelled after the supervisor.
AbortTransport ==
    /\ supervisor = "returned"
    /\ task # "stopped"
    /\ task' = "stopped"
    /\ UNCHANGED <<held, status, channels, handle, arrived, sent, conns, supervisorVars>>

----------------------------------------------------------------------------
SupervisorTask ==
    \/ TakeLocalClip \/ TakeLocalFile
    \/ ReadChunk \/ QueueChunk
    \/ TakeInboundClip \/ TakeInboundChunk \/ ApplyBatch
    \/ EventsClosed

Next ==
    \/ SupervisorTask
    \/ TransportTask /\ UNCHANGED supervisorVars
    \/ Network /\ UNCHANGED supervisorVars
    \/ \E kind \in {"clip", "files"} : LocalChange(kind)
    \/ ClipboardFails
    \/ AbortSupervisor
    \/ AbortTransport

Spec == Init /\ [][Next]_vars

\* Both tasks are polled again whenever they can move.  Nothing is assumed of
\* the network (a dial ends, but may always fail), of the user or of the tray.
Fairness ==
    /\ WF_vars(SupervisorTask)
    /\ WF_vars(TransportTask /\ UNCHANGED supervisorVars)

FairSpec == Spec /\ Fairness
----------------------------------------------------------------------------
(* Safety *)

Increasing(ns) == \A i, j \in 1..Len(ns) : i < j => ns[i] < ns[j]

Numbers(frames) == [i \in 1..Len(frames) |-> frames[i].n]

ClipsIn(frames) ==
    {frames[i].n : i \in {k \in 1..Len(frames) : frames[k].kind = "clip"}}

\* Towards the clipboard nothing is lost, repeated or reordered, over any
\* number of reconnects: the clips read from the socket are those applied,
\* those queued and the one in the transport's hands, in this order.
InboundConserved ==
    handle # {} =>
        /\ Increasing(appliedClips \o Numbers(inbound \o held))
        /\ {appliedClips[i] : i \in 1..Len(appliedClips)} \cup ClipsIn(inbound \o held)
              = ClipsIn(arrived)

\* Every saved file is put on the clipboard once, in completion order, however
\* completions, clips and the batch window interleave.
SavedFilesAppliedOnce ==
    clipboard => appliedFiles \o pendingFiles = saved

\* Towards the hub changes can be lost but never repeated or reordered, and on
\* one connection the chunks of a file leave without a gap: a chunk is only
\* lost together with its connection.
OutboundOrdered ==
    /\ Increasing(sentClips)
    /\ \A k \in 1..(Len(sentChunks) - 1) :
          LET a == sentChunks[k]
              b == sentChunks[k + 1]
          IN  \/ a.n < b.n
              \/ a.n = b.n /\ a.i < b.i /\ a.on < b.on
              \/ a.n = b.n /\ a.i + 1 = b.i /\ a.on = b.on

----------------------------------------------------------------------------
(* Liveness, under FairSpec *)

Arrived(n) == n \in ClipsIn(arrived)
Applied(n) == \E i \in 1..Len(appliedClips) : appliedClips[i] = n

\* A clip that arrived is applied, as long as the supervisor and the connection
\* last: files travel on channels of their own "so a slow file doesn't
\* head-of-line-block clips" (file.rs).
ClipsApplied ==
    \A n \in Arrival :
        Arrived(n) ~> Applied(n) \/ supervisor = "returned" \/ ~Connected

\* The supervisor waits for room for a chunk, and the transport is not at the
\* point where it makes room: offline, or waiting for the supervisor.
BlockedOnFiles ==
    /\ supervisor = "queueing"
    /\ Len(outboundFiles) = OutboundFilesCap
    /\ task # "serving"

\* The one thing that can keep an arrived clip or a saved file from the
\* clipboard for ever is a supervisor stuck in the send of a local file.
OnlyFilesBlock ==
    /\ \A n \in Arrival :
          [](Arrived(n) => <>(Applied(n) \/ supervisor = "returned") \/ <>[]BlockedOnFiles)
    /\ [](pendingFiles # << >> =>
              <>(pendingFiles = << >> \/ supervisor = "returned") \/ <>[]BlockedOnFiles)

\* "Dropping the handle stops the transport task once its current connection
\* ends" (transport.rs), at the latest when the queues it drains are empty; only
\* a server that never sends its welcome keeps the task.
DroppedHandleStopsTransport == handle = {} ~> task \in {"stopped", "handshaking"}
============================================================================
