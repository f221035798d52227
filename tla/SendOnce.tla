------------------------------ MODULE SendOnce ------------------------------
(***************************************************************************)
(* `clipboardwire send <file>` (run_send_once in cli/main.rs): a transport *)
(* of its own that does not dial twice, the file queued chunk by chunk     *)
(* (send_file_through in client/file.rs), then the wait for the transport. *)
(***************************************************************************)
EXTENDS ClientTransport

\* OneShot is TRUE here.
CONSTANT Chunks   \* bound: chunks of the file, one or more

VARIABLES
    program,   \* where run_send_once is: "queueing", "letting go", "joining", "returned"
    queued,    \* chunks put into the queue so far
    result     \* what send_file_through returned: "none", "ok", "failed"

sendVars == <<program, queued, result>>
vars == <<transportVars, sendVars>>

Init ==
    /\ TransportInit
    /\ program = "queueing"
    /\ queued = 0
    /\ result = "none"

\* A chunk is read, and `send(chunk).await` finds room.
QueueChunk ==
    /\ program = "queueing"
    /\ queued < Chunks
    /\ task # "stopped"
    /\ Len(outboundFiles) < OutboundFilesCap
    /\ queued' = queued + 1
    /\ outboundFiles' = Append(outboundFiles, [n |-> 1, i |-> queued + 1])
    /\ UNCHANGED <<task, held, status, inbound, inboundFiles, outbound, handle, arrived,
                   sent, conns, program, result>>

\* The whole file is queued; or it cannot be read, or the transport is gone.
SendEnds ==
    /\ program = "queueing"
    /\ \/ queued = Chunks /\ result' = "ok"
       \/ queued < Chunks /\ result' = "failed"
    /\ program' = "letting go"
    /\ UNCHANGED <<transportVars, queued>>

\* The receivers are dropped.  `let _ = transport.outbound_tx` moves nothing:
\* the senders live as long as the function.
LetGo ==
    /\ program = "letting go"
    /\ handle' = handle \ {"receivers"}
    /\ program' = "joining"
    /\ UNCHANGED <<task, held, status, channels, arrived, sent, conns, queued, result>>

\* join.await
Join ==
    /\ program = "joining"
    /\ task = "stopped"
    /\ program' = "returned"
    /\ UNCHANGED <<transportVars, queued, result>>

SendTask == QueueChunk \/ SendEnds \/ LetGo \/ Join

Next ==
    \/ SendTask
    \/ TransportTask /\ UNCHANGED sendVars
    \/ Network /\ UNCHANGED sendVars

\* Both tasks are polled while they can move; nothing is assumed of the server.
FairSpec ==
    /\ Init /\ [][Next]_vars
    /\ WF_vars(SendTask)
    /\ WF_vars(TransportTask /\ UNCHANGED sendVars)

----------------------------------------------------------------------------
\* main.rs: "Drop the senders so the transport's run_loop sees the channels
\* close and exits cleanly": once the last chunk has been written, the program
\* comes to its end.
SendReturns == Len(sentChunks) = Chunks ~> program = "returned"

=============================================================================
