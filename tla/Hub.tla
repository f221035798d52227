-------------------------------- MODULE Hub --------------------------------
(***************************************************************************)
(* The fan-out hub of core/src/server/hub.rs: one Tokio task that owns the *)
(* registered clients and the cached last clip, and is driven by a bounded *)
(* inbox.  The connection tasks that fill the inbox and drain the          *)
(* per-client queues are in HubServer.                                     *)
(*                                                                         *)
(* A clip or a file chunk is a record [n, from]: n numbers the frames in   *)
(* the order the readers published them (it stands for the payload), and   *)
(* from is the origin the hub stamps.  Payload bytes, ids and timestamps   *)
(* play no part in what the hub decides.                                   *)
(***************************************************************************)
EXTENDS Naturals, Sequences, FiniteSets

CONSTANTS
    Conns,       \* connection ids, one per accepted upgrade (Uuid::new_v4)
    MaxConns,    \* ServerConfig::max_conns: the hub's cap and the semaphore's
    InboxCap,    \* HUB_INBOX_BUF
    ClipCap,     \* PER_CLIENT_CHANNEL_BUF
    FileCap,     \* PER_CLIENT_FILE_CHANNEL_BUF
    MaxFrames,   \* bound: clips and chunks published in a behaviour
    NoClip       \* Option<ClipFrame>::None

Frames == [n: 1..MaxFrames, from: Conns]

ASSUME ConstantsAssumption ==
    /\ IsFiniteSet(Conns)
    /\ MaxConns \in Nat \ {0}      \* config.rs refuses CLIPBOARDWIRE_MAX_CONNS=0
    /\ InboxCap \in Nat \ {0}
    /\ ClipCap \in Nat \ {0}
    /\ FileCap \in Nat \ {0}
    /\ MaxFrames \in Nat
    /\ NoClip \notin Frames

VARIABLES
    inbox,     \* the mpsc the connection tasks send HubMessages on, FIFO
    clients,   \* keys of Hub::clients; the hub holds their only channel senders
    lastClip,  \* Hub::last_clip
    stats,     \* HubStatsSink::count
    ack,       \* ack[c]: the oneshot reply to c's Register
    clipq,     \* clipq[c]: c's outbound clip channel
    fileq,     \* fileq[c]: c's outbound file-chunk channel
    missed     \* history: the clients whose full queue lost the cached clip

hubVars == <<inbox, clients, lastClip, stats, ack, clipq, fileq, missed>>

\* A HubMessage; n is 0 where the message carries no frame.
Messages ==
    [type: {"Register", "Deregister"}, conn: Conns, n: {0}]
        \cup [type: {"Publish", "PublishFile"}, conn: Conns, n: 1..MaxFrames]

Acks == [result: {"none", "Accepted", "AtCapacity"}, lastClip: Frames \cup {NoClip}]
NoAck == [result |-> "none", lastClip |-> NoClip]

HubTypeOK ==
    /\ inbox \in Seq(Messages)
    /\ Len(inbox) <= InboxCap
    /\ clients \subseteq Conns
    /\ lastClip \in Frames \cup {NoClip}
    /\ stats \in Nat
    /\ ack \in [Conns -> Acks]
    /\ clipq \in [Conns -> Seq(Frames)]
    /\ fileq \in [Conns -> Seq(Frames)]
    /\ missed \subseteq Conns

HubInit ==
    /\ inbox = << >>
    /\ clients = {}
    /\ lastClip = NoClip
    /\ stats = 0
    /\ ack = [c \in Conns |-> NoAck]
    /\ clipq = [c \in Conns |-> << >>]
    /\ fileq = [c \in Conns |-> << >>]
    /\ missed = {}

\* Bug variant: an unbounded channel.
EnqueueUnbounded(type, c, n) ==
    inbox' = Append(inbox, [type |-> type, conn |-> c, n |-> n])

\* A sender's `tx.send(..).await`: it waits while the inbox is full.
Enqueue(type, c, n) ==
    /\ Len(inbox) < InboxCap
    /\ inbox' = Append(inbox, [type |-> type, conn |-> c, n |-> n])

\* The hub takes the next message of the given type off its inbox.
Dequeue(type) ==
    /\ inbox # << >>
    /\ Head(inbox).type = type
    /\ inbox' = Tail(inbox)

\* Bug variant: the frame is echoed to its origin too.
FanOutWithEcho(queues, frame, cap, listening) ==
    [c \in Conns |->
        IF c \in clients \cap listening /\ Len(queues[c]) < cap
        THEN Append(queues[c], frame)
        ELSE queues[c]]

\* `try_send` to every other client: a queue at its capacity, or one whose
\* receiver is gone (c \notin listening), loses the frame.
FanOut(queues, frame, cap, listening) ==
    [c \in Conns |->
        IF c \in (clients \ {frame.from}) \cap listening /\ Len(queues[c]) < cap
        THEN Append(queues[c], frame)
        ELSE queues[c]]

\* HubMessage::Register.
HandleRegister ==
    LET c == Head(inbox).conn
    IN  /\ Dequeue("Register")
        /\ IF Cardinality(clients) >= MaxConns
           THEN /\ ack' = [ack EXCEPT ![c] =
                              [result |-> "AtCapacity", lastClip |-> NoClip]]
                /\ UNCHANGED <<clients, stats>>
           ELSE /\ clients' = clients \cup {c}
                /\ stats' = stats + 1
                /\ ack' = [ack EXCEPT ![c] =
                              [result |-> "Accepted", lastClip |-> lastClip]]
        /\ UNCHANGED <<lastClip, clipq, fileq, missed>>

\* Bug variant: the live counter is not decremented.
HandleDeregisterUncounted ==
    /\ Dequeue("Deregister")
    /\ clients' = clients \ {Head(inbox).conn}
    /\ UNCHANGED <<stats, lastClip, ack, clipq, fileq, missed>>

\* HubMessage::Deregister: dropping the map entry drops c's channel senders.
HandleDeregister ==
    LET c == Head(inbox).conn
    IN  /\ Dequeue("Deregister")
        /\ clients' = clients \ {c}
        /\ stats' = IF c \in clients THEN stats - 1 ELSE stats
        /\ UNCHANGED <<lastClip, ack, clipq, fileq, missed>>

\* Bug variant: send().await in place of try_send, so that one full queue makes
\* the hub wait.
HandlePublishBlocking(listening) ==
    LET clip == [n |-> Head(inbox).n, from |-> Head(inbox).conn]
    IN  /\ Dequeue("Publish")
        /\ \A c \in (clients \ {clip.from}) \cap listening : Len(clipq[c]) < ClipCap
        /\ lastClip' = clip
        /\ clipq' = FanOut(clipq, clip, ClipCap, listening)
        /\ missed' = {}
        /\ UNCHANGED <<clients, stats, ack, fileq>>

\* HubMessage::Publish: cache the clip and relay it to the others.
HandlePublish(listening) ==
    LET clip == [n |-> Head(inbox).n, from |-> Head(inbox).conn]
    IN  /\ Dequeue("Publish")
        /\ lastClip' = clip
        /\ clipq' = FanOut(clipq, clip, ClipCap, listening)
        /\ missed' = {c \in clients \ {clip.from} : Len(clipq[c]) >= ClipCap}
        /\ UNCHANGED <<clients, stats, ack, fileq>>

\* HubMessage::PublishFile: relayed, never cached.
HandlePublishFile(listening) ==
    LET chunk == [n |-> Head(inbox).n, from |-> Head(inbox).conn]
    IN  /\ Dequeue("PublishFile")
        /\ fileq' = FanOut(fileq, chunk, FileCap, listening)
        /\ UNCHANGED <<clients, lastClip, stats, ack, clipq, missed>>

\* One turn of Hub::run; listening is the set of clients whose writer task
\* still holds the receiving ends of its channels.
HubStep(listening) ==
    \/ HandleRegister
    \/ HandleDeregister
    \/ HandlePublish(listening)
    \/ HandlePublishFile(listening)

============================================================================
