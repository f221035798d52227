-------------------------- MODULE HubServer_proofs --------------------------
(***************************************************************************)
(* Theorems about HubServer, for every finite set of connections, every    *)
(* capacity and every buffer size: the types, HubNeverRefuses and          *)
(* LiveCount.                                                              *)
(*                                                                         *)
(* HubNeverRefuses is not inductive: whether the hub has room when it      *)
(* handles a Register depends on how many Deregisters precede that         *)
(* Register in the inbox.  The inductive invariant IInv says so with       *)
(* Claims: the connections that will still be in the map, or on their way  *)
(* into it, when the i-th message is handled.  When a Register is sent all *)
(* of its claims hold permits, and a message sent later changes none.      *)
(***************************************************************************)
EXTENDS HubServer, FiniteSetTheorems, TLAPS

USE DEF out

IsRegister(i, c) == inbox[i].type = "Register" /\ inbox[i].conn = c
IsDeregister(i, c) == inbox[i].type = "Deregister" /\ inbox[i].conn = c

\* Phases between sending Register and sending Deregister.
Active == {"registering", "serving", "deregistering"}

\* Each connection registers once and deregisters last.
RegisterInv ==
    /\ \A i \in 1..Len(inbox), c \in Conns :
          IsRegister(i, c) =>
              phase[c] = "registering" /\ ack[c].result = "none" /\ c \notin clients
    /\ \A i, j \in 1..Len(inbox), c \in Conns :
          IsRegister(i, c) /\ IsRegister(j, c) => i = j
    /\ \A c \in Conns :
          phase[c] \in {"none", "upgrading"} => ack[c].result = "none"

DeregisterInv ==
    /\ \A i \in 1..Len(inbox), c \in Conns :
          IsDeregister(i, c) => phase[c] \in {"returning", "gone"}
    /\ \A c \in clients :
          /\ ack[c].result = "Accepted"
          /\ \/ phase[c] \in Active
             \/ /\ phase[c] \in {"returning", "gone"}
                /\ \E i \in 1..Len(inbox) : IsDeregister(i, c)

SessionInv == RegisterInv /\ DeregisterInv

Holders == {c \in Conns : phase[c] \in Active \cup {"upgrading", "returning"}}

Claims(i) ==
    {c \in Conns : /\ c \in clients \/ \E j \in 1..i : IsRegister(j, c)
                   /\ \A j \in 1..(i - 1) : ~IsDeregister(j, c)}

PermitInv == permits = MaxConns - Cardinality(Holders)

ClaimInv ==
    \A i \in 1..Len(inbox) :
        inbox[i].type = "Register" => Cardinality(Claims(i)) <= MaxConns

\* The live counter is exact.
Counted == stats = Cardinality(clients) /\ stats <= MaxConns

IInv ==
    /\ TypeOK
    /\ Counted
    /\ SessionInv
    /\ PermitInv
    /\ ClaimInv
    /\ HubNeverRefuses

----------------------------------------------------------------------------
(* The inbox *)

LEMMA EnqueueFacts ==
    ASSUME HubTypeOK, NEW type, NEW c, NEW n, Enqueue(type, c, n),
           [type |-> type, conn |-> c, n |-> n] \in Messages
    PROVE  /\ inbox' \in Seq(Messages)
           /\ Len(inbox') <= InboxCap
           /\ Len(inbox) \in Nat
           /\ Len(inbox') = Len(inbox) + 1
           /\ \A i \in 1..Len(inbox) : inbox'[i] = inbox[i]
           /\ inbox'[Len(inbox) + 1] = [type |-> type, conn |-> c, n |-> n]
<1> DEFINE m == [type |-> type, conn |-> c, n |-> n]
<1>1. inbox \in Seq(Messages) /\ inbox' = Append(inbox, m) /\ Len(inbox) < InboxCap
  BY DEF HubTypeOK, Enqueue
<1> HIDE DEF m
<1>2. /\ inbox' \in Seq(Messages)
      /\ Len(inbox) \in Nat
      /\ Len(inbox') = Len(inbox) + 1
      /\ \A i \in 1..Len(inbox) : inbox'[i] = inbox[i]
      /\ inbox'[Len(inbox) + 1] = m
  BY <1>1 DEF m
<1>3. Len(inbox') <= InboxCap
  BY <1>1, <1>2, ConstantsAssumption
<1> QED
  BY <1>2, <1>3 DEF m

LEMMA DequeueFacts ==
    ASSUME HubTypeOK, NEW type, Dequeue(type)
    PROVE  /\ inbox' \in Seq(Messages)
           /\ Len(inbox') <= InboxCap
           /\ Len(inbox) \in Nat \ {0}
           /\ Len(inbox') = Len(inbox) - 1
           /\ \A i \in 1..Len(inbox') : inbox'[i] = inbox[i + 1]
           /\ inbox[1] = Head(inbox)
           /\ Head(inbox) \in Messages
           /\ Head(inbox).type = type
<1>1. inbox \in Seq(Messages) /\ inbox # << >> /\ inbox' = Tail(inbox)
  BY DEF HubTypeOK, Dequeue
<1>2. /\ Len(inbox) \in Nat \ {0}
      /\ Len(inbox') = Len(inbox) - 1
      /\ \A i \in 1..Len(inbox') : inbox'[i] = inbox[i + 1]
      /\ inbox' \in Seq(Messages)
      /\ inbox[1] = Head(inbox)
      /\ Head(inbox) \in Messages
  BY <1>1
<1>3. Len(inbox) <= InboxCap
  BY DEF HubTypeOK
<1>4. Len(inbox') <= InboxCap
  BY <1>2, <1>3, ConstantsAssumption
<1> QED
  BY <1>2, <1>4 DEF Dequeue

----------------------------------------------------------------------------
(* Type correctness *)

LEMMA FanOutType ==
    ASSUME NEW queues \in [Conns -> Seq(Frames)], NEW frame \in Frames,
           NEW cap, NEW listening
    PROVE  FanOut(queues, frame, cap, listening) \in [Conns -> Seq(Frames)]
  BY DEF FanOut

\* All connections are finitely many, so every set of them has a cardinality.
LEMMA ConnSets ==
    ASSUME NEW S \in SUBSET Conns
    PROVE  IsFiniteSet(S) /\ Cardinality(S) \in Nat
  BY ConstantsAssumption, FS_Subset, FS_CardinalityType

LEMMA HubStepType ==
    ASSUME TypeOK, Counted, RegisterInv, NEW listening, HubStep(listening)
    PROVE  HubTypeOK' /\ Counted'
<1> DEFINE m == Head(inbox)
<1>0. HubTypeOK
  BY DEF TypeOK
<1>1. CASE HandleRegister
  <2>1. /\ inbox' \in Seq(Messages) /\ Len(inbox') <= InboxCap
        /\ m \in Messages /\ m.conn \in Conns
        /\ IsRegister(1, m.conn) /\ 1 \in 1..Len(inbox)
    BY <1>0, <1>1, DequeueFacts DEF HandleRegister, Messages, IsRegister
  <2>2. CASE Cardinality(clients) >= MaxConns
    <3>1. [result |-> "AtCapacity", lastClip |-> NoClip] \in Acks
      BY DEF Acks
    <3> QED
      BY <1>0, <1>1, <2>1, <2>2, <3>1 DEF HandleRegister, HubTypeOK, Counted
  <2>3. CASE ~(Cardinality(clients) >= MaxConns)
    <3>1. [result |-> "Accepted", lastClip |-> lastClip] \in Acks
      BY <1>0 DEF Acks, HubTypeOK
    <3>2. m.conn \notin clients
      BY <2>1 DEF RegisterInv
    <3>3. /\ Cardinality(clients \cup {m.conn}) = Cardinality(clients) + 1
          /\ Cardinality(clients) \in Nat
      BY <1>0, <3>2, ConnSets, FS_AddElement DEF HubTypeOK
    <3>4. clients' = clients \cup {m.conn} /\ stats' = stats + 1
      BY <1>1, <2>3 DEF HandleRegister
    <3>5. Counted'
      BY <2>3, <3>3, <3>4, ConstantsAssumption DEF Counted
    <3>6. clients' \subseteq Conns /\ stats' \in Nat
      BY <1>0, <2>1, <3>4 DEF HubTypeOK
    <3>7. ack' = [ack EXCEPT ![m.conn] =
                     [result |-> "Accepted", lastClip |-> lastClip]]
      BY <1>1, <2>3 DEF HandleRegister
    <3>8. ack' \in [Conns -> Acks]
      BY <1>0, <3>1, <3>7 DEF HubTypeOK
    <3>9. UNCHANGED <<lastClip, clipq, fileq, missed>>
      BY <1>1 DEF HandleRegister
    <3> QED
      BY <1>0, <2>1, <3>5, <3>6, <3>8, <3>9 DEF HubTypeOK
  <2> QED
    BY <2>2, <2>3
<1>2. CASE HandleDeregister
  <2>1. inbox' \in Seq(Messages) /\ Len(inbox') <= InboxCap
    BY <1>0, <1>2, DequeueFacts DEF HandleDeregister
  <2>2. /\ Cardinality(clients \ {m.conn}) =
              IF m.conn \in clients THEN Cardinality(clients) - 1
                                    ELSE Cardinality(clients)
        /\ Cardinality(clients) \in Nat
        /\ Cardinality(clients \ {m.conn}) \in Nat
    BY <1>0, ConnSets, FS_RemoveElement DEF HubTypeOK
  <2>3. /\ clients' = clients \ {m.conn}
        /\ stats' = IF m.conn \in clients THEN stats - 1 ELSE stats
    BY <1>2 DEF HandleDeregister
  <2>4. Counted' /\ stats' \in Nat
    BY <2>2, <2>3, ConstantsAssumption DEF Counted
  <2> QED
    BY <1>0, <1>2, <2>1, <2>3, <2>4 DEF HandleDeregister, HubTypeOK
<1>3. CASE HandlePublish(listening)
  <2>1. /\ inbox' \in Seq(Messages) /\ Len(inbox') <= InboxCap
        /\ [n |-> m.n, from |-> m.conn] \in Frames
    BY <1>0, <1>3, DequeueFacts DEF HandlePublish, Messages, Frames
  <2> QED
    BY <1>0, <1>3, <2>1, FanOutType DEF HandlePublish, HubTypeOK, Counted
<1>4. CASE HandlePublishFile(listening)
  <2>1. /\ inbox' \in Seq(Messages) /\ Len(inbox') <= InboxCap
        /\ [n |-> m.n, from |-> m.conn] \in Frames
    BY <1>0, <1>4, DequeueFacts DEF HandlePublishFile, Messages, Frames
  <2> QED
    BY <1>0, <1>4, <2>1, FanOutType DEF HandlePublishFile, HubTypeOK, Counted
<1> QED
  BY <1>1, <1>2, <1>3, <1>4 DEF HubStep

\* The connection tasks touch the hub's variables only by sending a message or
\* taking a frame off an outbound queue.
LEMMA EnqueueType ==
    ASSUME TypeOK, NEW type, NEW c, NEW n, Enqueue(type, c, n),
           [type |-> type, conn |-> c, n |-> n] \in Messages,
           UNCHANGED <<clients, lastClip, stats, ack, clipq, fileq, missed>>
    PROVE  HubTypeOK'
  BY EnqueueFacts DEF TypeOK, HubTypeOK

LEMMA HandlerType ==
    ASSUME TypeOK, PermitInv, NEW c \in Conns, Handler(c)
    PROVE  TypeOK'
<1>1. permits' \in 0..MaxConns /\ phase' \in [Conns -> Phases]
  <2>1. phase[c] \in {"upgrading", "returning"} => permits < MaxConns
    <3>1. ASSUME phase[c] \in {"upgrading", "returning"} PROVE permits < MaxConns
      <4>1. c \in Holders /\ Holders \in SUBSET Conns
        BY <3>1 DEF Holders
      <4>2. Cardinality(Holders) \in Nat /\ Cardinality(Holders) # 0
        BY <4>1, ConnSets, FS_EmptySet
      <4> QED
        BY <4>2, ConstantsAssumption DEF PermitInv
    <3> QED
      BY <3>1
  <2>2. \/ permits' = permits
        \/ permits' = permits - 1 /\ permits > 0
        \/ permits' = permits + 1 /\ permits < MaxConns
    BY <2>1 DEF Handler, Upgrade, UpgradeFails, Register, ReceiveAck, TaskEndObserved,
                Deregister, Return
  <2>3. permits \in 0..MaxConns /\ phase \in [Conns -> Phases]
    BY DEF TypeOK
  <2>4. permits' \in 0..MaxConns
    BY <2>2, <2>3, ConstantsAssumption
  <2>5. PICK p \in Phases : phase' = [phase EXCEPT ![c] = p]
    BY DEF Phases, Handler, Upgrade, UpgradeFails, Register, ReceiveAck, TaskEndObserved,
           Deregister, Return
  <2> QED
    BY <2>3, <2>4, <2>5
<1>2. CASE Upgrade(c) \/ UpgradeFails(c) \/ TaskEndObserved(c) \/ Return(c)
  BY <1>1, <1>2 DEF TypeOK, HubTypeOK, Upgrade, UpgradeFails, TaskEndObserved, Return,
                    hubVars
<1>3. CASE Register(c)
  <2>1. [type |-> "Register", conn |-> c, n |-> 0] \in Messages
    BY DEF Messages
  <2> QED
    BY <1>1, <1>3, <2>1, EnqueueType DEF TypeOK, Register
<1>4. CASE Deregister(c)
  <2>1. [type |-> "Deregister", conn |-> c, n |-> 0] \in Messages
    BY DEF Messages
  <2> QED
    BY <1>1, <1>4, <2>1, EnqueueType DEF TypeOK, Deregister
<1>5. CASE ReceiveAck(c)
  <2>1. Wire("welcome", ack[c].lastClip) \in WireFrames
    BY DEF TypeOK, HubTypeOK, Acks, Wire, WireFrames
  <2>2. /\ internal' \in [Conns -> Seq(WireFrames)]
        /\ reader' \in [Conns -> ReaderStates]
        /\ writer' \in [Conns -> WriterStates]
    <3>1. CASE ack[c].result = "Accepted"
      <4>1. /\ internal' = [internal EXCEPT ![c] =
                              Append(@, Wire("welcome", ack[c].lastClip))]
            /\ reader' = [reader EXCEPT ![c] = "running"]
            /\ writer' = [writer EXCEPT ![c] = "idle"]
        BY <1>5, <3>1 DEF ReceiveAck
      <4> QED
        BY <2>1, <4>1 DEF TypeOK, ReaderStates, WriterStates
    <3>2. CASE ack[c].result # "Accepted"
      BY <1>5, <3>2 DEF ReceiveAck, TypeOK
    <3> QED
      BY <3>1, <3>2
  <2>3. UNCHANGED <<hubVars, permits, out, published>>
    BY <1>5 DEF ReceiveAck
  <2> QED
    BY <1>1, <2>2, <2>3 DEF TypeOK, HubTypeOK, hubVars
<1> QED
  BY <1>2, <1>3, <1>4, <1>5 DEF Handler

LEMMA ReaderType ==
    ASSUME TypeOK, NEW c \in Conns, NEW type \in FrameTypes, ReadPublish(c, type)
    PROVE  TypeOK'
<1>1. published \in 0..MaxFrames /\ published' = published + 1 /\ published < MaxFrames
  BY DEF TypeOK, ReadPublish
<1>2. /\ [type |-> type, conn |-> c, n |-> published + 1] \in Messages
      /\ published' \in 0..MaxFrames
  BY <1>1, ConstantsAssumption, ClientsAssumption DEF Messages
<1> QED
  BY <1>2, EnqueueType DEF ReadPublish, TypeOK

LEMMA DepartureType ==
    ASSUME TypeOK, NEW c \in Conns, Departure(c)
    PROVE  TypeOK'
<1>1. Wire("error", NoClip) \in WireFrames
  BY DEF Wire, WireFrames
<1>2. CASE ReadBadFrame(c)
  <2>1. internal' \in [Conns -> Seq(WireFrames)] /\ reader' \in [Conns -> ReaderStates]
    BY <1>1, <1>2 DEF ReadBadFrame, TypeOK, ReaderStates
  <2>2. UNCHANGED <<hubVars, permits, phase, writer, out, published>>
    BY <1>2 DEF ReadBadFrame
  <2> QED
    BY <2>1, <2>2 DEF TypeOK, HubTypeOK, hubVars
<1>3. CASE ReadEnds(c) \/ SinkFails(c)
  BY <1>3 DEF ReadEnds, SinkFails, TypeOK, HubTypeOK, hubVars, ReaderStates, WriterStates
<1> QED
  BY <1>2, <1>3 DEF Departure

LEMMA WrittenType ==
    ASSUME TypeOK, NEW c \in Conns, NEW kind \in {"welcome", "clip", "chunk", "error"},
           NEW clips \in Seq(Frames), Written(c, kind, clips)
    PROVE  /\ kinds' \in [Conns -> Seq({"welcome", "clip", "chunk", "error"})]
           /\ told' \in [Conns -> Seq(Frames)]
<1>1. /\ Append(kinds[c], kind) \in Seq({"welcome", "clip", "chunk", "error"})
      /\ told[c] \o clips \in Seq(Frames)
  BY DEF TypeOK
<1> QED
  BY <1>1 DEF Written, TypeOK

LEMMA BodiesType ==
    ASSUME NEW body \in Frames \cup {NoClip}
    PROVE  Bodies(body) \in Seq(Frames)
  BY DEF Bodies

LEMMA WriterType ==
    ASSUME TypeOK, NEW c \in Conns, Writer(c)
    PROVE  TypeOK'
<1>1. CASE WriteInternal(c)
  <2>1. internal[c] \in Seq(WireFrames) /\ internal[c] # << >>
    BY <1>1 DEF WriteInternal, TypeOK
  <2>2. Head(internal[c]) \in WireFrames /\ Tail(internal[c]) \in Seq(WireFrames)
    BY <2>1
  <2>3. /\ internal' \in [Conns -> Seq(WireFrames)]
        /\ writer' \in [Conns -> WriterStates]
    BY <1>1, <2>2 DEF WriteInternal, TypeOK, WriterStates
  <2>5. /\ kinds' \in [Conns -> Seq({"welcome", "clip", "chunk", "error"})]
        /\ told' \in [Conns -> Seq(Frames)]
    <3>1. /\ Head(internal[c]).kind \in {"welcome", "error"}
          /\ Head(internal[c]).body \in Frames \cup {NoClip}
      BY <2>2 DEF WireFrames
    <3>2. Bodies(Head(internal[c]).body) \in Seq(Frames)
      BY <3>1, BodiesType
    <3>3. Written(c, Head(internal[c]).kind, Bodies(Head(internal[c]).body))
      BY <1>1 DEF WriteInternal
    <3> QED
      BY <3>1, <3>2, <3>3, WrittenType
  <2>4. UNCHANGED <<hubVars, permits, phase, reader, published>>
    BY <1>1 DEF WriteInternal
  <2> QED
    BY <2>3, <2>4, <2>5 DEF TypeOK, HubTypeOK, hubVars
<1>2. CASE WriteClip(c)
  <2>1. clipq[c] \in Seq(Frames) /\ clipq[c] # << >>
    BY <1>2 DEF WriteClip, TypeOK, HubTypeOK
  <2>2. /\ Head(clipq[c]) \in Frames /\ Tail(clipq[c]) \in Seq(Frames)
        /\ <<Head(clipq[c])>> \in Seq(Frames)
    BY <2>1
  <2>3. /\ kinds' \in [Conns -> Seq({"welcome", "clip", "chunk", "error"})]
        /\ told' \in [Conns -> Seq(Frames)]
    BY <1>2, <2>2, WrittenType DEF WriteClip
  <2> QED
    BY <1>2, <2>2, <2>3 DEF WriteClip, TypeOK, HubTypeOK, WriterStates
<1>3. CASE WriteChunk(c)
  <2>1. fileq[c] \in Seq(Frames) /\ fileq[c] # << >>
    BY <1>3 DEF WriteChunk, TypeOK, HubTypeOK
  <2>2. Tail(fileq[c]) \in Seq(Frames) /\ << >> \in Seq(Frames)
    BY <2>1
  <2>3. /\ kinds' \in [Conns -> Seq({"welcome", "clip", "chunk", "error"})]
        /\ told' \in [Conns -> Seq(Frames)]
    BY <1>3, <2>2, WrittenType DEF WriteChunk
  <2> QED
    BY <1>3, <2>2, <2>3 DEF WriteChunk, TypeOK, HubTypeOK, WriterStates
<1>4. CASE InternalClosed(c) \/ PollPastInternal(c) \/ ClipClosed(c) \/ PollAgain(c)
  BY <1>4 DEF InternalClosed, PollPastInternal, ClipClosed, PollAgain, TypeOK, HubTypeOK,
              hubVars, WriterStates
<1> QED
  BY <1>1, <1>2, <1>3, <1>4 DEF Writer

----------------------------------------------------------------------------
(* Each connection registers once and deregisters last *)

LEMMA DequeueShift ==
    ASSUME TypeOK, NEW type, Dequeue(type)
    PROVE  /\ Len(inbox) \in Nat \ {0} /\ Len(inbox') = Len(inbox) - 1
           /\ Head(inbox).conn \in Conns
           /\ \A i \in 1..Len(inbox') : inbox'[i] = inbox[i + 1]
           /\ \A i \in 1..Len(inbox'), c \in Conns :
                 /\ i + 1 \in 1..Len(inbox)
                 /\ IsRegister(i, c)' <=> IsRegister(i + 1, c)
                 /\ IsDeregister(i, c)' <=> IsDeregister(i + 1, c)
           /\ \A c \in Conns :
                 /\ IsRegister(1, c) <=> type = "Register" /\ c = Head(inbox).conn
                 /\ IsDeregister(1, c) <=> type = "Deregister" /\ c = Head(inbox).conn
<1>1. HubTypeOK
  BY DEF TypeOK
<1>2. /\ Len(inbox) \in Nat \ {0} /\ Len(inbox') = Len(inbox) - 1
      /\ \A i \in 1..Len(inbox') : inbox'[i] = inbox[i + 1]
      /\ inbox[1] = Head(inbox)
      /\ Head(inbox) \in Messages
      /\ Head(inbox).type = type
  BY <1>1, DequeueFacts
<1> QED
  BY <1>2 DEF IsRegister, IsDeregister, Messages

LEMMA EnqueueExtend ==
    ASSUME TypeOK, NEW type, NEW d, NEW n, Enqueue(type, d, n),
           [type |-> type, conn |-> d, n |-> n] \in Messages
    PROVE  /\ Len(inbox) \in Nat /\ Len(inbox') = Len(inbox) + 1
           /\ inbox'[Len(inbox) + 1].type = type
           /\ \A i \in 1..Len(inbox) : inbox'[i] = inbox[i]
           /\ \A i \in 1..Len(inbox), c \in Conns :
                 /\ IsRegister(i, c)' <=> IsRegister(i, c)
                 /\ IsDeregister(i, c)' <=> IsDeregister(i, c)
           /\ \A k \in Nat, c \in Conns :
                 k = Len(inbox) + 1 =>
                     /\ IsRegister(k, c)' <=> type = "Register" /\ c = d
                     /\ IsDeregister(k, c)' <=> type = "Deregister" /\ c = d
<1>1. HubTypeOK
  BY DEF TypeOK
<1>2. /\ Len(inbox) \in Nat /\ Len(inbox') = Len(inbox) + 1
      /\ \A i \in 1..Len(inbox) : inbox'[i] = inbox[i]
      /\ inbox'[Len(inbox) + 1] = [type |-> type, conn |-> d, n |-> n]
  BY <1>1, EnqueueFacts
<1>3. \A i \in 1..Len(inbox), c \in Conns :
          /\ IsRegister(i, c)' <=> IsRegister(i, c)
          /\ IsDeregister(i, c)' <=> IsDeregister(i, c)
  BY <1>2 DEF IsRegister, IsDeregister
<1>4. \A k \in Nat, c \in Conns :
          k = Len(inbox) + 1 =>
              /\ IsRegister(k, c)' <=> type = "Register" /\ c = d
              /\ IsDeregister(k, c)' <=> type = "Deregister" /\ c = d
  BY <1>2 DEF IsRegister, IsDeregister
<1> QED
  BY <1>2, <1>3, <1>4

\* What a turn of the hub does to its map and its replies: only a Register
\* adds a client or answers one, and a Deregister removes its own.
HubEffect(type) ==
    LET d == Head(inbox).conn
    IN  /\ Dequeue(type)
        /\ \A c \in Conns : ~(type = "Register" /\ c = d) =>
              ack'[c] = ack[c] /\ (c \in clients' => c \in clients)
        /\ type = "Register" /\ d \in clients' => ack'[d].result = "Accepted"
        /\ type = "Deregister" => d \notin clients'
        /\ clients' \subseteq Conns

LEMMA HubStepEffect ==
    ASSUME TypeOK, SessionInv, NEW listening, HubStep(listening)
    PROVE  \E type : HubEffect(type)
<1> DEFINE d == Head(inbox).conn
<1>0. ack \in [Conns -> Acks] /\ clients \subseteq Conns
  BY DEF TypeOK, HubTypeOK
<1>1. CASE HandleRegister
  <2>1. Dequeue("Register")
    BY <1>1 DEF HandleRegister
  <2>2. d \in Conns /\ IsRegister(1, d) /\ 1 \in 1..Len(inbox)
    BY <2>1, DequeueShift
  <2>3. d \notin clients
    BY <2>2 DEF SessionInv, RegisterInv
  <2>4. /\ \A c \in Conns \ {d} : ack'[c] = ack[c] /\ (c \in clients' => c \in clients)
        /\ d \in clients' => ack'[d].result = "Accepted"
        /\ clients' \subseteq Conns
    BY <1>0, <1>1, <2>2, <2>3 DEF HandleRegister
  <2>5. HubEffect("Register")
    BY <2>1, <2>4 DEF HubEffect
  <2> QED
    BY <2>5
<1>2. CASE HandleDeregister
  <2>1. HubEffect("Deregister")
    BY <1>0, <1>2 DEF HandleDeregister, HubEffect
  <2> QED
    BY <2>1
<1>3. CASE HandlePublish(listening)
  <2>1. HubEffect("Publish")
    BY <1>0, <1>3 DEF HandlePublish, HubEffect
  <2> QED
    BY <2>1
<1>4. CASE HandlePublishFile(listening)
  <2>1. HubEffect("PublishFile")
    BY <1>0, <1>4 DEF HandlePublishFile, HubEffect
  <2> QED
    BY <2>1
<1> QED
  BY <1>1, <1>2, <1>3, <1>4 DEF HubStep

LEMMA HubSession ==
    ASSUME TypeOK, SessionInv, NEW type, HubEffect(type), UNCHANGED phase
    PROVE  SessionInv'
<1> DEFINE d == Head(inbox).conn
<1>1. Dequeue(type)
  BY DEF HubEffect
<1>2. /\ d \in Conns
      /\ Len(inbox) \in Nat \ {0} /\ Len(inbox') = Len(inbox) - 1
      /\ 1 \in 1..Len(inbox)
      /\ \A i \in 1..Len(inbox'), c \in Conns :
            /\ i + 1 \in 1..Len(inbox) /\ i + 1 # 1
            /\ IsRegister(i, c)' <=> IsRegister(i + 1, c)
            /\ IsDeregister(i, c)' <=> IsDeregister(i + 1, c)
      /\ \A c \in Conns :
            /\ IsRegister(1, c) <=> type = "Register" /\ c = d
            /\ IsDeregister(1, c) <=> type = "Deregister" /\ c = d
  BY <1>1, DequeueShift
<1>3. /\ \A c \in Conns : ~(type = "Register" /\ c = d) =>
            ack'[c] = ack[c] /\ (c \in clients' => c \in clients)
      /\ type = "Register" /\ d \in clients' => ack'[d].result = "Accepted"
      /\ type = "Deregister" => d \notin clients'
      /\ clients' \subseteq Conns
  BY DEF HubEffect
<1>4. type = "Register" => phase[d] = "registering"
  BY <1>2 DEF SessionInv, RegisterInv
<1> HIDE DEF d
<1>5. ASSUME NEW i \in 1..Len(inbox'), NEW c \in Conns, IsRegister(i, c)'
      PROVE  phase'[c] = "registering" /\ ack'[c].result = "none" /\ c \notin clients'
  <2>1. IsRegister(i + 1, c) /\ i + 1 \in 1..Len(inbox) /\ i + 1 # 1
    BY <1>2, <1>5
  <2>2. ~(type = "Register" /\ c = d)
    BY <1>2, <2>1 DEF SessionInv, RegisterInv
  <2> QED
    BY <1>3, <2>1, <2>2 DEF SessionInv, RegisterInv
<1>6. ASSUME NEW i \in 1..Len(inbox'), NEW j \in 1..Len(inbox'), NEW c \in Conns,
             IsRegister(i, c)', IsRegister(j, c)'
      PROVE  i = j
  <2>1. i + 1 = j + 1
    BY <1>2, <1>6 DEF SessionInv, RegisterInv
  <2> QED
    BY <2>1
<1>7. ASSUME NEW c \in Conns, phase'[c] \in {"none", "upgrading"}
      PROVE  ack'[c].result = "none"
  BY <1>3, <1>4, <1>7 DEF SessionInv, RegisterInv
<1>8. ASSUME NEW i \in 1..Len(inbox'), NEW c \in Conns, IsDeregister(i, c)'
      PROVE  phase'[c] \in {"returning", "gone"}
  BY <1>2, <1>8 DEF SessionInv, DeregisterInv
<1>9. ASSUME NEW c \in clients'
      PROVE  /\ ack'[c].result = "Accepted"
             /\ \/ phase'[c] \in Active
                \/ /\ phase'[c] \in {"returning", "gone"}
                   /\ \E i \in 1..Len(inbox') : IsDeregister(i, c)'
  <2>1. CASE type = "Register" /\ c = d
    BY <1>3, <1>4, <1>9, <2>1 DEF Active
  <2>2. CASE ~(type = "Register" /\ c = d)
    <3>1. c \in clients /\ ack'[c] = ack[c] /\ c \in Conns
      BY <1>3, <1>9, <2>2
    <3>2. CASE phase[c] \in Active
      BY <3>1, <3>2 DEF SessionInv, DeregisterInv
    <3>3. CASE phase[c] \notin Active
      <4>1. PICK i \in 1..Len(inbox) : IsDeregister(i, c)
        BY <3>1, <3>3 DEF SessionInv, DeregisterInv
      <4>2. i # 1
        BY <1>2, <1>3, <1>9, <3>1, <4>1
      <4>3. i - 1 \in 1..Len(inbox') /\ (i - 1) + 1 = i
        BY <1>2, <4>2
      <4>4. IsDeregister(i - 1, c)'
        BY <1>2, <3>1, <4>1, <4>3
      <4> QED
        BY <3>1, <3>3, <4>3, <4>4 DEF SessionInv, DeregisterInv
    <3> QED
      BY <3>2, <3>3
  <2> QED
    BY <2>1, <2>2
<1>10. RegisterInv'
  BY <1>5, <1>6, <1>7 DEF RegisterInv
<1>11. DeregisterInv'
  BY <1>8, <1>9 DEF DeregisterInv
<1> QED
  BY <1>10, <1>11 DEF SessionInv

\* Sending a message: only the phase of its sender changes besides the inbox.
LEMMA EnqueueSession ==
    ASSUME TypeOK, SessionInv, NEW type, NEW d \in Conns, NEW n,
           Enqueue(type, d, n), [type |-> type, conn |-> d, n |-> n] \in Messages,
           UNCHANGED <<clients, ack>>,
           \A c \in Conns \ {d} : phase'[c] = phase[c],
           \/ type = "Register" /\ phase[d] = "upgrading" /\ phase'[d] = "registering"
           \/ type = "Deregister" /\ phase[d] = "deregistering" /\ phase'[d] = "returning"
           \/ type \notin {"Register", "Deregister"} /\ phase'[d] = phase[d]
    PROVE  SessionInv'
<1>0. Len(inbox) \in Nat
  BY EnqueueExtend
<1> PICK k \in Nat : k = Len(inbox) + 1
  BY <1>0
<1>1. /\ Len(inbox') = k
      /\ \A i \in 1..Len(inbox'), c \in Conns :
            \/ /\ i \in 1..Len(inbox)
               /\ IsRegister(i, c)' <=> IsRegister(i, c)
               /\ IsDeregister(i, c)' <=> IsDeregister(i, c)
            \/ /\ i = k
               /\ IsRegister(i, c)' <=> type = "Register" /\ c = d
               /\ IsDeregister(i, c)' <=> type = "Deregister" /\ c = d
      /\ \A i \in 1..Len(inbox) : i \in 1..Len(inbox') /\ i # k
  BY <1>0, EnqueueExtend
<1>2. clients \subseteq Conns
  BY DEF TypeOK, HubTypeOK
<1>3. type = "Register" => d \notin clients /\ ack[d].result = "none"
  BY <1>2 DEF SessionInv, RegisterInv, DeregisterInv, Active
<1>4. ASSUME NEW i \in 1..Len(inbox'), NEW c \in Conns, IsRegister(i, c)'
      PROVE  phase'[c] = "registering" /\ ack'[c].result = "none" /\ c \notin clients'
  BY <1>1, <1>3, <1>4 DEF SessionInv, RegisterInv
<1>5. ASSUME NEW i \in 1..Len(inbox'), NEW j \in 1..Len(inbox'), NEW c \in Conns,
             IsRegister(i, c)', IsRegister(j, c)'
      PROVE  i = j
  <2>1. CASE i \in 1..Len(inbox) /\ j \in 1..Len(inbox)
    BY <1>1, <1>5, <2>1 DEF SessionInv, RegisterInv
  <2>2. CASE i \notin 1..Len(inbox) \/ j \notin 1..Len(inbox)
    <3>1. type = "Register" /\ c = d
      BY <1>1, <1>5, <2>2
    <3>2. \A x \in 1..Len(inbox) : ~IsRegister(x, c)
      BY <3>1 DEF SessionInv, RegisterInv
    <3> QED
      BY <1>1, <1>5, <3>2
  <2> QED
    BY <2>1, <2>2
<1>6. ASSUME NEW c \in Conns, phase'[c] \in {"none", "upgrading"}
      PROVE  ack'[c].result = "none"
  BY <1>6 DEF SessionInv, RegisterInv
<1>7. ASSUME NEW i \in 1..Len(inbox'), NEW c \in Conns, IsDeregister(i, c)'
      PROVE  phase'[c] \in {"returning", "gone"}
  BY <1>1, <1>7 DEF SessionInv, DeregisterInv
<1>8. ASSUME NEW c \in clients'
      PROVE  /\ ack'[c].result = "Accepted"
             /\ \/ phase'[c] \in Active
                \/ /\ phase'[c] \in {"returning", "gone"}
                   /\ \E i \in 1..Len(inbox') : IsDeregister(i, c)'
  <2>1. c \in clients /\ c \in Conns /\ ack' = ack
    BY <1>2, <1>8
  <2>2. CASE type = "Deregister" /\ c = d
    <3>1. k \in 1..Len(inbox') /\ IsDeregister(k, c)'
      BY <1>1, <2>1, <2>2
    <3> QED
      BY <2>1, <2>2, <3>1 DEF SessionInv, DeregisterInv
  <2>3. CASE ~(type = "Deregister" /\ c = d)
    <3>1. phase'[c] = phase[c] \/ phase'[c] \in Active
      BY <2>1, <2>3 DEF Active
    <3> QED
      BY <1>1, <2>1, <3>1 DEF SessionInv, DeregisterInv, Active
  <2> QED
    BY <2>2, <2>3
<1>9. RegisterInv'
  BY <1>4, <1>5, <1>6 DEF RegisterInv
<1>10. DeregisterInv'
  BY <1>7, <1>8 DEF DeregisterInv
<1> QED
  BY <1>9, <1>10 DEF SessionInv

\* A step of one connection that leaves the hub's session state alone.
LEMMA LocalSession ==
    ASSUME TypeOK, SessionInv, NEW d \in Conns, UNCHANGED <<inbox, clients, ack>>,
           \A c \in Conns \ {d} : phase'[c] = phase[c],
           \/ phase'[d] = phase[d]
           \/ phase[d] = "none" /\ phase'[d] = "upgrading"
           \/ phase[d] = "upgrading" /\ phase'[d] = "gone"
           \/ /\ phase[d] = "registering" /\ ack[d].result # "none"
              /\ phase'[d] = IF ack[d].result = "Accepted" THEN "serving" ELSE "returning"
           \/ phase[d] = "serving" /\ phase'[d] = "deregistering"
           \/ phase[d] = "returning" /\ phase'[d] = "gone"
    PROVE  SessionInv'
<1>1. clients \subseteq Conns
  BY DEF TypeOK, HubTypeOK
<1>2. RegisterInv'
  BY DEF SessionInv, RegisterInv, IsRegister
<1>3. DeregisterInv'
  BY <1>1 DEF SessionInv, DeregisterInv, IsDeregister, Active
<1> QED
  BY <1>2, <1>3 DEF SessionInv

----------------------------------------------------------------------------
(* There is room for every Register in the inbox *)

LEMMA SubsetBound ==
    ASSUME NEW S \in SUBSET Conns, NEW T \in SUBSET Conns, S \subseteq T
    PROVE  Cardinality(S) <= Cardinality(T)
  BY ConnSets, FS_Subset

LEMMA HubClaims ==
    ASSUME TypeOK, SessionInv, ClaimInv, NEW type, HubEffect(type), UNCHANGED phase
    PROVE  ClaimInv'
<1> DEFINE d == Head(inbox).conn
<1>1. Dequeue(type)
  BY DEF HubEffect
<1>2. /\ Len(inbox) \in Nat \ {0} /\ Len(inbox') = Len(inbox) - 1
      /\ \A i \in 1..Len(inbox') : inbox'[i] = inbox[i + 1]
      /\ \A i \in 1..Len(inbox'), c \in Conns :
            /\ i + 1 \in 1..Len(inbox)
            /\ IsRegister(i, c)' <=> IsRegister(i + 1, c)
            /\ IsDeregister(i, c)' <=> IsDeregister(i + 1, c)
      /\ \A c \in Conns :
            /\ IsRegister(1, c) <=> type = "Register" /\ c = d
            /\ IsDeregister(1, c) <=> type = "Deregister" /\ c = d
  BY <1>1, DequeueShift
<1>3. /\ \A c \in Conns : c \in clients' => c \in clients \/ (type = "Register" /\ c = d)
      /\ type = "Deregister" => d \notin clients'
  BY DEF HubEffect
<1> HIDE DEF d
<1>4. ASSUME NEW i \in 1..Len(inbox'), NEW c \in Conns, c \in Claims(i)'
      PROVE  c \in Claims(i + 1)
  <2>1. /\ c \in clients' \/ \E j \in 1..i : IsRegister(j, c)'
        /\ \A j \in 1..(i - 1) : ~IsDeregister(j, c)'
    BY <1>4 DEF Claims
  <2>2. c \in clients \/ \E j \in 1..(i + 1) : IsRegister(j, c)
    <3>1. CASE c \in clients'
      BY <1>2, <1>3, <3>1
    <3>2. CASE c \notin clients'
      <4>1. PICK j \in 1..i : IsRegister(j, c)'
        BY <2>1, <3>2
      <4>2. IsRegister(j + 1, c) /\ j + 1 \in 1..(i + 1)
        BY <1>2, <4>1
      <4> QED
        BY <4>2
    <3> QED
      BY <3>1, <3>2
  <2>3. ~IsDeregister(1, c)
    <3>1. SUFFICES ASSUME IsDeregister(1, c) PROVE FALSE
      OBVIOUS
    <3>2. c \notin clients' /\ phase[c] \in {"returning", "gone"}
      BY <1>2, <1>3, <3>1 DEF SessionInv, DeregisterInv
    <3>3. PICK j \in 1..i : IsRegister(j, c)'
      BY <2>1, <3>2
    <3>4. IsRegister(j + 1, c) /\ j + 1 \in 1..Len(inbox)
      BY <1>2, <3>3
    <3> QED
      BY <3>2, <3>4 DEF SessionInv, RegisterInv
  <2>4. ASSUME NEW j \in 1..i, j # 1 PROVE ~IsDeregister(j, c)
    <3>1. j - 1 \in 1..(i - 1) /\ (j - 1) + 1 = j /\ j - 1 \in 1..Len(inbox')
      BY <1>2, <2>4
    <3> QED
      BY <1>2, <2>1, <3>1
  <2>5. \A j \in 1..i : ~IsDeregister(j, c)
    BY <2>3, <2>4
  <2>6. (i + 1) - 1 = i
    BY <1>2
  <2> QED
    BY <2>2, <2>5, <2>6 DEF Claims
<1>5. ASSUME NEW i \in 1..Len(inbox'), inbox'[i].type = "Register"
      PROVE  Cardinality(Claims(i)') <= MaxConns
  <2>1. Claims(i)' \subseteq Claims(i + 1)
    BY <1>4 DEF Claims
  <2>2. Claims(i)' \in SUBSET Conns /\ Claims(i + 1) \in SUBSET Conns
    BY DEF Claims
  <2>3. /\ Cardinality(Claims(i)') <= Cardinality(Claims(i + 1))
        /\ Cardinality(Claims(i)') \in Nat /\ Cardinality(Claims(i + 1)) \in Nat
    BY <2>1, <2>2, SubsetBound, ConnSets
  <2>4. i + 1 \in 1..Len(inbox) /\ inbox[i + 1].type = "Register"
    BY <1>2, <1>5
  <2>5. Cardinality(Claims(i + 1)) <= MaxConns
    BY <2>4 DEF ClaimInv
  <2> QED
    BY <2>3, <2>5, ConstantsAssumption
<1> QED
  BY <1>5 DEF ClaimInv

LEMMA EnqueueClaims ==
    ASSUME TypeOK, SessionInv, PermitInv, ClaimInv, NEW type, NEW d \in Conns, NEW n,
           Enqueue(type, d, n), [type |-> type, conn |-> d, n |-> n] \in Messages,
           UNCHANGED clients,
           type = "Register" => phase[d] = "upgrading"
    PROVE  ClaimInv'
<1>0. Len(inbox) \in Nat
  BY EnqueueExtend
<1> PICK k \in Nat : k = Len(inbox) + 1
  BY <1>0
<1>1. /\ Len(inbox') = k
      /\ \A i \in 1..Len(inbox) : inbox'[i] = inbox[i]
      /\ inbox'[k].type = type
      /\ \A i \in 1..Len(inbox), c \in Conns :
            /\ IsRegister(i, c)' <=> IsRegister(i, c)
            /\ IsDeregister(i, c)' <=> IsDeregister(i, c)
      /\ \A c \in Conns : IsRegister(k, c)' <=> type = "Register" /\ c = d
  BY <1>0, EnqueueExtend
<1>2. ASSUME NEW i \in 1..Len(inbox) PROVE Claims(i)' = Claims(i)
  <2>1. \A j \in 1..i : j \in 1..Len(inbox)
    BY <1>0
  <2>2. \A j \in 1..(i - 1) : j \in 1..Len(inbox)
    BY <1>0
  <2>3. ASSUME NEW c \in Conns
        PROVE  /\ (\E j \in 1..i : IsRegister(j, c)') <=> \E j \in 1..i : IsRegister(j, c)
               /\ (\A j \in 1..(i - 1) : ~IsDeregister(j, c)')
                      <=> \A j \in 1..(i - 1) : ~IsDeregister(j, c)
    BY <1>1, <2>1, <2>2
  <2> QED
    BY <2>3 DEF Claims
<1>3. ASSUME type = "Register" PROVE Cardinality(Claims(k)') <= MaxConns
  <2>1. ASSUME NEW c \in Conns, c \in Claims(k)' PROVE c \in Holders
    <3>1. /\ c \in clients \/ \E j \in 1..k : IsRegister(j, c)'
          /\ \A j \in 1..(k - 1) : ~IsDeregister(j, c)'
      BY <2>1 DEF Claims
    <3>2. \A j \in 1..Len(inbox) : ~IsDeregister(j, c)
      BY <1>1, <3>1
    <3>3. CASE c \in clients
      BY <3>2, <3>3 DEF SessionInv, DeregisterInv, Holders
    <3>4. CASE c \notin clients
      <4>1. PICK j \in 1..k : IsRegister(j, c)'
        BY <3>1, <3>4
      <4>2. CASE j = k
        BY <1>1, <1>3, <4>1, <4>2 DEF Holders
      <4>3. CASE j # k
        <5>1. j \in 1..Len(inbox) /\ IsRegister(j, c)
          BY <1>0, <1>1, <4>1, <4>3
        <5> QED
          BY <5>1 DEF SessionInv, RegisterInv, Holders, Active
      <4> QED
        BY <4>2, <4>3
    <3> QED
      BY <3>3, <3>4
  <2>2. Claims(k)' \in SUBSET Conns /\ Holders \in SUBSET Conns /\ Claims(k)' \subseteq Holders
    BY <2>1 DEF Claims, Holders
  <2>3. /\ Cardinality(Claims(k)') <= Cardinality(Holders)
        /\ Cardinality(Claims(k)') \in Nat /\ Cardinality(Holders) \in Nat
    BY <2>2, SubsetBound, ConnSets
  <2>4. permits \in 0..MaxConns /\ permits = MaxConns - Cardinality(Holders)
    BY DEF TypeOK, PermitInv
  <2> QED
    BY <2>3, <2>4, ConstantsAssumption
<1>4. ASSUME NEW i \in 1..Len(inbox'), inbox'[i].type = "Register"
      PROVE  Cardinality(Claims(i)') <= MaxConns
  <2>1. CASE i \in 1..Len(inbox)
    BY <1>1, <1>2, <1>4, <2>1 DEF ClaimInv
  <2>2. CASE i \notin 1..Len(inbox)
    <3>1. i = k
      BY <1>0, <1>1, <2>2
    <3> QED
      BY <1>1, <1>3, <1>4, <3>1
  <2> QED
    BY <2>1, <2>2
<1> QED
  BY <1>4 DEF ClaimInv

\* The Register at the head of the inbox and the clients in the map are among
\* its claims, so the map is not full.
LEMMA RoomForRegister ==
    ASSUME TypeOK, SessionInv, ClaimInv, HandleRegister
    PROVE  Cardinality(clients) < MaxConns
<1> DEFINE d == Head(inbox).conn
<1>1. Dequeue("Register")
  BY DEF HandleRegister
<1>2. d \in Conns /\ IsRegister(1, d) /\ 1 \in 1..Len(inbox) /\ clients \subseteq Conns
  BY <1>1, DequeueShift DEF TypeOK, HubTypeOK
<1>3. d \notin clients
  BY <1>2 DEF SessionInv, RegisterInv
<1>4. clients \cup {d} \subseteq Claims(1)
  BY <1>2 DEF Claims
<1>5. Claims(1) \in SUBSET Conns /\ clients \cup {d} \in SUBSET Conns
  BY <1>2 DEF Claims
<1>6. Cardinality(Claims(1)) <= MaxConns
  BY <1>2 DEF ClaimInv, IsRegister
<1>7. /\ Cardinality(clients \cup {d}) = Cardinality(clients) + 1
      /\ Cardinality(clients \cup {d}) <= Cardinality(Claims(1))
      /\ Cardinality(clients) \in Nat /\ Cardinality(Claims(1)) \in Nat
  BY <1>2, <1>3, <1>4, <1>5, SubsetBound, ConnSets, FS_AddElement
<1> QED
  BY <1>6, <1>7, ConstantsAssumption

----------------------------------------------------------------------------
(* Every step preserves the invariant *)

\* permits counts the connections that hold none.
LEMMA HandlerPermits ==
    ASSUME TypeOK, PermitInv, NEW c \in Conns, Handler(c)
    PROVE  PermitInv'
<1>1. phase \in [Conns -> Phases] /\ permits \in 0..MaxConns
  BY DEF TypeOK
<1>2. Holders \in SUBSET Conns /\ Cardinality(Holders) \in Nat /\ IsFiniteSet(Holders)
  BY ConnSets DEF Holders
<1>3. CASE Upgrade(c)
  <2>1. Holders' = Holders \cup {c} /\ c \notin Holders
    BY <1>1, <1>3 DEF Upgrade, Holders, Active
  <2>2. Cardinality(Holders') = Cardinality(Holders) + 1
    BY <1>2, <2>1, FS_AddElement
  <2>3. permits' = permits - 1
    BY <1>3 DEF Upgrade
  <2> QED
    BY <1>1, <1>2, <2>2, <2>3, ConstantsAssumption DEF PermitInv
<1>4. CASE UpgradeFails(c) \/ Return(c)
  <2>1. Holders' = Holders \ {c} /\ c \in Holders
    BY <1>1, <1>4 DEF UpgradeFails, Return, Holders, Active
  <2>2. Cardinality(Holders') = Cardinality(Holders) - 1
    BY <1>2, <2>1, FS_RemoveElement
  <2>3. permits' = permits + 1
    BY <1>4 DEF UpgradeFails, Return
  <2> QED
    BY <1>1, <1>2, <2>2, <2>3, ConstantsAssumption DEF PermitInv
<1>5. CASE Register(c) \/ ReceiveAck(c) \/ TaskEndObserved(c) \/ Deregister(c)
  <2>1. Holders' = Holders
    BY <1>1, <1>5 DEF Register, ReceiveAck, TaskEndObserved, Deregister, Holders, Active
  <2>2. permits' = permits
    BY <1>5 DEF Register, ReceiveAck, TaskEndObserved, Deregister
  <2> QED
    BY <2>1, <2>2 DEF PermitInv
<1> QED
  BY <1>3, <1>4, <1>5 DEF Handler

LEMMA HubTurnInv ==
    ASSUME IInv, HubTurn
    PROVE  IInv'
<1>1. HubStep(Listening) /\ UNCHANGED <<permits, phase, internal, reader, writer, out, published>>
  BY DEF HubTurn, connVars
<1>2. TypeOK /\ Counted /\ SessionInv /\ PermitInv /\ ClaimInv /\ HubNeverRefuses
  BY DEF IInv
<1>3. TypeOK' /\ Counted'
  BY <1>1, <1>2, HubStepType DEF TypeOK, SessionInv
<1>4. PICK type : HubEffect(type)
  BY <1>1, <1>2, HubStepEffect
<1>5. SessionInv' /\ ClaimInv'
  BY <1>1, <1>2, <1>4, HubSession, HubClaims
<1>6. PermitInv'
  BY <1>1, <1>2 DEF PermitInv, Holders
<1>7. HubNeverRefuses'
  <2>1. CASE HandleRegister
    <3>1. ~(Cardinality(clients) >= MaxConns)
      <4>1. Cardinality(clients) < MaxConns /\ Cardinality(clients) \in Nat
        BY <1>2, <2>1, RoomForRegister, ConnSets DEF TypeOK, HubTypeOK
      <4> QED
        BY <4>1, ConstantsAssumption
    <3>2. ack' = [ack EXCEPT ![Head(inbox).conn] =
                     [result |-> "Accepted", lastClip |-> lastClip]]
      BY <2>1, <3>1 DEF HandleRegister
    <3> QED
      BY <1>2, <3>2 DEF HubNeverRefuses, TypeOK, HubTypeOK
  <2>2. CASE ~HandleRegister
    BY <1>1, <1>2, <2>2
       DEF HubStep, HandleDeregister, HandlePublish, HandlePublishFile, HubNeverRefuses
  <2> QED
    BY <2>1, <2>2
<1> QED
  BY <1>3, <1>5, <1>6, <1>7 DEF IInv

LEMMA HandlerInv ==
    ASSUME IInv, NEW c \in Conns, Handler(c)
    PROVE  IInv'
<1>1. TypeOK /\ Counted /\ SessionInv /\ PermitInv /\ ClaimInv /\ HubNeverRefuses
  BY DEF IInv
<1>2. TypeOK' /\ PermitInv'
  BY <1>1, HandlerType, HandlerPermits
<1>3. UNCHANGED <<clients, stats, ack>>
  BY DEF Handler, Upgrade, UpgradeFails, Register, ReceiveAck, TaskEndObserved, Deregister,
         Return, hubVars
<1>4. Counted' /\ HubNeverRefuses'
  BY <1>1, <1>3 DEF Counted, HubNeverRefuses
<1>5. phase \in [Conns -> Phases]
  BY <1>1 DEF TypeOK
<1>6. SessionInv' /\ ClaimInv'
  <2>1. CASE Register(c)
    <3>1. /\ Enqueue("Register", c, 0)
          /\ phase[c] = "upgrading" /\ phase' = [phase EXCEPT ![c] = "registering"]
          /\ [type |-> "Register", conn |-> c, n |-> 0] \in Messages
      BY <2>1 DEF Register, Messages
    <3> QED
      BY <1>1, <1>3, <1>5, <3>1, EnqueueSession, EnqueueClaims
  <2>2. CASE Deregister(c)
    <3>1. /\ Enqueue("Deregister", c, 0)
          /\ phase[c] = "deregistering" /\ phase' = [phase EXCEPT ![c] = "returning"]
          /\ [type |-> "Deregister", conn |-> c, n |-> 0] \in Messages
      BY <2>2 DEF Deregister, Messages
    <3> QED
      BY <1>1, <1>3, <1>5, <3>1, EnqueueSession, EnqueueClaims
  <2>3. CASE Upgrade(c) \/ UpgradeFails(c) \/ ReceiveAck(c) \/ TaskEndObserved(c) \/ Return(c)
    <3>1. inbox' = inbox
      BY <2>3 DEF Upgrade, UpgradeFails, ReceiveAck, TaskEndObserved, Return, hubVars
    <3>2. /\ \A d \in Conns \ {c} : phase'[d] = phase[d]
          /\ \/ phase[c] = "none" /\ phase'[c] = "upgrading"
             \/ phase[c] = "upgrading" /\ phase'[c] = "gone"
             \/ /\ phase[c] = "registering" /\ ack[c].result # "none"
                /\ phase'[c] = IF ack[c].result = "Accepted" THEN "serving" ELSE "returning"
             \/ phase[c] = "serving" /\ phase'[c] = "deregistering"
             \/ phase[c] = "returning" /\ phase'[c] = "gone"
      BY <1>5, <2>3 DEF Upgrade, UpgradeFails, ReceiveAck, TaskEndObserved, Return
    <3>3. SessionInv'
      BY <1>1, <1>3, <3>1, <3>2, LocalSession
    <3>4. ClaimInv'
      BY <1>1, <1>3, <3>1 DEF ClaimInv, Claims, IsRegister, IsDeregister
    <3> QED
      BY <3>3, <3>4
  <2> QED
    BY <2>1, <2>2, <2>3 DEF Handler
<1> QED
  BY <1>1, <1>2, <1>4, <1>6 DEF IInv

LEMMA PublishInv ==
    ASSUME IInv, NEW c \in Conns, NEW type \in FrameTypes, ReadPublish(c, type)
    PROVE  IInv'
<1>1. TypeOK /\ Counted /\ SessionInv /\ PermitInv /\ ClaimInv /\ HubNeverRefuses
  BY DEF IInv
<1>2. /\ Enqueue(type, c, published + 1) /\ published \in 0..MaxFrames /\ published < MaxFrames
      /\ type \in {"Publish", "PublishFile"}
      /\ UNCHANGED <<clients, stats, ack, permits, phase>>
  BY <1>1, ClientsAssumption DEF ReadPublish, TypeOK
<1>3. [type |-> type, conn |-> c, n |-> published + 1] \in Messages
  BY <1>2, ConstantsAssumption DEF Messages
<1>4. TypeOK' /\ SessionInv' /\ ClaimInv'
  BY <1>1, <1>2, <1>3, ReaderType, EnqueueSession, EnqueueClaims
<1>5. Counted' /\ PermitInv' /\ HubNeverRefuses'
  BY <1>1, <1>2 DEF Counted, PermitInv, Holders, HubNeverRefuses
<1> QED
  BY <1>4, <1>5 DEF IInv

\* The session, the permits and the claims depend on these variables alone.
LEMMA FrameInv ==
    ASSUME IInv, TypeOK', UNCHANGED <<inbox, clients, stats, ack, permits, phase>>
    PROVE  IInv'
  BY DEF IInv, Counted, SessionInv, RegisterInv, DeregisterInv, PermitInv, Holders, ClaimInv,
         Claims, IsRegister, IsDeregister, HubNeverRefuses

LEMMA InitInv == Init => IInv
<1> SUFFICES ASSUME Init PROVE IInv
  OBVIOUS
<1>1. inbox = << >> /\ Len(inbox) = 0 /\ clients = {} /\ stats = 0
  BY DEF Init, HubInit
<1>2. TypeOK
  BY ConstantsAssumption
     DEF Init, HubInit, TypeOK, HubTypeOK, Acks, NoAck, Phases, ReaderStates, WriterStates
<1>3. Counted
  BY <1>1, FS_EmptySet, ConstantsAssumption DEF Counted
<1>4. SessionInv /\ ClaimInv /\ HubNeverRefuses
  BY <1>1 DEF Init, HubInit, NoAck, SessionInv, RegisterInv, DeregisterInv, ClaimInv,
              HubNeverRefuses
<1>5. Holders = {}
  BY DEF Init, Holders, Active
<1>6. PermitInv
  BY <1>5, FS_EmptySet, ConstantsAssumption DEF Init, PermitInv
<1> QED
  BY <1>2, <1>3, <1>4, <1>6 DEF IInv

LEMMA StepInv == IInv /\ [Next]_vars => IInv'
<1> SUFFICES ASSUME IInv, [Next]_vars PROVE IInv'
  OBVIOUS
<1>1. CASE HubTurn
  BY <1>1, HubTurnInv
<1>2. ASSUME NEW c \in Conns, Handler(c) PROVE IInv'
  BY <1>2, HandlerInv
<1>3. ASSUME NEW c \in Conns, NEW type \in FrameTypes, ReadPublish(c, type) PROVE IInv'
  BY <1>3, PublishInv
<1>4. ASSUME NEW c \in Conns, Writer(c) PROVE IInv'
  <2>1. TypeOK'
    BY <1>4, WriterType DEF IInv
  <2>2. UNCHANGED <<inbox, clients, stats, ack, permits, phase>>
    BY <1>4 DEF Writer, WriteInternal, InternalClosed, PollPastInternal, WriteClip,
                ClipClosed, WriteChunk, PollAgain, hubVars
  <2> QED
    BY <2>1, <2>2, FrameInv
<1>5. ASSUME NEW c \in Conns, Departure(c) PROVE IInv'
  <2>1. TypeOK'
    BY <1>5, DepartureType DEF IInv
  <2>2. UNCHANGED <<inbox, clients, stats, ack, permits, phase>>
    BY <1>5 DEF Departure, ReadBadFrame, ReadEnds, SinkFails, hubVars
  <2> QED
    BY <2>1, <2>2, FrameInv
<1>6. CASE UNCHANGED vars
  <2>1. TypeOK'
    BY <1>6 DEF IInv, TypeOK, HubTypeOK, vars, hubVars, connVars
  <2> QED
    BY <1>6, <2>1, FrameInv DEF vars, hubVars, connVars
<1> QED
  BY <1>1, <1>2, <1>3, <1>4, <1>5, <1>6 DEF Next

\* The strengthening of the three invariants below: claims, permits and the
\* messages of every connection fit together in every reachable state.
THEOREM InductiveInvariant == Spec => []IInv
  BY InitInv, StepInv, PTL DEF Spec

----------------------------------------------------------------------------
(* The theorems *)

\* All state stays within its types; in particular the inbox never exceeds its
\* capacity, permits neither leak below zero nor exceed max_conns, and the
\* atomic counter never wraps below zero.
THEOREM TypeCorrect == Spec => []TypeOK
<1>1. IInv => TypeOK
  BY DEF IInv
<1> QED
  BY <1>1, InductiveInvariant, PTL

\* hub.rs never answers AtCapacity to a connection ws.rs let through its
\* semaphore: the branch "should not happen" in handle_socket is dead code.
THEOREM NeverRefused == Spec => []HubNeverRefuses
<1>1. IInv => HubNeverRefuses
  BY DEF IInv
<1> QED
  BY <1>1, InductiveInvariant, PTL

\* The counter the tray displays is the number of registered clients, at most
\* max_conns, and no entry of the map outlives its connection without a
\* Deregister on the way.
THEOREM LiveCountExact == Spec => []LiveCount
<1>1. IInv => LiveCount
  BY DEF IInv, Counted, SessionInv, DeregisterInv, Active, IsDeregister, LiveCount
<1> QED
  BY <1>1, InductiveInvariant, PTL
============================================================================
