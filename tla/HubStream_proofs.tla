-------------------------- MODULE HubStream_proofs --------------------------
(***************************************************************************)
(* Theorems about what HubServer tells its clients, for every finite set   *)
(* of connections and every buffer size: StreamInOrder, PeersConverge,     *)
(* NothingAfterError, and that the server implements ClipRelay.            *)
(*                                                                         *)
(* All four are about Feed(c), everything that c was ever handed.  Of all  *)
(* steps only the hub's turns change a feed (RelayStep): what the tasks of *)
(* a connection do moves clips from one place of it to the next.  That is  *)
(* so because of how a connection begins and ends (Lifecycle, Welcomes),   *)
(* and it makes the feed increase because frames wait in the inbox in the  *)
(* order they were numbered in (Numbered).                                 *)
(***************************************************************************)
EXTENDS HubServer_proofs

USE DEF out

\* A connection has no tasks, and nothing was written, before its registration
\* was answered; it has something to write as soon as it has a writer.
Lifecycle(c) ==
    /\ phase[c] \in {"none", "upgrading", "registering"} => writer[c] = "none"
    /\ phase[c] = "serving" => writer[c] # "none"
    /\ writer[c] = "none" =>
          reader[c] = "none" /\ kinds[c] = << >> /\ told[c] = << >> /\ internal[c] = << >>
    /\ writer[c] # "none" =>
          ack[c].result = "Accepted" /\ (kinds[c] # << >> \/ internal[c] # << >>)
    /\ writer[c] = "polling" => kinds[c] # << >>

\* Until it is answered, a connection has been handed nothing; from then on, and
\* until it is about to deregister, the hub knows it.
Membership(c) ==
    /\ ack[c].result = "none" => ack[c].lastClip = NoClip /\ clipq[c] = << >>
    /\ phase[c] \in Active /\ ack[c].result = "Accepted" => c \in clients

ErrorLast(c) ==
    writer[c] \in {"idle", "polling"} => \A i \in 1..Len(kinds[c]) : kinds[c][i] # "error"

Sound == \A c \in Conns : Lifecycle(c) /\ Membership(c) /\ WelcomeFirst(c) /\ ErrorLast(c)

IsFrame(i) == inbox[i].type \in {"Publish", "PublishFile"}

\* Frames are handled in the order they were numbered in, and come from clients
\* that have a reader.
Numbered ==
    /\ \A i \in 1..Len(inbox) :
          IsFrame(i) => /\ inbox[i].n <= published /\ reader[inbox[i].conn] # "none"
                        /\ lastClip # NoClip => lastClip.n < inbox[i].n
    /\ \A i, j \in 1..Len(inbox) : i < j /\ IsFrame(i) /\ IsFrame(j) => inbox[i].n < inbox[j].n
    /\ lastClip # NoClip => lastClip.n <= published /\ reader[lastClip.from] # "none"

\* c may be fed clips in this order while the given clip is cached.
Feedable(c, clips, last) ==
    /\ \A i, j \in 1..Len(clips) : i < j => clips[i].n < clips[j].n
    /\ \A i \in 1..Len(clips) :
          clips[i].from # c /\ last # NoClip /\ clips[i].n <= last.n

Fed == \A c \in Conns : Feedable(c, Feed(c), lastClip)

\* Whoever can take the cached clip, and has not published it, has it.
Current ==
    \A c \in clients \ missed :
        ~WriterDone(c) /\ lastClip # NoClip /\ lastClip.from # c =>
            Feed(c) # << >> /\ Feed(c)[Len(Feed(c))] = lastClip

StreamInv ==
    /\ Sound
    /\ Numbered
    /\ Fed
    /\ Current

----------------------------------------------------------------------------
(* Sequences *)

LEMMA Concatenated ==
    ASSUME NEW S, NEW s \in Seq(S), NEW t \in Seq(S)
    PROVE  /\ s \o t \in Seq(S)
           /\ Len(s) \in Nat /\ Len(t) \in Nat /\ Len(s \o t) = Len(s) + Len(t)
           /\ \A i \in 1..Len(s \o t) :
                 (s \o t)[i] = IF i <= Len(s) THEN s[i] ELSE t[i - Len(s)]
  OBVIOUS

LEMMA Equal ==
    ASSUME NEW S, NEW s \in Seq(S), NEW t \in Seq(S), Len(s) = Len(t),
           \A i \in 1..Len(s) : s[i] = t[i]
    PROVE  s = t
  OBVIOUS

LEMMA Neutral ==
    ASSUME NEW S, NEW s \in Seq(S)
    PROVE  s \o << >> = s /\ << >> \o s = s
  OBVIOUS

\* What is appended to the second half is appended to the whole.
LEMMA AppendedToWhole ==
    ASSUME NEW S, NEW s \in Seq(S), NEW t \in Seq(S), NEW e \in S
    PROVE  s \o Append(t, e) = Append(s \o t, e)
<1> DEFINE a == s \o Append(t, e)
           b == Append(s \o t, e)
<1>1. /\ Append(t, e) \in Seq(S) /\ Len(Append(t, e)) = Len(t) + 1
      /\ \A i \in 1..Len(t) : Append(t, e)[i] = t[i]
      /\ Append(t, e)[Len(t) + 1] = e
      /\ Len(s) \in Nat /\ Len(t) \in Nat
  OBVIOUS
<1>2. /\ a \in Seq(S) /\ Len(a) = Len(s) + (Len(t) + 1)
      /\ \A i \in 1..Len(a) : a[i] = IF i <= Len(s) THEN s[i] ELSE Append(t, e)[i - Len(s)]
  BY <1>1, Concatenated
<1>3. /\ s \o t \in Seq(S) /\ Len(s \o t) = Len(s) + Len(t)
      /\ \A i \in 1..Len(s \o t) : (s \o t)[i] = IF i <= Len(s) THEN s[i] ELSE t[i - Len(s)]
  BY Concatenated
<1>4. /\ b \in Seq(S) /\ Len(b) = Len(s \o t) + 1
      /\ \A i \in 1..Len(s \o t) : b[i] = (s \o t)[i]
      /\ b[Len(s \o t) + 1] = e
  BY <1>3
<1> HIDE DEF a, b
<1>5. ASSUME NEW i \in 1..Len(a) PROVE a[i] = b[i]
  <2>1. i \in Nat /\ i >= 1 /\ i <= Len(s) + Len(t) + 1
    BY <1>1, <1>2
  <2>2. CASE i <= Len(s)
    <3>1. i \in 1..Len(s \o t)
      BY <1>1, <1>3, <2>1, <2>2
    <3> QED
      BY <1>2, <1>3, <1>4, <2>2, <3>1
  <2>3. CASE i > Len(s) /\ i <= Len(s) + Len(t)
    <3>1. i \in 1..Len(s \o t) /\ i - Len(s) \in 1..Len(t) /\ ~(i <= Len(s))
      BY <1>1, <1>3, <2>1, <2>3
    <3> QED
      BY <1>1, <1>2, <1>3, <1>4, <3>1
  <2>4. CASE i = Len(s) + Len(t) + 1
    <3>1. i - Len(s) = Len(t) + 1 /\ ~(i <= Len(s)) /\ i = Len(s \o t) + 1
      BY <1>1, <1>3, <2>4
    <3> QED
      BY <1>1, <1>2, <1>4, <3>1
  <2> QED
    BY <1>1, <2>1, <2>2, <2>3, <2>4
<1>6. Len(a) = Len(b)
  BY <1>1, <1>2, <1>3, <1>4
<1>7. a = b
  BY <1>2, <1>4, <1>5, <1>6, Equal
<1> QED
  BY <1>7 DEF a, b

\* The first element of the second half may go to the end of the first half.
LEMMA MovedOver ==
    ASSUME NEW S, NEW s \in Seq(S), NEW t \in Seq(S), t # << >>
    PROVE  (s \o <<Head(t)>>) \o Tail(t) = s \o t
<1> DEFINE h == s \o <<Head(t)>>
           a == h \o Tail(t)
           b == s \o t
<1>1. /\ Head(t) \in S /\ Tail(t) \in Seq(S) /\ Len(Tail(t)) = Len(t) - 1
      /\ Len(t) \in Nat \ {0} /\ Len(s) \in Nat
      /\ \A i \in 1..Len(Tail(t)) : Tail(t)[i] = t[i + 1]
      /\ t[1] = Head(t)
  OBVIOUS
<1>2. /\ h \in Seq(S) /\ Len(h) = Len(s) + 1
      /\ \A i \in 1..Len(s) : h[i] = s[i]
      /\ h[Len(s) + 1] = t[1]
  BY <1>1
<1> HIDE DEF h
<1>3. /\ a \in Seq(S) /\ Len(a) = Len(h) + Len(Tail(t))
      /\ \A i \in 1..Len(a) : a[i] = IF i <= Len(h) THEN h[i] ELSE Tail(t)[i - Len(h)]
  BY <1>1, <1>2, Concatenated
<1>4. /\ b \in Seq(S) /\ Len(b) = Len(s) + Len(t)
      /\ \A i \in 1..Len(b) : b[i] = IF i <= Len(s) THEN s[i] ELSE t[i - Len(s)]
  BY Concatenated
<1> HIDE DEF a, b
<1>5. Len(a) = Len(b)
  BY <1>1, <1>2, <1>3, <1>4
<1>6. ASSUME NEW i \in 1..Len(a) PROVE a[i] = b[i]
  <2>1. i \in Nat /\ i >= 1 /\ i <= Len(s) + Len(t) /\ i \in 1..Len(b)
    BY <1>1, <1>2, <1>3, <1>4, <1>5
  <2>2. CASE i <= Len(s)
    <3>1. i <= Len(h) /\ i \in 1..Len(s)
      BY <1>1, <1>2, <2>1, <2>2
    <3> QED
      BY <1>2, <1>3, <1>4, <2>1, <2>2, <3>1
  <2>3. CASE i = Len(s) + 1
    <3>1. i <= Len(h) /\ ~(i <= Len(s)) /\ i - Len(s) = 1
      BY <1>1, <1>2, <2>3
    <3> QED
      BY <1>2, <1>3, <1>4, <2>1, <2>3, <3>1
  <2>4. CASE i > Len(s) + 1
    <3>1. /\ ~(i <= Len(h)) /\ ~(i <= Len(s)) /\ i - Len(h) \in 1..Len(Tail(t))
          /\ (i - Len(h)) + 1 = i - Len(s)
      BY <1>1, <1>2, <2>1, <2>4
    <3> QED
      BY <1>1, <1>3, <1>4, <2>1, <3>1
  <2> QED
    BY <1>1, <2>1, <2>2, <2>3, <2>4
<1>7. a = b
  BY <1>3, <1>4, <1>5, <1>6, Equal
<1> QED
  BY <1>7 DEF a, b, h

----------------------------------------------------------------------------
(* How a connection begins and ends *)

\* A step of another connection.
Same(d) ==
    /\ phase'[d] = phase[d] /\ reader'[d] = reader[d] /\ writer'[d] = writer[d]
    /\ kinds'[d] = kinds[d] /\ told'[d] = told[d] /\ internal'[d] = internal[d]
    /\ ack'[d] = ack[d] /\ clipq'[d] = clipq[d]

LEMMA SameSound ==
    ASSUME NEW d, Lifecycle(d), Membership(d), WelcomeFirst(d), ErrorLast(d), Same(d),
           d \in clients => d \in clients'
    PROVE  Lifecycle(d)' /\ Membership(d)' /\ WelcomeFirst(d)' /\ ErrorLast(d)'
<1>1. Lifecycle(d)'
  BY DEF Lifecycle, Same
<1>2. Membership(d)'
  BY DEF Membership, Same, Active
<1>3. WelcomeFirst(d)' /\ ErrorLast(d)'
  BY DEF WelcomeFirst, ErrorLast, Same
<1> QED
  BY <1>1, <1>2, <1>3

LEMMA ConnectionSteps ==
    ASSUME TypeOK, NEW c \in Conns,
           \/ Handler(c)
           \/ Writer(c)
           \/ Departure(c)
           \/ \E type \in FrameTypes : ReadPublish(c, type)
    PROVE  /\ \A d \in Conns \ {c} : Same(d)
           /\ UNCHANGED <<clients, lastClip, ack, missed>>
<1>1. CASE Handler(c)
  BY <1>1 DEF Same, TypeOK, HubTypeOK, hubVars, Handler, Upgrade, UpgradeFails, Register,
              ReceiveAck, TaskEndObserved, Deregister, Return
<1>2. CASE Writer(c)
  BY <1>2 DEF Same, TypeOK, HubTypeOK, hubVars, Writer, Written, WriteInternal, InternalClosed,
              PollPastInternal, WriteClip, ClipClosed, WriteChunk, PollAgain
<1>3. CASE Departure(c)
  BY <1>3 DEF Same, TypeOK, HubTypeOK, hubVars, Departure, ReadBadFrame, ReadEnds, SinkFails
<1>4. CASE \E type \in FrameTypes : ReadPublish(c, type)
  BY <1>4 DEF Same, ReadPublish
<1> QED
  BY <1>1, <1>2, <1>3, <1>4

\* Hence only the connection that moves needs to be looked at.
LEMMA OwnSound ==
    ASSUME Sound, NEW c \in Conns, \A d \in Conns \ {c} : Same(d), UNCHANGED clients,
           Lifecycle(c)', Membership(c)', WelcomeFirst(c)', ErrorLast(c)'
    PROVE  Sound'
<1>1. ASSUME NEW d \in Conns
      PROVE  Lifecycle(d)' /\ Membership(d)' /\ WelcomeFirst(d)' /\ ErrorLast(d)'
  <2>1. CASE d = c
    BY <2>1
  <2>2. CASE d # c
    BY <2>2, SameSound DEF Sound
  <2> QED
    BY <2>1, <2>2
<1> QED
  BY <1>1 DEF Sound

LEMMA HandlerSound ==
    ASSUME IInv, Sound, NEW c \in Conns, Handler(c)
    PROVE  Sound'
<1>1. TypeOK /\ SessionInv /\ HubNeverRefuses
  BY DEF IInv
<1>2. \A d \in Conns \ {c} : Same(d)
  BY <1>1, ConnectionSteps
<1>3. UNCHANGED <<clients, lastClip, ack, missed>>
  BY <1>1, ConnectionSteps
<1>4. Lifecycle(c) /\ Membership(c) /\ WelcomeFirst(c) /\ ErrorLast(c)
  BY DEF Sound
<1>5. phase[c] \in {"none", "upgrading"} => ack[c].result = "none"
  BY <1>1 DEF SessionInv, RegisterInv
<1>6. CASE ~ReceiveAck(c)
  <2>1. /\ UNCHANGED <<internal, reader, writer, kinds, told, clipq>>
        /\ \/ phase[c] = "none" /\ phase'[c] = "upgrading"
           \/ phase[c] = "upgrading" /\ phase'[c] = "gone"
           \/ phase[c] = "upgrading" /\ phase'[c] = "registering"
           \/ phase[c] = "serving" /\ phase'[c] = "deregistering"
           \/ phase[c] = "deregistering" /\ phase'[c] = "returning"
           \/ phase[c] = "returning" /\ phase'[c] = "gone"
    BY <1>1, <1>6 DEF TypeOK, Handler, Upgrade, UpgradeFails, Register, TaskEndObserved,
                      Deregister, Return, hubVars
  <2>2. Lifecycle(c)'
    BY <1>3, <1>4, <2>1 DEF Lifecycle
  <2>3. Membership(c)'
    BY <1>3, <1>4, <1>5, <2>1 DEF Membership, Active
  <2>4. WelcomeFirst(c)' /\ ErrorLast(c)'
    BY <1>4, <2>1 DEF WelcomeFirst, ErrorLast
  <2> QED
    BY <1>2, <1>3, <2>2, <2>3, <2>4, OwnSound
<1>7. CASE ReceiveAck(c)
  <2>1. ack[c].result = "Accepted"
    BY <1>1, <1>7 DEF ReceiveAck, HubNeverRefuses, TypeOK, HubTypeOK, Acks
  <2>2. /\ writer[c] = "none" /\ kinds[c] = << >> /\ told[c] = << >> /\ internal[c] = << >>
        /\ phase[c] = "registering"
    BY <1>4, <1>7 DEF ReceiveAck, Lifecycle
  <2>3. /\ phase'[c] = "serving" /\ writer'[c] = "idle" /\ reader'[c] = "running"
        /\ internal'[c] = <<Wire("welcome", ack[c].lastClip)>>
        /\ UNCHANGED <<kinds, told, clipq>>
    BY <1>1, <1>7, <2>1, <2>2 DEF ReceiveAck, TypeOK, hubVars
  <2>4. Lifecycle(c)'
    BY <1>3, <2>1, <2>2, <2>3 DEF Lifecycle
  <2>5. Membership(c)'
    BY <1>3, <1>4, <2>1, <2>2, <2>3 DEF Membership, Active
  <2>6. WelcomeFirst(c)' /\ ErrorLast(c)'
    <3>1. internal'[c][1].kind = "welcome" /\ Len(internal'[c]) = 1 /\ kinds'[c] = << >>
      BY <2>2, <2>3 DEF Wire
    <3> QED
      BY <3>1 DEF WelcomeFirst, ErrorLast
  <2> QED
    BY <1>2, <1>3, <2>4, <2>5, <2>6, OwnSound
<1> QED
  BY <1>6, <1>7

LEMMA ReadPublishSound ==
    ASSUME IInv, Sound, NEW c \in Conns, NEW type \in FrameTypes, ReadPublish(c, type)
    PROVE  Sound'
<1>1. \A d \in Conns : Same(d)
  BY DEF Same, ReadPublish
<1>2. UNCHANGED clients
  BY DEF ReadPublish
<1> QED
  BY <1>1, <1>2, SameSound DEF Sound

LEMMA DepartureSound ==
    ASSUME IInv, Sound, NEW c \in Conns, Departure(c)
    PROVE  Sound'
<1>1. TypeOK
  BY DEF IInv
<1>2. \A d \in Conns \ {c} : Same(d)
  BY <1>1, ConnectionSteps
<1>3. UNCHANGED <<clients, ack, phase, kinds, told, clipq>>
  BY DEF Departure, ReadBadFrame, ReadEnds, SinkFails, hubVars
<1>4. Lifecycle(c) /\ Membership(c) /\ WelcomeFirst(c) /\ ErrorLast(c)
  BY DEF Sound
<1>5. Membership(c)'
  BY <1>3, <1>4 DEF Membership, Active
<1>6. CASE ReadBadFrame(c)
  <2> DEFINE q == internal[c]
             e == Wire("error", NoClip)
  <2>1. /\ reader[c] = "running" /\ reader'[c] = "rejected" /\ writer' = writer
        /\ internal'[c] = Append(q, e)
    BY <1>1, <1>6 DEF ReadBadFrame, TypeOK
  <2>2. writer[c] # "none"
    BY <1>4, <2>1 DEF Lifecycle
  <2>3. q \in Seq(WireFrames) /\ e \in WireFrames /\ e.kind = "error"
    BY <1>1 DEF TypeOK, Wire, WireFrames
  <2> HIDE DEF q, e
  <2>4. /\ internal'[c] # << >> /\ Len(q) \in Nat
        /\ Len(internal'[c]) = Len(q) + 1
        /\ \A i \in 1..Len(q) : internal'[c][i] = q[i]
        /\ internal'[c][Len(q) + 1] = e
    BY <2>1, <2>3
  <2>5. Lifecycle(c)'
    BY <1>3, <1>4, <2>1, <2>2, <2>4 DEF Lifecycle
  <2>6. WelcomeFirst(c)'
    <3>1. \A i \in 1..Len(q) : q[i].kind = "welcome" <=> i = 1 /\ kinds[c] = << >>
      BY <1>4 DEF WelcomeFirst, q
    <3>2. q # << >> \/ kinds[c] # << >>
      BY <1>4, <2>2 DEF Lifecycle, q
    <3>3. ASSUME NEW i \in 1..Len(internal'[c])
          PROVE  internal'[c][i].kind = "welcome" <=> i = 1 /\ kinds[c] = << >>
      <4>1. CASE i \in 1..Len(q)
        BY <2>4, <3>1, <4>1
      <4>2. CASE i = Len(q) + 1
        <5>1. i = 1 => q = << >>
          BY <2>3, <2>4, <4>2
        <5> QED
          BY <2>3, <2>4, <3>2, <4>2, <5>1
      <4> QED
        BY <2>4, <4>1, <4>2
    <3> QED
      BY <1>3, <1>4, <3>3 DEF WelcomeFirst
  <2>7. ErrorLast(c)'
    BY <1>3, <1>4, <2>1 DEF ErrorLast
  <2> QED
    BY <1>2, <1>3, <1>5, <2>5, <2>6, <2>7, OwnSound
<1>7. CASE ReadEnds(c) \/ SinkFails(c)
  <2>1. /\ UNCHANGED internal
        /\ \/ reader[c] = "running" /\ writer' = writer
           \/ writer[c] # "none" /\ writer'[c] = "broken" /\ reader' = reader
    BY <1>1, <1>7 DEF ReadEnds, SinkFails, TypeOK
  <2>2. Lifecycle(c)'
    BY <1>3, <1>4, <2>1 DEF Lifecycle
  <2>3. WelcomeFirst(c)' /\ ErrorLast(c)'
    BY <1>3, <1>4, <2>1 DEF WelcomeFirst, ErrorLast
  <2> QED
    BY <1>2, <1>3, <1>5, <2>2, <2>3, OwnSound
<1> QED
  BY <1>6, <1>7 DEF Departure

\* A frame other than an error and a second welcome follows what was written.
LEMMA WrittenKinds ==
    ASSUME TypeOK, NEW c \in Conns, NEW kind \in {"welcome", "clip", "chunk", "error"}, NEW clips,
           Written(c, kind, clips)
    PROVE  /\ kinds'[c] # << >> /\ Len(kinds[c]) \in Nat /\ Len(kinds'[c]) = Len(kinds[c]) + 1
           /\ \A i \in 1..Len(kinds[c]) : kinds'[c][i] = kinds[c][i]
           /\ kinds'[c][Len(kinds[c]) + 1] = kind
           /\ kinds[c] = << >> <=> Len(kinds[c]) = 0
<1>1. kinds[c] \in Seq({"welcome", "clip", "chunk", "error"}) /\ kinds'[c] = Append(kinds[c], kind)
  BY DEF TypeOK, Written
<1> QED
  BY <1>1

LEMMA WriterSound ==
    ASSUME IInv, Sound, NEW c \in Conns, Writer(c)
    PROVE  Sound'
<1>1. TypeOK
  BY DEF IInv
<1>2. \A d \in Conns \ {c} : Same(d)
  BY <1>1, ConnectionSteps
<1>3. UNCHANGED <<clients, ack, phase, reader>>
  BY DEF Writer, WriteInternal, InternalClosed, PollPastInternal, WriteClip, ClipClosed,
         WriteChunk, PollAgain, hubVars
<1>4. Lifecycle(c) /\ Membership(c) /\ WelcomeFirst(c) /\ ErrorLast(c)
  BY DEF Sound
<1>5. writer[c] \in {"idle", "polling"} /\ writer'[c] \in {"idle", "polling", "ended"}
  BY <1>1 DEF TypeOK, Writer, WriteInternal, InternalClosed, PollPastInternal, WriteClip,
              ClipClosed, WriteChunk, PollAgain
<1>6. Membership(c)'
  <2>1. clipq[c] = << >> => clipq'[c] = << >>
    BY <1>1 DEF Writer, WriteInternal, InternalClosed, PollPastInternal, WriteClip, ClipClosed,
                WriteChunk, PollAgain, hubVars
  <2> QED
    BY <1>3, <1>4, <2>1 DEF Membership, Active
<1>7. CASE WriteInternal(c)
  <2> DEFINE q == internal[c]
             f == Head(q)
  <2>1. /\ Written(c, f.kind, Bodies(f.body)) /\ q # << >> /\ internal'[c] = Tail(q)
        /\ writer'[c] = IF f.kind = "error" THEN "ended" ELSE "idle"
    BY <1>1, <1>7 DEF WriteInternal, TypeOK
  <2>2. q \in Seq(WireFrames) /\ f \in WireFrames
    BY <1>1, <2>1 DEF TypeOK
  <2>3. f.kind \in {"welcome", "error"} /\ f.kind \in {"welcome", "clip", "chunk", "error"}
    BY <2>2 DEF WireFrames
  <2>4. /\ Len(q) \in Nat \ {0} /\ 1 \in 1..Len(q) /\ q[1] = f
        /\ Len(internal'[c]) = Len(q) - 1
        /\ \A i \in 1..Len(internal'[c]) : internal'[c][i] = q[i + 1]
    BY <2>1, <2>2
  <2>5. \A i \in 1..Len(q) : q[i].kind = "welcome" <=> i = 1 /\ kinds[c] = << >>
    BY <1>4 DEF WelcomeFirst
  <2> HIDE DEF q, f
  <2>6. f.kind = "welcome" <=> kinds[c] = << >>
    BY <2>4, <2>5
  <2>7. /\ kinds'[c] # << >> /\ Len(kinds[c]) \in Nat /\ Len(kinds'[c]) = Len(kinds[c]) + 1
        /\ \A i \in 1..Len(kinds[c]) : kinds'[c][i] = kinds[c][i]
        /\ kinds'[c][Len(kinds[c]) + 1] = f.kind
        /\ kinds[c] = << >> <=> Len(kinds[c]) = 0
    BY <1>1, <2>1, <2>3, WrittenKinds
  <2>8. WelcomeFirst(c)'
    <3>1. ASSUME NEW i \in 1..Len(kinds'[c]) PROVE kinds'[c][i] = "welcome" <=> i = 1
      <4>1. CASE i \in 1..Len(kinds[c])
        BY <1>4, <2>7, <4>1 DEF WelcomeFirst
      <4>2. CASE i = Len(kinds[c]) + 1
        BY <2>6, <2>7, <4>2
      <4> QED
        BY <2>7, <4>1, <4>2
    <3>2. ASSUME NEW i \in 1..Len(internal'[c]) PROVE internal'[c][i].kind # "welcome"
      <4>1. i + 1 \in 1..Len(q) /\ i + 1 # 1
        BY <2>4
      <4> QED
        BY <2>4, <2>5, <4>1
    <3> QED
      BY <2>7, <3>1, <3>2 DEF WelcomeFirst
  <2>9. Lifecycle(c)'
    BY <1>3, <1>4, <1>5, <2>1, <2>7 DEF Lifecycle
  <2>10. ErrorLast(c)'
    <3>1. SUFFICES ASSUME writer'[c] \in {"idle", "polling"}, NEW i \in 1..Len(kinds'[c])
                   PROVE  kinds'[c][i] # "error"
      BY DEF ErrorLast
    <3>2. f.kind # "error"
      BY <2>1, <3>1
    <3>3. \A k \in 1..Len(kinds[c]) : kinds[c][k] # "error"
      BY <1>4, <1>5 DEF ErrorLast
    <3>4. i \in 1..Len(kinds[c]) \/ i = Len(kinds[c]) + 1
      BY <2>7
    <3> QED
      BY <2>7, <3>2, <3>3, <3>4
  <2> QED
    BY <1>2, <1>3, <1>6, <2>8, <2>9, <2>10, OwnSound
<1>8. CASE WriteClip(c) \/ WriteChunk(c)
  <2>1. PICK kind \in {"clip", "chunk"}, clips \in {<<Head(clipq[c])>>, << >>} :
            /\ Written(c, kind, clips) /\ writer[c] = "polling" /\ writer'[c] = "idle"
            /\ internal' = internal
    BY <1>1, <1>8 DEF WriteClip, WriteChunk, TypeOK
  <2>2. kinds[c] # << >>
    BY <1>4, <2>1 DEF Lifecycle
  <2>3. /\ kinds'[c] # << >> /\ Len(kinds[c]) \in Nat /\ Len(kinds'[c]) = Len(kinds[c]) + 1
        /\ \A i \in 1..Len(kinds[c]) : kinds'[c][i] = kinds[c][i]
        /\ kinds'[c][Len(kinds[c]) + 1] = kind
        /\ Len(kinds[c]) # 0
    BY <1>1, <2>1, <2>2, WrittenKinds
  <2>4. \A i \in 1..Len(kinds'[c]) : i \in 1..Len(kinds[c]) \/ i = Len(kinds[c]) + 1
    BY <2>3
  <2>5. WelcomeFirst(c)'
    <3>1. ASSUME NEW i \in 1..Len(kinds'[c]) PROVE kinds'[c][i] = "welcome" <=> i = 1
      <4>1. CASE i \in 1..Len(kinds[c])
        BY <1>4, <2>3, <4>1 DEF WelcomeFirst
      <4>2. CASE i = Len(kinds[c]) + 1
        BY <2>3, <4>2
      <4> QED
        BY <2>4, <4>1, <4>2
    <3> QED
      BY <1>4, <2>1, <2>2, <2>3, <3>1 DEF WelcomeFirst
  <2>6. Lifecycle(c)'
    BY <1>3, <1>4, <2>1, <2>3 DEF Lifecycle
  <2>7. ErrorLast(c)'
    BY <1>4, <2>1, <2>3, <2>4 DEF ErrorLast
  <2> QED
    BY <1>2, <1>3, <1>6, <2>5, <2>6, <2>7, OwnSound
<1>9. CASE InternalClosed(c) \/ PollPastInternal(c) \/ ClipClosed(c) \/ PollAgain(c)
  <2>1. /\ UNCHANGED <<internal, kinds, told>>
        /\ writer'[c] = "polling" => internal[c] = << >>
    BY <1>1, <1>9 DEF InternalClosed, PollPastInternal, ClipClosed, PollAgain, TypeOK
  <2>2. Lifecycle(c)'
    BY <1>3, <1>4, <1>5, <2>1 DEF Lifecycle
  <2>3. WelcomeFirst(c)' /\ ErrorLast(c)'
    BY <1>4, <1>5, <2>1 DEF WelcomeFirst, ErrorLast
  <2> QED
    BY <1>2, <1>3, <1>6, <2>2, <2>3, OwnSound
<1> QED
  BY <1>7, <1>8, <1>9 DEF Writer

\* FanOut feeds only clients, which were answered.
LEMMA HubTurnSound ==
    ASSUME IInv, Sound, HubTurn
    PROVE  Sound'
<1>1. TypeOK /\ SessionInv /\ HubNeverRefuses
  BY DEF IInv
<1>2. HubStep(Listening) /\ UNCHANGED <<phase, internal, reader, writer, kinds, told>>
  BY DEF HubTurn, connVars
<1>3. \A d \in clients : d \in Conns /\ ack[d].result = "Accepted"
  BY <1>1 DEF SessionInv, DeregisterInv, TypeOK, HubTypeOK
<1>4. ASSUME NEW d \in Conns
      PROVE  Lifecycle(d)' /\ Membership(d)' /\ WelcomeFirst(d)' /\ ErrorLast(d)'
  <2>1. Lifecycle(d) /\ Membership(d) /\ WelcomeFirst(d) /\ ErrorLast(d)
    BY DEF Sound
  <2>2. WelcomeFirst(d)' /\ ErrorLast(d)'
    BY <1>2, <2>1 DEF WelcomeFirst, ErrorLast
  <2>3. \/ ack'[d] = ack[d]
        \/ /\ phase[d] = "registering" /\ ack[d].result = "none"
           /\ ack'[d].result # "none"
           /\ ack'[d].result = "Accepted" => d \in clients'
    <3>1. CASE HandleRegister
      <4>1. IsRegister(1, Head(inbox).conn) /\ 1 \in 1..Len(inbox) /\ Head(inbox).conn \in Conns
        BY <1>1, <3>1, DequeueShift DEF HandleRegister
      <4>2. phase[Head(inbox).conn] = "registering" /\ ack[Head(inbox).conn].result = "none"
        BY <1>1, <4>1 DEF SessionInv, RegisterInv
      <4>3. ack \in [Conns -> Acks]
        BY <1>1 DEF TypeOK, HubTypeOK
      <4> QED
        BY <3>1, <4>2, <4>3 DEF HandleRegister
    <3>2. CASE ~HandleRegister
      BY <1>2, <3>2 DEF HubStep, HandleDeregister, HandlePublish, HandlePublishFile
    <3> QED
      BY <3>1, <3>2
  <2>4. Lifecycle(d)'
    BY <1>2, <2>1, <2>3 DEF Lifecycle
  <2>5. d \in clients \/ clipq'[d] = clipq[d]
    BY <1>2 DEF HubStep, HandleRegister, HandleDeregister, HandlePublish, HandlePublishFile, FanOut
  <2>6. d \in clients /\ phase[d] \in Active => d \in clients'
    <3>1. CASE HandleDeregister
      <4>1. IsDeregister(1, Head(inbox).conn) /\ 1 \in 1..Len(inbox) /\ Head(inbox).conn \in Conns
        BY <1>1, <3>1, DequeueShift DEF HandleDeregister
      <4>2. phase[Head(inbox).conn] \notin Active
        BY <1>1, <4>1 DEF SessionInv, DeregisterInv, Active
      <4> QED
        BY <3>1, <4>2 DEF HandleDeregister
    <3>2. CASE ~HandleDeregister
      BY <1>2, <3>2 DEF HubStep, HandleRegister, HandlePublish, HandlePublishFile
    <3> QED
      BY <3>1, <3>2
  <2>7. Membership(d)'
    BY <1>2, <1>3, <2>1, <2>3, <2>5, <2>6 DEF Membership, Active
  <2> QED
    BY <2>2, <2>4, <2>7
<1> QED
  BY <1>4 DEF Sound

----------------------------------------------------------------------------
(* The numbers of the frames in the inbox *)

LEMMA NumberedSent ==
    ASSUME IInv, Numbered, NEW type, NEW d \in Conns, NEW n,
           Enqueue(type, d, n), [type |-> type, conn |-> d, n |-> n] \in Messages,
           UNCHANGED lastClip, published' \in Nat, published <= published',
           \A c \in Conns : reader[c] # "none" => reader'[c] # "none",
           type \in {"Publish", "PublishFile"} =>
               n = published + 1 /\ published' = n /\ reader[d] # "none"
    PROVE  Numbered'
<1> PICK k \in Nat : k = Len(inbox) + 1
  BY EnqueueFacts DEF IInv, TypeOK
<1> DEFINE m == [type |-> type, conn |-> d, n |-> n]
<1>1. /\ Len(inbox) \in Nat /\ Len(inbox') = k
      /\ \A i \in 1..Len(inbox) : inbox'[i] = inbox[i]
      /\ inbox'[k] = m
      /\ inbox \in Seq(Messages)
  BY EnqueueFacts DEF IInv, TypeOK, HubTypeOK
<1>2. m.type = type /\ m.conn = d /\ m.n = n
  OBVIOUS
<1> HIDE DEF m
<1>3. \A i \in 1..Len(inbox) : inbox[i].n \in Nat /\ inbox[i].conn \in Conns
  <2>1. \A i \in 1..Len(inbox) : inbox[i] \in Messages
    BY <1>1
  <2>2. \A x \in Messages : x.n \in Nat /\ x.conn \in Conns
    BY ConstantsAssumption DEF Messages
  <2> QED
    BY <2>1, <2>2
<1>4. published \in Nat /\ (lastClip # NoClip => lastClip.n \in Nat /\ lastClip.from \in Conns)
  BY ConstantsAssumption DEF IInv, TypeOK, HubTypeOK, Frames
<1>5. \A i \in 1..Len(inbox') : i \in 1..Len(inbox) \/ i = k
  BY <1>1
<1>6. \A i \in 1..Len(inbox) : IsFrame(i)' <=> IsFrame(i)
  BY <1>1 DEF IsFrame
<1>7. IsFrame(k)' => n = published + 1 /\ published' = n /\ reader[d] # "none"
  BY <1>1, <1>2 DEF IsFrame
<1>8. ASSUME NEW i \in 1..Len(inbox'), IsFrame(i)'
      PROVE  /\ inbox'[i].n <= published' /\ reader'[inbox'[i].conn] # "none"
             /\ lastClip # NoClip => lastClip.n < inbox'[i].n
  <2>1. CASE i \in 1..Len(inbox)
    <3>1. /\ inbox[i].n <= published /\ reader[inbox[i].conn] # "none"
          /\ lastClip # NoClip => lastClip.n < inbox[i].n
      BY <1>6, <1>8, <2>1 DEF Numbered
    <3> QED
      BY <1>1, <1>3, <1>4, <2>1, <3>1
  <2>2. CASE i = k
    <3>1. n = published + 1 /\ published' = n /\ reader[d] # "none"
      BY <1>7, <1>8, <2>2
    <3>2. lastClip # NoClip => lastClip.n <= published
      BY DEF Numbered
    <3> QED
      BY <1>1, <1>2, <1>4, <2>2, <3>1, <3>2
  <2> QED
    BY <1>5, <2>1, <2>2
<1>9. ASSUME NEW i \in 1..Len(inbox'), NEW j \in 1..Len(inbox'), i < j, IsFrame(i)', IsFrame(j)'
      PROVE  inbox'[i].n < inbox'[j].n
  <2>1. i \in 1..Len(inbox)
    BY <1>1, <1>9
  <2>2. CASE j \in 1..Len(inbox)
    BY <1>1, <1>6, <1>9, <2>1, <2>2 DEF Numbered
  <2>3. CASE j = k
    <3>1. n = published + 1
      BY <1>7, <1>9, <2>3
    <3>2. inbox[i].n <= published
      BY <1>6, <1>9, <2>1 DEF Numbered
    <3> QED
      BY <1>1, <1>2, <1>3, <1>4, <2>1, <2>3, <3>1, <3>2
  <2> QED
    BY <1>5, <2>2, <2>3
<1>10. lastClip # NoClip => lastClip.n <= published' /\ reader'[lastClip.from] # "none"
  <2>1. lastClip # NoClip => lastClip.n <= published /\ reader[lastClip.from] # "none"
    BY DEF Numbered
  <2> QED
    BY <1>4, <2>1
<1> QED
  BY <1>8, <1>9, <1>10 DEF Numbered

LEMMA NumberedHub ==
    ASSUME IInv, Numbered, HubTurn
    PROVE  Numbered'
<1> DEFINE m == Head(inbox)
<1>1. HubTypeOK /\ TypeOK /\ SessionInv /\ HubStep(Listening) /\ UNCHANGED <<reader, published>>
  BY DEF IInv, TypeOK, HubTurn, connVars
<1>2. PICK type : Dequeue(type)
  BY <1>1, HubStepEffect DEF HubEffect
<1>3. /\ Len(inbox) \in Nat \ {0} /\ Len(inbox') = Len(inbox) - 1
      /\ \A i \in 1..Len(inbox') : inbox'[i] = inbox[i + 1]
      /\ inbox[1] = m /\ m.type = type
  BY <1>1, <1>2, DequeueFacts
<1>4. \A i \in 1..Len(inbox') : i + 1 \in 1..Len(inbox) /\ (IsFrame(i)' <=> IsFrame(i + 1))
  BY <1>3 DEF IsFrame
<1>5. \/ lastClip' = lastClip
      \/ m.type = "Publish" /\ lastClip' = [n |-> m.n, from |-> m.conn]
  BY <1>1 DEF HubStep, HandleRegister, HandleDeregister, HandlePublish, HandlePublishFile, Dequeue
<1> HIDE DEF m
<1>6. CASE lastClip' = lastClip
  <2>1. ASSUME NEW i \in 1..Len(inbox'), IsFrame(i)'
        PROVE  /\ inbox'[i].n <= published /\ reader[inbox'[i].conn] # "none"
               /\ lastClip # NoClip => lastClip.n < inbox'[i].n
    BY <1>3, <1>4, <2>1 DEF Numbered
  <2>2. ASSUME NEW i \in 1..Len(inbox'), NEW j \in 1..Len(inbox'), i < j, IsFrame(i)', IsFrame(j)'
        PROVE  inbox'[i].n < inbox'[j].n
    <3>1. i + 1 < j + 1
      BY <1>3, <2>2
    <3> QED
      BY <1>3, <1>4, <2>2, <3>1 DEF Numbered
  <2>3. lastClip # NoClip => lastClip.n <= published /\ reader[lastClip.from] # "none"
    BY DEF Numbered
  <2> QED
    BY <1>1, <1>6, <2>1, <2>2, <2>3 DEF Numbered
<1>7. CASE m.type = "Publish" /\ lastClip' = [n |-> m.n, from |-> m.conn]
  <2>1. 1 \in 1..Len(inbox) /\ IsFrame(1) /\ lastClip'.n = inbox[1].n /\ lastClip'.from = inbox[1].conn
    BY <1>3, <1>7 DEF IsFrame
  <2>2. ASSUME NEW i \in 1..Len(inbox'), IsFrame(i)'
        PROVE  /\ inbox'[i].n <= published /\ reader[inbox'[i].conn] # "none"
               /\ lastClip'.n < inbox'[i].n
    <3>1. 1 < i + 1
      BY <1>3
    <3> QED
      BY <1>3, <1>4, <2>1, <2>2, <3>1 DEF Numbered
  <2>3. ASSUME NEW i \in 1..Len(inbox'), NEW j \in 1..Len(inbox'), i < j, IsFrame(i)', IsFrame(j)'
        PROVE  inbox'[i].n < inbox'[j].n
    <3>1. i + 1 < j + 1
      BY <1>3, <2>3
    <3> QED
      BY <1>3, <1>4, <2>3, <3>1 DEF Numbered
  <2>4. lastClip'.n <= published /\ reader[lastClip'.from] # "none"
    BY <2>1 DEF Numbered
  <2> QED
    BY <1>1, <2>2, <2>3, <2>4 DEF Numbered
<1> QED
  BY <1>5, <1>6, <1>7

LEMMA NumberedElsewhere ==
    ASSUME Numbered, TypeOK, TypeOK', UNCHANGED <<inbox, lastClip, published>>,
           \A c \in Conns : reader[c] # "none" => reader'[c] # "none"
    PROVE  Numbered'
<1>1. /\ \A i \in 1..Len(inbox) : inbox[i].conn \in Conns
      /\ lastClip # NoClip => lastClip.from \in Conns
  <2>1. inbox \in Seq(Messages) /\ lastClip \in Frames \cup {NoClip}
    BY DEF TypeOK, HubTypeOK
  <2>2. \A i \in 1..Len(inbox) : inbox[i] \in Messages
    BY <2>1
  <2> QED
    BY <2>1, <2>2 DEF Messages, Frames
<1>2. \A i \in 1..Len(inbox) : IsFrame(i)' <=> IsFrame(i)
  BY DEF IsFrame
<1> QED
  BY <1>1, <1>2 DEF Numbered

----------------------------------------------------------------------------
(* The tasks of a connection change no feed *)

\* The part of a feed that has left the hub's queue.
Handed(c) ==
    IF kinds[c] = << >> /\ internal[c] = << >> THEN Snapshot(c) ELSE told[c] \o Owed(c)

LEMMA FeedParts == \A c \in Conns : Feed(c) = Handed(c) \o clipq[c]
  BY DEF Feed, Handed

LEMMA FrameBody ==
    ASSUME NEW q \in Seq(WireFrames), q # << >>
    PROVE  /\ Head(q).body \in Frames \cup {NoClip}
           /\ q[1].kind # "welcome" => Bodies(Head(q).body) = << >>
<1>1. Head(q) \in WireFrames /\ q[1] = Head(q)
  OBVIOUS
<1> QED
  BY <1>1 DEF WireFrames, Bodies

LEMMA FeedTypes ==
    ASSUME TypeOK, NEW c \in Conns
    PROVE  /\ Snapshot(c) \in Seq(Frames) /\ Owed(c) \in Seq(Frames) /\ Handed(c) \in Seq(Frames)
           /\ told[c] \in Seq(Frames) /\ clipq[c] \in Seq(Frames) /\ Feed(c) \in Seq(Frames)
<1>1. told[c] \in Seq(Frames) /\ clipq[c] \in Seq(Frames) /\ internal[c] \in Seq(WireFrames)
  BY DEF TypeOK, HubTypeOK
<1>2. Snapshot(c) \in Seq(Frames)
  <2>1. ack[c].lastClip \in Frames \cup {NoClip}
    BY DEF TypeOK, HubTypeOK, Acks
  <2> QED
    BY <2>1, BodiesType DEF Snapshot
<1>3. Owed(c) \in Seq(Frames)
  <2>1. CASE internal[c] = << >>
    BY <2>1 DEF Owed
  <2>2. CASE internal[c] # << >>
    <3>1. Bodies(Head(internal[c]).body) \in Seq(Frames)
      BY <1>1, <2>2, FrameBody, BodiesType
    <3> QED
      BY <2>2, <3>1 DEF Owed
  <2> QED
    BY <2>1, <2>2
<1>4. told[c] \o Owed(c) \in Seq(Frames)
  BY <1>1, <1>3
<1>5. Handed(c) \in Seq(Frames)
  BY <1>2, <1>4 DEF Handed
<1>6. Handed(c) \o clipq[c] \in Seq(Frames)
  BY <1>1, <1>5
<1> QED
  BY <1>1, <1>2, <1>3, <1>5, <1>6, FeedParts

\* Once something was written, only errors wait in the internal channel.
LEMMA NothingOwed ==
    ASSUME TypeOK, NEW c \in Conns, WelcomeFirst(c), kinds[c] # << >>
    PROVE  Owed(c) = << >>
<1>1. internal[c] \in Seq(WireFrames)
  BY DEF TypeOK
<1>2. internal[c] # << >> => internal[c][1].kind # "welcome"
  BY <1>1 DEF WelcomeFirst
<1> QED
  BY <1>1, <1>2, FrameBody DEF Owed

LEMMA SameFeed ==
    ASSUME NEW d, Same(d)
    PROVE  Feed(d)' = Feed(d)
  BY DEF Same, Feed, Snapshot, Owed, Bodies

LEMMA WelcomeKeepsFeed ==
    ASSUME IInv, Sound, NEW c \in Conns, ReceiveAck(c)
    PROVE  Feed(c)' = Feed(c)
<1>1. TypeOK /\ HubNeverRefuses
  BY DEF IInv
<1>2. ack[c].result = "Accepted"
  BY <1>1 DEF ReceiveAck, HubNeverRefuses, TypeOK, HubTypeOK, Acks
<1>3. kinds[c] = << >> /\ told[c] = << >> /\ internal[c] = << >>
  BY DEF ReceiveAck, Sound, Lifecycle
<1>4. /\ internal'[c] = <<Wire("welcome", ack[c].lastClip)>>
      /\ UNCHANGED <<kinds, told, clipq>>
  BY <1>1, <1>2, <1>3 DEF ReceiveAck, TypeOK, hubVars
<1>5. Owed(c)' = Snapshot(c) /\ internal'[c] # << >>
  BY <1>4 DEF Owed, Snapshot, Wire, Bodies
<1>6. Handed(c) = Snapshot(c)
  BY <1>3 DEF Handed
<1>7. Handed(c)' = told'[c] \o Owed(c)'
  BY <1>5 DEF Handed
<1>8. Handed(c)' = Handed(c)
  BY <1>1, <1>3, <1>4, <1>5, <1>6, <1>7, FeedTypes, Neutral
<1>9. Feed(c)' = Handed(c)' \o clipq'[c]
  BY DEF Feed, Handed
<1> QED
  BY <1>4, <1>8, <1>9, FeedParts

LEMMA BadFrameKeepsFeed ==
    ASSUME IInv, Sound, NEW c \in Conns, ReadBadFrame(c)
    PROVE  Feed(c)' = Feed(c)
<1> DEFINE e == Wire("error", NoClip)
           q == internal[c]
<1>1. TypeOK /\ q \in Seq(WireFrames) /\ e \in WireFrames
  BY DEF IInv, TypeOK, Wire, WireFrames
<1>2. /\ internal'[c] = Append(q, e) /\ reader[c] = "running"
      /\ UNCHANGED <<kinds, told, clipq, ack>>
  BY <1>1 DEF ReadBadFrame, TypeOK, hubVars
<1>3. kinds[c] # << >> \/ q # << >>
  BY <1>2 DEF Sound, Lifecycle
<1>4. e.body = NoClip /\ Bodies(e.body) = << >>
  BY DEF Wire, Bodies
<1>5. Owed(c) = IF q = << >> THEN << >> ELSE Bodies(Head(q).body)
  BY DEF Owed
<1>6. Owed(c)' = IF internal'[c] = << >> THEN << >> ELSE Bodies(Head(internal'[c]).body)
  BY DEF Owed, Bodies
<1> HIDE DEF e, q
<1>7. internal'[c] # << >> /\ Head(internal'[c]) = IF q = << >> THEN e ELSE Head(q)
  BY <1>1, <1>2
<1>8. Owed(c)' = Owed(c)
  BY <1>4, <1>5, <1>6, <1>7
<1>9. Handed(c) = told[c] \o Owed(c)
  BY <1>3 DEF Handed, q
<1>10. Handed(c)' = told'[c] \o Owed(c)'
  BY <1>7 DEF Handed
<1>11. Feed(c)' = Handed(c)' \o clipq'[c]
  BY DEF Feed, Handed
<1> QED
  BY <1>2, <1>8, <1>9, <1>10, <1>11, FeedParts

\* The frames of the writer: what leaves a channel is written.
LEMMA WriterKeepsFeed ==
    ASSUME IInv, Sound, Sound', TypeOK', NEW c \in Conns, Writer(c)
    PROVE  Feed(c)' = Feed(c)
<1>1. TypeOK /\ WelcomeFirst(c) /\ WelcomeFirst(c)' /\ Lifecycle(c)
  BY DEF IInv, Sound
<1>2. /\ told[c] \in Seq(Frames) /\ clipq[c] \in Seq(Frames)
      /\ internal[c] \in Seq(WireFrames) /\ internal'[c] \in Seq(WireFrames)
      /\ Owed(c) \in Seq(Frames)
  BY <1>1, FeedTypes DEF TypeOK
<1>3. ack' = ack
  BY DEF Writer, WriteInternal, InternalClosed, PollPastInternal, WriteClip, ClipClosed,
         WriteChunk, PollAgain, hubVars
<1>4. ASSUME kinds'[c] # << >>
      PROVE  Feed(c)' = told'[c] \o clipq'[c]
  <2>1. internal'[c] # << >> => internal'[c][1].kind # "welcome"
    BY <1>1, <1>2, <1>4 DEF WelcomeFirst
  <2>2. Owed(c)' = << >>
    BY <1>2, <2>1, FrameBody DEF Owed, Bodies
  <2>3. told'[c] \in Seq(Frames)
    BY DEF TypeOK
  <2>4. told'[c] \o << >> = told'[c]
    BY <2>3, Neutral
  <2>5. Feed(c)' = (told'[c] \o Owed(c)') \o clipq'[c]
    BY <1>4 DEF Feed
  <2> QED
    BY <2>2, <2>4, <2>5
<1>5. CASE WriteInternal(c)
  <2> DEFINE f == Head(internal[c])
  <2>1. Written(c, f.kind, Bodies(f.body)) /\ internal[c] # << >> /\ clipq' = clipq
    BY <1>5 DEF WriteInternal, hubVars
  <2>2. /\ Owed(c) = Bodies(f.body)
        /\ Handed(c) = told[c] \o Owed(c)
    BY <2>1 DEF Owed, Handed
  <2>3. /\ told'[c] = told[c] \o Bodies(f.body)
        /\ kinds'[c] = Append(kinds[c], f.kind)
    BY <1>1, <2>1 DEF Written, TypeOK
  <2>4. kinds'[c] # << >>
    <3>1. f \in WireFrames
      BY <1>2, <2>1
    <3>2. f.kind \in {"welcome", "clip", "chunk", "error"}
      BY <3>1 DEF WireFrames
    <3> QED
      BY <1>1, <2>1, <3>2, WrittenKinds
  <2> QED
    BY <1>4, <2>1, <2>2, <2>3, <2>4, FeedParts
<1>6. CASE WriteClip(c)
  <2> DEFINE h == Head(clipq[c])
  <2>1. /\ Written(c, "clip", <<h>>) /\ clipq[c] # << >> /\ writer[c] = "polling"
        /\ clipq'[c] = Tail(clipq[c])
    BY <1>1, <1>6 DEF WriteClip, TypeOK, HubTypeOK
  <2>2. kinds[c] # << >> /\ Owed(c) = << >>
    BY <1>1, <2>1, NothingOwed DEF Lifecycle
  <2>3. Handed(c) = told[c]
    BY <1>2, <2>2, Neutral DEF Handed
  <2>4. told'[c] = told[c] \o <<h>>
    BY <1>1, <2>1 DEF Written, TypeOK
  <2>5. kinds'[c] # << >>
    BY <1>1, <2>1, WrittenKinds
  <2>6. (told[c] \o <<h>>) \o Tail(clipq[c]) = told[c] \o clipq[c]
    BY <1>2, <2>1, MovedOver
  <2> QED
    BY <1>4, <2>1, <2>3, <2>4, <2>5, <2>6, FeedParts
<1>7. CASE WriteChunk(c)
  <2>1. Written(c, "chunk", << >>) /\ writer[c] = "polling" /\ clipq' = clipq
    BY <1>7 DEF WriteChunk
  <2>2. kinds[c] # << >> /\ Owed(c) = << >>
    BY <1>1, <2>1, NothingOwed DEF Lifecycle
  <2>3. Handed(c) = told[c]
    BY <1>2, <2>2, Neutral DEF Handed
  <2>4. told'[c] = told[c] \o << >>
    BY <1>1, <2>1 DEF Written, TypeOK
  <2>5. told'[c] = told[c]
    BY <1>2, <2>4, Neutral
  <2>6. kinds'[c] # << >>
    BY <1>1, <2>1, WrittenKinds
  <2> QED
    BY <1>4, <2>1, <2>3, <2>5, <2>6, FeedParts
<1>8. CASE InternalClosed(c) \/ PollPastInternal(c) \/ ClipClosed(c) \/ PollAgain(c)
  <2>1. UNCHANGED <<kinds, told, internal, clipq>>
    BY <1>8 DEF InternalClosed, PollPastInternal, ClipClosed, PollAgain, hubVars
  <2> QED
    BY <1>3, <2>1 DEF Feed, Snapshot, Owed, Bodies
<1> QED
  BY <1>5, <1>6, <1>7, <1>8 DEF Writer

LEMMA ConnectionKeepsFeeds ==
    ASSUME IInv, Sound, Sound', TypeOK', NEW c \in Conns,
           \/ Handler(c)
           \/ Writer(c)
           \/ Departure(c)
           \/ \E type \in FrameTypes : ReadPublish(c, type)
    PROVE  \A d \in Conns : Feed(d)' = Feed(d)
<1>1. TypeOK
  BY DEF IInv
<1>2. \A d \in Conns \ {c} : Feed(d)' = Feed(d)
  <2>1. \A d \in Conns \ {c} : Same(d)
    BY <1>1, ConnectionSteps
  <2> QED
    BY <2>1, SameFeed
<1>3. Feed(c)' = Feed(c)
  <2>1. CASE ReceiveAck(c)
    BY <2>1, WelcomeKeepsFeed
  <2>2. CASE ReadBadFrame(c)
    BY <2>2, BadFrameKeepsFeed
  <2>3. CASE Writer(c)
    BY <2>3, WriterKeepsFeed
  <2>4. CASE ~ReceiveAck(c) /\ ~ReadBadFrame(c) /\ ~Writer(c)
    <3>1. UNCHANGED <<kinds, told, internal, clipq, ack>>
      BY <2>4 DEF Handler, Upgrade, UpgradeFails, Register, TaskEndObserved, Deregister, Return,
                  Departure, ReadEnds, SinkFails, ReadPublish, hubVars
    <3> QED
      BY <3>1 DEF Feed, Snapshot, Owed, Bodies
  <2> QED
    BY <2>1, <2>2, <2>3, <2>4
<1> QED
  BY <1>2, <1>3

----------------------------------------------------------------------------
(* What the hub's turns do to the feeds *)

SameFeeds == \A d \in Conns : Feed(d)' = Feed(d)

Joins(c) ==
    /\ c \notin clients /\ Cardinality(clients) < MaxConns
    /\ Feed(c) = << >>
    /\ clients' = clients \cup {c}
    /\ UNCHANGED <<lastClip, missed>>
    /\ Feed(c)' = Bodies(lastClip)
    /\ lastClip # NoClip => lastClip.from # c
    /\ \A d \in Conns \ {c} : Feed(d)' = Feed(d)

Leaves ==
    /\ \/ clients' = clients
       \/ \E c \in clients : clients' = clients \ {c}
    /\ UNCHANGED <<lastClip, missed>>
    /\ SameFeeds

Relays(clip, reached) ==
    /\ lastClip' = clip
    /\ lastClip # NoClip => lastClip.n < clip.n
    /\ reached \in SUBSET (clients \ {clip.from})
    /\ \A c \in clients : c = clip.from \/ c \in missed' \/ c \in reached \/ WriterDone(c)
    /\ clients' = clients
    /\ \A c \in Conns : Feed(c)' = IF c \in reached THEN Append(Feed(c), clip) ELSE Feed(c)

RelayStep ==
    \/ \E c \in Conns : Joins(c)
    \/ Leaves
    \/ \E clip \in Frames, reached \in SUBSET Conns : Relays(clip, reached)

LEMMA JoinStep ==
    ASSUME IInv, Sound, Numbered, HubTurn, HandleRegister
    PROVE  \E c \in Conns : Joins(c)
<1>1. TypeOK /\ SessionInv /\ ClaimInv /\ UNCHANGED <<kinds, told, internal>>
  BY DEF IInv, HubTurn, connVars
<1> PICK c \in Conns : c = Head(inbox).conn
  BY <1>1, DequeueShift DEF HandleRegister
<1>2. IsRegister(1, c) /\ 1 \in 1..Len(inbox)
  BY <1>1, DequeueShift DEF HandleRegister
<1>3. phase[c] = "registering" /\ ack[c].result = "none" /\ c \notin clients
  BY <1>1, <1>2 DEF SessionInv, RegisterInv
<1>4. /\ reader[c] = "none" /\ kinds[c] = << >> /\ internal[c] = << >> /\ clipq[c] = << >>
      /\ ack[c].lastClip = NoClip
  BY <1>2, <1>3 DEF Sound, Lifecycle, Membership
<1>5. Cardinality(clients) < MaxConns /\ Cardinality(clients) \in Nat
  BY <1>1, RoomForRegister, ConnSets DEF TypeOK, HubTypeOK
<1>6. /\ clients' = clients \cup {c} /\ UNCHANGED <<lastClip, clipq, missed>>
      /\ ack' = [ack EXCEPT ![c] = [result |-> "Accepted", lastClip |-> lastClip]]
  BY <1>5, ConstantsAssumption DEF HandleRegister
<1>7. ack'[c].lastClip = lastClip /\ \A d \in Conns \ {c} : ack'[d] = ack[d]
  BY <1>1, <1>2, <1>6 DEF TypeOK, HubTypeOK
<1>8. Feed(c) = << >>
  BY <1>4, Neutral DEF Feed, Snapshot, Bodies
<1>9. Feed(c)' = Bodies(lastClip) \o << >>
  <2>1. Snapshot(c)' = Bodies(lastClip)
    BY <1>7 DEF Snapshot, Bodies
  <2>2. kinds'[c] = << >> /\ internal'[c] = << >> /\ clipq'[c] = << >>
    BY <1>1, <1>4, <1>6
  <2>3. Feed(c)' = Snapshot(c)' \o clipq'[c]
    BY <2>2 DEF Feed
  <2> QED
    BY <2>1, <2>2, <2>3
<1>10. Feed(c)' = Bodies(lastClip)
  <2>1. Bodies(lastClip) \in Seq(Frames)
    BY <1>1, BodiesType DEF TypeOK, HubTypeOK
  <2> QED
    BY <1>9, <2>1, Neutral
<1>11. \A d \in Conns \ {c} : Feed(d)' = Feed(d)
  <2>1. SUFFICES ASSUME NEW d \in Conns \ {c} PROVE Feed(d)' = Feed(d)
    OBVIOUS
  <2>2. Snapshot(d)' = Snapshot(d)
    BY <1>7 DEF Snapshot, Bodies
  <2>3. Owed(d)' = Owed(d)
    BY <1>1 DEF Owed, Bodies
  <2> QED
    BY <1>1, <1>6, <2>2, <2>3 DEF Feed
<1>12. lastClip # NoClip => lastClip.from # c
  BY <1>4 DEF Numbered
<1> QED
  BY <1>3, <1>5, <1>6, <1>8, <1>10, <1>11, <1>12 DEF Joins

LEMMA RelayedClip ==
    ASSUME IInv, Sound, Numbered, HubTurn, HandlePublish(Listening)
    PROVE  \E clip \in Frames, reached \in SUBSET Conns : Relays(clip, reached)
<1> DEFINE m == Head(inbox)
           clip == [n |-> m.n, from |-> m.conn]
           reached == {c \in (clients \ {clip.from}) \cap Listening : Len(clipq[c]) < ClipCap}
<1>1. TypeOK /\ HubTypeOK /\ Dequeue("Publish") /\ UNCHANGED <<kinds, told, internal>>
  BY DEF IInv, TypeOK, HubTurn, connVars, HandlePublish
<1>2. /\ Len(inbox) \in Nat \ {0} /\ inbox[1] = m /\ m \in Messages /\ m.type = "Publish"
  BY <1>1, DequeueFacts
<1>3. clip \in Frames
  BY <1>2 DEF Messages, Frames
<1>4. lastClip # NoClip => lastClip.n < clip.n
  BY <1>2 DEF Numbered, IsFrame
<1>5. /\ lastClip' = clip /\ UNCHANGED <<clients, ack>>
      /\ clipq' = FanOut(clipq, clip, ClipCap, Listening)
      /\ missed' = {c \in clients \ {clip.from} : Len(clipq[c]) >= ClipCap}
  BY DEF HandlePublish
<1> HIDE DEF clip
<1>6. reached \in SUBSET (clients \ {clip.from}) /\ clients \subseteq Conns
  BY <1>1 DEF HubTypeOK
<1>7. \A c \in Conns : clipq'[c] = IF c \in reached THEN Append(clipq[c], clip) ELSE clipq[c]
  BY <1>5 DEF FanOut
<1>8. ASSUME NEW c \in clients
      PROVE  c = clip.from \/ c \in missed' \/ c \in reached \/ WriterDone(c)
  <2>1. clipq[c] \in Seq(Frames)
    BY <1>1, <1>6 DEF HubTypeOK
  <2>2. Len(clipq[c]) < ClipCap \/ Len(clipq[c]) >= ClipCap
    BY <2>1, ConstantsAssumption
  <2>3. c \in Listening \/ WriterDone(c)
    BY <1>6 DEF Listening
  <2> QED
    BY <1>5, <2>2, <2>3
<1> HIDE DEF reached
<1>9. ASSUME NEW c \in Conns
      PROVE  Feed(c)' = IF c \in reached THEN Append(Feed(c), clip) ELSE Feed(c)
  <2>1. Feed(c) = Handed(c) \o clipq[c]
    BY FeedParts
  <2>2. Feed(c)' = Handed(c) \o clipq'[c]
    BY <1>1, <1>5 DEF Feed, Handed, Snapshot, Owed, Bodies
  <2>3. Handed(c) \o Append(clipq[c], clip) = Append(Handed(c) \o clipq[c], clip)
    BY <1>1, <1>3, FeedTypes, AppendedToWhole
  <2> QED
    BY <1>7, <2>1, <2>2, <2>3
<1>10. Relays(clip, reached)
  BY <1>4, <1>5, <1>6, <1>8, <1>9 DEF Relays
<1> QED
  BY <1>3, <1>6, <1>10

LEMMA HubRelays ==
    ASSUME IInv, Sound, Numbered, HubTurn
    PROVE  RelayStep
<1>1. TypeOK /\ HubStep(Listening) /\ UNCHANGED <<kinds, told, internal>>
  BY DEF IInv, HubTurn, connVars
<1>2. CASE HandleRegister
  BY <1>2, JoinStep DEF RelayStep
<1>3. CASE HandleDeregister
  <2>1. /\ clients' = clients \/ \E c \in clients : clients' = clients \ {c}
        /\ UNCHANGED <<lastClip, missed, ack, clipq>>
    BY <1>3 DEF HandleDeregister
  <2>2. SameFeeds
    BY <1>1, <2>1 DEF SameFeeds, Feed, Snapshot, Owed, Bodies
  <2> QED
    BY <2>1, <2>2 DEF RelayStep, Leaves
<1>4. CASE HandlePublish(Listening)
  BY <1>4, RelayedClip DEF RelayStep
<1>5. CASE HandlePublishFile(Listening)
  <2>1. UNCHANGED <<clients, lastClip, missed, ack, clipq>>
    BY <1>5 DEF HandlePublishFile
  <2>2. SameFeeds
    BY <1>1, <2>1 DEF SameFeeds, Feed, Snapshot, Owed, Bodies
  <2> QED
    BY <2>1, <2>2 DEF RelayStep, Leaves
<1> QED
  BY <1>1, <1>2, <1>3, <1>4, <1>5 DEF HubStep

----------------------------------------------------------------------------
(* What such a step preserves *)

\* A newer clip may be cached, and appended to the feed of another client.
LEMMA NewerClip ==
    ASSUME NEW c, NEW f \in Seq(Frames), NEW last \in Frames \cup {NoClip}, NEW clip \in Frames,
           Feedable(c, f, last), last # NoClip => last.n < clip.n
    PROVE  /\ Feedable(c, f, clip)
           /\ c # clip.from => Feedable(c, Append(f, clip), clip)
<1>1. clip # NoClip /\ clip.n \in Nat
  BY ConstantsAssumption DEF Frames
<1>2. \A i \in 1..Len(f) : f[i].from # c /\ f[i].n < clip.n /\ f[i].n \in Nat
  <2>1. SUFFICES ASSUME NEW i \in 1..Len(f)
                 PROVE  f[i].from # c /\ f[i].n < clip.n /\ f[i].n \in Nat
    OBVIOUS
  <2>2. f[i] \in Frames
    OBVIOUS
  <2>3. f[i].n \in Nat
    BY <2>2 DEF Frames
  <2>4. f[i].from # c /\ last # NoClip /\ f[i].n <= last.n
    BY DEF Feedable
  <2>5. last.n \in Nat
    BY <2>4 DEF Frames
  <2> QED
    BY <1>1, <2>3, <2>4, <2>5
<1>3. \A i, j \in 1..Len(f) : i < j => f[i].n < f[j].n
  BY DEF Feedable
<1>4. Feedable(c, f, clip)
  BY <1>1, <1>2, <1>3 DEF Feedable
<1>5. ASSUME c # clip.from PROVE Feedable(c, Append(f, clip), clip)
  <2> DEFINE g == Append(f, clip)
  <2>1. /\ Len(f) \in Nat /\ Len(g) = Len(f) + 1 /\ g[Len(f) + 1] = clip
        /\ \A i \in 1..Len(f) : g[i] = f[i]
    OBVIOUS
  <2> HIDE DEF g
  <2>2. \A i \in 1..Len(g) : i \in 1..Len(f) \/ i = Len(f) + 1
    BY <2>1
  <2>3. ASSUME NEW i \in 1..Len(g), NEW j \in 1..Len(g), i < j PROVE g[i].n < g[j].n
    <3>1. i \in 1..Len(f)
      BY <2>1, <2>3
    <3>2. g[i] = f[i]
      BY <2>1, <3>1
    <3>3. CASE j \in 1..Len(f)
      BY <1>3, <2>1, <2>3, <3>1, <3>2, <3>3
    <3>4. CASE j = Len(f) + 1
      BY <1>2, <2>1, <3>1, <3>2, <3>4
    <3> QED
      BY <2>2, <3>3, <3>4
  <2>4. ASSUME NEW i \in 1..Len(g) PROVE g[i].from # c /\ g[i].n <= clip.n
    <3>1. CASE i \in 1..Len(f)
      BY <1>1, <1>2, <2>1, <3>1
    <3>2. CASE i = Len(f) + 1
      BY <1>1, <1>5, <2>1, <3>2
    <3> QED
      BY <2>2, <3>1, <3>2
  <2>5. Feedable(c, g, clip)
    BY <1>1, <2>3, <2>4 DEF Feedable
  <2> QED
    BY <2>5 DEF g
<1> QED
  BY <1>4, <1>5

LEMMA FedStep ==
    ASSUME TypeOK, Fed, RelayStep
    PROVE  Fed'
<1>0. lastClip \in Frames \cup {NoClip}
  BY DEF TypeOK, HubTypeOK
<1>1. SUFFICES ASSUME NEW d \in Conns PROVE Feedable(d, Feed(d)', lastClip')
  BY DEF Fed, Feedable
<1>2. Feedable(d, Feed(d), lastClip) /\ Feed(d) \in Seq(Frames)
  BY FeedTypes DEF Fed
<1>3. ASSUME NEW c \in Conns, Joins(c) PROVE Feedable(d, Feed(d)', lastClip')
  <2>1. lastClip' = lastClip
    BY <1>3 DEF Joins
  <2>2. CASE d # c
    <3>1. Feed(d)' = Feed(d)
      BY <1>3, <2>2 DEF Joins
    <3> QED
      BY <1>2, <2>1, <3>1
  <2>3. CASE d = c /\ lastClip = NoClip
    <3>1. Feed(d)' = << >>
      BY <1>3, <2>3 DEF Joins, Bodies
    <3> QED
      BY <3>1 DEF Feedable
  <2>4. CASE d = c /\ lastClip # NoClip
    <3>1. Feed(d)' = <<lastClip>> /\ lastClip.from # d /\ lastClip.n \in Nat
      BY <1>0, <1>3, <2>4 DEF Joins, Bodies, Frames
    <3> QED
      BY <2>1, <2>4, <3>1 DEF Feedable
  <2> QED
    BY <2>2, <2>3, <2>4
<1>4. CASE Leaves
  <2>1. Feed(d)' = Feed(d) /\ lastClip' = lastClip
    BY <1>4 DEF Leaves, SameFeeds
  <2> QED
    BY <1>2, <2>1
<1>5. ASSUME NEW clip \in Frames, NEW reached \in SUBSET Conns, Relays(clip, reached)
      PROVE  Feedable(d, Feed(d)', lastClip')
  <2>1. /\ lastClip' = clip
        /\ Feed(d)' = IF d \in reached THEN Append(Feed(d), clip) ELSE Feed(d)
        /\ d \in reached => d # clip.from
    BY <1>5 DEF Relays
  <2>2. /\ Feedable(d, Feed(d), clip)
        /\ d # clip.from => Feedable(d, Append(Feed(d), clip), clip)
    BY <1>0, <1>2, <1>5, NewerClip DEF Relays
  <2> QED
    BY <2>1, <2>2
<1> QED
  BY <1>3, <1>4, <1>5 DEF RelayStep

LEMMA CurrentStep ==
    ASSUME TypeOK, Current, RelayStep, \A c \in Conns : WriterDone(c) => WriterDone(c)'
    PROVE  Current'
<1>0. lastClip \in Frames \cup {NoClip} /\ clients \subseteq Conns
  BY DEF TypeOK, HubTypeOK
<1>1. SUFFICES ASSUME NEW d \in clients' \ missed', ~WriterDone(d)', lastClip' # NoClip,
                      lastClip'.from # d
               PROVE  Feed(d)' # << >> /\ Feed(d)'[Len(Feed(d)')] = lastClip'
  BY DEF Current
<1>2. ASSUME d \in clients \ missed, lastClip' = lastClip, Feed(d)' = Feed(d)
      PROVE  Feed(d)' # << >> /\ Feed(d)'[Len(Feed(d)')] = lastClip'
  <2>1. ~WriterDone(d)
    BY <1>0, <1>1, <1>2
  <2> QED
    BY <1>1, <1>2, <2>1 DEF Current
<1>3. ASSUME NEW c \in Conns, Joins(c)
      PROVE  Feed(d)' # << >> /\ Feed(d)'[Len(Feed(d)')] = lastClip'
  <2>1. UNCHANGED <<lastClip, missed>> /\ clients' = clients \cup {c}
    BY <1>3 DEF Joins
  <2>2. CASE d # c
    <3>1. Feed(d)' = Feed(d)
      BY <1>0, <1>3, <2>1, <2>2 DEF Joins
    <3> QED
      BY <1>2, <2>1, <2>2, <3>1
  <2>3. CASE d = c
    <3>1. Feed(d)' = <<lastClip>>
      BY <1>1, <1>3, <2>1, <2>3 DEF Joins, Bodies
    <3> QED
      BY <2>1, <3>1
  <2> QED
    BY <2>2, <2>3
<1>4. CASE Leaves
  <2>1. UNCHANGED <<lastClip, missed>> /\ d \in clients
    BY <1>4 DEF Leaves
  <2>2. Feed(d)' = Feed(d)
    BY <1>0, <1>4, <2>1 DEF Leaves, SameFeeds
  <2> QED
    BY <1>2, <2>1, <2>2
<1>5. ASSUME NEW clip \in Frames, NEW reached \in SUBSET Conns, Relays(clip, reached)
      PROVE  Feed(d)' # << >> /\ Feed(d)'[Len(Feed(d)')] = lastClip'
  <2>1. lastClip' = clip /\ d \in clients /\ d \in Conns
    BY <1>0, <1>5 DEF Relays
  <2>2. d \in reached
    BY <1>1, <1>5, <2>1 DEF Relays
  <2>3. Feed(d)' = Append(Feed(d), clip) /\ Feed(d) \in Seq(Frames)
    BY <1>5, <2>1, <2>2, FeedTypes DEF Relays
  <2> DEFINE f == Feed(d)
  <2>4. f \in Seq(Frames)
    BY <2>3
  <2> HIDE DEF f
  <2>5. Append(f, clip) # << >> /\ Append(f, clip)[Len(Append(f, clip))] = clip
    BY <2>4
  <2> QED
    BY <2>1, <2>3, <2>5 DEF f
<1> QED
  BY <1>3, <1>4, <1>5 DEF RelayStep

----------------------------------------------------------------------------
(* The inductive invariant *)

\* No task ends twice, and none starts again.
LEMMA TasksOnly ==
    ASSUME IInv, Sound, [Next]_vars
    PROVE  /\ \A c \in Conns : WriterDone(c) => WriterDone(c)'
           /\ \A c \in Conns : reader[c] # "none" => reader'[c] # "none"
<1>1. TypeOK
  BY DEF IInv
<1>2. CASE HubTurn \/ UNCHANGED vars
  BY <1>2 DEF HubTurn, vars, connVars, WriterDone
<1>3. ASSUME NEW c \in Conns, NEW type \in FrameTypes, ReadPublish(c, type)
      PROVE  UNCHANGED <<reader, writer>>
  BY <1>3 DEF ReadPublish
<1>4. ASSUME NEW c \in Conns, Handler(c) \/ Writer(c) \/ Departure(c)
      PROVE  \A d \in Conns : /\ WriterDone(d) => WriterDone(d)'
                              /\ reader[d] # "none" => reader'[d] # "none"
  <2>1. \A d \in Conns \ {c} : Same(d)
    BY <1>1, <1>4, ConnectionSteps
  <2>2. ASSUME NEW d \in Conns \ {c}
        PROVE  /\ WriterDone(d) => WriterDone(d)'
               /\ reader[d] # "none" => reader'[d] # "none"
    BY <2>1 DEF Same, WriterDone
  <2>3. CASE ReceiveAck(c)
    <3>1. writer[c] = "none" /\ reader[c] = "none"
      BY <2>3 DEF ReceiveAck, Sound, Lifecycle
    <3> QED
      BY <2>2, <3>1 DEF WriterDone
  <2>4. CASE Handler(c) /\ ~ReceiveAck(c)
    <3>1. UNCHANGED <<reader, writer>>
      BY <2>4 DEF Handler, Upgrade, UpgradeFails, Register, TaskEndObserved, Deregister, Return
    <3> QED
      BY <3>1 DEF WriterDone
  <2>5. CASE Writer(c)
    <3>1. ~WriterDone(c) /\ UNCHANGED reader
      BY <2>5 DEF Writer, WriteInternal, InternalClosed, PollPastInternal, WriteClip, ClipClosed,
                  WriteChunk, PollAgain, WriterDone
    <3> QED
      BY <2>2, <3>1
  <2>6. CASE ReadBadFrame(c) \/ ReadEnds(c)
    <3>1. UNCHANGED writer /\ reader'[c] # "none"
      BY <1>1, <2>6 DEF ReadBadFrame, ReadEnds, TypeOK
    <3> QED
      BY <2>2, <3>1 DEF WriterDone
  <2>7. CASE SinkFails(c)
    <3>1. ~WriterDone(c) /\ UNCHANGED reader
      BY <2>7 DEF SinkFails, WriterDone
    <3> QED
      BY <2>2, <3>1
  <2> QED
    BY <1>4, <2>3, <2>4, <2>5, <2>6, <2>7 DEF Departure
<1> QED
  BY <1>2, <1>3, <1>4 DEF Next, WriterDone

LEMMA SoundStep ==
    ASSUME IInv, Sound, [Next]_vars
    PROVE  Sound'
<1>1. CASE UNCHANGED vars
  BY <1>1 DEF vars, hubVars, connVars, Sound, Lifecycle, Membership, Active, WelcomeFirst, ErrorLast
<1> QED
  BY <1>1, HubTurnSound, HandlerSound, WriterSound, ReadPublishSound, DepartureSound DEF Next

LEMMA NumberedStep ==
    ASSUME IInv, Sound, Numbered, TypeOK', [Next]_vars
    PROVE  Numbered'
<1>1. TypeOK /\ published \in Nat /\ published' \in Nat
  BY ConstantsAssumption DEF IInv, TypeOK
<1>2. \A c \in Conns : reader[c] # "none" => reader'[c] # "none"
  BY TasksOnly DEF WriterDone
<1>3. ASSUME NEW c \in Conns, Register(c) \/ Deregister(c) PROVE Numbered'
  <2>1. PICK type \in {"Register", "Deregister"} :
            Enqueue(type, c, 0) /\ UNCHANGED <<lastClip, published>>
    BY <1>3 DEF Register, Deregister
  <2>2. [type |-> type, conn |-> c, n |-> 0] \in Messages
    BY DEF Messages
  <2> QED
    BY <1>1, <1>2, <2>1, <2>2, NumberedSent
<1>4. ASSUME NEW c \in Conns, NEW type \in FrameTypes, ReadPublish(c, type) PROVE Numbered'
  <2>1. /\ Enqueue(type, c, published + 1) /\ published' = published + 1 /\ published < MaxFrames
        /\ UNCHANGED lastClip /\ reader[c] # "none"
    BY <1>4 DEF ReadPublish
  <2>2. [type |-> type, conn |-> c, n |-> published + 1] \in Messages
    BY <1>1, <2>1, ConstantsAssumption, ClientsAssumption DEF Messages
  <2> QED
    BY <1>1, <1>2, <2>1, <2>2, NumberedSent
<1>5. ASSUME UNCHANGED <<inbox, lastClip, published>> PROVE Numbered'
  BY <1>1, <1>2, <1>5, NumberedElsewhere
<1>6. ASSUME NEW c \in Conns,
             \/ Handler(c) /\ ~Register(c) /\ ~Deregister(c)
             \/ Writer(c)
             \/ Departure(c)
      PROVE  Numbered'
  <2>1. UNCHANGED <<inbox, lastClip, published>>
    BY <1>6 DEF Handler, Upgrade, UpgradeFails, ReceiveAck, TaskEndObserved, Return,
                Writer, WriteInternal, InternalClosed, PollPastInternal, WriteClip, ClipClosed,
                WriteChunk, PollAgain, Departure, ReadBadFrame, ReadEnds, SinkFails, hubVars
  <2> QED
    BY <1>5, <2>1
<1>7. CASE UNCHANGED vars
  BY <1>5, <1>7 DEF vars, hubVars, connVars
<1> QED
  BY <1>3, <1>4, <1>6, <1>7, NumberedHub DEF Next

\* Every step of the server is one of the relay, or leaves every feed alone.
LEMMA NextRelays ==
    ASSUME IInv, StreamInv, Sound', TypeOK', [Next]_vars
    PROVE  RelayStep
<1>1. TypeOK /\ Sound /\ Numbered
  BY DEF IInv, StreamInv
<1>2. ASSUME NEW c \in Conns,
             \/ Handler(c)
             \/ Writer(c)
             \/ Departure(c)
             \/ \E type \in FrameTypes : ReadPublish(c, type)
      PROVE  RelayStep
  <2>1. UNCHANGED <<clients, lastClip, missed>>
    BY <1>1, <1>2, ConnectionSteps
  <2>2. SameFeeds
    BY <1>1, <1>2, ConnectionKeepsFeeds DEF SameFeeds
  <2> QED
    BY <2>1, <2>2 DEF RelayStep, Leaves
<1>3. CASE UNCHANGED vars
  <2>1. UNCHANGED <<clients, lastClip, missed, kinds, told, internal, ack, clipq>>
    BY <1>3 DEF vars, hubVars, connVars
  <2>2. SameFeeds
    BY <2>1 DEF SameFeeds, Feed, Snapshot, Owed, Bodies
  <2> QED
    BY <2>1, <2>2 DEF RelayStep, Leaves
<1> QED
  BY <1>1, <1>2, <1>3, HubRelays DEF Next

LEMMA InitStream == Init => StreamInv
<1> SUFFICES ASSUME Init PROVE StreamInv
  OBVIOUS
<1>1. Sound
  BY DEF Init, HubInit, NoAck, Sound, Lifecycle, Membership, Active, WelcomeFirst, ErrorLast
<1>2. Numbered
  BY DEF Init, HubInit, Numbered
<1>3. ASSUME NEW c \in Conns PROVE Feed(c) = << >>
  <2>1. Snapshot(c) = << >> /\ clipq[c] = << >> /\ kinds[c] = << >> /\ internal[c] = << >>
    BY DEF Init, HubInit, NoAck, Snapshot, Bodies
  <2> QED
    BY <2>1, Neutral DEF Feed
<1>4. Fed
  BY <1>3 DEF Fed, Feedable
<1>5. Current
  BY DEF Init, HubInit, Current
<1> QED
  BY <1>1, <1>2, <1>4, <1>5 DEF StreamInv

LEMMA StreamStep ==
    ASSUME IInv, StreamInv, [Next]_vars
    PROVE  IInv' /\ StreamInv' /\ RelayStep
<1>1. IInv' /\ TypeOK /\ TypeOK'
  BY StepInv DEF IInv
<1>2. Sound /\ Numbered /\ Fed /\ Current
  BY DEF StreamInv
<1>3. Sound' /\ Numbered'
  BY <1>1, <1>2, SoundStep, NumberedStep
<1>4. RelayStep
  BY <1>1, <1>3, NextRelays
<1>5. Fed'
  BY <1>1, <1>2, <1>4, FedStep
<1>6. Current'
  <2>1. \A c \in Conns : WriterDone(c) => WriterDone(c)'
    BY <1>2, TasksOnly DEF WriterDone
  <2> QED
    BY <1>1, <1>2, <1>4, <2>1, CurrentStep
<1> QED
  BY <1>1, <1>3, <1>4, <1>5, <1>6 DEF StreamInv

\* The sequence every client is fed increases, is never its own, and ends with
\* the cached clip unless the client's queue was full at that clip.
THEOREM StreamInvariant == Spec => [](IInv /\ StreamInv)
<1>1. Init => IInv /\ StreamInv
  BY InitInv, InitStream
<1>2. IInv /\ StreamInv /\ [Next]_vars => (IInv /\ StreamInv)'
  BY StreamStep
<1> QED
  BY <1>1, <1>2, PTL DEF Spec

----------------------------------------------------------------------------
(* The theorems *)

\* What a client has been told, and is still owed, comes from others and in the
\* order they published it in: the hub answers a registration and enters the
\* client into its map in one turn, so that no clip is both in the welcome and
\* relayed, or in neither.
THEOREM StreamOrdered == Spec => []StreamInOrder
<1>1. ASSUME IInv, StreamInv PROVE StreamInOrder
  <2>1. SUFFICES ASSUME NEW c \in Conns
                 PROVE  Feedable(c, (told[c] \o Owed(c)) \o clipq[c], lastClip) /\ WelcomeFirst(c)
    BY DEF StreamInOrder, Feedable
  <2>2. TypeOK /\ Lifecycle(c) /\ WelcomeFirst(c) /\ Feedable(c, Feed(c), lastClip)
    BY <1>1 DEF IInv, StreamInv, Sound, Fed
  <2>3. CASE kinds[c] = << >> /\ internal[c] = << >>
    <3> DEFINE s == Snapshot(c)
               q == clipq[c]
    <3>1. told[c] = << >> /\ Owed(c) = << >>
      BY <2>2, <2>3 DEF Lifecycle, Owed
    <3>2. s \in Seq(Frames) /\ q \in Seq(Frames) /\ Feed(c) = s \o q
      BY <2>2, <2>3, FeedTypes DEF Feed
    <3>3. (told[c] \o Owed(c)) \o q = q
      BY <3>1, <3>2, Neutral
    <3>4. Feedable(c, s \o q, lastClip)
      BY <2>2, <3>2
    <3> HIDE DEF s, q
    <3>5. /\ Len(s) \in Nat /\ Len(q) \in Nat /\ Len(s \o q) = Len(s) + Len(q)
          /\ \A i \in 1..Len(q) : i + Len(s) \in 1..Len(s \o q) /\ (s \o q)[i + Len(s)] = q[i]
      <4>1. /\ Len(s) \in Nat /\ Len(q) \in Nat /\ Len(s \o q) = Len(s) + Len(q)
            /\ \A i \in 1..Len(s \o q) : (s \o q)[i] = IF i <= Len(s) THEN s[i] ELSE q[i - Len(s)]
        BY <3>2, Concatenated
      <4>2. ASSUME NEW i \in 1..Len(q)
            PROVE  /\ i + Len(s) \in 1..Len(s \o q) /\ ~(i + Len(s) <= Len(s))
                   /\ (i + Len(s)) - Len(s) = i
        BY <4>1
      <4> QED
        BY <4>1, <4>2
    <3>6. Feedable(c, q, lastClip)
      <4>1. ASSUME NEW i \in 1..Len(q), NEW j \in 1..Len(q), i < j PROVE q[i].n < q[j].n
        <5>1. i + Len(s) < j + Len(s)
          BY <3>5, <4>1
        <5> QED
          BY <3>4, <3>5, <5>1 DEF Feedable
      <4> QED
        BY <3>4, <3>5, <4>1 DEF Feedable
    <3> QED
      BY <2>2, <3>3, <3>6 DEF q
  <2>4. CASE ~(kinds[c] = << >> /\ internal[c] = << >>)
    BY <2>2, <2>4 DEF Feed
  <2> QED
    BY <2>3, <2>4
<1> QED
  BY <1>1, StreamInvariant, PTL

\* Whoever has drained its queue was last told the clip the hub caches: try_send
\* loses a clip only to a full queue, and that client is in missed.
THEOREM PeersConverged == Spec => []PeersConverge
<1>1. ASSUME IInv, StreamInv PROVE PeersConverge
  <2>1. SUFFICES ASSUME lastClip # NoClip, NEW c \in Conns \ missed, Drained(c), lastClip.from # c
                 PROVE  told[c] # << >> /\ told[c][Len(told[c])] = lastClip
    BY DEF PeersConverge
  <2>2. TypeOK /\ Lifecycle(c) /\ Membership(c) /\ Current
    BY <1>1 DEF IInv, StreamInv, Sound
  <2>3. phase[c] = "serving" /\ ~WriterDone(c) /\ internal[c] = << >> /\ clipq[c] = << >>
    BY <2>1 DEF Drained
  <2>4. kinds[c] # << >> /\ c \in clients
    BY <2>2, <2>3 DEF Lifecycle, Membership, Active
  <2>5. Feed(c) = (told[c] \o << >>) \o << >>
    BY <2>3, <2>4 DEF Feed, Owed
  <2>6. told[c] \in Seq(Frames)
    BY <2>2, FeedTypes
  <2>7. Feed(c) = told[c]
    BY <2>5, <2>6, Neutral
  <2> QED
    BY <2>1, <2>2, <2>3, <2>4, <2>7 DEF Current
<1> QED
  BY <1>1, StreamInvariant, PTL

\* The writer closes the socket behind an error frame: nothing follows it.
THEOREM ErrorIsLast == Spec => NothingAfterError
<1>1. ASSUME IInv, StreamInv, [Next]_vars
      PROVE  [\A c \in Conns :
                 kinds'[c] # kinds[c] \/ told'[c] # told[c] =>
                     /\ ~WriterDone(c)
                     /\ \A i \in 1..Len(kinds[c]) : kinds[c][i] # "error"]_vars
  <2>1. SUFFICES ASSUME NEW c \in Conns, kinds'[c] # kinds[c] \/ told'[c] # told[c]
                 PROVE  writer[c] \in {"idle", "polling"}
    BY <1>1 DEF StreamInv, Sound, ErrorLast, WriterDone
  <2>2. TypeOK
    BY <1>1 DEF IInv
  <2>3. ~HubTurn /\ ~UNCHANGED vars
    BY <2>1 DEF HubTurn, vars, connVars
  <2>4. \A d \in Conns, type \in FrameTypes : ~ReadPublish(d, type)
    BY <2>1 DEF ReadPublish
  <2>5. \A d \in Conns : ~Handler(d) /\ ~Departure(d)
    BY <2>1 DEF Handler, Upgrade, UpgradeFails, Register, ReceiveAck, TaskEndObserved, Deregister,
                Return, Departure, ReadBadFrame, ReadEnds, SinkFails
  <2>6. PICK d \in Conns : Writer(d)
    BY <1>1, <2>3, <2>4, <2>5 DEF Next
  <2>7. d = c
    BY <2>1, <2>2, <2>6, ConnectionSteps DEF Same
  <2> QED
    BY <2>6, <2>7 DEF Writer, WriteInternal, InternalClosed, PollPastInternal, WriteClip,
                      ClipClosed, WriteChunk, PollAgain
<1> QED
  BY <1>1, StreamInvariant, PTL DEF Spec, NothingAfterError

\* Seen from its clients, the hub with all its tasks and queues is a register
\* with one ordered feed per member: every turn of Hub::run is one step of
\* ClipRelay or none, and no step of a connection is visible.
THEOREM RefinesClipRelay == Spec => ImplementsClipRelay
<1>1. Init => Relay!Init
  <2> SUFFICES ASSUME Init PROVE Relay!Init
    OBVIOUS
  <2>1. \A c \in Conns : Feed(c) = << >>
    BY DEF Init, HubInit, NoAck, Feed, Snapshot, Bodies
  <2> QED
    BY <2>1 DEF Init, HubInit, Relay!Init
<1>2. ASSUME IInv, StreamInv, [Next]_vars PROVE [Relay!Next]_(Relay!relayVars)
  <2>1. RelayStep /\ clients \subseteq Conns
    BY <1>2, StreamStep DEF IInv, TypeOK, HubTypeOK
  <2>2. ASSUME NEW c \in Conns, Joins(c) PROVE Relay!Join(c)
    <3>1. Feed(c)' = IF lastClip = NoClip THEN << >> ELSE <<lastClip>>
      BY <2>2 DEF Joins, Bodies
    <3>2. [d \in Conns |-> Feed(d)'] = [[d \in Conns |-> Feed(d)] EXCEPT ![c] = Feed(c)']
      BY <2>2 DEF Joins
    <3>3. Relay!Cardinality(clients) = Cardinality(clients)
      BY DEF Relay!Cardinality, Cardinality, Relay!IsFiniteSet, IsFiniteSet
    <3> QED
      BY <2>2, <3>1, <3>2, <3>3 DEF Joins, Relay!Join
  <2>3. CASE Leaves
    <3>1. [d \in Conns |-> Feed(d)'] = [d \in Conns |-> Feed(d)] /\ lastClip' = lastClip
      BY <2>3 DEF Leaves, SameFeeds
    <3>2. CASE clients' = clients
      BY <3>1, <3>2 DEF Relay!relayVars
    <3>3. ASSUME NEW c \in clients, clients' = clients \ {c} PROVE Relay!Leave(c)
      BY <3>1, <3>3 DEF Relay!Leave
    <3> QED
      BY <2>1, <2>3, <3>2, <3>3 DEF Leaves, Relay!Next
  <2>4. ASSUME NEW clip \in Frames, NEW reached \in SUBSET Conns, Relays(clip, reached)
        PROVE  Relay!Publish(clip)
    <3>1. [d \in Conns |-> Feed(d)'] =
             [d \in Conns |-> IF d \in reached THEN Append([e \in Conns |-> Feed(e)][d], clip)
                              ELSE [e \in Conns |-> Feed(e)][d]]
      BY <2>4 DEF Relays
    <3> QED
      BY <2>4, <3>1 DEF Relays, Relay!Publish
  <2> QED
    BY <2>1, <2>2, <2>3, <2>4 DEF RelayStep, Relay!Next
<1> QED
  BY <1>1, <1>2, StreamInvariant, PTL DEF Spec, ImplementsClipRelay, Relay!Spec

=============================================================================
