---------------------------- MODULE Sync_proofs ----------------------------
(***************************************************************************)
(* Theorems about Sync, for any machines, values, copies, connections and  *)
(* queue sizes: the types, NoEcho, FreshCopiesReported and                 *)
(* CalmCopiesArrive.                                                       *)
(*                                                                         *)
(* NoEcho is not inductive: a thread may yet report what its clipboard     *)
(* offers and it has not seen.  IInv charges that to the copies in         *)
(* advance.  FreshCopiesReported is, given the types.  CalmCopiesArrive is *)
(* of states in which all is quiet; Calm says what holds on the way there. *)
(***************************************************************************)
EXTENDS Sync, FiniteSetTheorems, TLAPS

\* What was reported, and what the thread would report if it polled until it
\* has seen everything, was all copied.
Charged(k) == reports[k] + Cardinality(Unseen(k)) <= offered[k]

IInv ==
    /\ TypeOK
    /\ \A k \in Clients : Charged(k)

USE SyncAssumption, ThreadAssumption

----------------------------------------------------------------------------
(* Media are few *)

LEMMA MediaFacts ==
    /\ IsFiniteSet(Media)
    /\ \A S \in SUBSET Media : IsFiniteSet(S) /\ Cardinality(S) \in Nat
    /\ \A S \in SUBSET Media : \A T \in SUBSET S : Cardinality(T) <= Cardinality(S)
<1>1. Media = (({} \cup {"files"}) \cup {"image"}) \cup {"text"}
  BY DEF Media
<1>2. IsFiniteSet(Media)
  BY <1>1, FS_EmptySet, FS_AddElement
<1>3. \A S \in SUBSET Media : IsFiniteSet(S)
  BY <1>2, FS_Subset
<1>4. \A S \in SUBSET Media : Cardinality(S) \in Nat
  BY <1>3, FS_CardinalityType
<1>5. \A S \in SUBSET Media : \A T \in SUBSET S : Cardinality(T) <= Cardinality(S)
  BY <1>3, FS_Subset
<1> QED
  BY <1>2, <1>3, <1>4, <1>5

LEMMA UnseenCount ==
    \A k \in Clients : Unseen(k) \in SUBSET Media /\ Cardinality(Unseen(k)) \in Nat
BY MediaFacts DEF Unseen

LEMMA UnseenCountNext ==
    \A k \in Clients : Unseen(k)' \in SUBSET Media /\ Cardinality(Unseen(k)') \in Nat
BY MediaFacts DEF Unseen

LEMMA OnlyType ==
    ASSUME NEW m \in Media, NEW v \in Values
    PROVE  /\ Only(m, v) \in Offer
           /\ Blank \in Offer
           /\ \A n \in Media : Only(m, v)[n] = IF n = m THEN v ELSE None
BY DEF Only, Blank, Offer

----------------------------------------------------------------------------
(* Steps that leave the clipboards and the counters alone *)

\* Nothing is charged to k by a step that changes neither its clipboard, nor
\* what its thread has seen, nor its counts.
LEMMA ChargeKept ==
    ASSUME NEW k \in Clients, Charged(k),
           os'[k] = os[k], seen'[k] = seen[k],
           reports'[k] = reports[k], offered'[k] = offered[k]
    PROVE  Charged(k)'
<1>1. Unseen(k)' = Unseen(k)
  BY DEF Unseen
<1> QED
  BY <1>1 DEF Charged

----------------------------------------------------------------------------
(* Types *)

LEMMA TypeInit == Init => TypeOK
<1> SUFFICES ASSUME Init PROVE TypeOK
  OBVIOUS
<1>1. ThreadTypeOK
  BY DEF Init, ThreadInit, ThreadTypeOK, Blank, Offer, Media
<1>2. NetTypeOK
  BY DEF Init, NetTypeOK, Relay!Init, Conns, NoConn
<1>3. HistoryTypeOK
  BY DEF Init, HistoryTypeOK, Blank, Offer
<1> QED
  BY <1>1, <1>2, <1>3 DEF TypeOK

\* The queues of a thread keep their types when an end of them is taken off or
\* a change is put on.
LEMMA QueueType ==
    ASSUME NEW S, NEW I, NEW q \in [I -> Seq(S)], NEW i \in I
    PROVE  /\ q[i] # << >> => /\ Head(q[i]) \in S
                              /\ [q EXCEPT ![i] = Tail(@)] \in [I -> Seq(S)]
                              /\ Len(Tail(q[i])) = Len(q[i]) - 1
           /\ \A e \in S : [q EXCEPT ![i] = Append(@, e)] \in [I -> Seq(S)]
           /\ [q EXCEPT ![i] = << >>] \in [I -> Seq(S)]
<1>1. q[i] \in Seq(S)
  OBVIOUS
<1>2. q[i] # << >> => Head(q[i]) \in S /\ Tail(q[i]) \in Seq(S) /\ Len(Tail(q[i])) = Len(q[i]) - 1
  BY <1>1
<1>3. \A e \in S : Append(q[i], e) \in Seq(S)
  BY <1>1
<1>4. << >> \in Seq(S)
  OBVIOUS
<1> QED
  BY <1>1, <1>2, <1>3, <1>4

\* The same, of what an earlier thread has left.
LEMMA LeftType ==
    ASSUME ThreadTypeOK, NEW k \in Clients, NEW i \in 1..Len(left[k]), left[k][i] # << >>
    PROVE  /\ Head(left[k][i]) \in Change
           /\ [left EXCEPT ![k][i] = Tail(@)] \in [Clients -> Seq(Seq(Change))]
<1>1. left[k] \in Seq(Seq(Change)) /\ left[k][i] \in Seq(Change)
  BY DEF ThreadTypeOK
<1>2. Head(left[k][i]) \in Change /\ Tail(left[k][i]) \in Seq(Change)
  BY <1>1
<1>3. [left[k] EXCEPT ![i] = Tail(left[k][i])] \in Seq(Seq(Change))
  BY <1>1, <1>2
<1> QED
  BY <1>2, <1>3 DEF ThreadTypeOK

LEMMA ThreadTypeStep ==
    ASSUME ThreadTypeOK, NEW k \in Clients,
           \/ \E content \in Copyable : Copy(k, content)
           \/ Apply(k) \/ ApplyFails(k) \/ Report(k) \/ PassOver(k) \/ ReadFails(k)
           \/ StartThread(k) \/ ReplaceThread(k)
           \/ \E i \in 1..Len(left[k]) : ApplyLeft(k, i) \/ ApplyLeftFails(k, i)
    PROVE  ThreadTypeOK'
<1> USE DEF ThreadTypeOK
<1>1. CASE \E content \in Copyable : Copy(k, content)
  BY <1>1 DEF Copy
<1>2. CASE Apply(k)
  <2>1. Head(applying[k]) \in Change /\ applying' \in [Clients -> Seq(Change)]
    BY <1>2, QueueType DEF Apply
  <2> DEFINE c == Head(applying[k])
  <2>2. c.kind \in Media /\ c.value \in Values
    BY <2>1 DEF Change
  <2>3. Only(c.kind, c.value) \in Offer
    BY <2>2, OnlyType
  <2>4. os' = [os EXCEPT ![k] = Only(c.kind, c.value)]
    BY <1>2 DEF Apply
  <2>5. os' \in [Clients -> Offer]
    BY <2>3, <2>4
  <2>6. seen' = [seen EXCEPT ![k] = [seen[k] EXCEPT ![c.kind] = c.value]]
    BY <1>2 DEF Apply
  <2>7. [seen[k] EXCEPT ![c.kind] = c.value] \in Offer
    BY <2>2 DEF Offer
  <2>8. seen' \in [Clients -> Offer]
    BY <2>6, <2>7
  <2> QED
    BY <1>2, <2>1, <2>5, <2>8 DEF Apply
<1>3. CASE ApplyFails(k)
  BY <1>3, QueueType DEF ApplyFails
<1>4. CASE Report(k)
  <2> DEFINE m == thread[k]
             v == os[k][m]
  <2>1. m \in Media /\ v \in Values
    BY <1>4 DEF Report, Unseen, Offer
  <2>2. [kind |-> m, value |-> v] \in Change
    BY <2>1 DEF Change
  <2>3. /\ events' \in [Clients -> Seq(Change)]
        /\ \A j \in Clients : Len(events'[j]) <= EventCap
    <3>1. CASE Len(events[k]) < EventCap
      <4>1. events' = [events EXCEPT ![k] = Append(events[k], [kind |-> m, value |-> v])]
        BY <1>4, <3>1 DEF Report
      <4>2. events' \in [Clients -> Seq(Change)]
        BY <2>2, <4>1, QueueType
      <4>3. Len(events'[k]) = Len(events[k]) + 1
        BY <2>2, <4>1
      <4> QED
        BY <3>1, <4>1, <4>2, <4>3
    <3>2. CASE ~(Len(events[k]) < EventCap)
      BY <1>4, <3>2 DEF Report
    <3> QED
      BY <3>1, <3>2
  <2>4. seen' = [seen EXCEPT ![k] = [seen[k] EXCEPT ![m] = v]]
    BY <1>4 DEF Report
  <2>5. [seen[k] EXCEPT ![m] = v] \in Offer
    BY <2>1 DEF Offer
  <2>6. seen' \in [Clients -> Offer]
    BY <2>4, <2>5
  <2>7. thread' \in [Clients -> Media]
    BY <1>4 DEF Report, Media
  <2> QED
    BY <1>4, <2>3, <2>6, <2>7 DEF Report
<1>5. CASE PassOver(k)
  <2>1. [seen[k] EXCEPT !["text"] = None] \in Offer
    BY DEF Offer
  <2>2. seen' \in [Clients -> Offer]
    BY <1>5, <2>1 DEF PassOver
  <2>3. thread' \in [Clients -> Media]
    BY <1>5 DEF PassOver, AfterRead, Media
  <2> QED
    BY <1>5, <2>2, <2>3 DEF PassOver
<1>6. CASE ReadFails(k)
  BY <1>6 DEF ReadFails, AfterRead, Media
<1>7. CASE StartThread(k) \/ ReplaceThread(k)
  <2>1. Blank \in Offer
    BY DEF Blank, Offer
  <2>2. Begin(k)
    BY <1>7 DEF StartThread, ReplaceThread
  <2>3. left' \in [Clients -> Seq(Seq(Change))]
    <3>1. applying[k] \in Seq(Change)
      OBVIOUS
    <3>2. /\ [left EXCEPT ![k] = Append(@, applying[k])] \in [Clients -> Seq(Seq(Change))]
          /\ [left EXCEPT ![k] = << >>] \in [Clients -> Seq(Seq(Change))]
      BY <3>1, QueueType
    <3> QED
      BY <1>7, <3>2 DEF StartThread, ReplaceThread
  <2>4. /\ seen' \in [Clients -> Offer] /\ thread' \in [Clients -> Media] /\ os' = os
        /\ applying' \in [Clients -> Seq(Change)]
    BY <2>1, <2>2 DEF Begin, Media
  <2>5. events' \in [Clients -> Seq(Change)] /\ \A j \in Clients : Len(events'[j]) <= EventCap
    BY <2>2 DEF Begin
  <2> QED
    BY <2>3, <2>4, <2>5
<1>8. ASSUME NEW i \in 1..Len(left[k]), ApplyLeft(k, i) \/ ApplyLeftFails(k, i)
      PROVE  ThreadTypeOK'
  <2>0. left[k][i] # << >> /\ left' = [left EXCEPT ![k][i] = Tail(@)]
    BY <1>8 DEF ApplyLeft, ApplyLeftFails
  <2>1. left' \in [Clients -> Seq(Seq(Change))] /\ Head(left[k][i]) \in Change
    BY <1>8, <2>0, LeftType
  <2> DEFINE c == Head(left[k][i])
  <2>2. Only(c.kind, c.value) \in Offer
    BY <2>1, OnlyType DEF Change
  <2>3. os' \in [Clients -> Offer]
    <3>1. os' = [os EXCEPT ![k] = Only(c.kind, c.value)] \/ os' = os
      BY <1>8 DEF ApplyLeft, ApplyLeftFails
    <3> QED
      BY <2>2, <3>1
  <2> QED
    BY <1>8, <2>1, <2>3 DEF ApplyLeft, ApplyLeftFails
<1> QED
  BY <1>1, <1>2, <1>3, <1>4, <1>5, <1>6, <1>7, <1>8

LEMMA ClipPublished ==
    ASSUME NetTypeOK, NEW clip \in Clips, Relay!Publish(clip)
    PROVE  /\ feed' \in [Conns -> Seq(Clips)]
           /\ \A c \in Conns : Len(feed[c]) <= Len(feed'[c])
           /\ last' \in Clips
           /\ members' = members
<1> USE DEF NetTypeOK
<1>1. PICK reached \in SUBSET (members \ {clip.from}) :
         feed' = [c \in Conns |-> IF c \in reached THEN Append(feed[c], clip) ELSE feed[c]]
  BY DEF Relay!Publish
<1>2. \A c \in Conns : /\ Append(feed[c], clip) \in Seq(Clips)
                        /\ Len(Append(feed[c], clip)) = Len(feed[c]) + 1
                        /\ Len(feed[c]) \in Nat
  OBVIOUS
<1>3. feed' \in [Conns -> Seq(Clips)]
  BY <1>1, <1>2
<1>4. \A c \in Conns : Len(feed[c]) <= Len(feed'[c])
  BY <1>1, <1>2
<1> QED
  BY <1>3, <1>4 DEF Relay!Publish

\* Steps on the network's side: what the connections carry.
LEMMA ClientNetStep ==
    ASSUME TypeOK, NEW k \in Clients,
           \/ Connect(k) \/ Disconnect(k) \/ Send(k) \/ Receive(k) \/ Restart(k)
    PROVE  NetTypeOK'
<1> USE DEF NetTypeOK
<1>0. NetTypeOK
  BY DEF TypeOK
<1>1. CASE Connect(k)
  <2>1. sessions + 1 \in Conns /\ sessions' = sessions + 1
    BY <1>0, <1>1 DEF Connect, Conns
  <2>2. /\ feed[sessions + 1] = << >>
        /\ members' = members \cup {sessions + 1}
        /\ feed' = [feed EXCEPT ![sessions + 1] = IF last = NoClip THEN << >> ELSE <<last>>]
        /\ last' = last
    BY <1>1 DEF Connect, Relay!Join
  <2>3. (IF last = NoClip THEN << >> ELSE <<last>>) \in Seq(Clips)
    BY <1>0
  <2>4. feed' \in [Conns -> Seq(Clips)]
    BY <1>0, <2>1, <2>2, <2>3
  <2>5. \A c \in Conns : read[c] <= Len(feed'[c])
    <3>1. feed'[sessions + 1] = IF last = NoClip THEN << >> ELSE <<last>>
      BY <1>0, <2>1, <2>2
    <3>2. Len(feed'[sessions + 1]) \in Nat
      BY <2>1, <2>4
    <3>3. read[sessions + 1] = 0
      BY <1>0, <2>1, <2>2
    <3>4. \A c \in Conns : c # sessions + 1 => feed'[c] = feed[c]
      BY <1>0, <2>2
    <3>5. \A c \in Conns : c # sessions + 1 => read[c] <= Len(feed'[c])
      BY <1>0, <3>4
    <3>6. read[sessions + 1] <= Len(feed'[sessions + 1])
      BY <3>2, <3>3
    <3> QED
      BY <3>5, <3>6
  <2>6. conn' \in [Clients -> Conns \cup {NoConn}]
    <3>1. conn' = [conn EXCEPT ![k] = sessions + 1]
      BY <1>1 DEF Connect
    <3> QED
      BY <1>0, <2>1, <3>1
  <2>7. sessions' \in 0..MaxSessions /\ members' \subseteq 1..sessions'
    <3>1. sessions \in Nat /\ sessions + 1 \in 1..MaxSessions
      BY <1>0, <2>1 DEF Conns
    <3>2. members \subseteq 1..sessions
      BY <1>0
    <3>3. members' \subseteq 1..(sessions + 1)
      BY <2>2, <3>1, <3>2
    <3> QED
      BY <2>1, <3>1, <3>3
  <2> QED
    BY <1>0, <1>1, <2>2, <2>4, <2>5, <2>6, <2>7 DEF Connect
<1>2. CASE Disconnect(k)
  BY <1>0, <1>2 DEF Disconnect
<1>3. CASE Send(k)
  <2>1. CASE Head(events[k]).kind = "files"
    BY <1>0, <1>3, <2>1 DEF Send
  <2>2. CASE Head(events[k]).kind # "files"
    <3>1. conn[k] \in Conns
      BY <1>0, <1>3 DEF Send
    <3>2. Head(events[k]) \in Change
      BY <1>3, QueueType DEF Send, TypeOK, ThreadTypeOK
    <3>3. [from |-> conn[k], change |-> Head(events[k])] \in Clips
      BY <3>1, <3>2 DEF Clips
    <3>4. wire' = [wire EXCEPT ![conn[k]] =
                     Append(wire[conn[k]], [from |-> conn[k], change |-> Head(events[k])])]
      BY <1>3, <2>2 DEF Send
    <3>5. wire' \in [Conns -> Seq(Clips)]
      BY <1>0, <3>1, <3>3, <3>4, QueueType
    <3> QED
      BY <1>0, <1>3, <3>5 DEF Send
  <2> QED
    BY <2>1, <2>2
<1>4. CASE Receive(k)
  <2>1. conn[k] \in Conns
    BY <1>0, <1>4 DEF Receive
  <2>2. read' = [read EXCEPT ![conn[k]] = read[conn[k]] + 1]
    BY <1>4 DEF Receive
  <2>3. read[conn[k]] + 1 <= Len(feed[conn[k]])
    BY <1>0, <1>4, <2>1 DEF Receive
  <2>4. read' \in [Conns -> Nat] /\ \A c \in Conns : read'[c] <= Len(feed[c])
    BY <1>0, <2>1, <2>2, <2>3
  <2> QED
    BY <1>0, <1>4, <2>4 DEF Receive
<1>5. CASE Restart(k)
  BY <1>0, <1>5 DEF Restart
<1> QED
  BY <1>1, <1>2, <1>3, <1>4, <1>5

LEMMA ServerNetStep ==
    ASSUME TypeOK, NEW c \in Conns, Forget(c) \/ Take(c)
    PROVE  NetTypeOK'
<1> USE DEF NetTypeOK
<1>0. NetTypeOK
  BY DEF TypeOK
<1>1. CASE Forget(c)
  <2>1. /\ members' = members \ {c}
        /\ last' = last /\ feed' = feed
    BY <1>1 DEF Forget, Relay!Leave
  <2>2. [wire EXCEPT ![c] = << >>] \in [Conns -> Seq(Clips)]
    BY <1>0, QueueType
  <2>3. wire' \in [Conns -> Seq(Clips)]
    BY <1>0, <1>1, <2>2 DEF Forget
  <2> QED
    BY <1>0, <1>1, <2>1, <2>3 DEF Forget
<1>2. CASE Take(c)
  <2>1. Head(wire[c]) \in Clips /\ wire' \in [Conns -> Seq(Clips)]
    BY <1>0, <1>2, QueueType DEF Take
  <2>2. /\ feed' \in [Conns -> Seq(Clips)]
        /\ \A d \in Conns : Len(feed[d]) <= Len(feed'[d])
        /\ last' \in Clips /\ members' = members
    BY <1>0, <1>2, <2>1, ClipPublished DEF Take
  <2>3. \A d \in Conns : Len(feed[d]) \in Nat /\ Len(feed'[d]) \in Nat
    BY <1>0, <2>2
  <2>4. \A d \in Conns : read[d] <= Len(feed'[d])
    BY <1>0, <2>2, <2>3
  <2> QED
    BY <1>0, <1>2, <2>1, <2>2, <2>4 DEF Take
<1> QED
  BY <1>1, <1>2

\* The steps of Next that belong to machine k.
ClientStep(k) ==
    \/ \E content \in Copyable :
          \/ UserCopies(k, content)
          \/ content["files"] # None /\ FilesSaved(k, content["files"])
    \/ ThreadApplies(k) \/ ThreadReports(k) \/ ThreadPolls(k) \/ CallFails(k)
    \/ EarlierApplies(k)
    \/ Connect(k) \/ Disconnect(k) \/ Send(k) \/ Receive(k) \/ Restart(k)

\* The queue of the thread's input grows.
LEMMA ApplyingGrows ==
    ASSUME ThreadTypeOK, NEW k \in Clients, NEW c \in Change,
           applying' = [applying EXCEPT ![k] = Append(@, c)],
           UNCHANGED <<os, seen, thread, events, left>>
    PROVE  ThreadTypeOK'
<1>1. applying' \in [Clients -> Seq(Change)]
  BY QueueType DEF ThreadTypeOK
<1> QED
  BY <1>1 DEF ThreadTypeOK

LEMMA ClientThreadType ==
    ASSUME TypeOK, NEW k \in Clients, ClientStep(k)
    PROVE  ThreadTypeOK'
<1>0. ThreadTypeOK /\ NetTypeOK
  BY DEF TypeOK
<1>1. CASE \E content \in Copyable : UserCopies(k, content)
  BY <1>0, <1>1, ThreadTypeStep DEF UserCopies
<1>2. ASSUME NEW content \in Copyable, content["files"] # None,
             FilesSaved(k, content["files"])
      PROVE  ThreadTypeOK'
  <2>1. content \in Offer
    OBVIOUS
  <2>2. [kind |-> "files", value |-> content["files"]] \in Change
    BY <1>2, <2>1 DEF Offer, Change, Media
  <2> QED
    BY <1>0, <1>2, <2>2, ApplyingGrows DEF FilesSaved
<1>3. CASE \/ ThreadApplies(k) \/ ThreadReports(k) \/ ThreadPolls(k) \/ CallFails(k)
           \/ EarlierApplies(k)
  BY <1>0, <1>3, ThreadTypeStep DEF ThreadApplies, ThreadReports, ThreadPolls, CallFails,
                                    EarlierApplies
<1>4. CASE Connect(k) \/ Disconnect(k)
  BY <1>0, <1>4 DEF Connect, Disconnect, ThreadTypeOK, threadVars
<1>5. CASE Send(k)
  <2>1. events[k] \in Seq(Change) /\ events[k] # << >>
    BY <1>0, <1>5 DEF Send, ThreadTypeOK
  <2>2. events' = [events EXCEPT ![k] = Tail(events[k])]
    BY <1>5 DEF Send
  <2>3. events' \in [Clients -> Seq(Change)] /\ Len(Tail(events[k])) = Len(events[k]) - 1
    BY <1>0, <2>1, <2>2, QueueType DEF ThreadTypeOK
  <2>4. \A j \in Clients : Len(events'[j]) <= EventCap
    BY <1>0, <2>1, <2>2, <2>3 DEF ThreadTypeOK
  <2> QED
    BY <1>0, <1>5, <2>3, <2>4 DEF Send, ThreadTypeOK
<1>6. CASE Receive(k)
  <2> DEFINE clip == feed[conn[k]][read[conn[k]] + 1]
  <2>1. conn[k] \in Conns /\ feed[conn[k]] \in Seq(Clips)
    BY <1>0, <1>6 DEF Receive, NetTypeOK
  <2>2. read[conn[k]] + 1 \in 1..Len(feed[conn[k]])
    BY <1>0, <1>6, <2>1 DEF Receive, NetTypeOK
  <2>3. clip \in Clips
    BY <2>1, <2>2
  <2>4. clip.change \in Change
    BY <2>3 DEF Clips
  <2> QED
    BY <1>0, <1>6, <2>4, ApplyingGrows DEF Receive
<1>7. CASE Restart(k)
  BY <1>0, <1>7, ThreadTypeStep DEF Restart
<1> QED
  BY <1>1, <1>2, <1>3, <1>4, <1>5, <1>6, <1>7 DEF ClientStep

----------------------------------------------------------------------------
(* The charge *)

\* What a copy puts on the clipboard is paid for by the copy.
LEMMA CopyCharged ==
    ASSUME TypeOK, NEW k \in Clients, NEW content \in Copyable, UserCopies(k, content),
           NEW j \in Clients, Charged(j)
    PROVE  Charged(j)'
<1>1. CASE j = k
  <2>1. Unseen(k)' \subseteq Offered(content)
    BY DEF UserCopies, Copy, Unseen, Offered, TypeOK, ThreadTypeOK
  <2>2. Offered(content) \in SUBSET Media
    BY DEF Offered
  <2>3. Cardinality(Unseen(k)') <= Cardinality(Offered(content))
    BY <2>1, <2>2, MediaFacts
  <2>4. offered'[k] = offered[k] + Cardinality(Offered(content)) /\ reports'[k] = reports[k]
    BY DEF UserCopies, TypeOK, HistoryTypeOK
  <2>5. reports[k] <= offered[k] /\ reports[k] \in Nat /\ offered[k] \in Nat
    BY <1>1, UnseenCount DEF Charged, TypeOK, HistoryTypeOK
  <2>6. Cardinality(Unseen(k)') \in Nat /\ Cardinality(Offered(content)) \in Nat
    BY <2>2, MediaFacts, UnseenCountNext
  <2> QED
    BY <1>1, <2>3, <2>4, <2>5, <2>6 DEF Charged
<1>2. CASE j # k
  BY <1>2, ChargeKept DEF UserCopies, Copy, TypeOK, ThreadTypeOK, HistoryTypeOK
<1> QED
  BY <1>1, <1>2

\* What is applied has been seen: nothing is left to charge.
LEMMA ApplyCharged ==
    ASSUME TypeOK, NEW k \in Clients, ThreadApplies(k), NEW j \in Clients, Charged(j)
    PROVE  Charged(j)'
<1>0. ThreadTypeOK
  BY DEF TypeOK
<1>1. CASE j = k
  <2> DEFINE c == Head(applying[k])
  <2>1. c.kind \in Media /\ c.value \in Values
    <3>1. c \in Change
      BY <1>0, QueueType DEF ThreadApplies, Apply, ThreadTypeOK
    <3> QED
      BY <3>1 DEF Change
  <2>2. os'[k] = Only(c.kind, c.value)
    BY <1>0 DEF ThreadApplies, Apply, ThreadTypeOK
  <2>3. seen'[k][c.kind] = c.value
    BY <1>0, <2>1 DEF ThreadApplies, Apply, ThreadTypeOK, Offer
  <2>4. \A m \in Media : os'[k][m] = IF m = c.kind THEN c.value ELSE None
    BY <2>1, <2>2, OnlyType
  <2>5. Unseen(k)' = {}
    BY <2>3, <2>4 DEF Unseen
  <2>6. Cardinality(Unseen(k)') = 0
    BY <2>5, FS_EmptySet
  <2>7. reports'[k] = reports[k] /\ offered'[k] = offered[k]
    BY DEF ThreadApplies
  <2>8. reports[k] <= offered[k] /\ reports[k] \in Nat
    BY <1>1, UnseenCount DEF Charged, TypeOK, HistoryTypeOK
  <2> QED
    BY <1>1, <2>6, <2>7, <2>8 DEF Charged
<1>2. CASE j # k
  BY <1>0, <1>2, ChargeKept DEF ThreadApplies, Apply, ThreadTypeOK
<1> QED
  BY <1>1, <1>2

\* A report moves one medium from what may yet be reported to what has been.
LEMMA ReportCharged ==
    ASSUME TypeOK, NEW k \in Clients, ThreadReports(k), NEW j \in Clients, Charged(j)
    PROVE  Charged(j)'
<1>0. ThreadTypeOK /\ HistoryTypeOK
  BY DEF TypeOK
<1>1. CASE j = k
  <2> DEFINE m == thread[k]
  <2>1. m \in Unseen(k)
    BY DEF ThreadReports, Report
  <2>2. os' = os /\ \A n \in Media : seen'[k][n] = IF n = m THEN os[k][m] ELSE seen[k][n]
    BY <1>0 DEF ThreadReports, Report, ThreadTypeOK, Offer
  <2>3. Unseen(k)' = Unseen(k) \ {m}
    BY <2>1, <2>2 DEF Unseen
  <2>4. Cardinality(Unseen(k)') = Cardinality(Unseen(k)) - 1
    <3>1. IsFiniteSet(Unseen(k))
      BY UnseenCount, MediaFacts
    <3>2. Cardinality(Unseen(k) \ {m}) = Cardinality(Unseen(k)) - 1
      BY <2>1, <3>1, FS_RemoveElement
    <3> QED
      BY <2>3, <3>2
  <2>5. reports'[k] <= reports[k] + 1 /\ reports'[k] \in Nat
    BY <1>0 DEF ThreadReports, HistoryTypeOK
  <2>6. offered'[k] = offered[k]
    BY DEF ThreadReports
  <2> QED
    BY <1>0, <1>1, <2>4, <2>5, <2>6, UnseenCount DEF Charged, HistoryTypeOK
<1>2. CASE j # k
  BY <1>0, <1>2, ChargeKept DEF ThreadReports, Report, ThreadTypeOK, HistoryTypeOK
<1> QED
  BY <1>1, <1>2

\* Only the tracker of a text that is not there is cleared.
LEMMA PollCharged ==
    ASSUME TypeOK, NEW k \in Clients, ThreadPolls(k), NEW j \in Clients, Charged(j)
    PROVE  Charged(j)'
<1>0. ThreadTypeOK
  BY DEF TypeOK
<1>1. os' = os /\ reports' = reports /\ offered' = offered
  BY DEF ThreadPolls, PassOver, historyVars
<1>2. \A m \in Media : seen'[j][m] = seen[j][m] \/ os[j][m] = None
  BY <1>0 DEF ThreadPolls, PassOver, ThreadTypeOK, Offer
<1>3. Unseen(j)' = Unseen(j)
  BY <1>1, <1>2 DEF Unseen
<1> QED
  BY <1>1, <1>3 DEF Charged

\* What an earlier thread puts on the clipboard is paid for.
LEMMA EarlierCharged ==
    ASSUME TypeOK, NEW k \in Clients, EarlierApplies(k), NEW j \in Clients, Charged(j)
    PROVE  Charged(j)'
<1>0. ThreadTypeOK /\ HistoryTypeOK
  BY DEF TypeOK
<1>1. CASE j = k
  <2>1. PICK i \in 1..Len(left[k]) :
           /\ ApplyLeft(k, i)
           /\ offered' = [offered EXCEPT ![k] = @ + 1] /\ reports' = reports
    BY DEF EarlierApplies
  <2> DEFINE c == Head(left[k][i])
  <2>2. c \in Change /\ os' = [os EXCEPT ![k] = Only(c.kind, c.value)]
    BY <1>0, <2>1, LeftType DEF ApplyLeft
  <2> HIDE DEF c
  <2>3. \A m \in Media : os'[k][m] = IF m = c.kind THEN c.value ELSE None
    BY <1>0, <2>2, OnlyType DEF Change, ThreadTypeOK
  <2>4. Unseen(k)' \subseteq {c.kind}
    BY <2>3 DEF Unseen
  <2>5. Cardinality(Unseen(k)') <= 1
    <3>1. IsFiniteSet({c.kind}) /\ Cardinality({c.kind}) = 1
      BY FS_Singleton
    <3> QED
      BY <2>4, <3>1, FS_Subset
  <2>6. reports[k] <= offered[k] /\ reports[k] \in Nat /\ offered[k] \in Nat
    BY <1>0, <1>1, UnseenCount DEF Charged, HistoryTypeOK
  <2>7. offered'[k] = offered[k] + 1 /\ reports'[k] = reports[k]
    BY <1>0, <2>1 DEF HistoryTypeOK
  <2> QED
    BY <1>1, <2>5, <2>6, <2>7, UnseenCountNext DEF Charged
<1>2. CASE j # k
  BY <1>0, <1>2, ChargeKept DEF EarlierApplies, ApplyLeft, ThreadTypeOK, HistoryTypeOK
<1> QED
  BY <1>1, <1>2

\* A restart may report once more what the clipboard offers.
LEMMA RestartCharged ==
    ASSUME TypeOK, NEW k \in Clients, Restart(k), NEW j \in Clients, Charged(j)
    PROVE  Charged(j)'
<1>1. CASE j = k
  <2>1. os' = os
    BY DEF Restart, StartThread, ReplaceThread, Begin
  <2>2. Unseen(k)' \subseteq Offered(os[k])
    BY <2>1 DEF Unseen, Offered
  <2>3. Offered(os[k]) \in SUBSET Media
    BY DEF Offered
  <2>4. Cardinality(Unseen(k)') <= Cardinality(Offered(os[k]))
    BY <2>2, <2>3, MediaFacts
  <2>5. offered'[k] = offered[k] + Cardinality(Offered(os[k])) /\ reports'[k] = reports[k]
    BY DEF Restart, TypeOK, HistoryTypeOK
  <2>6. reports[k] <= offered[k] /\ reports[k] \in Nat /\ offered[k] \in Nat
    BY <1>1, UnseenCount DEF Charged, TypeOK, HistoryTypeOK
  <2>7. Cardinality(Unseen(k)') \in Nat /\ Cardinality(Offered(os[k])) \in Nat
    BY <2>3, MediaFacts, UnseenCountNext
  <2> QED
    BY <1>1, <2>4, <2>5, <2>6, <2>7 DEF Charged
<1>2. CASE j # k
  BY <1>2, ChargeKept DEF Restart, StartThread, ReplaceThread, Begin,
                          TypeOK, ThreadTypeOK, HistoryTypeOK
<1> QED
  BY <1>1, <1>2

----------------------------------------------------------------------------
(* The inductive invariant *)

LEMMA InitInv == Init => IInv
<1> SUFFICES ASSUME Init PROVE IInv
  OBVIOUS
<1>1. TypeOK
  BY TypeInit
<1>2. ASSUME NEW k \in Clients PROVE Charged(k)
  <2>1. Unseen(k) = {}
    BY DEF Init, ThreadInit, Unseen, Blank
  <2> QED
    BY <2>1, FS_EmptySet DEF Init, Charged
<1> QED
  BY <1>1, <1>2 DEF IInv

LEMMA ClientHistoryType ==
    ASSUME TypeOK, NEW k \in Clients, ClientStep(k)
    PROVE  HistoryTypeOK'
<1>0. HistoryTypeOK /\ ThreadTypeOK
  BY DEF TypeOK
<1> USE DEF HistoryTypeOK
<1>1. ASSUME NEW content \in Copyable, UserCopies(k, content) PROVE HistoryTypeOK'
  <2>1. Cardinality(Offered(content)) \in Nat
    BY MediaFacts DEF Offered
  <2>2. inputs' \in 0..MaxInputs /\ latest' \in Offer
    BY <1>0, <1>1 DEF UserCopies
  <2>3. offered' \in [Clients -> Nat]
    BY <1>0, <1>1, <2>1 DEF UserCopies
  <2>4. calm' \in BOOLEAN /\ fresh' \in BOOLEAN
    BY <1>1 DEF UserCopies
  <2> QED
    BY <1>0, <1>1, <2>2, <2>3, <2>4 DEF UserCopies
<1>2. ASSUME NEW paths, FilesSaved(k, paths) PROVE HistoryTypeOK'
  <2>1. /\ inputs < MaxInputs /\ inputs' = inputs + 1
        /\ calm' = FALSE
        /\ starts' = starts /\ latest' = latest /\ offered' = offered
        /\ reports' = reports /\ shared' = shared /\ fresh' = fresh
    BY <1>2 DEF FilesSaved
  <2>2. inputs' \in 0..MaxInputs
    BY <1>0, <2>1, SyncAssumption
  <2> QED
    BY <1>0, <2>1, <2>2
<1>3. CASE ThreadApplies(k)
  <2>1. Head(applying[k]) \in Change
    BY <1>0, <1>3, QueueType DEF ThreadApplies, Apply, ThreadTypeOK
  <2> QED
    BY <1>0, <1>3, <2>1 DEF ThreadApplies
<1>4. CASE ThreadReports(k)
  <2>1. thread[k] \in Media /\ os[k][thread[k]] \in Values
    BY <1>0, <1>4 DEF ThreadReports, Report, Unseen, ThreadTypeOK, Offer
  <2>2. [kind |-> thread[k], value |-> os[k][thread[k]]] \in Change
    BY <2>1 DEF Change
  <2>3. reports' \in [Clients -> Nat]
    BY <1>0, <1>4 DEF ThreadReports
  <2>4. shared' \in [Clients -> Change \cup {None}]
    BY <1>0, <1>4, <2>2 DEF ThreadReports
  <2>5. fresh' \in BOOLEAN /\ UNCHANGED <<starts, inputs, latest, offered, calm>>
    BY <1>0, <1>4 DEF ThreadReports
  <2> QED
    BY <1>0, <2>3, <2>4, <2>5
<1>5. CASE ThreadPolls(k) \/ Connect(k) \/ Send(k) \/ Receive(k)
  BY <1>0, <1>5 DEF ThreadPolls, Connect, Send, Receive, historyVars
<1>6. CASE CallFails(k)
  BY <1>0, <1>6 DEF CallFails
<1>7. CASE Disconnect(k)
  BY <1>0, <1>7 DEF Disconnect
<1>8. CASE Restart(k)
  <2>1. Cardinality(Offered(os[k])) \in Nat
    BY MediaFacts DEF Offered
  <2>2. offered' \in [Clients -> Nat]
    BY <1>0, <1>8, <2>1 DEF Restart
  <2>3. starts' \in 0..MaxStarts /\ calm' \in BOOLEAN
    BY <1>0, <1>8 DEF Restart
  <2> QED
    BY <1>0, <1>8, <2>2, <2>3 DEF Restart
<1>9. CASE EarlierApplies(k)
  <2>1. /\ offered' = [offered EXCEPT ![k] = @ + 1] /\ fresh' \in BOOLEAN
        /\ UNCHANGED <<starts, inputs, latest, reports, shared, calm>>
    BY <1>9 DEF EarlierApplies
  <2> QED
    BY <1>0, <2>1
<1> QED
  BY <1>1, <1>2, <1>3, <1>4, <1>5, <1>6, <1>7, <1>8, <1>9 DEF ClientStep

LEMMA ClientNetType ==
    ASSUME TypeOK, NEW k \in Clients, ClientStep(k)
    PROVE  NetTypeOK'
<1>1. CASE Connect(k) \/ Disconnect(k) \/ Send(k) \/ Receive(k) \/ Restart(k)
  BY <1>1, ClientNetStep
<1>2. CASE UNCHANGED netVars
  BY <1>2 DEF TypeOK, NetTypeOK, netVars
<1> QED
  BY <1>1, <1>2 DEF ClientStep, UserCopies, FilesSaved, ThreadApplies, ThreadReports,
                    ThreadPolls, CallFails, EarlierApplies

LEMMA ClientCharged ==
    ASSUME TypeOK, NEW k \in Clients, ClientStep(k), NEW j \in Clients, Charged(j)
    PROVE  Charged(j)'
<1>1. CASE \E content \in Copyable : UserCopies(k, content)
  BY <1>1, CopyCharged
<1>2. CASE ThreadApplies(k)
  BY <1>2, ApplyCharged
<1>3. CASE ThreadReports(k)
  BY <1>3, ReportCharged
<1>4. CASE ThreadPolls(k)
  BY <1>4, PollCharged
<1>5. CASE Restart(k)
  BY <1>5, RestartCharged
<1>6. CASE \/ \E paths : FilesSaved(k, paths)
           \/ CallFails(k) \/ Connect(k) \/ Disconnect(k) \/ Send(k) \/ Receive(k)
  <2>1. os' = os /\ seen' = seen /\ reports' = reports /\ offered' = offered
    BY <1>6 DEF FilesSaved, CallFails, ReadFails, ApplyFails, ApplyLeftFails, Connect,
                Disconnect, Send, Receive, threadVars, historyVars
  <2> QED
    BY <2>1, ChargeKept
<1>7. CASE EarlierApplies(k)
  BY <1>7, EarlierCharged
<1> QED
  BY <1>1, <1>2, <1>3, <1>4, <1>5, <1>6, <1>7 DEF ClientStep

LEMMA StepInv == IInv /\ [Next]_vars => IInv'
<1> SUFFICES ASSUME IInv, [Next]_vars PROVE IInv'
  OBVIOUS
<1>0. TypeOK /\ \A j \in Clients : Charged(j)
  BY DEF IInv
<1>1. ASSUME NEW k \in Clients, ClientStep(k) PROVE IInv'
  <2>1. TypeOK'
    BY <1>0, <1>1, ClientThreadType, ClientNetType, ClientHistoryType DEF TypeOK
  <2>2. \A j \in Clients : Charged(j)'
    BY <1>0, <1>1, ClientCharged
  <2> QED
    BY <2>1, <2>2 DEF IInv
<1>2. ASSUME NEW c \in Conns, Forget(c) \/ Take(c) PROVE IInv'
  <2>1. NetTypeOK'
    BY <1>0, <1>2, ServerNetStep
  <2>2. /\ UNCHANGED threadVars
        /\ UNCHANGED <<starts, inputs, latest, offered, reports, shared, fresh>>
        /\ calm' \in BOOLEAN
    BY <1>0, <1>2 DEF Forget, Take, historyVars, TypeOK, HistoryTypeOK
  <2>3. ThreadTypeOK' /\ HistoryTypeOK'
    BY <1>0, <2>2 DEF TypeOK, ThreadTypeOK, HistoryTypeOK, threadVars
  <2>4. \A j \in Clients : Charged(j)'
    BY <1>0, <2>2, ChargeKept DEF threadVars
  <2> QED
    BY <2>1, <2>3, <2>4 DEF IInv, TypeOK
<1>3. CASE UNCHANGED vars
  <2>1. TypeOK'
    BY <1>0, <1>3 DEF TypeOK, ThreadTypeOK, NetTypeOK, HistoryTypeOK,
                      vars, threadVars, netVars, historyVars
  <2>2. \A j \in Clients : Charged(j)'
    BY <1>0, <1>3, ChargeKept DEF vars, threadVars, historyVars
  <2> QED
    BY <2>1, <2>2 DEF IInv
<1> QED
  BY <1>1, <1>2, <1>3 DEF Next, ClientStep

LEMMA InductiveInvariant == Spec => []IInv
  BY InitInv, StepInv, PTL DEF Spec

----------------------------------------------------------------------------
(* No copy goes unnoticed *)

LEMMA AccountKept ==
    ASSUME NEW j \in Clients, Accounted(j),
           os'[j] = os[j], Unseen(j)' = Unseen(j), shared'[j] = shared[j]
    PROVE  Accounted(j)'
  BY DEF Accounted

\* What is copied is unseen in every medium it offers.
LEMMA FreshlyUnseen ==
    ASSUME TypeOK, NEW k \in Clients, NEW content \in Copyable, UserCopies(k, content), fresh'
    PROVE  /\ Unseen(k)' = Offered(content) /\ os'[k] = content
           /\ content # Blank => Unseen(k)' # {}
<1>1. os'[k] = content /\ seen' = seen
  BY DEF UserCopies, Copy, TypeOK, ThreadTypeOK
<1>2. \A m \in Offered(content) : content[m] # seen[k][m]
  BY DEF UserCopies
<1>3. Unseen(k)' = Offered(content)
  BY <1>1, <1>2 DEF Unseen, Offered
<1>4. ASSUME Offered(content) = {} PROVE content = Blank
  <2>1. content \in Offer /\ \A m \in Media : content[m] = None
    BY <1>4 DEF Offered
  <2> QED
    BY <2>1 DEF Offer, Blank
<1> QED
  BY <1>1, <1>3, <1>4

LEMMA FreshStep ==
    ASSUME TypeOK, FreshCopiesReported, fresh', NEW k \in Clients, ClientStep(k),
           NEW j \in Clients
    PROVE  Accounted(j)'
<1>0. ThreadTypeOK /\ HistoryTypeOK
  BY DEF TypeOK
<1>1. fresh
  BY DEF ClientStep, UserCopies, FilesSaved, ThreadApplies, ThreadReports, ThreadPolls, CallFails,
         EarlierApplies, Connect, Disconnect, Send, Receive, Restart, historyVars
<1>2. Accounted(j)
  BY <1>1 DEF FreshCopiesReported
<1>3. ASSUME NEW content \in Copyable, UserCopies(k, content) PROVE Accounted(j)'
  <2>1. CASE j = k
    <3>1. Unseen(k)' = {} => os'[k] = Blank
      BY <1>3, FreshlyUnseen
    <3> QED
      BY <2>1, <3>1 DEF Accounted, Blank
  <2>2. CASE j # k
    <3>1. os'[j] = os[j] /\ seen' = seen /\ shared' = shared
      BY <1>0, <1>3, <2>2 DEF UserCopies, Copy, ThreadTypeOK
    <3>2. Unseen(j)' = Unseen(j)
      BY <3>1 DEF Unseen
    <3> QED
      BY <1>2, <3>1, <3>2, AccountKept
  <2> QED
    BY <2>1, <2>2
<1>4. CASE ThreadApplies(k)
  <2>1. CASE j = k
    <3> DEFINE c == Head(applying[k])
    <3>1. c \in Change
      BY <1>0, <1>4, QueueType DEF ThreadApplies, Apply, ThreadTypeOK
    <3>2. c.kind \in Media /\ c.value \in Values /\ c = [kind |-> c.kind, value |-> c.value]
      BY <3>1 DEF Change
    <3>3. os'[k] = Only(c.kind, c.value) /\ shared'[k] = c
      BY <1>0, <1>4 DEF ThreadApplies, Apply, ThreadTypeOK, HistoryTypeOK
    <3> HIDE DEF c
    <3>4. os'[k][c.kind] = c.value
      BY <3>2, <3>3, OnlyType
    <3> QED
      BY <2>1, <3>2, <3>3, <3>4 DEF Accounted
  <2>2. CASE j # k
    <3>1. os'[j] = os[j] /\ seen'[j] = seen[j] /\ shared'[j] = shared[j]
      BY <1>0, <1>4, <2>2 DEF ThreadApplies, Apply, ThreadTypeOK, HistoryTypeOK
    <3>2. Unseen(j)' = Unseen(j)
      BY <3>1 DEF Unseen
    <3> QED
      BY <1>2, <3>1, <3>2, AccountKept
  <2> QED
    BY <2>1, <2>2
<1>5. CASE ThreadReports(k)
  <2>1. CASE j = k
    <3>1. /\ shared'[k] = [kind |-> thread[k], value |-> os[k][thread[k]]]
          /\ os' = os /\ thread[k] \in Media
      BY <1>0, <1>5 DEF ThreadReports, Report, ThreadTypeOK, HistoryTypeOK
    <3> QED
      BY <2>1, <3>1 DEF Accounted
  <2>2. CASE j # k
    <3>1. os'[j] = os[j] /\ seen'[j] = seen[j] /\ shared'[j] = shared[j]
      BY <1>0, <1>5, <2>2 DEF ThreadReports, Report, ThreadTypeOK, HistoryTypeOK
    <3>2. Unseen(j)' = Unseen(j)
      BY <3>1 DEF Unseen
    <3> QED
      BY <1>2, <3>1, <3>2, AccountKept
  <2> QED
    BY <2>1, <2>2
<1>6. CASE ThreadPolls(k)
  <2>1. UNCHANGED <<os, shared>>
    BY <1>6 DEF ThreadPolls, PassOver, historyVars
  <2>2. \A m \in Media : seen'[j][m] = seen[j][m] \/ os[j][m] = None
    BY <1>0, <1>6 DEF ThreadPolls, PassOver, ThreadTypeOK, Offer
  <2>3. Unseen(j)' = Unseen(j)
    BY <2>1, <2>2 DEF Unseen
  <2> QED
    BY <1>2, <2>1, <2>3, AccountKept
<1>7. CASE Restart(k)
  <2>1. UNCHANGED <<os, shared>> /\ seen'[k] = Blank /\ (j # k => seen'[j] = seen[j])
    BY <1>0, <1>7 DEF Restart, StartThread, ReplaceThread, Begin, ThreadTypeOK
  <2>2. CASE j = k
    <3>1. Unseen(k)' = Offered(os[k])
      BY <2>1 DEF Unseen, Offered, Blank
    <3>2. Offered(os[k]) = {} => os[k] = Blank
      <4>1. os[k] \in Offer
        BY <1>0 DEF ThreadTypeOK
      <4> QED
        BY <4>1 DEF Offer, Offered, Blank
    <3> QED
      BY <2>1, <2>2, <3>1, <3>2 DEF Accounted, Blank
  <2>3. CASE j # k
    <3>1. Unseen(j)' = Unseen(j)
      BY <2>1, <2>3 DEF Unseen
    <3> QED
      BY <1>2, <2>1, <3>1, AccountKept
  <2> QED
    BY <2>2, <2>3
<1>8. CASE \/ \E paths : FilesSaved(k, paths)
           \/ CallFails(k) \/ Connect(k) \/ Disconnect(k) \/ Send(k) \/ Receive(k)
  <2>1. UNCHANGED <<os, seen, shared>>
    BY <1>8 DEF FilesSaved, CallFails, ReadFails, ApplyFails, ApplyLeftFails, Connect,
                Disconnect, Send, Receive, threadVars, historyVars
  <2>2. Unseen(j)' = Unseen(j)
    BY <2>1 DEF Unseen
  <2> QED
    BY <1>2, <2>1, <2>2, AccountKept
<1>9. CASE EarlierApplies(k)
  <2>1. UNCHANGED <<seen, shared>> /\ (j # k => os'[j] = os[j])
    BY <1>0, <1>9 DEF EarlierApplies, ApplyLeft, ThreadTypeOK
  <2>2. CASE j = k
    <3>1. PICK i \in 1..Len(left[k]) :
             /\ ApplyLeft(k, i) /\ Head(left[k][i]).value # seen[k][Head(left[k][i]).kind]
      BY <1>9 DEF EarlierApplies
    <3> DEFINE c == Head(left[k][i])
    <3>2. c \in Change /\ os' = [os EXCEPT ![k] = Only(c.kind, c.value)]
      BY <1>0, <3>1, LeftType DEF ApplyLeft
    <3> HIDE DEF c
    <3>3. c.kind \in Media /\ c.value \in Values /\ os'[k] = Only(c.kind, c.value)
      BY <1>0, <3>2 DEF Change, ThreadTypeOK
    <3>4. os'[k][c.kind] = c.value
      BY <3>3, OnlyType
    <3>5. c.kind \in Unseen(k)'
      BY <2>1, <3>1, <3>3, <3>4 DEF Unseen, c
    <3> QED
      BY <2>2, <3>5 DEF Accounted
  <2>3. CASE j # k
    <3>1. Unseen(j)' = Unseen(j)
      BY <2>1, <2>3 DEF Unseen
    <3> QED
      BY <1>2, <2>1, <2>3, <3>1, AccountKept
  <2> QED
    BY <2>2, <2>3
<1> QED
  BY <1>3, <1>4, <1>5, <1>6, <1>7, <1>8, <1>9 DEF ClientStep

LEMMA ReportedInductive ==
    ASSUME TypeOK, FreshCopiesReported, [Next]_vars
    PROVE  FreshCopiesReported'
<1>1. SUFFICES ASSUME fresh', NEW j \in Clients PROVE Accounted(j)'
  BY DEF FreshCopiesReported
<1>2. ASSUME NEW k \in Clients, ClientStep(k) PROVE Accounted(j)'
  BY <1>1, <1>2, FreshStep
<1>3. CASE UNCHANGED vars \/ \E c \in Conns : Forget(c) \/ Take(c)
  <2>1. UNCHANGED <<os, seen, shared, fresh>>
    BY <1>3 DEF Forget, Take, vars, threadVars, historyVars
  <2>2. Unseen(j)' = Unseen(j) /\ Accounted(j)
    BY <1>1, <2>1 DEF Unseen, FreshCopiesReported
  <2> QED
    BY <2>1, <2>2, AccountKept
<1> QED
  BY <1>2, <1>3 DEF Next, ClientStep

----------------------------------------------------------------------------
(* Calm copies arrive *)

\* CalmCopiesArrive is not inductive either: it speaks of states in which all
\* is quiet.  Calm says how far a copy has got in those before: at most one
\* machine, the one that copied or one that started again with the copy on its
\* clipboard, has something to tell the server, and everybody else holds, or is
\* about to be handed, what the server has.

Items(q) == {q[i] : i \in 1..Len(q)}
End(q) == q[Len(q)]

\* The change is of what was copied last.
Current(change) == latest[change.kind] = change.value

HubCurrent == last # NoClip /\ Current(last.change)

\* k holds the copy and is telling the server of it.
Source(k) ==
    /\ conn[k] \in members
    /\ applying[k] = << >>
    /\ read[conn[k]] = Len(feed[conn[k]])
    /\ os[k] = latest
    /\ \A e \in Items(events[k]) : Current(e)
    /\ \A w \in Items(wire[conn[k]]) : Current(w.change)

\* k tells the server what the server has already.
Echoes(k) ==
    /\ HubCurrent
    /\ \A m \in Unseen(k) : [kind |-> m, value |-> os[k][m]] = last.change
    /\ \A e \in Items(events[k]) : e = last.change
    /\ conn[k] # NoConn => \A w \in Items(wire[conn[k]]) : w.change = last.change

\* k ends up with what the server has, once it has applied all it was handed.
Follows(k) ==
    IF read[conn[k]] < Len(feed[conn[k]]) THEN End(feed[conn[k]]).change = last.change
    ELSE IF applying[k] # << >> THEN End(applying[k]) = last.change
    ELSE os[k][last.change.kind] = last.change.value

Told(k) ==
    conn[k] \in members /\ last # NoClip => Follows(k) \/ (~Spoken(k) /\ Source(k))

\* Nobody has copied yet.
Nothing ==
    /\ last = NoClip
    /\ \A k \in Clients : os[k] = Blank /\ events[k] = << >> /\ applying[k] = << >>
    /\ \A c \in Conns : wire[c] = << >> /\ feed[c] = << >>

\* A connection is one client's, and empty until it is opened.
NetInv ==
    /\ \A j, k \in Clients : conn[j] = conn[k] /\ conn[j] # NoConn => j = k
    /\ conn \in [Clients -> 0..sessions]
    /\ \A c \in Conns : c > sessions => wire[c] = << >> /\ feed[c] = << >>
    /\ \A c \in Conns : \A w \in Items(wire[c]) : w.from = c

Calm ==
    /\ latest["files"] = None
    /\ \A k \in Clients : left[k] = << >>
    /\ \A j, k \in Clients : Spoken(j) \/ Spoken(k) \/ j = k
    /\ \A c \in Conns : wire[c] # << >> => \E k \in Clients : conn[k] = c
    /\ \A k \in Clients : Spoken(k) \/ Source(k) \/ Echoes(k)
    /\ \A k \in Clients : Told(k)
    /\ inputs > 0 => HubCurrent \/ \E k \in Clients : ~Spoken(k)
    /\ inputs = 0 => Nothing

CalmInv == NetInv /\ (calm /\ fresh => Calm)

LEMMA ItemsFacts ==
    ASSUME NEW S, NEW q \in Seq(S)
    PROVE  /\ Items(<< >>) = {}
           /\ Items(q) \subseteq S
           /\ q # << >> => Head(q) \in Items(q) /\ Items(Tail(q)) \subseteq Items(q)
           /\ \A e \in S : Items(Append(q, e)) = Items(q) \cup {e}
<1>1. Items(<< >>) = {}
  BY DEF Items
<1>2. Items(q) \subseteq S
  BY DEF Items
<1>3. ASSUME q # << >> PROVE Head(q) \in Items(q) /\ Items(Tail(q)) \subseteq Items(q)
  <2>1. Len(q) \in Nat /\ Len(q) >= 1 /\ Head(q) = q[1]
    BY <1>3
  <2>2. Len(Tail(q)) = Len(q) - 1
    BY <1>3
  <2>3. ASSUME NEW i \in 1..Len(Tail(q)) PROVE Tail(q)[i] = q[i + 1] /\ i + 1 \in 1..Len(q)
    BY <1>3, <2>1, <2>2
  <2> QED
    BY <2>1, <2>3 DEF Items
<1>4. ASSUME NEW e \in S PROVE Items(Append(q, e)) = Items(q) \cup {e}
  <2>1. Len(Append(q, e)) = Len(q) + 1 /\ Append(q, e)[Len(q) + 1] = e /\ Len(q) \in Nat
    OBVIOUS
  <2>2. \A i \in 1..Len(q) : Append(q, e)[i] = q[i]
    OBVIOUS
  <2> QED
    BY <2>1, <2>2 DEF Items
<1> QED
  BY <1>1, <1>2, <1>3, <1>4

LEMMA EndFacts ==
    ASSUME NEW S, NEW q \in Seq(S)
    PROVE  /\ q # << >> => End(q) \in S
           /\ \A e \in S : Append(q, e) # << >> /\ End(Append(q, e)) = e
           /\ q # << >> /\ Tail(q) # << >> => End(Tail(q)) = End(q)
           /\ q # << >> /\ Tail(q) = << >> => Head(q) = End(q)
<1>1. q # << >> => End(q) \in S
  BY DEF End
<1>2. \A e \in S : Append(q, e) # << >> /\ End(Append(q, e)) = e
  BY DEF End
<1>3. ASSUME q # << >> PROVE Len(Tail(q)) = Len(q) - 1 /\ Len(q) \in Nat /\ Len(q) >= 1
  BY <1>3
<1>4. ASSUME q # << >>, Tail(q) # << >> PROVE End(Tail(q)) = End(q)
  <2>1. Tail(q) \in Seq(S) /\ Len(Tail(q)) >= 1
    BY <1>4
  <2>2. Tail(q)[Len(q) - 1] = q[Len(q)]
    BY <1>3, <1>4, <2>1
  <2> QED
    BY <1>3, <1>4, <2>2 DEF End
<1>5. ASSUME q # << >>, Tail(q) = << >> PROVE Head(q) = End(q)
  <2> DEFINE t == Tail(q)
  <2>1. Len(t) = Len(q) - 1 /\ t = << >>
    BY <1>3, <1>5
  <2> HIDE DEF t
  <2>2. Len(q) = 1
    BY <1>3, <1>5, <2>1
  <2> QED
    BY <1>5, <2>2 DEF End
<1> QED
  BY <1>1, <1>2, <1>4, <1>5

----------------------------------------------------------------------------
(* Connections are one client's *)

LEMMA NetInit == Init => CalmInv
<1> SUFFICES ASSUME Init PROVE CalmInv
  OBVIOUS
<1>1. ASSUME NEW k \in Clients
      PROVE  /\ os[k] = Blank /\ events[k] = << >> /\ applying[k] = << >> /\ left[k] = << >>
             /\ conn[k] = NoConn /\ Spoken(k)
  <2>1. /\ os[k] = Blank /\ seen[k] = Blank
        /\ events[k] = << >> /\ applying[k] = << >> /\ left[k] = << >>
    BY DEF Init, ThreadInit
  <2>2. conn[k] = NoConn
    BY DEF Init
  <2>3. Unseen(k) = {}
    BY <2>1 DEF Unseen, Blank
  <2> QED
    BY <2>1, <2>2, <2>3 DEF Spoken
<1>2. \A c \in Conns : wire[c] = << >> /\ feed[c] = << >>
  BY DEF Init, Relay!Init
<1>3. last = NoClip /\ members = {} /\ sessions = 0 /\ inputs = 0 /\ latest = Blank
  BY DEF Init, Relay!Init
<1>4. NetInv
  <2>1. \A c \in Conns : Items(wire[c]) = {}
    BY <1>2 DEF Items
  <2>2. conn \in [Clients -> 0..sessions]
    BY <1>3 DEF Init, NoConn
  <2>3. \A j, k \in Clients : conn[j] = conn[k] /\ conn[j] # NoConn => j = k
    BY <1>1
  <2> QED
    BY <1>2, <2>1, <2>2, <2>3 DEF NetInv
<1>6. latest["files"] = None
  BY <1>3 DEF Blank, Media
<1>7. Nothing
  BY <1>1, <1>2, <1>3 DEF Nothing
<1>8. \A k \in Clients : Told(k)
  BY <1>3 DEF Told
<1>9. Calm
  BY <1>1, <1>2, <1>3, <1>6, <1>7, <1>8 DEF Calm
<1> QED
  BY <1>4, <1>9 DEF CalmInv

LEMMA NetClientStep ==
    ASSUME TypeOK, NetInv, NEW k \in Clients, ClientStep(k)
    PROVE  NetInv'
<1>0. NetTypeOK /\ ThreadTypeOK
  BY DEF TypeOK
<1>1. /\ \A c \in Conns : c \in Nat /\ c # NoConn
      /\ sessions \in Nat /\ conn \in [Clients -> Nat]
  BY <1>0 DEF NetTypeOK, Conns, NoConn
<1>2. CASE Connect(k)
  <2> DEFINE c == sessions + 1
  <2>1. /\ c \in Conns /\ sessions' = c /\ wire' = wire
        /\ \A j \in Clients : conn'[j] = IF j = k THEN c ELSE conn[j]
        /\ \A d \in Conns : d # c => feed'[d] = feed[d]
    BY <1>0, <1>2 DEF Connect, Relay!Join, NetTypeOK, Conns
  <2>2. ASSUME NEW j \in Clients PROVE conn[j] # c
    <3>1. conn[j] \in 0..sessions /\ sessions \in Nat
      BY <1>1 DEF NetInv
    <3> QED
      BY <3>1
  <2>3. \A i, j \in Clients : conn'[i] = conn'[j] /\ conn'[i] # NoConn => i = j
    BY <2>1, <2>2, <1>1 DEF NetInv
  <2>4. conn' \in [Clients -> 0..sessions']
    <3>1. conn' = [conn EXCEPT ![k] = c]
      BY <1>2 DEF Connect
    <3> QED
      BY <2>1, <3>1, <1>1 DEF NetInv
  <2>5. \A d \in Conns : d > sessions' => wire'[d] = << >> /\ feed'[d] = << >>
    BY <2>1, <1>1 DEF NetInv
  <2> QED
    BY <2>1, <2>3, <2>4, <2>5 DEF NetInv, Items
<1>3. CASE Disconnect(k) \/ Restart(k)
  <2>1. /\ UNCHANGED <<sessions, wire, feed>>
        /\ conn' = [conn EXCEPT ![k] = NoConn]
    BY <1>3 DEF Disconnect, Restart
  <2> QED
    BY <2>1, <1>1 DEF NetInv, NoConn, Items
<1>4. CASE Send(k)
  <2>1. UNCHANGED <<conn, sessions, feed>>
    BY <1>4 DEF Send
  <2>2. CASE UNCHANGED wire
    BY <2>1, <2>2 DEF NetInv, Items
  <2>3. CASE Head(events[k]).kind # "files"
    <3> DEFINE c == conn[k]
               w == [from |-> c, change |-> Head(events[k])]
    <3>1. c \in Conns /\ c <= sessions
      BY <1>0, <1>4 DEF Send, NetTypeOK, NetInv
    <3>2. w \in Clips /\ w.from = c
      BY <1>0, <1>4, <3>1, QueueType DEF Send, ThreadTypeOK, Clips
    <3>3. \A d \in Conns : wire'[d] = IF d = c THEN Append(wire[c], w) ELSE wire[d]
      BY <1>0, <1>4, <2>3, <3>1 DEF Send, NetTypeOK
    <3>4. Items(Append(wire[c], w)) = Items(wire[c]) \cup {w}
      BY <1>0, <3>1, <3>2, ItemsFacts DEF NetTypeOK
    <3> HIDE DEF c, w
    <3>5. \A d \in Conns : \A v \in Items(wire'[d]) : v.from = d
      BY <3>2, <3>3, <3>4 DEF NetInv
    <3>6. \A d \in Conns : d > sessions => wire'[d] = << >> /\ feed[d] = << >>
      BY <1>1, <3>1, <3>3 DEF NetInv
    <3>7. \A d \in Conns : Items(wire[d])' = Items(wire'[d])
      BY DEF Items
    <3> QED
      BY <2>1, <3>5, <3>6, <3>7 DEF NetInv
  <2> QED
    BY <1>4, <2>2, <2>3 DEF Send
<1>5. CASE UNCHANGED <<conn, sessions, wire, feed>>
  BY <1>5 DEF NetInv, Items
<1> QED
  BY <1>2, <1>3, <1>4, <1>5 DEF ClientStep, UserCopies, FilesSaved, ThreadApplies, ThreadReports,
                    ThreadPolls, CallFails, EarlierApplies, Receive, netVars

\* What Take(c) does to the queues.
LEMMA Taken ==
    ASSUME TypeOK, NEW c \in Conns, Take(c)
    PROVE  /\ Head(wire[c]) \in Clips /\ Head(wire[c]) \in Items(wire[c])
           /\ \A d \in Conns : d # c => wire'[d] = wire[d]
           /\ wire'[c] = Tail(wire[c]) /\ Items(wire'[c]) \subseteq Items(wire[c])
           /\ last' = Head(wire[c])
           /\ \A d \in Conns \ members : feed'[d] = feed[d]
           /\ Head(wire[c]).from = c =>
                 /\ feed'[c] = feed[c]
                 /\ \A d \in members \ {c} : feed'[d] = Append(feed[d], Head(wire[c]))
<1>0. NetTypeOK
  BY DEF TypeOK
<1> DEFINE clip == Head(wire[c])
<1>1. clip \in Clips /\ clip \in Items(wire[c]) /\ Items(Tail(wire[c])) \subseteq Items(wire[c])
  BY <1>0, ItemsFacts, QueueType DEF Take, NetTypeOK
<1>2. \A d \in Conns : wire'[d] = IF d = c THEN Tail(wire[c]) ELSE wire[d]
  BY <1>0 DEF Take, NetTypeOK
<1>3. PICK reached \in SUBSET (members \ {clip.from}) :
         feed' = [d \in Conns |-> IF d \in reached THEN Append(feed[d], clip) ELSE feed[d]]
  BY DEF Take, Relay!Publish
<1>4. last' = clip
  BY DEF Take, Relay!Publish
<1>5. members \subseteq Conns
  BY <1>0 DEF NetTypeOK, Conns
<1>6. ASSUME NEW d \in members \ {c} PROVE d \in reached
  <2>1. Len(feed'[d]) > Len(feed[d])
    BY DEF Take
  <2>2. d \in Conns /\ Len(feed[d]) \in Nat
    BY <1>0, <1>5 DEF NetTypeOK
  <2>3. feed'[d] # feed[d]
    BY <2>1, <2>2
  <2> QED
    BY <1>3, <2>2, <2>3
<1> HIDE DEF clip
<1>7. \A d \in Conns \ members : feed'[d] = feed[d]
  BY <1>3
<1>8. ASSUME clip.from = c
      PROVE  feed'[c] = feed[c] /\ \A d \in members \ {c} : feed'[d] = Append(feed[d], clip)
  BY <1>3, <1>5, <1>6, <1>8
<1> QED
  BY <1>1, <1>2, <1>4, <1>7, <1>8 DEF clip

LEMMA NetServerStep ==
    ASSUME TypeOK, NetInv, NEW c \in Conns, Forget(c) \/ Take(c)
    PROVE  NetInv'
<1>0. NetTypeOK
  BY DEF TypeOK
<1>1. CASE Forget(c)
  <2>1. UNCHANGED <<conn, sessions, feed>>
    BY <1>1 DEF Forget, Relay!Leave
  <2>2. \A d \in Conns : wire'[d] = wire[d] \/ wire'[d] = << >>
    BY <1>0, <1>1 DEF Forget, NetTypeOK
  <2>3. \A d \in Conns : Items(wire[d])' \subseteq Items(wire[d])
    BY <2>2 DEF Items
  <2> QED
    BY <2>1, <2>2, <2>3 DEF NetInv
<1>2. CASE Take(c)
  <2>1. UNCHANGED <<conn, sessions>> /\ wire[c] # << >>
    BY <1>2 DEF Take
  <2>2. \A d \in Conns : Items(wire[d])' \subseteq Items(wire[d])
    <3>1. \A d \in Conns : Items(wire'[d]) \subseteq Items(wire[d])
      BY <1>2, Taken
    <3> QED
      BY <3>1 DEF Items
  <2>3. ASSUME NEW d \in Conns, d > sessions PROVE wire'[d] = << >> /\ feed'[d] = << >>
    <3>1. wire[d] = << >> /\ feed[d] = << >>
      BY <2>3 DEF NetInv
    <3>2. d \notin members
      <4>1. members \subseteq 1..sessions /\ sessions \in Nat /\ d \in Nat
        BY <1>0 DEF NetTypeOK, Conns
      <4> QED
        BY <2>3, <4>1
    <3>3. d # c
      BY <2>1, <3>1
    <3> QED
      BY <1>2, <3>1, <3>2, <3>3, Taken
  <2> QED
    BY <2>1, <2>2, <2>3 DEF NetInv
<1> QED
  BY <1>1, <1>2

----------------------------------------------------------------------------
(* Steps that leave a machine alone *)

Untouched(j) ==
    /\ os'[j] = os[j] /\ Unseen(j)' = Unseen(j)
    /\ events'[j] = events[j] /\ applying'[j] = applying[j] /\ conn'[j] = conn[j]
    /\ conn[j] # NoConn => /\ wire'[conn[j]] = wire[conn[j]]
                           /\ feed'[conn[j]] = feed[conn[j]]
                           /\ read'[conn[j]] = read[conn[j]]

LEMMA ConnFacts ==
    ASSUME TypeOK, NEW k \in Clients
    PROVE  /\ conn[k] # NoConn => conn[k] \in Conns
           /\ conn[k] \in members => conn[k] # NoConn
           /\ NoConn \notin members /\ NoConn \notin Conns
           /\ members \subseteq Conns
<1>1. conn[k] \in Conns \cup {NoConn} /\ members \subseteq 1..sessions /\ sessions \in 0..MaxSessions
  BY DEF TypeOK, NetTypeOK
<1> QED
  BY <1>1 DEF Conns, NoConn

LEMMA Kept ==
    ASSUME TypeOK, NEW j \in Clients, Untouched(j)
    PROVE  /\ Spoken(j)' <=> Spoken(j)
           /\ latest' = latest /\ conn[j] \in members' /\ Source(j) => Source(j)'
           /\ latest' = latest /\ last' = last /\ Echoes(j) => Echoes(j)'
           /\ last' = last /\ conn[j] \in members /\ Follows(j) => Follows(j)'
<1>1. /\ Items(events[j])' = Items(events[j])
      /\ conn[j] # NoConn => Items(wire[conn[j]])' = Items(wire[conn[j]])
  BY DEF Untouched, Items
<1>2. Spoken(j)' <=> Spoken(j)
  BY DEF Untouched, Spoken
<1>3. ASSUME latest' = latest, conn[j] \in members', Source(j) PROVE Source(j)'
  <2>1. conn[j] # NoConn
    BY <1>3, ConnFacts DEF Source
  <2> QED
    BY <1>1, <1>3, <2>1 DEF Untouched, Source, Current
<1>4. ASSUME latest' = latest, last' = last, Echoes(j) PROVE Echoes(j)'
  BY <1>1, <1>4 DEF Untouched, Echoes, HubCurrent, Current
<1>5. ASSUME last' = last, conn[j] \in members, Follows(j) PROVE Follows(j)'
  <2>1. conn[j] # NoConn
    BY <1>5, ConnFacts
  <2> QED
    BY <1>5, <2>1 DEF Untouched, Follows, End
<1> QED
  BY <1>2, <1>3, <1>4, <1>5

\* A step on k's machine that changes neither the register nor what was copied.
LEMMA LocalStep ==
    ASSUME TypeOK, Calm, NEW k \in Clients, UNCHANGED <<last, latest, inputs, left>>,
           \A j \in Clients \ {k} : Untouched(j) /\ (conn[j] \in members' <=> conn[j] \in members),
           Spoken(k)' \/ /\ Source(k)' \/ Echoes(k)'
                         /\ \A j \in Clients \ {k} : Spoken(j),
           Told(k)',
           ~Spoken(k) /\ Spoken(k)' => HubCurrent,
           \A c \in Conns : wire'[c] # << >> => \E j \in Clients : conn'[j] = c,
           Nothing => Nothing'
    PROVE  Calm'
<1>1. latest'["files"] = None /\ \A j \in Clients : left'[j] = << >>
  BY DEF Calm
<1>2. \A j \in Clients \ {k} : Spoken(j)' <=> Spoken(j)
  BY Kept
<1>3. ASSUME NEW i \in Clients, NEW j \in Clients PROVE Spoken(i)' \/ Spoken(j)' \/ i = j
  BY <1>2 DEF Calm
<1>4. ASSUME NEW j \in Clients PROVE Spoken(j)' \/ Source(j)' \/ Echoes(j)'
  <2>1. CASE j = k
    BY <2>1
  <2>2. CASE j # k
    <3>1. Spoken(j) \/ Source(j) \/ Echoes(j)
      BY DEF Calm
    <3>2. Source(j) => conn[j] \in members'
      BY <2>2 DEF Source
    <3> QED
      BY <2>2, <3>1, <3>2, Kept
  <2> QED
    BY <2>1, <2>2
<1>5. ASSUME NEW j \in Clients PROVE Told(j)'
  <2>1. CASE j = k
    BY <2>1
  <2>2. CASE j # k
    <3>1. Untouched(j) /\ (conn[j] \in members' <=> conn[j] \in members)
      BY <2>2
    <3>2. SUFFICES ASSUME conn[j] \in members, last # NoClip
                   PROVE  Follows(j)' \/ (~Spoken(j)' /\ Source(j)')
      BY <3>1 DEF Told, Untouched
    <3>3. Follows(j) \/ (~Spoken(j) /\ Source(j))
      BY <3>2 DEF Calm, Told
    <3> QED
      BY <3>1, <3>2, <3>3, Kept
  <2> QED
    BY <2>1, <2>2
<1>6. HubCurrent' <=> HubCurrent
  BY DEF HubCurrent, Current
<1>7. inputs' > 0 => HubCurrent' \/ \E j \in Clients : ~Spoken(j)'
  <2>1. SUFFICES ASSUME inputs > 0, ~HubCurrent PROVE \E j \in Clients : ~Spoken(j)'
    BY <1>6
  <2>2. PICK j \in Clients : ~Spoken(j)
    BY <2>1 DEF Calm
  <2> QED
    BY <1>2, <2>1, <2>2
<1>8. inputs' = 0 => Nothing'
  BY DEF Calm
<1> QED
  BY <1>1, <1>3, <1>4, <1>5, <1>7, <1>8 DEF Calm

\* The same, of a step that touches no machine and drops no member.
LEMMA IdleStep ==
    ASSUME TypeOK, Calm, UNCHANGED <<last, latest, inputs, left, wire, feed, members>>,
           \A j \in Clients : Untouched(j)
    PROVE  Calm'
<1>1. \A j \in Clients : os'[j] = os[j] /\ events'[j] = events[j] /\ applying'[j] = applying[j]
                                        /\ conn'[j] = conn[j]
  BY DEF Untouched
<1>2. Nothing => Nothing'
  BY <1>1 DEF Nothing
<1>3. \A c \in Conns : wire'[c] # << >> => \E j \in Clients : conn'[j] = c
  BY <1>1 DEF Calm
<1>4. CASE Clients = {}
  <2> QED
    BY <1>2, <1>3, <1>4 DEF Calm, HubCurrent, Current
<1>5. ASSUME NEW k \in Clients PROVE Calm'
  <2>1. Spoken(k)' <=> Spoken(k)
    BY Kept
  <2>2. Spoken(k) \/ (Source(k) /\ conn[k] \in members') \/ Echoes(k)
    BY DEF Calm, Source
  <2>3. Spoken(k)' \/ Source(k)' \/ Echoes(k)'
    BY <2>1, <2>2, Kept
  <2>4. ~Spoken(k) => \A j \in Clients \ {k} : Spoken(j)
    BY DEF Calm
  <2>5. Told(k)'
    <3>1. Told(k) /\ Untouched(k)
      BY DEF Calm
    <3>2. SUFFICES ASSUME conn[k] \in members, last # NoClip
                   PROVE  Follows(k)' \/ (~Spoken(k)' /\ Source(k)')
      BY <3>1 DEF Told, Untouched
    <3> QED
      BY <3>1, <3>2, Kept DEF Told
  <2> QED
    BY <1>2, <1>3, <2>1, <2>3, <2>4, <2>5, LocalStep
<1> QED
  BY <1>4, <1>5

----------------------------------------------------------------------------
(* Steps of the clipboard threads *)

\* A thread's step is its machine's own, and reads that find nothing new leave
\* even that alone.
LEMMA ThreadAlone ==
    ASSUME TypeOK, NEW k \in Clients, UNCHANGED netVars,
           Apply(k) \/ Report(k) \/ PassOver(k) \/ ReadFails(k)
    PROVE  /\ \A j \in Clients \ {k} : Untouched(j)
           /\ PassOver(k) \/ ReadFails(k) => Untouched(k)
<1>0. ThreadTypeOK
  BY DEF TypeOK
<1>1. UNCHANGED <<conn, wire, feed, read>>
  BY DEF netVars
<1>2. ASSUME NEW j \in Clients, j # k
      PROVE  /\ os'[j] = os[j] /\ seen'[j] = seen[j]
             /\ events'[j] = events[j] /\ applying'[j] = applying[j]
  BY <1>0, <1>2 DEF Apply, Report, PassOver, ReadFails, ThreadTypeOK
<1>3. \A j \in Clients \ {k} : Unseen(j)' = Unseen(j)
  BY <1>2 DEF Unseen
<1>4. ASSUME PassOver(k) \/ ReadFails(k) PROVE Untouched(k)
  <2>1. UNCHANGED <<os, events, applying>>
    BY <1>4 DEF PassOver, ReadFails
  <2>2. \A m \in Media : seen'[k][m] = seen[k][m] \/ os[k][m] = None
    BY <1>0, <1>4 DEF PassOver, ReadFails, ThreadTypeOK, Offer
  <2>3. Unseen(k)' = Unseen(k)
    BY <2>1, <2>2 DEF Unseen
  <2> QED
    BY <1>1, <2>1, <2>3 DEF Untouched
<1> QED
  BY <1>1, <1>2, <1>3, <1>4 DEF Untouched

LEMMA AppliesCalm ==
    ASSUME TypeOK, Calm, NEW k \in Clients, ThreadApplies(k)
    PROVE  Calm'
<1>0. ThreadTypeOK
  BY DEF TypeOK
<1>1. /\ UNCHANGED <<conn, wire, feed, read, members, last, latest, inputs, events, left>>
      /\ applying[k] # << >> /\ applying'[k] = Tail(applying[k])
  BY <1>0 DEF ThreadApplies, Apply, netVars, ThreadTypeOK
<1>2. \A j \in Clients \ {k} : Untouched(j)
  BY ThreadAlone DEF ThreadApplies
<1> DEFINE c == Head(applying[k])
<1>3. applying[k] \in Seq(Change) /\ c \in Change
  BY <1>0, <1>1, QueueType DEF ThreadTypeOK
<1>4. os'[k][c.kind] = c.value /\ Unseen(k)' = {}
  <2>1. c.kind \in Media /\ c.value \in Values
    BY <1>3 DEF Change
  <2>2. os'[k] = Only(c.kind, c.value)
    BY <1>0 DEF ThreadApplies, Apply, ThreadTypeOK
  <2>3. seen'[k][c.kind] = c.value
    BY <1>0, <2>1 DEF ThreadApplies, Apply, ThreadTypeOK, Offer
  <2>4. \A m \in Media : os'[k][m] = IF m = c.kind THEN c.value ELSE None
    BY <2>1, <2>2, OnlyType
  <2> QED
    BY <2>1, <2>3, <2>4 DEF Unseen
<1> HIDE DEF c
<1>5. Spoken(k) => Spoken(k)'
  BY <1>1, <1>4 DEF Spoken
<1>6. ~Source(k)
  BY <1>1 DEF Source
<1>7. ~Spoken(k) => HubCurrent /\ Echoes(k)' /\ \A j \in Clients \ {k} : Spoken(j)
  <2>1. ~Spoken(k) => Echoes(k)
    BY <1>6 DEF Calm
  <2>2. Echoes(k) => Echoes(k)'
    <3>1. /\ Items(events[k])' = Items(events[k])
          /\ Items(wire[conn[k]])' = Items(wire[conn[k]])
      BY <1>1 DEF Items
    <3> QED
      BY <1>1, <1>4, <3>1 DEF Echoes, HubCurrent, Current
  <2> QED
    BY <2>1, <2>2 DEF Calm, Echoes
<1>8. Told(k)'
  <2>1. SUFFICES ASSUME conn[k] \in members, last # NoClip PROVE Follows(k)'
    BY <1>1 DEF Told
  <2>2. Follows(k)
    BY <1>6, <2>1 DEF Calm, Told
  <2>3. CASE read[conn[k]] < Len(feed[conn[k]])
    BY <1>1, <2>2, <2>3 DEF Follows, End
  <2>4. CASE ~(read[conn[k]] < Len(feed[conn[k]]))
    <3>1. End(applying[k]) = last.change
      BY <1>1, <2>2, <2>4 DEF Follows
    <3>2. CASE applying'[k] # << >>
      <4>1. End(applying[k])' = End(applying'[k])
        BY DEF End
      <4>2. End(applying'[k]) = last.change
        BY <1>1, <1>3, <3>1, <3>2, EndFacts
      <4> QED
        BY <1>1, <2>4, <3>2, <4>1, <4>2 DEF Follows
    <3>3. CASE applying'[k] = << >>
      <4>1. c = last.change
        BY <1>1, <1>3, <3>1, <3>3, EndFacts DEF c
      <4> QED
        BY <1>1, <1>4, <2>4, <3>3, <4>1 DEF Follows
    <3> QED
      BY <3>2, <3>3
  <2> QED
    BY <2>3, <2>4
<1>9. ~Nothing
  BY <1>1 DEF Nothing
<1>10. \A d \in Conns : wire'[d] # << >> => \E j \in Clients : conn'[j] = d
  BY <1>1 DEF Calm
<1> QED
  BY <1>1, <1>2, <1>5, <1>7, <1>8, <1>9, <1>10, LocalStep

LEMMA ReportsCalm ==
    ASSUME TypeOK, Calm, NEW k \in Clients, ThreadReports(k), fresh'
    PROVE  Calm'
<1>0. ThreadTypeOK
  BY DEF TypeOK
<1> DEFINE m == thread[k]
           e == [kind |-> m, value |-> os[k][m]]
<1>1. /\ UNCHANGED <<conn, wire, feed, read, members, last, latest, inputs, os, applying, left>>
      /\ m \in Unseen(k) /\ m \in Media
  BY DEF ThreadReports, Report, netVars, Unseen
<1>2. \A j \in Clients \ {k} : Untouched(j)
  BY ThreadAlone DEF ThreadReports
<1>3. events'[k] = Append(events[k], e) /\ e \in Change
  <2>1. os[k][m] \in Values
    BY <1>0, <1>1 DEF Unseen, ThreadTypeOK, Offer
  <2>2. Len(events[k]) < EventCap
    BY DEF ThreadReports
  <2> QED
    BY <1>0, <1>1, <2>1, <2>2 DEF ThreadReports, Report, ThreadTypeOK, Change
<1>4. Items(events[k])' = Items(events[k]) \cup {e}
  <2>1. events[k] \in Seq(Change)
    BY <1>0 DEF ThreadTypeOK
  <2>2. Items(Append(events[k], e)) = Items(events[k]) \cup {e}
    BY <1>3, <2>1, ItemsFacts
  <2> QED
    BY <1>3, <2>2 DEF Items
<1>5. Unseen(k)' \subseteq Unseen(k)
  BY <1>0, <1>1 DEF ThreadReports, Report, Unseen, ThreadTypeOK, Offer
<1>6. ~Spoken(k) /\ ~Spoken(k)'
  <2>1. events[k] \in Seq(Change)
    BY <1>0 DEF ThreadTypeOK
  <2>2. events'[k] # << >>
    BY <1>3, <2>1, EndFacts
  <2> QED
    BY <1>1, <2>2 DEF Spoken
<1>7. Source(k) => Source(k)'
  <2>1. Source(k) => Current(e)
    BY <1>1 DEF Source, Current
  <2> QED
    BY <1>1, <1>4, <2>1 DEF Source, Current, Items
<1>8. Echoes(k) => Echoes(k)'
  <2>1. Echoes(k) => e = last.change
    BY <1>1 DEF Echoes
  <2>2. conn[k] # NoConn => Items(wire[conn[k]])' = Items(wire[conn[k]])
    BY <1>1 DEF Items
  <2> QED
    BY <1>1, <1>4, <1>5, <2>1, <2>2 DEF Echoes, HubCurrent, Current
<1>9. Told(k)'
  <2>1. Follows(k) => Follows(k)'
    BY <1>1 DEF Follows, End
  <2> QED
    BY <1>1, <1>6, <1>7, <2>1 DEF Calm, Told
<1>10. ~Nothing
  <2>1. Nothing => os[k] = Blank
    BY DEF Nothing
  <2> QED
    BY <1>1, <2>1 DEF Unseen, Blank
<1>11. \A d \in Conns : wire'[d] # << >> => \E j \in Clients : conn'[j] = d
  BY <1>1 DEF Calm
<1>12. (Source(k)' \/ Echoes(k)') /\ \A j \in Clients \ {k} : Spoken(j)
  BY <1>6, <1>7, <1>8 DEF Calm
<1> QED
  BY <1>1, <1>2, <1>6, <1>9, <1>10, <1>11, <1>12, LocalStep

LEMMA PollsCalm ==
    ASSUME TypeOK, Calm, NEW k \in Clients, ThreadPolls(k) \/ (CallFails(k) /\ calm')
    PROVE  Calm'
<1>1. PassOver(k) \/ ReadFails(k)
  <2>1. Len(left[k]) = 0
    BY DEF Calm
  <2> QED
    BY <2>1 DEF ThreadPolls, CallFails
<1>2. UNCHANGED netVars /\ UNCHANGED <<latest, inputs, left>>
  BY <1>1 DEF ThreadPolls, CallFails, historyVars, PassOver, ReadFails
<1>3. \A j \in Clients : Untouched(j)
  BY <1>1, <1>2, ThreadAlone
<1> QED
  BY <1>2, <1>3, IdleStep DEF netVars

----------------------------------------------------------------------------
(* Steps of the connections *)

LEMMA ConnectCalm ==
    ASSUME TypeOK, NetInv, Calm, NEW k \in Clients, Connect(k)
    PROVE  Calm'
<1> DEFINE c == sessions + 1
           handed == IF last = NoClip THEN << >> ELSE <<last>>
<1>0. NetTypeOK
  BY DEF TypeOK
<1>1. /\ c \in Conns /\ c # NoConn /\ conn[k] = NoConn /\ conn'[k] = c
      /\ c \notin members /\ members' = members \cup {c}
      /\ feed[c] = << >> /\ feed'[c] = handed
      /\ UNCHANGED <<wire, read, last, latest, inputs, os, seen, events, applying, left>>
  BY <1>0 DEF Connect, Relay!Join, threadVars, historyVars, NetTypeOK, Conns, NoConn
<1>2. /\ \A j \in Clients \ {k} : conn'[j] = conn[j]
      /\ \A d \in Conns : d # c => feed'[d] = feed[d]
  BY <1>0 DEF Connect, Relay!Join, NetTypeOK
<1>3. wire[c] = << >>
  <2>1. c > sessions
    BY <1>0 DEF NetTypeOK
  <2> QED
    BY <1>1, <2>1 DEF NetInv
<1>4. ASSUME NEW j \in Clients PROVE conn[j] # c
  <2>1. conn[j] \in 0..sessions /\ sessions \in Nat
    BY <1>0 DEF NetInv, NetTypeOK
  <2> QED
    BY <2>1
<1> HIDE DEF c
<1>5. \A j \in Clients : Unseen(j)' = Unseen(j)
  BY <1>1 DEF Unseen
<1>6. \A j \in Clients \ {k} : Untouched(j) /\ (conn[j] \in members' <=> conn[j] \in members)
  BY <1>1, <1>2, <1>4, <1>5, ConnFacts DEF Untouched
<1>7. Spoken(k)' <=> Spoken(k)
  BY <1>1, <1>3, <1>5 DEF Spoken
<1>8. Echoes(k) => Echoes(k)'
  <2>1. Items(wire[c]) = {}
    BY <1>3 DEF Items
  <2>2. Items(wire[conn[k]])' = Items(wire[c]) /\ Items(events[k])' = Items(events[k])
    BY <1>1 DEF Items
  <2> QED
    BY <1>1, <1>5, <2>1, <2>2 DEF Echoes, HubCurrent, Current
<1>9. ~Source(k)
  BY <1>1, ConnFacts DEF Source
<1>10. Told(k)'
  <2>1. SUFFICES ASSUME last # NoClip PROVE Follows(k)'
    BY <1>1 DEF Told
  <2>2. read[c] = 0
    BY <1>0, <1>1 DEF NetTypeOK
  <2>3. feed'[c] = <<last>> /\ Len(feed'[c]) = 1 /\ End(feed'[c]) = last
    BY <1>1, <2>1 DEF End
  <2>4. End(feed[conn[k]])' = End(feed'[c])
    BY <1>1 DEF End
  <2> QED
    BY <1>1, <2>2, <2>3, <2>4 DEF Follows
<1>11. ~Spoken(k) => Echoes(k)' /\ \A j \in Clients \ {k} : Spoken(j)
  BY <1>8, <1>9 DEF Calm
<1>12. \A d \in Conns : wire'[d] # << >> => \E j \in Clients : conn'[j] = d
  BY <1>1, <1>2, ConnFacts DEF Calm
<1>13. Nothing => Nothing'
  BY <1>1, <1>2 DEF Nothing
<1> QED
  BY <1>1, <1>6, <1>7, <1>10, <1>11, <1>12, <1>13, LocalStep

LEMMA DisconnectCalm ==
    ASSUME TypeOK, NetInv, Calm, NEW k \in Clients, Disconnect(k), calm'
    PROVE  Calm'
<1>0. NetTypeOK
  BY DEF TypeOK
<1>1. /\ conn[k] # NoConn /\ conn'[k] = NoConn /\ Spoken(k)
      /\ UNCHANGED <<wire, read, feed, members, last, latest, inputs>>
      /\ UNCHANGED <<os, seen, events, applying, left>>
      /\ \A j \in Clients \ {k} : conn'[j] = conn[j]
  BY <1>0 DEF Disconnect, threadVars, NetTypeOK
<1>2. \A j \in Clients : Unseen(j)' = Unseen(j)
  BY <1>1 DEF Unseen
<1>3. \A j \in Clients \ {k} : Untouched(j) /\ (conn[j] \in members' <=> conn[j] \in members)
  BY <1>1, <1>2 DEF Untouched
<1>4. Spoken(k)'
  BY <1>1, <1>2 DEF Spoken
<1>5. Told(k)'
  BY <1>1, ConnFacts DEF Told
<1>6. \A d \in Conns : wire'[d] # << >> => \E j \in Clients : conn'[j] = d
  <2>1. \A d \in Conns : wire[d] # << >> => \E j \in Clients \ {k} : conn[j] = d
    BY <1>1 DEF Calm, Spoken
  <2> QED
    BY <1>1, <2>1
<1>7. Nothing => Nothing'
  BY <1>1 DEF Nothing
<1> QED
  BY <1>1, <1>3, <1>4, <1>5, <1>6, <1>7, LocalStep

LEMMA SendCalm ==
    ASSUME TypeOK, NetInv, Calm, NEW k \in Clients, Send(k)
    PROVE  Calm'
<1>0. NetTypeOK /\ ThreadTypeOK
  BY DEF TypeOK
<1> DEFINE c == conn[k]
           e == Head(events[k])
           w == [from |-> c, change |-> e]
<1>1. /\ c # NoConn /\ c \in Conns /\ events[k] # << >> /\ ~Spoken(k)
      /\ UNCHANGED <<conn, read, feed, members, last, latest, inputs, os, seen, applying, left>>
  BY ConnFacts DEF Send, historyVars, Spoken
<1>2. /\ events[k] \in Seq(Change) /\ e \in Change
      /\ e \in Items(events[k]) /\ Items(events[k])' \subseteq Items(events[k])
      /\ \A j \in Clients \ {k} : events'[j] = events[j]
  <2>1. events[k] \in Seq(Change)
    BY <1>0 DEF ThreadTypeOK
  <2>2. events'[k] = Tail(events[k]) /\ \A j \in Clients \ {k} : events'[j] = events[j]
    BY <1>0 DEF Send, ThreadTypeOK
  <2>3. e \in Items(events[k]) /\ Items(Tail(events[k])) \subseteq Items(events[k])
    BY <1>1, <2>1, ItemsFacts
  <2>4. Items(events[k])' = Items(Tail(events[k]))
    BY <2>2 DEF Items
  <2>5. Items(events[k]) \subseteq Change
    BY <2>1, ItemsFacts
  <2> QED
    BY <2>1, <2>2, <2>3, <2>4, <2>5
<1>3. Source(k) \/ Echoes(k)
  BY <1>1 DEF Calm
<1>4. (Source(k) => Current(e)) /\ (Echoes(k) => e = last.change /\ Current(e))
  BY <1>2 DEF Source, Echoes, HubCurrent
<1>5. e.kind # "files"
  <2>1. e.value \in Values /\ latest["files"] = None
    BY <1>2 DEF Calm, Change
  <2> QED
    BY <1>3, <1>4, <2>1 DEF Current
<1>6. \A d \in Conns : wire'[d] = IF d = c THEN Append(wire[c], w) ELSE wire[d]
  BY <1>0, <1>1, <1>5 DEF Send, NetTypeOK
<1>7. w \in Clips /\ wire[c] \in Seq(Clips)
  BY <1>0, <1>1, <1>2 DEF Clips, NetTypeOK
<1>8. wire'[c] # << >> /\ Items(wire[c])' = Items(wire[c]) \cup {w}
  <2>1. Append(wire[c], w) # << >> /\ Items(Append(wire[c], w)) = Items(wire[c]) \cup {w}
    BY <1>7, EndFacts, ItemsFacts
  <2>2. wire'[c] = Append(wire[c], w)
    BY <1>1, <1>6
  <2>3. Items(wire[c])' = Items(wire'[c])
    BY <1>1 DEF Items
  <2> QED
    BY <2>1, <2>2, <2>3
<1>9. w.change = e
  OBVIOUS
<1> HIDE DEF e, w
<1>10. \A j \in Clients : Unseen(j)' = Unseen(j)
  BY <1>1 DEF Unseen
<1>11. \A j \in Clients \ {k} : Untouched(j) /\ (conn[j] \in members' <=> conn[j] \in members)
  <2>1. \A j \in Clients \ {k} : conn[j] # NoConn => conn[j] \in Conns /\ conn[j] # c
    BY <1>1, ConnFacts DEF NetInv
  <2> QED
    BY <1>1, <1>2, <1>6, <1>10, <2>1 DEF Untouched
<1>12. ~Spoken(k)'
  BY <1>1, <1>8 DEF Spoken
<1>13. Source(k) => Source(k)'
  BY <1>1, <1>2, <1>4, <1>8, <1>9 DEF Source, Current
<1>14. Echoes(k) => Echoes(k)'
  BY <1>1, <1>2, <1>4, <1>8, <1>9, <1>10 DEF Echoes, HubCurrent, Current
<1>15. Told(k)'
  <2>1. Follows(k) => Follows(k)'
    BY <1>1 DEF Follows, End
  <2> QED
    BY <1>1, <1>12, <1>13, <2>1 DEF Calm, Told
<1>16. \A d \in Conns : wire'[d] # << >> => \E j \in Clients : conn'[j] = d
  BY <1>1, <1>6 DEF Calm
<1>17. ~Nothing
  BY <1>1 DEF Nothing
<1>18. \A j \in Clients \ {k} : Spoken(j)
  BY <1>1 DEF Calm
<1> QED
  BY <1>1, <1>3, <1>11, <1>12, <1>13, <1>14, <1>15, <1>16, <1>17, <1>18, LocalStep

LEMMA ReceiveCalm ==
    ASSUME TypeOK, NetInv, Calm, NEW k \in Clients, Receive(k)
    PROVE  Calm'
<1>0. NetTypeOK /\ ThreadTypeOK
  BY DEF TypeOK
<1> DEFINE c == conn[k]
           clip == feed[c][read[c] + 1]
<1>1. /\ c # NoConn /\ c \in Conns /\ read[c] < Len(feed[c])
      /\ UNCHANGED <<conn, wire, feed, members, last, latest, inputs, os, seen, events, left>>
  BY ConnFacts DEF Receive, historyVars
<1>2. /\ read'[c] = read[c] + 1
      /\ \A d \in Conns : d # c => read'[d] = read[d]
      /\ applying'[k] = Append(applying[k], clip.change)
      /\ \A j \in Clients \ {k} : applying'[j] = applying[j]
  BY <1>0, <1>1 DEF Receive, NetTypeOK, ThreadTypeOK
<1>3. /\ feed[c] \in Seq(Clips) /\ read[c] \in Nat /\ Len(feed[c]) \in Nat
      /\ applying[k] \in Seq(Change)
  BY <1>0, <1>1 DEF NetTypeOK, ThreadTypeOK
<1>4. clip.change \in Change
  <2>1. clip \in Clips
    BY <1>1, <1>3
  <2> QED
    BY <2>1 DEF Clips
<1>5. \A j \in Clients : Unseen(j)' = Unseen(j)
  BY <1>1 DEF Unseen
<1>6. \A j \in Clients \ {k} : Untouched(j) /\ (conn[j] \in members' <=> conn[j] \in members)
  <2>1. \A j \in Clients \ {k} : conn[j] # NoConn => conn[j] \in Conns /\ conn[j] # c
    BY <1>1, ConnFacts DEF NetInv
  <2> QED
    BY <1>1, <1>2, <1>5, <2>1 DEF Untouched
<1>7. Spoken(k)' <=> Spoken(k)
  BY <1>1, <1>5 DEF Spoken
<1>8. ~Source(k)
  BY <1>1, <1>3 DEF Source
<1>9. Echoes(k) => Echoes(k)'
  BY <1>1, <1>5 DEF Echoes, HubCurrent, Current, Items
<1>10. Told(k)'
  <2>1. SUFFICES ASSUME c \in members, last # NoClip PROVE Follows(k)'
    BY <1>1 DEF Told
  <2>2. End(feed[c]).change = last.change
    BY <1>1, <1>8, <2>1 DEF Calm, Told, Follows
  <2>3. CASE read[c] + 1 < Len(feed[c])
    BY <1>1, <1>2, <2>2, <2>3 DEF Follows, End
  <2>4. CASE ~(read[c] + 1 < Len(feed[c]))
    <3>1. read[c] + 1 = Len(feed[c])
      BY <1>1, <1>3, <2>4
    <3>2. clip.change = last.change
      BY <2>2, <3>1 DEF End
    <3> HIDE DEF clip
    <3>3. applying'[k] # << >> /\ End(applying'[k]) = clip.change
      BY <1>2, <1>3, <1>4, EndFacts
    <3>4. End(applying[k])' = End(applying'[k])
      BY DEF End
    <3> QED
      BY <1>1, <1>2, <2>4, <3>2, <3>3, <3>4 DEF Follows
  <2> QED
    BY <2>3, <2>4
<1>11. ~Nothing
  <2>1. feed[c] # << >>
    BY <1>1, <1>3
  <2> QED
    BY <1>1, <2>1 DEF Nothing
<1>12. \A d \in Conns : wire'[d] # << >> => \E j \in Clients : conn'[j] = d
  BY <1>1 DEF Calm
<1>13. ~Spoken(k) => Echoes(k)' /\ \A j \in Clients \ {k} : Spoken(j)
  BY <1>8, <1>9 DEF Calm
<1> QED
  BY <1>1, <1>6, <1>7, <1>10, <1>11, <1>12, <1>13, LocalStep

\* A client that starts again with a copy on its clipboard reports it again:
\* all was quiet, so that it is the clip which the server has.
LEMMA RestartCalm ==
    ASSUME TypeOK, NetInv, Calm, NEW k \in Clients, Restart(k), calm'
    PROVE  Calm'
<1>0. NetTypeOK /\ ThreadTypeOK
  BY DEF TypeOK
<1>1. Quiet /\ \A m, n \in Offered(os[k]) : m = n
  BY DEF Restart
<1>2. /\ UNCHANGED <<wire, read, feed, members, last, latest, inputs, os, left>>
      /\ seen'[k] = Blank /\ events'[k] = << >> /\ applying'[k] = << >> /\ conn'[k] = NoConn
  <2>1. Begin(k)
    BY DEF Restart, StartThread, ReplaceThread
  <2>2. left' = left
    <3>1. applying[k] = << >> /\ left[k] = << >>
      BY <1>1 DEF Quiet, Calm
    <3> QED
      BY <1>0, <3>1 DEF Restart, StartThread, ReplaceThread, ThreadTypeOK
  <2> QED
    BY <1>0, <2>1, <2>2 DEF Restart, Begin, ThreadTypeOK, NetTypeOK
<1>3. ASSUME NEW j \in Clients \ {k}
      PROVE  /\ seen'[j] = seen[j] /\ events'[j] = events[j] /\ applying'[j] = applying[j]
             /\ conn'[j] = conn[j]
  BY <1>0 DEF Restart, StartThread, ReplaceThread, Begin, ThreadTypeOK, NetTypeOK
<1>4. \A j \in Clients \ {k} : Unseen(j)' = Unseen(j)
  BY <1>2, <1>3 DEF Unseen
<1>5. \A j \in Clients \ {k} : Untouched(j) /\ (conn[j] \in members' <=> conn[j] \in members)
  BY <1>2, <1>3, <1>4 DEF Untouched
<1>6. \A j \in Clients : Spoken(j)
  BY <1>1 DEF Quiet
<1>7. Unseen(k)' = Offered(os[k])
  BY <1>2 DEF Unseen, Offered, Blank
<1>8. ~Spoken(k)' => inputs > 0
  <2>1. Nothing => os[k] = Blank
    BY DEF Nothing
  <2>2. os[k] = Blank => Offered(os[k]) = {}
    BY DEF Offered, Blank
  <2>3. Nothing => Spoken(k)'
    BY <1>2, <1>7, <2>1, <2>2 DEF Spoken
  <2>4. inputs \in Nat
    BY DEF TypeOK, HistoryTypeOK
  <2> QED
    BY <2>3, <2>4 DEF Calm
<1>9. ASSUME inputs > 0 PROVE Echoes(k)'
  <2>1. HubCurrent
    BY <1>6, <1>9 DEF Calm
  <2>2. os[k][last.change.kind] = last.change.value
    <3>1. conn[k] \in members /\ read[conn[k]] = Len(feed[conn[k]]) /\ applying[k] = << >>
      BY <1>1 DEF Quiet
    <3>2. Follows(k)
      BY <1>6, <2>1, <3>1 DEF Calm, Told, HubCurrent
    <3>3. read[conn[k]] \in Nat
      BY <1>0, <3>1, ConnFacts DEF NetTypeOK
    <3> QED
      BY <3>1, <3>2, <3>3 DEF Follows
  <2>3. last.change \in Change
    BY <1>0, <2>1 DEF HubCurrent, NetTypeOK, Clips
  <2>4. last.change.kind \in Offered(os[k])
    BY <2>2, <2>3 DEF Change, Offered
  <2>5. \A m \in Unseen(k)' : [kind |-> m, value |-> os[k][m]] = last.change
    <3>1. \A m \in Offered(os[k]) : m = last.change.kind
      BY <1>1, <2>4
    <3>2. last.change = [kind |-> last.change.kind, value |-> last.change.value]
      BY <2>3 DEF Change
    <3> QED
      BY <1>7, <2>2, <3>1, <3>2
  <2>6. Items(events[k])' = {}
    BY <1>2 DEF Items
  <2> QED
    BY <1>2, <2>1, <2>5, <2>6 DEF Echoes, HubCurrent, Current
<1>10. Told(k)'
  BY <1>2, ConnFacts DEF Told
<1>11. \A d \in Conns : wire'[d] # << >> => \E j \in Clients : conn'[j] = d
  BY <1>1, <1>2 DEF Quiet
<1>12. Nothing => Nothing'
  <2>1. \A j \in Clients : events[j] = << >> /\ applying[j] = << >> =>
                              events'[j] = << >> /\ applying'[j] = << >>
    BY <1>2, <1>3
  <2> QED
    BY <1>2, <2>1 DEF Nothing
<1> QED
  BY <1>2, <1>5, <1>6, <1>8, <1>9, <1>10, <1>11, <1>12, LocalStep

LEMMA ForgetCalm ==
    ASSUME TypeOK, NetInv, Calm, NEW c \in Conns, Forget(c), calm'
    PROVE  Calm'
<1>0. NetTypeOK
  BY DEF TypeOK
<1>1. /\ UNCHANGED <<conn, read, feed, last, latest, inputs, os, seen, events, applying, left>>
      /\ members' = members \ {c} /\ wire[c] = << >>
      /\ \A j \in Clients : conn[j] = c => Spoken(j)
  BY DEF Forget, Relay!Leave, threadVars
<1>2. wire' = wire
  BY <1>0, <1>1 DEF Forget, NetTypeOK
<1>3. \A j \in Clients : Unseen(j)' = Unseen(j)
  BY <1>1 DEF Unseen
<1>4. \A j \in Clients : Untouched(j)
  BY <1>1, <1>2, <1>3 DEF Untouched
<1>5. \A j \in Clients : Spoken(j)' <=> Spoken(j)
  BY <1>4, Kept
<1>6. ASSUME NEW j \in Clients, ~Spoken(j)
      PROVE  (Source(j) => Source(j)') /\ (Echoes(j) => Echoes(j)')
  <2>1. Source(j) => conn[j] \in members'
    BY <1>1, <1>6 DEF Source
  <2> QED
    BY <1>1, <1>4, <2>1, Kept
<1>7. \A j \in Clients : Spoken(j)' \/ Source(j)' \/ Echoes(j)'
  BY <1>5, <1>6 DEF Calm
<1>8. ASSUME NEW j \in Clients PROVE Told(j)'
  <2>1. SUFFICES ASSUME conn[j] \in members', last # NoClip
                 PROVE  Follows(j)' \/ (~Spoken(j)' /\ Source(j)')
    BY <1>1 DEF Told
  <2>2. conn[j] \in members
    BY <1>1, <2>1
  <2>3. Follows(j) \/ (~Spoken(j) /\ Source(j))
    BY <2>1, <2>2 DEF Calm, Told
  <2> QED
    BY <1>1, <1>4, <1>5, <1>6, <2>2, <2>3, Kept
<1>9. HubCurrent' <=> HubCurrent
  BY <1>1 DEF HubCurrent, Current
<1>10. Nothing => Nothing'
  BY <1>1, <1>2 DEF Nothing
<1> QED
  BY <1>1, <1>2, <1>5, <1>7, <1>8, <1>9, <1>10 DEF Calm

----------------------------------------------------------------------------
(* A copy, and its arrival at the server *)

LEMMA CopyCalm ==
    ASSUME TypeOK, Calm, NEW k \in Clients, NEW content \in Copyable, UserCopies(k, content),
           calm', fresh'
    PROVE  Calm'
<1>0. ThreadTypeOK
  BY DEF TypeOK
<1>1. /\ Quiet /\ content["files"] = None /\ content # Blank
      /\ latest' = content /\ inputs' = inputs + 1 /\ inputs \in Nat
      /\ UNCHANGED <<conn, wire, read, feed, members, last, seen, events, applying, left>>
      /\ os'[k] = content /\ \A j \in Clients \ {k} : os'[j] = os[j]
  <2>1. inputs \in Nat
    BY DEF TypeOK, HistoryTypeOK
  <2>2. os'[k] = content /\ \A j \in Clients \ {k} : os'[j] = os[j]
    BY <1>0 DEF UserCopies, Copy, ThreadTypeOK
  <2> QED
    BY <2>1, <2>2 DEF UserCopies, Copy, netVars
<1>2. Unseen(k)' # {}
  BY <1>1, FreshlyUnseen
<1>3. \A j \in Clients \ {k} : Unseen(j)' = Unseen(j)
  BY <1>1 DEF Unseen
<1>4. \A j \in Clients \ {k} : Untouched(j)
  BY <1>1, <1>3 DEF Untouched
<1>5. ~Spoken(k)' /\ \A j \in Clients \ {k} : Spoken(j)'
  <2>1. \A j \in Clients : Spoken(j)
    BY <1>1 DEF Quiet
  <2> QED
    BY <1>2, <1>4, <2>1, Kept DEF Spoken
<1>6. Source(k)'
  <2>1. /\ conn[k] \in members /\ applying[k] = << >> /\ read[conn[k]] = Len(feed[conn[k]])
        /\ events[k] = << >> /\ wire[conn[k]] = << >>
    BY <1>1, ConnFacts DEF Quiet, Spoken
  <2>2. Items(events[k])' = {} /\ Items(wire[conn[k]])' = {}
    BY <1>1, <2>1 DEF Items
  <2> QED
    BY <1>1, <2>1, <2>2 DEF Source
<1>7. ASSUME NEW j \in Clients PROVE Told(j)'
  <2>1. CASE j = k
    BY <1>5, <1>6, <2>1 DEF Told
  <2>2. CASE j # k
    <3>1. SUFFICES ASSUME conn[j] \in members, last # NoClip PROVE Follows(j)'
      BY <1>1 DEF Told
    <3>2. Follows(j)
      BY <1>1, <3>1 DEF Calm, Told, Quiet
    <3> QED
      BY <1>1, <1>4, <2>2, <3>1, <3>2, Kept
  <2> QED
    BY <2>1, <2>2
<1>8. inputs' > 0
  BY <1>1
<1>9. \A c \in Conns : wire'[c] = << >>
  BY <1>1 DEF Quiet
<1>10. \A i, j \in Clients : Spoken(i)' \/ Spoken(j)' \/ i = j
  BY <1>5
<1> QED
  BY <1>1, <1>5, <1>6, <1>7, <1>8, <1>9, <1>10 DEF Calm

\* The server takes what the one machine with something to tell sent it, and
\* hands it to everybody else.
LEMMA TakeCalm ==
    ASSUME TypeOK, NetInv, Calm, NEW c \in Conns, Take(c)
    PROVE  Calm'
<1>0. NetTypeOK
  BY DEF TypeOK
<1> DEFINE clip == Head(wire[c])
<1>1. /\ wire[c] # << >>
      /\ UNCHANGED <<conn, read, members, latest, inputs, os, seen, events, applying, left>>
  BY DEF Take, Relay!Publish, threadVars, historyVars
<1>2. /\ clip \in Clips /\ clip \in Items(wire[c]) /\ clip.from = c
      /\ \A d \in Conns : d # c => wire'[d] = wire[d]
      /\ Items(wire'[c]) \subseteq Items(wire[c])
      /\ last' = clip
      /\ \A d \in Conns \ members : feed'[d] = feed[d]
      /\ feed'[c] = feed[c] /\ \A d \in members \ {c} : feed'[d] = Append(feed[d], clip)
  BY Taken DEF NetInv
<1> HIDE DEF clip
<1>3. PICK k \in Clients : conn[k] = c
  BY <1>1 DEF Calm
<1>4. c # NoConn /\ \A j \in Clients \ {k} : conn[j] # c
  BY <1>3, ConnFacts DEF NetInv
<1>5. ~Spoken(k) /\ \A j \in Clients \ {k} : Spoken(j)
  <2>1. ~Spoken(k)
    BY <1>1, <1>3, <1>4 DEF Spoken
  <2> QED
    BY <2>1 DEF Calm
<1>6. \A j \in Clients : Unseen(j)' = Unseen(j)
  BY <1>1 DEF Unseen
<1>7. \A j \in Clients \ {k} : Spoken(j)'
  BY <1>1, <1>2, <1>4, <1>5, <1>6, ConnFacts DEF Spoken
<1>8. Source(k) \/ (Echoes(k) /\ clip.change = last.change)
  <2>1. Source(k) \/ Echoes(k)
    BY <1>5 DEF Calm
  <2> QED
    BY <1>2, <1>3, <1>4, <2>1 DEF Echoes
<1>9. Current(clip.change)
  BY <1>2, <1>3, <1>8 DEF Source, Echoes, HubCurrent
<1>10. HubCurrent'
  <2>1. clip # NoClip
    BY <1>2, <1>4 DEF NoClip
  <2> QED
    BY <1>1, <1>2, <1>9, <2>1 DEF HubCurrent, Current
<1>11. Items(events[k])' = Items(events[k]) /\ Items(wire[conn[k]])' \subseteq Items(wire[conn[k]])
  <2>1. Items(wire[conn[k]])' = Items(wire'[c])
    BY <1>1, <1>3 DEF Items
  <2>2. Items(events[k])' = Items(events[k])
    BY <1>1 DEF Items
  <2> QED
    BY <1>2, <1>3, <2>1, <2>2
<1>12. Source(k) => Source(k)'
  BY <1>1, <1>2, <1>3, <1>11 DEF Source, Current
<1>13. Echoes(k) /\ clip.change = last.change => Echoes(k)'
  BY <1>1, <1>2, <1>6, <1>10, <1>11 DEF Echoes
<1>14. Told(k)'
  <2>1. SUFFICES ASSUME c \in members PROVE Follows(k)' \/ (~Spoken(k)' /\ Source(k)')
    BY <1>1, <1>3 DEF Told
  <2>2. CASE Source(k)
    <3>1. os[k][clip.change.kind] = clip.change.value
      BY <1>9, <2>2 DEF Source, Current
    <3>2. read[c] \in Nat /\ read'[c] = Len(feed'[c]) /\ applying'[k] = << >>
      BY <1>0, <1>1, <1>2, <1>3, <2>2 DEF Source, NetTypeOK
    <3> QED
      BY <1>1, <1>2, <1>3, <3>1, <3>2 DEF Follows
  <2>3. CASE ~Source(k)
    <3>1. Follows(k)
      BY <1>3, <1>8, <2>1, <2>3 DEF Calm, Told, Echoes, HubCurrent
    <3>2. End(feed[c])' = End(feed[c]) /\ End(applying[k])' = End(applying[k])
      BY <1>1, <1>2, <1>3 DEF End
    <3> QED
      BY <1>1, <1>2, <1>3, <1>8, <2>3, <3>1, <3>2 DEF Follows
  <2> QED
    BY <2>2, <2>3
<1>15. ASSUME NEW j \in Clients \ {k} PROVE Told(j)'
  <2> DEFINE d == conn[j]
  <2>1. SUFFICES ASSUME d \in members PROVE Follows(j)'
    BY <1>1 DEF Told
  <2>2. d \in Conns /\ d # c /\ feed[d] \in Seq(Clips)
    BY <1>0, <1>4, <2>1, ConnFacts DEF NetTypeOK
  <2>3. feed'[d] = Append(feed[d], clip)
    BY <1>2, <2>1, <2>2
  <2>4. End(feed'[d]) = clip /\ Len(feed'[d]) = Len(feed[d]) + 1
    BY <1>2, <2>2, <2>3, EndFacts
  <2>5. read'[d] < Len(feed'[d])
    BY <1>0, <1>1, <2>2, <2>4 DEF NetTypeOK
  <2>6. End(feed[conn[j]])' = End(feed'[d])
    BY <1>1 DEF End
  <2> QED
    BY <1>1, <1>2, <2>4, <2>5, <2>6 DEF Follows
<1>16. \A j \in Clients : Told(j)'
  BY <1>14, <1>15
<1>17. \A j \in Clients : Spoken(j)' \/ Source(j)' \/ Echoes(j)'
  BY <1>7, <1>8, <1>12, <1>13
<1>18. \A d \in Conns : wire'[d] # << >> => \E j \in Clients : conn'[j] = d
  BY <1>1, <1>2, <1>3 DEF Calm
<1>19. ~Nothing
  BY <1>1 DEF Nothing
<1>20. latest'["files"] = None /\ inputs' # 0 /\ \A j \in Clients : left'[j] = << >>
  BY <1>1, <1>19 DEF Calm
<1>21. \A i, j \in Clients : Spoken(i)' \/ Spoken(j)' \/ i = j
  BY <1>7
<1> QED
  BY <1>10, <1>16, <1>17, <1>18, <1>20, <1>21 DEF Calm

\* calm and fresh, once lost, do not come back.
LEMMA StillCalm ==
    ASSUME TypeOK, NEW k \in Clients, ClientStep(k), calm', fresh'
    PROVE  calm /\ fresh
BY DEF ClientStep, UserCopies, FilesSaved, ThreadApplies, ThreadReports, ThreadPolls, CallFails,
       EarlierApplies, Connect, Disconnect, Send, Receive, Restart, historyVars

LEMMA ClientCalmStep ==
    ASSUME TypeOK, NetInv, Calm, NEW k \in Clients, ClientStep(k), calm', fresh'
    PROVE  Calm'
<1>1. CASE \E content \in Copyable : UserCopies(k, content)
  BY <1>1, CopyCalm
<1>2. CASE \E paths : FilesSaved(k, paths)
  BY <1>2 DEF FilesSaved
<1>3. CASE ThreadApplies(k) \/ ThreadReports(k) \/ ThreadPolls(k) \/ CallFails(k)
  BY <1>3, AppliesCalm, ReportsCalm, PollsCalm
<1>4. CASE Connect(k) \/ Disconnect(k) \/ Send(k) \/ Receive(k) \/ Restart(k)
  BY <1>4, ConnectCalm, DisconnectCalm, SendCalm, ReceiveCalm, RestartCalm
<1>5. ~EarlierApplies(k)
  <2>1. Len(left[k]) = 0
    BY DEF Calm
  <2> QED
    BY <2>1 DEF EarlierApplies
<1> QED
  BY <1>1, <1>2, <1>3, <1>4, <1>5 DEF ClientStep

LEMMA CalmStep == TypeOK /\ CalmInv /\ [Next]_vars => CalmInv'
<1> SUFFICES ASSUME TypeOK, CalmInv, [Next]_vars PROVE CalmInv'
  OBVIOUS
<1>0. NetInv
  BY DEF CalmInv
<1>1. ASSUME NEW k \in Clients, ClientStep(k) PROVE CalmInv'
  <2>1. NetInv'
    BY <1>0, <1>1, NetClientStep
  <2>2. calm' /\ fresh' => Calm'
    BY <1>0, <1>1, StillCalm, ClientCalmStep DEF CalmInv
  <2> QED
    BY <2>1, <2>2 DEF CalmInv
<1>2. ASSUME NEW c \in Conns, Forget(c) \/ Take(c) PROVE CalmInv'
  <2>1. NetInv'
    BY <1>0, <1>2, NetServerStep
  <2>2. calm' /\ fresh' => calm /\ fresh
    BY <1>2 DEF Forget, Take, historyVars
  <2>3. calm' /\ fresh' => Calm'
    BY <1>0, <1>2, <2>2, ForgetCalm, TakeCalm DEF CalmInv
  <2> QED
    BY <2>1, <2>3 DEF CalmInv
<1>3. CASE UNCHANGED vars
  <2>1. UNCHANGED <<os, seen, applying, events, left, conn, sessions, wire, read, last,
                    members, feed, inputs, latest, calm, fresh>>
    BY <1>3 DEF vars, threadVars, netVars, historyVars
  <2>2. NetInv'
    BY <1>0, <2>1 DEF NetInv, Items
  <2>3. \A j \in Clients : Untouched(j)
    BY <2>1 DEF Untouched, Unseen
  <2>4. Calm => Calm'
    BY <2>1, <2>3, IdleStep
  <2> QED
    BY <2>1, <2>2, <2>4 DEF CalmInv
<1> QED
  BY <1>1, <1>2, <1>3 DEF Next, ClientStep

\* When all is quiet, nobody has anything left to tell, so that the server has
\* the copy, and nobody has anything left to apply, so that all have the same.
LEMMA QuietAgrees == TypeOK /\ Calm /\ Quiet => Agreement
<1> SUFFICES ASSUME TypeOK, Calm, Quiet, inputs > 0
             PROVE  \E m \in Offered(latest) : \A k \in Clients : os[k][m] = latest[m]
  BY DEF Agreement
<1>1. HubCurrent
  BY DEF Calm, Quiet
<1> DEFINE m == last.change.kind
<1>2. last.change \in Change
  BY <1>1 DEF HubCurrent, TypeOK, NetTypeOK, Clips
<1>3. m \in Offered(latest) /\ latest[m] = last.change.value
  BY <1>1, <1>2 DEF HubCurrent, Current, Change, Offered
<1>4. ASSUME NEW k \in Clients PROVE os[k][m] = latest[m]
  <2>1. /\ conn[k] \in members /\ Spoken(k)
        /\ read[conn[k]] = Len(feed[conn[k]]) /\ applying[k] = << >>
    BY DEF Quiet
  <2>2. Follows(k)
    BY <1>1, <2>1 DEF Calm, Told, HubCurrent
  <2>3. read[conn[k]] \in Nat
    BY <2>1, ConnFacts DEF TypeOK, NetTypeOK
  <2> QED
    BY <1>3, <2>1, <2>2, <2>3 DEF Follows
<1> QED
  BY <1>3, <1>4

----------------------------------------------------------------------------
(* The theorems *)

\* All state stays within its types; in particular no thread's event queue
\* exceeds its buffer and a client never reads past what it was told.
THEOREM TypeCorrect == Spec => []TypeOK
<1>1. IInv => TypeOK
  BY DEF IInv
<1> QED
  BY <1>1, InductiveInvariant, PTL

\* Echo suppression in clipboard.rs: over any number of machines, clips applied,
\* reconnects and failing calls, a thread never reports more than was copied on
\* its own machine, or found there when it started.
THEOREM NoEchoEver == Spec => []NoEcho
<1>1. IInv => NoEcho
  <2> SUFFICES ASSUME IInv, NEW k \in Clients PROVE reports[k] <= offered[k]
    BY DEF NoEcho
  <2>1. reports[k] \in Nat /\ offered[k] \in Nat /\ Charged(k)
    BY DEF IInv, TypeOK, HistoryTypeOK
  <2> QED
    BY <2>1, UnseenCount DEF Charged
<1> QED
  BY <1>1, InductiveInvariant, PTL

\* poll_clipboard records a value as seen when it reports it, and apply_change
\* when it writes it: what a clipboard holds and its thread will not report any
\* more was reported, or came from a peer.
THEOREM CopiesReported == Spec => []FreshCopiesReported
<1>1. Init => FreshCopiesReported
  BY DEF Init, ThreadInit, FreshCopiesReported, Accounted, Blank
<1>2. IInv /\ FreshCopiesReported /\ [Next]_vars => FreshCopiesReported'
  BY ReportedInductive DEF IInv
<1> QED
  BY <1>1, <1>2, InductiveInvariant, PTL DEF Spec

\* Echo suppression in clipboard.rs, the register and the welcome of hub.rs and
\* the supervisor's queues together: copies that are made one at a time, each
\* when the one before has arrived everywhere, end up on every machine, over
\* reconnects and restarts on the way, however many machines there are.
THEOREM CalmCopiesEverywhere == Spec => []CalmCopiesArrive
<1>1. IInv => TypeOK
  BY DEF IInv
<1>2. IInv /\ CalmInv /\ [Next]_vars => CalmInv'
  BY CalmStep DEF IInv
<1>3. IInv /\ CalmInv => CalmCopiesArrive
  BY QuietAgrees DEF IInv, CalmInv, CalmCopiesArrive
<1> QED
  BY <1>2, <1>3, NetInit, InductiveInvariant, PTL DEF Spec
============================================================================
