----------------------- MODULE AndroidService_proofs -----------------------
(***************************************************************************)
(* Theorems about AndroidService, for any texts, images, encoding, copies  *)
(* and clips, and also when a send on request and an automatic one are     *)
(* under way together: the types, and SentBackOnlyWhenOvertaken.           *)
(*                                                                         *)
(* SentBackOnlyWhenOvertaken is not inductive: what is on its way to the   *)
(* hub has been read before, and judged before it is sent.  IInv says of   *)
(* everything that was read that the newest clip in it is the one the      *)
(* service takes for the last received, and of a send that has been        *)
(* decided that it goes back in one of the ways the property allows.       *)
(***************************************************************************)
EXTENDS AndroidService, TLAPS

\* What a copy of the clipboard holds: nothing, or a value, which is the last
\* received when its number is the newest.
Holds(item) ==
    \/ item = NoItem
    \/ /\ item.is \in Values
       /\ item.n <= newest
       /\ (item.n = newest /\ newest # 0) => item.is = received

\* A clip that is not on the clipboard yet, and a change not heard of, were
\* received or copied.
Counted == notices + (IF applying = NoItem THEN 0 ELSE 1) <= copies + newest

\* The ways of SentBackOnlyWhenOvertaken, for one item.
Allowed(item, way, overtaken) ==
    item.n > 0 => IF item.is \in Texts THEN way = "MANUAL" \/ overtaken
                                       ELSE way = "listener"

\* A send that was decided has a payload, which may go back.
DecidedWell(a, trigger) ==
    a.decided => a.item # NoItem /\ Allowed(a.item, trigger, a.overtaken)

AttemptWell ==
    \A t \in Triggers : Holds(attempt[t].item) /\ DecidedWell(attempt[t], t)

IInv ==
    /\ TypeOK
    /\ Holds(os) /\ Holds(noticed) /\ Holds(applying)
    /\ Counted
    /\ AttemptWell
    /\ SentBackOnlyWhenOvertaken

USE AndroidAssumption

LEMMA EncodedType == \A v \in Values : Encoded(v) \in Values
BY DEF Values

LEMMA NoItemType == NoItem \in Items /\ NoItem.n = 0 /\ NoItem.is \notin Values
BY DEF NoItem, Items

LEMMA NoAttemptType ==
    NoAttempt \in Attempts /\ NoAttempt.item = NoItem /\ NoAttempt.decided = FALSE
BY NoItemType DEF NoAttempt, Attempts

LEMMA IInvInit == Init => IInv
<1> SUFFICES ASSUME Init PROVE IInv
  OBVIOUS
<1> USE NoItemType, NoAttemptType DEF Init
<1>1. TypeOK
  <2>1. {alive, registered, ready, cont, connected, missed} \subseteq BOOLEAN
    OBVIOUS
  <2>2. attempt \in [Triggers -> Attempts]
    OBVIOUS
  <2>3. notices \in 0..(MaxCopies + MaxClips) /\ newest \in 0..MaxClips /\ copies \in 0..MaxCopies
    OBVIOUS
  <2> QED
    BY <2>1, <2>2, <2>3 DEF TypeOK
<1>2. Holds(os) /\ Holds(noticed) /\ Holds(applying)
  BY DEF Holds
<1>3. Counted /\ AttemptWell /\ SentBackOnlyWhenOvertaken
  BY DEF Counted, AttemptWell, DecidedWell, Holds, SentBackOnlyWhenOvertaken
<1> QED
  BY <1>1, <1>2, <1>3 DEF IInv

----------------------------------------------------------------------------
(* The loop and the network know nothing of the clips *)

LEMMA LinkStep ==
    ASSUME IInv, LoopStep \/ JoinWifi \/ ChangeWifi \/ OnConnected \/ OnDisconnected
    PROVE  IInv'
<1>1. UNCHANGED <<life, clips>>
  BY DEF LoopStep, Check, Unpause, Dial, Suspend, Sleep, JoinWifi, ChangeWifi,
         OnConnected, OnDisconnected
<1>2. /\ {ready, cont, connected, missed}' \subseteq BOOLEAN
      /\ loop' \in {"checking", "paused", "dialling", "dialled", "suspended", "sleeping", "ended"}
      /\ wifi' \in {"gone", "joined", "default"}
      /\ socket' \in {"none", "live", "closing", "ended"}
  <2> USE DEF IInv, TypeOK, Goto
  <2>1. CASE LoopStep
    BY <2>1 DEF LoopStep, Check, Unpause, Dial, Suspend, Sleep
  <2>2. CASE JoinWifi \/ ChangeWifi \/ OnConnected \/ OnDisconnected
    BY <2>2 DEF JoinWifi, ChangeWifi, OnConnected, OnDisconnected
  <2> QED
    BY <2>1, <2>2
<1>3. TypeOK'
  BY <1>1, <1>2 DEF IInv, TypeOK, life, clips
<1>4. /\ Holds(os)' /\ Holds(noticed)' /\ Holds(applying)'
      /\ Counted' /\ AttemptWell' /\ SentBackOnlyWhenOvertaken'
  BY <1>1 DEF IInv, Holds, Counted, AttemptWell, DecidedWell, SentBackOnlyWhenOvertaken, clips
<1> QED
  BY <1>3, <1>4 DEF IInv

LEMMA StopStep == ASSUME IInv, ActionStop \/ OnDestroy PROVE IInv'
<1> USE DEF ActionStop, OnDestroy, Cancel
<1>1. UNCHANGED <<os, noticed, received, lastSent, applying, attempt, newest, copies, back>>
  BY DEF clips
<1>2. TypeOK'
  <2>1. {alive, registered, ready, cont, connected, missed}' \subseteq BOOLEAN
    BY DEF IInv, TypeOK
  <2>2. /\ loop' \in {"checking", "paused", "dialling", "dialled", "suspended", "sleeping", "ended"}
        /\ socket' \in {"none", "live", "closing", "ended"}
        /\ wifi' = wifi
    BY DEF IInv, TypeOK
  <2>3. notices' \in 0..(MaxCopies + MaxClips)
    BY DEF IInv, TypeOK, clips
  <2> QED
    BY <1>1, <2>1, <2>2, <2>3 DEF IInv, TypeOK
<1>3. Holds(os)' /\ Holds(noticed)' /\ Holds(applying)' /\ AttemptWell'
      /\ SentBackOnlyWhenOvertaken'
  BY <1>1 DEF IInv, Holds, AttemptWell, DecidedWell, SentBackOnlyWhenOvertaken
<1>4. Counted'
  BY <1>1 DEF IInv, TypeOK, Counted, clips
<1> QED
  BY <1>2, <1>3, <1>4 DEF IInv

----------------------------------------------------------------------------
(* Clips from the hub, and copies *)

\* A clip that comes makes no read newer; a step that leaves the references and
\* the count alone leaves what is said of a read as it is.
LEMMA HoldsStays ==
    ASSUME IInv, NEW item \in Items, Holds(item),
           \/ newest' = newest + 1
           \/ newest' = newest /\ received' = received
    PROVE  \/ item = NoItem
           \/ /\ item.is \in Values
              /\ item.n <= newest'
              /\ (item.n = newest' /\ newest' # 0) => item.is = received'
BY DEF IInv, TypeOK, Holds, Items

LEMMA ReceiveStep == ASSUME IInv, NEW v \in Values, Receive(v) PROVE IInv'
<1> USE DEF Receive
<1>1. [is |-> v, n |-> newest'] \in Items /\ applying' # NoItem
  BY NoItemType DEF IInv, TypeOK, Items
<1>2. TypeOK'
  BY <1>1 DEF IInv, TypeOK, life, link
<1>3. Holds(applying)'
  BY <1>1 DEF Holds
<1>4. Holds(os)' /\ Holds(noticed)'
  BY HoldsStays DEF IInv, TypeOK, Holds
<1>5. AttemptWell'
  <2> SUFFICES ASSUME NEW t \in Triggers
               PROVE  Holds(attempt[t].item)' /\ DecidedWell(attempt[t], t)'
    BY DEF AttemptWell
  <2>1. attempt[t].item \in Items /\ Holds(attempt[t].item) /\ DecidedWell(attempt[t], t)
    BY DEF IInv, TypeOK, AttemptWell, Attempts
  <2> QED
    BY <2>1, HoldsStays DEF Holds, DecidedWell, Allowed
<1>6. Counted' /\ SentBackOnlyWhenOvertaken'
  BY <1>1 DEF IInv, TypeOK, Counted, SentBackOnlyWhenOvertaken
<1> QED
  BY <1>2, <1>3, <1>4, <1>5, <1>6 DEF IInv

LEMMA ApplyStep == ASSUME IInv, Apply PROVE IInv'
<1> USE DEF Apply
<1>1. TypeOK'
  BY NoItemType DEF IInv, TypeOK, life, link, Counted
<1>2. Holds(os)' /\ Holds(noticed)' /\ Holds(applying)' /\ AttemptWell'
  BY DEF IInv, Holds, AttemptWell, DecidedWell
<1>3. Counted' /\ SentBackOnlyWhenOvertaken'
  BY DEF IInv, TypeOK, Counted, SentBackOnlyWhenOvertaken
<1> QED
  BY <1>1, <1>2, <1>3 DEF IInv

LEMMA CopyStep == ASSUME IInv, NEW v \in Values, Copy(v) PROVE IInv'
<1> USE DEF Copy
<1> DEFINE item == [is |-> v, n |-> 0]
<1>1. item \in Items /\ item # NoItem /\ item.is \in Values /\ item.n = 0
  BY DEF Items, NoItem, Values
<1>2. TypeOK'
  BY <1>1 DEF IInv, TypeOK, life, link, Counted
<1>3. Holds(os)' /\ Holds(noticed)' /\ Holds(applying)' /\ AttemptWell'
  BY <1>1 DEF IInv, TypeOK, Holds, AttemptWell, DecidedWell
<1>4. Counted' /\ SentBackOnlyWhenOvertaken'
  BY DEF IInv, TypeOK, Counted, SentBackOnlyWhenOvertaken
<1> QED
  BY <1>2, <1>3, <1>4 DEF IInv

----------------------------------------------------------------------------
(* Clips to the hub *)

\* What the hub gets is noted in one of the ways that are allowed.
LEMMA SendsWell ==
    ASSUME IInv, NEW item \in Items, NEW way \in Triggers \union {"listener"},
           NEW overtaken \in BOOLEAN,
           Sends(item, way, overtaken), Allowed(item, way, overtaken)
    PROVE  /\ SentBackOnlyWhenOvertaken'
           /\ back' \subseteq [way: Triggers \union {"listener"}, overtaken: BOOLEAN,
                               medium: {"text", "image"}]
<1>1. CASE socket = "live" /\ item.n > 0
  <2> DEFINE b == [way |-> way, overtaken |-> overtaken,
                   medium |-> IF item.is \in Texts THEN "text" ELSE "image"]
  <2>1. back' = {b}
    BY <1>1 DEF Sends
  <2>2. IF b.medium = "image" THEN b.way = "listener" ELSE b.way = "MANUAL" \/ b.overtaken
    BY <1>1 DEF Allowed
  <2>3. b \in [way: Triggers \union {"listener"}, overtaken: BOOLEAN, medium: {"text", "image"}]
    OBVIOUS
  <2> HIDE DEF b
  <2> QED
    BY <2>1, <2>2, <2>3 DEF SentBackOnlyWhenOvertaken
<1>2. CASE ~(socket = "live" /\ item.n > 0)
  <2>1. back' = back
    BY <1>2 DEF Sends
  <2> QED
    BY <2>1 DEF IInv, TypeOK, SentBackOnlyWhenOvertaken
<1> QED
  BY <1>1, <1>2

LEMMA NoticeStep == ASSUME IInv, Notice PROVE IInv'
<1> USE DEF Notice
<1>1. TypeOK'
  BY NoItemType DEF IInv, TypeOK, life, link
<1>2. Holds(os)' /\ Holds(noticed)' /\ Holds(applying)' /\ AttemptWell'
  BY DEF IInv, Holds, AttemptWell, DecidedWell
<1>3. Counted' /\ SentBackOnlyWhenOvertaken'
  BY DEF IInv, TypeOK, Counted, SentBackOnlyWhenOvertaken
<1> QED
  BY <1>1, <1>2, <1>3 DEF IInv

\* A text that is not the last received is of the user, or overtaken.
LEMMA OtherTextOvertaken ==
    ASSUME IInv, NEW item \in Items, Holds(item), item # NoItem,
           item.is \in Texts, Encoded(item.is) # received, item.n > 0
    PROVE  Overtaken(item)
<1>1. item.is # received /\ item.n <= newest
  BY NoItemType DEF Holds
<1> QED
  BY <1>1 DEF IInv, TypeOK, Holds, Items, Overtaken

LEMMA ListenerStep == ASSUME IInv, OnLocalClipboardChanged PROVE IInv'
<1> USE DEF OnLocalClipboardChanged
<1> DEFINE fingerprint == Encoded(noticed.is)
<1>1. noticed \in Items /\ noticed.is \in Values /\ fingerprint \in Values
  BY EncodedType DEF IInv, TypeOK, Holds
<1>2. /\ lastSent' \in Values \union {None}
      /\ back' \subseteq [way: Triggers \union {"listener"}, overtaken: BOOLEAN,
                          medium: {"text", "image"}]
      /\ SentBackOnlyWhenOvertaken'
  <2>1. CASE fingerprint \in {lastSent, received}
    BY <2>1 DEF IInv, TypeOK, SentBackOnlyWhenOvertaken
  <2>2. CASE fingerprint \notin {lastSent, received}
    <3>1. Allowed(noticed, "listener", Overtaken(noticed))
      BY <1>1, <2>2, OtherTextOvertaken DEF IInv, Allowed
    <3>2. Overtaken(noticed) \in BOOLEAN
      BY DEF Overtaken
    <3> QED
      BY <1>1, <2>2, <3>1, <3>2, SendsWell
  <2> QED
    BY <2>1, <2>2
<1>3. TypeOK'
  BY <1>2, NoItemType DEF IInv, TypeOK, life, link
<1>4. Holds(os)' /\ Holds(noticed)' /\ Holds(applying)' /\ AttemptWell' /\ Counted'
  BY DEF IInv, TypeOK, Holds, AttemptWell, DecidedWell, Counted
<1> QED
  BY <1>2, <1>3, <1>4 DEF IInv

----------------------------------------------------------------------------
(* Sends on request and automatic ones *)

\* Only one attempt changes, to one of which the invariant holds.
LEMMA AttemptChanges ==
    ASSUME IInv, NEW trigger \in Triggers, NEW a \in Attempts,
           attempt' = [attempt EXCEPT ![trigger] = a],
           Holds(a.item), DecidedWell(a, trigger),
           UNCHANGED <<newest, received>>
    PROVE  attempt' \in [Triggers -> Attempts] /\ AttemptWell'
<1>1. attempt' \in [Triggers -> Attempts] /\ attempt'[trigger] = a
  BY DEF IInv, TypeOK
<1>2. \A t \in Triggers \ {trigger} : attempt'[t] = attempt[t]
  BY DEF IInv, TypeOK
<1>3. ASSUME NEW t \in Triggers
      PROVE  Holds(attempt[t].item)' /\ DecidedWell(attempt[t], t)'
  <2>1. CASE t = trigger
    BY <1>1, <2>1 DEF Holds, DecidedWell, Allowed
  <2>2. CASE t # trigger
    BY <1>2, <2>2 DEF IInv, AttemptWell, Holds, DecidedWell, Allowed
  <2> QED
    BY <2>1, <2>2
<1> QED
  BY <1>1, <1>3 DEF AttemptWell

LEMMA RequestStep ==
    ASSUME IInv, NEW trigger \in Triggers, Request(trigger)
    PROVE  IInv'
<1> USE DEF Request
<1> DEFINE a == [NoAttempt EXCEPT !.item = os]
<1>1. a \in Attempts /\ a.item = os /\ ~a.decided
  BY DEF IInv, TypeOK, NoAttempt, Attempts
<1>2. attempt' = [attempt EXCEPT ![trigger] = a]
  BY DEF MayStart, IInv, TypeOK
<1> HIDE DEF a
<1>3. attempt' \in [Triggers -> Attempts] /\ AttemptWell'
  BY <1>1, <1>2, AttemptChanges DEF IInv, DecidedWell
<1>4. TypeOK'
  BY <1>3 DEF IInv, TypeOK, life, link
<1>5. Holds(os)' /\ Holds(noticed)' /\ Holds(applying)' /\ Counted' /\ SentBackOnlyWhenOvertaken'
  BY DEF IInv, Holds, Counted, SentBackOnlyWhenOvertaken
<1> QED
  BY <1>3, <1>4, <1>5 DEF IInv

LEMMA ShareStep == ASSUME IInv, NEW v \in Values, Share(v) PROVE IInv'
<1> USE DEF Share
<1> DEFINE item == [is |-> v, n |-> 0]
           a == [NoAttempt EXCEPT !.item = item]
<1>1. item \in Items /\ item.is \in Values /\ item.n = 0
  BY DEF Items
<1>2. a \in Attempts /\ a.item = item /\ ~a.decided
  BY <1>1 DEF NoAttempt, Attempts
<1>3. attempt' = [attempt EXCEPT !["MANUAL"] = a]
  BY DEF MayStart, IInv, TypeOK
<1>4. Holds(item)
  BY <1>1 DEF IInv, TypeOK, Holds
<1> HIDE DEF a, item
<1>5. attempt' \in [Triggers -> Attempts] /\ AttemptWell'
  BY <1>2, <1>3, <1>4, AttemptChanges DEF IInv, DecidedWell, Triggers
<1>6. copies' \in 0..MaxCopies
  BY DEF IInv, TypeOK
<1>7. TypeOK'
  BY <1>5, <1>6 DEF IInv, TypeOK, life, link
<1>8. Holds(os)' /\ Holds(noticed)' /\ Holds(applying)' /\ Counted' /\ SentBackOnlyWhenOvertaken'
  BY DEF IInv, TypeOK, Holds, Counted, SentBackOnlyWhenOvertaken
<1> QED
  BY <1>5, <1>7, <1>8 DEF IInv

LEMMA DecideStep ==
    ASSUME IInv, NEW trigger \in Triggers, Decide(trigger)
    PROVE  IInv'
<1> USE DEF Decide
<1> DEFINE item == attempt[trigger].item
           a == [attempt[trigger] EXCEPT !.decided = TRUE, !.overtaken = Overtaken(item)]
<1>1. /\ attempt[trigger] \in Attempts
      /\ item \in Items /\ Holds(item) /\ item # NoItem
  BY DEF IInv, TypeOK, AttemptWell, Attempts
<1>2. attempt' \in [Triggers -> Attempts] /\ AttemptWell'
  <2>1. CASE attempt' = [attempt EXCEPT ![trigger] = NoAttempt]
    BY <2>1, NoAttemptType, AttemptChanges DEF DecidedWell, Holds
  <2>2. CASE /\ Decides(item, trigger)
             /\ attempt' = [attempt EXCEPT ![trigger].decided = TRUE,
                                           ![trigger].overtaken = Overtaken(item)]
    <3>1. a \in Attempts /\ a.item = item /\ a.overtaken = Overtaken(item)
      BY <1>1 DEF Attempts, Overtaken
    <3>2. attempt' = [attempt EXCEPT ![trigger] = a]
      BY <2>2 DEF IInv, TypeOK
    <3>3. Allowed(item, trigger, Overtaken(item))
      <4> SUFFICES ASSUME item.n > 0
                   PROVE  item.is \in Texts /\ (trigger = "MANUAL" \/ Overtaken(item))
        BY DEF Allowed
      <4>1. item.is \in Texts
        BY <1>1, <2>2 DEF Decides, Holds, Values
      <4>2. trigger # "MANUAL" => Encoded(item.is) # received
        BY <2>2 DEF Decides, Triggers
      <4> QED
        BY <1>1, <4>1, <4>2, OtherTextOvertaken
    <3> HIDE DEF a
    <3> QED
      BY <1>1, <3>1, <3>2, <3>3, AttemptChanges DEF DecidedWell
  <2> QED
    BY <2>1, <2>2
<1>3. TypeOK'
  BY <1>2 DEF IInv, TypeOK, life, link
<1>4. Holds(os)' /\ Holds(noticed)' /\ Holds(applying)' /\ Counted' /\ SentBackOnlyWhenOvertaken'
  BY DEF IInv, Holds, Counted, SentBackOnlyWhenOvertaken
<1> QED
  BY <1>2, <1>3, <1>4 DEF IInv

LEMMA SendStep ==
    ASSUME IInv, NEW trigger \in Triggers, SendFromForeground(trigger)
    PROVE  IInv'
<1> USE DEF SendFromForeground
<1> DEFINE a == attempt[trigger]
<1>1. /\ a.item \in Items /\ a.overtaken \in BOOLEAN
      /\ a.item.is \in Values /\ Allowed(a.item, trigger, a.overtaken)
  BY DEF IInv, TypeOK, AttemptWell, DecidedWell, Attempts, Holds
<1>2. /\ SentBackOnlyWhenOvertaken'
      /\ back' \subseteq [way: Triggers \union {"listener"}, overtaken: BOOLEAN,
                          medium: {"text", "image"}]
  BY <1>1, SendsWell
<1>3. attempt' \in [Triggers -> Attempts] /\ AttemptWell'
  BY NoAttemptType, AttemptChanges DEF DecidedWell, Holds
<1>4. TypeOK'
  BY <1>1, <1>2, <1>3, EncodedType DEF IInv, TypeOK, life, link
<1>5. Holds(os)' /\ Holds(noticed)' /\ Holds(applying)' /\ Counted'
  BY DEF IInv, Holds, Counted
<1> QED
  BY <1>2, <1>3, <1>4, <1>5 DEF IInv

----------------------------------------------------------------------------
LEMMA IInvStep == IInv /\ [Next]_vars => IInv'
<1> SUFFICES ASSUME IInv, [Next]_vars PROVE IInv'
  OBVIOUS
<1>1. CASE LoopStep \/ JoinWifi \/ ChangeWifi \/ OnConnected \/ OnDisconnected
  BY <1>1, LinkStep
<1>2. CASE ActionStop \/ OnDestroy
  BY <1>2, StopStep
<1>3. CASE \E v \in Values : Receive(v) \/ Copy(v) \/ Share(v)
  BY <1>3, ReceiveStep, CopyStep, ShareStep
<1>4. CASE Apply
  BY <1>4, ApplyStep
<1>5. CASE Notice
  BY <1>5, NoticeStep
<1>6. CASE OnLocalClipboardChanged
  BY <1>6, ListenerStep
<1>7. CASE \E trigger \in Triggers :
               Request(trigger) \/ Decide(trigger) \/ SendFromForeground(trigger)
  BY <1>7, RequestStep, DecideStep, SendStep
<1>8. CASE UNCHANGED vars
  <2>1. UNCHANGED <<life, link, clips>>
    BY <1>8 DEF vars
  <2> QED
    BY <2>1 DEF IInv, TypeOK, Holds, Counted, AttemptWell, DecidedWell,
                SentBackOnlyWhenOvertaken, life, link, clips
<1> QED
  BY <1>1, <1>2, <1>3, <1>4, <1>5, <1>6, <1>7, <1>8 DEF Next

LEMMA Invariance == Spec => []IInv
BY IInvInit, IInvStep, PTL DEF Spec

\* Every variable of the Android service keeps its type.
THEOREM TypeCorrect == Spec => []TypeOK
<1>1. IInv => TypeOK
  BY DEF IInv
<1> QED
  BY <1>1, Invariance, PTL

\* sendFromForeground and onLocalClipboardChanged: a clip of the hub goes back
\* to it only as a text the user asks to send, as an image that the listener
\* encodes anew, or as a text that another clip overtook between its being read
\* and its being judged, however reads, sends and clips interleave.
THEOREM SentBackOnlyOvertaken == Spec => []SentBackOnlyWhenOvertaken
<1>1. IInv => SentBackOnlyWhenOvertaken
  BY DEF IInv
<1> QED
  BY <1>1, Invariance, PTL

=============================================================================
