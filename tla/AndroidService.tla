--------------------------- MODULE AndroidService ---------------------------
(***************************************************************************)
(* The Android client (ClipboardSyncService.kt): a coroutine that dials    *)
(* and reconnects, OkHttp's threads that call back, the main thread that   *)
(* hears of changes of the clipboard, and the ways to send on request      *)
(* (SendBridge.kt, SendDecision.kt).                                       *)
(*                                                                         *)
(* A socket that has ended is not called back again, and its callbacks     *)
(* come one at a time: that is OkHttp's promise.  A frame that is sent is  *)
(* gone; what the hub makes of it is module HubServer.                     *)
(***************************************************************************)
EXTENDS FiniteSets, Naturals

CONSTANTS
    Texts, Images,     \* what can be copied
    Encoded(_),        \* a value as the listener encodes it for the hub
    None,              \* `null`
    ServerIsPrivate,   \* serverIsPrivate
    MaxCopies,         \* bound: copies and shares of the user
    MaxClips,          \* bound: clips received and not a repetition
    MaxPending         \* bound: sends under way, one on request and one automatic at most

Values == Texts \union Images

ASSUME AndroidAssumption ==
    /\ None \notin Values
    /\ \A v \in Texts : Encoded(v) = v
    /\ \A v \in Images : Encoded(v) \in Images /\ Encoded(Encoded(v)) = Encoded(v)
    /\ ServerIsPrivate \in BOOLEAN
    /\ {MaxCopies, MaxClips, MaxPending} \subseteq Nat

VARIABLES
    alive,       \* the scope of the service's coroutines is not cancelled
    registered,  \* SendBridge, the listener and the network callback know the service
    loop,        \* where connectLoop is
    wifi,        \* of the phone: "gone", "joined", "default" (the active network)
    ready,       \* networkReady holds its token
    cont,        \* disconnectCont is set
    socket,      \* wsHandler's: "none", "live", "closing", "ended"
    connected,   \* connected
    missed,      \* history: the socket ended when no continuation was set
    os,          \* the clipboard
    notices,     \* changes the main thread has not heard of
    noticed,     \* what the listener has read, before it decides
    received,    \* lastReceivedContent
    lastSent,    \* lastSentContent
    applying,    \* the clip between the two updates and setPrimaryClip
    attempt,     \* the sends that have read their payload: one on request, one automatic
    newest,      \* clips taken from the hub so far
    copies,      \* copies and shares so far
    back         \* history: how a clip of the hub last went back to it

life == <<alive, registered>>
link == <<loop, wifi, ready, cont, socket, connected, missed>>
clips == <<os, notices, noticed, received, lastSent, applying, attempt, newest, copies, back>>
vars == <<life, link, clips>>

\* n: the number of the clip received, 0 for what the user copied.
Items == [is: Values \union {None}, n: 0..MaxClips]
NoItem == [is |-> None, n |-> 0]

Triggers == {"MANUAL", "AUTO"}
Attempts == [item: Items, decided: BOOLEAN, overtaken: BOOLEAN]
NoAttempt == [item |-> NoItem, decided |-> FALSE, overtaken |-> FALSE]

\* A clip of the hub after which another has come.
Overtaken(item) == item.n > 0 /\ item.n < newest

Init ==
    /\ alive = TRUE
    /\ registered = TRUE
    /\ loop = "checking"
    /\ wifi \in {"gone", "joined", "default"}
    /\ ready = (wifi # "gone")
    /\ cont = FALSE
    /\ socket = "none"
    /\ connected = FALSE
    /\ missed = FALSE
    /\ os = NoItem
    /\ notices = 0
    /\ noticed = NoItem
    /\ received = None
    /\ lastSent = None
    /\ applying = NoItem
    /\ attempt = [t \in Triggers |-> NoAttempt]
    /\ newest = 0
    /\ copies = 0
    /\ back = {}

----------------------------------------------------------------------------
(* connectLoop *)

Goto(step) == loop' = step

\* hasWifi
Check ==
    /\ loop = "checking"
    /\ Goto(IF ServerIsPrivate /\ wifi # "default" THEN "paused" ELSE "dialling")
    /\ UNCHANGED <<life, wifi, ready, cont, socket, connected, missed, clips>>

\* The token is enough: hasWifi is not asked again.
Unpause ==
    /\ loop = "paused"
    /\ \/ alive /\ ready /\ ready' = FALSE /\ Goto("dialling")
       \/ ~alive /\ Goto("ended") /\ UNCHANGED ready
    /\ UNCHANGED <<life, wifi, cont, socket, connected, missed, clips>>

\* connect() returns at once.  Nothing up to here asks whether the service runs.
Dial ==
    /\ loop = "dialling"
    /\ socket' = "live"
    /\ Goto("dialled")
    /\ UNCHANGED <<life, wifi, ready, cont, connected, missed, clips>>

\* suspendCancellableCoroutine
Suspend ==
    /\ loop = "dialled"
    /\ IF alive THEN Goto("suspended") /\ cont' = TRUE
                ELSE Goto("ended") /\ UNCHANGED cont
    /\ UNCHANGED <<life, wifi, ready, socket, connected, missed, clips>>

\* delay(backoff)
Sleep ==
    /\ loop = "sleeping"
    /\ Goto("checking")
    /\ UNCHANGED <<life, wifi, ready, cont, socket, connected, missed, clips>>

LoopStep == Check \/ Unpause \/ Dial \/ Suspend \/ Sleep

----------------------------------------------------------------------------
(* The network and OkHttp *)

\* onAvailable comes when the phone has joined, which is before Android makes
\* the network its active one.
JoinWifi ==
    /\ wifi = "gone"
    /\ wifi' = "joined"
    /\ ready' = (ready \/ registered)
    /\ UNCHANGED <<life, loop, cont, socket, connected, missed, clips>>

ChangeWifi ==
    /\ \/ wifi = "joined" /\ wifi' = "default"
       \/ wifi # "gone" /\ wifi' = "gone"
    /\ UNCHANGED <<life, loop, ready, cont, socket, connected, missed, clips>>

OnConnected ==
    /\ socket = "live"
    /\ ~connected
    /\ connected' = TRUE
    /\ UNCHANGED <<life, loop, wifi, ready, cont, socket, missed, clips>>

\* Bug variant: the continuation is cleared before it is resumed.
OnDisconnectedCleared ==
    /\ socket \in {"live", "closing"}
    /\ socket' = "ended"
    /\ connected' = FALSE
    /\ cont' = FALSE
    /\ missed' = (missed \/ ~cont)
    /\ UNCHANGED <<life, loop, wifi, ready, clips>>

\* onFailure or onClosed, and resumeReconnect.  Between its two steps the loop
\* sleeps, for a second at least.
OnDisconnected ==
    /\ socket \in {"live", "closing"}
    /\ socket' = "ended"
    /\ connected' = FALSE
    /\ cont' = FALSE
    /\ missed' = (missed \/ ~cont)
    /\ loop' = IF cont /\ alive THEN "sleeping" ELSE loop
    /\ UNCHANGED <<life, wifi, ready, clips>>

----------------------------------------------------------------------------
(* The service stops *)

\* Cancelling reaches the loop where it waits, and close() the socket there is.
Cancel ==
    /\ alive' = FALSE
    /\ loop' = IF loop \in {"paused", "suspended", "sleeping"} THEN "ended" ELSE loop
    /\ socket' = IF socket = "live" THEN "closing" ELSE socket
    /\ UNCHANGED <<wifi, ready, cont, connected, missed>>

\* onStartCommand with ACTION_STOP.  The main thread is not inside the listener,
\* which stays registered, as does the network callback.
ActionStop ==
    /\ alive
    /\ noticed = NoItem
    /\ Cancel
    /\ UNCHANGED <<registered, clips>>

\* onDestroy, also without ACTION_STOP.
OnDestroy ==
    /\ registered
    /\ noticed = NoItem
    /\ registered' = FALSE
    /\ Cancel
    /\ notices' = 0
    /\ UNCHANGED <<os, noticed, received, lastSent, applying, attempt, newest, copies, back>>

----------------------------------------------------------------------------
(* Clips from the hub: applyInboundClip *)

\* The welcome's clip and every other; one that repeats the last changes nothing.
Receive(v) ==
    /\ connected
    /\ applying = NoItem
    /\ v # received
    /\ newest < MaxClips
    /\ newest' = newest + 1
    /\ received' = v
    /\ lastSent' = v
    /\ applying' = [is |-> v, n |-> newest']
    /\ UNCHANGED <<life, link, os, notices, noticed, attempt, copies, back>>

\* Bug variant: the listener is registered twice.
ApplyHeardTwice ==
    /\ applying # NoItem
    /\ applying' = NoItem
    /\ os' = applying
    /\ notices' = IF registered THEN notices + 2 ELSE notices
    /\ UNCHANGED <<life, link, noticed, received, lastSent, attempt, newest, copies, back>>

\* setPrimaryClip; an image may not decode.
Apply ==
    /\ applying # NoItem
    /\ applying' = NoItem
    /\ \/ /\ os' = applying
          /\ notices' = IF registered THEN notices + 1 ELSE notices
       \/ /\ applying.is \in Images
          /\ UNCHANGED <<os, notices>>
    /\ UNCHANGED <<life, link, noticed, received, lastSent, attempt, newest, copies, back>>

----------------------------------------------------------------------------
(* Clips to the hub *)

Copy(v) ==
    /\ copies < MaxCopies
    /\ copies' = copies + 1
    /\ os' = [is |-> v, n |-> 0]
    /\ notices' = IF registered THEN notices + 1 ELSE notices
    /\ UNCHANGED <<life, link, noticed, received, lastSent, applying, attempt, newest, back>>

\* The hub gets what the phone holds.  It is noted of the last clip that came from it.
Sends(item, way, overtaken) ==
    back' = IF socket = "live" /\ item.n > 0
            THEN {[way |-> way, overtaken |-> overtaken,
                   medium |-> IF item.is \in Texts THEN "text" ELSE "image"]}
            ELSE back

\* onLocalClipboardChanged, on the main thread; the clipboard of another app
\* can be read only while this one has the focus.
Notice ==
    /\ registered
    /\ notices > 0
    /\ notices' = notices - 1
    /\ noticed = NoItem
    /\ noticed' \in {os, NoItem}
    /\ UNCHANGED <<life, link, os, received, lastSent, applying, attempt, newest, copies, back>>

OnLocalClipboardChanged ==
    /\ noticed # NoItem
    /\ noticed' = NoItem
    /\ LET fingerprint == Encoded(noticed.is)
       IN  IF fingerprint \in {lastSent, received}
           THEN UNCHANGED <<lastSent, back>>
           ELSE /\ lastSent' = fingerprint
                /\ Sends(noticed, "listener", Overtaken(noticed))
    /\ UNCHANGED <<life, link, os, notices, received, applying, attempt, newest, copies>>

\* A send may start.  Of automatic ones the main screen's autoSendJob allows one
\* at a time; of those on request the model does.
MayStart(trigger) ==
    /\ registered
    /\ attempt[trigger] = NoAttempt
    /\ Cardinality({t \in Triggers : attempt[t] # NoAttempt}) < MaxPending

\* The notification or the tile (MANUAL), or the focus of the main screen
\* (AUTO): an activity reads the clipboard.
Request(trigger) ==
    /\ MayStart(trigger)
    /\ os # NoItem
    /\ attempt' = [attempt EXCEPT ![trigger].item = os]
    /\ UNCHANGED <<life, link, os, notices, noticed, received, lastSent, applying, newest, copies, back>>

\* The share target does not read the clipboard.
Share(v) ==
    /\ MayStart("MANUAL")
    /\ copies < MaxCopies
    /\ copies' = copies + 1
    /\ attempt' = [attempt EXCEPT !["MANUAL"].item = [is |-> v, n |-> 0]]
    /\ UNCHANGED <<life, link, os, notices, noticed, received, lastSent, applying, newest, back>>

\* Bug variant: an automatic send does not look at what was received.
DecidesOnSent(item, trigger) ==
    /\ ~(item.is \in Images /\ item.n > 0)
    /\ Encoded(item.is) # lastSent
    /\ connected

\* SendDecision.decide: SENT.  An image of the service's own provider is one
\* it has received.
Decides(item, trigger) ==
    /\ ~(item.is \in Images /\ item.n > 0)
    /\ Encoded(item.is) # lastSent
    /\ trigger = "AUTO" => Encoded(item.is) # received
    /\ connected

\* sendFromForeground up to its first return: refused, sensitive, too large, or
\* there is no service.
Decide(trigger) ==
    LET item == attempt[trigger].item
    IN  /\ item # NoItem
        /\ ~attempt[trigger].decided
        /\ \/ attempt' = [attempt EXCEPT ![trigger] = NoAttempt]
           \/ /\ Decides(item, trigger)
              /\ attempt' = [attempt EXCEPT ![trigger].decided = TRUE,
                                            ![trigger].overtaken = Overtaken(item)]
        /\ UNCHANGED <<life, link, os, notices, noticed, received, lastSent, applying, newest,
                       copies, back>>

\* The rest of it, after the frame has been built.
SendFromForeground(trigger) ==
    LET item == attempt[trigger].item
    IN  /\ attempt[trigger].decided
        /\ attempt' = [attempt EXCEPT ![trigger] = NoAttempt]
        /\ lastSent' = IF socket = "live" THEN Encoded(item.is) ELSE lastSent
        /\ Sends(item, trigger, attempt[trigger].overtaken)
        /\ UNCHANGED <<life, link, os, notices, noticed, received, applying, newest, copies>>

----------------------------------------------------------------------------
Next ==
    \/ LoopStep
    \/ JoinWifi \/ ChangeWifi \/ OnConnected \/ OnDisconnected
    \/ ActionStop \/ OnDestroy
    \/ \E v \in Values : Receive(v) \/ Copy(v) \/ Share(v)
    \/ Apply \/ Notice \/ OnLocalClipboardChanged
    \/ \E trigger \in Triggers :
          Request(trigger) \/ Decide(trigger) \/ SendFromForeground(trigger)

\* The coroutine is resumed when it can go on; nothing is assumed of the
\* network, of the user or of OkHttp.
Spec == Init /\ [][Next]_vars /\ WF_vars(LoopStep)

----------------------------------------------------------------------------
(* Properties *)

\* What every variable holds.
TypeOK ==
    /\ {alive, registered, ready, cont, connected, missed} \subseteq BOOLEAN
    /\ loop \in {"checking", "paused", "dialling", "dialled", "suspended", "sleeping", "ended"}
    /\ wifi \in {"gone", "joined", "default"}
    /\ socket \in {"none", "live", "closing", "ended"}
    /\ {os, noticed, applying} \subseteq Items
    /\ attempt \in [Triggers -> Attempts]
    /\ notices \in 0..(MaxCopies + MaxClips)
    /\ {received, lastSent} \subseteq Values \union {None}
    /\ newest \in 0..MaxClips /\ copies \in 0..MaxCopies
    /\ back \subseteq [way: Triggers \union {"listener"}, overtaken: BOOLEAN,
                        medium: {"text", "image"}]

\* connectLoop: a lost connection is followed by another attempt, unless the
\* service stops, Wi-Fi has not come since, or the socket ended before the loop
\* had set its continuation.
LostConnectionRetried ==
    (alive /\ socket = "ended") ~>
        (loop = "dialling" \/ ~alive \/ missed \/ (loop = "paused" /\ ~ready))

\* sendFromForeground and onLocalClipboardChanged: a clip of the hub, however
\* old, goes back to it in three ways only.  The user asks for a text; the
\* listener encodes an image anew; or a text was read before a later clip came,
\* and judged after: it differs from that clip, which is all that is compared.
\* CHANGELOG.md says of auto-send that it "never echoes back a clip received
\* from the desktop": that holds of every clip but those overtaken.
SentBackOnlyWhenOvertaken ==
    \A b \in back :
        IF b.medium = "image" THEN b.way = "listener"
                              ELSE b.way = "MANUAL" \/ b.overtaken

=============================================================================
