-------------------------------- MODULE Sync --------------------------------
(***************************************************************************)
(* The whole system as its users see it: machines whose clipboard threads  *)
(* (ClipboardThread) are connected through what the server promises        *)
(* (ClipRelay, which HubServer implements).  Supervisor and transport are  *)
(* reduced to the two queues between a thread and a connection (Client has *)
(* them in full), and files on their way between machines to their ends.   *)
(*                                                                         *)
(* A connection is what the server sees of one session of a client.  The   *)
(* client may give it up and open another before the server notices, or    *)
(* the other way round.                                                    *)
(***************************************************************************)
EXTENDS ClipboardThread, FiniteSets

CONSTANTS
    Copyable,      \* bound: what users copy
    MaxInputs,     \* bound: copies and received files in a behaviour
    MaxSessions,   \* bound: connections in a behaviour
    MaxStarts,     \* bound: restarts and reloads of clients
    Flaky          \* whether calls to the OS clipboard can fail

ASSUME SyncAssumption ==
    /\ Copyable \subseteq Offer
    /\ MaxInputs \in Nat /\ MaxSessions \in Nat /\ MaxStarts \in Nat
    /\ Flaky \in BOOLEAN

Conns == 1..MaxSessions
NoConn == 0
Clips == [from: Conns, change: Change]
NoClip == [from |-> NoConn]

VARIABLES
    conn,                  \* conn[k]: the connection k's transport serves
    sessions,              \* connections opened so far
    wire,                  \* wire[c]: clips sent on c that the server has not taken
    read,                  \* read[c]: how many clips of feed[c] the client has read
    last, members, feed,   \* of ClipRelay
    \* History:
    starts,     \* restarts and reloads so far
    inputs,     \* copies and received files so far
    latest,     \* what was copied last
    offered,    \* offered[k]: values copied on k, found there by a new thread, or
                \* put there by an earlier one
    reports,    \* reports[k]: changes k's thread reported
    shared,     \* shared[k]: the change k's thread reported or applied last
    calm,       \* every copy was of a clip and made when all was quiet, none was lost,
                \* and no new thread reported several media of one copy again
    fresh       \* what was copied, or put there by an earlier thread, was of values the
                \* thread had not just seen, and no change was dropped for want of room

netVars == <<conn, sessions, wire, read, last, members, feed>>
historyVars == <<starts, inputs, latest, offered, reports, shared, calm, fresh>>
vars == <<threadVars, netVars, historyVars>>

Relay == INSTANCE ClipRelay WITH MaxConns <- MaxSessions

NetTypeOK ==
    /\ conn \in [Clients -> Conns \cup {NoConn}]
    /\ sessions \in 0..MaxSessions
    /\ wire \in [Conns -> Seq(Clips)]
    /\ feed \in [Conns -> Seq(Clips)]
    /\ read \in [Conns -> Nat]
    /\ \A c \in Conns : read[c] <= Len(feed[c])
    /\ last \in Clips \cup {NoClip}
    /\ members \subseteq 1..sessions

HistoryTypeOK ==
    /\ starts \in 0..MaxStarts
    /\ inputs \in 0..MaxInputs
    /\ latest \in Offer
    /\ offered \in [Clients -> Nat]
    /\ reports \in [Clients -> Nat]
    /\ shared \in [Clients -> Change \cup {None}]
    /\ calm \in BOOLEAN /\ fresh \in BOOLEAN

TypeOK == ThreadTypeOK /\ NetTypeOK /\ HistoryTypeOK

Init ==
    /\ ThreadInit
    /\ conn = [k \in Clients |-> NoConn]
    /\ sessions = 0
    /\ wire = [c \in Conns |-> << >>]
    /\ read = [c \in Conns |-> 0]
    /\ Relay!Init
    /\ starts = 0
    /\ inputs = 0
    /\ latest = Blank
    /\ offered = [k \in Clients |-> 0]
    /\ reports = [k \in Clients |-> 0]
    /\ shared = [k \in Clients |-> None]
    /\ calm = TRUE
    /\ fresh = TRUE

\* k has nothing that the server has yet to hear of.
Spoken(k) ==
    /\ Unseen(k) = {}
    /\ events[k] = << >>
    /\ conn[k] # NoConn => wire[conn[k]] = << >>

\* Everybody is connected, and nothing is on its way.
Quiet ==
    /\ \A k \in Clients :
          /\ conn[k] \in members
          /\ Spoken(k)
          /\ applying[k] = << >>
          /\ read[conn[k]] = Len(feed[conn[k]])
    /\ \A c \in Conns : wire[c] = << >>

----------------------------------------------------------------------------
(* The users and the clipboard threads *)

UserCopies(k, content) ==
    /\ inputs < MaxInputs
    /\ Copy(k, content)
    /\ inputs' = inputs + 1
    /\ latest' = content
    /\ offered' = [offered EXCEPT ![k] = @ + Cardinality(Offered(content))]
    /\ calm' = (calm /\ Quiet /\ content["files"] = None /\ content # Blank)
    /\ fresh' = (fresh /\ \A m \in Offered(content) : content[m] # seen[k][m])
    /\ UNCHANGED <<netVars, starts, reports, shared>>

\* A batch of files was saved (FileTransfer) and goes to the thread.
FilesSaved(k, paths) ==
    /\ inputs < MaxInputs
    /\ inputs' = inputs + 1
    /\ applying' = [applying EXCEPT ![k] = Append(@, [kind |-> "files", value |-> paths])]
    /\ calm' = FALSE
    /\ UNCHANGED <<os, seen, thread, events, left, netVars>>
    /\ UNCHANGED <<starts, latest, offered, reports, shared, fresh>>

ThreadApplies(k) ==
    /\ Apply(k)
    /\ shared' = [shared EXCEPT ![k] = Head(applying[k])]
    /\ UNCHANGED <<netVars, starts, inputs, latest, offered, reports, calm, fresh>>

ThreadReports(k) ==
    /\ Report(k)
    /\ IF Len(events[k]) < EventCap
       THEN /\ reports' = [reports EXCEPT ![k] = @ + 1]
            /\ shared' = [shared EXCEPT ![k] = [kind |-> thread[k], value |-> os[k][thread[k]]]]
            /\ UNCHANGED fresh
       ELSE /\ fresh' = FALSE
            /\ UNCHANGED <<reports, shared>>
    /\ UNCHANGED <<netVars, starts, inputs, latest, offered, calm>>

ThreadPolls(k) ==
    /\ PassOver(k)
    /\ UNCHANGED <<netVars, historyVars>>

\* What an earlier thread applies is a copy to the present one.
EarlierApplies(k) ==
    \E i \in 1..Len(left[k]) :
       LET c == Head(left[k][i])
       IN  /\ ApplyLeft(k, i)
           /\ offered' = [offered EXCEPT ![k] = @ + 1]
           /\ fresh' = (fresh /\ c.value # seen[k][c.kind])
           /\ UNCHANGED <<netVars, starts, inputs, latest, reports, shared, calm>>

CallFails(k) ==
    /\ Flaky
    /\ \/ ReadFails(k) /\ UNCHANGED calm
       \/ ApplyFails(k) /\ calm' = FALSE
       \/ (\E i \in 1..Len(left[k]) : ApplyLeftFails(k, i)) /\ UNCHANGED calm
    /\ UNCHANGED <<netVars, starts, inputs, latest, offered, reports, shared, fresh>>

----------------------------------------------------------------------------
(* The connections *)

\* Bug variant: the clip of the welcome is not applied.
ConnectSkippingWelcome(k) ==
    /\ conn[k] = NoConn
    /\ sessions < MaxSessions
    /\ Relay!Join(sessions + 1)
    /\ sessions' = sessions + 1
    /\ conn' = [conn EXCEPT ![k] = sessions + 1]
    /\ read' = [read EXCEPT ![sessions + 1] = Len(feed'[sessions + 1])]
    /\ UNCHANGED <<wire, threadVars, historyVars>>

\* k's transport opens a connection and the server registers it.  The clip of
\* the welcome is the first of the feed.
Connect(k) ==
    /\ conn[k] = NoConn
    /\ sessions < MaxSessions
    /\ Relay!Join(sessions + 1)
    /\ sessions' = sessions + 1
    /\ conn' = [conn EXCEPT ![k] = sessions + 1]
    /\ UNCHANGED <<wire, read, threadVars, historyVars>>

\* k's transport sees its connection end.
Disconnect(k) ==
    /\ conn[k] # NoConn
    /\ conn' = [conn EXCEPT ![k] = NoConn]
    /\ calm' = (calm /\ Spoken(k))
    /\ UNCHANGED <<sessions, wire, read, last, members, feed, threadVars>>
    /\ UNCHANGED <<starts, inputs, latest, offered, reports, shared, fresh>>

\* The server sees c end.  What it has not taken is lost, unless c's reader is
\* still at work.
Forget(c) ==
    /\ Relay!Leave(c)
    /\ \/ UNCHANGED wire
       \/ wire' = [wire EXCEPT ![c] = << >>]
    /\ calm' = (calm /\ wire[c] = << >> /\ \A k \in Clients : conn[k] = c => Spoken(k))
    /\ UNCHANGED <<conn, sessions, read, threadVars>>
    /\ UNCHANGED <<starts, inputs, latest, offered, reports, shared, fresh>>

\* The supervisor and the transport pass a reported change on, also one that
\* was reported before the connection existed.  Files travel elsewhere.
Send(k) ==
    /\ conn[k] # NoConn
    /\ events[k] # << >>
    /\ events' = [events EXCEPT ![k] = Tail(@)]
    /\ IF Head(events[k]).kind = "files"
       THEN UNCHANGED wire
       ELSE wire' = [wire EXCEPT ![conn[k]] =
                        Append(@, [from |-> conn[k], change |-> Head(events[k])])]
    /\ UNCHANGED <<os, seen, thread, applying, left, conn, sessions, read, last, members, feed>>
    /\ UNCHANGED historyVars

\* The server takes the next clip of c and relays it.  (No member is so slow
\* that it is skipped, as ClipRelay would allow.)
Take(c) ==
    /\ wire[c] # << >>
    /\ wire' = [wire EXCEPT ![c] = Tail(@)]
    /\ Relay!Publish(Head(wire[c]))
    /\ \A d \in members \ {c} : Len(feed'[d]) > Len(feed[d])
    /\ UNCHANGED <<conn, sessions, read, threadVars, historyVars>>

\* The transport reads the next clip, and the supervisor asks for its application.
Receive(k) ==
    /\ conn[k] # NoConn
    /\ read[conn[k]] < Len(feed[conn[k]])
    /\ read' = [read EXCEPT ![conn[k]] = @ + 1]
    /\ applying' =
          [applying EXCEPT ![k] = Append(@, feed[conn[k]][read[conn[k]] + 1].change)]
    /\ UNCHANGED <<os, seen, thread, events, left, conn, sessions, wire, last, members, feed>>
    /\ UNCHANGED historyVars

\* k's client is stopped and started again, or the tray replaces its supervisor
\* and with it the transport.
Restart(k) ==
    /\ starts < MaxStarts
    /\ StartThread(k) \/ ReplaceThread(k)
    /\ starts' = starts + 1
    /\ offered' = [offered EXCEPT ![k] = @ + Cardinality(Offered(os[k]))]
    /\ conn' = [conn EXCEPT ![k] = NoConn]
    /\ calm' = (calm /\ Quiet /\ \A m, n \in Offered(os[k]) : m = n)
    /\ UNCHANGED <<sessions, wire, read, last, members, feed>>
    /\ UNCHANGED <<inputs, latest, reports, shared, fresh>>

----------------------------------------------------------------------------
Next ==
    \/ \E k \in Clients :
          \/ \E content \in Copyable :
                \/ UserCopies(k, content)
                \/ content["files"] # None /\ FilesSaved(k, content["files"])
          \/ ThreadApplies(k) \/ ThreadReports(k) \/ ThreadPolls(k) \/ CallFails(k)
          \/ EarlierApplies(k)
          \/ Connect(k) \/ Disconnect(k) \/ Send(k) \/ Receive(k) \/ Restart(k)
    \/ \E c \in Conns : Forget(c) \/ Take(c)

Spec == Init /\ [][Next]_vars
----------------------------------------------------------------------------
(* Safety *)

\* Echo suppression: a thread reports no more than was copied on its machine, or
\* found there by a new thread, or put there by an earlier one that was left with
\* clips to apply, however many clips it applies itself, so a clip does not bounce
\* between machines.
NoEcho == \A k \in Clients : reports[k] <= offered[k]

\* What a clipboard holds when its thread has nothing new to see has been
\* reported or came from a peer.
Accounted(k) ==
    os[k] # Blank /\ Unseen(k) = {} =>
        \E m \in Media : shared[k] = [kind |-> m, value |-> os[k][m]]

\* As far as copies are new to the thread, none of them goes unnoticed.
FreshCopiesReported == fresh => \A k \in Clients : Accounted(k)

\* Everybody's clipboard has what was copied last.
Agreement ==
    inputs > 0 =>
        \E m \in Offered(latest) : \A k \in Clients : os[k][m] = latest[m]

\* One user with several machines: as long as a copy is made only when the
\* previous one has arrived everywhere, all machines end up with it, also those
\* that lose and restore their connection, or restart, meanwhile.
CalmCopiesArrive == calm /\ fresh /\ Quiet => Agreement

=============================================================================
