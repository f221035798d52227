-------------------------- MODULE ClipboardThread --------------------------
(***************************************************************************)
(* The clipboard thread of every machine (core/src/client/clipboard.rs).   *)
(* It owns the handle of the operating system's clipboard and alternates   *)
(* between applying what the supervisor asks for and polling for a change  *)
(* to report.  A clipboard offers files, an image and a text, or some of   *)
(* them; the thread remembers the last value of each that it saw.          *)
(***************************************************************************)
EXTENDS Naturals, Sequences

CONSTANTS
    Clients,    \* the machines
    Values,     \* what can be on a clipboard, whatever the medium
    None,
    EventCap    \* EVENT_BUFFER

ASSUME ThreadAssumption ==
    /\ None \notin Values
    /\ EventCap \in Nat \ {0}

VARIABLES
    os,         \* os[k][m]: what k's clipboard offers as m
    seen,       \* last_files, last_image and last_text of k's thread
    thread,     \* the medium k's thread reads next, "files" while in recv_timeout
    applying,   \* apply_rx
    events,     \* events_rx
    left        \* left[k]: for each earlier thread of k's that outlives its
                \* supervisor, what it has yet to apply

threadVars == <<os, seen, thread, applying, events, left>>

\* In the order in which poll_clipboard reads them.
Media == {"files", "image", "text"}

Offer == [Media -> Values \cup {None}]
Blank == [m \in Media |-> None]
Only(m, v) == [Blank EXCEPT ![m] = v]
Offered(content) == {m \in Media : content[m] # None}

Change == [kind: Media, value: Values]

ThreadTypeOK ==
    /\ os \in [Clients -> Offer]
    /\ seen \in [Clients -> Offer]
    /\ thread \in [Clients -> Media]
    /\ applying \in [Clients -> Seq(Change)]
    /\ events \in [Clients -> Seq(Change)]
    /\ \A k \in Clients : Len(events[k]) <= EventCap
    /\ left \in [Clients -> Seq(Seq(Change))]

ThreadInit ==
    /\ os = [k \in Clients |-> Blank]
    /\ seen = [k \in Clients |-> Blank]
    /\ thread = [k \in Clients |-> "files"]
    /\ applying = [k \in Clients |-> << >>]
    /\ events = [k \in Clients |-> << >>]
    /\ left = [k \in Clients |-> << >>]

\* Offered by the clipboard and not what the thread last saw in that medium.
Unseen(k) == {m \in Media : os[k][m] \notin {None, seen[k][m]}}

----------------------------------------------------------------------------
\* The user of k copies: the whole clipboard is replaced.
Copy(k, content) ==
    /\ os' = [os EXCEPT ![k] = content]
    /\ UNCHANGED <<seen, thread, applying, events, left>>

\* Bug variant: the tracker is left alone.
ApplyUntracked(k) ==
    /\ thread[k] = "files"
    /\ applying[k] # << >>
    /\ applying' = [applying EXCEPT ![k] = Tail(@)]
    /\ LET c == Head(applying[k])
       IN  os' = [os EXCEPT ![k] = Only(c.kind, c.value)]
    /\ UNCHANGED <<seen, thread, events, left>>

\* apply_change: the value is written and, so that the next poll does not take
\* it for a copy, recorded as seen.  The trackers of other media stay.
Apply(k) ==
    /\ thread[k] = "files"
    /\ applying[k] # << >>
    /\ applying' = [applying EXCEPT ![k] = Tail(@)]
    /\ LET c == Head(applying[k])
       IN  /\ os' = [os EXCEPT ![k] = Only(c.kind, c.value)]
           /\ seen' = [seen EXCEPT ![k][c.kind] = c.value]
    /\ UNCHANGED <<thread, events, left>>

\* set_text, set_image or write_files returns an error.
ApplyFails(k) ==
    /\ thread[k] = "files"
    /\ applying[k] # << >>
    /\ applying' = [applying EXCEPT ![k] = Tail(@)]
    /\ UNCHANGED <<os, seen, thread, events, left>>

\* A poll starts when recv_timeout times out, which it does only when there is
\* nothing to apply; nothing happens between that and the first read that could
\* not as well happen before.
Reading(k, m) ==
    /\ thread[k] = m
    /\ m = "files" => applying[k] = << >>

AfterRead(m) == CASE m = "files" -> "image"
                  [] m = "image" -> "text"
                  [] m = "text"  -> "files"

\* Bug variant: an unbounded channel.
ReportUnbounded(k) ==
    LET m == thread[k]
        v == os[k][m]
    IN  /\ Reading(k, m)
        /\ m \in Unseen(k)
        /\ seen' = [seen EXCEPT ![k][m] = v]
        /\ events' = [events EXCEPT ![k] = Append(@, [kind |-> m, value |-> v])]
        /\ thread' = [thread EXCEPT ![k] = "files"]
        /\ UNCHANGED <<os, applying, left>>

\* A medium has changed: it is recorded as seen and reported, if there is room,
\* and the poll ends without a look at the media that follow.
Report(k) ==
    LET m == thread[k]
        v == os[k][m]
    IN  /\ Reading(k, m)
        /\ m \in Unseen(k)
        /\ seen' = [seen EXCEPT ![k][m] = v]
        /\ events' = [events EXCEPT ![k] = IF Len(@) < EventCap
                                           THEN Append(@, [kind |-> m, value |-> v])
                                           ELSE @]
        /\ thread' = [thread EXCEPT ![k] = "files"]
        /\ UNCHANGED <<os, applying, left>>

\* A medium is absent or unchanged: on to the next.  Only the text tracker is
\* cleared when there is nothing to see.
PassOver(k) ==
    LET m == thread[k]
    IN  /\ Reading(k, m)
        /\ m \notin Unseen(k)
        /\ seen' = IF m = "text" /\ os[k][m] = None
                   THEN [seen EXCEPT ![k][m] = None]
                   ELSE seen
        /\ thread' = [thread EXCEPT ![k] = AfterRead(m)]
        /\ UNCHANGED <<os, applying, events, left>>

\* A transient read failure counts as no change.
ReadFails(k) ==
    /\ Reading(k, thread[k])
    /\ thread' = [thread EXCEPT ![k] = AfterRead(@)]
    /\ UNCHANGED <<os, seen, applying, events, left>>

\* Bug variant: what is on the clipboard at the start counts as seen.
BeginPrimed(k) ==
    /\ seen' = [seen EXCEPT ![k] = os[k]]
    /\ thread' = [thread EXCEPT ![k] = "files"]
    /\ applying' = [applying EXCEPT ![k] = << >>]
    /\ events' = [events EXCEPT ![k] = << >>]
    /\ UNCHANGED os

\* A new thread with new channels, which has seen nothing, on the clipboard as
\* it is.
Begin(k) ==
    /\ seen' = [seen EXCEPT ![k] = Blank]
    /\ thread' = [thread EXCEPT ![k] = "files"]
    /\ applying' = [applying EXCEPT ![k] = << >>]
    /\ events' = [events EXCEPT ![k] = << >>]
    /\ UNCHANGED os

\* The client's process is stopped and started again.
StartThread(k) ==
    /\ Begin(k)
    /\ left' = [left EXCEPT ![k] = << >>]

\* The supervisor is aborted and another started in the same process.  The old
\* thread is not told: its channel yields what is in it before it reports that it
\* is closed.  A thread in the middle of a poll may find a change first, and ends
\* when it cannot report it.
ReplaceThread(k) ==
    /\ Begin(k)
    /\ \/ applying[k] # << >> /\ left' = [left EXCEPT ![k] = Append(@, applying[k])]
       \/ (applying[k] = << >> \/ thread[k] # "files") /\ UNCHANGED left

\* The earlier thread i takes the next change from its channel and applies it,
\* if it can.  Its trackers are its own.
ApplyLeft(k, i) ==
    /\ left[k][i] # << >>
    /\ left' = [left EXCEPT ![k][i] = Tail(@)]
    /\ LET c == Head(left[k][i])
       IN  os' = [os EXCEPT ![k] = Only(c.kind, c.value)]
    /\ UNCHANGED <<seen, thread, applying, events>>

ApplyLeftFails(k, i) ==
    /\ left[k][i] # << >>
    /\ left' = [left EXCEPT ![k][i] = Tail(@)]
    /\ UNCHANGED <<os, seen, thread, applying, events>>
============================================================================
