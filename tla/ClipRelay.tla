----------------------------- MODULE ClipRelay -----------------------------
(***************************************************************************)
(* What the server promises its clients about clips, without tasks, queues *)
(* or sockets (core/src/server/hub.rs, lines 1-13): a last-write-wins      *)
(* register that members join and leave.  Joining hands over the current   *)
(* clip; from then on every clip another member publishes is appended to   *)
(* the member's feed or, for a member that cannot keep up, skipped.  The   *)
(* register and the feeds change in one step, so no clip falls between the *)
(* hand-over and the relays.                                               *)
(***************************************************************************)
EXTENDS Naturals, Sequences, FiniteSets

CONSTANTS Conns, Clips, NoClip, MaxConns

VARIABLES
    last,      \* the register
    members,   \* who is joined
    feed       \* feed[c]: every clip c was ever handed, in order

relayVars == <<last, members, feed>>

Init ==
    /\ last = NoClip
    /\ members = {}
    /\ feed = [c \in Conns |-> << >>]

Join(c) ==
    /\ c \notin members
    /\ feed[c] = << >>
    /\ Cardinality(members) < MaxConns
    /\ members' = members \cup {c}
    /\ feed' = [feed EXCEPT ![c] = IF last = NoClip THEN << >> ELSE <<last>>]
    /\ UNCHANGED last

Leave(c) ==
    /\ c \in members
    /\ members' = members \ {c}
    /\ UNCHANGED <<last, feed>>

Publish(clip) ==
    /\ last' = clip
    /\ \E reached \in SUBSET (members \ {clip.from}) :
          feed' = [c \in Conns |->
                      IF c \in reached THEN Append(feed[c], clip) ELSE feed[c]]
    /\ UNCHANGED members

Next ==
    \/ \E c \in Conns : Join(c) \/ Leave(c)
    \/ \E clip \in Clips : Publish(clip)

Spec == Init /\ [][Next]_relayVars
============================================================================
