---------------------------- MODULE Tray_proofs ----------------------------
(***************************************************************************)
(* Theorems about Tray, for any configurations, clicks, events, changes of *)
(* the network and clients: the types, NoOrphans, StatusIsCurrent and      *)
(* MenuShowsState.                                                         *)
(*                                                                         *)
(* A supervisor that exits is forgotten only when its event carries the    *)
(* last generation: NoOrphans needs to know that the task of such an event *)
(* has ended (EventWell), and that two hubs that serve would want the same *)
(* port (Tasks).  That there is a generation for every reload needs a      *)
(* count of what may still cause one (Credit).                             *)
(***************************************************************************)
EXTENDS Tray, FiniteSetTheorems, TLAPS

USE TrayAssumption

----------------------------------------------------------------------------
(* Counting what is in a queue *)

\* The events of q that may start a supervisor or a hub, by their places.
Starters == {"edit", "reload", "start", "restart", "SettingsExited"}
Places(q) == {i \in 1..Len(q) : q[i].kind \in Starters}
Count(q) == Cardinality(Places(q))
One(b) == IF b THEN 1 ELSE 0

LEMMA PlacesFinite ==
    ASSUME NEW q \in Seq(Event)
    PROVE  IsFiniteSet(Places(q)) /\ Count(q) \in Nat
<1>1. IsFiniteSet(1..Len(q))
  BY FS_Interval
<1>2. Places(q) \in SUBSET (1..Len(q))
  BY DEF Places
<1> QED
  BY <1>1, <1>2, FS_Subset, FS_CardinalityType DEF Count

LEMMA CountEmpty == Count(<< >>) = 0
<1>1. Places(<< >>) = {}
  BY DEF Places
<1> QED
  BY <1>1, FS_EmptySet DEF Count

LEMMA CountAppend ==
    ASSUME NEW q \in Seq(Event), NEW e \in Event
    PROVE  Count(Append(q, e)) = Count(q) + One(e.kind \in Starters)
<1> DEFINE n == Len(q) + 1
<1>1. /\ Len(Append(q, e)) = n /\ Append(q, e)[n] = e
      /\ \A i \in 1..Len(q) : Append(q, e)[i] = q[i]
      /\ 1..n = (1..Len(q)) \union {n} /\ n \notin 1..Len(q)
  OBVIOUS
<1>2. CASE e.kind \in Starters
  <2>1. Places(Append(q, e)) = Places(q) \union {n} /\ n \notin Places(q)
    BY <1>1, <1>2 DEF Places
  <2> QED
    BY <1>2, <2>1, PlacesFinite, FS_AddElement DEF Count, One
<1>3. CASE e.kind \notin Starters
  <2>1. Places(Append(q, e)) = Places(q)
    BY <1>1, <1>3 DEF Places
  <2> QED
    BY <1>3, <2>1, PlacesFinite DEF Count, One
<1> QED
  BY <1>2, <1>3

LEMMA CountTail ==
    ASSUME NEW q \in Seq(Event), q # << >>
    PROVE  Count(q) = Count(Tail(q)) + One(Head(q).kind \in Starters)
<1> DEFINE rest == Places(Tail(q))
           first == Places(q) \ {1}
           f == [i \in first |-> i - 1]
<1>1. /\ Tail(q) \in Seq(Event) /\ Len(Tail(q)) = Len(q) - 1
      /\ \A i \in 1..Len(Tail(q)) : Tail(q)[i] = q[i + 1]
      /\ Head(q) = q[1] /\ 1 \in 1..Len(q)
  OBVIOUS
<1>2. ExistsBijection(first, rest)
  <2>1. \A i \in first : i - 1 \in rest
    BY <1>1 DEF Places
  <2>2. \A j \in rest : j + 1 \in first /\ (j + 1) - 1 = j
    BY <1>1 DEF Places
  <2>3. f \in Injection(first, rest)
    BY <2>1 DEF Injection, IsInjective, Places
  <2>4. f \in Surjection(first, rest)
    BY <2>1, <2>2 DEF Surjection
  <2> QED
    BY <2>3, <2>4 DEF ExistsBijection, Bijection
<1>3. IsFiniteSet(first)
  BY PlacesFinite, FS_RemoveElement
<1>4. Cardinality(rest) = Cardinality(first)
  BY <1>2, <1>3, FS_Bijection
<1>5. 1 \in Places(q) <=> Head(q).kind \in Starters
  BY <1>1 DEF Places
<1>6. Cardinality(Places(q)) \in Nat
  BY PlacesFinite, FS_CardinalityType
<1>7. Cardinality(first) = IF 1 \in Places(q) THEN Cardinality(Places(q)) - 1
                                              ELSE Cardinality(Places(q))
  BY PlacesFinite, FS_RemoveElement
<1> QED
  BY <1>4, <1>5, <1>6, <1>7 DEF Count, One

----------------------------------------------------------------------------
(* The handles and the tasks *)

\* A handle is that of the last task started.  A supervisor that runs and a hub
\* that serves have their handles, and the hub the port of the configuration.
Tasks(s, hubs, sups) ==
    /\ s \in States /\ hubs \in [Gens -> Sessions] /\ sups \in [Gens -> Supervisors]
    /\ s.supervisor \in {0, s.supervisor_gen}
    /\ s.embedded_hub \in {0, s.embedded_hub_gen}
    /\ s.embedded_hub # 0 => s.hub_stats # 0
    /\ s.client_status # NoStatus => s.client_status.gen = s.supervisor_gen
    /\ \A g \in Gens :
          /\ sups[g].task # "none" => g <= s.supervisor_gen
          /\ sups[g].task = "running" => g = s.supervisor
          /\ hubs[g].task # "none" => g <= s.embedded_hub_gen
          /\ hubs[g].task \in {"failing", "serving"} =>
                g = s.embedded_hub /\ s.cfg # NoConfig /\ hubs[g].port = s.cfg.port

\* A task that was started and has ended is not started again.
EndedStay(s, hubs, sups, t, hubs2, sups2) ==
    /\ s.supervisor_gen <= t.supervisor_gen
    /\ s.embedded_hub_gen <= t.embedded_hub_gen
    /\ \A g \in Gens :
          /\ g <= s.supervisor_gen /\ sups[g].task = "none" => sups2[g].task = "none"
          /\ g <= s.embedded_hub_gen /\ hubs[g].task = "none" => hubs2[g].task = "none"

\* An event that says of a task that it has exited is right.
EventWell(e, s, hubs, sups) ==
    /\ e.kind = "ClientStatusChanged" => e.gen \in Gens /\ e.is \in Statuses
    /\ e.kind = "SupervisorExited" =>
          e.gen \in Gens /\ e.gen <= s.supervisor_gen /\ sups[e.gen].task = "none"
    /\ e.kind = "HubExited" =>
          e.gen \in Gens /\ e.gen <= s.embedded_hub_gen /\ hubs[e.gen].task = "none"

Queued == \A i \in 1..Len(events) : EventWell(events[i], state, session, sup)

\* Every generation was, or may yet be, caused by an item chosen, by the start
\* or by the dialog opened then.
Pending == Count(events) + One(stage # "closed") + (IF phase = "starting" THEN 2 ELSE 0)
Credit ==
    /\ state.supervisor_gen + Pending <= acts + 2
    /\ state.embedded_hub_gen + Pending <= acts + 2

\* Nothing has started yet.
Fresh ==
    phase = "starting" =>
        /\ state.supervisor = 0 /\ state.embedded_hub = 0
        /\ state.client_status = NoStatus
        /\ stage = "closed" /\ events = << >>

IInv ==
    /\ TypeOK
    /\ Tasks(state, session, sup)
    /\ Queued
    /\ Credit
    /\ Fresh
    /\ MenuShowsState

LEMMA GensFacts ==
    /\ Gens \subseteq Nat /\ 0 \notin Gens
    /\ \A n \in Nat : n >= 1 /\ n <= MaxActs + 2 => n \in Gens
BY DEF Gens

LEMMA NoTask ==
    /\ NoSupervisor \in Supervisors /\ NoSupervisor.task = "none"
    /\ NoSession \in Sessions /\ NoSession.task = "none"
BY DEF NoSupervisor, Supervisors, Statuses, NoSession, Sessions, None

\* What the handlers read of a state.
LEMMA StateFields ==
    ASSUME NEW s \in States
    PROVE  /\ s.supervisor_gen \in Nat /\ s.embedded_hub_gen \in Nat
           /\ s.cfg # NoConfig => s.cfg.port \in Nat /\ s.cfg \in Configs
<1>1. s.supervisor_gen \in Nat /\ s.embedded_hub_gen \in Nat
  <2>1. s.supervisor_gen \in {0} \union Gens /\ s.embedded_hub_gen \in {0} \union Gens
    BY DEF States
  <2> QED
    BY <2>1 DEF Gens
<1>2. s.cfg \in Configs \union {NoConfig}
  BY DEF States
<1>3. \A c \in Configs : c.port \in Nat
  BY DEF Config
<1> QED
  BY <1>1, <1>2, <1>3

LEMMA InitWell == Init => IInv
<1> SUFFICES ASSUME Init PROVE IInv
  OBVIOUS
<1> USE DEF Init
<1>1. state \in States
  BY DEF States
<1>2. TypeOK
  <2>1. events \in Seq(Event)
    OBVIOUS
  <2>2. sup \in [Gens -> Supervisors] /\ session \in [Gens -> Sessions]
    BY NoTask
  <2> QED
    BY <1>1, <2>1, <2>2 DEF TypeOK
<1>3. Tasks(state, session, sup)
  BY <1>1, <1>2, NoTask DEF Tasks, TypeOK
<1>4. Queued /\ Fresh
  BY DEF Queued, Fresh
<1>5. Credit
  BY CountEmpty DEF Credit, Pending, One
<1>6. MenuShowsState
  BY DEF MenuShowsState
<1> QED
  BY <1>2, <1>3, <1>4, <1>5, <1>6 DEF IInv

\* start_embedded_hub_with_cfg keeps them: a hub that serves already holds the
\* port that the new one would need.
LEMMA HubStartedWell ==
    ASSUME NEW s, NEW hubs, NEW sups, Tasks(s, hubs, sups), s.cfg # NoConfig,
           s.embedded_hub_gen + 1 \in Gens,
           NEW ok \in BOOLEAN, NEW loads \in BOOLEAN, Binds(s.cfg.port, hubs, ok)
    PROVE  LET t == HubStarted(s, ok)
               hubs2 == HubSpawned(s, hubs, ok, loads)
           IN  /\ Tasks(t, hubs2, sups)
               /\ EndedStay(s, hubs, sups, t, hubs2, sups)
               /\ t.supervisor = s.supervisor /\ t.supervisor_gen = s.supervisor_gen
               /\ t.client_status = s.client_status /\ t.cfg = s.cfg
               /\ t.settings_alive = s.settings_alive
               /\ t.embedded_hub_gen <= s.embedded_hub_gen + 1
<1> DEFINE t == HubStarted(s, ok)
           hubs2 == HubSpawned(s, hubs, ok, loads)
           h == s.embedded_hub_gen + 1
<1>1. s \in States /\ s.embedded_hub_gen \in Nat /\ s.supervisor_gen \in Nat /\ s.cfg.port \in Nat
  BY StateFields DEF Tasks
<1>2. CASE ~ok
  <2>1. t = [s EXCEPT !.hub_bind_error = TRUE] /\ hubs2 = hubs
    BY <1>2 DEF HubStarted, HubSpawned
  <2>2. /\ t \in States /\ t.supervisor = s.supervisor /\ t.supervisor_gen = s.supervisor_gen
        /\ t.client_status = s.client_status /\ t.cfg = s.cfg
        /\ t.settings_alive = s.settings_alive
        /\ t.embedded_hub_gen = s.embedded_hub_gen /\ t.embedded_hub = s.embedded_hub
        /\ t.hub_stats = s.hub_stats
    BY <1>1, <2>1 DEF States
  <2> HIDE DEF t, hubs2
  <2>3. Tasks(t, hubs2, sups)
    BY <2>1, <2>2 DEF Tasks
  <2>4. EndedStay(s, hubs, sups, t, hubs2, sups)
    BY <1>1, <2>1, <2>2 DEF EndedStay
  <2> QED
    BY <1>1, <2>2, <2>3, <2>4 DEF t, hubs2
<1>3. CASE ok
  <2> DEFINE new == [task |-> IF loads THEN "serving" ELSE "failing", port |-> s.cfg.port,
                     clients |-> 0, polled |-> TRUE, last |-> None]
  <2>1. /\ t = [s EXCEPT !.embedded_hub = h, !.embedded_hub_gen = h, !.hub_bind_error = FALSE,
                         !.hub_stats = h, !.hub_stats_poller = h]
        /\ hubs2 = [hubs EXCEPT ![h] = new]
    BY <1>3 DEF HubStarted, HubSpawned
  <2>2. /\ t \in States /\ t.supervisor = s.supervisor /\ t.supervisor_gen = s.supervisor_gen
        /\ t.client_status = s.client_status /\ t.cfg = s.cfg
        /\ t.settings_alive = s.settings_alive
        /\ t.embedded_hub_gen = h /\ t.embedded_hub = h /\ t.hub_stats = h
    BY <1>1, <2>1 DEF States
  <2>3. new \in Sessions /\ new.port = s.cfg.port /\ new.task # "none"
    BY <1>1 DEF Sessions, None
  <2>4. \A g \in Gens : hubs[g].task \notin {"failing", "serving"}
    BY <1>3 DEF Binds, Listening, Tasks
  <2>5. /\ hubs2 \in [Gens -> Sessions] /\ hubs2[h] = new
        /\ \A g \in Gens \ {h} : hubs2[g] = hubs[g]
    BY <2>1, <2>3 DEF Tasks
  <2> HIDE DEF t, hubs2, new
  <2>6. Tasks(t, hubs2, sups)
    <3>1. ASSUME NEW g \in Gens
          PROVE  /\ hubs2[g].task # "none" => g <= h
                 /\ hubs2[g].task \in {"failing", "serving"} =>
                        g = h /\ s.cfg # NoConfig /\ hubs2[g].port = s.cfg.port
      BY <1>1, <2>3, <2>4, <2>5, GensFacts DEF Tasks
    <3> QED
      BY <1>1, <2>2, <2>5, <3>1, GensFacts DEF Tasks
  <2>7. EndedStay(s, hubs, sups, t, hubs2, sups)
    BY <1>1, <2>2, <2>5, GensFacts DEF EndedStay
  <2> QED
    BY <1>1, <2>2, <2>6, <2>7 DEF t, hubs2
<1> QED
  BY <1>2, <1>3

\* What apply_loaded_config keeps and starts, from a state without supervisor.
LEMMA AppliedWell ==
    ASSUME NEW s, NEW hubs, NEW sups, Tasks(s, hubs, sups), s.supervisor = 0,
           s.supervisor_gen + 1 \in Gens, s.embedded_hub_gen + 1 \in Gens,
           ApplyLoadedConfig(s, hubs, sups)
    PROVE  /\ Tasks(state', session', sup')
           /\ EndedStay(s, hubs, sups, state', session', sup')
           /\ state'.supervisor_gen <= s.supervisor_gen + 1
           /\ state'.embedded_hub_gen <= s.embedded_hub_gen + 1
<1>1. s \in States /\ s.embedded_hub_gen \in Nat /\ s.supervisor_gen \in Nat
  BY StateFields DEF Tasks
<1>2. CASE s.cfg = NoConfig
  <2>1. state' = s /\ session' = hubs /\ sup' = sups
    BY <1>2 DEF ApplyLoadedConfig
  <2> QED
    BY <1>1, <2>1 DEF EndedStay
<1>3. CASE s.cfg # NoConfig
  <2> DEFINE g == s.supervisor_gen + 1
             With(t) == [t EXCEPT !.supervisor = g, !.supervisor_gen = g,
                                  !.client_status = [gen |-> g, is |-> "Connecting"]]
             new == [task |-> "running", is |-> "Connecting", unseen |-> TRUE]
  <2>1. /\ sup' = [sups EXCEPT ![g] = new]
        /\ \/ /\ state' = With(s) /\ session' = hubs
           \/ \E ok, loads \in BOOLEAN :
                 /\ Binds(s.cfg.port, hubs, ok)
                 /\ state' = With(HubStarted(s, ok))
                 /\ session' = HubSpawned(s, hubs, ok, loads)
    BY <1>3 DEF ApplyLoadedConfig
  <2>2. PICK t, hubs2 :
            /\ state' = With(t) /\ session' = hubs2
            /\ Tasks(t, hubs2, sups) /\ EndedStay(s, hubs, sups, t, hubs2, sups)
            /\ t.supervisor = 0 /\ t.supervisor_gen = s.supervisor_gen
            /\ t.embedded_hub_gen <= s.embedded_hub_gen + 1
    <3>1. CASE state' = With(s) /\ session' = hubs
      <4>1. EndedStay(s, hubs, sups, s, hubs, sups)
        BY <1>1 DEF EndedStay
      <4> HIDE DEF With
      <4> QED
        BY <1>1, <3>1, <4>1
    <3>2. CASE ~(state' = With(s) /\ session' = hubs)
      <4>1. PICK ok \in BOOLEAN, loads \in BOOLEAN :
                 /\ Binds(s.cfg.port, hubs, ok)
                 /\ state' = With(HubStarted(s, ok))
                 /\ session' = HubSpawned(s, hubs, ok, loads)
        BY <2>1, <3>2
      <4>2. /\ Tasks(HubStarted(s, ok), HubSpawned(s, hubs, ok, loads), sups)
            /\ EndedStay(s, hubs, sups, HubStarted(s, ok), HubSpawned(s, hubs, ok, loads), sups)
            /\ HubStarted(s, ok).supervisor = 0
            /\ HubStarted(s, ok).supervisor_gen = s.supervisor_gen
            /\ HubStarted(s, ok).embedded_hub_gen <= s.embedded_hub_gen + 1
        BY <1>3, <4>1, HubStartedWell
      <4> HIDE DEF With
      <4> QED
        BY <4>1, <4>2
    <3> QED
      BY <3>1, <3>2
  <2>3. t \in States
    BY <2>2 DEF Tasks
  <2>4. [gen |-> g, is |-> "Connecting"] \in [gen: Gens, is: Statuses]
    BY DEF Statuses
  <2>5. /\ With(t) \in States
        /\ With(t).supervisor = g /\ With(t).supervisor_gen = g
        /\ With(t).client_status.gen = g /\ With(t).cfg = t.cfg
        /\ With(t).embedded_hub = t.embedded_hub
        /\ With(t).embedded_hub_gen = t.embedded_hub_gen
        /\ With(t).hub_stats = t.hub_stats
    BY <2>3, <2>4 DEF States
  <2>6. new \in Supervisors
    BY DEF Supervisors, Statuses
  <2>7. /\ sup' \in [Gens -> Supervisors] /\ sup'[g].task = "running"
        /\ \A k \in Gens \ {g} : sup'[k] = sups[k]
    BY <2>1, <2>6 DEF Tasks
  <2> HIDE DEF With, new
  <2>8. \A k \in Gens : /\ sup'[k].task # "none" => k <= g
                        /\ sup'[k].task = "running" => k = g
    <3>1. SUFFICES ASSUME NEW k \in Gens
                   PROVE  /\ sup'[k].task # "none" => k <= g
                          /\ sup'[k].task = "running" => k = g
      OBVIOUS
    <3>2. k \in Nat /\ k # 0 /\ s.supervisor_gen \in Nat
      BY <1>1, GensFacts
    <3>3. CASE k = g
      BY <3>2, <3>3
    <3>4. CASE k # g
      <4>1. sup'[k] = sups[k]
        BY <2>7, <3>4
      <4>2. /\ sups[k].task # "none" => k <= s.supervisor_gen
            /\ sups[k].task = "running" => k = 0
        BY DEF Tasks
      <4> QED
        BY <3>2, <4>1, <4>2
    <3> QED
      BY <3>3, <3>4
  <2>9. Tasks(state', session', sup')
    <3>1. /\ state' \in States /\ session' \in [Gens -> Sessions] /\ sup' \in [Gens -> Supervisors]
          /\ state'.supervisor = g /\ state'.supervisor_gen = g
          /\ state'.client_status.gen = g
          /\ state'.embedded_hub \in {0, state'.embedded_hub_gen}
          /\ state'.embedded_hub # 0 => state'.hub_stats # 0
      BY <2>2, <2>5, <2>7 DEF Tasks
    <3>2. ASSUME NEW k \in Gens
          PROVE  /\ session'[k].task # "none" => k <= state'.embedded_hub_gen
                 /\ session'[k].task \in {"failing", "serving"} =>
                        /\ k = state'.embedded_hub /\ state'.cfg # NoConfig
                        /\ session'[k].port = state'.cfg.port
      BY <2>2, <2>5 DEF Tasks
    <3> QED
      BY <2>8, <3>1, <3>2 DEF Tasks
  <2>10. EndedStay(s, hubs, sups, state', session', sup')
    BY <1>1, <2>2, <2>5, <2>7, GensFacts DEF EndedStay
  <2> QED
    BY <1>1, <2>2, <2>5, <2>9, <2>10
<1> QED
  BY <1>2, <1>3

\* Start hub and Restart hub.
LEMMA StartHubWell ==
    ASSUME NEW s, NEW hubs, NEW sups, Tasks(s, hubs, sups), s.embedded_hub_gen + 1 \in Gens,
           StartEmbeddedHub(s, hubs)
    PROVE  /\ Tasks(state', session', sups)
           /\ EndedStay(s, hubs, sups, state', session', sups)
           /\ state'.supervisor_gen = s.supervisor_gen
           /\ state'.embedded_hub_gen <= s.embedded_hub_gen + 1
           /\ state'.cfg = s.cfg /\ state'.client_status = s.client_status
<1>1. s \in States /\ s.embedded_hub_gen \in Nat /\ s.supervisor_gen \in Nat
  BY StateFields DEF Tasks
<1>2. CASE s.cfg = NoConfig \/ s.cfg.hub = "absent"
  BY <1>1, <1>2 DEF StartEmbeddedHub, EndedStay
<1>3. CASE ~(s.cfg = NoConfig \/ s.cfg.hub = "absent")
  <2>1. PICK ok \in BOOLEAN, loads \in BOOLEAN :
             /\ Binds(s.cfg.port, hubs, ok)
             /\ state' = HubStarted(s, ok)
             /\ session' = HubSpawned(s, hubs, ok, loads)
    BY <1>3 DEF StartEmbeddedHub
  <2> QED
    BY <1>3, <2>1, HubStartedWell
<1> QED
  BY <1>2, <1>3

LEMMA AbortHubWell ==
    ASSUME Tasks(state, session, sup)
    PROVE  /\ AbortHub \in [Gens -> Sessions]
           /\ \A h \in Gens : /\ AbortHub[h].task \notin {"failing", "serving"}
                              /\ AbortHub[h].task # "none" <=> session[h].task # "none"
<1>1. ASSUME NEW h \in Gens
      PROVE  /\ AbortHub[h] \in Sessions
             /\ AbortHub[h].task \notin {"failing", "serving"}
             /\ AbortHub[h].task # "none" <=> session[h].task # "none"
  <2> DEFINE old == session[h]
             serves == h = state.embedded_hub /\ old.task \in {"failing", "serving"}
             polls == h = state.hub_stats_poller
  <2>1. old \in Sessions /\ (old.task \in {"failing", "serving"} => serves)
    BY DEF Tasks
  <2>2. AbortHub[h] = [old EXCEPT !.task = IF serves THEN "aborted" ELSE old.task,
                                  !.polled = old.polled /\ ~polls,
                                  !.last = IF polls THEN 0 ELSE old.last]
    BY DEF AbortHub
  <2>3. (old.polled /\ ~polls) \in BOOLEAN /\ (IF polls THEN 0 ELSE old.last) \in 0..None
    BY <2>1 DEF Sessions, None
  <2>4. (IF serves THEN "aborted" ELSE old.task) \in {"none", "failing", "serving", "aborted"}
    BY <2>1 DEF Sessions
  <2> HIDE DEF polls
  <2>5. AbortHub[h] \in Sessions /\ AbortHub[h].task = IF serves THEN "aborted" ELSE old.task
    BY <2>1, <2>2, <2>3, <2>4 DEF Sessions
  <2> QED
    BY <2>1, <2>5
<1>2. AbortHub = [h \in Gens |-> AbortHub[h]]
  BY DEF AbortHub
<1> QED
  BY <1>1, <1>2

\* abort_running and reload_config_into: no handle and no running task is left.
LEMMA AbortedWell ==
    ASSUME Tasks(state, session, sup), NEW alive \in BOOLEAN, NEW c \in Configs \union {NoConfig}
    PROVE  LET s == [AbortRunning([state EXCEPT !.settings_alive = alive]) EXCEPT !.cfg = c]
           IN  /\ Tasks(s, AbortHub, AbortSupervisor)
               /\ EndedStay(state, session, sup, s, AbortHub, AbortSupervisor)
               /\ s.supervisor = 0
               /\ s.supervisor_gen = state.supervisor_gen
               /\ s.embedded_hub_gen = state.embedded_hub_gen
<1> DEFINE s == [AbortRunning([state EXCEPT !.settings_alive = alive]) EXCEPT !.cfg = c]
<1>1. state \in States /\ state.supervisor_gen \in Nat /\ state.embedded_hub_gen \in Nat
  BY StateFields DEF Tasks
<1>2. /\ s \in States /\ s.supervisor = 0 /\ s.embedded_hub = 0 /\ s.client_status = NoStatus
      /\ s.supervisor_gen = state.supervisor_gen /\ s.embedded_hub_gen = state.embedded_hub_gen
  BY <1>1 DEF AbortRunning, States
<1>3. /\ AbortSupervisor \in [Gens -> Supervisors]
      /\ \A g \in Gens : /\ AbortSupervisor[g].task # "running"
                         /\ AbortSupervisor[g].task # "none" <=> sup[g].task # "none"
  <2>1. ASSUME NEW g \in Gens
        PROVE  /\ AbortSupervisor[g] \in Supervisors
               /\ AbortSupervisor[g].task # "running"
               /\ AbortSupervisor[g].task # "none" <=> sup[g].task # "none"
    <3>1. sup[g] \in Supervisors /\ (sup[g].task = "running" => g = state.supervisor)
      BY DEF Tasks
    <3>2. CASE sup[g].task = "running"
      <4>1. AbortSupervisor[g] = [sup[g] EXCEPT !.task = "aborted"]
        BY <3>1, <3>2 DEF AbortSupervisor
      <4> QED
        BY <3>1, <3>2, <4>1 DEF Supervisors
    <3>3. CASE sup[g].task # "running"
      <4>1. AbortSupervisor[g] = sup[g]
        BY <3>3 DEF AbortSupervisor
      <4> QED
        BY <3>1, <3>3, <4>1
    <3> QED
      BY <3>2, <3>3
  <2>2. AbortSupervisor = [g \in Gens |-> AbortSupervisor[g]]
    BY DEF AbortSupervisor
  <2> QED
    BY <2>1, <2>2
<1>4. /\ AbortHub \in [Gens -> Sessions]
      /\ \A h \in Gens : /\ AbortHub[h].task \notin {"failing", "serving"}
                         /\ AbortHub[h].task # "none" <=> session[h].task # "none"
  BY AbortHubWell DEF Tasks
<1> HIDE DEF s
<1>5. Tasks(s, AbortHub, AbortSupervisor)
  BY <1>1, <1>2, <1>3, <1>4, GensFacts DEF Tasks
<1>6. EndedStay(state, session, sup, s, AbortHub, AbortSupervisor)
  BY <1>1, <1>2, <1>3, <1>4 DEF EndedStay
<1> QED
  BY <1>2, <1>5, <1>6 DEF s

\* stop_embedded_hub leaves the supervisor alone.
LEMMA StoppedWell ==
    ASSUME Tasks(state, session, sup)
    PROVE  LET s == StopEmbeddedHub(state)
           IN  /\ Tasks(s, AbortHub, sup)
               /\ EndedStay(state, session, sup, s, AbortHub, sup)
               /\ s.supervisor_gen = state.supervisor_gen
               /\ s.embedded_hub_gen = state.embedded_hub_gen
               /\ s.cfg = state.cfg /\ s.client_status = state.client_status
               /\ s.hub_bind_error = state.hub_bind_error
<1> DEFINE s == StopEmbeddedHub(state)
<1>1. state \in States /\ state.supervisor_gen \in Nat /\ state.embedded_hub_gen \in Nat
  BY StateFields DEF Tasks
<1>2. /\ s \in States /\ s.supervisor = state.supervisor /\ s.embedded_hub = 0
      /\ s.client_status = state.client_status /\ s.cfg = state.cfg
      /\ s.supervisor_gen = state.supervisor_gen /\ s.embedded_hub_gen = state.embedded_hub_gen
      /\ s.hub_bind_error = state.hub_bind_error
  BY <1>1 DEF StopEmbeddedHub, States
<1>3. /\ AbortHub \in [Gens -> Sessions]
      /\ \A h \in Gens : /\ AbortHub[h].task \notin {"failing", "serving"}
                         /\ AbortHub[h].task # "none" <=> session[h].task # "none"
  BY AbortHubWell DEF Tasks
<1> HIDE DEF s
<1>4. Tasks(s, AbortHub, sup)
  BY <1>1, <1>2, <1>3, GensFacts DEF Tasks
<1>5. EndedStay(state, session, sup, s, AbortHub, sup)
  BY <1>1, <1>2, <1>3 DEF EndedStay
<1> QED
  BY <1>2, <1>4, <1>5 DEF s

----------------------------------------------------------------------------
(* The queue and the menu *)

LEMMA QueuedKept ==
    ASSUME Queued, events \in Seq(Event), state \in States, state' \in States,
           EndedStay(state, session, sup, state', session', sup'),
           \/ events' = events
           \/ events # << >> /\ events' = Tail(events)
           \/ \E e \in Event : /\ events' = Append(events, e)
                               /\ EventWell(e, state', session', sup')
    PROVE  Queued'
<1>1. \A i \in 1..Len(events) : EventWell(events[i], state', session', sup')
  <2>1. SUFFICES ASSUME NEW i \in 1..Len(events)
                 PROVE  EventWell(events[i], state', session', sup')
    OBVIOUS
  <2>2. EventWell(events[i], state, session, sup)
    BY DEF Queued
  <2>3. /\ state.supervisor_gen \in Nat /\ state.embedded_hub_gen \in Nat
        /\ state'.supervisor_gen \in Nat /\ state'.embedded_hub_gen \in Nat
    BY StateFields
  <2>4. \A g \in Gens : g \in Nat
    BY GensFacts
  <2>5. PICK e : e = events[i]
    OBVIOUS
  <2>6. e.kind = "SupervisorExited" =>
            e.gen \in Gens /\ e.gen <= state'.supervisor_gen /\ sup'[e.gen].task = "none"
    BY <2>2, <2>3, <2>4, <2>5 DEF EventWell, EndedStay
  <2>7. ASSUME e.kind = "HubExited"
        PROVE  e.gen \in Gens /\ e.gen <= state'.embedded_hub_gen /\ session'[e.gen].task = "none"
    <3>1. e.gen \in Gens /\ e.gen <= state.embedded_hub_gen /\ session[e.gen].task = "none"
      BY <2>2, <2>5, <2>7 DEF EventWell
    <3>2. session'[e.gen].task = "none" /\ state.embedded_hub_gen <= state'.embedded_hub_gen
      BY <3>1 DEF EndedStay
    <3> QED
      <4>1. e.gen \in Nat
        BY <2>4, <3>1
      <4>2. e.gen <= state'.embedded_hub_gen
        BY <2>3, <3>1, <3>2, <4>1
      <4> QED
        BY <3>1, <3>2, <4>2
  <2> QED
    BY <2>2, <2>5, <2>6, <2>7 DEF EventWell
<1>2. CASE events' = events
  BY <1>1, <1>2 DEF Queued, EventWell
<1>3. CASE events # << >> /\ events' = Tail(events)
  <2>1. \A i \in 1..Len(events') : i + 1 \in 1..Len(events) /\ events'[i] = events[i + 1]
    BY <1>3
  <2>2. \A i \in 1..Len(events') : EventWell(events'[i], state', session', sup')
    BY <1>1, <2>1
  <2> QED
    BY <2>2 DEF Queued
<1>4. CASE \E e \in Event : events' = Append(events, e) /\ EventWell(e, state', session', sup')
  <2>1. \A i \in 1..Len(events') : EventWell(events'[i], state', session', sup')
    BY <1>1, <1>4
  <2> QED
    BY <2>1 DEF Queued
<1> QED
  BY <1>2, <1>3, <1>4

\* A handler that refreshes what it has changed.
LEMMA MenuKept ==
    ASSUME MenuShowsState, phase = "running", NEW items \in SUBSET Items, Refresh(items),
           \A i \in {"status", "server", "controls", "icon"} \ items :
               Label(i, state', session') = Label(i, state, session),
           "hub" \notin items => HubLine(state', session')[1] = HubLine(state, session)[1],
           "tooltip" \notin items => \A n \in 1..2 : Tooltip(state')[n] = Tooltip(state)[n]
    PROVE  MenuShowsState' /\ DOMAIN shown' = Items
<1>1. /\ DOMAIN shown' = Items
      /\ \A i \in items : shown'[i] = Label(i, state', session')
      /\ \A i \in Items \ items : shown'[i] = shown[i]
  BY DEF Refresh
<1>2. {"status", "server", "controls", "icon", "hub", "tooltip"} \subseteq Items
  BY DEF Items
<1>3. \A i \in {"status", "server", "controls", "icon"} : shown'[i] = Label(i, state', session')
  BY <1>1, <1>2 DEF MenuShowsState
<1>4. shown'.hub[1] = HubLine(state', session')[1]
  <2>1. CASE "hub" \in items
    <3>1. shown'["hub"] = HubLine(state', session')
      BY <1>1, <2>1 DEF Label
    <3> QED
      BY <3>1
  <2>2. CASE "hub" \notin items
    BY <1>1, <1>2, <2>2 DEF MenuShowsState
  <2> QED
    BY <2>1, <2>2
<1>5. \A n \in 1..2 : shown'.tooltip[n] = Tooltip(state')[n]
  <2>1. CASE "tooltip" \in items
    <3>1. shown'["tooltip"] = Tooltip(state')
      BY <1>1, <2>1 DEF Label
    <3> QED
      BY <3>1
  <2>2. CASE "tooltip" \notin items
    BY <1>1, <1>2, <2>2 DEF MenuShowsState
  <2> QED
    BY <2>1, <2>2
<1> QED
  BY <1>1, <1>3, <1>4, <1>5 DEF MenuShowsState

\* One that refreshes all of it.
LEMMA MenuRefreshed ==
    ASSUME Refresh(Items)
    PROVE  MenuShowsState' /\ DOMAIN shown' = Items
<1>1. /\ DOMAIN shown' = Items
      /\ \A i \in Items : shown'[i] = Label(i, state', session')
  BY DEF Refresh
<1>2. {"status", "server", "controls", "icon", "hub", "tooltip"} \subseteq Items
  BY DEF Items
<1>3. shown'.hub = HubLine(state', session') /\ shown'.tooltip = Tooltip(state')
  BY <1>1, <1>2 DEF Label
<1> QED
  BY <1>1, <1>2, <1>3 DEF MenuShowsState

\* One that has changed nothing that is shown.
LEMMA MenuUnchanged ==
    ASSUME MenuShowsState, DOMAIN shown = Items, UNCHANGED <<phase, state, shown>>
    PROVE  MenuShowsState' /\ DOMAIN shown' = Items
<1>1. \A i \in {"status", "server", "controls", "icon"} :
          Label(i, state', session') = Label(i, state, session)
  BY DEF Label
<1>2. HubLine(state', session')[1] = HubLine(state, session)[1]
  BY DEF HubLine
<1> QED
  BY <1>1, <1>2 DEF MenuShowsState

----------------------------------------------------------------------------
(* Every step keeps IInv when it keeps the tasks *)

LEMMA TasksNext ==
    ASSUME Tasks(state', session', sup')
    PROVE  /\ Tasks(state, session, sup)'
           /\ state' \in States /\ session' \in [Gens -> Sessions] /\ sup' \in [Gens -> Supervisors]
BY DEF Tasks

\* There is a generation for what an event or the start may cause.
LEMMA Room ==
    ASSUME IInv,
           \/ phase = "starting"
           \/ events # << >> /\ Head(events).kind \in Starters
    PROVE  state.supervisor_gen + 1 \in Gens /\ state.embedded_hub_gen + 1 \in Gens
<1>1. /\ state.supervisor_gen \in Nat /\ state.embedded_hub_gen \in Nat
      /\ events \in Seq(Event) /\ acts \in 0..MaxActs
  BY StateFields DEF IInv, TypeOK
<1>2. Pending >= 1
  <2>1. Count(events) \in Nat /\ One(stage # "closed") \in Nat
    BY <1>1, PlacesFinite DEF One
  <2>2. CASE phase = "starting"
    BY <2>1, <2>2 DEF Pending
  <2>3. CASE events # << >> /\ Head(events).kind \in Starters
    <3>1. Count(events) = Count(Tail(events)) + 1
      BY <1>1, <2>3, CountTail DEF One
    <3>2. Count(Tail(events)) \in Nat
      <4>1. Tail(events) \in Seq(Event)
        BY <1>1, <2>3
      <4> QED
        BY <4>1, PlacesFinite
    <3> QED
      BY <2>1, <3>1, <3>2 DEF Pending
  <2> QED
    BY <2>2, <2>3
<1>3. Pending \in Nat
  BY <1>1, PlacesFinite DEF Pending, One
<1>4. state.supervisor_gen + Pending <= acts + 2 /\ state.embedded_hub_gen + Pending <= acts + 2
  BY DEF IInv, Credit
<1>5. MaxActs \in Nat
  BY TrayAssumption
<1>6. /\ state.supervisor_gen + 1 \in Nat /\ state.supervisor_gen + 1 <= MaxActs + 2
      /\ state.embedded_hub_gen + 1 \in Nat /\ state.embedded_hub_gen + 1 <= MaxActs + 2
  <2>1. acts \in Nat /\ acts <= MaxActs
    BY <1>1, <1>5
  <2>2. state.supervisor_gen \in Nat /\ state.embedded_hub_gen \in Nat
    BY <1>1
  <2> QED
    BY <1>2, <1>3, <1>4, <1>5, <2>1, <2>2
<1> QED
  BY <1>1, <1>6, GensFacts

LEMMA HandlerStep ==
    ASSUME IInv, NEW kind, Take(kind), UNCHANGED <<phase, nets, file, acts>>,
           \/ stage' = stage
           \/ /\ stage' = "open" /\ kind \in Starters
              /\ state'.supervisor_gen = state.supervisor_gen
              /\ state'.embedded_hub_gen = state.embedded_hub_gen,
           Tasks(state', session', sup'),
           EndedStay(state, session, sup, state', session', sup'),
           state'.supervisor_gen <= state.supervisor_gen + One(kind \in Starters),
           state'.embedded_hub_gen <= state.embedded_hub_gen + One(kind \in Starters),
           DOMAIN shown' = Items, MenuShowsState'
    PROVE  IInv'
<1>1. /\ events \in Seq(Event) /\ events # << >> /\ events' = Tail(events)
      /\ Head(events).kind = kind /\ phase = "running"
      /\ state.supervisor_gen \in Nat /\ state.embedded_hub_gen \in Nat
      /\ acts \in Nat
  BY StateFields DEF IInv, TypeOK, Take
<1>2. TypeOK'
  <2>1. events' \in Seq(Event)
    BY <1>1
  <2>2. stage' \in {"closed", "open", "writing", "closing"}
    BY DEF IInv, TypeOK
  <2> QED
    BY <2>1, <2>2, TasksNext DEF IInv, TypeOK
<1>3. Tasks(state, session, sup)'
  BY TasksNext
<1>4. Queued'
  BY <1>1, TasksNext, QueuedKept DEF IInv, TypeOK
<1>5. Credit'
  <2>1. Count(events) = Count(events') + One(kind \in Starters) /\ Count(events') \in Nat
    <3>1. events' \in Seq(Event)
      BY <1>1
    <3> QED
      BY <1>1, <3>1, CountTail, PlacesFinite
  <2>2. state'.supervisor_gen \in Nat /\ state'.embedded_hub_gen \in Nat
    BY TasksNext, StateFields
  <2>3. /\ state.supervisor_gen + Count(events) + One(stage # "closed") <= acts + 2
        /\ state.embedded_hub_gen + Count(events) + One(stage # "closed") <= acts + 2
    <3>1. Pending = Count(events) + One(stage # "closed")
      <4>1. phase # "starting" /\ One(stage # "closed") \in Nat
        BY <1>1 DEF One
      <4>2. Count(events) \in Nat
        BY <1>1, PlacesFinite
      <4> QED
        BY <4>1, <4>2 DEF Pending
    <3>2. /\ state.supervisor_gen + Pending <= acts + 2
          /\ state.embedded_hub_gen + Pending <= acts + 2
      BY DEF IInv, Credit
    <3>3. Count(events) \in Nat /\ One(stage # "closed") \in Nat
      BY <1>1, PlacesFinite DEF One
    <3>4. state.supervisor_gen \in Nat /\ state.embedded_hub_gen \in Nat /\ acts \in Nat
      BY <1>1
    <3> QED
      BY <3>1, <3>2, <3>3, <3>4
  <2>4. /\ state'.supervisor_gen + Count(events') + One(stage' # "closed") <= acts + 2
        /\ state'.embedded_hub_gen + Count(events') + One(stage' # "closed") <= acts + 2
    <3>1. /\ One(stage # "closed") \in Nat /\ One(stage' # "closed") \in Nat
          /\ One(kind \in Starters) \in Nat /\ Count(events) \in Nat
      <4>1. Count(events) \in Nat
        BY <1>1, PlacesFinite
      <4> QED
        BY <4>1 DEF One
    <3>2. /\ state'.supervisor_gen + One(stage' # "closed")
                <= state.supervisor_gen + One(stage # "closed") + One(kind \in Starters)
          /\ state'.embedded_hub_gen + One(stage' # "closed")
                <= state.embedded_hub_gen + One(stage # "closed") + One(kind \in Starters)
      <4> state.supervisor_gen \in Nat /\ state.embedded_hub_gen \in Nat
        BY <1>1
      <4>1. CASE stage' = stage
        <5>1. One(stage' # "closed") = One(stage # "closed")
          BY <4>1
        <5> QED
          BY <2>2, <3>1, <5>1
      <4>2. CASE stage' # stage
        <5>1. One(stage' # "closed") = 1 /\ One(kind \in Starters) = 1
          BY <4>2 DEF One
        <5>2. /\ stage' = "open" /\ state'.supervisor_gen = state.supervisor_gen
              /\ state'.embedded_hub_gen = state.embedded_hub_gen
          BY <4>2
        <5> QED
          BY <3>1, <5>1, <5>2
      <4> QED
        BY <4>1, <4>2
    <3> QED
      <4> DEFINE c == Count(events)
                 c2 == Count(events')
                 k == One(kind \in Starters)
                 o == One(stage # "closed")
                 o2 == One(stage' # "closed")
                 g == state.supervisor_gen
                 g2 == state'.supervisor_gen
                 h == state.embedded_hub_gen
                 h2 == state'.embedded_hub_gen
      <4>1. {c, c2, k, o, o2, g, g2, h, h2, acts} \subseteq Nat
        BY <1>1, <2>1, <2>2, <3>1
      <4>2. /\ c = c2 + k
            /\ g + c + o <= acts + 2 /\ g2 + o2 <= g + o + k
            /\ h + c + o <= acts + 2 /\ h2 + o2 <= h + o + k
        BY <2>1, <2>3, <3>2
      <4> HIDE DEF c, c2, k, o, o2, g, g2, h, h2
      <4>3. g2 + c2 + o2 <= acts + 2 /\ h2 + c2 + o2 <= acts + 2
        BY <4>1, <4>2
      <4> QED
        BY <4>3 DEF c2, o2, g2, h2
  <2>5. Pending' = Count(events') + One(stage' # "closed")
    <3>1. Pending' = Count(events') + One(stage' # "closed") + IF phase' = "starting" THEN 2 ELSE 0
      BY DEF Pending, One, Count, Places
    <3>2. One(stage' # "closed") \in Nat /\ phase' # "starting"
      BY <1>1 DEF One
    <3> QED
      BY <2>1, <3>1, <3>2
  <2> QED
    BY <2>1, <2>2, <2>4, <2>5 DEF Credit, One
<1>6. Fresh'
  BY <1>1 DEF Fresh
<1> QED
  BY <1>2, <1>3, <1>4, <1>5, <1>6 DEF IInv

LEMMA PostedSum ==
    ASSUME NEW a \in Nat, NEW a2 \in Nat, NEW c \in Nat, NEW k \in Nat,
           NEW o \in Nat, NEW o2 \in Nat, a + k + o2 <= a2 + o
    PROVE  c + k \in Nat /\ a + (c + k) + o2 <= a2 + c + o
OBVIOUS

LEMMA CreditSum ==
    ASSUME NEW a \in Nat, NEW a2 \in Nat, NEW c \in Nat, NEW c2 \in Nat,
           NEW o \in Nat, NEW o2 \in Nat, NEW g \in Nat,
           g + (c + o) <= a + 2, a + c2 + o2 <= a2 + c + o
    PROVE  g + (c2 + o2) <= a2 + 2
OBVIOUS

LEMMA PostedCount ==
    ASSUME events \in Seq(Event), NEW e \in Event, events' = Append(events, e),
           acts \in Nat, acts' \in Nat,
           acts + One(e.kind \in Starters) + One(stage' # "closed") <= acts' + One(stage # "closed")
    PROVE  /\ Count(events') \in Nat
           /\ acts + Count(events') + One(stage' # "closed")
                  <= acts' + Count(events) + One(stage # "closed")
<1> DEFINE c == Count(events)
           c2 == Count(events')
           k == One(e.kind \in Starters)
           o == One(stage # "closed")
           o2 == One(stage' # "closed")
           a == acts
           a2 == acts'
<1>1. c \in Nat /\ k \in Nat /\ o \in Nat /\ o2 \in Nat /\ a \in Nat /\ a2 \in Nat
  BY PlacesFinite DEF One
<1>2. c2 = c + k
  BY CountAppend
<1>3. a + k + o2 <= a2 + o
  OBVIOUS
<1> HIDE DEF c, c2, k, o, o2, a, a2
<1>4. c + k \in Nat /\ a + (c + k) + o2 <= a2 + c + o
  BY <1>1, <1>3, PostedSum
<1>5. c2 \in Nat /\ a + c2 + o2 <= a2 + c + o
  BY <1>2, <1>4
<1> QED
  BY <1>5 DEF c, c2, o, o2, a, a2

LEMMA CreditKept ==
    ASSUME IInv, phase = "running", UNCHANGED <<phase, state>>,
           acts \in Nat, acts' \in Nat, Count(events') \in Nat,
           acts + Count(events') + One(stage' # "closed")
               <= acts' + Count(events) + One(stage # "closed")
    PROVE  Credit'
<1> DEFINE c == Count(events)
           c2 == Count(events')
           o == One(stage # "closed")
           o2 == One(stage' # "closed")
           g == state.supervisor_gen
           h == state.embedded_hub_gen
           a == acts
           a2 == acts'
<1>1. /\ c \in Nat /\ c2 \in Nat /\ o \in Nat /\ o2 \in Nat /\ g \in Nat /\ h \in Nat
      /\ a \in Nat /\ a2 \in Nat
  BY PlacesFinite, StateFields DEF IInv, TypeOK, One
<1>2. a + c2 + o2 <= a2 + c + o
  OBVIOUS
<1>3. Pending = c + o
  <2>1. Pending = c + o + IF phase = "starting" THEN 2 ELSE 0
    BY DEF Pending
  <2> HIDE DEF c, o
  <2> QED
    BY <1>1, <2>1
<1>4. Pending' = c2 + o2
  <2>1. Pending' = c2 + o2 + IF phase' = "starting" THEN 2 ELSE 0
    BY DEF Pending, One, Count, Places
  <2>2. phase' # "starting"
    OBVIOUS
  <2> HIDE DEF c2, o2
  <2> QED
    BY <1>1, <2>1, <2>2
<1>5. g + (c + o) <= a + 2 /\ h + (c + o) <= a + 2
  <2>1. g + Pending <= a + 2 /\ h + Pending <= a + 2
    BY DEF IInv, Credit
  <2> HIDE DEF c, o, g, h, a
  <2> QED
    BY <1>3, <2>1
<1>6. state'.supervisor_gen = g /\ state'.embedded_hub_gen = h
  OBVIOUS
<1> HIDE DEF c, c2, o, o2, g, h, a, a2
<1>7. g + (c2 + o2) <= a2 + 2 /\ h + (c2 + o2) <= a2 + 2
  BY <1>1, <1>2, <1>5, CreditSum
<1> QED
  BY <1>4, <1>6, <1>7 DEF Credit, a2

\* A step outside of the loop leaves the queue alone or posts an event, which may
\* start something only if the user has caused it.
PostsAtMost ==
    \/ /\ events' = events
       /\ acts + One(stage' # "closed") <= acts' + One(stage # "closed")
    \/ \E e \in Event :
          /\ events' = Append(events, e)
          /\ EventWell(e, state, session', sup')
          /\ acts + One(e.kind \in Starters) + One(stage' # "closed")
                 <= acts' + One(stage # "closed")

LEMMA Posted ==
    ASSUME events \in Seq(Event), state' = state, PostsAtMost
    PROVE  /\ events' \in Seq(Event)
           /\ \/ events' = events
              \/ events # << >> /\ events' = Tail(events)
              \/ \E e \in Event : /\ events' = Append(events, e)
                                  /\ EventWell(e, state', session', sup')
<1>1. CASE events' = events
  BY <1>1
<1>2. CASE \E e \in Event : /\ events' = Append(events, e)
                            /\ EventWell(e, state', session', sup')
  BY <1>2
<1> QED
  BY <1>1, <1>2 DEF PostsAtMost

LEMMA TaskStep ==
    ASSUME IInv, phase = "running", UNCHANGED <<phase, state, shown>>,
           file' \in Configs \union {NoConfig},
           stage' \in {"closed", "open", "writing", "closing"},
           acts' \in 0..MaxActs, nets' \in 0..MaxNet,
           Tasks(state, session', sup'),
           EndedStay(state, session, sup, state, session', sup'),
           PostsAtMost
    PROVE  IInv'
<1>1. /\ events \in Seq(Event) /\ state \in States /\ acts \in Nat /\ acts' \in Nat
      /\ state.supervisor_gen \in Nat /\ state.embedded_hub_gen \in Nat
  BY StateFields DEF IInv, TypeOK
<1>2. Tasks(state', session', sup')
  <2>1. state' = state
    OBVIOUS
  <2> QED
    BY <2>1
<1>3. TypeOK'
  <2>1. events' \in Seq(Event)
    BY <1>1, Posted
  <2> QED
    BY <1>2, <2>1, TasksNext DEF IInv, TypeOK
<1>4. Queued'
  <2>1. \/ events' = events
        \/ events # << >> /\ events' = Tail(events)
        \/ \E e \in Event : events' = Append(events, e) /\ EventWell(e, state', session', sup')
    BY <1>1, Posted
  <2>2. state' = state
    OBVIOUS
  <2> QED
    BY <1>1, <2>1, <2>2, QueuedKept DEF IInv
<1>5. Credit'
  <2>1. /\ Count(events') \in Nat
        /\ acts + Count(events') + One(stage' # "closed")
               <= acts' + Count(events) + One(stage # "closed")
    <3>1. CASE events' = events /\ acts + One(stage' # "closed") <= acts' + One(stage # "closed")
      <4>1. /\ Count(events) \in Nat
            /\ One(stage # "closed") \in Nat /\ One(stage' # "closed") \in Nat
        BY <1>1, PlacesFinite DEF One
      <4> QED
        BY <1>1, <3>1, <4>1
    <3>2. CASE \E e \in Event :
                  /\ events' = Append(events, e)
                  /\ acts + One(e.kind \in Starters) + One(stage' # "closed")
                         <= acts' + One(stage # "closed")
      BY <1>1, <3>2, PostedCount
    <3> QED
      BY <3>1, <3>2 DEF PostsAtMost
  <2> QED
    BY <1>1, <2>1, CreditKept
<1>6. Fresh'
  BY DEF Fresh
<1>7. DOMAIN shown' = Items /\ MenuShowsState'
  BY MenuUnchanged DEF IInv, TypeOK
<1> QED
  BY <1>2, <1>3, <1>4, <1>5, <1>6, <1>7, TasksNext DEF IInv

LEMMA SameTasks ==
    ASSUME IInv, UNCHANGED <<session, sup>>
    PROVE  Tasks(state, session', sup') /\ EndedStay(state, session, sup, state, session', sup')
<1>1. session' = session /\ sup' = sup
  OBVIOUS
<1>2. state.supervisor_gen \in Nat /\ state.embedded_hub_gen \in Nat
  BY StateFields DEF IInv, Tasks
<1> QED
  BY <1>1, <1>2 DEF IInv, EndedStay

----------------------------------------------------------------------------
(* The user and the dialog *)

LEMMA EventType ==
    /\ \A kind \in {"edit", "reload", "start", "stop", "restart", "quit", "SettingsExited",
                    "HubPeerCountChanged"} :
          Ev(kind) \in Event /\ Ev(kind).kind = kind
    /\ \A kind \in {"SupervisorExited", "HubExited"}, g \in Gens :
          /\ TaskEv(kind, g) \in Event
          /\ TaskEv(kind, g).kind = kind /\ TaskEv(kind, g).gen = g
    /\ \A g \in Gens, is \in Statuses :
          /\ StatusEv(g, is) \in Event
          /\ StatusEv(g, is).kind = "ClientStatusChanged"
          /\ StatusEv(g, is).gen = g /\ StatusEv(g, is).is = is
<1>1. \A kind \in {"edit", "reload", "start", "stop", "restart", "quit", "SettingsExited",
                   "HubPeerCountChanged"} :
          Ev(kind) \in Event /\ Ev(kind).kind = kind
  BY DEF Ev, Event
<1>2. \A kind \in {"SupervisorExited", "HubExited"}, g \in Gens :
          /\ TaskEv(kind, g) \in Event
          /\ TaskEv(kind, g).kind = kind /\ TaskEv(kind, g).gen = g
  BY DEF TaskEv, Event
<1>3. \A g \in Gens, is \in Statuses :
          /\ StatusEv(g, is) \in Event
          /\ StatusEv(g, is).kind = "ClientStatusChanged"
          /\ StatusEv(g, is).gen = g /\ StatusEv(g, is).is = is
  BY DEF StatusEv, Event
<1> QED
  BY <1>1, <1>2, <1>3

LEMMA UserStepWell == ASSUME IInv, UserStep PROVE IInv'
<1>1. /\ acts \in 0..MaxActs /\ nets \in 0..MaxNet /\ events \in Seq(Event)
      /\ file \in Configs \union {NoConfig}
      /\ stage \in {"closed", "open", "writing", "closing"}
  BY DEF IInv, TypeOK
<1>2. ASSUME NEW item \in {"edit", "reload", "start", "stop", "restart", "quit"}, Click(item)
      PROVE  IInv'
  <2>1. Ev(item) \in Event /\ Ev(item).kind = item
    BY EventType
  <2>2. /\ events' = Append(events, Ev(item)) /\ acts' = acts + 1 /\ phase = "running"
        /\ UNCHANGED <<phase, nets, file, stage, state, shown, sup, session>> /\ acts < MaxActs
    BY <1>2 DEF Click, Post
  <2>3. EventWell(Ev(item), state, session', sup')
    BY <2>1 DEF EventWell
  <2>4. /\ acts + One(Ev(item).kind \in Starters) + One(stage' # "closed")
               <= acts' + One(stage # "closed")
        /\ acts' \in 0..MaxActs
    BY <1>1, <2>2 DEF One
  <2> QED
    BY <1>1, <2>1, <2>2, <2>3, <2>4, SameTasks, TaskStep DEF PostsAtMost
<1>3. ASSUME NEW c \in Configs \union {NoConfig}, EditFile(c) \/ SaveEnds(c)
      PROVE  IInv'
  <2>1. /\ phase = "running" /\ UNCHANGED <<phase, nets, events, state, shown, sup, session>>
        /\ file' = c /\ acts' \in 0..MaxActs /\ acts <= acts'
        /\ stage' \in {"closed", "open", "writing", "closing"}
        /\ One(stage' # "closed") = One(stage # "closed")
    BY <1>1, <1>3 DEF EditFile, SaveEnds, One
  <2>2. acts + One(stage' # "closed") <= acts' + One(stage # "closed")
    <3>1. One(stage # "closed") \in Nat /\ acts \in Nat /\ acts' \in Nat
      BY <1>1, <2>1 DEF One
    <3> QED
      BY <2>1, <3>1
  <2> QED
    BY <1>1, <2>1, <2>2, SameTasks, TaskStep DEF PostsAtMost
<1>4. CASE SaveBegins
  <2>1. /\ phase = "running" /\ UNCHANGED <<phase, nets, events, state, shown, sup, session>>
        /\ file' = NoConfig /\ acts' \in 0..MaxActs
        /\ stage' \in {"closed", "open", "writing", "closing"}
        /\ acts + One(stage' # "closed") <= acts' + One(stage # "closed")
    BY <1>1, <1>4 DEF SaveBegins, One
  <2> QED
    BY <1>1, <2>1, SameTasks, TaskStep DEF PostsAtMost
<1>5. CASE DialogExits
  <2>1. Ev("SettingsExited") \in Event /\ Ev("SettingsExited").kind = "SettingsExited"
    BY EventType
  <2>2. /\ events' = Append(events, Ev("SettingsExited")) /\ phase = "running"
        /\ UNCHANGED <<phase, nets, file, acts, state, shown, sup, session>>
        /\ stage # "closed" /\ stage' = "closed"
    BY <1>5 DEF DialogExits, Post
  <2>3. EventWell(Ev("SettingsExited"), state, session', sup')
    BY <2>1 DEF EventWell
  <2>4. acts + One(Ev("SettingsExited").kind \in Starters) + One(stage' # "closed")
               <= acts' + One(stage # "closed")
    BY <1>1, <2>1, <2>2 DEF One
  <2> QED
    BY <1>1, <2>1, <2>2, <2>3, <2>4, SameTasks, TaskStep DEF PostsAtMost
<1> QED
  BY <1>2, <1>3, <1>4, <1>5 DEF UserStep

----------------------------------------------------------------------------
(* The tasks: each step changes one of them *)

LEMMA SupervisorChanges ==
    ASSUME IInv, NEW g \in Gens, NEW new \in Supervisors,
           sup' = [sup EXCEPT ![g] = new], session' = session,
           new.task \in {"none", sup[g].task}
    PROVE  /\ Tasks(state, session', sup')
           /\ EndedStay(state, session, sup, state, session', sup')
           /\ sup'[g] = new
<1>1. /\ state.supervisor_gen \in Nat /\ state.embedded_hub_gen \in Nat
      /\ Tasks(state, session, sup)
  BY StateFields DEF IInv, Tasks
<1>2. /\ sup' \in [Gens -> Supervisors] /\ sup'[g] = new
      /\ \A k \in Gens \ {g} : sup'[k] = sup[k]
  BY <1>1 DEF Tasks
<1>3. \A k \in Gens : sup'[k].task \in {"none", sup[k].task}
  BY <1>2
<1>4. Tasks(state, session', sup')
  BY <1>1, <1>2, <1>3 DEF Tasks
<1>5. EndedStay(state, session, sup, state, session', sup')
  BY <1>1, <1>3 DEF EndedStay
<1> QED
  BY <1>2, <1>4, <1>5

LEMMA SupervisorStepWell == ASSUME IInv, SupervisorStep PROVE IInv'
<1>1. /\ acts \in 0..MaxActs /\ nets \in 0..MaxNet /\ events \in Seq(Event)
      /\ file \in Configs \union {NoConfig} /\ sup \in [Gens -> Supervisors]
      /\ stage \in {"closed", "open", "writing", "closing"}
  BY DEF IInv, TypeOK
<1>2. PICK g \in Gens : \/ \E is \in Statuses : StatusChanges(g, is)
                        \/ Forward(g) \/ SupervisorExits(g)
  BY DEF SupervisorStep
<1>3. sup[g] \in Supervisors /\ sup[g].is \in Statuses /\ One(stage # "closed") \in Nat
  BY <1>1 DEF Supervisors, One
<1>4. ASSUME NEW is \in Statuses, StatusChanges(g, is) PROVE IInv'
  <2> DEFINE new == [[sup[g] EXCEPT !.is = is] EXCEPT !.unseen = TRUE]
  <2>1. new \in Supervisors /\ new.task = sup[g].task
    BY <1>3 DEF Supervisors
  <2>2. /\ phase = "running" /\ UNCHANGED <<phase, desk, events, state, shown, session>>
        /\ nets' \in 0..MaxNet /\ sup' = [sup EXCEPT ![g] = new]
    <3>1. sup' = [sup EXCEPT ![g].is = is, ![g].unseen = TRUE]
      BY <1>4 DEF StatusChanges
    <3>2. [sup EXCEPT ![g].is = is, ![g].unseen = TRUE] = [sup EXCEPT ![g] = new]
      BY <1>1, <1>3
    <3>3. /\ phase = "running" /\ UNCHANGED <<phase, desk, events, state, shown, session>>
          /\ nets < MaxNet /\ nets' = nets + 1
      BY <1>4 DEF StatusChanges
    <3>4. nets' \in 0..MaxNet
      BY <1>1, <3>3
    <3> QED
      BY <3>1, <3>2, <3>3, <3>4
  <2>3. acts' = acts /\ stage' = stage /\ file' = file
    BY <2>2 DEF desk
  <2> HIDE DEF new
  <2>4. Tasks(state, session', sup') /\ EndedStay(state, session, sup, state, session', sup')
    BY <2>1, <2>2, SupervisorChanges
  <2>5. acts + One(stage' # "closed") <= acts' + One(stage # "closed")
    BY <1>1, <1>3, <2>3
  <2> QED
    BY <1>1, <2>2, <2>3, <2>4, <2>5, TaskStep DEF PostsAtMost
<1>5. CASE Forward(g)
  <2> DEFINE new == [sup[g] EXCEPT !.unseen = FALSE]
             e == StatusEv(g, sup[g].is)
  <2>1. new \in Supervisors /\ new.task = sup[g].task
    BY <1>3 DEF Supervisors
  <2>2. /\ phase = "running" /\ UNCHANGED <<phase, nets, desk, state, shown, session>>
        /\ sup' = [sup EXCEPT ![g] = new] /\ events' = Append(events, e)
    BY <1>1, <1>5 DEF Forward, Post
  <2>3. acts' = acts /\ stage' = stage /\ file' = file
    BY <2>2 DEF desk
  <2>4. e \in Event /\ e.kind = "ClientStatusChanged" /\ e.gen = g /\ e.is \in Statuses
    BY <1>3, EventType
  <2> HIDE DEF new, e
  <2>5. Tasks(state, session', sup') /\ EndedStay(state, session, sup, state, session', sup')
    BY <2>1, <2>2, SupervisorChanges
  <2>6. EventWell(e, state, session', sup')
    BY <2>4 DEF EventWell
  <2>7. acts + One(e.kind \in Starters) + One(stage' # "closed") <= acts' + One(stage # "closed")
    <3>1. One(e.kind \in Starters) = 0
      BY <2>4 DEF One, Starters
    <3> QED
      BY <1>1, <1>3, <2>3, <3>1
  <2> QED
    BY <1>1, <2>2, <2>3, <2>4, <2>5, <2>6, <2>7, TaskStep DEF PostsAtMost
<1>6. CASE SupervisorExits(g)
  <2> DEFINE new == [sup[g] EXCEPT !.task = "none"]
             e == TaskEv("SupervisorExited", g)
  <2>1. new \in Supervisors /\ new.task = "none"
    BY <1>3 DEF Supervisors
  <2>2. /\ phase = "running" /\ UNCHANGED <<phase, desk, state, shown, session>>
        /\ nets' \in 0..MaxNet /\ sup[g].task # "none"
        /\ sup' = [sup EXCEPT ![g] = new] /\ events' = Append(events, e)
    BY <1>1, <1>6 DEF SupervisorExits, Post
  <2>3. acts' = acts /\ stage' = stage /\ file' = file
    BY <2>2 DEF desk
  <2>4. e \in Event /\ e.kind = "SupervisorExited" /\ e.gen = g
    BY EventType
  <2> HIDE DEF new, e
  <2>5. /\ Tasks(state, session', sup') /\ EndedStay(state, session, sup, state, session', sup')
        /\ sup'[g] = new
    BY <2>1, <2>2, SupervisorChanges
  <2>6. g <= state.supervisor_gen
    BY <2>2 DEF IInv, Tasks
  <2>7. EventWell(e, state, session', sup')
    BY <2>1, <2>4, <2>5, <2>6 DEF EventWell
  <2>8. acts + One(e.kind \in Starters) + One(stage' # "closed") <= acts' + One(stage # "closed")
    <3>1. One(e.kind \in Starters) = 0
      BY <2>4 DEF One, Starters
    <3> QED
      BY <1>1, <1>3, <2>3, <3>1
  <2> QED
    BY <1>1, <2>2, <2>3, <2>4, <2>5, <2>7, <2>8, TaskStep DEF PostsAtMost
<1> QED
  BY <1>2, <1>4, <1>5, <1>6

LEMMA HubChanges ==
    ASSUME IInv, NEW h \in Gens, NEW new \in Sessions,
           session' = [session EXCEPT ![h] = new], sup' = sup,
           \/ new.task = "none"
           \/ new.task = session[h].task /\ new.port = session[h].port
    PROVE  /\ Tasks(state, session', sup')
           /\ EndedStay(state, session, sup, state, session', sup')
           /\ session'[h] = new
<1>1. /\ state.supervisor_gen \in Nat /\ state.embedded_hub_gen \in Nat
      /\ Tasks(state, session, sup)
  BY StateFields DEF IInv, Tasks
<1>2. /\ session' \in [Gens -> Sessions] /\ session'[h] = new
      /\ \A k \in Gens \ {h} : session'[k] = session[k]
  BY <1>1 DEF Tasks
<1>3. \A k \in Gens : \/ session'[k].task = "none"
                      \/ session'[k].task = session[k].task /\ session'[k].port = session[k].port
  BY <1>2
<1>4. Tasks(state, session', sup')
  BY <1>1, <1>2, <1>3 DEF Tasks
<1>5. EndedStay(state, session, sup, state, session', sup')
  BY <1>1, <1>3 DEF EndedStay
<1> QED
  BY <1>2, <1>4, <1>5

LEMMA HubStepWell == ASSUME IInv, HubStep PROVE IInv'
<1>1. /\ acts \in 0..MaxActs /\ nets \in 0..MaxNet /\ events \in Seq(Event)
      /\ file \in Configs \union {NoConfig} /\ session \in [Gens -> Sessions]
      /\ stage \in {"closed", "open", "writing", "closing"}
  BY DEF IInv, TypeOK
<1>2. PICK h \in Gens : \/ HubExits(h) \/ HubAborted(h)
                        \/ ClientConnects(h) \/ ClientLeaves(h) \/ Poll(h)
  BY DEF HubStep
<1>3. /\ session[h] \in Sessions /\ session[h].clients \in 0..MaxPeers
      /\ One(stage # "closed") \in Nat
  BY <1>1 DEF Sessions, One
<1>4. CASE HubExits(h) \/ HubAborted(h)
  <2> DEFINE new == [[session[h] EXCEPT !.task = "none"] EXCEPT !.port = 0]
             e == TaskEv("HubExited", h)
  <2>1. new \in Sessions /\ new.task = "none"
    BY <1>3 DEF Sessions
  <2>2. /\ phase = "running" /\ UNCHANGED <<phase, nets, desk, state, shown, sup>>
        /\ session[h].task # "none"
        /\ session' = [session EXCEPT ![h] = new]
        /\ events' \in {events, Append(events, e)}
    BY <1>1, <1>4 DEF HubExits, HubAborted, Post
  <2>3. acts' = acts /\ stage' = stage /\ file' = file /\ sup' = sup
    BY <2>2 DEF desk
  <2>4. e \in Event /\ e.kind = "HubExited" /\ e.gen = h
    BY EventType
  <2> HIDE DEF new, e
  <2>5. /\ Tasks(state, session', sup') /\ EndedStay(state, session, sup, state, session', sup')
        /\ session'[h] = new
    BY <2>1, <2>2, <2>3, HubChanges
  <2>6. h <= state.embedded_hub_gen
    BY <2>2 DEF IInv, Tasks
  <2>7. EventWell(e, state, session', sup')
    BY <2>1, <2>4, <2>5, <2>6 DEF EventWell
  <2>8. acts + One(e.kind \in Starters) + One(stage' # "closed") <= acts' + One(stage # "closed")
    <3>1. One(e.kind \in Starters) = 0
      BY <2>4 DEF One, Starters
    <3> QED
      BY <1>1, <1>3, <2>3, <3>1
  <2>9. acts + One(stage' # "closed") <= acts' + One(stage # "closed")
    BY <1>1, <1>3, <2>3
  <2> QED
    BY <1>1, <2>2, <2>3, <2>4, <2>5, <2>7, <2>8, <2>9, TaskStep DEF PostsAtMost
<1>5. CASE ClientConnects(h) \/ ClientLeaves(h)
  <2>1. PICK n \in 0..MaxPeers : session' = [session EXCEPT ![h].clients = n]
    BY <1>3, <1>5 DEF ClientConnects, ClientLeaves
  <2> DEFINE new == [session[h] EXCEPT !.clients = n]
  <2>2. new \in Sessions /\ new.task = session[h].task /\ new.port = session[h].port
    BY <1>3 DEF Sessions
  <2>3. /\ phase = "running" /\ UNCHANGED <<phase, desk, events, state, shown, sup>>
        /\ nets' \in 0..MaxNet /\ session' = [session EXCEPT ![h] = new]
    BY <1>1, <1>5, <2>1 DEF ClientConnects, ClientLeaves
  <2>4. acts' = acts /\ stage' = stage /\ file' = file /\ sup' = sup
    BY <2>3 DEF desk
  <2> HIDE DEF new
  <2>5. Tasks(state, session', sup') /\ EndedStay(state, session, sup, state, session', sup')
    BY <2>2, <2>3, <2>4, HubChanges
  <2>6. acts + One(stage' # "closed") <= acts' + One(stage # "closed")
    BY <1>1, <1>3, <2>4
  <2> QED
    BY <1>1, <2>3, <2>4, <2>5, <2>6, TaskStep DEF PostsAtMost
<1>6. CASE Poll(h)
  <2> DEFINE new == [session[h] EXCEPT !.last = session[h].clients]
             e == Ev("HubPeerCountChanged")
  <2>1. new \in Sessions /\ new.task = session[h].task /\ new.port = session[h].port
    BY <1>3 DEF Sessions, None
  <2>2. /\ phase = "running" /\ UNCHANGED <<phase, nets, desk, state, shown, sup>>
        /\ session' = [session EXCEPT ![h] = new] /\ events' = Append(events, e)
    BY <1>1, <1>6 DEF Poll, Post
  <2>3. acts' = acts /\ stage' = stage /\ file' = file /\ sup' = sup
    BY <2>2 DEF desk
  <2>4. e \in Event /\ e.kind = "HubPeerCountChanged"
    BY EventType
  <2> HIDE DEF new, e
  <2>5. Tasks(state, session', sup') /\ EndedStay(state, session, sup, state, session', sup')
    BY <2>1, <2>2, <2>3, HubChanges
  <2>6. EventWell(e, state, session', sup')
    BY <2>4 DEF EventWell
  <2>7. acts + One(e.kind \in Starters) + One(stage' # "closed") <= acts' + One(stage # "closed")
    <3>1. One(e.kind \in Starters) = 0
      BY <2>4 DEF One, Starters
    <3> QED
      BY <1>1, <1>3, <2>3, <3>1
  <2> QED
    BY <1>1, <2>2, <2>3, <2>4, <2>5, <2>6, <2>7, TaskStep DEF PostsAtMost
<1> QED
  BY <1>2, <1>4, <1>5, <1>6

----------------------------------------------------------------------------
(* The program starts *)

LEMMA StartWell == ASSUME IInv, Start PROVE IInv'
<1>1. /\ acts \in 0..MaxActs /\ state \in States /\ Tasks(state, session, sup)
      /\ state.supervisor_gen \in Nat /\ state.embedded_hub_gen \in Nat
  BY StateFields DEF IInv, TypeOK
<1>2. /\ phase = "starting" /\ phase' = "running" /\ UNCHANGED <<file, nets, acts, events>>
      /\ Refresh(Items) /\ events = << >> /\ stage = "closed" /\ state.supervisor = 0
      /\ stage' \in {"closed", "open"}
  BY DEF Start, IInv, Fresh
<1>3. PICK opens \in BOOLEAN :
          ApplyLoadedConfig([state EXCEPT !.settings_alive = opens], session, sup)
  BY DEF Start
<1> DEFINE s == [state EXCEPT !.settings_alive = opens]
<1>4. /\ s \in States /\ s.supervisor = 0
      /\ s.supervisor_gen = state.supervisor_gen /\ s.embedded_hub = state.embedded_hub
      /\ s.embedded_hub_gen = state.embedded_hub_gen /\ s.hub_stats = state.hub_stats
      /\ s.client_status = state.client_status /\ s.cfg = state.cfg
  BY <1>1, <1>2 DEF States
<1>5. ApplyLoadedConfig(s, session, sup)
  BY <1>3
<1> HIDE DEF s
<1>6. Tasks(s, session, sup)
  BY <1>1, <1>2, <1>4 DEF Tasks
<1>7. s.supervisor_gen + 1 \in Gens /\ s.embedded_hub_gen + 1 \in Gens
  BY <1>2, <1>4, Room
<1>8. /\ Tasks(state', session', sup')
      /\ state'.supervisor_gen <= state.supervisor_gen + 1
      /\ state'.embedded_hub_gen <= state.embedded_hub_gen + 1
  BY <1>4, <1>5, <1>6, <1>7, AppliedWell
<1>9. TypeOK'
  <2>1. DOMAIN shown' = Items
    BY <1>2, MenuRefreshed
  <2> QED
    BY <1>2, <1>8, <2>1, TasksNext DEF IInv, TypeOK
<1>10. Credit'
  <2>1. Pending = 2
    <3>1. Count(events) = 0
      BY <1>2, CountEmpty
    <3> QED
      BY <1>2, <3>1 DEF Pending, One
  <2>2. Pending' <= 1 /\ Pending' \in Nat
    <3>1. Count(events)' = 0
      <4>1. Count(events') = 0
        BY <1>2, CountEmpty
      <4> QED
        BY <4>1 DEF Count, Places
    <3>2. Pending' = One(stage' # "closed")
      BY <1>2, <3>1 DEF Pending, One
    <3> QED
      BY <3>2 DEF One
  <2>3. state'.supervisor_gen \in Nat /\ state'.embedded_hub_gen \in Nat
    BY <1>8, TasksNext, StateFields
  <2>4. state.supervisor_gen + 2 <= acts + 2 /\ state.embedded_hub_gen + 2 <= acts + 2
    BY <2>1 DEF IInv, Credit
  <2>5. /\ state'.supervisor_gen + Pending' <= acts' + 2
        /\ state'.embedded_hub_gen + Pending' <= acts' + 2
    <3> DEFINE n == Pending'
               g == state'.supervisor_gen
               h == state'.embedded_hub_gen
               a == acts
    <3>1. /\ n \in Nat /\ g \in Nat /\ h \in Nat /\ a \in Nat /\ n <= 1
          /\ g <= a + 1 /\ h <= a + 1
      BY <1>1, <1>8, <2>2, <2>3, <2>4
    <3> HIDE DEF n, g, h, a
    <3>2. g + n <= a + 2 /\ h + n <= a + 2
      BY <3>1
    <3>3. acts' = a
      BY <1>2 DEF a
    <3> QED
      BY <3>2, <3>3 DEF n, g, h
  <2> QED
    BY <2>5 DEF Credit
<1>11. Queued'
  BY <1>2 DEF Queued
<1>12. Fresh'
  BY <1>2 DEF Fresh
<1> QED
  BY <1>2, <1>8, <1>9, <1>10, <1>11, <1>12, MenuRefreshed, TasksNext DEF IInv

----------------------------------------------------------------------------
(* The handlers of the event loop *)

LEMMA EndedTwice ==
    ASSUME NEW s \in States, NEW hubs, NEW sups, NEW t \in States, NEW hubs2, NEW sups2,
           NEW u \in States, NEW hubs3, NEW sups3,
           EndedStay(s, hubs, sups, t, hubs2, sups2), EndedStay(t, hubs2, sups2, u, hubs3, sups3)
    PROVE  EndedStay(s, hubs, sups, u, hubs3, sups3)
<1>1. /\ s.supervisor_gen \in Nat /\ s.embedded_hub_gen \in Nat
      /\ t.supervisor_gen \in Nat /\ t.embedded_hub_gen \in Nat
      /\ u.supervisor_gen \in Nat /\ u.embedded_hub_gen \in Nat
  BY StateFields
<1>2. \A g \in Gens : g \in Nat
  BY GensFacts
<1>3. /\ s.supervisor_gen <= t.supervisor_gen /\ t.supervisor_gen <= u.supervisor_gen
      /\ s.embedded_hub_gen <= t.embedded_hub_gen /\ t.embedded_hub_gen <= u.embedded_hub_gen
  BY DEF EndedStay
<1>4. s.supervisor_gen <= u.supervisor_gen /\ s.embedded_hub_gen <= u.embedded_hub_gen
  BY <1>1, <1>3
<1>5. ASSUME NEW g \in Gens, g <= s.supervisor_gen, sups[g].task = "none"
      PROVE  sups3[g].task = "none"
  <2>1. g <= t.supervisor_gen
    BY <1>1, <1>2, <1>3, <1>5
  <2> QED
    BY <1>5, <2>1 DEF EndedStay
<1>6. ASSUME NEW g \in Gens, g <= s.embedded_hub_gen, hubs[g].task = "none"
      PROVE  hubs3[g].task = "none"
  <2>1. g <= t.embedded_hub_gen
    BY <1>1, <1>2, <1>3, <1>6
  <2> QED
    BY <1>6, <2>1 DEF EndedStay
<1> QED
  BY <1>4, <1>5, <1>6 DEF EndedStay

\* reload_and_restart: everything is aborted and started again.
LEMMA ReloadWell ==
    ASSUME IInv, NEW kind \in Starters, Take(kind), UNCHANGED <<phase, nets, desk>>,
           Refresh(Items), NEW alive \in BOOLEAN,
           ReloadInto([state EXCEPT !.settings_alive = alive])
    PROVE  IInv'
<1> DEFINE s == [AbortRunning([state EXCEPT !.settings_alive = alive]) EXCEPT !.cfg = file]
<1>1. ApplyLoadedConfig(s, AbortHub, AbortSupervisor)
  BY DEF ReloadInto
<1>2. /\ Tasks(state, session, sup) /\ file \in Configs \union {NoConfig} /\ state \in States
      /\ state.supervisor_gen \in Nat /\ state.embedded_hub_gen \in Nat
  BY StateFields DEF IInv, TypeOK
<1>3. /\ Tasks(s, AbortHub, AbortSupervisor)
      /\ EndedStay(state, session, sup, s, AbortHub, AbortSupervisor)
      /\ s.supervisor = 0
      /\ s.supervisor_gen = state.supervisor_gen /\ s.embedded_hub_gen = state.embedded_hub_gen
  BY <1>2, AbortedWell
<1> HIDE DEF s
<1>4. s.supervisor_gen + 1 \in Gens /\ s.embedded_hub_gen + 1 \in Gens
  <2>1. events # << >> /\ Head(events).kind \in Starters
    BY DEF Take
  <2> QED
    BY <1>3, <2>1, Room
<1>5. /\ Tasks(state', session', sup')
      /\ EndedStay(s, AbortHub, AbortSupervisor, state', session', sup')
      /\ state'.supervisor_gen <= state.supervisor_gen + 1
      /\ state'.embedded_hub_gen <= state.embedded_hub_gen + 1
  BY <1>1, <1>3, <1>4, AppliedWell
<1>6. EndedStay(state, session, sup, state', session', sup')
  <2>1. s \in States /\ state' \in States
    BY <1>3, <1>5 DEF Tasks
  <2> QED
    BY <1>2, <1>3, <1>5, <2>1, EndedTwice
<1>7. One(kind \in Starters) = 1
  BY DEF One
<1>8. UNCHANGED <<phase, nets, file, acts>> /\ stage' = stage
  BY DEF desk
<1> QED
  BY <1>5, <1>6, <1>7, <1>8, MenuRefreshed, HandlerStep

LEMMA QuitWell == ASSUME IInv, HandleQuit PROVE IInv'
<1>1. /\ state \in States /\ events \in Seq(Event) /\ acts \in Nat /\ phase = "running"
      /\ state.supervisor_gen \in Nat /\ state.embedded_hub_gen \in Nat
  BY StateFields DEF IInv, TypeOK, HandleQuit
<1>2. /\ state' = AbortRunning(state) /\ phase' = "exited" /\ events' = << >>
      /\ sup' = [g \in Gens |-> NoSupervisor] /\ session' = [h \in Gens |-> NoSession]
      /\ UNCHANGED <<nets, shown>> /\ file' = file /\ stage' = stage /\ acts' = acts
  BY DEF HandleQuit, Exit, desk
<1>3. /\ state' \in States /\ state'.supervisor = 0 /\ state'.embedded_hub = 0
      /\ state'.client_status = NoStatus
      /\ state'.supervisor_gen = state.supervisor_gen
      /\ state'.embedded_hub_gen = state.embedded_hub_gen
  BY <1>1, <1>2 DEF AbortRunning, States
<1>4. Tasks(state', session', sup')
  BY <1>2, <1>3, NoTask DEF Tasks
<1>5. TypeOK'
  <2>1. events' \in Seq(Event)
    BY <1>2
  <2> QED
    BY <1>2, <1>4, <2>1, TasksNext DEF IInv, TypeOK
<1>6. Credit'
  <2> DEFINE o == One(stage # "closed")
             c == Count(events)
  <2>1. o \in Nat /\ c \in Nat
    BY <1>1, PlacesFinite DEF One
  <2>2. Pending = c + o
    <3>1. Pending = c + o + IF phase = "starting" THEN 2 ELSE 0
      BY DEF Pending
    <3> HIDE DEF c, o
    <3> QED
      BY <1>1, <2>1, <3>1
  <2>3. Pending' = o
    <3>1. Count(events)' = 0
      <4>1. Count(events') = 0
        BY <1>2, CountEmpty
      <4> QED
        BY <4>1 DEF Count, Places
    <3>2. Pending' = 0 + o + 0
      BY <1>2, <3>1 DEF Pending, One
    <3> HIDE DEF o
    <3> QED
      BY <2>1, <3>2
  <2>4. /\ state.supervisor_gen + Pending <= acts + 2
        /\ state.embedded_hub_gen + Pending <= acts + 2
    BY DEF IInv, Credit
  <2> HIDE DEF c, o
  <2>5. state.supervisor_gen + o <= acts + 2 /\ state.embedded_hub_gen + o <= acts + 2
    <3> DEFINE g == state.supervisor_gen
               h == state.embedded_hub_gen
    <3>1. g \in Nat /\ h \in Nat /\ g + (c + o) <= acts + 2 /\ h + (c + o) <= acts + 2
      BY <1>1, <2>2, <2>4
    <3> HIDE DEF g, h
    <3>2. g + o <= acts + 2 /\ h + o <= acts + 2
      BY <1>1, <2>1, <3>1
    <3> QED
      BY <3>2 DEF g, h
  <2> QED
    BY <1>2, <1>3, <2>3, <2>5 DEF Credit
<1>7. Queued' /\ Fresh' /\ MenuShowsState'
  BY <1>2 DEF Queued, Fresh, MenuShowsState
<1> QED
  BY <1>4, <1>5, <1>6, <1>7, TasksNext DEF IInv

LEMMA EditWell == ASSUME IInv, HandleEdit PROVE IInv'
<1>1. /\ Tasks(state, session, sup) /\ state \in States
      /\ state.supervisor_gen \in Nat /\ state.embedded_hub_gen \in Nat
  BY StateFields DEF IInv, TypeOK
<1>2. /\ Take("edit") /\ UNCHANGED <<phase, nets, file, acts, shown, sup, session>>
      /\ \/ state' = [state EXCEPT !.settings_alive = TRUE] /\ stage' = "open"
         \/ state' = state /\ stage' = stage
  BY DEF HandleEdit
<1>3. /\ state' \in States /\ state'.supervisor = state.supervisor
      /\ state'.supervisor_gen = state.supervisor_gen
      /\ state'.embedded_hub = state.embedded_hub
      /\ state'.embedded_hub_gen = state.embedded_hub_gen
      /\ state'.hub_stats = state.hub_stats /\ state'.cfg = state.cfg
      /\ state'.client_status = state.client_status
      /\ state'.hub_bind_error = state.hub_bind_error
  BY <1>1, <1>2 DEF States
<1>4. Tasks(state', session', sup')
  BY <1>1, <1>2, <1>3 DEF Tasks
<1>5. EndedStay(state, session, sup, state', session', sup')
  BY <1>1, <1>2, <1>3 DEF EndedStay
<1>6. MenuShowsState' /\ DOMAIN shown' = Items
  <2>1. \A i \in {"status", "server", "controls", "icon"} :
            Label(i, state', session') = Label(i, state, session)
    BY <1>3 DEF Label, StatusLabel, Controls, Dot
  <2>2. HubLine(state', session') = HubLine(state, session) /\ Tooltip(state') = Tooltip(state)
    BY <1>2, <1>3 DEF HubLine, Tooltip, StatusLabel
  <2> QED
    BY <1>2, <2>1, <2>2 DEF IInv, TypeOK, MenuShowsState
<1>7. One("edit" \in Starters) = 1 /\ "edit" \in Starters
  BY DEF One, Starters
<1> QED
  BY <1>1, <1>2, <1>3, <1>4, <1>5, <1>6, <1>7, HandlerStep

LEMMA StartOrRestartWell ==
    ASSUME IInv, HandleStart \/ HandleRestart
    PROVE  IInv'
<1> DEFINE items == {"controls", "status", "hub", "tooltip", "icon"}
<1>1. PICK kind \in {"start", "restart"} : Take(kind)
  BY DEF HandleStart, HandleRestart
<1>2. /\ Refresh(items) /\ UNCHANGED <<phase, nets, desk, sup>> /\ phase = "running"
      /\ \/ StartEmbeddedHub(state, session)
         \/ StartEmbeddedHub(StopEmbeddedHub(state), AbortHub)
  BY DEF HandleStart, HandleRestart, Take
<1>3. /\ Tasks(state, session, sup) /\ state \in States
      /\ state.supervisor_gen \in Nat /\ state.embedded_hub_gen \in Nat
  BY StateFields DEF IInv, TypeOK
<1>4. PICK s, hubs :
          /\ StartEmbeddedHub(s, hubs) /\ Tasks(s, hubs, sup)
          /\ EndedStay(state, session, sup, s, hubs, sup)
          /\ s.supervisor_gen = state.supervisor_gen
          /\ s.embedded_hub_gen = state.embedded_hub_gen /\ s.cfg = state.cfg
  <2>1. EndedStay(state, session, sup, state, session, sup)
    BY <1>3 DEF EndedStay
  <2>2. CASE StartEmbeddedHub(state, session)
    BY <1>3, <2>1, <2>2
  <2>3. CASE StartEmbeddedHub(StopEmbeddedHub(state), AbortHub)
    BY <1>3, <2>3, StoppedWell
  <2> QED
    BY <1>2, <2>2, <2>3
<1>5. s.embedded_hub_gen + 1 \in Gens
  <2>1. events # << >> /\ Head(events).kind \in Starters
    BY <1>1 DEF Take, Starters
  <2> QED
    BY <1>4, <2>1, Room
<1>6. /\ Tasks(state', session', sup)
      /\ EndedStay(s, hubs, sup, state', session', sup)
      /\ state'.supervisor_gen = state.supervisor_gen
      /\ state'.embedded_hub_gen <= state.embedded_hub_gen + 1 /\ state'.cfg = state.cfg
  BY <1>4, <1>5, StartHubWell
<1>7. sup' = sup /\ UNCHANGED <<phase, nets, file, acts>> /\ stage' = stage
  BY <1>2 DEF desk
<1>8. EndedStay(state, session, sup, state', session', sup')
  <2>1. s \in States /\ state' \in States
    BY <1>4, <1>6 DEF Tasks
  <2> QED
    BY <1>3, <1>4, <1>6, <1>7, <2>1, EndedTwice
<1>9. MenuShowsState' /\ DOMAIN shown' = Items
  <2>1. items \in SUBSET Items /\ "hub" \in items /\ "tooltip" \in items
    BY DEF Items
  <2>2. \A i \in {"status", "server", "controls", "icon"} \ items :
            Label(i, state', session') = Label(i, state, session)
    BY <1>6 DEF Label
  <2>3. MenuShowsState
    BY DEF IInv
  <2> HIDE DEF items
  <2> QED
    BY <1>2, <2>1, <2>2, <2>3, MenuKept
<1>10. One(kind \in Starters) = 1 /\ state'.supervisor_gen <= state.supervisor_gen + 1
  BY <1>3, <1>6 DEF One, Starters
<1> QED
  BY <1>1, <1>6, <1>7, <1>8, <1>9, <1>10, HandlerStep

LEMMA StopWell == ASSUME IInv, HandleStop PROVE IInv'
<1> DEFINE items == {"controls", "hub", "icon"}
<1>1. /\ Take("stop") /\ state' = StopEmbeddedHub(state) /\ session' = AbortHub
      /\ Refresh(items) /\ sup' = sup /\ UNCHANGED <<phase, nets, file, acts>> /\ stage' = stage
      /\ phase = "running"
  BY DEF HandleStop, Take, desk
<1>2. /\ Tasks(state, session, sup) /\ state \in States
      /\ state.supervisor_gen \in Nat /\ state.embedded_hub_gen \in Nat
  BY StateFields DEF IInv, TypeOK
<1>3. /\ Tasks(state', session', sup')
      /\ EndedStay(state, session, sup, state', session', sup')
      /\ state'.supervisor_gen = state.supervisor_gen
      /\ state'.embedded_hub_gen = state.embedded_hub_gen
      /\ state'.cfg = state.cfg /\ state'.client_status = state.client_status
      /\ state'.hub_bind_error = state.hub_bind_error
  BY <1>1, <1>2, StoppedWell
<1>4. MenuShowsState' /\ DOMAIN shown' = Items
  <2>1. items \in SUBSET Items /\ "hub" \in items
    BY DEF Items
  <2>2. \A i \in {"status", "server", "controls", "icon"} \ items :
            Label(i, state', session') = Label(i, state, session)
    BY <1>3 DEF Label, StatusLabel
  <2>3. \A n \in 1..2 : Tooltip(state')[n] = Tooltip(state)[n]
    <3>1. StatusLabel(state') = StatusLabel(state)
      BY <1>3 DEF StatusLabel
    <3> QED
      BY <1>3, <3>1 DEF Tooltip
  <2>4. MenuShowsState
    BY DEF IInv
  <2> HIDE DEF items
  <2> QED
    BY <1>1, <2>1, <2>2, <2>3, <2>4, MenuKept
<1>5. One("stop" \in Starters) = 0
  BY DEF One, Starters
<1> QED
  BY <1>1, <1>2, <1>3, <1>4, <1>5, HandlerStep

\* A handler of an exit or a status: the tasks stay as they are.
LEMMA HeadWell ==
    ASSUME IInv, NEW kind, Take(kind)
    PROVE  EventWell(Head(events), state, session, sup) /\ Head(events).kind = kind
<1>1. events \in Seq(Event) /\ events # << >> /\ Head(events).kind = kind
  BY DEF IInv, TypeOK, Take
<1>2. Head(events) = events[1] /\ 1 \in 1..Len(events)
  BY <1>1
<1> QED
  BY <1>1, <1>2 DEF IInv, Queued

LEMMA SameEnded ==
    ASSUME IInv, UNCHANGED <<session, sup>>,
           state'.supervisor_gen = state.supervisor_gen,
           state'.embedded_hub_gen = state.embedded_hub_gen
    PROVE  EndedStay(state, session, sup, state', session', sup')
<1>1. state.supervisor_gen \in Nat /\ state.embedded_hub_gen \in Nat
  BY StateFields DEF IInv, Tasks
<1>2. session' = session /\ sup' = sup
  OBVIOUS
<1> QED
  BY <1>1, <1>2 DEF EndedStay

\* A handler that leaves the state alone.
LEMMA IdleWell ==
    ASSUME IInv, NEW kind, Take(kind), kind \notin Starters,
           UNCHANGED <<phase, nets, desk, state, sup, session>>,
           DOMAIN shown' = Items, MenuShowsState'
    PROVE  IInv'
<1>1. UNCHANGED <<phase, nets, file, acts>> /\ stage' = stage /\ state' = state
  BY DEF desk
<1>2. Tasks(state', session', sup') /\ EndedStay(state, session, sup, state', session', sup')
  BY <1>1, SameTasks
<1>3. state.supervisor_gen \in Nat /\ state.embedded_hub_gen \in Nat
  BY StateFields DEF IInv, Tasks
<1>4. One(kind \in Starters) = 0
  BY DEF One
<1> QED
  BY <1>1, <1>2, <1>3, <1>4, HandlerStep

LEMMA SupervisorExitedWell == ASSUME IInv, HandleSupervisorExited PROVE IInv'
<1>1. /\ Take("SupervisorExited") /\ UNCHANGED <<phase, nets, desk, sup, session>>
      /\ "SupervisorExited" \notin Starters /\ phase = "running"
  BY DEF HandleSupervisorExited, Take, Starters
<1>2. /\ Tasks(state, session, sup) /\ state \in States /\ MenuShowsState
      /\ DOMAIN shown = Items
      /\ state.supervisor_gen \in Nat /\ state.embedded_hub_gen \in Nat
  BY StateFields DEF IInv, TypeOK
<1>3. CASE UNCHANGED <<state, shown>>
  BY <1>1, <1>2, <1>3, MenuUnchanged, IdleWell
<1>4. CASE /\ Head(events).gen = state.supervisor_gen
           /\ state' = [state EXCEPT !.supervisor = 0, !.client_status = NoStatus]
           /\ Refresh({"status", "tooltip", "icon"})
  <2> DEFINE items == {"status", "tooltip", "icon"}
  <2>1. /\ state' \in States /\ state'.supervisor = 0
        /\ state'.supervisor_gen = state.supervisor_gen
        /\ state'.embedded_hub = state.embedded_hub
        /\ state'.embedded_hub_gen = state.embedded_hub_gen
        /\ state'.hub_stats = state.hub_stats /\ state'.cfg = state.cfg
        /\ state'.client_status = NoStatus
        /\ state'.hub_bind_error = state.hub_bind_error
    BY <1>2, <1>4 DEF States
  <2>2. state.supervisor_gen \in Gens /\ sup[state.supervisor_gen].task = "none"
    BY <1>1, <1>4, HeadWell DEF EventWell
  <2>3. \A g \in Gens : sup[g].task # "running"
    BY <1>2, <2>2, GensFacts DEF Tasks
  <2>4. Tasks(state', session', sup')
    BY <1>1, <1>2, <2>1, <2>3 DEF Tasks
  <2>5. MenuShowsState' /\ DOMAIN shown' = Items
    <3>1. items \in SUBSET Items /\ "tooltip" \in items
      BY DEF Items
    <3>2. \A i \in {"status", "server", "controls", "icon"} \ items :
              Label(i, state', session') = Label(i, state, session)
      BY <2>1 DEF Label, Controls
    <3>3. HubLine(state', session')[1] = HubLine(state, session)[1]
      BY <2>1 DEF HubLine
    <3>4. Refresh(items)
      BY <1>4
    <3> HIDE DEF items
    <3> QED
      BY <1>1, <1>2, <3>1, <3>2, <3>3, <3>4, MenuKept
  <2>6. EndedStay(state, session, sup, state', session', sup')
    BY <1>1, <2>1, SameEnded
  <2>7. UNCHANGED <<phase, nets, file, acts>> /\ stage' = stage
    BY <1>1 DEF desk
  <2>8. One("SupervisorExited" \in Starters) = 0
    BY <1>1 DEF One
  <2> QED
    BY <1>1, <1>2, <2>1, <2>4, <2>5, <2>6, <2>7, <2>8, HandlerStep
<1> QED
  BY <1>3, <1>4 DEF HandleSupervisorExited

LEMMA HubExitedWell == ASSUME IInv, HandleHubExited PROVE IInv'
<1>1. /\ Take("HubExited") /\ UNCHANGED <<phase, nets, desk, sup, session>>
      /\ "HubExited" \notin Starters /\ phase = "running"
  BY DEF HandleHubExited, Take, Starters
<1>2. /\ Tasks(state, session, sup) /\ state \in States /\ MenuShowsState
      /\ DOMAIN shown = Items
      /\ state.supervisor_gen \in Nat /\ state.embedded_hub_gen \in Nat
  BY StateFields DEF IInv, TypeOK
<1>3. CASE UNCHANGED <<state, shown>>
  BY <1>1, <1>2, <1>3, MenuUnchanged, IdleWell
<1>4. CASE /\ state.embedded_hub # 0 /\ Head(events).gen = state.embedded_hub_gen
           /\ state' = [state EXCEPT !.embedded_hub = 0]
           /\ Refresh({"controls"})
  <2> DEFINE items == {"controls"}
  <2>1. /\ state' \in States /\ state'.supervisor = state.supervisor
        /\ state'.supervisor_gen = state.supervisor_gen
        /\ state'.embedded_hub = 0
        /\ state'.embedded_hub_gen = state.embedded_hub_gen
        /\ state'.hub_stats = state.hub_stats /\ state'.cfg = state.cfg
        /\ state'.client_status = state.client_status
        /\ state'.hub_bind_error = state.hub_bind_error
    BY <1>2, <1>4 DEF States
  <2>2. state.embedded_hub_gen \in Gens /\ session[state.embedded_hub_gen].task = "none"
    BY <1>1, <1>4, HeadWell DEF EventWell
  <2>3. \A g \in Gens : session[g].task \notin {"failing", "serving"}
    BY <1>2, <2>2, GensFacts DEF Tasks
  <2>4. Tasks(state', session', sup')
    BY <1>1, <1>2, <2>1, <2>3 DEF Tasks
  <2>5. MenuShowsState' /\ DOMAIN shown' = Items
    <3>1. items \in SUBSET Items
      BY DEF Items
    <3>2. StatusLabel(state') = StatusLabel(state) /\ Dot(state') = Dot(state)
      BY <2>1 DEF StatusLabel, Dot
    <3>3. \A i \in {"status", "server", "controls", "icon"} \ items :
              Label(i, state', session') = Label(i, state, session)
      BY <2>1, <3>2 DEF Label
    <3>4. HubLine(state', session')[1] = HubLine(state, session)[1]
      <4>1. state.hub_stats # 0
        BY <1>2, <1>4 DEF Tasks
      <4> QED
        BY <2>1, <4>1 DEF HubLine
    <3>5. \A n \in 1..2 : Tooltip(state')[n] = Tooltip(state)[n]
      BY <2>1, <3>2 DEF Tooltip
    <3>6. Refresh(items)
      BY <1>4
    <3> HIDE DEF items
    <3> QED
      BY <1>1, <1>2, <3>1, <3>3, <3>4, <3>5, <3>6, MenuKept
  <2>6. EndedStay(state, session, sup, state', session', sup')
    BY <1>1, <2>1, SameEnded
  <2>7. UNCHANGED <<phase, nets, file, acts>> /\ stage' = stage
    BY <1>1 DEF desk
  <2>8. One("HubExited" \in Starters) = 0
    BY <1>1 DEF One
  <2> QED
    BY <1>1, <1>2, <2>1, <2>4, <2>5, <2>6, <2>7, <2>8, HandlerStep
<1> QED
  BY <1>3, <1>4 DEF HandleHubExited

LEMMA PeerCountWell == ASSUME IInv, HandleHubPeerCountChanged PROVE IInv'
<1> DEFINE items == {"hub", "tooltip"}
<1>1. /\ Take("HubPeerCountChanged") /\ UNCHANGED <<phase, nets, desk, state, sup, session>>
      /\ "HubPeerCountChanged" \notin Starters /\ phase = "running" /\ Refresh(items)
      /\ MenuShowsState
  BY DEF HandleHubPeerCountChanged, Take, Starters, IInv
<1>2. items \in SUBSET Items /\ "hub" \in items /\ "tooltip" \in items
  BY DEF Items
<1>3. \A i \in {"status", "server", "controls", "icon"} \ items :
          Label(i, state', session') = Label(i, state, session)
  BY <1>1 DEF Label
<1> HIDE DEF items
<1>4. MenuShowsState' /\ DOMAIN shown' = Items
  BY <1>1, <1>2, <1>3, MenuKept
<1> QED
  BY <1>1, <1>4, IdleWell

LEMMA StatusChangedWell == ASSUME IInv, HandleClientStatusChanged PROVE IInv'
<1>1. /\ Take("ClientStatusChanged") /\ UNCHANGED <<phase, nets, desk, sup, session>>
      /\ "ClientStatusChanged" \notin Starters /\ phase = "running"
  BY DEF HandleClientStatusChanged, Take, Starters
<1>2. /\ Tasks(state, session, sup) /\ state \in States /\ MenuShowsState
      /\ DOMAIN shown = Items
      /\ state.supervisor_gen \in Nat /\ state.embedded_hub_gen \in Nat
  BY StateFields DEF IInv, TypeOK
<1>3. CASE UNCHANGED <<state, shown>>
  BY <1>1, <1>2, <1>3, MenuUnchanged, IdleWell
<1>4. CASE /\ Head(events).gen = state.supervisor_gen
           /\ state' = [state EXCEPT !.client_status = [gen |-> Head(events).gen,
                                                        is |-> Head(events).is]]
           /\ Refresh({"status", "server", "tooltip", "icon"})
  <2> DEFINE items == {"status", "server", "tooltip", "icon"}
             new == [gen |-> Head(events).gen, is |-> Head(events).is]
  <2>1. new \in [gen: Gens, is: Statuses] /\ new.gen = state.supervisor_gen
    BY <1>1, <1>4, HeadWell DEF EventWell
  <2>2. state' = [state EXCEPT !.client_status = new]
    BY <1>4
  <2> HIDE DEF new
  <2>3. /\ state' \in States /\ state'.supervisor = state.supervisor
        /\ state'.supervisor_gen = state.supervisor_gen
        /\ state'.embedded_hub = state.embedded_hub
        /\ state'.embedded_hub_gen = state.embedded_hub_gen
        /\ state'.hub_stats = state.hub_stats /\ state'.cfg = state.cfg
        /\ state'.client_status = new
    BY <1>2, <2>1, <2>2 DEF States
  <2>4. Tasks(state', session', sup')
    BY <1>1, <1>2, <2>1, <2>3 DEF Tasks
  <2>5. MenuShowsState' /\ DOMAIN shown' = Items
    <3>1. items \in SUBSET Items /\ "tooltip" \in items
      BY DEF Items
    <3>2. \A i \in {"status", "server", "controls", "icon"} \ items :
              Label(i, state', session') = Label(i, state, session)
      BY <2>3 DEF Label, Controls
    <3>3. HubLine(state', session')[1] = HubLine(state, session)[1]
      BY <2>3 DEF HubLine
    <3>4. Refresh(items)
      BY <1>4
    <3> HIDE DEF items
    <3> QED
      BY <1>1, <1>2, <3>1, <3>2, <3>3, <3>4, MenuKept
  <2>6. EndedStay(state, session, sup, state', session', sup')
    BY <1>1, <2>3, SameEnded
  <2>7. UNCHANGED <<phase, nets, file, acts>> /\ stage' = stage
    BY <1>1 DEF desk
  <2>8. One("ClientStatusChanged" \in Starters) = 0
    BY <1>1 DEF One
  <2> QED
    BY <1>1, <1>2, <2>3, <2>4, <2>5, <2>6, <2>7, <2>8, HandlerStep
<1> QED
  BY <1>3, <1>4 DEF HandleClientStatusChanged

----------------------------------------------------------------------------
LEMMA HandleWell == ASSUME IInv, Handle PROVE IInv'
<1>1. CASE HandleReload
  <2>1. ReloadInto([state EXCEPT !.settings_alive = state.settings_alive])
    <3>1. [state EXCEPT !.settings_alive = state.settings_alive] = state
      BY DEF IInv, TypeOK, States
    <3> QED
      BY <1>1, <3>1 DEF HandleReload
  <2>2. state.settings_alive \in BOOLEAN
    BY DEF IInv, TypeOK, States
  <2>3. /\ Take("reload") /\ UNCHANGED <<phase, nets, desk>> /\ Refresh(Items)
        /\ "reload" \in Starters
    BY <1>1 DEF HandleReload, Starters
  <2> QED
    BY <2>1, <2>2, <2>3, ReloadWell
<1>2. CASE HandleSettingsExited
  <2>1. /\ Take("SettingsExited") /\ UNCHANGED <<phase, nets, desk>> /\ Refresh(Items)
        /\ ReloadInto([state EXCEPT !.settings_alive = FALSE]) /\ "SettingsExited" \in Starters
    BY <1>2 DEF HandleSettingsExited, Starters
  <2> QED
    BY <2>1, ReloadWell
<1> QED
  BY <1>1, <1>2, QuitWell, EditWell, StartOrRestartWell, StopWell, SupervisorExitedWell,
     HubExitedWell, PeerCountWell, StatusChangedWell DEF Handle

LEMMA NextWell == IInv /\ [Next]_vars => IInv'
<1> SUFFICES ASSUME IInv, [Next]_vars PROVE IInv'
  OBVIOUS
<1>1. CASE UNCHANGED vars
  <2>1. /\ phase' = phase /\ file' = file /\ stage' = stage /\ acts' = acts /\ nets' = nets
        /\ events' = events /\ state' = state /\ shown' = shown /\ sup' = sup
        /\ session' = session
    BY <1>1 DEF vars, desk
  <2>2. TypeOK' /\ Tasks(state, session, sup)' /\ Fresh' /\ MenuShowsState'
    <3>1. TypeOK' /\ Fresh'
      BY <2>1 DEF IInv, TypeOK, Fresh
    <3>2. Tasks(state, session, sup)'
      BY <2>1, TasksNext DEF IInv
    <3>3. MenuShowsState'
      BY <2>1, MenuUnchanged DEF IInv, TypeOK
    <3> QED
      BY <3>1, <3>2, <3>3
  <2>3. Queued' /\ Credit'
    BY <2>1 DEF IInv, Queued, EventWell, Credit, Pending, Count, Places, One
  <2> QED
    BY <2>2, <2>3 DEF IInv
<1>2. CASE Next
  BY <1>2, StartWell, UserStepWell, HandleWell, SupervisorStepWell, HubStepWell DEF Next
<1> QED
  BY <1>1, <1>2

LEMMA Invariance == Spec => []IInv
BY InitWell, NextWell, PTL DEF Spec

\* Every variable of the tray holds what its type says: in particular there is
\* a generation for every supervisor and hub that can be started, however the
\* items, the dialog and the file are interleaved.
THEOREM TypeCorrect == Spec => []TypeOK
<1>1. IInv => TypeOK
  BY DEF IInv
<1> QED
  BY <1>1, Invariance, PTL

\* abort_running and the generations of cli/src/tray.rs: no supervisor runs and
\* no hub serves without the handle to abort it.
THEOREM NothingOrphaned == Spec => []NoOrphans
<1>1. IInv => NoOrphans
  BY DEF IInv, Tasks, NoOrphans
<1> QED
  BY <1>1, Invariance, PTL

\* UserEvent::ClientStatusChanged: the status kept is the last supervisor's.
THEOREM StatusStaysCurrent == Spec => []StatusIsCurrent
<1>1. IInv => StatusIsCurrent
  BY DEF IInv, Tasks, StatusIsCurrent
<1> QED
  BY <1>1, Invariance, PTL

\* The refresh_* calls of the handlers: what the menu shows is the state's,
\* although a handler refreshes a part of it only.
THEOREM MenuStaysTrue == Spec => []MenuShowsState
<1>1. IInv => MenuShowsState
  BY DEF IInv
<1> QED
  BY <1>1, Invariance, PTL

=============================================================================
