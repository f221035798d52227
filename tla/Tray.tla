-------------------------------- MODULE Tray --------------------------------
(***************************************************************************)
(* The tray program (cli/src/tray.rs): one thread runs the event loop and  *)
(* owns `State`; supervisors, embedded hubs, their forwarders and pollers  *)
(* are tasks of their own that talk to it through the event queue; the     *)
(* settings dialog is another process.                                     *)
(*                                                                         *)
(* A task is named by its generation.  Aborting one is a request: it goes  *)
(* on until the runtime drops it, and what it has spawned (the transport,  *)
(* a hub's connections) is dropped later still, or never.                  *)
(***************************************************************************)
EXTENDS Naturals, Sequences

CONSTANTS
    Configs,      \* the configurations a file can hold
    NoConfig,     \* a file that does not load; `None`
    NoStatus,     \* `None`
    Foreign,      \* another program may hold the hub's port
    FirstRun,     \* main has just written the template
    MaxActs,      \* bound: items chosen, changes of the file and dialogs saved
    MaxEvents,    \* bound: events in the queue when another is posted
    MaxNet,       \* bound: changes of the network
    MaxPeers      \* bound: clients of a hub

\* hub: the [hub] section of the file is absent, or has `enabled` so.
Config == [server: STRING, hub: {"absent", "disabled", "enabled"}, port: Nat]

ASSUME TrayAssumption ==
    /\ Configs \subseteq Config
    /\ NoConfig \notin Configs
    /\ {Foreign, FirstRun} \subseteq BOOLEAN
    /\ {MaxActs, MaxNet, MaxPeers} \subseteq Nat
    /\ MaxEvents \in Nat \ {0}

VARIABLES
    phase,       \* of the program
    file,        \* what ClientConfig::load would return
    stage,       \* of the settings process: "closed", "open", "writing" or "closing"
    acts,        \* what the user has done so far
    nets,        \* changes of the network so far
    events,      \* the queue of the event loop
    state,       \* struct State
    shown,       \* what the menu, the tooltip and the icon show
    sup,         \* supervisors, with the status channel of their transports
    session      \* embedded hubs, with their clients and pollers

desk == <<file, stage, acts>>
vars == <<phase, desk, nets, events, state, shown, sup, session>>

\* Every item chosen, and the dialog opened at the start, reloads at most once.
Gens == 1..(MaxActs + 2)

Statuses == {"Connecting", "Connected", "Disconnected"}
Items == {"status", "server", "hub", "controls", "tooltip", "icon"}

\* State: 0 is `None` for a handle.  The generation in client_status is
\* history: the code keeps the status alone.
States == [supervisor: {0} \union Gens, supervisor_gen: {0} \union Gens,
           client_status: {NoStatus} \union [gen: Gens, is: Statuses],
           embedded_hub: {0} \union Gens, embedded_hub_gen: {0} \union Gens,
           hub_bind_error: BOOLEAN, hub_stats: {0} \union Gens,
           hub_stats_poller: {0} \union Gens, settings_alive: BOOLEAN,
           cfg: Configs \union {NoConfig}]

\* is: the status its transport last sent.  unseen: the forwarder has not taken it.
Supervisors == [task: {"none", "running", "aborted"}, is: Statuses, unseen: BOOLEAN]

\* A number of clients that is not known.
None == MaxPeers + 1

\* failing: its certificate does not load.  last: the count the poller has read.
Sessions == [task: {"none", "failing", "serving", "aborted"},
             port: Nat, clients: 0..MaxPeers,
             polled: BOOLEAN, last: 0..None]

Event == [kind: {"edit", "reload", "start", "stop", "restart", "quit",
                 "SettingsExited", "SupervisorExited", "HubExited",
                 "ClientStatusChanged", "HubPeerCountChanged"},
          gen: {0} \union Gens, is: {NoStatus} \union Statuses]

Ev(kind) == [kind |-> kind, gen |-> 0, is |-> NoStatus]
TaskEv(kind, gen) == [kind |-> kind, gen |-> gen, is |-> NoStatus]
StatusEv(gen, is) == [kind |-> "ClientStatusChanged", gen |-> gen, is |-> is]

NoSupervisor == [task |-> "none", is |-> "Connecting", unseen |-> FALSE]
NoSession == [task |-> "none", port |-> 0, clients |-> 0, polled |-> FALSE, last |-> 0]

----------------------------------------------------------------------------
(* What is shown, as a function of the state *)

StatusLabel(s) ==
    CASE s.hub_bind_error -> "hub bind failed"
      [] ~s.hub_bind_error /\ s.cfg = NoConfig -> "needs configuration"
      [] OTHER -> IF s.client_status = NoStatus THEN "starting" ELSE s.client_status.is

\* text and number of clients.
HubLine(s, hubs) ==
    IF s.hub_stats # 0
    THEN <<"clients", hubs[s.hub_stats].clients>>
    ELSE <<IF s.embedded_hub # 0 THEN "running" ELSE "", 0>>

\* Status, server and whether there is a line for the hub; a bind failure hides the others.
Tooltip(s) ==
    IF s.hub_bind_error THEN <<StatusLabel(s), NoConfig, FALSE>>
    ELSE <<StatusLabel(s), s.cfg, s.hub_stats # 0>>

Dot(s) ==
    IF s.hub_bind_error THEN "Disconnected"
    ELSE IF s.client_status = NoStatus THEN "none" ELSE s.client_status.is

\* Which of start, or stop and restart, the menu offers.
Controls(s) ==
    IF s.cfg = NoConfig \/ s.cfg.hub = "absent" THEN "none"
    ELSE IF s.embedded_hub = 0 THEN "start" ELSE "stop"

Label(item, s, hubs) ==
    CASE item = "status" -> StatusLabel(s)
      [] item = "server" -> s.cfg
      [] item = "hub" -> HubLine(s, hubs)
      [] item = "controls" -> Controls(s)
      [] item = "tooltip" -> Tooltip(s)
      [] item = "icon" -> Dot(s)

\* The update_* and refresh_* calls at the end of a handler.
Refresh(items) ==
    shown' = [i \in Items |-> IF i \in items THEN Label(i, state', session') ELSE shown[i]]

----------------------------------------------------------------------------
(* Parts of the handlers, on a state s and on the tasks *)

AbortRunning(s) ==
    [s EXCEPT !.supervisor = 0, !.embedded_hub = 0, !.client_status = NoStatus,
              !.hub_bind_error = FALSE, !.hub_stats = 0, !.hub_stats_poller = 0]

StopEmbeddedHub(s) ==
    [s EXCEPT !.embedded_hub = 0, !.hub_stats = 0, !.hub_stats_poller = 0]

AbortSupervisor ==
    [g \in Gens |-> IF g = state.supervisor /\ sup[g].task = "running"
                    THEN [sup[g] EXCEPT !.task = "aborted"] ELSE sup[g]]

AbortHub ==
    [h \in Gens |->
        [session[h] EXCEPT
            !.task = IF h = state.embedded_hub /\ @ \in {"failing", "serving"}
                     THEN "aborted" ELSE @,
            !.polled = @ /\ h # state.hub_stats_poller,
            !.last = IF h = state.hub_stats_poller THEN 0 ELSE @]]

\* No task is left to post events.
Exit ==
    /\ phase' = "exited"
    /\ events' = <<>>
    /\ sup' = [g \in Gens |-> NoSupervisor]
    /\ session' = [h \in Gens |-> NoSession]

Listening(hub) == hub.task \in {"failing", "serving", "aborted"}

\* Whether a bind can have this outcome.  An aborted hub listens until it is dropped.
Binds(port, hubs, ok) ==
    /\ ok => \A h \in Gens : Listening(hubs[h]) => hubs[h].port # port
    /\ ~ok => Foreign \/ \E h \in Gens : Listening(hubs[h]) /\ hubs[h].port = port

\* start_embedded_hub_with_cfg: the state and the hubs after a bind with this outcome.
HubStarted(s, ok) ==
    IF ok
    THEN LET h == s.embedded_hub_gen + 1
         IN  [s EXCEPT !.embedded_hub = h, !.embedded_hub_gen = h, !.hub_bind_error = FALSE,
                       !.hub_stats = h, !.hub_stats_poller = h]
    ELSE [s EXCEPT !.hub_bind_error = TRUE]

HubSpawned(s, hubs, ok, loads) ==
    IF ok
    THEN [hubs EXCEPT ![s.embedded_hub_gen + 1] =
             [task |-> IF loads THEN "serving" ELSE "failing", port |-> s.cfg.port, clients |-> 0,
              polled |-> TRUE, last |-> None]]
    ELSE hubs

\* Start hub and Restart hub, from the menu.
StartEmbeddedHub(s, hubs) ==
    IF s.cfg = NoConfig \/ s.cfg.hub = "absent"
    THEN /\ state' = s
         /\ session' = hubs
    ELSE \E ok, loads \in BOOLEAN :
            /\ Binds(s.cfg.port, hubs, ok)
            /\ state' = HubStarted(s, ok)
            /\ session' = HubSpawned(s, hubs, ok, loads)

\* apply_loaded_config, up to its refresh of the tooltip.
ApplyLoadedConfig(s, hubs, sups) ==
    LET g == s.supervisor_gen + 1
        WithSupervisor(t) == [t EXCEPT !.supervisor = g, !.supervisor_gen = g,
                                       !.client_status = [gen |-> g, is |-> "Connecting"]]
    IN  IF s.cfg = NoConfig
        THEN state' = s /\ session' = hubs /\ sup' = sups
        ELSE /\ sup' = [sups EXCEPT ![g] = [task |-> "running", is |-> "Connecting",
                                            unseen |-> TRUE]]
             /\ IF s.cfg.hub = "enabled"
                THEN \E ok, loads \in BOOLEAN :
                        /\ Binds(s.cfg.port, hubs, ok)
                        /\ state' = WithSupervisor(HubStarted(s, ok))
                        /\ session' = HubSpawned(s, hubs, ok, loads)
                ELSE state' = WithSupervisor(s) /\ session' = hubs

----------------------------------------------------------------------------
(* The program starts *)

Init ==
    /\ phase = "starting"
    /\ file \in Configs \union {NoConfig}
    /\ stage = "closed"
    /\ acts = 0
    /\ nets = 0
    /\ events = <<>>
    /\ state = [supervisor |-> 0, supervisor_gen |-> 0, client_status |-> NoStatus,
                embedded_hub |-> 0, embedded_hub_gen |-> 0, hub_bind_error |-> FALSE,
                hub_stats |-> 0, hub_stats_poller |-> 0, settings_alive |-> FALSE,
                cfg |-> file]
    /\ shown = [i \in Items |-> Label(i, [state EXCEPT !.cfg = NoConfig], <<>>)]
    /\ sup = [g \in Gens |-> NoSupervisor]
    /\ session = [h \in Gens |-> NoSession]

\* run(), up to the event loop.  The dialog opens if there is no usable file, or
\* the template, and its process can be spawned.
Start ==
    /\ phase = "starting"
    /\ phase' = "running"
    /\ \E opens \in BOOLEAN :
        /\ opens => FirstRun \/ state.cfg = NoConfig
        /\ ApplyLoadedConfig([state EXCEPT !.settings_alive = opens], session, sup)
        /\ stage' = IF opens THEN "open" ELSE "closed"
    /\ Refresh(Items)
    /\ UNCHANGED <<file, nets, acts, events>>

----------------------------------------------------------------------------
(* The user and the settings dialog *)

Post(e) ==
    /\ Len(events) < MaxEvents
    /\ events' = Append(events, e)

\* The items that hub controls enable.
Enabled(item) ==
    CASE item = "start" -> shown.controls = "start"
      [] item \in {"stop", "restart"} -> shown.controls = "stop"
      [] OTHER -> TRUE

Click(item) ==
    /\ phase = "running"
    /\ acts < MaxActs
    /\ Enabled(item)
    /\ acts' = acts + 1
    /\ Post(Ev(item))
    /\ UNCHANGED <<phase, nets, file, stage, state, shown, sup, session>>

\* An editor, or another clipboardwire.
EditFile(c) ==
    /\ phase = "running"
    /\ acts < MaxActs
    /\ c # file
    /\ file' = c
    /\ acts' = acts + 1
    /\ UNCHANGED <<phase, nets, stage, events, state, shown, sup, session>>

\* Save truncates the file, writes it, and closes the window.
SaveBegins ==
    /\ phase = "running"
    /\ stage = "open"
    /\ acts < MaxActs
    /\ stage' = "writing"
    /\ file' = NoConfig
    /\ acts' = acts + 1
    /\ UNCHANGED <<phase, nets, events, state, shown, sup, session>>

SaveEnds(c) ==
    /\ phase = "running"
    /\ stage = "writing"
    /\ stage' = "closing"
    /\ file' = c
    /\ UNCHANGED <<phase, nets, acts, events, state, shown, sup, session>>

\* Saved, cancelled or killed; the watcher thread posts.
DialogExits ==
    /\ phase = "running"
    /\ stage # "closed"
    /\ stage' = "closed"
    /\ Post(Ev("SettingsExited"))
    /\ UNCHANGED <<phase, nets, file, acts, state, shown, sup, session>>

----------------------------------------------------------------------------
(* The event loop *)

Take(kind) ==
    /\ phase = "running"
    /\ events # <<>>
    /\ Head(events).kind = kind
    /\ events' = Tail(events)

HandleQuit ==
    /\ phase = "running"
    /\ events # <<>>
    /\ Head(events).kind = "quit"
    /\ state' = AbortRunning(state)
    /\ Exit
    /\ UNCHANGED <<nets, desk, shown>>

HandleEdit ==
    /\ Take("edit")
    /\ \/ /\ ~state.settings_alive
          /\ state' = [state EXCEPT !.settings_alive = TRUE]
          /\ stage' = "open"
       \/ UNCHANGED <<state, stage>>
    /\ UNCHANGED <<phase, nets, file, acts, shown, sup, session>>

\* abort_running, reload_config_into and apply_loaded_config.
ReloadInto(s) ==
    ApplyLoadedConfig([AbortRunning(s) EXCEPT !.cfg = file], AbortHub, AbortSupervisor)

HandleReload ==
    /\ Take("reload")
    /\ ReloadInto(state)
    /\ Refresh(Items)
    /\ UNCHANGED <<phase, nets, desk>>

\* Bug variant: what runs is not aborted.
SettingsExitedKeepsTasks ==
    /\ Take("SettingsExited")
    /\ ApplyLoadedConfig([state EXCEPT !.settings_alive = FALSE, !.cfg = file], session, sup)
    /\ Refresh(Items)
    /\ UNCHANGED <<phase, nets, desk>>

\* Bug variant: the file is not read again.
SettingsExitedKeepsConfig ==
    /\ Take("SettingsExited")
    /\ ApplyLoadedConfig([AbortRunning(state) EXCEPT !.settings_alive = FALSE],
                         AbortHub, AbortSupervisor)
    /\ Refresh(Items)
    /\ UNCHANGED <<phase, nets, desk>>

HandleSettingsExited ==
    /\ Take("SettingsExited")
    /\ ReloadInto([state EXCEPT !.settings_alive = FALSE])
    /\ Refresh(Items)
    /\ UNCHANGED <<phase, nets, desk>>

HandleStart ==
    /\ Take("start")
    /\ StartEmbeddedHub(state, session)
    /\ Refresh({"controls", "status", "hub", "tooltip", "icon"})
    /\ UNCHANGED <<phase, nets, desk, sup>>

HandleStop ==
    /\ Take("stop")
    /\ state' = StopEmbeddedHub(state)
    /\ session' = AbortHub
    /\ Refresh({"controls", "hub", "icon"})
    /\ UNCHANGED <<phase, nets, desk, sup>>

HandleRestart ==
    /\ Take("restart")
    /\ StartEmbeddedHub(StopEmbeddedHub(state), AbortHub)
    /\ Refresh({"controls", "status", "hub", "tooltip", "icon"})
    /\ UNCHANGED <<phase, nets, desk, sup>>

\* Only the current supervisor's exit counts; an aborted one's is dropped.
HandleSupervisorExited ==
    /\ Take("SupervisorExited")
    /\ UNCHANGED <<phase, nets, desk, sup, session>>
    /\ IF state.supervisor # 0 /\ Head(events).gen = state.supervisor_gen
       THEN /\ state' = [state EXCEPT !.supervisor = 0, !.client_status = NoStatus]
            /\ Refresh({"status", "tooltip", "icon"})
       ELSE UNCHANGED <<state, shown>>

\* Bug variant: the menu is not refreshed.
HubExitedUnseen ==
    /\ Take("HubExited")
    /\ UNCHANGED <<phase, nets, desk, sup, session, shown>>
    /\ state' = IF state.embedded_hub # 0 /\ Head(events).gen = state.embedded_hub_gen
                THEN [state EXCEPT !.embedded_hub = 0] ELSE state

\* The counter and its poller stay.
HandleHubExited ==
    /\ Take("HubExited")
    /\ UNCHANGED <<phase, nets, desk, sup, session>>
    /\ IF state.embedded_hub # 0 /\ Head(events).gen = state.embedded_hub_gen
       THEN /\ state' = [state EXCEPT !.embedded_hub = 0]
            /\ Refresh({"controls"})
       ELSE UNCHANGED <<state, shown>>

\* Bug variant: the tooltip alone is refreshed.
PeerCountInTooltip ==
    /\ Take("HubPeerCountChanged")
    /\ UNCHANGED <<phase, nets, desk, state, sup, session>>
    /\ Refresh({"tooltip"})

HandleHubPeerCountChanged ==
    /\ Take("HubPeerCountChanged")
    /\ UNCHANGED <<phase, nets, desk, state, sup, session>>
    /\ Refresh({"hub", "tooltip"})

\* Bug variant: the generation is not compared.
StatusOfAnyGeneration ==
    /\ Take("ClientStatusChanged")
    /\ UNCHANGED <<phase, nets, desk, sup, session>>
    /\ state' = [state EXCEPT !.client_status = [gen |-> Head(events).gen, is |-> Head(events).is]]
    /\ Refresh({"status", "server", "tooltip", "icon"})

\* The generation is compared whether or not a supervisor is running.
HandleClientStatusChanged ==
    /\ Take("ClientStatusChanged")
    /\ UNCHANGED <<phase, nets, desk, sup, session>>
    /\ LET e == Head(events)
       IN  IF e.gen = state.supervisor_gen
           THEN /\ state' = [state EXCEPT !.client_status = [gen |-> e.gen, is |-> e.is]]
                /\ Refresh({"status", "server", "tooltip", "icon"})
           ELSE UNCHANGED <<state, shown>>

Handle ==
    \/ HandleQuit \/ HandleEdit \/ HandleReload \/ HandleSettingsExited
    \/ HandleStart \/ HandleStop \/ HandleRestart
    \/ HandleSupervisorExited \/ HandleHubExited
    \/ HandleHubPeerCountChanged \/ HandleClientStatusChanged

----------------------------------------------------------------------------
(* Supervisors and the forwarders of their status *)

\* The transport reports what happens on its network, for as long as it lives:
\* the abort of its supervisor reaches it late.
StatusChanges(g, is) ==
    /\ phase = "running"
    /\ g <= state.supervisor_gen
    /\ <<sup[g].is, is>> \in {<<"Connecting", "Connected">>, <<"Connecting", "Disconnected">>,
                              <<"Connected", "Disconnected">>, <<"Disconnected", "Connecting">>}
    /\ nets < MaxNet
    /\ nets' = nets + 1
    /\ sup' = [sup EXCEPT ![g].is = is, ![g].unseen = TRUE]
    /\ UNCHANGED <<phase, desk, events, state, shown, session>>

\* Bug variant: a status that finds the queue full is dropped.
ForwardOrDrop(g) ==
    /\ phase = "running"
    /\ sup[g].unseen
    /\ sup' = [sup EXCEPT ![g].unseen = FALSE]
    /\ events' = IF Len(events) < MaxEvents THEN Append(events, StatusEv(g, sup[g].is)) ELSE events
    /\ UNCHANGED <<phase, nets, desk, state, shown, session>>

\* The forwarder takes the latest status, its first one included.
Forward(g) ==
    /\ phase = "running"
    /\ sup[g].unseen
    /\ sup' = [sup EXCEPT ![g].unseen = FALSE]
    /\ Post(StatusEv(g, sup[g].is))
    /\ UNCHANGED <<phase, nets, desk, state, shown, session>>

\* On its own, also while its abort is under way.
SupervisorExits(g) ==
    /\ phase = "running"
    /\ sup[g].task \in {"running", "aborted"}
    /\ nets < MaxNet
    /\ nets' = nets + 1
    /\ sup' = [sup EXCEPT ![g].task = "none"]
    /\ Post(TaskEv("SupervisorExited", g))
    /\ UNCHANGED <<phase, desk, state, shown, session>>

----------------------------------------------------------------------------
(* Embedded hubs and the pollers of their clients *)

\* Its certificate did not load; also while its abort is under way.
HubExits(h) ==
    /\ phase = "running"
    /\ session[h].task \in {"failing", "aborted"}
    /\ session' = [session EXCEPT ![h].task = "none", ![h].port = 0]
    /\ Post(TaskEv("HubExited", h))
    /\ UNCHANGED <<phase, nets, desk, state, shown, sup>>

HubAborted(h) ==
    /\ phase = "running"
    /\ session[h].task = "aborted"
    /\ session' = [session EXCEPT ![h].task = "none", ![h].port = 0]
    /\ UNCHANGED <<phase, nets, desk, events, state, shown, sup>>

\* A client's connection is a task of its own, which the abort does not reach.
ClientConnects(h) ==
    /\ phase = "running"
    /\ session[h].task \in {"serving", "aborted"}
    /\ session[h].clients < MaxPeers
    /\ nets < MaxNet
    /\ nets' = nets + 1
    /\ session' = [session EXCEPT ![h].clients = @ + 1]
    /\ UNCHANGED <<phase, desk, events, state, shown, sup>>

\* Bug variant: a client is counted out twice.
ClientLeavesTwice(h) ==
    /\ phase = "running"
    /\ nets < MaxNet
    /\ nets' = nets + 1
    /\ session' = [session EXCEPT ![h].clients = @ - 2]
    /\ UNCHANGED <<phase, desk, events, state, shown, sup>>

ClientLeaves(h) ==
    /\ phase = "running"
    /\ session[h].clients > 0
    /\ nets < MaxNet
    /\ nets' = nets + 1
    /\ session' = [session EXCEPT ![h].clients = @ - 1]
    /\ UNCHANGED <<phase, desk, events, state, shown, sup>>

\* The first read posts whatever it finds.
Poll(h) ==
    /\ phase = "running"
    /\ session[h].polled
    /\ session[h].clients # session[h].last
    /\ session' = [session EXCEPT ![h].last = session[h].clients]
    /\ Post(Ev("HubPeerCountChanged"))
    /\ UNCHANGED <<phase, nets, desk, state, shown, sup>>

----------------------------------------------------------------------------
UserStep ==
    \/ \E item \in {"edit", "reload", "start", "stop", "restart", "quit"} : Click(item)
    \/ \E c \in Configs \union {NoConfig} : EditFile(c) \/ SaveEnds(c)
    \/ SaveBegins
    \/ DialogExits

SupervisorStep ==
    \E g \in Gens :
        \/ \E is \in Statuses : StatusChanges(g, is)
        \/ Forward(g) \/ SupervisorExits(g)

HubStep ==
    \E h \in Gens :
        \/ HubExits(h) \/ HubAborted(h)
        \/ ClientConnects(h) \/ ClientLeaves(h) \/ Poll(h)

Next == Start \/ UserStep \/ Handle \/ SupervisorStep \/ HubStep

\* The loop and the tasks run, a saved dialog closes, an abort takes effect;
\* nothing is assumed of the user, of the network or of the transport.
Fairness ==
    /\ WF_vars(Start)
    /\ WF_vars(Handle)
    /\ WF_vars(stage = "closing" /\ DialogExits)
    /\ \A g \in Gens : WF_vars(Forward(g)) /\ WF_vars(Poll(g))

Spec == Init /\ [][Next]_vars /\ Fairness

----------------------------------------------------------------------------
(* Properties *)

\* What every variable holds.
TypeOK ==
    /\ phase \in {"starting", "running", "exited"}
    /\ file \in Configs \union {NoConfig}
    /\ stage \in {"closed", "open", "writing", "closing"}
    /\ acts \in 0..MaxActs /\ nets \in 0..MaxNet
    /\ events \in Seq(Event)
    /\ state \in States
    /\ DOMAIN shown = Items
    /\ sup \in [Gens -> Supervisors]
    /\ session \in [Gens -> Sessions]

\* abort_running and the generations: at most one supervisor runs, and one hub
\* serves, and the program holds the handle to stop it, whatever was clicked,
\* reloaded, failed or exited on its own meanwhile.
NoOrphans ==
    \A g \in Gens :
        /\ sup[g].task = "running" => g = state.supervisor
        /\ session[g].task \in {"failing", "serving"} => g = state.embedded_hub

\* UserEvent::ClientStatusChanged: a status that an aborted supervisor's
\* forwarder posted is never taken for the one of its successor.
StatusIsCurrent ==
    state.client_status # NoStatus => state.client_status.gen = state.supervisor_gen

\* While the loop waits, the menu and the icon agree with the state behind
\* them, and the tooltip names the same status and the same server, although
\* every handler refreshes only what it thinks it has changed.
MenuShowsState ==
    phase = "running" =>
        /\ \A i \in {"status", "server", "controls", "icon"} :
              shown[i] = Label(i, state, session)
        /\ shown.hub[1] = HubLine(state, session)[1]
        /\ \A n \in 1..2 : shown.tooltip[n] = Tooltip(state)[n]

\* Edit config: once the dialog has saved, the program comes to run what the
\* file holds, unless the file changes again or the user quits.
SavedIsApplied ==
    \A c \in Configs :
        (stage = "closing" /\ file = c) ~> (state.cfg = c \/ file # c \/ phase = "exited")

\* The forwarder: when a supervisor's connection settles, the menu comes to
\* show its status for good.
StatusConverges ==
    \A g \in Gens, v \in Statuses :
        <>[](phase = "running" /\ sup[g].task = "running" /\ sup[g].is = v)
            => <>[](state.client_status = [gen |-> g, is |-> v])

\* The poller: when the number of the hub's clients is not the one it has seen,
\* the menu comes to show the number there is, also when hubs were started,
\* stopped and lost before.
CountReachesMenu ==
    (state.hub_stats # 0 /\ session[state.hub_stats].clients # session[state.hub_stats].last)
        ~> (shown.hub = HubLine(state, session) \/ phase = "exited")

=============================================================================
