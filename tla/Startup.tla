------------------------------ MODULE Startup ------------------------------
(***************************************************************************)
(* The programs of one machine as they start, serve and die (cli/main.rs,  *)
(* cli/instance.rs, server/mod.rs, server/tls.rs): what they read and      *)
(* write of the configuration file, the singleton lock, the hub's port and *)
(* the certificates, one system call at a time.  A program can be killed   *)
(* between any two.  The dialog is the process that a tray opens.          *)
(*                                                                         *)
(* Every server here wants the same port, and what a running tray does     *)
(* with its tasks is module Tray.                                          *)
(***************************************************************************)
EXTENDS Config, FiniteSets

CONSTANTS
    Procs,         \* programs that can run at the same time
    Files,         \* configuration files to start from
    Environments,  \* environments to start a program in
    Typed,         \* what the user can fill the form with
    MaxLaunches    \* bound: programs launched

ASSUME StartupAssumption ==
    /\ Procs # {} /\ 0 \notin Procs
    /\ Files \subseteq File
    /\ Environments \subseteq Environment /\ Environments # {}
    /\ Typed \subseteq Form
    /\ MaxLaunches \in Nat

VARIABLES
    file,      \* config.toml
    lock,      \* the program that holds clipboardwire.lock, or 0
    port,      \* the program that listens, or 0
    tls,       \* self-signed.crt and self-signed.key, in every state directory
    proc,      \* the programs
    dialog,    \* the settings process
    pin,       \* server-pinned.crt: the directory and the identity it was taken from
    torn,      \* history: a program was killed while it wrote a key
    mixed,     \* history: the dialog began to write while a template was under way
    launches   \* programs launched so far

vars == <<file, lock, port, tls, proc, dialog, pin, torn, mixed, launches>>

Commands == {"tray", "connect", "serve", "host"}

\* A file of a certificate or a key is absent, cut short, or belongs to an identity.
Absent == 0
Torn == 1
Identities == 2..(MaxLaunches + 1)
StateDirs == {"config", "data", "toml", "env"}

\* Steps of a program: before the lock, at the file, creating, writing and
\* protecting the template, binding, looking for a certificate, creating and
\* writing the two files, loading them, running without or with a hub.
Steps == {"off", "lock", "read", "create", "write", "protect", "load", "bind", "ensure",
          "mkcert", "wrcert", "mkkey", "wrkey", "pem", "running", "serving"}

\* own: the identity of a pair it makes.  server: of its hub.  shows and
\* identity: how its hub serves.
Program == [cmd: Commands, at: Steps, env: Environments, own: {Absent} \union Identities,
            server: ServerConfig \union {NoServer}, shows: {"none", "ws", "wss"},
            identity: {Absent} \union Identities]

Off == [cmd |-> "tray", at |-> "off", env |-> CHOOSE e \in Environments : TRUE,
        own |-> Absent, server |-> NoServer, shows |-> "none", identity |-> Absent]

\* of: the tray that waits for it, if that lives.
DialogState == [at: {"closed", "open", "truncate", "write", "protect"}, form: Form,
                of: {0} \union Procs]
Closed == [at |-> "closed", form |-> FormOf(NoFile), of |-> 0]

NoPin == [dir |-> "config", identity |-> Absent]

DirOf(server) == IF server.dir = "none" THEN "data" ELSE server.dir

At(p, step) == proc[p].at = step
Goto(p, step) == proc' = [proc EXCEPT ![p].at = step]

\* Processes that are between the look at the file and the end of the template.
TemplateUnderWay == \E p \in Procs : proc[p].at \in {"create", "write", "protect"}

Init ==
    /\ file \in Files
    /\ lock = 0
    /\ port = 0
    /\ tls = [d \in StateDirs |-> [cert |-> Absent, key |-> Absent]]
    /\ proc = [p \in Procs |-> Off]
    /\ dialog = Closed
    /\ pin = NoPin
    /\ torn = FALSE
    /\ mixed = FALSE
    /\ launches = 0

----------------------------------------------------------------------------
(* A program starts, and ends *)

\* A tray and `connect` do not look at the environment.
EnvironmentsOf(cmd) == IF cmd \in {"serve", "host"} THEN Environments ELSE {Off.env}

\* Bug variant: a refused configuration is not noticed.
LaunchUnchecked(p, cmd, env) ==
    /\ At(p, "off")
    /\ launches < MaxLaunches
    /\ launches' = launches + 1
    /\ LET server == CASE cmd = "serve" -> FromEnvLayered(Base(file), env)
                       [] cmd = "host" -> FromEnv(env)
                       [] OTHER -> NoServer
       IN  proc' = [proc EXCEPT ![p] =
               [Off EXCEPT !.cmd = cmd, !.env = env, !.own = launches + 2,
                           !.server = server,
                           !.at = CASE cmd = "tray" -> "lock"
                                    [] cmd = "connect" -> "read"
                                    [] OTHER -> "bind"]]
    /\ UNCHANGED <<file, lock, port, tls, dialog, pin, torn, mixed>>

Launch(p, cmd, env) ==
    /\ At(p, "off")
    /\ launches < MaxLaunches
    /\ launches' = launches + 1
    /\ LET server == CASE cmd = "serve" -> FromEnvLayered(Base(file), env)
                       [] cmd = "host" -> FromEnv(env)
                       [] OTHER -> NoServer
       IN  proc' = [proc EXCEPT ![p] =
               [Off EXCEPT !.cmd = cmd, !.env = env, !.own = launches + 2,
                           !.server = IF server = Refused THEN NoServer ELSE server,
                           !.at = CASE cmd = "tray" -> "lock"
                                    [] cmd = "connect" -> "read"
                                    [] OTHER -> IF server = Refused THEN "off" ELSE "bind"]]
    /\ UNCHANGED <<file, lock, port, tls, dialog, pin, torn, mixed>>

\* The system frees what the program held: its lock and its port.
Ended(p) ==
    /\ proc' = [proc EXCEPT ![p] = Off]
    /\ lock' = IF lock = p THEN 0 ELSE lock
    /\ port' = IF port = p THEN 0 ELSE port

\* Quit, interrupted, killed, or the machine stops.
Dies(p) ==
    /\ ~At(p, "off")
    /\ Ended(p)
    /\ torn' = (torn \/ At(p, "wrkey"))
    /\ dialog' = [dialog EXCEPT !.of = IF @ = p THEN 0 ELSE @]
    /\ UNCHANGED <<file, tls, pin, mixed, launches>>

\* acquire_or_fail: the second tray ends at once.
Lock(p) ==
    /\ At(p, "lock")
    /\ IF lock = 0
       THEN lock' = p /\ Goto(p, "read") /\ UNCHANGED port
       ELSE Ended(p)
    /\ UNCHANGED <<file, tls, dialog, pin, torn, mixed, launches>>

----------------------------------------------------------------------------
(* The configuration file: prepare_connect_tray_args, load_client_config_or_bail *)

Read(p) ==
    /\ At(p, "read")
    /\ Goto(p, IF file.has = "nothing" THEN "create" ELSE "load")
    /\ UNCHANGED <<file, lock, port, tls, dialog, pin, torn, mixed, launches>>

\* write_template, in three steps: fs::write truncates, then writes; chmod.
CreateTemplate(p) ==
    /\ At(p, "create")
    /\ file' = [file EXCEPT !.has = "part"]
    /\ Goto(p, "write")
    /\ UNCHANGED <<lock, port, tls, dialog, pin, torn, mixed, launches>>

WriteTemplate(p) ==
    /\ At(p, "write")
    /\ file' = [file EXCEPT !.has = "content", !.is = Template]
    /\ Goto(p, "protect")
    /\ UNCHANGED <<lock, port, tls, dialog, pin, torn, mixed, launches>>

\* A tray goes on and loads it, `connect` asks the user to edit it.
ProtectTemplate(p) ==
    /\ At(p, "protect")
    /\ file' = [file EXCEPT !.private = TRUE]
    /\ IF proc[p].cmd = "tray" THEN Goto(p, "load") /\ UNCHANGED <<lock, port>> ELSE Ended(p)
    /\ UNCHANGED <<tls, dialog, pin, torn, mixed, launches>>

\* `connect` ends without a usable file, a tray runs, and starts the hub that
\* the file enables.
Load(p) ==
    /\ At(p, "load")
    /\ \/ /\ proc[p].cmd = "connect" /\ ~Loads(file)
          /\ Ended(p)
       \/ /\ proc[p].cmd = "tray" \/ Loads(file)
          /\ LET hub == /\ proc[p].cmd = "tray" /\ Loads(file)
                        /\ file.is.section /\ file.is.hub.enabled
             IN  proc' = [proc EXCEPT ![p].at = IF hub THEN "bind" ELSE "running",
                                      ![p].server = IF hub THEN Base(file) ELSE NoServer]
          /\ UNCHANGED <<lock, port>>
    /\ UNCHANGED <<file, tls, dialog, pin, torn, mixed, launches>>

----------------------------------------------------------------------------
(* The hub: bind, serve, ensure_self_signed_cert, serve_tls *)

\* Bug variant: the port can be shared.
BindShared(p) ==
    /\ At(p, "bind")
    /\ LET server == proc[p].server
       IN  \/ /\ port \in {0} \union Procs
              /\ port' = p
              /\ proc' = [proc EXCEPT
                    ![p].at = IF server.plain THEN "serving"
                              ELSE IF TlsEnabled(server) THEN "pem" ELSE "ensure",
                    ![p].shows = IF server.plain THEN "ws" ELSE "none"]
              /\ UNCHANGED lock
           \/ /\ port # 0
              /\ IF proc[p].cmd = "tray"
                 THEN Goto(p, "running") /\ UNCHANGED <<lock, port>>
                 ELSE Ended(p)
    /\ UNCHANGED <<file, tls, dialog, pin, torn, mixed, launches>>

\* The port comes first.  Without it a tray runs as a client, others end.
Bind(p) ==
    /\ At(p, "bind")
    /\ LET server == proc[p].server
       IN  \/ /\ port = 0
              /\ port' = p
              /\ proc' = [proc EXCEPT
                    ![p].at = IF server.plain THEN "serving"
                              ELSE IF TlsEnabled(server) THEN "pem" ELSE "ensure",
                    ![p].shows = IF server.plain THEN "ws" ELSE "none"]
              /\ UNCHANGED lock
           \/ /\ port # 0
              /\ IF proc[p].cmd = "tray"
                 THEN Goto(p, "running") /\ UNCHANGED <<lock, port>>
                 ELSE Ended(p)
    /\ UNCHANGED <<file, tls, dialog, pin, torn, mixed, launches>>

\* The hub's task fails: a tray goes on without it, others end.
HubFails(p) ==
    IF proc[p].cmd = "tray"
    THEN /\ proc' = [proc EXCEPT ![p].at = "running"]
         /\ port' = 0
         /\ UNCHANGED lock
    ELSE Ended(p)

\* Bug variant: the certificate alone decides.
EnsureByCertificate(p) ==
    /\ At(p, "ensure")
    /\ LET pair == tls[DirOf(proc[p].server)]
       IN  IF pair.cert = Absent
           THEN Goto(p, "mkcert") /\ UNCHANGED <<lock, port>>
           ELSE IF pair.cert = Torn THEN HubFails(p)
           ELSE Goto(p, "pem") /\ UNCHANGED <<lock, port>>
    /\ UNCHANGED <<file, tls, dialog, pin, torn, mixed, launches>>

\* Both files are there: they are used, if the certificate can be read.
Ensure(p) ==
    /\ At(p, "ensure")
    /\ LET pair == tls[DirOf(proc[p].server)]
       IN  IF pair.cert = Absent \/ pair.key = Absent
           THEN Goto(p, "mkcert") /\ UNCHANGED <<lock, port>>
           ELSE IF pair.cert = Torn THEN HubFails(p)
           ELSE Goto(p, "pem") /\ UNCHANGED <<lock, port>>
    /\ UNCHANGED <<file, tls, dialog, pin, torn, mixed, launches>>

\* write_file_with_mode creates a file, then writes it; the certificate first.
MakePair(p, from, to, part, value) ==
    /\ At(p, from)
    /\ tls' = [tls EXCEPT ![DirOf(proc[p].server)][part] = value]
    /\ Goto(p, to)
    /\ UNCHANGED <<file, lock, port, dialog, pin, torn, mixed, launches>>

CreateCert(p) == MakePair(p, "mkcert", "wrcert", "cert", Torn)
WriteCert(p) == MakePair(p, "wrcert", "mkkey", "cert", proc[p].own)
CreateKey(p) == MakePair(p, "mkkey", "wrkey", "key", Torn)
WriteKey(p) == MakePair(p, "wrkey", "pem", "key", proc[p].own)

\* Files of the user's own may be no pair either.
Pem(p) ==
    /\ At(p, "pem")
    /\ LET server == proc[p].server
           pair == tls[DirOf(server)]
       IN  \/ /\ TlsEnabled(server) \/ (pair.cert = pair.key /\ pair.cert \in Identities)
              /\ proc' = [proc EXCEPT ![p].at = "serving", ![p].shows = "wss",
                              ![p].identity = IF TlsEnabled(server) THEN Absent ELSE pair.cert]
              /\ UNCHANGED <<lock, port>>
           \/ /\ TlsEnabled(server) \/ pair.cert # pair.key \/ pair.cert \notin Identities
              /\ HubFails(p)
    /\ UNCHANGED <<file, tls, dialog, pin, torn, mixed, launches>>

----------------------------------------------------------------------------
(* The settings dialog: settings.rs *)

\* Edit config, or the first run, once the hub has started or failed to.
OpenDialog(p) ==
    /\ proc[p].cmd = "tray" /\ proc[p].at \in {"running", "serving"}
    /\ dialog.at = "closed"
    /\ dialog' = [at |-> "open", form |-> FormOf(file), of |-> p]
    /\ UNCHANGED <<file, lock, port, tls, proc, pin, torn, mixed, launches>>

Type(form) ==
    /\ dialog.at = "open"
    /\ form # dialog.form
    /\ dialog' = [dialog EXCEPT !.form = form]
    /\ UNCHANGED <<file, lock, port, tls, proc, pin, torn, mixed, launches>>

\* Pin from server, where the server is the hub of this machine.
Pin(p) ==
    /\ dialog.at = "open"
    /\ dialog.form.client = "wss"
    /\ port = p /\ At(p, "serving") /\ proc[p].shows = "wss"
    /\ pin' = [dir |-> DirOf(proc[p].server), identity |-> proc[p].identity]
    /\ dialog' = [dialog EXCEPT !.form.pinned = TRUE, !.form.insecure = FALSE]
    /\ UNCHANGED <<file, lock, port, tls, proc, torn, mixed, launches>>

\* try_save; then write_toml in three steps, like the template.
Save ==
    /\ dialog.at = "open"
    /\ ValidForm(dialog.form)
    /\ dialog' = [dialog EXCEPT !.at = "truncate"]
    /\ UNCHANGED <<file, lock, port, tls, proc, pin, torn, mixed, launches>>

TruncateFile ==
    /\ dialog.at = "truncate"
    /\ file' = [file EXCEPT !.has = "part"]
    /\ dialog' = [dialog EXCEPT !.at = "write"]
    /\ mixed' = TemplateUnderWay
    /\ UNCHANGED <<lock, port, tls, proc, pin, torn, launches>>

WriteFile ==
    /\ dialog.at = "write"
    /\ file' = [file EXCEPT !.has = "content", !.is = Written(dialog.form)]
    /\ dialog' = [dialog EXCEPT !.at = "protect"]
    /\ UNCHANGED <<lock, port, tls, proc, pin, torn, mixed, launches>>

\* The tray that opened it loads the file again, its hub stopped.
DialogEnds ==
    LET p == dialog.of
    IN  /\ dialog' = Closed
        /\ IF p = 0
           THEN UNCHANGED <<proc, port>>
           ELSE /\ proc' = [proc EXCEPT ![p] = [Off EXCEPT !.at = "load", !.own = proc[p].own]]
                /\ port' = IF port = p THEN 0 ELSE port

ProtectFile ==
    /\ dialog.at = "protect"
    /\ file' = [file EXCEPT !.private = TRUE]
    /\ DialogEnds
    /\ UNCHANGED <<lock, tls, pin, torn, mixed, launches>>

\* Cancelled or killed, wherever it is.
CloseDialog ==
    /\ dialog.at # "closed"
    /\ DialogEnds
    /\ UNCHANGED <<file, lock, tls, pin, torn, mixed, launches>>

----------------------------------------------------------------------------
ProgramStep(p) ==
    \/ Lock(p) \/ Read(p) \/ CreateTemplate(p) \/ WriteTemplate(p) \/ ProtectTemplate(p)
    \/ Load(p) \/ Bind(p) \/ Ensure(p)
    \/ CreateCert(p) \/ WriteCert(p) \/ CreateKey(p) \/ WriteKey(p) \/ Pem(p)

DialogStep ==
    \/ \E form \in Typed : Type(form)
    \/ Save \/ TruncateFile \/ WriteFile \/ ProtectFile \/ CloseDialog

Next ==
    \/ \E p \in Procs :
        \/ \E cmd \in Commands : \E env \in EnvironmentsOf(cmd) : Launch(p, cmd, env)
        \/ ProgramStep(p)
        \/ OpenDialog(p) \/ Pin(p)
        \/ Dies(p)
    \/ DialogStep

Spec == Init /\ [][Next]_vars

----------------------------------------------------------------------------
(* Properties *)

\* What every variable holds.
TypeOK ==
    /\ file \in File
    /\ {lock, port} \subseteq {0} \union Procs
    /\ tls \in [StateDirs -> [cert: {Absent, Torn} \union Identities,
                              key: {Absent, Torn} \union Identities]]
    /\ proc \in [Procs -> Program]
    /\ dialog \in DialogState
    /\ pin \in [dir: StateDirs, identity: {Absent} \union Identities]
    /\ {torn, mixed} \subseteq BOOLEAN
    /\ launches \in 0..MaxLaunches

\* ensure_self_signed_cert: wherever earlier programs were killed, what a hub
\* is about to load is a certificate with its own key, unless one of them was
\* killed between the creation and the writing of a key.
LoadsMatchingPair ==
    \A p \in Procs :
        (At(p, "pem") /\ ~TlsEnabled(proc[p].server)) =>
            LET pair == tls[DirOf(proc[p].server)]
            IN  torn \/ (pair.cert = pair.key /\ pair.cert \in Identities)

\* tls.rs: "client-side pinning via `tls_ca_file` stays stable": after a
\* certificate was pinned, no hub with that state directory shows another,
\* through restarts, kills and programs that start at the same time.
PinHolds ==
    \A p \in Procs :
        (/\ At(p, "serving") /\ proc[p].identity # Absent
         /\ pin.identity # Absent /\ pin.dir = DirOf(proc[p].server))
            => proc[p].identity = pin.identity

\* settings.rs: what a dialog has saved is what the next one shows, and so what
\* the client loads, when the hub is enabled or its address left alone, and no
\* program writes its template meanwhile.
SavedIsShown ==
    [][(/\ ProtectFile
        /\ dialog.form.enabled \/ dialog.form.bind = "default"
        /\ ~mixed)
            => FormOf(file') = dialog.form]_vars

\* from_env_layered: "Env always wins; TOML fills gaps; defaults fill what
\* neither provided", field by field, for what `serve` comes to run with: also
\* for the user without the password and the other way round.  It is never
\* without a password, nor with a limit of zero.
EnvironmentWins ==
    \A p \in Procs :
        LET server == proc[p].server
            env == proc[p].env
        IN  (proc[p].cmd = "serve" /\ server # NoServer) =>
                /\ \A f \in {"bind", "user", "password", "conns", "frame", "pair"} :
                      server[f] = "env" <=> env[f] = "set"
                /\ server.dir = "env" <=> env.dir = "set"
                /\ env.plain # "unset" => server.plain = (env.plain = "on")
                /\ server.password # "empty" /\ "zero" \notin {server.conns, server.frame}

=============================================================================
