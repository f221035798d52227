--------------------------- MODULE Startup_proofs ---------------------------
(***************************************************************************)
(* Theorems about Startup, for any programs, files, environments, forms    *)
(* and launches: the types, LoadsMatchingPair, PinHolds, EnvironmentWins   *)
(* and SavedIsShown.                                                       *)
(*                                                                         *)
(* None is inductive.  The port is taken before the certificates are       *)
(* looked for, so CertInv holds: of the programs that have passed Bind one *)
(* is left, what it has written is known at each of its steps, and a key   *)
(* that is whole was written after its certificate and stays.  FileInv     *)
(* follows the dialog's save in the same way: once it has cut the file     *)
(* short, no program begins a template.                                    *)
(***************************************************************************)
EXTENDS Startup, TLAPS

\* The steps of a hub that has its port, from Bind on.
HubSteps == {"ensure", "mkcert", "wrcert", "mkkey", "wrkey", "pem", "serving"}

PairOf(p) == tls[DirOf(proc[p].server)]

ProcWell(p) ==
    /\ ~At(p, "off") => proc[p].own \in Identities
    /\ proc[p].at \in HubSteps => port = p
    /\ proc[p].at \in HubSteps \union {"bind"} => proc[p].server \in ServerConfig
    /\ ~At(p, "serving") => proc[p].identity = Absent

\* What a program finds of the pair that it makes, loads or shows.
PairWell(p) ==
    /\ proc[p].at \in {"mkcert", "wrcert", "mkkey"} => PairOf(p).key = Absent
    /\ proc[p].at \in {"mkkey", "wrkey"} => PairOf(p).cert = proc[p].own
    /\ At(p, "wrkey") => PairOf(p).key = Torn
    /\ (At(p, "pem") /\ ~TlsEnabled(proc[p].server)) =>
           torn \/ (PairOf(p).cert = PairOf(p).key /\ PairOf(p).cert \in Identities)
    /\ (At(p, "serving") /\ proc[p].identity # Absent) => PairOf(p).key = proc[p].identity

\* The certificate comes first, and a whole key goes with it.  A key is torn
\* while it is written, or because a program was killed then.
DirWell(d) ==
    /\ tls[d].cert = Absent => tls[d].key = Absent
    /\ tls[d].key \in Identities => tls[d].cert = tls[d].key
    /\ tls[d].key = Torn =>
           torn \/ \E p \in Procs : At(p, "wrkey") /\ DirOf(proc[p].server) = d

CertInv ==
    /\ \A p \in Procs : ProcWell(p) /\ PairWell(p)
    /\ \A d \in StateDirs : DirWell(d)
    /\ pin.identity # Absent => tls[pin.dir].key = pin.identity

\* The tray that waits for the dialog does nothing else.
WaitWell ==
    dialog.of # 0 => proc[dialog.of].cmd = "tray" /\ proc[dialog.of].at \in {"running", "serving"}

FileInv ==
    /\ dialog.at \in {"truncate", "write", "protect"} => ValidForm(dialog.form)
    /\ dialog.at \in {"write", "protect"} => file.has # "nothing" /\ (mixed \/ ~TemplateUnderWay)
    /\ dialog.at = "protect" =>
           mixed \/ (file.has = "content" /\ file.is = Written(dialog.form))

IInv == TypeOK /\ CertInv /\ WaitWell /\ FileInv /\ EnvironmentWins

USE StartupAssumption

----------------------------------------------------------------------------
(* The values of Config *)

LEMMA OffType == Off \in Program /\ Off.at = "off" /\ Off.identity = Absent /\ Off.cmd = "tray"
                 /\ Off.server = NoServer
<1>1. Off.env \in Environments
  BY DEF Off
<1> QED
  BY <1>1 DEF Off, Program, Commands, Steps, Absent

LEMMA FormType == \A f \in File : FormOf(f) \in Form
<1> SUFFICES ASSUME NEW f \in File PROVE FormOf(f) \in Form
  OBVIOUS
<1> DEFINE hub == IF Loads(f) /\ f.is.section THEN f.is.hub ELSE NoHub
<1>1. hub \in HubSection /\ f.is \in Content
  BY DEF File, Content, HubSection, NoHub
<1>2. /\ (IF Loads(f) THEN f.is.client ELSE "bad") \in {"ws", "wss", "template", "blank", "bad"}
      /\ (Loads(f) /\ f.is.pinned) \in BOOLEAN
      /\ (Loads(f) /\ f.is.insecure) \in BOOLEAN
  BY <1>1 DEF Content
<1>3. /\ hub.enabled \in BOOLEAN /\ hub.bind \in {"toml", "default", "junk"}
      /\ hub.user \in {"toml", "blank", "empty"} /\ hub.password \in {"toml", "empty"}
      /\ hub.pair \in {"none", "half", "toml"}
  BY <1>1 DEF HubSection
<1> HIDE DEF hub
<1>4. FormOf(f) = [client |-> IF Loads(f) THEN f.is.client ELSE "bad",
                   pinned |-> Loads(f) /\ f.is.pinned,
                   insecure |-> Loads(f) /\ f.is.insecure,
                   enabled |-> hub.enabled, bind |-> hub.bind, user |-> hub.user,
                   password |-> hub.password, pair |-> hub.pair]
  BY DEF FormOf, hub
<1> QED
  BY <1>2, <1>3, <1>4 DEF Form

LEMMA WrittenType == \A form \in Form : Written(form) \in Content
<1> SUFFICES ASSUME NEW form \in Form PROVE Written(form) \in Content
  OBVIOUS
<1>1. [NoHub EXCEPT !.enabled = form.enabled, !.bind = form.bind,
                    !.user = form.user, !.password = form.password,
                    !.pair = form.pair] \in HubSection
  BY DEF Form, HubSection, NoHub
<1>2. NoHub \in HubSection
  BY DEF NoHub, HubSection
<1> QED
  BY <1>1, <1>2 DEF Written, Form, Content

LEMMA BaseType ==
    \A f \in File : /\ Base(f) \in ServerConfig \union {NoServer}
                    /\ (Loads(f) /\ f.is.section) => Base(f) \in ServerConfig
<1> SUFFICES ASSUME NEW f \in File, Loads(f), f.is.section PROVE Base(f) \in ServerConfig
  BY DEF Base
<1>1. f.is.hub \in HubSection /\ f.is.hub.bind # "junk"
  BY DEF File, Content, Loads, Parses
<1> QED
  BY <1>1 DEF Base, ToServerConfig, HubSection, ServerConfig

LEMMA ErrorsDiffer == NoServer # Refused /\ NoServer \notin ServerConfig /\ Refused \notin ServerConfig
BY DEF NoServer, Refused, ServerConfig

\* What the environment and the rules of from_env_layered say of a server.
EnvironmentIn(server, e) ==
    /\ server.bind = "env" <=> e.bind = "set"
    /\ server.user = "env" <=> e.user = "set"
    /\ server.password = "env" <=> e.password = "set"
    /\ server.conns = "env" <=> e.conns = "set"
    /\ server.frame = "env" <=> e.frame = "set"
    /\ server.pair = "env" <=> e.pair = "set"
    /\ server.dir = "env" <=> e.dir = "set"
    /\ e.plain # "unset" => server.plain = (e.plain = "on")
    /\ server.password # "empty" /\ "zero" \notin {server.conns, server.frame}

LEMMA FromEnvWell ==
    ASSUME NEW e \in Environment, FromEnv(e) # Refused
    PROVE  FromEnv(e) \in ServerConfig /\ EnvironmentIn(FromEnv(e), e)
<1>1. /\ ~EnvBad(e) /\ e.user = "set" /\ e.password = "set"
      /\ FromEnv(e) = [bind |-> IF e.bind = "set" THEN "env" ELSE "default",
                       user |-> "env", password |-> "env",
                       conns |-> IF e.conns = "set" THEN "env" ELSE "default",
                       frame |-> IF e.frame = "set" THEN "env" ELSE "default",
                       pair |-> IF e.pair = "set" THEN "env" ELSE "none",
                       plain |-> e.plain = "on",
                       dir |-> IF e.dir = "set" THEN "env" ELSE "none"]
  BY DEF FromEnv, EnvBad, Environment
<1>2. (e.plain = "on") \in BOOLEAN
  OBVIOUS
<1>3. FromEnv(e) \in ServerConfig
  BY <1>1, <1>2 DEF ServerConfig
<1>4. EnvironmentIn(FromEnv(e), e)
  BY <1>1 DEF EnvironmentIn, EnvBad, Environment
<1> QED
  BY <1>3, <1>4

LEMMA LayeredWell ==
    ASSUME NEW f \in File, NEW e \in Environment, FromEnvLayered(Base(f), e) # Refused
    PROVE  /\ FromEnvLayered(Base(f), e) \in ServerConfig
           /\ EnvironmentIn(FromEnvLayered(Base(f), e), e)
<1> DEFINE base == Base(f)
           server == FromEnvLayered(base, e)
<1>1. CASE base = NoServer
  BY <1>1, FromEnvWell DEF FromEnvLayered
<1>2. CASE base # NoServer
  <2>1. Loads(f) /\ f.is.section /\ base \in ServerConfig
    BY <1>2, BaseType DEF Base
  <2>2. /\ base.bind # "env" /\ base.user # "env" /\ base.password # "env"
        /\ base.conns # "env" /\ base.frame # "env" /\ base.pair # "env" /\ base.dir # "env"
    BY <2>1 DEF Base, ToServerConfig, File, Content, HubSection
  <2> HIDE DEF base
  <2>3. /\ ~EnvBad(e)
        /\ ~(e.password = "unset" /\ base.password = "empty")
        /\ ~(e.conns = "unset" /\ base.conns = "zero")
        /\ ~(e.frame = "unset" /\ base.frame = "zero")
        /\ server = [bind |-> IF e.bind = "set" THEN "env" ELSE base.bind,
                     user |-> IF e.user = "set" THEN "env" ELSE base.user,
                     password |-> IF e.password = "set" THEN "env" ELSE base.password,
                     conns |-> IF e.conns = "set" THEN "env" ELSE base.conns,
                     frame |-> IF e.frame = "set" THEN "env" ELSE base.frame,
                     pair |-> IF e.pair = "set" THEN "env" ELSE base.pair,
                     plain |-> IF e.plain = "unset" THEN base.plain ELSE e.plain = "on",
                     dir |-> IF e.dir = "set" THEN "env" ELSE base.dir]
    BY <1>2 DEF FromEnvLayered, base
  <2>4. (IF e.plain = "unset" THEN base.plain ELSE e.plain = "on") \in BOOLEAN
    BY <2>1 DEF ServerConfig
  <2>5. server \in ServerConfig
    BY <2>1, <2>3, <2>4 DEF ServerConfig
  <2>6. EnvironmentIn(server, e)
    BY <2>1, <2>2, <2>3 DEF EnvironmentIn, EnvBad, Environment, ServerConfig
  <2> QED
    BY <2>5, <2>6 DEF base
<1> QED
  BY <1>1, <1>2

\* EnvironmentWins for one program.
Wins(p) ==
    (proc[p].cmd = "serve" /\ proc[p].server # NoServer) =>
        EnvironmentIn(proc[p].server, proc[p].env)

LEMMA WinsForAll == EnvironmentWins <=> \A p \in Procs : Wins(p)
BY DEF EnvironmentWins, Wins, EnvironmentIn

\* write_toml and load_or_default: what a valid form has written is what is shown.
LEMMA WrittenShown ==
    ASSUME NEW form \in Form, ValidForm(form), form.enabled \/ form.bind = "default",
           NEW f, f.has = "content", f.private, f.is = Written(form)
    PROVE  FormOf(f) = form
<1> DEFINE section == \/ form.enabled
                      \/ form.user # "empty" \/ form.password # "empty" \/ form.pair # "none"
           hub == IF section
                  THEN [NoHub EXCEPT !.enabled = form.enabled, !.bind = form.bind,
                                     !.user = form.user, !.password = form.password,
                                     !.pair = form.pair]
                  ELSE NoHub
<1>1. /\ hub.enabled = form.enabled /\ hub.bind = form.bind
      /\ hub.user = form.user /\ hub.password = form.password /\ hub.pair = form.pair
  BY DEF NoHub, Form
<1>2. f.is = [client |-> form.client, pinned |-> form.pinned, insecure |-> form.insecure,
              section |-> section, hub |-> hub]
  BY DEF Written
<1> HIDE DEF hub
<1>3. Loads(f)
  BY <1>1, <1>2 DEF Loads, Parses, Validates, ValidForm
<1>4. ~section => /\ NoHub.enabled = form.enabled /\ NoHub.bind = form.bind
                         /\ NoHub.user = form.user /\ NoHub.password = form.password
                         /\ NoHub.pair = form.pair
  BY DEF NoHub, Form
<1> DEFINE shown == IF Loads(f) /\ f.is.section THEN f.is.hub ELSE NoHub
<1>6. /\ shown.enabled = form.enabled /\ shown.bind = form.bind
      /\ shown.user = form.user /\ shown.password = form.password /\ shown.pair = form.pair
  <2> HIDE DEF section
  <2>0. f.is.section = section /\ f.is.hub = hub
    BY <1>2
  <2>1. CASE section
    <3>1. shown = hub
      BY <1>3, <2>0, <2>1
    <3> QED
      BY <1>1, <3>1
  <2>2. CASE ~section
    <3>1. shown = NoHub
      BY <2>0, <2>2
    <3> QED
      BY <1>4, <2>2, <3>1
  <2> QED
    BY <2>1, <2>2
<1>7. /\ f.is.client = form.client
      /\ (Loads(f) /\ f.is.pinned) = form.pinned
      /\ (Loads(f) /\ f.is.insecure) = form.insecure
  BY <1>2, <1>3 DEF Form
<1> HIDE DEF shown, section
<1>8. FormOf(f) = [client |-> f.is.client,
                   pinned |-> Loads(f) /\ f.is.pinned,
                   insecure |-> Loads(f) /\ f.is.insecure,
                   enabled |-> shown.enabled, bind |-> shown.bind, user |-> shown.user,
                   password |-> shown.password, pair |-> shown.pair]
  BY <1>3 DEF FormOf, shown
<1>5. FormOf(f) = [client |-> form.client, pinned |-> form.pinned, insecure |-> form.insecure,
                   enabled |-> form.enabled, bind |-> form.bind, user |-> form.user,
                   password |-> form.password, pair |-> form.pair]
  BY <1>6, <1>7, <1>8
<1> QED
  BY <1>5 DEF Form

----------------------------------------------------------------------------
(* One program moves *)

LEMMA IInvInit == Init => IInv
<1> SUFFICES ASSUME Init PROVE IInv
  OBVIOUS
<1> USE OffType DEF Init
<1>1. TypeOK
  <2>1. NoPin \in [dir: StateDirs, identity: {Absent} \union Identities]
    BY DEF NoPin, StateDirs
  <2>2. Closed \in DialogState
    <3>1. NoFile \in File
      BY DEF NoFile, File, Template, Content, NoHub, HubSection
    <3> QED
      BY <3>1, FormType DEF Closed, DialogState
  <2>3. tls \in [StateDirs -> [cert: {Absent, Torn} \union Identities,
                              key: {Absent, Torn} \union Identities]]
    <3> DEFINE none == [cert |-> Absent, key |-> Absent]
               Pair == [cert: {Absent, Torn} \union Identities, key: {Absent, Torn} \union Identities]
    <3>1. none \in Pair
      OBVIOUS
    <3>3. tls = [d \in StateDirs |-> none]
      OBVIOUS
    <3> HIDE DEF none, Pair
    <3>2. tls \in [StateDirs -> Pair]
      BY <3>1, <3>3
    <3> QED
      BY <3>2 DEF Pair
  <2>4. torn \in BOOLEAN /\ mixed \in BOOLEAN
    OBVIOUS
  <2>5. launches \in 0..MaxLaunches /\ file \in File
    OBVIOUS
  <2> QED
    BY <2>1, <2>2, <2>3, <2>4, <2>5 DEF TypeOK
<1>2. CertInv
  BY DEF CertInv, ProcWell, PairWell, DirWell, HubSteps, At, Absent, Torn, Identities, NoPin
<1>3. WaitWell /\ FileInv /\ EnvironmentWins
  BY DEF WaitWell, FileInv, EnvironmentWins, Closed
<1> QED
  BY <1>1, <1>2, <1>3 DEF IInv

\* p's entry is the only one that changes.
Moves(p, new) == new \in Program /\ proc' = [proc EXCEPT ![p] = new]

LEMMA MovesOnly ==
    ASSUME TypeOK, NEW p \in Procs, NEW new, Moves(p, new)
    PROVE  /\ proc' \in [Procs -> Program]
           /\ proc'[p] = new
           /\ \A q \in Procs \ {p} : proc'[q] = proc[q]
BY DEF TypeOK, Moves

LEMMA GotoMoves ==
    ASSUME TypeOK, NEW p \in Procs, NEW step \in Steps, Goto(p, step)
    PROVE  /\ Moves(p, [proc[p] EXCEPT !.at = step])
           /\ proc'[p].at = step
           /\ proc'[p].cmd = proc[p].cmd /\ proc'[p].env = proc[p].env
           /\ proc'[p].own = proc[p].own /\ proc'[p].server = proc[p].server
           /\ proc'[p].shows = proc[p].shows /\ proc'[p].identity = proc[p].identity
<1>1. proc[p] \in Program
  BY DEF TypeOK
<1>2. [proc[p] EXCEPT !.at = step] \in Program
  BY <1>1 DEF Program
<1>3. proc' = [proc EXCEPT ![p] = [proc[p] EXCEPT !.at = step]]
  BY DEF Goto
<1> QED
  BY <1>1, <1>2, <1>3, MovesOnly DEF Moves, Program

LEMMA WinsKept ==
    ASSUME IInv, NEW p \in Procs, NEW new, Moves(p, new),
           \/ new.cmd # "serve"
           \/ new.server = NoServer
           \/ new.cmd = proc[p].cmd /\ new.server = proc[p].server /\ new.env = proc[p].env
           \/ EnvironmentIn(new.server, new.env)
    PROVE  EnvironmentWins'
<1>1. \A q \in Procs : Wins(q)
  BY WinsForAll DEF IInv
<1>2. \A q \in Procs : Wins(q)'
  BY <1>1, MovesOnly DEF Wins, EnvironmentIn, IInv
<1>3. (\A q \in Procs : Wins(q))' => EnvironmentWins'
  BY DEF EnvironmentWins, Wins, EnvironmentIn
<1> QED
  BY <1>2, <1>3

LEMMA WaitKept ==
    ASSUME IInv, NEW p \in Procs, NEW new, Moves(p, new),
           dialog'.of \in {dialog.of, 0},
           dialog'.of # p \/ (~At(p, "running") /\ ~At(p, "serving"))
    PROVE  WaitWell'
BY MovesOnly DEF WaitWell, IInv, TypeOK, DialogState, At

LEMMA FileKept ==
    ASSUME IInv, NEW p \in Procs, NEW new, Moves(p, new),
           UNCHANGED <<file, mixed>>,
           dialog'.at = dialog.at, dialog'.form = dialog.form,
           new.at \in {"create", "write", "protect"} =>
               proc[p].at \in {"create", "write", "protect"} \/ file.has = "nothing"
    PROVE  FileInv'
<1>1. CASE dialog.at \in {"write", "protect"}
  <2>1. TemplateUnderWay' => TemplateUnderWay
    BY <1>1, MovesOnly DEF IInv, FileInv, TemplateUnderWay
  <2> QED
    BY <2>1 DEF IInv, FileInv
<1>2. CASE dialog.at \notin {"write", "protect"}
  BY <1>2 DEF IInv, FileInv
<1> QED
  BY <1>1, <1>2

\* p is no hub after the step.  If it had the port, it may have freed it.
LEMMA CertLeft ==
    ASSUME IInv, NEW p \in Procs, NEW new, Moves(p, new),
           new.at \notin HubSteps, new.identity = Absent,
           new.at # "off" => new.own \in Identities,
           new.at = "bind" => new.server \in ServerConfig,
           port' = port \/ port = p,
           UNCHANGED <<tls, pin>>,
           torn => torn', At(p, "wrkey") => torn'
    PROVE  CertInv'
<1>1. ASSUME NEW q \in Procs PROVE ProcWell(q)' /\ PairWell(q)'
  <2>1. CASE q = p
    BY <2>1, MovesOnly DEF IInv, ProcWell, PairWell, HubSteps, At
  <2>2. CASE q # p
    <3>1. proc'[q] = proc[q] /\ ProcWell(q) /\ PairWell(q)
      BY <2>2, MovesOnly DEF IInv, CertInv
    <3>2. ProcWell(q)'
      BY <2>2, <3>1 DEF ProcWell, At
    <3>3. PairWell(q)'
      BY <3>1 DEF PairWell, PairOf, At
    <3> QED
      BY <3>2, <3>3
  <2> QED
    BY <2>1, <2>2
<1>2. ASSUME NEW d \in StateDirs PROVE DirWell(d)'
  <2>1. tls[d].key = Torn => torn' \/ \E q \in Procs : At(q, "wrkey")' /\ DirOf(proc'[q].server) = d
    <3>1. SUFFICES ASSUME tls[d].key = Torn, ~torn'
                   PROVE  \E q \in Procs : At(q, "wrkey")' /\ DirOf(proc'[q].server) = d
      OBVIOUS
    <3>2. PICK q \in Procs : At(q, "wrkey") /\ DirOf(proc[q].server) = d
      BY <3>1 DEF IInv, CertInv, DirWell
    <3>3. proc'[q] = proc[q]
      BY <3>1, <3>2, MovesOnly DEF IInv
    <3> QED
      BY <3>2, <3>3 DEF At
  <2> QED
    BY <2>1 DEF IInv, CertInv, DirWell
<1>3. pin'.identity # Absent => tls'[pin'.dir].key = pin'.identity
  BY DEF IInv, CertInv
<1> QED
  BY <1>1, <1>2, <1>3 DEF CertInv

\* p is a hub after the step, and has the port: no other program is one.
LEMMA CertMoved ==
    ASSUME IInv, NEW p \in Procs, NEW new, Moves(p, new),
           new.at \in HubSteps, port' = p, port \in {0, p},
           new.own \in Identities, new.server \in ServerConfig,
           new.at # "serving" => new.identity = Absent,
           PairWell(p)', \A d \in StateDirs : DirWell(d)',
           pin'.identity # Absent => tls'[pin'.dir].key = pin'.identity
    PROVE  CertInv'
<1>1. ASSUME NEW q \in Procs PROVE ProcWell(q)' /\ PairWell(q)'
  <2>1. CASE q = p
    BY <2>1, MovesOnly DEF IInv, ProcWell, HubSteps, At
  <2>2. CASE q # p
    <3>1. proc'[q] = proc[q] /\ ProcWell(q)
      BY <2>2, MovesOnly DEF IInv, CertInv
    <3>2. proc[q].at \notin HubSteps
      BY <2>2, <3>1 DEF ProcWell
    <3> QED
      BY <3>1, <3>2 DEF ProcWell, PairWell, HubSteps, At
  <2> QED
    BY <2>1, <2>2
<1> QED
  BY <1>1 DEF CertInv

----------------------------------------------------------------------------
(* Programs that are no hub *)

\* A step of p after which it is no hub, whatever becomes of the file and the
\* dialog.
LEMMA Leaves ==
    ASSUME IInv, NEW p \in Procs, NEW new, Moves(p, new),
           new.at \notin HubSteps, new.identity = Absent,
           new.at # "off" => new.own \in Identities,
           new.at = "bind" => new.server \in ServerConfig,
           \/ new.cmd # "serve"
           \/ new.server = NoServer
           \/ new.cmd = proc[p].cmd /\ new.server = proc[p].server /\ new.env = proc[p].env
           \/ EnvironmentIn(new.server, new.env),
           port' = port \/ (port = p /\ port' = 0),
           lock' \in {0} \union Procs,
           UNCHANGED <<tls, pin, mixed>>,
           torn' = (torn \/ At(p, "wrkey")) \/ (~At(p, "wrkey") /\ torn' = torn),
           launches' \in 0..MaxLaunches,
           dialog' \in DialogState, dialog'.of \in {dialog.of, 0},
           dialog'.of # p \/ (~At(p, "running") /\ ~At(p, "serving")),
           file' \in File, FileInv'
    PROVE  IInv'
<1>1. torn' \in BOOLEAN /\ (torn => torn') /\ (At(p, "wrkey") => torn')
  <2>1. torn \in BOOLEAN
    BY DEF IInv, TypeOK
  <2>2. CASE torn' = (torn \/ At(p, "wrkey"))
    BY <2>2
  <2>3. CASE ~At(p, "wrkey") /\ torn' = torn
    BY <2>1, <2>3
  <2> QED
    BY <2>2, <2>3
<1>2. proc' \in [Procs -> Program]
  BY MovesOnly DEF IInv
<1>3. TypeOK'
  BY <1>1, <1>2 DEF IInv, TypeOK
<1>4. CertInv'
  BY <1>1, CertLeft
<1>5. WaitWell'
  BY WaitKept
<1>6. EnvironmentWins'
  BY WinsKept
<1> QED
  BY <1>3, <1>4, <1>5, <1>6 DEF IInv

\* The same for one that leaves them alone but for the tray that waits.
LEMMA Quiet ==
    ASSUME IInv, NEW p \in Procs, NEW new, Moves(p, new),
           new.at \notin HubSteps, new.identity = Absent,
           new.at # "off" => new.own \in Identities,
           new.at = "bind" => new.server \in ServerConfig,
           new.at \in {"create", "write", "protect"} =>
               proc[p].at \in {"create", "write", "protect"} \/ file.has = "nothing",
           \/ new.cmd # "serve"
           \/ new.server = NoServer
           \/ new.cmd = proc[p].cmd /\ new.server = proc[p].server /\ new.env = proc[p].env
           \/ EnvironmentIn(new.server, new.env),
           port' = port \/ (port = p /\ port' = 0),
           lock' \in {0} \union Procs,
           UNCHANGED <<file, tls, pin, mixed>>,
           torn' = (torn \/ At(p, "wrkey")) \/ (~At(p, "wrkey") /\ torn' = torn),
           launches' \in 0..MaxLaunches,
           \/ dialog' = dialog /\ ~At(p, "running") /\ ~At(p, "serving")
           \/ dialog' = [dialog EXCEPT !.of = IF @ = p THEN 0 ELSE @]
    PROVE  IInv'
<1>1. /\ dialog' \in DialogState
      /\ dialog'.at = dialog.at /\ dialog'.form = dialog.form
      /\ dialog'.of \in {dialog.of, 0}
      /\ dialog'.of # p \/ (~At(p, "running") /\ ~At(p, "serving"))
  <2>1. dialog \in DialogState
    BY DEF IInv, TypeOK
  <2>2. CASE dialog' = dialog /\ ~At(p, "running") /\ ~At(p, "serving")
    BY <2>1, <2>2
  <2>3. CASE dialog' = [dialog EXCEPT !.of = IF @ = p THEN 0 ELSE @]
    <3>1. PICK w \in {dialog.of, 0} : w # p /\ dialog' = [dialog EXCEPT !.of = w]
      BY <2>3
    <3>2. w \in {0} \union Procs
      BY <2>1 DEF DialogState
    <3>3. dialog' \in DialogState
      BY <2>1, <3>1, <3>2 DEF DialogState
    <3>4. dialog'.at = dialog.at /\ dialog'.form = dialog.form /\ dialog'.of = w
      BY <2>1, <3>1 DEF DialogState
    <3> QED
      BY <3>1, <3>3, <3>4
  <2> QED
    BY <2>2, <2>3
<1>2. FileInv'
  BY <1>1, FileKept
<1>3. file' \in File
  BY DEF IInv, TypeOK
<1> QED
  BY <1>1, <1>2, <1>3, Leaves

\* The same for a step that only goes on.
LEMMA QuietGoto ==
    ASSUME IInv, NEW p \in Procs, NEW step \in Steps \ HubSteps, Goto(p, step),
           ~At(p, "off"), ~At(p, "running"), ~At(p, "serving"), ~At(p, "wrkey"),
           step # "bind",
           step \in {"create", "write", "protect"} =>
               proc[p].at \in {"create", "write", "protect"} \/ file.has = "nothing",
           port' = port \/ (port = p /\ port' = 0),
           lock' \in {0} \union Procs,
           UNCHANGED <<file, tls, pin, mixed, torn, launches, dialog>>
    PROVE  IInv'
<1> DEFINE new == [proc[p] EXCEPT !.at = step]
<1>1. proc[p] \in Program /\ Moves(p, new)
  BY GotoMoves DEF IInv, TypeOK
<1>2. /\ new.at = step /\ new.identity = Absent /\ new.own \in Identities
      /\ new.cmd = proc[p].cmd /\ new.server = proc[p].server /\ new.env = proc[p].env
  BY <1>1 DEF IInv, CertInv, ProcWell, At, Program
<1>3. launches' \in 0..MaxLaunches
  BY DEF IInv, TypeOK
<1> HIDE DEF new
<1> QED
  BY <1>1, <1>2, <1>3, Quiet

LEMMA EndedQuiet ==
    ASSUME IInv, NEW p \in Procs, Ended(p),
           UNCHANGED <<file, tls, pin, mixed, launches>>,
           torn' = (torn \/ At(p, "wrkey")) \/ (~At(p, "wrkey") /\ torn' = torn),
           \/ dialog' = dialog /\ ~At(p, "running") /\ ~At(p, "serving")
           \/ dialog' = [dialog EXCEPT !.of = IF @ = p THEN 0 ELSE @]
    PROVE  IInv'
<1>1. Moves(p, Off) /\ Off.at \notin HubSteps
  BY OffType DEF Ended, Moves, HubSteps
<1>2. port' = port \/ (port = p /\ port' = 0)
  BY DEF Ended
<1>3. lock' \in {0} \union Procs /\ launches' \in 0..MaxLaunches
  BY DEF Ended, IInv, TypeOK
<1> QED
  BY <1>1, <1>2, <1>3, OffType, Quiet

LEMMA LaunchStep ==
    ASSUME IInv, NEW p \in Procs, NEW cmd \in Commands, NEW env \in EnvironmentsOf(cmd),
           Launch(p, cmd, env)
    PROVE  IInv'
<1> USE DEF Launch
<1> DEFINE server == CASE cmd = "serve" -> FromEnvLayered(Base(file), env)
                       [] cmd = "host" -> FromEnv(env)
                       [] OTHER -> NoServer
           at == CASE cmd = "tray" -> "lock"
                   [] cmd = "connect" -> "read"
                   [] OTHER -> IF server = Refused THEN "off" ELSE "bind"
           new == [Off EXCEPT !.cmd = cmd, !.env = env, !.own = launches + 2,
                              !.server = IF server = Refused THEN NoServer ELSE server,
                              !.at = at]
<1>1. env \in Environments /\ env \in Environment
  BY OffType DEF EnvironmentsOf, Program
<1>2. /\ server = NoServer \/ server = Refused \/ server \in ServerConfig
      /\ cmd \in {"serve", "host"} => server = Refused \/ server \in ServerConfig
      /\ (cmd = "serve" /\ server # Refused) => EnvironmentIn(server, env)
  BY <1>1, LayeredWell, FromEnvWell DEF IInv, TypeOK
<1>3. launches + 2 \in Identities /\ launches' \in 0..MaxLaunches
  BY DEF IInv, TypeOK, Identities
<1>4. at \in {"lock", "read", "off", "bind"} /\ at \in Steps
  BY DEF Steps, Commands
<1>5. at = "bind" => server \in ServerConfig
  BY <1>2 DEF Commands
<1> HIDE DEF server, at
<1>6. /\ new \in Program /\ new.at = at /\ new.own = launches + 2 /\ new.cmd = cmd /\ new.env = env
      /\ new.server = IF server = Refused THEN NoServer ELSE server
      /\ new.identity = Absent
  BY <1>1, <1>2, <1>3, <1>4, OffType DEF Program
<1>7. proc' = [proc EXCEPT ![p] = new]
  BY DEF server, at
<1> HIDE DEF new
<1>8. Moves(p, new)
  BY <1>6, <1>7 DEF Moves
<1>9. new.at \notin HubSteps /\ new.at \notin {"create", "write", "protect"}
  BY <1>4, <1>6 DEF HubSteps
<1>10. new.at = "bind" => new.server \in ServerConfig
  BY <1>5, <1>6, ErrorsDiffer
<1>11. new.cmd # "serve" \/ new.server = NoServer \/ EnvironmentIn(new.server, new.env)
  BY <1>2, <1>6
<1>12. ~At(p, "running") /\ ~At(p, "serving") /\ ~At(p, "wrkey") /\ lock' \in {0} \union Procs
  BY DEF At, IInv, TypeOK
<1> QED
  BY <1>3, <1>6, <1>8, <1>9, <1>10, <1>11, <1>12, Quiet

LEMMA DiesStep == ASSUME IInv, NEW p \in Procs, Dies(p) PROVE IInv'
BY EndedQuiet DEF Dies

LEMMA LockStep == ASSUME IInv, NEW p \in Procs, Lock(p) PROVE IInv'
<1> USE DEF Lock
<1>1. ~At(p, "off") /\ ~At(p, "running") /\ ~At(p, "serving") /\ ~At(p, "wrkey")
  BY DEF At
<1>2. CASE lock = 0
  <2>1. "read" \in Steps \ HubSteps
    BY DEF Steps, HubSteps
  <2>2. lock' \in {0} \union Procs
    BY <1>2
  <2> QED
    BY <1>1, <1>2, <2>1, <2>2, QuietGoto
<1>3. CASE lock # 0
  BY <1>1, <1>3, EndedQuiet
<1> QED
  BY <1>2, <1>3

LEMMA ReadStep == ASSUME IInv, NEW p \in Procs, Read(p) PROVE IInv'
<1> USE DEF Read
<1> DEFINE step == IF file.has = "nothing" THEN "create" ELSE "load"
<1>1. ~At(p, "off") /\ ~At(p, "running") /\ ~At(p, "serving") /\ ~At(p, "wrkey")
  BY DEF At
<1>2. step \in Steps \ HubSteps /\ step # "bind" /\ (step = "create" => file.has = "nothing")
      /\ step \notin {"write", "protect"}
  BY DEF Steps, HubSteps
<1>3. lock' \in {0} \union Procs
  BY DEF IInv, TypeOK
<1> HIDE DEF step
<1>4. Goto(p, step)
  BY DEF step
<1> QED
  BY <1>1, <1>2, <1>3, <1>4, QuietGoto

----------------------------------------------------------------------------
(* The template, and the load *)

\* While a program writes its template the dialog's save is a mixed one.
LEMMA TemplateStep ==
    ASSUME IInv, NEW p \in Procs, NEW new, Moves(p, new),
           proc[p].at \in {"create", "write", "protect"},
           new.at \notin HubSteps \union {"bind"}, new.identity = Absent,
           new.at # "off" => new.own \in Identities,
           \/ new.cmd # "serve"
           \/ new.server = NoServer
           \/ new.cmd = proc[p].cmd /\ new.server = proc[p].server /\ new.env = proc[p].env,
           port' = port \/ (port = p /\ port' = 0),
           lock' \in {0} \union Procs,
           file' \in File, file'.has = "nothing" => file.has = "nothing",
           UNCHANGED <<tls, dialog, pin, torn, mixed, launches>>
    PROVE  IInv'
<1>1. TemplateUnderWay
  BY DEF TemplateUnderWay
<1>2. FileInv'
  BY <1>1 DEF IInv, FileInv
<1>3. ~At(p, "running") /\ ~At(p, "serving") /\ ~At(p, "wrkey")
  BY DEF At
<1>4. dialog' \in DialogState /\ launches' \in 0..MaxLaunches
  BY DEF IInv, TypeOK
<1> QED
  BY <1>2, <1>3, <1>4, Leaves

LEMMA FileType ==
    ASSUME IInv, NEW has \in {"nothing", "part", "content"}, NEW is \in Content,
           file' \in {[file EXCEPT !.has = has], [file EXCEPT !.has = has, !.is = is]}
    PROVE  file' \in File /\ file'.has = has
BY DEF IInv, TypeOK, File

LEMMA WriteTemplateStep ==
    ASSUME IInv, NEW p \in Procs,
           CreateTemplate(p) \/ WriteTemplate(p) \/ ProtectTemplate(p)
    PROVE  IInv'
<1>1. proc[p].at \in {"create", "write", "protect"} /\ ~At(p, "off")
  BY DEF CreateTemplate, WriteTemplate, ProtectTemplate, At
<1>2. /\ UNCHANGED <<tls, dialog, pin, torn, mixed, launches>>
      /\ lock' \in {0} \union Procs
      /\ port' = port \/ (port = p /\ port' = 0)
  BY DEF CreateTemplate, WriteTemplate, ProtectTemplate, Ended, IInv, TypeOK
<1>3. ASSUME NEW step \in {"write", "protect", "load"}, Goto(p, step),
             file' \in File, file'.has = "nothing" => file.has = "nothing"
      PROVE  IInv'
  <2>1. step \in Steps /\ step \notin HubSteps \union {"bind"}
    BY <1>3 DEF Steps, HubSteps
  <2> DEFINE new == [proc[p] EXCEPT !.at = step]
  <2>2. Moves(p, new) /\ proc[p] \in Program
    BY <1>3, <2>1, GotoMoves DEF IInv, TypeOK
  <2>3. /\ new.at = step /\ new.identity = Absent /\ new.own \in Identities
        /\ new.cmd = proc[p].cmd /\ new.server = proc[p].server /\ new.env = proc[p].env
    BY <1>1, <2>2 DEF IInv, CertInv, ProcWell, At, Program
  <2> HIDE DEF new
  <2> QED
    BY <1>1, <1>2, <1>3, <2>1, <2>2, <2>3, TemplateStep
<1>4. CASE CreateTemplate(p)
  <2>1. file' \in File /\ file'.has = "part"
    BY <1>4 DEF CreateTemplate, IInv, TypeOK, File
  <2> QED
    BY <1>3, <1>4, <2>1 DEF CreateTemplate
<1>5. CASE WriteTemplate(p)
  <2>1. Template \in Content
    BY DEF Template, Content, NoHub, HubSection
  <2>2. file' \in File /\ file'.has = "content"
    BY <1>5, <2>1 DEF WriteTemplate, IInv, TypeOK, File
  <2> QED
    BY <1>3, <1>5, <2>2 DEF WriteTemplate
<1>6. CASE ProtectTemplate(p)
  <2>1. file' \in File /\ file'.has = file.has
    BY <1>6 DEF ProtectTemplate, IInv, TypeOK, File
  <2>2. CASE proc[p].cmd = "tray"
    BY <1>3, <1>6, <2>1, <2>2 DEF ProtectTemplate
  <2>3. CASE proc[p].cmd # "tray"
    <3>1. Ended(p)
      BY <1>6, <2>3 DEF ProtectTemplate
    <3>2. Moves(p, Off) /\ Off.at \notin HubSteps \union {"bind"}
      BY <3>1, OffType DEF Ended, Moves, HubSteps
    <3> QED
      BY <1>1, <1>2, <2>1, <3>2, OffType, TemplateStep
  <2> QED
    BY <2>2, <2>3
<1> QED
  BY <1>4, <1>5, <1>6

LEMMA LoadStep == ASSUME IInv, NEW p \in Procs, Load(p) PROVE IInv'
<1> USE DEF Load
<1>1. ~At(p, "off") /\ ~At(p, "running") /\ ~At(p, "serving") /\ ~At(p, "wrkey")
  BY DEF At
<1>2. CASE proc[p].cmd = "connect" /\ ~Loads(file) /\ Ended(p)
  BY <1>1, <1>2, EndedQuiet
<1>3. CASE ~(proc[p].cmd = "connect" /\ ~Loads(file) /\ Ended(p))
  <2> DEFINE hub == /\ proc[p].cmd = "tray" /\ Loads(file)
                    /\ file.is.section /\ file.is.hub.enabled
             server == IF hub THEN Base(file) ELSE NoServer
             at == IF hub THEN "bind" ELSE "running"
             new == [proc[p] EXCEPT !.at = at, !.server = server]
  <2>1. /\ UNCHANGED <<lock, port, file, tls, dialog, pin, torn, mixed, launches>>
        /\ proc' = [proc EXCEPT ![p].at = at, ![p].server = server]
    BY <1>3
  <2>2. at \in {"bind", "running"} /\ at \in Steps
    BY DEF Steps
  <2>3. server \in ServerConfig \union {NoServer} /\ (at = "bind" => server \in ServerConfig)
    BY BaseType DEF IInv, TypeOK
  <2>4. at = "bind" => proc[p].cmd = "tray"
    OBVIOUS
  <2>5. at = "running" => server = NoServer
    OBVIOUS
  <2> HIDE DEF at, server
  <2>6. proc[p] \in Program
    BY DEF IInv, TypeOK
  <2>7. /\ new \in Program /\ new.at = at /\ new.server = server
        /\ new.identity = Absent /\ new.own \in Identities /\ new.cmd = proc[p].cmd
    BY <1>1, <2>2, <2>3, <2>6 DEF Program, IInv, CertInv, ProcWell, At
  <2>8. proc' = [proc EXCEPT ![p] = new]
    BY <2>1, <2>6 DEF IInv, TypeOK
  <2> HIDE DEF new
  <2>9. Moves(p, new) /\ new.at \notin HubSteps
    BY <2>2, <2>7, <2>8 DEF Moves, HubSteps
  <2>10. new.cmd # "serve" \/ new.server = NoServer
    BY <2>2, <2>4, <2>5, <2>7
  <2>11. lock' \in {0} \union Procs /\ launches' \in 0..MaxLaunches
    BY <2>1 DEF IInv, TypeOK
  <2> QED
    BY <1>1, <2>1, <2>2, <2>3, <2>7, <2>9, <2>10, <2>11, Quiet
<1> QED
  BY <1>2, <1>3

----------------------------------------------------------------------------
(* The hub *)

\* A step of p from Bind on, which ends with p a hub.
LEMMA Serves ==
    ASSUME IInv, NEW p \in Procs, NEW new, Moves(p, new),
           proc[p].at \in (HubSteps \union {"bind"}) \ {"serving"},
           new.at \in HubSteps, port' = p, port \in {0, p},
           new.cmd = proc[p].cmd, new.env = proc[p].env,
           new.own = proc[p].own, new.server = proc[p].server,
           new.at # "serving" => new.identity = Absent,
           tls' \in [StateDirs -> [cert: {Absent, Torn} \union Identities,
                                   key: {Absent, Torn} \union Identities]],
           PairWell(p)', \A d \in StateDirs : DirWell(d)',
           pin.identity # Absent => tls'[pin.dir].key = pin.identity,
           UNCHANGED <<file, lock, dialog, pin, torn, mixed, launches>>
    PROVE  IInv'
<1>1. proc' \in [Procs -> Program]
  BY MovesOnly DEF IInv
<1>2. TypeOK'
  BY <1>1 DEF IInv, TypeOK
<1>3. new.own \in Identities /\ new.server \in ServerConfig
  BY DEF IInv, CertInv, ProcWell, At, HubSteps
<1>4. CertInv'
  BY <1>3, CertMoved
<1>5. WaitWell' /\ FileInv'
  <2>1. ~At(p, "running") /\ ~At(p, "serving") /\ dialog'.of \in {dialog.of, 0}
    BY DEF HubSteps, At
  <2>2. new.at \notin {"create", "write", "protect"}
    BY DEF HubSteps
  <2> QED
    BY <2>1, <2>2, WaitKept, FileKept
<1>6. EnvironmentWins'
  BY WinsKept
<1> QED
  BY <1>2, <1>4, <1>5, <1>6 DEF IInv

\* The certificates are as they were, and p writes no key.
LEMMA DirsKept ==
    ASSUME IInv, NEW p \in Procs, NEW new, Moves(p, new), ~At(p, "wrkey"), tls' = tls, torn' = torn
    PROVE  \A d \in StateDirs : DirWell(d)'
<1> SUFFICES ASSUME NEW d \in StateDirs PROVE DirWell(d)'
  OBVIOUS
<1>1. DirWell(d)
  BY DEF IInv, CertInv
<1>2. ASSUME NEW q \in Procs, At(q, "wrkey") PROVE proc'[q] = proc[q]
  BY <1>2, MovesOnly DEF IInv
<1>3. (\E q \in Procs : At(q, "wrkey") /\ DirOf(proc[q].server) = d) =>
          \E q \in Procs : At(q, "wrkey")' /\ DirOf(proc'[q].server) = d
  BY <1>2 DEF At
<1> QED
  BY <1>1, <1>3 DEF DirWell

LEMMA HubFailsStep ==
    ASSUME IInv, NEW p \in Procs, proc[p].at \in {"ensure", "pem"}, HubFails(p),
           UNCHANGED <<file, tls, dialog, pin, torn, mixed, launches>>
    PROVE  IInv'
<1>1. ~At(p, "off") /\ ~At(p, "running") /\ ~At(p, "serving") /\ ~At(p, "wrkey") /\ port = p
  BY DEF At, IInv, CertInv, ProcWell, HubSteps
<1>2. CASE proc[p].cmd = "tray"
  <2>1. "running" \in Steps \ HubSteps /\ lock' \in {0} \union Procs
    BY <1>2 DEF Steps, HubSteps, HubFails, IInv, TypeOK
  <2> QED
    BY <1>1, <1>2, <2>1, QuietGoto DEF HubFails, Goto
<1>3. CASE proc[p].cmd # "tray"
  BY <1>1, <1>3, EndedQuiet DEF HubFails
<1> QED
  BY <1>2, <1>3

LEMMA BindStep == ASSUME IInv, NEW p \in Procs, Bind(p) PROVE IInv'
<1>1. /\ ~At(p, "off") /\ ~At(p, "running") /\ ~At(p, "serving") /\ ~At(p, "wrkey")
      /\ proc[p].at = "bind" /\ proc[p].identity = Absent /\ proc[p] \in Program
      /\ UNCHANGED <<file, tls, dialog, pin, torn, mixed, launches>>
  BY DEF Bind, At, IInv, CertInv, ProcWell, TypeOK
<1> DEFINE server == proc[p].server
           at == IF server.plain THEN "serving"
                 ELSE IF TlsEnabled(server) THEN "pem" ELSE "ensure"
           shows == IF server.plain THEN "ws" ELSE "none"
           new == [proc[p] EXCEPT !.at = at, !.shows = shows]
<1>2. CASE port = 0 /\ port' = p /\ proc' = [proc EXCEPT ![p].at = at, ![p].shows = shows] /\ UNCHANGED lock
  <2>1. at \in {"serving", "pem", "ensure"} /\ at \in Steps /\ at \in HubSteps /\ shows \in {"none", "ws", "wss"}
        /\ (at = "pem" => TlsEnabled(server))
    BY DEF Steps, HubSteps
  <2> HIDE DEF at, shows
  <2>2. /\ new \in Program /\ new.at = at /\ new.identity = Absent /\ new.cmd = proc[p].cmd
        /\ new.env = proc[p].env /\ new.own = proc[p].own /\ new.server = server
    BY <1>1, <2>1 DEF Program
  <2>3. proc' = [proc EXCEPT ![p] = new]
    BY <1>1, <1>2 DEF IInv, TypeOK
  <2> HIDE DEF new, server
  <2>4. Moves(p, new)
    BY <2>2, <2>3 DEF Moves
  <2>5. proc'[p] = new
    BY <2>4, MovesOnly DEF IInv
  <2>6. PairWell(p)'
    BY <2>1, <2>2, <2>5 DEF PairWell, At
  <2>7. \A d \in StateDirs : DirWell(d)'
    BY <1>1, <2>4, DirsKept
  <2>8. pin.identity # Absent => tls'[pin.dir].key = pin.identity
    BY <1>1 DEF IInv, CertInv
  <2>9. tls' \in [StateDirs -> [cert: {Absent, Torn} \union Identities,
                                key: {Absent, Torn} \union Identities]]
    BY <1>1 DEF IInv, TypeOK
  <2> QED
    BY <1>1, <1>2, <2>1, <2>2, <2>4, <2>6, <2>7, <2>8, <2>9, Serves DEF server, HubSteps
<1>3. CASE port # 0 /\ proc[p].cmd = "tray" /\ Goto(p, "running") /\ UNCHANGED <<lock, port>>
  <2>1. "running" \in Steps \ HubSteps /\ lock' \in {0} \union Procs
    BY <1>3 DEF Steps, HubSteps, IInv, TypeOK
  <2> QED
    BY <1>1, <1>3, <2>1, QuietGoto
<1>4. CASE Ended(p)
  BY <1>1, <1>4, EndedQuiet
<1> QED
  BY <1>2, <1>3, <1>4 DEF Bind

LEMMA DirType == \A server \in ServerConfig : DirOf(server) \in StateDirs
BY DEF DirOf, ServerConfig, StateDirs

LEMMA Numbers ==
    /\ Absent \notin Identities /\ Torn \notin Identities /\ Absent # Torn
BY DEF Absent, Torn, Identities

\* A hub past Bind: its port, its directory, and what it goes on with.
LEMMA HubFacts ==
    ASSUME IInv, NEW p \in Procs, proc[p].at \in HubSteps \ {"serving"}
    PROVE  /\ port = p /\ proc[p] \in Program
           /\ DirOf(proc[p].server) \in StateDirs
           /\ proc[p].identity = Absent /\ proc[p].own \in Identities
           /\ PairWell(p) /\ DirWell(DirOf(proc[p].server))
           /\ tls \in [StateDirs -> [cert: {Absent, Torn} \union Identities,
                                     key: {Absent, Torn} \union Identities]]
<1>1. /\ port = p /\ proc[p] \in Program /\ proc[p].server \in ServerConfig
      /\ proc[p].identity = Absent /\ proc[p].own \in Identities /\ PairWell(p)
  BY DEF IInv, TypeOK, CertInv, ProcWell, At, HubSteps
<1>2. DirOf(proc[p].server) \in StateDirs
  BY <1>1, DirType
<1> QED
  BY <1>1, <1>2 DEF IInv, TypeOK, CertInv

LEMMA EnsureStep == ASSUME IInv, NEW p \in Procs, Ensure(p) PROVE IInv'
<1>1. /\ proc[p].at = "ensure" /\ proc[p].at \in HubSteps \ {"serving"} /\ ~At(p, "wrkey")
      /\ UNCHANGED <<file, tls, dialog, pin, torn, mixed, launches>>
  BY DEF Ensure, At, HubSteps
<1> DEFINE d == DirOf(proc[p].server)
           pair == tls[d]
<1>2. /\ port = p /\ proc[p] \in Program /\ d \in StateDirs
      /\ proc[p].identity = Absent /\ DirWell(d)
      /\ tls \in [StateDirs -> [cert: {Absent, Torn} \union Identities,
                                key: {Absent, Torn} \union Identities]]
  BY <1>1, HubFacts
<1>3. CASE pair.cert # Absent /\ pair.key # Absent /\ pair.cert = Torn
  BY <1>1, <1>3, HubFailsStep DEF Ensure
<1>4. ASSUME NEW step \in {"mkcert", "pem"}, Goto(p, step), UNCHANGED <<lock, port>>,
             step = "mkcert" => pair.key = Absent,
             step = "pem" => torn \/ (pair.cert = pair.key /\ pair.cert \in Identities)
      PROVE  IInv'
  <2>1. step \in Steps /\ step \in HubSteps /\ step # "serving"
    BY DEF Steps, HubSteps
  <2> DEFINE new == [proc[p] EXCEPT !.at = step]
  <2>2. /\ Moves(p, new) /\ proc'[p].at = step /\ proc'[p].server = proc[p].server
        /\ proc'[p].identity = Absent
    BY <1>2, <1>4, <2>1, GotoMoves DEF IInv
  <2>3. /\ new.at = step /\ new.cmd = proc[p].cmd /\ new.env = proc[p].env
        /\ new.own = proc[p].own /\ new.server = proc[p].server /\ new.identity = Absent
    BY <1>2 DEF Program
  <2> HIDE DEF new
  <2>4. PairWell(p)'
    BY <1>1, <1>4, <2>2 DEF PairWell, PairOf, At
  <2>5. \A e \in StateDirs : DirWell(e)'
    BY <1>1, <2>2, DirsKept
  <2>6. pin.identity # Absent => tls'[pin.dir].key = pin.identity
    BY <1>1 DEF IInv, CertInv
  <2> HIDE DEF d
  <2> QED
    BY <1>1, <1>2, <1>4, <2>1, <2>2, <2>3, <2>4, <2>5, <2>6, Serves
<1>5. CASE pair.cert = Absent \/ pair.key = Absent
  <2>1. pair.key = Absent
    BY <1>2, <1>5 DEF DirWell
  <2> QED
    BY <1>4, <1>5, <2>1 DEF Ensure
<1>6. CASE pair.cert # Absent /\ pair.key # Absent /\ pair.cert # Torn
  <2>1. ASSUME ~torn PROVE pair.cert = pair.key /\ pair.cert \in Identities
    <3>1. \A q \in Procs : ~At(q, "wrkey")
      <4>1. \A q \in Procs : At(q, "wrkey") => port = q
        BY DEF IInv, CertInv, ProcWell, HubSteps, At
      <4> QED
        BY <1>1, <1>2, <4>1
    <3>2. pair.key # Torn
      BY <1>2, <2>1, <3>1 DEF DirWell
    <3>3. pair.key \in Identities
      BY <1>2, <1>6, <3>2
    <3> QED
      BY <1>2, <3>3 DEF DirWell
  <2>2. Goto(p, "pem") /\ UNCHANGED <<lock, port>>
    BY <1>6 DEF Ensure
  <2> QED
    BY <1>4, <2>1, <2>2
<1> QED
  BY <1>3, <1>5, <1>6

\* One of the two files is created or written.
LEMMA MakePairStep ==
    ASSUME IInv, NEW p \in Procs,
           CreateCert(p) \/ WriteCert(p) \/ CreateKey(p) \/ WriteKey(p)
    PROVE  IInv'
<1> DEFINE d == DirOf(proc[p].server)
           Pair == [cert: {Absent, Torn} \union Identities, key: {Absent, Torn} \union Identities]
<1>1. /\ proc[p].at \in {"mkcert", "wrcert", "mkkey", "wrkey"}
      /\ proc[p].at \in HubSteps \ {"serving"}
      /\ UNCHANGED <<file, lock, port, dialog, pin, torn, mixed, launches>>
  BY DEF CreateCert, WriteCert, CreateKey, WriteKey, MakePair, At, HubSteps
<1>2. /\ port = p /\ proc[p] \in Program /\ d \in StateDirs
      /\ proc[p].identity = Absent /\ proc[p].own \in Identities
      /\ PairWell(p) /\ DirWell(d) /\ tls \in [StateDirs -> Pair]
  BY <1>1, HubFacts
<1>3. tls[d].key \notin Identities
  BY <1>1, <1>2, Numbers DEF PairWell, PairOf, At
<1>4. ASSUME NEW part \in {"cert", "key"}, NEW value \in {Torn} \union Identities,
             NEW step \in {"wrcert", "mkkey", "wrkey", "pem"}, Goto(p, step),
             tls' = [tls EXCEPT ![d][part] = value],
             step \in {"wrcert", "mkkey"} => part = "cert" /\ tls[d].key = Absent,
             step = "mkkey" => value = proc[p].own,
             step \in {"wrkey", "pem"} => part = "key" /\ tls[d].cert = proc[p].own,
             step = "wrkey" => value = Torn,
             step = "pem" => value = proc[p].own
      PROVE  IInv'
  <2>1. step \in Steps /\ step \in HubSteps /\ step # "serving"
    BY DEF Steps, HubSteps
  <2> DEFINE new == [proc[p] EXCEPT !.at = step]
  <2>2. /\ Moves(p, new) /\ proc'[p].at = step /\ proc'[p].server = proc[p].server
        /\ proc'[p].identity = Absent /\ proc'[p].own = proc[p].own
        /\ \A q \in Procs \ {p} : proc'[q] = proc[q]
    BY <1>2, <1>4, <2>1, GotoMoves, MovesOnly DEF IInv
  <2>3. /\ new.at = step /\ new.cmd = proc[p].cmd /\ new.env = proc[p].env
        /\ new.own = proc[p].own /\ new.server = proc[p].server /\ new.identity = Absent
    BY <1>2 DEF Program
  <2> HIDE DEF new
  <2>4. /\ tls' \in [StateDirs -> Pair]
        /\ part = "cert" => tls'[d].cert = value /\ tls'[d].key = tls[d].key
        /\ part = "key" => tls'[d].key = value /\ tls'[d].cert = tls[d].cert
        /\ \A e \in StateDirs \ {d} : tls'[e] = tls[e]
    <3>1. tls[d] \in Pair
      BY <1>2
    <3>2. CASE part = "cert"
      <4>1. tls' = [tls EXCEPT ![d].cert = value]
        BY <1>4, <3>2
      <4>2. tls' = [tls EXCEPT ![d] = [tls[d] EXCEPT !.cert = value]]
        BY <4>1
      <4>3. [tls[d] EXCEPT !.cert = value] = [cert |-> value, key |-> tls[d].key]
        BY <3>1
      <4> QED
        BY <1>2, <3>1, <3>2, <4>2, <4>3
    <3>3. CASE part = "key"
      <4>1. tls' = [tls EXCEPT ![d].key = value]
        BY <1>4, <3>3
      <4>2. tls' = [tls EXCEPT ![d] = [tls[d] EXCEPT !.key = value]]
        BY <4>1
      <4>3. [tls[d] EXCEPT !.key = value] = [cert |-> tls[d].cert, key |-> value]
        BY <3>1
      <4> QED
        BY <1>2, <3>1, <3>3, <4>2, <4>3
    <3> QED
      BY <3>2, <3>3
  <2>5. /\ step \in {"wrcert", "mkkey"} => tls'[d].key = Absent
        /\ step \in {"mkkey", "wrkey", "pem"} => tls'[d].cert = proc[p].own
        /\ step = "wrkey" => tls'[d].key = Torn
        /\ step = "pem" => tls'[d].key = proc[p].own
    BY <1>4, <2>4
  <2> HIDE DEF Pair
  <2>6. PairWell(p)'
    BY <1>2, <2>2, <2>5 DEF PairWell, PairOf, At
  <2>7. ASSUME NEW e \in StateDirs PROVE DirWell(e)'
    <3>1. CASE e = d
      <4>1. tls'[d].cert = Absent => step = "wrcert"
        BY <1>2, <2>5, Numbers
      <4>2. tls'[d].key \in Identities => tls'[d].cert = tls'[d].key
        BY <1>2, <2>5, Numbers
      <4>3. tls'[d].key = Torn => At(p, "wrkey")'
        BY <1>2, <2>2, <2>5, Numbers DEF At
      <4> QED
        BY <2>2, <2>5, <3>1, <4>1, <4>2, <4>3 DEF DirWell
    <3>2. CASE e # d
      <4>1. DirWell(e) /\ tls'[e] = tls[e]
        BY <2>4, <3>2 DEF IInv, CertInv
      <4>2. ASSUME NEW q \in Procs, At(q, "wrkey"), DirOf(proc[q].server) = e
            PROVE  At(q, "wrkey")' /\ DirOf(proc'[q].server) = e
        <5>1. q # p
          BY <3>2, <4>2
        <5> QED
          BY <2>2, <4>2, <5>1 DEF At
      <4> QED
        BY <1>1, <4>1, <4>2 DEF DirWell
    <3> QED
      BY <3>1, <3>2
  <2>8. pin.identity # Absent => tls'[pin.dir].key = pin.identity
    <3>1. pin.dir \in StateDirs /\ pin.identity \in {Absent} \union Identities
      BY DEF IInv, TypeOK
    <3> QED
      BY <1>3, <2>4, <3>1 DEF IInv, CertInv
  <2> QED
    BY <1>1, <1>2, <1>4, <2>1, <2>2, <2>3, <2>4, <2>6, <2>7, <2>8, Serves DEF Pair
<1> HIDE DEF Pair
<1>5. CASE CreateCert(p)
  <2>1. tls[d].key = Absent
    BY <1>2, <1>5 DEF CreateCert, MakePair, PairWell, PairOf, At
  <2> QED
    BY <1>4, <1>5, <2>1 DEF CreateCert, MakePair
<1>6. CASE WriteCert(p)
  <2>1. tls[d].key = Absent
    BY <1>2, <1>6 DEF WriteCert, MakePair, PairWell, PairOf, At
  <2> QED
    BY <1>2, <1>4, <1>6, <2>1 DEF WriteCert, MakePair
<1>7. CASE CreateKey(p)
  <2>1. tls[d].cert = proc[p].own
    BY <1>2, <1>7 DEF CreateKey, MakePair, PairWell, PairOf, At
  <2> QED
    BY <1>4, <1>7, <2>1 DEF CreateKey, MakePair
<1>8. CASE WriteKey(p)
  <2>1. tls[d].cert = proc[p].own
    BY <1>2, <1>8 DEF WriteKey, MakePair, PairWell, PairOf, At
  <2> QED
    BY <1>2, <1>4, <1>8, <2>1 DEF WriteKey, MakePair
<1> QED
  BY <1>5, <1>6, <1>7, <1>8

LEMMA PemStep == ASSUME IInv, NEW p \in Procs, Pem(p) PROVE IInv'
<1>1. /\ proc[p].at = "pem" /\ proc[p].at \in HubSteps \ {"serving"} /\ ~At(p, "wrkey")
      /\ UNCHANGED <<file, tls, dialog, pin, torn, mixed, launches>>
  BY DEF Pem, At, HubSteps
<1> DEFINE server == proc[p].server
           pair == tls[DirOf(server)]
           identity == IF TlsEnabled(server) THEN Absent ELSE pair.cert
           new == [proc[p] EXCEPT !.at = "serving", !.shows = "wss", !.identity = identity]
<1>2. /\ port = p /\ proc[p] \in Program /\ DirOf(server) \in StateDirs
      /\ tls \in [StateDirs -> [cert: {Absent, Torn} \union Identities,
                                key: {Absent, Torn} \union Identities]]
  BY <1>1, HubFacts
<1>3. CASE HubFails(p)
  BY <1>1, <1>3, HubFailsStep
<1>4. CASE ~HubFails(p)
  <2>1. /\ TlsEnabled(server) \/ (pair.cert = pair.key /\ pair.cert \in Identities)
        /\ proc' = [proc EXCEPT ![p].at = "serving", ![p].shows = "wss", ![p].identity = identity]
        /\ UNCHANGED <<lock, port>>
    BY <1>4 DEF Pem
  <2>2. identity \in {Absent} \union Identities /\ (identity # Absent => pair.key = identity)
    BY <2>1
  <2> HIDE DEF identity
  <2>3. /\ new \in Program /\ new.at = "serving" /\ new.identity = identity
        /\ new.cmd = proc[p].cmd /\ new.env = proc[p].env
        /\ new.own = proc[p].own /\ new.server = server
    BY <1>2, <2>2 DEF Program, Steps
  <2>4. proc' = [proc EXCEPT ![p] = new]
    BY <1>2, <2>1 DEF IInv, TypeOK
  <2> HIDE DEF new
  <2>5. Moves(p, new) /\ new.at \in HubSteps
    BY <2>3, <2>4 DEF Moves, HubSteps
  <2>6. PairWell(p)'
    <3>1. proc'[p] = new
      BY <2>5, MovesOnly DEF IInv
    <3> QED
      BY <1>1, <2>2, <2>3, <3>1 DEF PairWell, PairOf, At
  <2>7. \A d \in StateDirs : DirWell(d)'
    BY <1>1, <2>5, DirsKept
  <2>8. pin.identity # Absent => tls'[pin.dir].key = pin.identity
    BY <1>1 DEF IInv, CertInv
  <2> QED
    BY <1>1, <1>2, <2>1, <2>3, <2>5, <2>6, <2>7, <2>8, Serves
<1> QED
  BY <1>3, <1>4

----------------------------------------------------------------------------
(* The dialog *)

LEMMA ProgramsKept ==
    ASSUME IInv, UNCHANGED <<proc, port, tls, torn>>,
           pin'.identity # Absent => tls[pin'.dir].key = pin'.identity
    PROVE  CertInv' /\ EnvironmentWins'
<1>1. ASSUME NEW p \in Procs PROVE ProcWell(p)' /\ PairWell(p)'
  BY DEF IInv, CertInv, ProcWell, PairWell, PairOf, At
<1>2. ASSUME NEW d \in StateDirs PROVE DirWell(d)'
  BY DEF IInv, CertInv, DirWell, At
<1>3. EnvironmentWins'
  BY DEF IInv, EnvironmentWins
<1> QED
  BY <1>1, <1>2, <1>3 DEF CertInv

LEMMA OpenDialogStep == ASSUME IInv, NEW p \in Procs, OpenDialog(p) PROVE IInv'
<1> USE DEF OpenDialog
<1>1. dialog' \in DialogState
  BY FormType DEF IInv, TypeOK, DialogState
<1>2. TypeOK'
  BY <1>1 DEF IInv, TypeOK
<1>3. CertInv' /\ EnvironmentWins'
  <2>1. pin'.identity # Absent => tls[pin'.dir].key = pin'.identity
    BY DEF IInv, CertInv
  <2> QED
    BY <2>1, ProgramsKept
<1>4. WaitWell' /\ FileInv'
  BY DEF WaitWell, FileInv
<1> QED
  BY <1>2, <1>3, <1>4 DEF IInv

LEMMA PinStep == ASSUME IInv, NEW p \in Procs, Pin(p) PROVE IInv'
<1> USE DEF Pin
<1>1. dialog' \in DialogState /\ dialog'.at = "open" /\ dialog'.of = dialog.of
  <2>1. dialog \in DialogState
    BY DEF IInv, TypeOK
  <2> DEFINE form == [dialog.form EXCEPT !.pinned = TRUE, !.insecure = FALSE]
  <2>2. form \in Form
    BY <2>1 DEF DialogState, Form
  <2>3. dialog' = [dialog EXCEPT !.form = form]
    BY <2>1 DEF DialogState
  <2> HIDE DEF form
  <2> QED
    BY <2>1, <2>2, <2>3 DEF DialogState
<1>2. /\ proc[p] \in Program /\ DirOf(proc[p].server) \in StateDirs
      /\ proc[p].identity # Absent => tls[DirOf(proc[p].server)].key = proc[p].identity
  <2>1. proc[p].server \in ServerConfig
    BY DEF IInv, CertInv, ProcWell, At, HubSteps
  <2> QED
    BY <2>1, DirType DEF IInv, TypeOK, CertInv, PairWell, PairOf
<1>3. pin' \in [dir: StateDirs, identity: {Absent} \union Identities]
  BY <1>2 DEF Program
<1>4. TypeOK'
  BY <1>1, <1>3 DEF IInv, TypeOK
<1>5. CertInv' /\ EnvironmentWins'
  <2>1. pin'.dir = DirOf(proc[p].server) /\ pin'.identity = proc[p].identity
    OBVIOUS
  <2> QED
    BY <1>2, <2>1, ProgramsKept
<1>6. WaitWell' /\ FileInv'
  BY <1>1 DEF IInv, WaitWell, FileInv
<1> QED
  BY <1>4, <1>5, <1>6 DEF IInv

\* The user fills the form and saves; the file is cut short, then written.
LEMMA FormStep ==
    ASSUME IInv, (\E form \in Typed : Type(form)) \/ Save \/ TruncateFile \/ WriteFile
    PROVE  IInv'
<1>1. /\ UNCHANGED <<lock, port, tls, proc, pin, torn, launches>>
      /\ dialog \in DialogState /\ file \in File
  BY DEF Type, Save, TruncateFile, WriteFile, IInv, TypeOK
<1>2. CertInv' /\ EnvironmentWins'
  <2>1. pin'.identity # Absent => tls[pin'.dir].key = pin'.identity
    BY <1>1 DEF IInv, CertInv
  <2> QED
    BY <1>1, <2>1, ProgramsKept
<1>3. ASSUME dialog' \in DialogState, dialog'.of = dialog.of, file' \in File, mixed' \in BOOLEAN,
             FileInv'
      PROVE  IInv'
  <2>1. TypeOK'
    BY <1>1, <1>3 DEF IInv, TypeOK
  <2>2. WaitWell'
    BY <1>1, <1>3 DEF IInv, WaitWell
  <2> QED
    BY <1>2, <1>3, <2>1, <2>2 DEF IInv
<1>4. ASSUME NEW form \in Typed, Type(form) PROVE IInv'
  <2>1. dialog' \in DialogState /\ dialog'.of = dialog.of /\ dialog'.at = "open"
    BY <1>1, <1>4 DEF Type, DialogState
  <2>2. file' \in File /\ mixed' \in BOOLEAN /\ FileInv'
    BY <1>1, <1>4, <2>1 DEF Type, IInv, TypeOK, FileInv
  <2> QED
    BY <1>3, <2>1, <2>2
<1>5. CASE Save
  <2>1. /\ dialog' \in DialogState /\ dialog'.of = dialog.of /\ dialog'.at = "truncate"
        /\ dialog'.form = dialog.form
    BY <1>1, <1>5 DEF Save, DialogState
  <2>2. file' \in File /\ mixed' \in BOOLEAN /\ FileInv'
    BY <1>1, <1>5, <2>1 DEF Save, IInv, TypeOK, FileInv
  <2> QED
    BY <1>3, <2>1, <2>2
<1>6. CASE TruncateFile
  <2>1. /\ dialog' \in DialogState /\ dialog'.of = dialog.of /\ dialog'.at = "write"
        /\ dialog'.form = dialog.form
    BY <1>1, <1>6 DEF TruncateFile, DialogState
  <2>2. file' \in File /\ file'.has = "part"
    BY <1>1, <1>6 DEF TruncateFile, File
  <2>3. mixed' = TemplateUnderWay /\ mixed' \in BOOLEAN
    BY <1>6 DEF TruncateFile, TemplateUnderWay
  <2>4. TemplateUnderWay' <=> TemplateUnderWay
    BY <1>1 DEF TemplateUnderWay
  <2>5. ValidForm(dialog.form)
    BY <1>6 DEF TruncateFile, IInv, FileInv
  <2>6. FileInv'
    BY <2>1, <2>2, <2>3, <2>4, <2>5 DEF FileInv
  <2> QED
    BY <1>3, <2>1, <2>2, <2>3, <2>6
<1>7. CASE WriteFile
  <2>1. /\ dialog' \in DialogState /\ dialog'.of = dialog.of /\ dialog'.at = "protect"
        /\ dialog'.form = dialog.form /\ mixed' = mixed /\ mixed \in BOOLEAN
    BY <1>1, <1>7 DEF WriteFile, DialogState, IInv, TypeOK
  <2>2. Written(dialog.form) \in Content
    BY <1>1, WrittenType DEF DialogState
  <2>3. file' \in File /\ file'.has = "content" /\ file'.is = Written(dialog.form)
    BY <1>1, <1>7, <2>2 DEF WriteFile, File
  <2>4. ValidForm(dialog.form) /\ (mixed \/ ~TemplateUnderWay)
    BY <1>7 DEF WriteFile, IInv, FileInv
  <2>5. TemplateUnderWay' <=> TemplateUnderWay
    BY <1>1 DEF TemplateUnderWay
  <2>6. FileInv'
    BY <2>1, <2>3, <2>4, <2>5 DEF FileInv
  <2> QED
    BY <1>3, <2>1, <2>3, <2>6
<1> QED
  BY <1>4, <1>5, <1>6, <1>7

\* The tray that waited loads the file again, and is no hub until then.
LEMMA DialogEndsStep ==
    ASSUME IInv, ProtectFile \/ CloseDialog
    PROVE  IInv'
<1>1. /\ UNCHANGED <<lock, tls, pin, torn, mixed, launches>> /\ DialogEnds
      /\ dialog \in DialogState /\ file' \in File
  BY DEF ProtectFile, CloseDialog, IInv, TypeOK, File
<1>2. Closed \in DialogState /\ dialog' = Closed /\ Closed.at = "closed" /\ Closed.of = 0
  <2>1. NoFile \in File
    BY DEF NoFile, File, Template, Content, NoHub, HubSection
  <2> QED
    BY <1>1, <2>1, FormType DEF Closed, DialogState, DialogEnds
<1>3. FileInv'
  BY <1>2 DEF FileInv
<1>4. CASE dialog.of = 0
  <2>1. UNCHANGED <<proc, port>>
    BY <1>1, <1>4 DEF DialogEnds
  <2>2. TypeOK'
    BY <1>1, <1>2, <2>1 DEF IInv, TypeOK
  <2>3. CertInv' /\ EnvironmentWins'
    <3>1. pin'.identity # Absent => tls[pin'.dir].key = pin'.identity
      BY <1>1 DEF IInv, CertInv
    <3> QED
      BY <1>1, <2>1, <3>1, ProgramsKept
  <2>4. WaitWell'
    BY <1>2 DEF WaitWell
  <2> QED
    BY <1>3, <2>2, <2>3, <2>4 DEF IInv
<1>5. CASE dialog.of # 0
  <2> DEFINE p == dialog.of
             new == [Off EXCEPT !.at = "load", !.own = proc[p].own]
  <2>1. p \in Procs /\ proc[p] \in Program
    BY <1>1, <1>5 DEF DialogState, IInv, TypeOK
  <2>2. proc[p].at \in {"running", "serving"}
    BY <1>5 DEF IInv, WaitWell
  <2>3. proc[p].own \in Identities /\ ~At(p, "wrkey")
    BY <2>1, <2>2 DEF IInv, CertInv, ProcWell, At
  <2>4. /\ proc' = [proc EXCEPT ![p] = new]
        /\ port' = port \/ (port = p /\ port' = 0)
    BY <1>1, <1>5 DEF DialogEnds
  <2>5. /\ new \in Program /\ new.at = "load" /\ new.own = proc[p].own
        /\ new.identity = Absent /\ new.cmd = "tray"
    BY <2>3, OffType DEF Program, Steps
  <2> HIDE DEF new
  <2>6. Moves(p, new) /\ new.at \notin HubSteps
    BY <2>4, <2>5 DEF Moves, HubSteps
  <2>7. lock' \in {0} \union Procs /\ launches' \in 0..MaxLaunches
    BY <1>1 DEF IInv, TypeOK
  <2>8. dialog'.of # p /\ dialog'.of \in {dialog.of, 0} /\ dialog' \in DialogState
    BY <1>2, <1>5
  <2> HIDE DEF p
  <2> QED
    BY <1>1, <1>3, <2>1, <2>3, <2>4, <2>5, <2>6, <2>7, <2>8, Leaves
<1> QED
  BY <1>4, <1>5

----------------------------------------------------------------------------
LEMMA IInvStep == IInv /\ [Next]_vars => IInv'
<1> SUFFICES ASSUME IInv, [Next]_vars PROVE IInv'
  OBVIOUS
<1>1. CASE UNCHANGED vars
  <2>1. TypeOK'
    BY <1>1 DEF IInv, TypeOK, vars
  <2>2. CertInv' /\ EnvironmentWins'
    <3>1. UNCHANGED <<proc, port, tls, torn>>
      BY <1>1 DEF vars
    <3>2. pin'.identity # Absent => tls[pin'.dir].key = pin'.identity
      BY <1>1 DEF IInv, CertInv, vars
    <3> QED
      BY <3>1, <3>2, ProgramsKept
  <2>3. WaitWell' /\ FileInv'
    BY <1>1 DEF IInv, WaitWell, FileInv, TemplateUnderWay, vars
  <2> QED
    BY <2>1, <2>2, <2>3 DEF IInv
<1>2. ASSUME NEW p \in Procs,
             \E cmd \in Commands : \E env \in EnvironmentsOf(cmd) : Launch(p, cmd, env)
      PROVE  IInv'
  BY <1>2, LaunchStep
<1>3. ASSUME NEW p \in Procs, ProgramStep(p) PROVE IInv'
  BY <1>3, LockStep, ReadStep, WriteTemplateStep, LoadStep, BindStep, EnsureStep, MakePairStep,
     PemStep DEF ProgramStep
<1>4. ASSUME NEW p \in Procs, OpenDialog(p) \/ Pin(p) \/ Dies(p) PROVE IInv'
  BY <1>4, OpenDialogStep, PinStep, DiesStep
<1>5. CASE DialogStep
  BY <1>5, FormStep, DialogEndsStep DEF DialogStep
<1> QED
  BY <1>1, <1>2, <1>3, <1>4, <1>5 DEF Next

LEMMA Invariance == Spec => []IInv
BY IInvInit, IInvStep, PTL DEF Spec

\* Every variable of the programs and their files keeps its type.
THEOREM TypeCorrect == Spec => []TypeOK
<1>1. IInv => TypeOK
  BY DEF IInv
<1> QED
  BY <1>1, Invariance, PTL

\* ensure_self_signed_cert: however many programs start, serve and are killed,
\* a hub finds a certificate with its own key, or a key was torn.
THEOREM PairLoads == Spec => []LoadsMatchingPair
<1>1. IInv => LoadsMatchingPair
  BY DEF IInv, CertInv, PairWell, PairOf, LoadsMatchingPair
<1> QED
  BY <1>1, Invariance, PTL

\* tls.rs: what a client has pinned is what every later hub of that state
\* directory shows.
THEOREM PinStays == Spec => []PinHolds
<1>1. IInv => PinHolds
  BY DEF IInv, CertInv, PairWell, PairOf, PinHolds
<1> QED
  BY <1>1, Invariance, PTL

\* from_env_layered: the environment wins over any file.
THEOREM EnvironmentPrevails == Spec => []EnvironmentWins
<1>1. IInv => EnvironmentWins
  BY DEF IInv
<1> QED
  BY <1>1, Invariance, PTL

\* settings.rs: what was saved is what is shown and loaded next.
THEOREM SavedShown == Spec => SavedIsShown
<1> DEFINE Shown ==
        (/\ ProtectFile
         /\ dialog.form.enabled \/ dialog.form.bind = "default"
         /\ ~mixed) => FormOf(file') = dialog.form
<1>1. ASSUME IInv, [Next]_vars PROVE [Shown]_vars
  <2>1. SUFFICES ASSUME ProtectFile, dialog.form.enabled \/ dialog.form.bind = "default", ~mixed
                 PROVE  FormOf(file') = dialog.form
    OBVIOUS
  <2>2. dialog.form \in Form /\ file \in File
    BY <1>1 DEF IInv, TypeOK, DialogState
  <2>3. ValidForm(dialog.form) /\ file.has = "content" /\ file.is = Written(dialog.form)
    BY <1>1, <2>1 DEF IInv, FileInv, ProtectFile
  <2>4. file'.has = "content" /\ file'.private /\ file'.is = Written(dialog.form)
    BY <2>1, <2>2, <2>3 DEF ProtectFile, File
  <2> QED
    BY <2>1, <2>2, <2>3, <2>4, WrittenShown
<1> QED
  BY <1>1, Invariance, PTL DEF Spec, SavedIsShown

=============================================================================
