------------------------------- MODULE Config -------------------------------
(***************************************************************************)
(* What the configuration file and the environment mean: how the client    *)
(* loads the file (client/config.rs), how the settings dialog shows and    *)
(* writes it (cli/settings.rs), and how a server is configured from the    *)
(* two (server/config.rs, cli/main.rs).                                    *)
(*                                                                         *)
(* A value is named by where it comes from: "toml" is what the file says,  *)
(* "env" what the environment says and "default" what the code says.       *)
(***************************************************************************)
EXTENDS Naturals

\* HubConfig.  A "blank" user is one of spaces.  conns and frame: max_conns and
\* max_frame_bytes.  pair: of certificate and key files.  plain: tls_disabled.
HubSection ==
    [enabled: BOOLEAN, bind: {"toml", "default", "junk"}, user: {"toml", "blank", "empty"},
     password: {"toml", "empty"}, conns: {"toml", "default", "zero"},
     frame: {"toml", "default", "zero"}, pair: {"none", "half", "toml"},
     plain: BOOLEAN, dir: {"none", "toml"}]

NoHub == [enabled |-> FALSE, bind |-> "default", user |-> "empty", password |-> "empty",
          conns |-> "default", frame |-> "default", pair |-> "none", plain |-> FALSE,
          dir |-> "none"]

\* ClientConfig.  client: its server, user, password and interval.  "blank" is
\* a user of spaces, "bad" what validate refuses, "ws" and "wss" are right and
\* name the scheme of the server.
Content ==
    [client: {"ws", "wss", "template", "blank", "bad"}, pinned: BOOLEAN, insecure: BOOLEAN,
     section: BOOLEAN, hub: HubSection]

\* The file: absent, with no more than a part of a text, or with a content.
File == [has: {"nothing", "part", "content"}, private: BOOLEAN, is: Content]

Template == [client |-> "template", pinned |-> FALSE, insecure |-> FALSE,
             section |-> FALSE, hub |-> NoHub]
NoFile == [has |-> "nothing", private |-> FALSE, is |-> Template]

----------------------------------------------------------------------------
(* ClientConfig::load: permissions, text and values *)

Validates(content) == content.client # "bad"

\* An address that does not parse fails the file, also of a hub that is disabled.
Parses(content) == content.section => content.hub.bind # "junk"

Loads(file) ==
    /\ file.has = "content"
    /\ file.private
    /\ Parses(file.is)
    /\ Validates(file.is)

----------------------------------------------------------------------------
(* The settings dialog *)

Form == [client: {"ws", "wss", "template", "blank", "bad"}, pinned: BOOLEAN, insecure: BOOLEAN,
         enabled: BOOLEAN, bind: {"toml", "default", "junk"}, user: {"toml", "blank", "empty"},
         password: {"toml", "empty"}, pair: {"none", "half", "toml"}]

\* load_or_default.  It has no field for limits, plain and dir.
FormOf(file) ==
    LET hub == IF Loads(file) /\ file.is.section THEN file.is.hub ELSE NoHub
    IN  [client |-> IF Loads(file) THEN file.is.client ELSE "bad",
         pinned |-> Loads(file) /\ file.is.pinned,
         insecure |-> Loads(file) /\ file.is.insecure,
         enabled |-> hub.enabled, bind |-> hub.bind, user |-> hub.user,
         password |-> hub.password, pair |-> hub.pair]

\* validate: the hub's fields matter only while it is enabled.
ValidForm(form) ==
    /\ form.client \notin {"blank", "bad"}
    /\ form.enabled => /\ form.bind # "junk"
                       /\ form.user \notin {"blank", "empty"}
                       /\ form.password # "empty"
                       /\ form.pair # "half"

\* Bug variant: the section of a hub that is off is left out.
WrittenIfEnabled(form) ==
    LET section == form.enabled
    IN  [client |-> form.client, pinned |-> form.pinned, insecure |-> form.insecure,
         section |-> section,
         hub |-> IF section
                 THEN [NoHub EXCEPT !.enabled = form.enabled, !.bind = form.bind,
                                    !.user = form.user, !.password = form.password,
                                    !.pair = form.pair]
                 ELSE NoHub]

\* write_toml: a [hub] section when any field of it is used.
Written(form) ==
    LET section == \/ form.enabled
                   \/ form.user # "empty" \/ form.password # "empty" \/ form.pair # "none"
    IN  [client |-> form.client, pinned |-> form.pinned, insecure |-> form.insecure,
         section |-> section,
         hub |-> IF section
                 THEN [NoHub EXCEPT !.enabled = form.enabled, !.bind = form.bind,
                                    !.user = form.user, !.password = form.password,
                                    !.pair = form.pair]
                 ELSE NoHub]

----------------------------------------------------------------------------
(* ServerConfig *)

ServerConfig ==
    [bind: {"env", "toml", "default"}, user: {"env", "toml", "blank", "empty"},
     password: {"env", "toml", "empty"}, conns: {"env", "toml", "default", "zero"},
     frame: {"env", "toml", "default", "zero"}, pair: {"none", "half", "env", "toml"},
     plain: BOOLEAN, dir: {"none", "env", "toml", "config"}]

\* A configuration that is refused, and one that is not there.
Refused == [error |-> "refused"]
NoServer == [error |-> "absent"]

\* The variables CLIPBOARDWIRE_*.  "bad" is a user or a password that is empty,
\* both sources of the password or one that cannot be read, a number that is
\* none or zero, and one half of the pair.
Environment ==
    [bind: {"unset", "set", "bad"}, user: {"unset", "set", "bad"},
     password: {"unset", "set", "bad"}, conns: {"unset", "set", "bad"},
     frame: {"unset", "set", "bad"}, pair: {"unset", "set", "bad"},
     plain: {"unset", "off", "on", "bad"}, dir: {"unset", "set"}]

ToServerConfig(hub) ==
    [bind |-> hub.bind, user |-> hub.user, password |-> hub.password, conns |-> hub.conns,
     frame |-> hub.frame, pair |-> hub.pair, plain |-> hub.plain, dir |-> hub.dir]

\* A base is what the file says, its folder the default for the state.
Base(file) ==
    IF Loads(file) /\ file.is.section
    THEN [ToServerConfig(file.is.hub) EXCEPT !.dir = IF @ = "none" THEN "config" ELSE @]
    ELSE NoServer

EnvBad(e) == "bad" \in {e.bind, e.user, e.password, e.conns, e.frame, e.pair, e.plain}

FromEnv(e) ==
    IF EnvBad(e) \/ "unset" \in {e.user, e.password} THEN Refused
    ELSE [bind |-> IF e.bind = "set" THEN "env" ELSE "default",
          user |-> "env", password |-> "env",
          conns |-> IF e.conns = "set" THEN "env" ELSE "default",
          frame |-> IF e.frame = "set" THEN "env" ELSE "default",
          pair |-> IF e.pair = "set" THEN "env" ELSE "none",
          plain |-> e.plain = "on",
          dir |-> IF e.dir = "set" THEN "env" ELSE "none"]

\* Bug variant: the user and the password are overridden together or not at all.
FromEnvTogether(base, e) ==
    LET login == e.user = "set" /\ e.password = "set"
    IN  IF base = NoServer THEN FromEnv(e)
        ELSE IF \/ EnvBad(e)
                \/ ~login /\ base.password = "empty"
                \/ e.conns = "unset" /\ base.conns = "zero"
                \/ e.frame = "unset" /\ base.frame = "zero"
             THEN Refused
        ELSE [bind |-> IF e.bind = "set" THEN "env" ELSE base.bind,
              user |-> IF login THEN "env" ELSE base.user,
              password |-> IF login THEN "env" ELSE base.password,
              conns |-> IF e.conns = "set" THEN "env" ELSE base.conns,
              frame |-> IF e.frame = "set" THEN "env" ELSE base.frame,
              pair |-> IF e.pair = "set" THEN "env" ELSE base.pair,
              plain |-> IF e.plain = "unset" THEN base.plain ELSE e.plain = "on",
              dir |-> IF e.dir = "set" THEN "env" ELSE base.dir]

\* The environment wins, field by field, and the file fills the gaps.  Of what
\* comes from the file the password and the two limits are checked again, the
\* user and the pair are not.
FromEnvLayered(base, e) ==
    IF base = NoServer THEN FromEnv(e)
    ELSE IF \/ EnvBad(e)
            \/ e.password = "unset" /\ base.password = "empty"
            \/ e.conns = "unset" /\ base.conns = "zero"
            \/ e.frame = "unset" /\ base.frame = "zero"
         THEN Refused
    ELSE [bind |-> IF e.bind = "set" THEN "env" ELSE base.bind,
          user |-> IF e.user = "set" THEN "env" ELSE base.user,
          password |-> IF e.password = "set" THEN "env" ELSE base.password,
          conns |-> IF e.conns = "set" THEN "env" ELSE base.conns,
          frame |-> IF e.frame = "set" THEN "env" ELSE base.frame,
          pair |-> IF e.pair = "set" THEN "env" ELSE base.pair,
          plain |-> IF e.plain = "unset" THEN base.plain ELSE e.plain = "on",
          dir |-> IF e.dir = "set" THEN "env" ELSE base.dir]

\* tls_enabled: both files.  serve() makes its own pair when there is none.
TlsEnabled(server) == server.pair \in {"env", "toml"}

=============================================================================
