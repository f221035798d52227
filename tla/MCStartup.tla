----------------------------- MODULE MCStartup -----------------------------
(* A small instance of Startup: no file at first, or one with a hub that    *)
(* speaks plain ws:// and says the largest frame, but not how many may      *)
(* connect; an environment that says nothing, a container's, one that takes *)
(* single fields of the file over (the user, not its password), and one     *)
(* that says everything.  The dialog may leave a hub that is off without a  *)
(* user.                                                                    *)
EXTENDS Startup

PlainHub == [Template EXCEPT !.client = "wss", !.section = TRUE,
                             !.hub = [NoHub EXCEPT !.enabled = TRUE, !.user = "toml",
                                                   !.password = "toml", !.frame = "toml",
                                                   !.plain = TRUE]]
MCFiles == {NoFile, [has |-> "content", private |-> TRUE, is |-> PlainHub]}

Unset == [bind |-> "unset", user |-> "unset", password |-> "unset", conns |-> "unset",
          frame |-> "unset", pair |-> "unset", plain |-> "unset", dir |-> "unset"]
Container == [Unset EXCEPT !.user = "set", !.password = "set"]
OneField == [Unset EXCEPT !.user = "set", !.plain = "off", !.conns = "set"]
Everything == [bind |-> "set", user |-> "set", password |-> "set", conns |-> "set",
               frame |-> "set", pair |-> "set", plain |-> "off", dir |-> "set"]
MCEnvironments == {Unset, Container, OneField, Everything}

WithHub == [client |-> "wss", pinned |-> FALSE, insecure |-> FALSE, enabled |-> TRUE,
            bind |-> "default", user |-> "toml", password |-> "toml", pair |-> "none"]
HubOff == [WithHub EXCEPT !.enabled = FALSE, !.user = "empty"]
MCTyped == {WithHub, HubOff}

=============================================================================
