------------------------------- MODULE MCTray -------------------------------
(* A small instance of Tray: a configuration that starts a hub with the      *)
(* program, and one that only can, on the same port.                         *)
EXTENDS Tray

WithHub == [server |-> "a", hub |-> "enabled", port |-> 1]
WithoutHub == [server |-> "b", hub |-> "disabled", port |-> 1]
MCConfigs == {WithHub, WithoutHub}

=============================================================================
