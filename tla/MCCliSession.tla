---------------------------- MODULE MCCliSession ----------------------------
(* Instances of CliSession for TLC.  One launch of each kind: a bare start, *)
(* setup, each subcommand with and without --headless and root, guests with *)
(* options, with saved settings and with a saved route that does not parse. *)
EXTENDS CliSession

NoArgs  == [routes |-> None, target |-> None, noDns |-> FALSE]
AllArgs == [routes |-> "given", target |-> "addr", noDns |-> TRUE]
NoSaved == [routes |-> None, dns |-> None, serial |-> FALSE]
Some    == [routes |-> "saved", dns |-> TRUE, serial |-> TRUE]
Invalid == [NoSaved EXCEPT !.routes = "invalid"]
Plain   == [netm |-> None, sudo |-> FALSE, known |-> FALSE]
ByEnv   == [netm |-> "env", sudo |-> FALSE, known |-> FALSE]

Cli(command, headless, explicit, guest) ==
  [command |-> command, headless |-> headless, explicit |-> explicit, guest |-> guest]
Launch(c, e, r, m, s) == [cli |-> c, env |-> e, root |-> r, mode |-> m, saved |-> s]

McLaunches ==
  { Launch(Cli(None, FALSE, FALSE, NoArgs), Plain, FALSE, None, NoSaved),
    Launch(Cli(None, FALSE, FALSE, NoArgs), ByEnv, FALSE, "guest", Some),
    Launch(Cli("setup", FALSE, TRUE, NoArgs), Plain, TRUE, "guest", NoSaved),
    Launch(Cli("host", FALSE, FALSE, NoArgs), Plain, TRUE, None, Invalid),
    Launch(Cli("host", TRUE, FALSE, NoArgs), Plain, FALSE, None, NoSaved),
    Launch(Cli("guest", FALSE, FALSE, AllArgs), Plain, FALSE, "host", Some),
    Launch(Cli("guest", TRUE, FALSE, AllArgs), Plain, TRUE, None, NoSaved),
    Launch(Cli("guest", TRUE, FALSE, NoArgs), Plain, TRUE, None, Invalid) }
=============================================================================
