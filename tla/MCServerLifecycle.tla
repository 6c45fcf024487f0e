------------------------- MODULE MCServerLifecycle -------------------------
(* Instances of ServerLifecycle for model checking: command lines with and *)
(* without a state file, for help, with an option missing, and that of     *)
(* README.md:51.                                                           *)
EXTENDS ServerLifecycle

Needed == {"config-file", "www-root"}
Readme == Needed \cup {"randomize-spawn-points", "tick-period", "save-state-period", "state-file"}
AnyCommandLine ==
    {{"help"}, {"config-file"}, Needed, Needed \cup {"state-file"}, Readme}
=============================================================================
