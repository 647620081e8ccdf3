---------------------------- MODULE MCManagement ----------------------------
(***************************************************************************)
(* The settings, whose file may be cut; a core with its jobs and probes;   *)
(* the list of the library and its removals; the covers; a setup, which is *)
(* a job of all three.                                                     *)
(***************************************************************************)
EXTENDS Management

MCScopes == {Game} \cup {{g} : g \in Game}

MCRigs ==
    { [does |-> {"settings"},           breaks |-> {0, 3}],
      [does |-> {"cores", "sessions"},  breaks |-> {-1}],
      [does |-> {"setups", "covers"},   breaks |-> {-1}],
      [does |-> {"list", "sessions"},   breaks |-> {}] }

=============================================================================
