--------------------------- MODULE MCSessionInput ---------------------------
(***************************************************************************)
(* More gamepads than players; two gamepads and a keyboard with one        *)
(* button each; a keyboard whose keys the core knows; one gamepad with     *)
(* every kind of shortcut.                                                 *)
(***************************************************************************)
EXTENDS SessionInput

MCRigs ==
    { [pads |-> Pad, buttons |-> {}, keys |-> {}, shortcuts |-> {}],
      [pads |-> {1, 2}, buttons |-> {"a"}, keys |-> {}, shortcuts |-> {}],
      [pads |-> {}, buttons |-> {"a"}, keys |-> Key, shortcuts |-> {}],
      [pads |-> {1}, buttons |-> {}, keys |-> {}, shortcuts |-> Hold \cup Press] }

=============================================================================
