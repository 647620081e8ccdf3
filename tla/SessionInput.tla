---------------------------- MODULE SessionInput ----------------------------
(***************************************************************************)
(* The input of a session.  Each update of the UI thread clears the state  *)
(* that the core polls and fills it again from the keyboard and from the   *)
(* gamepads, each in the slot of its player; between any two entries a     *)
(* worker may run a frame that polls it.  The same update sends the key    *)
(* events to the core, some of the releases only after a frame, and turns  *)
(* what is held into shortcuts.                                            *)
(***************************************************************************)
EXTENDS Integers, FiniteSets

CONSTANTS
    Pad,        \* gamepads, by the id gilrs gives them
    Playable,   \* those with the controls of a gamepad
    MaxPlayers, \* slots
    Button,     \* actions that are bound to the core's joypad
    Key,        \* keys that the core knows
    Hold, Press, \* shortcuts that are held, and those that are pressed
    Rigs,       \* what a player has at hand: pads, buttons, keys and shortcuts
    Arrivals    \* bound: arrivals of gamepads

ASSUME InputAssumption ==
    /\ Pad \subseteq Nat /\ Playable \subseteq Pad
    /\ MaxPlayers \in Nat \ {0}
    /\ "return" \in Hold /\ Hold \cap Press = {}
    /\ \A rig \in Rigs : /\ rig.pads \subseteq Pad /\ rig.buttons \subseteq Button
                         /\ rig.keys \subseteq Key /\ rig.shortcuts \subseteq Hold \cup Press
    /\ Arrivals \in Nat

VARIABLES
    rig,        \* what the player has; it stays
    place,      \* where update() is
    worker, callback, passthrough, \* the session: who runs it, and where its keys go
    connected, order, slots, next, \* gamepads; connect_order, slot_assignments, next_connect_seq
    input, todo,     \* the shared state, and what this update still has to put into it
    stepped,         \* the worker has run a frame that was not drained yet
    keysDown, prev, since, pending, \* egui's keys; keys told down, pressed since a frame, releases owed
    shortcuts, latched, armed, block, \* held now; the latches; holds that run; the block
    known,      \* the keys that the core believes to be down
    lost,       \* history: held keys whose earlier release was sent after they were pressed again
    now, polls, \* history: what is held in this update; the last poll since it began
    fired, up   \* history: shortcuts fired in this update; those released since they last did

padVars  == <<connected, order, slots, next>>
keyVars  == <<prev, since, pending, known, lost>>
cutVars  == <<latched, armed, block, fired, up>>
sessionVars == <<worker, callback, passthrough>>
vars == <<rig, place, sessionVars, padVars, input, todo, stepped, keysDown, keyVars,
          shortcuts, cutVars, now, polls>>

Slots    == 0..(MaxPlayers - 1)
Shortcut == Hold \cup Press
Entries  == Slots \X (Button \cup Key)

\* What the player holds on one device.
Controls == rig.buttons \cup rig.shortcuts

-----------------------------------------------------------------------------
(* Gamepads.                                                                *)

Below(x, S) == Cardinality({y \in S : y < x})

Connect(p) ==
    /\ p \in rig.pads \ connected
    /\ next + Cardinality(connected \ DOMAIN order) < Arrivals
    /\ connected' = connected \cup {p}
    /\ UNCHANGED <<rig, place, sessionVars, order, slots, next, input, todo, stepped, keysDown,
                   keyVars, shortcuts, cutVars, now, polls>>

Disconnect(p) ==
    /\ p \in connected
    /\ connected' = connected \ {p}
    /\ UNCHANGED <<rig, place, sessionVars, order, slots, next, input, todo, stepped, keysDown,
                   keyVars, shortcuts, cutVars, now, polls>>

\* The order of arrival: those who are new come after all others, by their id.
Arrived ==
    LET new == connected \ DOMAIN order
    IN  [p \in connected |-> IF p \in new THEN next + Below(p, new) ELSE order[p]]

\* Mutant: a pad that is gone keeps its slot.
KeptForever == {p \in DOMAIN slots : p \in Playable}

\* A pad keeps its slot as long as it is there and can be played with.
Kept == {p \in DOMAIN slots : p \in connected /\ p \in Playable}

\* The slots that nobody keeps, and the pads that have none.
Free    == Slots \ {slots[p] : p \in Kept}
Waiting == (connected \cap Playable) \ Kept

\* Those who wait get the free slots, the first to arrive the lowest.
Turn(p) == Below(Arrived[p], {Arrived[q] : q \in Waiting})
Served  == {p \in Waiting : Turn(p) < Cardinality(Free)}

\* Mutant: who waits is served by the number of the pad.
AssignedById ==
    LET Rank(p) == Below(p, Waiting)
        served  == {p \in Waiting : Rank(p) < Cardinality(Free)}
    IN  [p \in Kept \cup served |->
            IF p \in Kept THEN slots[p] ELSE CHOOSE s \in Free : Below(s, Free) = Rank(p)]

Assigned == [p \in Kept \cup Served |->
                IF p \in Kept THEN slots[p] ELSE CHOOSE s \in Free : Below(s, Free) = Turn(p)]

\* reconcile_player_slot_assignments
Reconcile ==
    /\ order' = Arrived
    /\ next' = next + Cardinality(connected \ DOMAIN order)
    /\ slots' = Assigned
    /\ UNCHANGED connected

\* The menus look for gamepads as well.
PollInMenu ==
    /\ place = "menu"
    /\ Reconcile
    /\ UNCHANGED <<rig, place, sessionVars, input, todo, stepped, keysDown, keyVars,
                   shortcuts, cutVars, now, polls>>

-----------------------------------------------------------------------------
(* A session begins and ends.                                               *)

Init ==
    /\ rig \in Rigs
    /\ place = "menu" /\ worker = FALSE /\ callback = FALSE /\ passthrough = FALSE
    /\ connected = {} /\ order = <<>> /\ slots = <<>> /\ next = 0
    /\ input = {} /\ todo = {} /\ stepped = FALSE
    /\ keysDown = {} /\ prev = {} /\ since = {} /\ pending = {} /\ known = {} /\ lost = {}
    /\ shortcuts = {} /\ latched = {} /\ armed = {} /\ block = FALSE
    /\ now = {} /\ polls = {} /\ fired = {} /\ up = {}

\* begin_session: what is held now is no shortcut until it was let go.  A core registers
\* its keyboard callback while it is loaded: one that did so later is not modelled.
Begin(w, c, p) ==
    /\ place = "menu"
    /\ p => c
    /\ place' = "between" /\ worker' = w /\ callback' = c /\ passthrough' = p
    /\ latched' = {} /\ armed' = {} /\ block' = TRUE /\ up' = {}
    /\ UNCHANGED <<rig, padVars, input, todo, stepped, keysDown, keyVars, shortcuts, fired,
                   now, polls>>

\* stop_play_session and unload: the latches, the keys and the state are cleared.
Stopped ==
    /\ place' = "menu"
    /\ prev' = {} /\ since' = {} /\ pending' = {} /\ known' = {} /\ lost' = {}
    /\ latched' = {} /\ armed' = {} /\ block' = FALSE
    /\ input' = {} /\ now' = {} /\ polls' = {} /\ stepped' = FALSE

\* The player types in the menus.
TypeInMenu ==
    /\ place = "menu"
    /\ \E keys \in SUBSET rig.keys : keysDown' = keys
    /\ UNCHANGED <<rig, place, sessionVars, padVars, input, todo, stepped, keyVars,
                   shortcuts, cutVars, now, polls>>

-----------------------------------------------------------------------------
(* apply_keyboard_and_gamepad_input, in its order.                          *)

Held(port, controls) == {port} \X (controls \cap Button)

\* Mutant: the state of the last update stays.
ClearNot(controls) ==
    /\ place = "between"
    /\ passthrough => controls = {}
    /\ place' = "keyboard"
    /\ todo' = Held(0, controls) /\ shortcuts' = controls \cap Shortcut
    /\ now' = Held(0, controls) /\ polls' = {} /\ fired' = {}
    /\ UNCHANGED <<rig, sessionVars, padVars, input, stepped, keysDown, keyVars, latched, armed,
                   block, up>>

\* The state is cleared and the keyboard read as a gamepad, unless its keys are
\* passed through.
Clear(controls) ==
    /\ place = "between"
    /\ passthrough => controls = {}
    /\ place' = "keyboard"
    /\ input' = {}
    /\ todo' = Held(0, controls) /\ shortcuts' = controls \cap Shortcut
    /\ now' = Held(0, controls) /\ polls' = {} /\ fired' = {}
    /\ UNCHANGED <<rig, sessionVars, padVars, stepped, keysDown, keyVars, latched, armed, block, up>>

\* set_input_state: one entry under the lock, port by port.
SetInput(entry) ==
    /\ entry \in todo /\ \A other \in todo : entry[1] <= other[1]
    /\ todo' = todo \ {entry} /\ input' = input \cup {entry}
    /\ UNCHANGED <<rig, place, sessionVars, padVars, stepped, keysDown, keyVars, shortcuts,
                   cutVars, now, polls>>

\* An event of egui: a press, also of a key that is held and repeats.
KeyPressed(k) ==
    /\ place = "keyboard" /\ todo = {}
    /\ k \in rig.keys
    /\ keysDown' = keysDown \cup {k}
    /\ IF callback
       THEN /\ prev' = prev \cup {k} /\ since' = since \cup {k} /\ known' = known \cup {k}
            /\ lost' = lost \ {k}
       ELSE UNCHANGED <<prev, since, known, lost>>
    /\ UNCHANGED <<rig, place, sessionVars, padVars, input, todo, stepped, pending, shortcuts,
                   cutVars, now, polls>>

\* A release: it waits for a frame if the key was pressed since the last one.
KeyReleased(k) ==
    /\ place = "keyboard" /\ todo = {}
    /\ k \in rig.keys
    /\ keysDown' = keysDown \ {k}
    /\ IF callback
       THEN LET waits == passthrough /\ k \in since
            IN  /\ prev' = prev \ {k} /\ lost' = lost \ {k}
                /\ pending' = IF waits THEN pending \cup {k} ELSE pending
                /\ known' = IF waits THEN known ELSE known \ {k}
       ELSE UNCHANGED <<prev, pending, known, lost>>
    /\ UNCHANGED <<rig, place, sessionVars, padVars, input, todo, stepped, since, shortcuts,
                   cutVars, now, polls>>

\* The window loses the focus: egui forgets the keys and sends no release.
FocusLost ==
    /\ place = "keyboard" /\ todo = {}
    /\ keysDown' = {}
    /\ UNCHANGED <<rig, place, sessionVars, padVars, input, todo, stepped, keyVars, shortcuts,
                   cutVars, now, polls>>

\* Mutant: a press that was missed is noted and not sent.
KeysSyncedSilent(escape) ==
    /\ place = "keyboard" /\ todo = {}
    /\ escape => "return" \in rig.shortcuts
    /\ place' = "keys"
    /\ prev' = IF ~callback THEN {}
               ELSE IF passthrough THEN prev \cup keysDown ELSE keysDown
    /\ since' = IF callback THEN since ELSE {}
    /\ pending' = IF callback THEN pending ELSE {}
    /\ lost' = lost \cap prev'
    /\ known' = IF ~callback \/ passthrough THEN known
                ELSE known \ (prev \ keysDown)
    /\ todo' = IF passthrough THEN {0} \X keysDown ELSE {}
    /\ now' = now \cup todo'
    /\ shortcuts' = IF escape THEN shortcuts \cup {"return"} ELSE shortcuts
    /\ UNCHANGED <<rig, sessionVars, padVars, input, stepped, keysDown, cutVars, polls>>

\* sync_retro_keyboard_state after the events: presses that were missed are
\* made up for, releases only where keys are not passed through; keys that are
\* passed through are polled too.  Escape is the return shortcut.
KeysSynced(escape) ==
    /\ place = "keyboard" /\ todo = {}
    /\ escape => "return" \in rig.shortcuts
    /\ place' = "keys"
    /\ prev' = IF ~callback THEN {}
               ELSE IF passthrough THEN prev \cup keysDown ELSE keysDown
    /\ since' = IF callback THEN since ELSE {}
    /\ pending' = IF callback THEN pending ELSE {}
    /\ lost' = lost \cap prev'
    /\ known' = IF ~callback THEN known
                ELSE (known \cup (keysDown \ prev)) \ (prev \ prev')
    /\ todo' = IF passthrough THEN {0} \X keysDown ELSE {}
    /\ now' = now \cup todo'
    /\ shortcuts' = IF escape THEN shortcuts \cup {"return"} ELSE shortcuts
    /\ UNCHANGED <<rig, sessionVars, padVars, input, stepped, keysDown, cutVars, polls>>

\* capture_gamepad_state: the slots, and what is held on the pad in each.
CaptureGamepads ==
    /\ place = "keys" /\ todo = {}
    /\ place' = "gamepads"
    /\ Reconcile
    /\ \E held \in [DOMAIN slots' -> SUBSET Controls] :
          /\ todo' = UNION {Held(slots'[p], held[p]) : p \in DOMAIN slots'}
          /\ shortcuts' = shortcuts \cup ((UNION {held[p] : p \in DOMAIN slots'}) \cap Shortcut)
    /\ now' = now \cup todo'
    /\ UNCHANGED <<rig, sessionVars, input, stepped, keysDown, keyVars, cutVars, polls>>

-----------------------------------------------------------------------------
(* apply_frontend_shortcuts, with the holds whose time has come.            *)

Fires(expired) == (shortcuts \cap latched \cap armed \cap expired)
                  \cup ((shortcuts \cap Press) \ latched)

Blocked ==
    /\ place = "gamepads" /\ todo = {}
    /\ block /\ shortcuts # {}
    /\ place' = "pump"
    /\ up' = up \cup (Shortcut \ shortcuts)
    /\ UNCHANGED <<rig, sessionVars, padVars, input, todo, stepped, keysDown, keyVars, shortcuts,
                   latched, armed, block, fired, now, polls>>

\* Exit was held long enough: the session ends, and nothing else is looked at.
ReturnTriggered(expired) ==
    /\ place = "gamepads" /\ todo = {}
    /\ ~(block /\ shortcuts # {})
    /\ "return" \in Fires(expired)
    /\ Stopped
    /\ fired' = {"return"}
    /\ UNCHANGED <<rig, sessionVars, padVars, todo, keysDown, shortcuts, up>>

\* Mutant: a hold that has triggered goes on.
ApplyShortcutsAgain(expired) ==
    /\ place = "gamepads" /\ todo = {}
    /\ ~(block /\ shortcuts # {})
    /\ "return" \notin Fires(expired)
    /\ place' = "pump"
    /\ block' = FALSE
    /\ fired' = Fires(expired)
    /\ latched' = shortcuts
    /\ armed' = (shortcuts \cap Hold) \ (latched \ armed)
    /\ up' = (up \cup (Shortcut \ shortcuts)) \ fired'
    /\ UNCHANGED <<rig, sessionVars, padVars, input, todo, stepped, keysDown, keyVars, shortcuts,
                   now, polls>>

\* A hold fires once, and a press when it begins.
ApplyShortcuts(expired) ==
    /\ place = "gamepads" /\ todo = {}
    /\ ~(block /\ shortcuts # {})
    /\ "return" \notin Fires(expired)
    /\ place' = "pump"
    /\ block' = FALSE
    /\ fired' = Fires(expired)
    /\ latched' = shortcuts
    /\ armed' = ((shortcuts \cap Hold) \ (latched \ armed)) \ fired'
    /\ up' = (up \cup (Shortcut \ shortcuts)) \ fired'
    /\ UNCHANGED <<rig, sessionVars, padVars, input, todo, stepped, keysDown, keyVars, shortcuts,
                   now, polls>>

-----------------------------------------------------------------------------
(* Frames.                                                                  *)

\* A frame on the worker polls the state as it finds it.
WorkerFrame ==
    /\ place # "menu" /\ worker
    /\ polls' = {input} /\ stepped' = TRUE
    /\ UNCHANGED <<rig, place, sessionVars, padVars, input, todo, keysDown, keyVars, shortcuts,
                   cutVars, now>>

\* mark_retro_keyboard_frame_advanced and flush_deferred_retro_keyboard_releases
FlushReleases ==
    /\ since' = {} /\ pending' = {}
    /\ known' = IF callback THEN known \ pending ELSE known
    /\ lost' = lost \cup (prev \cap pending)
    /\ UNCHANGED prev

\* The frames that this thread has run, or that the worker has reported.
Pump ==
    /\ place = "pump"
    /\ place' = "between" /\ stepped' = FALSE
    /\ \E advanced \in IF worker THEN {stepped} ELSE BOOLEAN :
          /\ IF advanced THEN FlushReleases ELSE UNCHANGED keyVars
          /\ polls' = IF advanced /\ ~worker THEN {input} ELSE polls
    /\ UNCHANGED <<rig, sessionVars, padVars, input, todo, keysDown, shortcuts, cutVars, now>>

\* A frame fails, and the session ends.
PumpFails ==
    /\ place = "pump"
    /\ Stopped
    /\ UNCHANGED <<rig, sessionVars, padVars, todo, keysDown, shortcuts, fired, up>>

-----------------------------------------------------------------------------

Next ==
    \/ \E p \in Pad : Connect(p) \/ Disconnect(p)
    \/ PollInMenu \/ TypeInMenu
    \/ \E w, c, p \in BOOLEAN : Begin(w, c, p)
    \/ \E controls \in SUBSET Controls : Clear(controls)
    \/ \E entry \in todo : SetInput(entry)
    \/ \E k \in Key : KeyPressed(k) \/ KeyReleased(k)
    \/ FocusLost
    \/ \E escape \in BOOLEAN : KeysSynced(escape)
    \/ CaptureGamepads
    \/ Blocked
    \/ \E expired \in SUBSET Hold : ReturnTriggered(expired) \/ ApplyShortcuts(expired)
    \/ WorkerFrame \/ Pump \/ PumpFails

Spec == Init /\ [][Next]_vars

-----------------------------------------------------------------------------
(* Properties.                                                              *)

TypeOK ==
    /\ rig \in Rigs
    /\ place \in {"menu", "between", "keyboard", "keys", "gamepads", "pump"}
    /\ {worker, callback, passthrough, stepped, block} \subseteq BOOLEAN
    /\ connected \subseteq Pad
    /\ DOMAIN order \subseteq Pad /\ \A p \in DOMAIN order : order[p] \in 0..(next - 1)
    /\ next \in 0..Arrivals
    /\ DOMAIN slots \subseteq DOMAIN order \cap Playable
    /\ \A p \in DOMAIN slots : slots[p] \in Slots
    /\ input \subseteq Entries /\ todo \subseteq Entries
    /\ now \subseteq Entries /\ polls \subseteq SUBSET Entries
    /\ keysDown \subseteq Key /\ prev \subseteq Key /\ since \subseteq Key
    /\ pending \subseteq Key /\ known \subseteq Key /\ lost \subseteq Key
    /\ shortcuts \subseteq Shortcut /\ latched \subseteq Shortcut
    /\ armed \subseteq Hold /\ fired \subseteq Shortcut /\ up \subseteq Shortcut

\* What a frame polls on the worker may lack what is held, while the state is
\* filled again, and never has what is not, in a slot that is not its player's;
\* a frame on this thread polls exactly what is held.
PolledWasHeld ==
    \A poll \in polls : /\ poll \subseteq now
                        /\ ~worker => poll = now

\* The core and the frontend disagree on a key only where its release is owed
\* until the next frame, or was sent after it had been pressed again.
KeysAgree ==
    /\ known = (prev \ lost) \cup pending
    /\ place \in {"keys", "gamepads", "pump"} /\ callback =>
          /\ keysDown \subseteq prev
          /\ ~passthrough => keysDown = prev

\* No two pads share a slot; who waits came after everyone who plays, and waits
\* only while all slots are taken.
FirstComeFirstServed ==
    /\ \A p, q \in DOMAIN slots : slots[p] = slots[q] => p = q
    /\ \A p \in (DOMAIN order \cap Playable) \ DOMAIN slots :
          /\ Cardinality(DOMAIN slots) = MaxPlayers
          /\ \A q \in DOMAIN slots : order[q] < order[p]

\* A shortcut fires only if it was released, in this session, since the last
\* time it did: neither what is held when a game starts nor a hold that goes on
\* does anything.
FiresOncePerPress == [][\A s \in fired' \ fired : s \in up]_vars

-----------------------------------------------------------------------------
(* The inductive invariant.                                                 *)

InputHeld ==
    /\ now = input \cup todo
    /\ place \in {"menu", "between", "pump"} => todo = {}
    /\ place = "menu" => input = {}
    /\ place = "menu" \/ (~worker /\ place # "between") => polls = {}

KeysOfSession ==
    /\ place = "menu" \/ ~callback =>
          prev = {} /\ since = {} /\ pending = {} /\ known = {} /\ lost = {}
    /\ pending \subseteq since /\ lost \subseteq prev
    /\ IF passthrough THEN since \subseteq known ELSE pending = {}

\* Where no block is, what is not latched has been released.
LatchesKnowPresses ==
    place # "menu" => /\ armed \subseteq up
                      /\ ~block => Shortcut \ latched \subseteq up

\* Those who are there are ordered by their arrival, and no more slots are given
\* than there are.
PadsInOrder ==
    /\ IsFiniteSet(connected) /\ connected \subseteq Pad
    /\ next \in Nat /\ next + Cardinality(connected \ DOMAIN order) <= Arrivals
    /\ DOMAIN order \subseteq Pad /\ \A p \in DOMAIN order : order[p] \in 0..(next - 1)
    /\ \A p, q \in DOMAIN order : order[p] = order[q] => p = q
    /\ DOMAIN slots \subseteq DOMAIN order \cap Playable
    /\ \A p \in DOMAIN slots : slots[p] \in Slots
    /\ FirstComeFirstServed

IInv == InputHeld /\ PolledWasHeld /\ KeysOfSession /\ KeysAgree /\ LatchesKnowPresses

=============================================================================
