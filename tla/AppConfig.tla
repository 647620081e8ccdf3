------------------------------ MODULE AppConfig ------------------------------
(***************************************************************************)
(* The settings of the program: one structure in memory behind a lock, and *)
(* one file that every change writes anew.  A change holds the lock until  *)
(* the file is written, so changes of two threads never overlap; the file  *)
(* is written in place, so a write that fails leaves as much of it as was  *)
(* written.  One core is modelled: of each file its version is known, and  *)
(* how much of it is there.                                                *)
(***************************************************************************)
EXTENDS Integers, Sequences

CONSTANTS
    Choice,   \* values of the settings that a person chooses
    Standard, \* the value that a fresh configuration has
    Rigs      \* what a person does, and where writes of the settings may break off

Deeds == {"settings", "cores", "sessions", "setups", "list", "covers"}

ASSUME ConfigAssumption ==
    /\ Standard \in Choice
    /\ \A rig \in Rigs : rig.does \subseteq Deeds /\ rig.breaks \subseteq -1..5

VARIABLES
    rig,      \* what happens in this behaviour; it stays
    app,     \* the process: off, starting, or on
    memory,  \* AppServices.config
    file,    \* the configuration file: how much of it there is, and of which settings
    said,    \* history: of each group, the last change that was reported as saved
    doubt    \* history: groups whose last change was reported as failed, or that a cut file lost

configVars == <<rig, app, memory, file, said, doubt>>

\* The groups, as they follow each other in the file.
Order == <<"paths", "modes", "cores", "profiles", "covers", "welcome">>
Group == {Order[i] : i \in 1..6}

\* What file metadata tell of a core: its modification time and its length.
NoCore    == [version |-> 0, size |-> "none"]
NoProfile == [version |-> 0, label |-> NoCore]

Fresh ==
    [g \in Group |-> CASE g = "profiles" -> NoProfile
                       [] g = "welcome"  -> FALSE
                       [] OTHER          -> Standard]

Whole(c)   == [kept |-> 6, settings |-> c]
Missing    == [kept |-> -1, settings |-> Fresh]
Held(f)    == {Order[i] : i \in 1..f.kept}

\* What a start reads: groups that are not in the file have their defaults.
Read(f) == [g \in Group |-> IF g \in Held(f) THEN f.settings[g] ELSE Fresh[g]]

-----------------------------------------------------------------------------
ConfigInit ==
    /\ rig \in Rigs
    /\ app = "off"
    /\ memory = Fresh /\ file = Missing
    /\ said = Fresh /\ doubt = {}

\* save_to_path: it writes the whole file, or breaks off before or within the write.
Saves(c) == file' = Whole(c)
Fails(c) == \E n \in rig.breaks : file' = IF n = -1 THEN file ELSE [kept |-> n, settings |-> c]

Told(c, G)  == /\ said' = [g \in Group |-> IF g \in G THEN c[g] ELSE said[g]]
               /\ doubt' = doubt \ G
Refused(G)  == doubt' = doubt \cup G /\ UNCHANGED said

\* A setter: memory first, then the file, and all of it under the lock.
Saved(c, G)   == memory' = c /\ Saves(c) /\ Told(c, G)
Unsaved(c, G) == memory' = c /\ Fails(c) /\ Refused(G)
Change(c, G)  == (Saved(c, G) \/ Unsaved(c, G)) /\ UNCHANGED <<rig, app>>

\* update_n64_primary_stick and its like
SetMode(v)  == Change([memory EXCEPT !["modes"] = v], {"modes"})

\* update_cover_scrape_settings starts from a fresh ManagementConfig.
SetCovers(v) ==
    Change([memory EXCEPT !["covers"] = v, !["welcome"] = Fresh["welcome"]], {"covers"})

Welcomed       == [memory EXCEPT !["welcome"] = TRUE]
WithProfile(p) == [memory EXCEPT !["profiles"] = p]

\* update_app_config_settings: a copy is saved; of it the program takes the cores' settings,
\* and the paths at its next start.
AppCopy(p, v) == [memory EXCEPT !["paths"] = p, !["cores"] = v]

\* Mutant: the program goes on with the cores' settings it had.
SavedAppOnly(p, v) ==
    /\ Saves(AppCopy(p, v)) /\ Told(AppCopy(p, v), {"paths", "cores"})
    /\ UNCHANGED <<rig, app, memory>>

SavedApp(p, v) ==
    /\ Saves(AppCopy(p, v)) /\ Told(AppCopy(p, v), {"paths", "cores"})
    /\ memory' = [memory EXCEPT !["cores"] = v]
    /\ UNCHANGED <<rig, app>>

UnsavedApp(p, v) ==
    /\ Fails(AppCopy(p, v)) /\ Refused({"paths", "cores"})
    /\ UNCHANGED <<rig, app, memory>>

-----------------------------------------------------------------------------
\* load_or_create: a file that is there is read, and what was cut off is lost.
StartFromFile ==
    /\ app = "off" /\ file.kept > 0
    /\ app' = "starting" /\ memory' = Read(file)
    /\ doubt' = doubt \cup (Group \ Held(file))
    /\ UNCHANGED <<rig, file, said>>

\* A first start writes the defaults.
FirstStart ==
    /\ app = "off" /\ file = Missing
    /\ memory' = Fresh /\ said' = Fresh /\ doubt' = {}
    /\ \/ Saves(Fresh) /\ app' = "starting"
       \/ Fails(Fresh) /\ UNCHANGED app
    /\ UNCHANGED rig

\* A file that cannot be read keeps the program from starting until it is deleted.
DiscardFile ==
    /\ app = "off" /\ file.kept = 0
    /\ file' = Missing
    /\ UNCHANGED <<rig, app, memory, said, doubt>>

\* The window is made; the first of all shows the setup and notes that it did.
WindowOpens ==
    /\ app = "starting" /\ app' = "on" /\ UNCHANGED rig
    /\ IF memory["welcome"] THEN UNCHANGED <<memory, file, said, doubt>>
       ELSE Saved(Welcomed, {"welcome"}) \/ Unsaved(Welcomed, {"welcome"})

\* The program is quit or killed.
Ends ==
    /\ app # "off" /\ app' = "off"
    /\ memory' = Fresh
    /\ UNCHANGED <<rig, file, said, doubt>>

=============================================================================
