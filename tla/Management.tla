----------------------------- MODULE Management -----------------------------
(***************************************************************************)
(* The settings, the core and the library together: what a person does in  *)
(* the menus, the thread of a job beside it, files moved by hand, and the  *)
(* end of the process at any moment.                                       *)
(***************************************************************************)
EXTENDS CoreFiles, GameLibrary

vars == <<configVars, jobVars, coreVars, libraryVars>>

Init == ConfigInit /\ JobsInit /\ CoreInit /\ LibraryInit

-----------------------------------------------------------------------------
(* The process.  With it goes all that is not in a file.                    *)

Starts ==
    /\ StartFromFile \/ FirstStart \/ DiscardFile
    /\ UNCHANGED <<jobVars, coreVars, libraryVars>>

Opens ==
    /\ WindowOpens
    /\ rows' \in {rows, Listed(Game)}
    /\ UNCHANGED <<jobVars, coreVars, there, library, next, image, scope, selected, armed, asked>>

Stops ==
    /\ Ends /\ JobsEnd /\ ProbesEnd
    /\ scope' = Game /\ rows' = {} /\ selected' = {} /\ armed' = FALSE /\ asked' = {}
    /\ UNCHANGED <<core, latest, there, library, next, image>>

Process == Starts \/ Opens \/ Stops

-----------------------------------------------------------------------------
(* What a person does, by hand or in the menus.                             *)

Settings ==
    /\ "settings" \in rig.does /\ UiFree
    /\ \E v \in Choice :
          \/ (SetMode(v) \/ SetCovers(v)) /\ UNCHANGED viewVars
          \/ \E p \in Choice :
                \/ UnsavedApp(p, v) /\ UNCHANGED viewVars
                \/ /\ SavedApp(p, v)
                   /\ IF p = memory["paths"] THEN MayShow(scope) /\ UNCHANGED scope
                      ELSE UNCHANGED viewVars
    /\ UNCHANGED <<jobVars, coreVars, there, library, next, image>>

\* As every job does, these disarm.
Installing(kind, games) ==
    /\ BeginInstall(kind, games) /\ Disarms
    /\ UNCHANGED <<there, library, next, image, scope, rows, selected>>

Cores ==
    /\ "cores" \in rig.does
    /\ \/ (ByHand \/ Discover) /\ UNCHANGED libraryVars
       \/ \E kind \in {"catalog", "dependency"} : Installing(kind, {})

\* start_safe_runtime_setup_job, for a system or for all
Setup ==
    /\ "setups" \in rig.does
    /\ \E s \in Scopes : Installing("setup", s)

Sessions ==
    /\ "sessions" \in rig.does
    /\ Launch \/ StopPlaying
    /\ UNCHANGED libraryVars

List ==
    /\ "list" \in rig.does
    /\ \/ \E g \in Game : MoveGame(g)
       \/ UiFree /\ (Refresh \/ AskRemove \/ CloseView \/ BeginRemove \/ BeginScan)
       \/ UiFree /\ \E s \in Scopes : ChooseScope(s)
       \/ UiFree /\ \E r \in rows : Toggle(r)
    /\ UNCHANGED coreVars

Covers ==
    /\ "covers" \in rig.does
    /\ \/ \E g \in Game : MoveCover(g)
       \/ UiFree /\ BeginScan
       \/ UiFree /\ \E s \in Scopes : BeginCovers("relink", s) \/ BeginCovers("scrape", s)
    /\ UNCHANGED coreVars

Person == Settings \/ Cores \/ Setup \/ Sessions \/ List \/ Covers

-----------------------------------------------------------------------------
(* What goes on by itself.                                                  *)

\* The UI thread within a probe; it does nothing else meanwhile.
UiProbes == (ListCores \/ RunProbe("ui") \/ KeepProfile("ui")) /\ UNCHANGED libraryVars

Polls == UiFree /\ Poll /\ UNCHANGED coreVars

Installs ==
    /\ \/ Prepare \/ Download \/ Create \/ Copy \/ Verify
       \/ ProbeInstalled \/ RunProbe("job") \/ KeepProfile("job") \/ Probed
    /\ UNCHANGED libraryVars

Sees ==
    /\ \/ Remove \/ ListGames \/ ListDone \/ NameCover
       \/ \E g \in Game : ScanGame(g) \/ RelinkGame(g) \/ PassGame(g) \/ WriteCover(g)
    /\ UNCHANGED coreVars

\* The thread of a job.
Works == Installs \/ Sees

Next == Process \/ Person \/ UiProbes \/ Polls \/ Works

\* The thread of a job goes on as long as the process does; so does the UI thread, which
\* looks for the end of a job in every update outside of a session.
Fairness == WF_vars(Works) /\ WF_vars(UiProbes) /\ SF_vars(Polls)

Spec == Init /\ [][Next]_vars /\ Fairness

-----------------------------------------------------------------------------
Files    == [version : 1..Versions, size : {"empty", "part", "whole"}] \cup {NoCore}
Profiles == [version : 0..Versions, label : Files]
Probes   == [at : {"idle", "listing", "labelled", "ran"},
             known : Profiles, label : Files, found : 0..Versions]
Jobs     == [kind : {"none", "catalog", "dependency", "setup", "scan", "relink", "scrape", "remove"},
             at : {"none", "prepare", "download", "create", "copy", "verify", "probe", "probing",
                   "remove", "list", "each", "name", "done", "failed"},
             games : Scopes \cup {{}}, todo : SUBSET Game, now : SUBSET Game,
             images : SUBSET Game, ids : SUBSET (1..Rows)]

Settled(c) ==
    /\ c = [g \in Group |-> c[g]]
    /\ c["welcome"] \in BOOLEAN /\ c["profiles"] \in Profiles
    /\ \A g \in Group \ {"welcome", "profiles"} : c[g] \in Choice

ConfigTypes ==
    /\ rig \in Rigs /\ app \in {"off", "starting", "on"}
    /\ Settled(memory) /\ Settled(said) /\ doubt \subseteq Group
    /\ file = [kept |-> file.kept, settings |-> file.settings]
    /\ file.kept \in -1..6 /\ Settled(file.settings)

JobTypes == playing \in BOOLEAN /\ running \in BOOLEAN /\ job \in Jobs

CoreTypes == latest \in 0..Versions /\ core \in Files /\ probe \in [Thread -> Probes]

LibraryTypes ==
    /\ there \subseteq Game /\ next \in 1..Rows + 1
    /\ library \in [Game -> [id : 0..Rows, cover : BOOLEAN]]
    /\ image \in [Game -> {"none", "own", "fetched", "cut"}]
    /\ scope \in Scopes /\ armed \in BOOLEAN
    /\ rows \subseteq 1..Rows /\ selected \subseteq 1..Rows /\ asked \subseteq 1..Rows

\* The values that the variables have.
TypeOK == ConfigTypes /\ JobTypes /\ CoreTypes /\ LibraryTypes

\* What was reported as saved is what the program uses, and what of it is in the file, unless
\* a later change was reported as failed or a cut file lost it.  Two groups are not kept:
\* saved paths (see PathsKept), and the welcome, which the covers reset.
SettingsKept ==
    \A g \in Group \ (doubt \cup {"paths", "welcome"}) :
        /\ app # "off" => memory[g] = said[g]
        /\ g \in Held(file) => file.settings[g] = said[g]

\* "Restart the app to apply path changes": paths that were saved are what a start reads.
PathsKept ==
    "paths" \in Held(file) \ doubt => file.settings["paths"] = said["paths"]

\* A profile that counts as that of the core's file was found in that very file, though the
\* file was replaced, or cut, while a probe was at work.
ProfileOfItsFile ==
    LET p == memory["profiles"]
    IN  Matches(p, core) => p.version = core.version

\* What a second press removes is what the list showed as selected at the first, whatever
\* was toggled, listed anew or finished in between.
RemovesWhatWasAsked ==
    /\ armed => selected = asked
    /\ job.kind = "remove" /\ ~Ended => job.ids = asked

\* A job keeps the covers that are there, and names none that is not.
CoversKept ==
    [][job # NoJob =>
        \A g \in Game :
            /\ Covered(g) => /\ image'[g] = image[g]
                             /\ library'[g].id = library[g].id => library'[g].cover
            /\ library'[g].cover /\ ~library[g].cover => image'[g] # "none"]_vars

\* A job that was begun is over some time, whatever fails in it: nothing else of the manage
\* view can be begun before.  Whoever plays for ever never sees the end.
JobEnds == []<>~playing => (running ~> ~running)

-----------------------------------------------------------------------------
(* What makes these hold.                                                   *)

\* Nothing is at work but in a program that is on; the flag is that of the job.
AtWork ==
    /\ running <=> job # NoJob
    /\ app # "on" => job = NoJob /\ ~playing /\ \A t \in Thread : probe[t] = Idle

\* A label that is not of the version that was probed is of a file that was there before.
Sound(p) == p.label # NoCore => p.label.version = p.version \/ p.label.version < latest

ProfilesSound == Sound(memory["profiles"]) /\ Sound(file.settings["profiles"])

CoreKnown ==
    /\ core # NoCore => core.version = latest
    /\ job.at \in {"prepare", "download", "create"} => latest < Versions
    /\ \A t \in Thread : /\ probe[t].at = "labelled" => probe[t].label.version <= latest
                         /\ probe[t].at = "ran" => Sound(Found(t))

ViewKnown ==
    /\ selected \subseteq rows
    /\ app # "on" => selected = {}
    /\ RemovesWhatWasAsked

\* The images that a job found stay while it is at work, a cover is named after it was
\* written, and a scrape has still to do only with games that have no cover.
CoversKnown ==
    /\ job.images \subseteq HasImage
    /\ IF job.at = "name" THEN \E g \in HasImage : job.now = {g} ELSE job.now = {}
    /\ job.kind = "scrape" => \A g \in job.todo \ job.now : ~Covered(g)

IInv == AtWork /\ SettingsKept /\ ProfilesSound /\ CoreKnown /\ ViewKnown /\ CoversKnown

=============================================================================
