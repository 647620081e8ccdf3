-------------------------- MODULE ManagementProofs --------------------------
(***************************************************************************)
(* That the settings, the core's profile, the list and the covers stay     *)
(* what a person was told and sees, for any games, choices, versions and   *)
(* rows.  The invariant is a conjunction of one part per file of the       *)
(* model; for each part a first lemma says what the steps of Management do *)
(* to its variables, and a second that those few things keep the part.     *)
(***************************************************************************)
EXTENDS Management, TLAPS

\* The groups of the settings, and those that a file holds.
LEMMA Groups ==
    /\ Group = {"paths", "modes", "cores", "profiles", "covers", "welcome"}
    /\ \A f : f.kept \in -1..6 => Held(f) \subseteq Group
    /\ \A f : f.kept = 6 => Held(f) = Group
    /\ \A f : f.kept \in {-1, 0} => Held(f) = {}
  BY DEF Group, Held, Order

\* What a step may do to the settings.
ConfigStep ==
    \/ UNCHANGED configVars
    \/ StartFromFile \/ FirstStart \/ DiscardFile \/ WindowOpens \/ Ends
    \/ /\ app = "on"
       /\ \/ \E v \in Choice :
                \/ SetMode(v) \/ SetCovers(v)
                \/ \E p \in Choice : SavedApp(p, v) \/ UnsavedApp(p, v)
          \/ Change(Welcomed, {"welcome"})
          \/ \E p \in Profiles : Sound(p) /\ Change(WithProfile(p), {"profiles"})

\* A write leaves a file that can be told from what was to be written.
LEMMA Writes ==
    ASSUME ConfigTypes, NEW c, Settled(c), Saves(c) \/ Fails(c)
    PROVE  /\ file' = [kept |-> file'.kept, settings |-> file'.settings]
           /\ file'.kept \in -1..6
           /\ file' = file \/ file'.settings = c
           /\ Settled(file'.settings)
<1>1. rig.breaks \subseteq -1..5
  BY ConfigAssumption DEF ConfigTypes
<1>2. CASE Saves(c)
  BY <1>2 DEF Saves, Whole, Settled
<1>3. CASE Fails(c)
  <2> PICK n \in rig.breaks : file' = IF n = -1 THEN file ELSE [kept |-> n, settings |-> c]
    BY <1>3 DEF Fails
  <2>1. CASE n = -1
    BY <2>1 DEF ConfigTypes, Settled
  <2>2. CASE n # -1
    BY <1>1, <2>2 DEF Settled
  <2> QED BY <2>1, <2>2
<1> QED BY <1>2, <1>3

\* What was told is settings again.
LEMMA Tells ==
    ASSUME ConfigTypes, NEW c, Settled(c), NEW G \in SUBSET Group, Told(c, G) \/ Refused(G)
    PROVE  Settled(said') /\ doubt' \subseteq Group
<1>1. CASE Told(c, G)
  <2>1. said' = [g \in Group |-> said'[g]]
    BY <1>1 DEF Told
  <2>2. \A g \in Group : said'[g] \in {c[g], said[g]}
    BY <1>1 DEF Told
  <2> QED BY <1>1, <2>1, <2>2, Groups DEF Told, Settled, ConfigTypes
<1>2. CASE Refused(G)
  BY <1>2 DEF Refused, ConfigTypes, Settled
<1> QED BY <1>1, <1>2

\* The settings that setters write.
LEMMA NewSettings ==
    ASSUME ConfigTypes, NEW v \in Choice, NEW w \in Choice, NEW p \in Profiles
    PROVE  /\ Settled(Fresh) /\ Settled(Welcomed) /\ Settled(WithProfile(p))
           /\ Settled([memory EXCEPT !["modes"] = v])
           /\ Settled([memory EXCEPT !["cores"] = v])
           /\ Settled([memory EXCEPT !["covers"] = v, !["welcome"] = Fresh["welcome"]])
           /\ Settled(AppCopy(w, v)) /\ Settled(Read(file))
<1>1. Settled(Fresh)
  <2>1. NoProfile \in Profiles
    BY CoreAssumption DEF NoProfile, Profiles, Files, NoCore
  <2> QED BY <2>1, ConfigAssumption, Groups DEF Fresh, Settled
<1>2. Settled(memory) /\ Settled(file.settings)
  BY DEF ConfigTypes
<1>3. Settled(Welcomed) /\ Settled(WithProfile(p)) /\ Settled(AppCopy(w, v))
  BY <1>2, Groups DEF Settled, Welcomed, WithProfile, AppCopy
<1>4. /\ Settled([memory EXCEPT !["modes"] = v])
      /\ Settled([memory EXCEPT !["cores"] = v])
      /\ Settled([memory EXCEPT !["covers"] = v, !["welcome"] = Fresh["welcome"]])
  BY <1>1, <1>2, Groups DEF Settled
<1>5. Settled(Read(file))
  <2>1. \A g \in Group : Read(file)[g] \in {file.settings[g], Fresh[g]}
    BY DEF Read
  <2>2. Read(file) = [g \in Group |-> Read(file)[g]]
    BY DEF Read
  <2> QED BY <1>1, <1>2, <2>1, <2>2, Groups DEF Settled
<1> QED BY <1>1, <1>3, <1>4, <1>5

-----------------------------------------------------------------------------
(* What steps do to the settings.                                           *)

\* Whatever is at work is so in a program that is on.
LEMMA OnWhenAtWork ==
    ASSUME AtWork
    PROVE  /\ job.at # "none" => job # NoJob /\ running /\ app = "on"
           /\ \A t \in Thread : probe[t].at # "idle" => app = "on"
  BY DEF AtWork, NoJob, Idle

\* Profiles that are kept are those that a probe found, and sound.
LEMMA FoundIsSound ==
    ASSUME CoreTypes, CoreKnown, NEW t \in Thread, probe[t].at = "ran"
    PROVE  Found(t) \in Profiles /\ Sound(Found(t))
<1>1. probe[t] \in Probes
  BY DEF CoreTypes
<1>2. Found(t) \in Profiles
  BY <1>1 DEF Found, Probes, Profiles
<1> QED BY <1>2 DEF CoreKnown

\* A profile without a file is pruned, and what is left is sound.
LEMMA PrunedIsSound ==
    ASSUME ConfigTypes, ProfilesSound
    PROVE  Pruned \in Profiles /\ Sound(Pruned)
<1>1. NoProfile \in Profiles /\ Sound(NoProfile)
  BY CoreAssumption DEF NoProfile, Profiles, Files, NoCore, Sound
<1>2. memory["profiles"] \in Profiles /\ Sound(memory["profiles"])
  BY DEF ConfigTypes, Settled, ProfilesSound
<1> QED BY <1>1, <1>2 DEF Pruned

\* What a launch keeps has no label, and so no claim to be of a file.
LEMMA UnlabelledIsSound ==
    ASSUME CoreTypes
    PROVE  LET p == [version |-> core.version, label |-> NoCore] IN p \in Profiles /\ Sound(p)
<1>1. core.version \in 0..Versions
  BY CoreAssumption DEF CoreTypes, Files, NoCore
<1> QED BY <1>1 DEF Profiles, Files, Sound

\* Every step does to the settings one of a few things.
LEMMA ConfigForm ==
    ASSUME TypeOK, IInv, [Next]_vars
    PROVE  ConfigStep
<1> USE DEF TypeOK, IInv
<1>1. CASE Process
  BY <1>1 DEF Process, Starts, Opens, Stops, ConfigStep
<1>2. CASE Settings
  BY <1>2 DEF Settings, UiFree, ConfigStep
<1>3. CASE Cores
  <2>1. CASE ByHand
    BY <2>1 DEF ByHand, ConfigStep
  <2>2. CASE Discover
    BY <2>2, PrunedIsSound DEF Discover, UiFree, Change, ConfigStep
  <2>3. CASE \E kind \in {"catalog", "dependency"} : Installing(kind, {})
    BY <2>3 DEF Installing, BeginInstall, ConfigStep
  <2> QED BY <1>3, <2>1, <2>2, <2>3 DEF Cores
<1>4. CASE Setup
  BY <1>4 DEF Setup, Installing, BeginInstall, ConfigStep
<1>5. CASE Sessions
  BY <1>5, UnlabelledIsSound DEF Sessions, Launch, StopPlaying, UiFree, ConfigStep
<1>6. CASE List
  BY <1>6 DEF List, MoveGame, Refresh, AskRemove, CloseView, BeginRemove, BeginScan, Begins,
              ChooseScope, Toggle, ConfigStep
<1>7. CASE Covers
  BY <1>7 DEF Covers, MoveCover, BeginScan, BeginCovers, Begins, ConfigStep
<1>8. CASE UiProbes \/ Installs
  <2>1. CASE \E t \in Thread : KeepProfile(t)
    BY <2>1, FoundIsSound, OnWhenAtWork DEF KeepProfile, ConfigStep
  <2>2. CASE Prepare
    BY <2>2, OnWhenAtWork DEF Prepare, Change, ConfigStep
  <2> QED
    BY <1>8, <2>1, <2>2 DEF UiProbes, Installs, ListCores, RunProbe, Download, Create, Copy,
       Verify, ProbeInstalled, Probed, Thread, ConfigStep
<1>9. CASE Polls \/ Sees
  BY <1>9 DEF Polls, Poll, Sees, Remove, ListGames, ListDone, NameCover, ScanGame, RelinkGame,
              PassGame, WriteCover, ConfigStep
<1>10. CASE UNCHANGED vars
  BY <1>10 DEF vars, ConfigStep
<1> QED
  BY <1>1, <1>2, <1>3, <1>4, <1>5, <1>6, <1>7, <1>8, <1>9, <1>10 DEF Next, Person, Works

-----------------------------------------------------------------------------
(* The settings.                                                            *)

\* A setter writes settings again, keeps what was reported, and tells of what it changed.
LEMMA Setter ==
    ASSUME ConfigTypes, SettingsKept, app # "off", rig' = rig, app' = "on",
           NEW c, Settled(c), NEW G \in SUBSET Group, Saved(c, G) \/ Unsaved(c, G),
           \A g \in Group \ (G \cup {"welcome"}) : c[g] = memory[g]
    PROVE  ConfigTypes' /\ SettingsKept'
<1>1. Settled(file'.settings) /\ file' = [kept |-> file'.kept, settings |-> file'.settings]
      /\ file'.kept \in -1..6 /\ (file' = file \/ file'.settings = c)
  BY Writes DEF Saved, Unsaved
<1>2. Settled(said') /\ doubt' \subseteq Group
  BY Tells DEF Saved, Unsaved
<1>3. ConfigTypes'
  BY <1>1, <1>2 DEF ConfigTypes, Saved, Unsaved
<1>4. CASE Saved(c, G)
  <2>1. \A g \in Group \ (doubt' \cup {"paths", "welcome"}) : said'[g] = c[g]
    BY <1>4 DEF Saved, Told, SettingsKept
  <2>2. file'.settings = c /\ memory' = c
    BY <1>4 DEF Saved, Saves, Whole
  <2> QED BY <1>3, <2>1, <2>2 DEF SettingsKept
<1>5. CASE Unsaved(c, G)
  <2>1. \A g \in Group \ (doubt' \cup {"paths", "welcome"}) : said'[g] = c[g]
    BY <1>5 DEF Unsaved, Refused, SettingsKept
  <2>2. memory' = c /\ said' = said /\ doubt \subseteq doubt'
    BY <1>5 DEF Unsaved, Refused
  <2> QED BY <1>1, <1>3, <2>1, <2>2 DEF SettingsKept, Held
<1> QED BY <1>3, <1>4, <1>5

\* The settings are kept by every step.
LEMMA SettingsStep ==
    ASSUME ConfigTypes, SettingsKept, ConfigStep
    PROVE  ConfigTypes' /\ SettingsKept'
<1>1. CASE UNCHANGED configVars
  BY <1>1 DEF configVars, ConfigTypes, SettingsKept, Settled, Held
<1>2. NoProfile \in Profiles /\ Settled(Fresh) /\ Settled(Read(file)) /\ Settled(Welcomed)
  <2>1. NoProfile \in Profiles
    BY CoreAssumption DEF NoProfile, Profiles, Files, NoCore
  <2> QED BY <2>1, ConfigAssumption, NewSettings
<1>3. CASE StartFromFile
  <2>1. ConfigTypes'
    BY <1>2, <1>3 DEF StartFromFile, ConfigTypes
  <2> QED BY <1>3, <2>1 DEF StartFromFile, SettingsKept, Read
<1>4. CASE FirstStart
  <2>1. Settled(file'.settings) /\ file' = [kept |-> file'.kept, settings |-> file'.settings]
        /\ file'.kept \in -1..6 /\ (file' = file \/ file'.settings = Fresh)
    BY <1>2, <1>4, Writes DEF FirstStart
  <2>2. file'.settings = Fresh
    BY <1>4, <2>1 DEF FirstStart, Missing
  <2> QED BY <1>2, <1>4, <2>1, <2>2 DEF FirstStart, ConfigTypes, SettingsKept
<1>5. CASE DiscardFile
  <2>1. Held(Missing) = {}
    BY Groups DEF Missing
  <2> QED BY <1>2, <1>5, <2>1 DEF DiscardFile, ConfigTypes, SettingsKept, Missing
<1>6. CASE WindowOpens
  <2>1. CASE memory["welcome"]
    BY <1>6, <2>1 DEF WindowOpens, ConfigTypes, SettingsKept
  <2>2. CASE ~memory["welcome"]
    <3>1. app' = "on" /\ rig' = rig /\ (Saved(Welcomed, {"welcome"}) \/ Unsaved(Welcomed, {"welcome"}))
      BY <1>6, <2>2 DEF WindowOpens
    <3>2. app # "off"
      BY <1>6 DEF WindowOpens
    <3>3. {"welcome"} \in SUBSET Group /\ \A g \in Group \ {"welcome"} : Welcomed[g] = memory[g]
      BY Groups DEF ConfigTypes, Settled, Welcomed
    <3> QED BY <1>2, <3>1, <3>2, <3>3, Setter
  <2> QED BY <2>1, <2>2
<1>7. CASE Ends
  BY <1>2, <1>7 DEF Ends, ConfigTypes, SettingsKept
<1>8. ASSUME app = "on", NEW c, Settled(c), NEW G \in SUBSET Group, Change(c, G),
             \A g \in Group \ (G \cup {"welcome"}) : c[g] = memory[g]
      PROVE  ConfigTypes' /\ SettingsKept'
  BY <1>8, Setter DEF Change
<1>9. ASSUME app = "on", NEW v \in Choice, SetMode(v) \/ SetCovers(v)
      PROVE  ConfigTypes' /\ SettingsKept'
  <2> DEFINE m == [memory EXCEPT !["modes"] = v]
             n == [memory EXCEPT !["covers"] = v, !["welcome"] = Fresh["welcome"]]
  <2>2. Settled(m) /\ Settled(n)
    BY <1>2, NewSettings
  <2>3. /\ {"modes"} \in SUBSET Group /\ {"covers"} \in SUBSET Group
        /\ \A g \in Group \ {"modes"} : m[g] = memory[g]
        /\ \A g \in Group \ {"covers", "welcome"} : n[g] = memory[g]
    BY Groups DEF ConfigTypes, Settled
  <2>4. Change(m, {"modes"}) \/ Change(n, {"covers"})
    BY <1>9 DEF SetMode, SetCovers
  <2> HIDE DEF m, n
  <2> QED BY <1>8, <1>9, <2>2, <2>3, <2>4
<1>10. ASSUME app = "on", NEW p \in Profiles,
              Change(Welcomed, {"welcome"}) \/ Change(WithProfile(p), {"profiles"})
       PROVE  ConfigTypes' /\ SettingsKept'
  <2>1. Settled(WithProfile(p))
    BY ConfigAssumption, NewSettings
  <2>2. /\ {"welcome"} \in SUBSET Group /\ {"profiles"} \in SUBSET Group
        /\ \A g \in Group \ {"welcome"} : Welcomed[g] = memory[g]
        /\ \A g \in Group \ {"profiles"} : WithProfile(p)[g] = memory[g]
    BY Groups DEF ConfigTypes, Settled, Welcomed, WithProfile
  <2> QED BY <1>2, <1>8, <1>10, <2>1, <2>2
<1>11. ASSUME app = "on", NEW v \in Choice, NEW p \in Choice, SavedApp(p, v) \/ UnsavedApp(p, v)
       PROVE  ConfigTypes' /\ SettingsKept'
  <2> DEFINE G == {"paths", "cores"}
  <2>2. Settled(AppCopy(p, v)) /\ Settled([memory EXCEPT !["cores"] = v])
    BY <1>2, NewSettings
  <2>3. G \in SUBSET Group /\ \A g \in Group \ {"paths"} : AppCopy(p, v)[g] = [memory EXCEPT !["cores"] = v][g]
    BY Groups DEF ConfigTypes, Settled, AppCopy
  <2>4. \A g \in Group \ {"cores"} : [memory EXCEPT !["cores"] = v][g] = memory[g]
    BY Groups DEF ConfigTypes, Settled
  <2>5. CASE SavedApp(p, v)
    <3>1. Settled(file'.settings) /\ file' = [kept |-> file'.kept, settings |-> file'.settings]
          /\ file'.kept \in -1..6 /\ file'.settings = AppCopy(p, v)
      BY <2>2, <2>5, Writes DEF SavedApp, Saves, Whole
    <3>2. Settled(said') /\ doubt' \subseteq Group
      BY <2>2, <2>3, <2>5, Tells DEF SavedApp
    <3>3. \A g \in Group \ (doubt' \cup {"paths", "welcome"}) : said'[g] = AppCopy(p, v)[g]
      BY <2>3, <2>4, <2>5, <1>11 DEF SavedApp, Told, SettingsKept
    <3>4. ConfigTypes'
      BY <1>11, <2>2, <2>5, <3>1, <3>2 DEF SavedApp, ConfigTypes
    <3> QED
      BY <2>3, <2>5, <3>1, <3>3, <3>4 DEF SavedApp, SettingsKept
  <2>6. CASE UnsavedApp(p, v)
    <3>1. Settled(file'.settings) /\ file' = [kept |-> file'.kept, settings |-> file'.settings]
          /\ file'.kept \in -1..6 /\ (file' = file \/ file'.settings = AppCopy(p, v))
      BY <2>2, <2>6, Writes DEF UnsavedApp
    <3>2. Settled(said') /\ doubt' \subseteq Group /\ said' = said /\ doubt' = doubt \cup G
      BY <2>2, <2>3, <2>6, Tells DEF UnsavedApp, Refused
    <3>3. ConfigTypes'
      BY <1>11, <2>6, <3>1, <3>2 DEF UnsavedApp, ConfigTypes
    <3>4. \A g \in Group \ (doubt' \cup {"paths", "welcome"}) : said'[g] = AppCopy(p, v)[g] /\ memory[g] = said'[g]
      BY <1>11, <2>3, <2>4, <3>2 DEF SettingsKept
    <3> QED
      BY <2>6, <3>1, <3>2, <3>3, <3>4 DEF UnsavedApp, SettingsKept, Held
  <2> QED BY <1>11, <2>5, <2>6
<1> QED
  BY <1>1, <1>2, <1>3, <1>4, <1>5, <1>6, <1>7, <1>9, <1>10, <1>11 DEF ConfigStep

-----------------------------------------------------------------------------
(* The core and its profiles.                                               *)

\* What is not about the core leaves it alone, and makes no job that writes it.
Elsewhere ==
    /\ UNCHANGED coreVars
    /\ job'.at \in {"prepare", "download", "create"} => latest < Versions

\* What a step may do to the core, its probes and the jobs about it.
CoreStep ==
    \/ Elsewhere
    \/ ByHand \/ Discover \/ ListCores \/ Create \/ Copy \/ ProbeInstalled
    \/ \E t \in Thread : RunProbe(t) \/ KeepProfile(t)
    \/ ProbesEnd /\ job' = NoJob /\ UNCHANGED <<core, latest>>

\* Every step does to the core's file and its probes one of a few things.
LEMMA CoreForm ==
    ASSUME TypeOK, IInv, [Next]_vars
    PROVE  CoreStep
<1> USE DEF TypeOK, IInv, CoreKnown, Elsewhere, coreVars
<1>1. CASE Process
  BY <1>1 DEF Process, Starts, Opens, Stops, JobsEnd, jobVars, CoreStep
<1>2. CASE Settings
  BY <1>2 DEF Settings, jobVars, CoreStep
<1>3. CASE Cores \/ Setup
  BY <1>3 DEF Cores, Setup, Installing, BeginInstall, CoreStep
<1>4. CASE Sessions
  BY <1>4 DEF Sessions, Launch, StopPlaying, CoreStep
<1>5. CASE List \/ Covers
  <2>1. UNCHANGED coreVars
    BY <1>5 DEF List, Covers
  <2>2. ASSUME NEW j, Begins(j), j.at \in {"remove", "list"}
        PROVE  CoreStep
    BY <2>1, <2>2 DEF Begins, Begin, CoreStep
  <2>3. CASE BeginRemove \/ BeginScan \/ \E s \in Scopes : BeginCovers("relink", s) \/ BeginCovers("scrape", s)
    BY <2>2, <2>3 DEF BeginRemove, BeginScan, BeginCovers, NoJob
  <2>4. CASE UNCHANGED jobVars
    BY <2>1, <2>4 DEF jobVars, CoreStep
  <2> QED
    BY <1>5, <2>3, <2>4 DEF List, Covers, MoveGame, MoveCover, Refresh, AskRemove, CloseView,
       ChooseScope, Toggle
<1>6. CASE UiProbes \/ Installs
  <2>1. CASE Prepare \/ Download \/ Verify \/ Probed
    BY <2>1 DEF Prepare, Download, Verify, Probed, Finish, NoJob, JobTypes, Jobs, CoreStep
  <2> QED
    BY <1>6, <2>1 DEF UiProbes, Installs, Thread, CoreStep
<1>7. CASE Polls
  BY <1>7 DEF Polls, Poll, Taken, NoJob, CoreStep
<1>8. CASE Sees
  <2>1. UNCHANGED coreVars
    BY <1>8 DEF Sees
  <2>2. job'.at \notin {"prepare", "download", "create"}
    BY <1>8 DEF Sees, Remove, ListGames, ListDone, NameCover, ScanGame, RelinkGame, PassGame,
       WriteCover, Seen, Finish, NoJob, JobTypes, Jobs
  <2> QED BY <2>1, <2>2 DEF CoreStep
<1>9. CASE UNCHANGED vars
  BY <1>9 DEF vars, jobVars, CoreStep
<1> QED
  BY <1>1, <1>2, <1>3, <1>4, <1>5, <1>6, <1>7, <1>8, <1>9 DEF Next, Person, Works

\* Versions only grow, and what is known of the core stays so.
LEMMA CoreKept ==
    ASSUME TypeOK, IInv, CoreStep
    PROVE  CoreTypes' /\ CoreKnown' /\ latest' >= latest
<1> USE CoreAssumption DEF TypeOK, IInv, CoreTypes
<1>1. NoCore \in Files /\ NoProfile \in Profiles /\ Idle \in Probes
  BY DEF NoCore, NoProfile, Idle, Files, Profiles, Probes
<1>2. /\ core.version \in 0..Versions
      /\ core # NoCore => core.version \in 1..Versions
  BY DEF Files, NoCore
\* What a probe knows stays true of it as versions grow.
<1>3. ASSUME NEW t \in Thread, probe'[t] = probe[t], latest' \in Nat, latest' >= latest
      PROVE  /\ probe'[t] \in Probes
             /\ probe'[t].at = "labelled" => probe'[t].label.version <= latest'
             /\ (probe[t].at = "ran" => Sound(Found(t)))'
  <2>1. probe[t] \in Probes /\ probe[t].label \in Files
    BY DEF Probes
  <2>2. probe[t].label.version \in 0..Versions
    BY <2>1 DEF Files, NoCore
  <2> QED BY <1>3, <2>1, <2>2 DEF CoreKnown, Found, Sound
<1>4. CASE Elsewhere
  <2>1. UNCHANGED <<core, latest, probe>>
    BY <1>4 DEF Elsewhere, coreVars
  <2>2. core' # NoCore => core'.version = latest'
    BY <2>1 DEF CoreKnown
  <2> QED BY <1>3, <1>4, <2>1, <2>2 DEF Elsewhere, CoreKnown
<1>5. CASE ByHand
  <2>1. UNCHANGED <<job, probe>>
    BY <1>5 DEF ByHand, jobVars
  <2>2. /\ latest' \in 0..Versions /\ core' \in Files /\ latest' >= latest
        /\ core' # NoCore => core'.version = latest'
        /\ latest < Versions => latest' < Versions
    BY <1>1, <1>5 DEF ByHand, Files
  <2> QED BY <1>3, <2>1, <2>2 DEF CoreKnown
<1>6. CASE Create
  <2>1. UNCHANGED probe
    BY <1>6 DEF Create
  <2>2. latest < Versions
    BY <1>6 DEF Create, CoreKnown
  <2>3. /\ latest' \in 0..Versions /\ core' \in Files /\ latest' >= latest
        /\ core' # NoCore => core'.version = latest'
    BY <1>6, <2>2 DEF Create, Files, CoreKnown
  <2>4. job'.at \notin {"prepare", "download", "create"}
    BY <1>6 DEF Create, Finish, NoJob, JobTypes, Jobs
  <2> QED BY <1>3, <2>1, <2>3, <2>4 DEF CoreKnown
<1>7. CASE Copy
  <2>1. UNCHANGED <<latest, probe>>
    BY <1>7 DEF Copy
  <2>2. core' \in Files /\ (core' # NoCore => core'.version = latest')
    BY <1>2, <1>7, <2>1 DEF Copy, Files, NoCore, Mine, CoreKnown
  <2>3. job'.at \notin {"prepare", "download", "create"}
    BY <1>7 DEF Copy, Finish, NoJob, JobTypes, Jobs
  <2> QED BY <1>3, <2>1, <2>2, <2>3 DEF CoreKnown
\* The steps of a probe, of one thread.
<1>8. ASSUME NEW t \in Thread, NEW q \in Probes, probe' = [probe EXCEPT ![t] = q],
             q.at = "labelled" => q.label.version <= latest,
             q.at = "ran" => Sound([version |-> q.found, label |-> q.label]),
             UNCHANGED <<core, latest>>, job'.at \in {"prepare", "download", "create"} => latest < Versions
      PROVE  CoreTypes' /\ CoreKnown' /\ latest' >= latest
  <2>1. probe' \in [Thread -> Probes] /\ probe'[t] = q
    BY <1>8
  <2>2. ASSUME NEW u \in Thread
        PROVE  /\ probe'[u].at = "labelled" => probe'[u].label.version <= latest'
               /\ (probe[u].at = "ran" => Sound(Found(u)))'
    <3>1. CASE u = t
      BY <1>8, <2>1, <3>1 DEF Found, Sound
    <3>2. CASE u # t
      BY <1>3, <1>8, <3>2
    <3> QED BY <3>1, <3>2
  <2> QED BY <1>8, <2>1, <2>2 DEF CoreKnown
\* A label that is taken is of the core as it is.
<1>9. ASSUME NEW known \in Profiles
      PROVE  /\ Labelled(known) \in Probes /\ Labelled(known).at = "labelled"
             /\ Labelled(known).label.version <= latest
  <2>1. core.version <= latest
    BY <1>2 DEF CoreKnown, NoCore
  <2>2. Labelled(known) \in Probes
    BY <1>1 DEF Labelled, Probes
  <2>3. Labelled(known).at = "labelled" /\ Labelled(known).label = core
    BY <1>1 DEF Labelled, Probes
  <2> QED BY <2>1, <2>2, <2>3
<1>10. CASE Discover
  <2>1. UNCHANGED <<core, latest, job>>
    BY <1>10 DEF Discover, jobVars
  <2>2. [Idle EXCEPT !.at = "listing", !.known = Pruned] \in Probes
    BY <1>1, PrunedIsSound DEF Idle, Probes
  <2>3. CASE UNCHANGED probe
    BY <1>3, <2>1, <2>3 DEF CoreKnown
  <2>4. CASE probe' = [probe EXCEPT !["ui"] = [Idle EXCEPT !.at = "listing", !.known = Pruned]]
    BY <1>8, <2>1, <2>2, <2>4 DEF Idle, Thread, CoreKnown
  <2> QED BY <1>10, <2>3, <2>4 DEF Discover
<1>11. CASE ListCores
  <2>1. UNCHANGED <<core, latest, job>>
    BY <1>11 DEF ListCores, jobVars
  <2>2. probe["ui"] \in Probes
    BY DEF Thread
  <2>3. probe["ui"].known \in Profiles
    BY <2>2 DEF Probes
  <2>4. PICK q \in {Idle, Labelled(probe["ui"].known)} : probe' = [probe EXCEPT !["ui"] = q]
    BY <1>11 DEF ListCores
  <2>5. q \in Probes /\ (q.at = "labelled" => q.label.version <= latest) /\ q.at # "ran"
    BY <1>1, <1>9, <2>3, <2>4 DEF Idle
  <2> QED BY <1>8, <2>1, <2>4, <2>5 DEF Thread, CoreKnown
<1>12. CASE ProbeInstalled
  <2>1. UNCHANGED <<core, latest>> /\ job'.at = "probing"
    BY <1>12 DEF ProbeInstalled, JobTypes, Jobs
  <2>2. CASE UNCHANGED probe
    BY <1>3, <2>1, <2>2 DEF CoreKnown
  <2>3. CASE probe' = [probe EXCEPT !["job"] = Labelled(NoProfile)]
    BY <1>1, <1>8, <1>9, <2>1, <2>3 DEF Thread
  <2> QED BY <1>12, <2>2, <2>3 DEF ProbeInstalled
<1>13. ASSUME NEW t \in Thread, RunProbe(t)
       PROVE  CoreTypes' /\ CoreKnown' /\ latest' >= latest
  <2>1. UNCHANGED <<core, latest, job>> /\ probe[t] \in Probes /\ probe[t].at = "labelled"
    BY <1>13 DEF RunProbe, jobVars
  <2>2. CASE probe' = [probe EXCEPT ![t] = Idle]
    BY <1>1, <1>8, <2>1, <2>2 DEF Idle, CoreKnown
  <2>3. CASE core.size = "whole" /\ probe' = [probe EXCEPT ![t] = [@ EXCEPT !.at = "ran", !.found = core.version]]
    <3> DEFINE q == [probe[t] EXCEPT !.at = "ran", !.found = core.version]
    <3>1. core.version = latest
      BY <2>3 DEF CoreKnown, NoCore
    <3>2. q \in Probes /\ q.at = "ran" /\ q.found = latest /\ q.label = probe[t].label
      BY <1>2, <2>1, <3>1 DEF Probes
    <3>3. q.label.version <= latest /\ q.label.version \in 0..Versions
      BY <2>1, <3>2 DEF CoreKnown, Probes, Files, NoCore
    <3>4. Sound([version |-> q.found, label |-> q.label])
      BY <3>2, <3>3 DEF Sound
    <3>5. probe' = [probe EXCEPT ![t] = q]
      BY <2>3
    <3> HIDE DEF q
    <3> QED BY <1>8, <2>1, <3>2, <3>4, <3>5 DEF CoreKnown
  <2> QED BY <1>13, <2>2, <2>3 DEF RunProbe
<1>14. ASSUME NEW t \in Thread, KeepProfile(t)
       PROVE  CoreTypes' /\ CoreKnown' /\ latest' >= latest
  <2>1. UNCHANGED <<core, latest, job>> /\ probe' = [probe EXCEPT ![t] = Idle]
    BY <1>14 DEF KeepProfile, jobVars
  <2> QED BY <1>1, <1>8, <2>1 DEF Idle, CoreKnown
<1>15. CASE ProbesEnd /\ job' = NoJob /\ UNCHANGED <<core, latest>>
  BY <1>1, <1>15 DEF ProbesEnd, NoJob, Idle, CoreKnown
<1> QED
  BY <1>4, <1>5, <1>6, <1>7, <1>10, <1>11, <1>12, <1>13, <1>14, <1>15 DEF CoreStep

\* Profiles stay sound: what is kept is sound, and versions only grow.
LEMMA SoundKept ==
    ASSUME TypeOK, IInv, ConfigStep, latest' \in Nat, latest' >= latest
    PROVE  ProfilesSound'
<1> USE DEF TypeOK, IInv
<1> DEFINE Stays(p) == p.label # NoCore => p.label.version = p.version \/ p.label.version < latest'
<1>1. ASSUME NEW p \in Profiles, Sound(p) PROVE Stays(p)
  <2>1. p.label # NoCore => p.label.version \in Nat
    BY DEF Profiles, Files
  <2> QED BY <1>1, <2>1 DEF Sound, CoreTypes
<1>2. Stays(memory["profiles"]) /\ Stays(file.settings["profiles"])
  BY <1>1 DEF ConfigTypes, Settled, ProfilesSound
<1>3. Stays(Fresh["profiles"])
  BY Groups DEF Fresh, NoProfile
<1>4. ASSUME Stays(memory'["profiles"]), Stays(file'.settings["profiles"])
      PROVE  ProfilesSound'
  BY <1>4 DEF ProfilesSound, Sound
<1> HIDE DEF Stays
<1>5. ASSUME NEW c, Stays(c["profiles"]), NEW G, Saved(c, G) \/ Unsaved(c, G)
      PROVE  ProfilesSound'
  BY <1>2, <1>4, <1>5 DEF Saved, Unsaved, Saves, Fails, Whole
<1>6. CASE UNCHANGED configVars \/ Ends
  BY <1>2, <1>3, <1>4, <1>6 DEF configVars, Ends
<1>7. CASE StartFromFile
  BY <1>2, <1>3, <1>4, <1>7, Groups DEF StartFromFile, Read
<1>8. CASE FirstStart \/ DiscardFile
  BY <1>2, <1>3, <1>4, <1>8 DEF FirstStart, DiscardFile, Saves, Fails, Whole, Missing
<1>9. Stays(Welcomed["profiles"])
  BY <1>2, Groups DEF Welcomed, ConfigTypes, Settled
<1>10. CASE WindowOpens \/ Change(Welcomed, {"welcome"})
  BY <1>2, <1>4, <1>5, <1>9, <1>10 DEF WindowOpens, Change
<1>11. ASSUME NEW v \in Choice, SetMode(v) \/ SetCovers(v) PROVE ProfilesSound'
  <2>1. /\ Stays([memory EXCEPT !["modes"] = v]["profiles"])
        /\ Stays([memory EXCEPT !["covers"] = v, !["welcome"] = Fresh["welcome"]]["profiles"])
    BY <1>2, Groups DEF ConfigTypes, Settled
  <2> QED BY <1>5, <1>11, <2>1 DEF SetMode, SetCovers, Change
<1>12. ASSUME NEW v \in Choice, NEW p \in Choice, SavedApp(p, v) \/ UnsavedApp(p, v)
       PROVE  ProfilesSound'
  <2>1. Stays(AppCopy(p, v)["profiles"]) /\ Stays([memory EXCEPT !["cores"] = v]["profiles"])
    BY <1>2, Groups DEF AppCopy, ConfigTypes, Settled
  <2>2. CASE SavedApp(p, v)
    <3>1. file'.settings = AppCopy(p, v) /\ memory' = [memory EXCEPT !["cores"] = v]
      BY <2>2 DEF SavedApp, Saves, Whole
    <3> QED BY <1>4, <2>1, <3>1
  <2>3. CASE UnsavedApp(p, v)
    <3>1. (file' = file \/ file'.settings = AppCopy(p, v)) /\ memory' = memory
      BY <2>3 DEF UnsavedApp, Fails
    <3> QED BY <1>2, <1>4, <2>1, <3>1
  <2> QED BY <1>12, <2>2, <2>3
<1>13. ASSUME NEW p \in Profiles, Sound(p), Change(WithProfile(p), {"profiles"})
       PROVE  ProfilesSound'
  <2>1. Stays(WithProfile(p)["profiles"])
    BY <1>1, <1>13, Groups DEF WithProfile, ConfigTypes, Settled
  <2> QED BY <1>5, <1>13, <2>1 DEF Change
<1> QED
  BY <1>6, <1>7, <1>8, <1>10, <1>11, <1>12, <1>13 DEF ConfigStep

-----------------------------------------------------------------------------
(* The jobs.                                                                *)

\* A job goes from one of its places to another.
JobMoves == job.at # "none" /\ job' \in Jobs /\ job'.at # "none" /\ UNCHANGED <<playing, running>>

\* What a step may do to the job, and to what is at work.
JobStep ==
    \/ JobsEnd /\ ProbesEnd
    \/ UNCHANGED <<jobVars, probe>> /\ (app' = "on" \/ app # "on")
    \/ /\ app = "on" /\ app' = "on"
       /\ \/ UNCHANGED <<running, job>> /\ playing' \in BOOLEAN
          \/ \E j \in Jobs : j.at # "none" /\ Begin(j)
          \/ Taken
          \/ JobMoves

\* What the menus begin is a job.
LEMMA NewJobs ==
    /\ NoJob \in Jobs /\ NoJob.at = "none"
    /\ \A kind \in {"catalog", "dependency", "setup"}, games \in Scopes \cup {{}},
          at \in {"prepare", "download"} :
            LET j == [NoJob EXCEPT !.kind = kind, !.games = games, !.at = at]
            IN  j \in Jobs /\ j.at = at
    /\ \A kind \in {"scan", "relink", "scrape"}, games \in Scopes :
            LET j == [NoJob EXCEPT !.kind = kind, !.at = "list", !.games = games]
            IN  j \in Jobs /\ j.at = "list"
    /\ \A ids \in SUBSET (1..Rows) :
            LET j == [NoJob EXCEPT !.kind = "remove", !.at = "remove", !.ids = ids]
            IN  j \in Jobs /\ j.at = "remove"
  BY DEF NoJob, Jobs

\* The places that the steps of a job go to.
LEMMA Moved ==
    ASSUME JobTypes, AtWork
    PROVE  /\ \A end \in {"done", "failed"} : job.at # "none" /\ Finish(end) => job' \in Jobs /\ job'.at # "none"
           /\ \A at \in {"download", "create", "copy", "verify", "probe", "probing", "list"} :
                 job' = [job EXCEPT !.at = at] => job' \in Jobs /\ job'.at # "none"
           /\ \A g \in Game : job.at # "none" /\ Seen(g) => job' \in Jobs /\ job'.at # "none"
           /\ job.games \subseteq Game
<1> USE DEF JobTypes
<1>1. \A end \in {"done", "failed"} : Finish(end) => job' \in Jobs /\ job'.at # "none"
  BY DEF Finish, NoJob, Jobs
<1>2. \A at \in {"download", "create", "copy", "verify", "probe", "probing", "list"} :
         job' = [job EXCEPT !.at = at] => job' \in Jobs /\ job'.at # "none"
  BY DEF Jobs
<1>3. \A g \in Game : job.at # "none" /\ Seen(g) => job' \in Jobs /\ job'.at # "none"
  BY DEF Jobs, Seen
<1>4. job.games \subseteq Game
  BY LibraryAssumption DEF Jobs
<1> QED BY <1>1, <1>2, <1>3, <1>4

\* Every step does to the jobs one of a few things.
LEMMA JobForm ==
    ASSUME TypeOK, IInv, [Next]_vars
    PROVE  JobStep
<1> USE DEF TypeOK, IInv
<1>1. CASE Process
  BY <1>1 DEF Process, Starts, Opens, Stops, StartFromFile, FirstStart, DiscardFile, WindowOpens,
              coreVars, JobStep
<1>2. CASE Settings
  BY <1>2 DEF Settings, SetMode, SetCovers, Change, SavedApp, UnsavedApp, UiFree, jobVars, coreVars, JobStep
<1>3. CASE Cores
  <2>1. CASE ByHand
    BY <2>1 DEF ByHand, JobStep, configVars
  <2>2. CASE Discover
    BY <2>2 DEF Discover, UiFree, configVars, JobTypes, jobVars, JobStep
  <2>3. ASSUME NEW kind \in {"catalog", "dependency"}, Installing(kind, {})
        PROVE  JobStep
    BY <2>3, NewJobs DEF Installing, BeginInstall, UiFree, configVars, JobStep
  <2> QED BY <1>3, <2>1, <2>2, <2>3 DEF Cores
<1>4. CASE Setup
  BY <1>4, NewJobs DEF Setup, Installing, BeginInstall, UiFree, configVars, JobStep
<1>5. CASE Sessions
  <2>1. CASE Launch
    BY <2>1 DEF Launch, UiFree, Change, configVars, JobStep
  <2>2. CASE StopPlaying
    BY <2>2 DEF StopPlaying, configVars, AtWork, JobStep
  <2> QED BY <1>5, <2>1, <2>2 DEF Sessions
<1>6. CASE List \/ Covers
  <2>1. UNCHANGED coreVars
    BY <1>6 DEF List, Covers
  <2>2. ASSUME NEW j \in Jobs, j.at # "none", UiFree, Begins(j)
        PROVE  JobStep
    BY <2>2 DEF Begins, UiFree, configVars, JobStep
  <2>3. CASE UiFree /\ (BeginScan \/ BeginRemove \/ \E s \in Scopes : BeginCovers("relink", s) \/ BeginCovers("scrape", s))
    BY <2>2, <2>3, NewJobs DEF BeginScan, BeginRemove, BeginCovers, LibraryTypes
  <2>4. CASE UNCHANGED <<configVars, jobVars>>
    BY <2>1, <2>4 DEF coreVars, configVars, JobStep
  <2> QED
    BY <1>6, <2>3, <2>4 DEF List, Covers, MoveGame, MoveCover, Refresh, AskRemove, CloseView,
       ChooseScope, Toggle
<1>7. ASSUME NEW t \in Thread, RunProbe(t) \/ KeepProfile(t)
      PROVE  JobStep
  BY <1>7, OnWhenAtWork DEF RunProbe, KeepProfile, Change, configVars, jobVars, JobTypes, JobStep
<1>8. CASE UiProbes
  <2>1. CASE ListCores
    BY <2>1, OnWhenAtWork DEF ListCores, configVars, jobVars, JobTypes, Thread, JobStep
  <2> QED BY <1>7, <1>8, <2>1 DEF UiProbes, Thread
<1>9. CASE Polls
  BY <1>9 DEF Polls, Poll, UiFree, configVars, JobStep
<1>10. ASSUME job.at # "none", job' \in Jobs, job'.at # "none", UNCHANGED <<app, playing, running>>
       PROVE  JobStep
  BY <1>10, OnWhenAtWork DEF JobStep, JobMoves
<1>11. CASE Installs
  <2>1. CASE Prepare \/ Download \/ Create
    BY <1>10, <2>1, Moved DEF Prepare, Download, Create, configVars
  <2>2. CASE Copy
    <3>1. job' = job \/ job' = [job EXCEPT !.at = "verify"] \/ Finish("failed")
      BY <2>2 DEF Copy
    <3> QED BY <1>10, <2>2, <3>1, Moved DEF Copy, configVars, JobTypes
  <2>3. CASE Verify \/ ProbeInstalled \/ Probed
    BY <1>10, <2>3, Moved DEF Verify, ProbeInstalled, Probed, configVars
  <2> QED BY <1>7, <1>11, <2>1, <2>2, <2>3 DEF Installs, Thread
<1>12. CASE Sees
  <2>1. CASE Remove \/ ListDone
    BY <1>10, <2>1, Moved DEF Remove, ListDone, configVars
  <2>2. CASE ListGames
    <3>1. ASSUME NEW todo \in Todos, job' = [job EXCEPT !.at = "each", !.todo = todo, !.images = HasImage]
          PROVE  job' \in Jobs /\ job'.at # "none"
      <4>1. todo \subseteq Game
        BY <3>1, Moved DEF Todos, Candidates
      <4> QED BY <3>1, <4>1 DEF Jobs, JobTypes, HasImage
    <3> QED BY <1>10, <2>2, <3>1, Moved DEF ListGames, configVars
  <2>3. CASE NameCover
    BY <1>10, <2>3 DEF NameCover, Jobs, JobTypes, configVars
  <2>4. ASSUME NEW g \in Game, ScanGame(g) \/ RelinkGame(g) \/ PassGame(g)
        PROVE  JobStep
    BY <1>10, <2>4, Moved DEF ScanGame, RelinkGame, PassGame, configVars
  <2>5. ASSUME NEW g \in Game, WriteCover(g)
        PROVE  JobStep
    <3>1. job' = [job EXCEPT !.at = "name", !.now = {g}] \/ Seen(g)
      BY <2>5 DEF WriteCover
    <3>2. job.at # "none" /\ UNCHANGED <<app, playing, running>>
      BY <2>5 DEF WriteCover, configVars
    <3>3. [job EXCEPT !.at = "name", !.now = {g}] \in Jobs /\ [job EXCEPT !.at = "name", !.now = {g}].at = "name"
      BY DEF JobTypes, Jobs
    <3> QED BY <1>10, <3>1, <3>2, <3>3, Moved
  <2> QED BY <1>12, <2>1, <2>2, <2>3, <2>4, <2>5 DEF Sees
<1>13. CASE UNCHANGED vars
  BY <1>13 DEF vars, configVars, coreVars, JobStep
<1> QED
  BY <1>1, <1>2, <1>3, <1>4, <1>5, <1>6, <1>8, <1>9, <1>11, <1>12, <1>13 DEF Next, Person, Works

\* The flag stays that of the job, and nothing is at work without the program.
LEMMA JobKept ==
    ASSUME TypeOK, IInv, JobStep
    PROVE  JobTypes' /\ AtWork'
<1> USE DEF TypeOK, IInv
<1>1. CASE JobsEnd /\ ProbesEnd
  BY <1>1, NewJobs DEF JobsEnd, ProbesEnd, JobTypes, AtWork
<1>2. CASE UNCHANGED <<jobVars, probe>> /\ (app' = "on" \/ app # "on")
  BY <1>2 DEF jobVars, JobTypes, AtWork
<1>3. CASE app' = "on" /\ UNCHANGED <<running, job>> /\ playing' \in BOOLEAN
  BY <1>3 DEF JobTypes, AtWork
<1>4. ASSUME app' = "on", NEW j \in Jobs, j.at # "none", Begin(j)
      PROVE  JobTypes' /\ AtWork'
  BY <1>4, NewJobs DEF Begin, JobTypes, AtWork
<1>5. CASE app' = "on" /\ Taken
  BY <1>5, NewJobs DEF Taken, JobTypes, AtWork
<1>6. CASE app' = "on" /\ JobMoves
  BY <1>6, NewJobs, OnWhenAtWork DEF JobMoves, JobTypes, AtWork
<1> QED
  BY <1>1, <1>2, <1>3, <1>4, <1>5, <1>6 DEF JobStep

-----------------------------------------------------------------------------
(* The list and its removals.                                               *)

\* A job for a removal that is at work is one that was so before.
SameRemoval ==
    job'.kind = "remove" /\ ~Ended' => job.kind = "remove" /\ ~Ended /\ job'.ids = job.ids

\* Nothing is asked any more, and a removal that is at work is the one that was asked for.
Disarmed ==
    /\ armed' = FALSE /\ asked' \in {asked, {}}
    /\ job'.kind = "remove" /\ ~Ended' => asked' = asked /\ job'.ids = asked

\* What a step may do to the list.
ViewStep ==
    \/ UNCHANGED viewVars /\ SameRemoval /\ (app' = app \/ app # "on")
    \/ /\ app' = "on" /\ scope' \in Scopes
       /\ rows' \subseteq 1..Rows /\ selected' \subseteq rows' /\ Disarmed
    \/ /\ app' = "on" /\ selected = {} /\ rows' \subseteq 1..Rows
       /\ UNCHANGED <<job, scope, selected, armed, asked>>
    \/ app' = "on" /\ AskRemove
    \/ Stops

\* A step that disarms, and begins no removal, leaves nothing asked for.
LEMMA DisarmsDisarmed ==
    ASSUME ViewKnown, SameRemoval, Disarms
    PROVE  Disarmed
  BY DEF ViewKnown, RemovesWhatWasAsked, SameRemoval, Disarms, Disarmed

\* What a scope lists are rows of the library.
LEMMA ListedRows ==
    ASSUME LibraryTypes, NEW s \in Scopes
    PROVE  Listed(s) \subseteq 1..Rows
<1>1. \A g \in Game : library[g].id \in 0..Rows
  BY DEF LibraryTypes
<1> QED BY <1>1, LibraryAssumption DEF Listed

\* To show the list anew is one of the steps that may be done to it.
LEMMA ShownView ==
    ASSUME LibraryTypes, ViewKnown, SameRemoval, app' = "on", NEW s \in Scopes, Shows(s), scope' \in Scopes
    PROVE  ViewStep
  BY ListedRows, DisarmsDisarmed DEF Shows, ViewStep

\* The steps of a job make no removal.
LEMMA MovesNoRemoval ==
    ASSUME JobTypes
    PROVE  /\ \A end \in {"done", "failed"} : Finish(end) => SameRemoval
           /\ ~Ended /\ (\E at \in {"download", "create", "copy", "verify", "probe", "probing", "list"} :
                 job' = [job EXCEPT !.at = at]) => SameRemoval
           /\ \A g \in Game : ~Ended /\ Seen(g) => SameRemoval
           /\ UNCHANGED job => SameRemoval
           /\ job'.kind # "remove" => SameRemoval
<1> USE DEF SameRemoval, Ended, JobTypes
<1>1. \A end \in {"done", "failed"} : Finish(end) => SameRemoval
  BY DEF Finish, NoJob
<1>2. ~Ended /\ (\E at \in {"download", "create", "copy", "verify", "probe", "probing", "list"} :
                 job' = [job EXCEPT !.at = at]) => SameRemoval
  BY DEF Jobs
<1>3. \A g \in Game : ~Ended /\ Seen(g) => SameRemoval
  BY DEF Jobs, Seen
<1>4. UNCHANGED job => SameRemoval
  OBVIOUS
<1>5. job'.kind # "remove" => SameRemoval
  OBVIOUS
<1> QED BY <1>1, <1>2, <1>3, <1>4, <1>5

\* Every step does to the list one of a few things.
LEMMA ViewForm ==
    ASSUME TypeOK, IInv, [Next]_vars
    PROVE  ViewStep
<1> USE DEF TypeOK, IInv
<1>1. CASE Process
  <2>1. CASE Starts
    BY <2>1, MovesNoRemoval DEF Starts, jobVars, libraryVars, StartFromFile, FirstStart, DiscardFile, ViewStep
  <2>2. CASE Opens
    BY <2>2, ListedRows, LibraryAssumption DEF Opens, LibraryTypes, WindowOpens, ViewKnown, jobVars, ViewStep
  <2> QED BY <1>1, <2>1, <2>2 DEF Process, ViewStep
<1>2. CASE Settings
  <2>1. UNCHANGED <<job, app>> /\ app = "on"
    BY <1>2 DEF Settings, SetMode, SetCovers, Change, SavedApp, UnsavedApp, UiFree, jobVars
  <2>2. UNCHANGED viewVars \/ (Shows(scope) /\ UNCHANGED scope)
    BY <1>2 DEF Settings, MayShow, viewVars
  <2> QED BY <2>1, <2>2, MovesNoRemoval, ShownView DEF LibraryTypes, ViewStep
<1>3. ASSUME NEW kind \in {"catalog", "dependency", "setup"}, NEW games, Installing(kind, games)
      PROVE  ViewStep
  <2>1. app' = "on" /\ UNCHANGED <<scope, rows, selected>> /\ Disarms
    BY <1>3 DEF Installing, BeginInstall, UiFree, configVars
  <2>2. job'.kind = kind
    BY <1>3 DEF Installing, BeginInstall, Begin, NoJob
  <2> QED BY <2>1, <2>2, MovesNoRemoval, DisarmsDisarmed DEF LibraryTypes, ViewKnown, ViewStep
<1>4. CASE Cores \/ Setup
  <2>1. CASE (ByHand \/ Discover) /\ UNCHANGED libraryVars
    BY <2>1, MovesNoRemoval DEF ByHand, Discover, configVars, jobVars, libraryVars, ViewStep
  <2> QED BY <1>3, <1>4, <2>1 DEF Cores, Setup
<1>5. CASE Sessions
  BY <1>5, MovesNoRemoval DEF Sessions, Launch, StopPlaying, Change, configVars, libraryVars, ViewStep
<1>6. CASE List \/ Covers
  <2>1. ASSUME NEW j \in Jobs, j.kind # "remove", UiFree, Begins(j)
        PROVE  ViewStep
    <3>1. app' = "on" /\ UNCHANGED <<scope, rows, selected>> /\ armed' = FALSE /\ asked' = {} /\ job' = j
      BY <2>1 DEF Begins, Begin, UiFree, configVars
    <3> QED BY <2>1, <3>1 DEF LibraryTypes, ViewKnown, Disarmed, ViewStep
  <2>2. CASE UiFree /\ (BeginScan \/ \E s \in Scopes : BeginCovers("relink", s) \/ BeginCovers("scrape", s))
    <3>1. \A kind \in {"scan", "relink", "scrape"}, s \in Scopes :
             LET j == [NoJob EXCEPT !.kind = kind, !.at = "list", !.games = s]
             IN  j \in Jobs /\ j.kind # "remove"
      BY NewJobs DEF NoJob
    <3>2. BeginScan => ViewStep
      BY <2>1, <2>2, <3>1 DEF BeginScan, LibraryTypes
    <3>3. ASSUME NEW kind \in {"relink", "scrape"}, NEW s \in Scopes, BeginCovers(kind, s)
          PROVE  ViewStep
      BY <2>1, <2>2, <3>1, <3>3 DEF BeginCovers
    <3> QED BY <2>2, <3>2, <3>3
  <2>3. CASE UiFree /\ BeginRemove
    <3>1. /\ app' = "on" /\ UNCHANGED <<scope, rows, selected>> /\ armed' = FALSE /\ asked' = asked
          /\ job'.ids = selected
      BY <2>3 DEF BeginRemove, Begins, Begin, UiFree, configVars, NoJob
    <3>2. asked = selected
      BY <2>3 DEF BeginRemove, ViewKnown, RemovesWhatWasAsked
    <3> QED BY <3>1, <3>2 DEF LibraryTypes, ViewKnown, Disarmed, ViewStep
  <2>4. CASE UiFree /\ AskRemove
    BY <2>4 DEF AskRemove, UiFree, configVars, ViewStep
  <2>5. CASE UiFree /\ (Refresh \/ \E s \in Scopes : ChooseScope(s))
    <3>1. UNCHANGED job /\ app' = "on" /\ scope' \in Scopes
      BY <2>5 DEF Refresh, ChooseScope, UiFree, configVars, jobVars, LibraryTypes
    <3>2. (\E s \in Scopes : Shows(s)) \/ (Disarms /\ UNCHANGED <<rows, selected>>)
      BY <2>5 DEF Refresh, ChooseScope, LibraryTypes
    <3>3. CASE \E s \in Scopes : Shows(s)
      BY <3>1, <3>3, MovesNoRemoval, ShownView
    <3>4. CASE Disarms /\ UNCHANGED <<rows, selected>>
      BY <3>1, <3>4, MovesNoRemoval, DisarmsDisarmed DEF LibraryTypes, ViewKnown, ViewStep
    <3> QED BY <3>2, <3>3, <3>4
  <2>6. CASE UiFree /\ (CloseView \/ \E r \in rows : Toggle(r))
    <3>1. UNCHANGED job /\ app' = "on" /\ UNCHANGED <<scope, rows>> /\ selected' \subseteq rows /\ Disarms
      BY <2>6 DEF CloseView, Toggle, UiFree, configVars, jobVars, LibraryTypes, ViewKnown
    <3> QED BY <3>1, MovesNoRemoval, DisarmsDisarmed DEF LibraryTypes, ViewStep
  <2>7. CASE \E g \in Game : MoveGame(g) \/ MoveCover(g)
    BY <2>7, MovesNoRemoval DEF MoveGame, MoveCover, configVars, jobVars, ViewStep
  <2> QED BY <1>6, <2>2, <2>3, <2>4, <2>5, <2>6, <2>7 DEF List, Covers
<1>7. ASSUME NEW t \in Thread, RunProbe(t) \/ KeepProfile(t), UNCHANGED libraryVars
      PROVE  ViewStep
  BY <1>7, MovesNoRemoval DEF RunProbe, KeepProfile, Change, configVars, jobVars, libraryVars, ViewStep
<1>8. CASE UiProbes
  <2>1. CASE ListCores
    BY <1>8, <2>1, MovesNoRemoval DEF UiProbes, ListCores, configVars, jobVars, libraryVars, ViewStep
  <2> QED BY <1>7, <1>8, <2>1 DEF UiProbes, Thread
<1>9. CASE Polls
  <2>1. app = "on" /\ app' = "on" /\ job' = NoJob /\ Poll
    BY <1>9 DEF Polls, UiFree, Poll, Taken, configVars
  <2>2. NoJob.kind # "remove" /\ SameRemoval
    BY <2>1, MovesNoRemoval DEF NoJob
  <2>3. CASE job.at = "done" /\ job.kind = "remove"
    <3>1. rows' \in {rows, Listed(scope)} /\ selected' = {} /\ UNCHANGED scope /\ Disarms
      BY <2>1, <2>3 DEF Poll
    <3>2. rows' \subseteq 1..Rows
      BY <3>1, ListedRows DEF LibraryTypes
    <3> QED BY <2>1, <2>2, <3>1, <3>2, DisarmsDisarmed DEF LibraryTypes, ViewStep
  <2>4. CASE Shows(scope)
    BY <2>1, <2>2, <2>4, ShownView DEF Poll, LibraryTypes
  <2>5. CASE UNCHANGED <<rows, selected, armed, asked>>
    BY <2>1, <2>2, <2>5 DEF Poll, viewVars, ViewStep
  <2>6. job.at # "done" => UNCHANGED <<rows, selected, armed, asked>>
    BY <2>1 DEF Poll
  <2>7. job.at = "done" /\ job.kind # "remove" => MayShow(scope)
    BY <2>1 DEF Poll
  <2> QED BY <2>3, <2>4, <2>5, <2>6, <2>7 DEF MayShow
<1>10. CASE Installs
  <2>1. CASE RunProbe("job") \/ KeepProfile("job")
    BY <1>7, <1>10, <2>1 DEF Installs, Thread
  <2>2. ASSUME UNCHANGED <<app, libraryVars>>, SameRemoval
        PROVE  ViewStep
    BY <2>2 DEF libraryVars, ViewStep
  <2>3. CASE Copy
    <3>1. ~Ended /\ (job' = job \/ job' = [job EXCEPT !.at = "verify"] \/ Finish("failed"))
      BY <2>3 DEF Copy, Ended
    <3> QED BY <1>10, <2>2, <2>3, <3>1, MovesNoRemoval DEF Installs, Copy, configVars
  <2>4. CASE Prepare \/ Download \/ Create \/ Verify \/ ProbeInstalled \/ Probed
    BY <1>10, <2>2, <2>4, MovesNoRemoval
       DEF Installs, Prepare, Download, Create, Verify, ProbeInstalled, Probed, configVars, Ended
  <2> QED BY <1>10, <2>1, <2>3, <2>4 DEF Installs
<1>11. CASE Sees
  <2>1. ASSUME UNCHANGED <<app, viewVars>>, SameRemoval
        PROVE  ViewStep
    BY <2>1 DEF ViewStep
  <2>2. CASE Remove \/ ListDone
    BY <2>1, <2>2, MovesNoRemoval DEF Remove, ListDone, configVars, libraryVars
  <2>3. ASSUME job.at \in {"list", "each", "name"}, job'.kind = job.kind, job'.ids = job.ids
        PROVE  SameRemoval
    BY <2>3 DEF SameRemoval, Ended
  <2>4. CASE ListGames
    <3>1. Finish("failed") \/ (job'.kind = job.kind /\ job'.ids = job.ids)
      BY <2>4 DEF ListGames, JobTypes, Jobs
    <3> QED BY <2>1, <2>3, <2>4, <3>1, MovesNoRemoval DEF ListGames, configVars, libraryVars
  <2>5. CASE NameCover
    BY <2>1, <2>3, <2>5 DEF NameCover, JobTypes, Jobs, configVars
  <2>6. ASSUME NEW g \in Game, ScanGame(g) \/ RelinkGame(g) \/ PassGame(g)
        PROVE  ViewStep
    BY <2>1, <2>6, MovesNoRemoval DEF ScanGame, RelinkGame, PassGame, configVars, libraryVars, Ended
  <2>7. ASSUME NEW g \in Game, WriteCover(g)
        PROVE  ViewStep
    BY <2>1, <2>3, <2>7 DEF WriteCover, Seen, JobTypes, Jobs, configVars
  <2> QED BY <1>11, <2>2, <2>4, <2>5, <2>6, <2>7 DEF Sees
<1>12. CASE UNCHANGED vars
  BY <1>12, MovesNoRemoval DEF vars, configVars, jobVars, libraryVars, ViewStep
<1> QED
  BY <1>1, <1>2, <1>4, <1>5, <1>6, <1>8, <1>9, <1>10, <1>11, <1>12 DEF Next, Person, Works

\* The types of what a person sees, apart from those of the library.
ViewTypes ==
    /\ scope \in Scopes /\ armed \in BOOLEAN
    /\ rows \subseteq 1..Rows /\ selected \subseteq 1..Rows /\ asked \subseteq 1..Rows

\* What was asked for stays what is removed, and selected what is listed.
LEMMA ViewKept ==
    ASSUME TypeOK, IInv, ViewStep
    PROVE  ViewTypes' /\ ViewKnown'
<1> USE DEF TypeOK, IInv, LibraryTypes, ViewTypes
<1>1. CASE UNCHANGED viewVars /\ SameRemoval /\ (app' = app \/ app # "on")
  BY <1>1 DEF viewVars, ViewKnown, RemovesWhatWasAsked, SameRemoval, Ended
<1>2. CASE /\ app' = "on" /\ scope' \in Scopes
           /\ rows' \subseteq 1..Rows /\ selected' \subseteq rows' /\ Disarmed
  BY <1>2 DEF ViewKnown, RemovesWhatWasAsked, Disarmed, Ended
<1>3. CASE /\ app' = "on" /\ selected = {} /\ rows' \subseteq 1..Rows
           /\ UNCHANGED <<job, scope, selected, armed, asked>>
  BY <1>3 DEF ViewKnown, RemovesWhatWasAsked, Ended
<1>4. CASE app' = "on" /\ AskRemove
  <2>1. job.kind # "remove" /\ job' = job
    BY <1>4 DEF AskRemove, jobVars, AtWork, NoJob
  <2> QED BY <1>4, <2>1 DEF AskRemove, ViewKnown, RemovesWhatWasAsked, Ended
<1>5. CASE Stops
  <2>1. job'.kind # "remove"
    BY <1>5 DEF Stops, JobsEnd, NoJob
  <2> QED BY <1>5, <2>1, LibraryAssumption DEF Stops, ViewKnown, RemovesWhatWasAsked, Ended
<1> QED BY <1>1, <1>2, <1>3, <1>4, <1>5 DEF ViewStep

-----------------------------------------------------------------------------
(* The library, and the jobs that are about it.                             *)

\* What the library holds.
RowTypes ==
    /\ there \subseteq Game /\ next \in 1..Rows + 1
    /\ library \in [Game -> [id : 0..Rows, cover : BOOLEAN]]
    /\ image \in [Game -> {"none", "own", "fetched", "cut"}]

\* A step of a job, or its beginning or end, that leaves the library alone.
QuietJob ==
    \/ UNCHANGED job
    \/ job'.images = {} /\ job'.now = {} /\ job'.todo = {} /\ job'.at # "name"
    \/ /\ job'.images = job.images /\ job'.now = job.now /\ job'.todo = job.todo
       /\ job'.kind = job.kind /\ job.at # "name" /\ job'.at # "name"

\* What a step may do to the library and the covers.
LibraryStep ==
    \/ UNCHANGED <<library, next, image>> /\ there' \subseteq Game /\ QuietJob
    \/ \E g \in Game : MoveCover(g)
    \/ Remove \/ ListGames \/ NameCover
    \/ \E g \in Game : ScanGame(g) \/ RelinkGame(g) \/ PassGame(g) \/ WriteCover(g)

\* The beginnings, the ends and the other steps of jobs are quiet.
LEMMA QuietSteps ==
    ASSUME JobTypes, CoversKnown
    PROVE  /\ \A end \in {"done", "failed"} : Finish(end) => QuietJob
           /\ job.at # "name" /\ (\E at \in {"download", "create", "copy", "verify", "probe", "probing", "list"} :
                 job' = [job EXCEPT !.at = at]) => QuietJob
           /\ \A kind \in {"catalog", "dependency", "setup", "scan", "relink", "scrape"},
                 games \in Scopes \cup {{}}, at \in {"prepare", "download", "list"} :
                    job' = [NoJob EXCEPT !.kind = kind, !.games = games, !.at = at] => QuietJob
           /\ \A ids : job' = [NoJob EXCEPT !.kind = "remove", !.at = "remove", !.ids = ids] => QuietJob
           /\ job' = NoJob => QuietJob
<1> USE DEF QuietJob
<1>1. \A end \in {"done", "failed"} : Finish(end) => QuietJob
  BY DEF Finish, NoJob
<1>2. job.at # "name" /\ (\E at \in {"download", "create", "copy", "verify", "probe", "probing", "list"} :
                 job' = [job EXCEPT !.at = at]) => QuietJob
  BY DEF JobTypes, Jobs
<1>3. \A kind \in {"catalog", "dependency", "setup", "scan", "relink", "scrape"},
         games \in Scopes \cup {{}}, at \in {"prepare", "download", "list"} :
            job' = [NoJob EXCEPT !.kind = kind, !.games = games, !.at = at] => QuietJob
  BY DEF NoJob
<1>4. \A ids : job' = [NoJob EXCEPT !.kind = "remove", !.at = "remove", !.ids = ids] => QuietJob
  BY DEF NoJob
<1>5. job' = NoJob => QuietJob
  BY DEF NoJob
<1> QED BY <1>1, <1>2, <1>3, <1>4, <1>5

\* Every step does to the library and the covers one of a few things.
LEMMA LibraryForm ==
    ASSUME TypeOK, IInv, [Next]_vars
    PROVE  LibraryStep
<1> USE DEF TypeOK, IInv
<1>1. ASSUME UNCHANGED <<library, next, image>>, there' \subseteq Game, QuietJob
      PROVE  LibraryStep
  BY <1>1 DEF LibraryStep
<1>2. ASSUME UNCHANGED <<library, next, image, there>>, UNCHANGED job
      PROVE  LibraryStep
  BY <1>1, <1>2 DEF LibraryTypes, QuietJob
<1>3. CASE Process
  <2>1. CASE Starts \/ Opens
    BY <1>2, <2>1 DEF Starts, Opens, jobVars, libraryVars
  <2>2. CASE Stops
    BY <1>1, <2>2, QuietSteps DEF Stops, JobsEnd, LibraryTypes
  <2> QED BY <1>3, <2>1, <2>2 DEF Process
<1>4. CASE Settings
  BY <1>2, <1>4 DEF Settings, jobVars
<1>5. ASSUME NEW kind \in {"catalog", "dependency", "setup"}, NEW games \in Scopes \cup {{}},
             Installing(kind, games)
      PROVE  LibraryStep
  <2>1. \E at \in {"prepare", "download"} :
           job' = [NoJob EXCEPT !.kind = kind, !.games = games, !.at = at]
    BY <1>5 DEF Installing, BeginInstall, Begin
  <2>2. UNCHANGED <<library, next, image, there>>
    BY <1>5 DEF Installing
  <2> QED BY <1>1, <2>1, <2>2, QuietSteps DEF LibraryTypes
<1>6. CASE Cores \/ Setup
  <2>1. CASE (ByHand \/ Discover) /\ UNCHANGED libraryVars
    BY <1>2, <2>1 DEF ByHand, Discover, jobVars, libraryVars
  <2> QED BY <1>5, <1>6, <2>1 DEF Cores, Setup
<1>7. CASE Sessions
  BY <1>2, <1>7 DEF Sessions, Launch, StopPlaying, libraryVars
<1>8. CASE List \/ Covers
  <2>1. ASSUME NEW j, Begins(j), job' = j => QuietJob
        PROVE  LibraryStep
    BY <1>1, <2>1 DEF Begins, Begin, LibraryTypes
  <2>2. CASE BeginRemove
    BY <2>1, <2>2, QuietSteps DEF BeginRemove
  <2>3. CASE BeginScan
    BY <2>1, <2>3 DEF BeginScan, QuietJob, NoJob
  <2>4. ASSUME NEW kind \in {"relink", "scrape"}, NEW s \in Scopes, BeginCovers(kind, s)
        PROVE  LibraryStep
    BY <2>1, <2>4 DEF BeginCovers, QuietJob, NoJob
  <2>5. CASE Refresh \/ AskRemove \/ CloseView \/ (\E s \in Scopes : ChooseScope(s)) \/ \E r \in rows : Toggle(r)
    BY <1>2, <2>5 DEF Refresh, AskRemove, CloseView, ChooseScope, Toggle, jobVars
  <2>6. ASSUME NEW g \in Game, MoveGame(g)
        PROVE  LibraryStep
    BY <1>1, <2>6 DEF MoveGame, jobVars, LibraryTypes, QuietJob
  <2>7. CASE \E g \in Game : MoveCover(g)
    BY <2>7 DEF LibraryStep
  <2> QED BY <1>8, <2>2, <2>3, <2>4, <2>5, <2>6, <2>7 DEF List, Covers
<1>9. CASE UiProbes
  BY <1>2, <1>9 DEF UiProbes, ListCores, RunProbe, KeepProfile, jobVars, libraryVars
<1>10. CASE Polls
  BY <1>1, <1>10, QuietSteps DEF Polls, Poll, Taken, LibraryTypes
<1>11. CASE Installs
  <2>1. CASE RunProbe("job") \/ KeepProfile("job")
    BY <1>2, <1>11, <2>1 DEF Installs, RunProbe, KeepProfile, jobVars, libraryVars
  <2>2. CASE Copy
    <3>1. job.at # "name" /\ (job' = job \/ job' = [job EXCEPT !.at = "verify"] \/ Finish("failed"))
      BY <2>2 DEF Copy
    <3> QED BY <1>1, <1>2, <1>11, <3>1, QuietSteps DEF Installs, libraryVars, LibraryTypes
  <2>3. CASE Prepare \/ Download \/ Create \/ Verify \/ ProbeInstalled \/ Probed
    <3>1. QuietJob
      BY <2>3, QuietSteps DEF Prepare, Download, Create, Verify, ProbeInstalled, Probed
    <3> QED BY <1>1, <1>11, <3>1 DEF Installs, libraryVars, LibraryTypes
  <2> QED BY <1>11, <2>1, <2>2, <2>3 DEF Installs
<1>12. CASE Sees
  <2>1. CASE ListDone
    BY <1>1, <2>1, QuietSteps DEF ListDone, libraryVars, LibraryTypes
  <2> QED BY <1>12, <2>1 DEF Sees, LibraryStep
<1>13. CASE UNCHANGED vars
  BY <1>2, <1>13 DEF vars, jobVars, libraryVars
<1> QED
  BY <1>3, <1>4, <1>6, <1>7, <1>8, <1>9, <1>10, <1>11, <1>12, <1>13 DEF Next, Person, Works

\* What a step of a job may do to the covers: the step that CoversKept speaks of.
KeepsCovers ==
    job # NoJob =>
        \A g \in Game :
            /\ Covered(g) => /\ image'[g] = image[g]
                             /\ library'[g].id = library[g].id => library'[g].cover
            /\ library'[g].cover /\ ~library[g].cover => image'[g] # "none"

\* A job that saw a game, or ended.
Goes(g) ==
    \/ Seen(g)
    \/ \E end \in {"done", "failed"} : Finish(end)

\* The library and the covers stay what the jobs know of them.
LEMMA LibraryKept ==
    ASSUME TypeOK, IInv, LibraryStep
    PROVE  RowTypes' /\ CoversKnown' /\ KeepsCovers
<1> USE DEF TypeOK, IInv
<1>1. /\ there \subseteq Game /\ next \in 1..Rows + 1
      /\ library \in [Game -> [id : 0..Rows, cover : BOOLEAN]]
      /\ image \in [Game -> {"none", "own", "fetched", "cut"}]
      /\ \A g \in Game : library[g] = [id |-> library[g].id, cover |-> library[g].cover]
      /\ \A g \in Game : library[g].id \in 0..Rows /\ library[g].cover \in BOOLEAN
  BY DEF LibraryTypes
<1>2. /\ job = [kind |-> job.kind, at |-> job.at, games |-> job.games, todo |-> job.todo,
                now |-> job.now, images |-> job.images, ids |-> job.ids]
      /\ job.games \subseteq Game /\ job.todo \subseteq Game /\ job.now \subseteq Game
      /\ job.images \subseteq HasImage
      /\ job.at = "name" => \E g \in HasImage : job.now = {g}
      /\ job.at # "name" => job.now = {}
      /\ job.kind = "scrape" => \A g \in job.todo \ job.now : ~Covered(g)
  BY LibraryAssumption DEF JobTypes, Jobs, CoversKnown
<1>3. /\ \A end \in {"done", "failed"} :
            Finish(end) => /\ job'.images = {} /\ job'.now = {} /\ job'.todo = {}
                           /\ job'.at # "name" /\ job'.kind = job.kind
      /\ \A g \in Game :
            Seen(g) => /\ job'.images = job.images /\ job'.now = job.now /\ job'.todo = job.todo \ {g}
                       /\ job'.at = job.at /\ job'.kind = job.kind
  BY <1>2 DEF Finish, NoJob, Seen
<1>4. CASE UNCHANGED <<library, next, image>> /\ there' \subseteq Game /\ QuietJob
  BY <1>1, <1>2, <1>4 DEF QuietJob, RowTypes, CoversKnown, KeepsCovers, HasImage, Covered, HasRow
<1>5. ASSUME NEW g \in Game, MoveCover(g)
      PROVE  RowTypes' /\ CoversKnown' /\ KeepsCovers
  <2>1. job' = NoJob /\ job = NoJob /\ UNCHANGED <<there, library, next>>
    BY <1>5 DEF MoveCover, jobVars
  <2>2. image' \in [Game -> {"none", "own", "fetched", "cut"}]
    BY <1>1, <1>5 DEF MoveCover
  <2> QED BY <1>1, <2>1, <2>2 DEF RowTypes, CoversKnown, KeepsCovers, NoJob
<1>6. CASE Remove
  <2>1. /\ job'.images = {} /\ job'.now = {} /\ job'.todo = {} /\ job'.at # "name"
        /\ UNCHANGED <<there, next, image>>
    BY <1>3, <1>6 DEF Remove
  <2>2. /\ library' \in [Game -> [id : 0..Rows, cover : BOOLEAN]]
        /\ \A g \in Game : library'[g] = library[g] \/ (library'[g].id = 0 /\ library'[g].cover = FALSE)
    <3>1. CASE UNCHANGED library
      BY <1>1, <3>1
    <3>2. CASE library' = [g \in Game |-> IF library[g].id \in job.ids
                                         THEN [id |-> 0, cover |-> FALSE] ELSE library[g]]
      <4>1. \A g \in Game : library'[g] = IF library[g].id \in job.ids
                                        THEN [id |-> 0, cover |-> FALSE] ELSE library[g]
        BY <3>2
      <4>2. [id |-> 0, cover |-> FALSE] \in [id : 0..Rows, cover : BOOLEAN]
        BY LibraryAssumption
      <4>3. \A g \in Game : library'[g] \in [id : 0..Rows, cover : BOOLEAN]
        BY <1>1, <4>1, <4>2
      <4> QED BY <3>2, <4>1, <4>3
    <3> QED BY <1>6, <3>1, <3>2 DEF Remove
  <2> QED BY <1>1, <2>1, <2>2 DEF RowTypes, CoversKnown, KeepsCovers, Covered, HasRow
<1>7. CASE ListGames
  <2>1. UNCHANGED <<there, library, next, image>> /\ job.now = {}
    BY <1>2, <1>7 DEF ListGames, libraryVars
  <2>2. CASE Finish("failed")
    BY <1>1, <1>3, <2>1, <2>2 DEF RowTypes, CoversKnown, KeepsCovers, Covered
  <2>3. ASSUME NEW todo \in Todos,
               job' = [job EXCEPT !.at = "each", !.todo = todo, !.images = HasImage]
        PROVE  RowTypes' /\ CoversKnown' /\ KeepsCovers
    <3>1. /\ job'.at = "each" /\ job'.images = HasImage /\ job'.now = {} /\ job'.kind = job.kind
          /\ job'.todo = todo
      BY <1>2, <2>1, <2>3
    <3>2. job.kind = "scrape" => \A g \in todo : ~Covered(g)
      BY <2>3 DEF Todos, Candidates
    <3> QED BY <1>1, <2>1, <3>1, <3>2 DEF RowTypes, CoversKnown, KeepsCovers, HasImage, Covered, HasRow
  <2> QED BY <1>7, <2>2, <2>3 DEF ListGames
<1>8. CASE NameCover
  <2>1. PICK g \in HasImage : /\ job.now = {g} /\ g \in Game
                              /\ library' = [library EXCEPT ![g].cover = TRUE] \/ UNCHANGED library
                              /\ job' = [job EXCEPT !.at = "each", !.now = {}, !.todo = @ \ {g}]
    BY <1>2, <1>8 DEF NameCover, HasImage
  <2>2. /\ job'.at = "each" /\ job'.images = job.images /\ job'.now = {} /\ job'.kind = job.kind
        /\ job'.todo = job.todo \ {g} /\ UNCHANGED <<there, next, image>>
    BY <1>2, <1>8, <2>1 DEF NameCover
  <2>3. /\ library' \in [Game -> [id : 0..Rows, cover : BOOLEAN]]
        /\ \A h \in Game \ {g} : library'[h] = library[h]
        /\ library'[g].id = library[g].id /\ library[g].cover => library'[g].cover
    BY <1>1, <2>1
  <2> QED BY <1>1, <1>2, <2>1, <2>2, <2>3 DEF RowTypes, CoversKnown, KeepsCovers, HasImage, Covered, HasRow
<1>9. ASSUME NEW g \in Game, ScanGame(g) \/ RelinkGame(g)
      PROVE  RowTypes' /\ CoversKnown' /\ KeepsCovers
  <2>1. /\ job.kind # "scrape" /\ job.at = "each" /\ UNCHANGED <<there, image>>
        /\ Goes(g)
    BY <1>9 DEF ScanGame, RelinkGame, Goes
  <2>2. /\ job'.images \subseteq job.images /\ job'.now = {} /\ job'.at # "name" /\ job'.kind = job.kind
    BY <1>2, <1>3, <2>1 DEF Goes
  <2>3. next' \in 1..Rows + 1
    BY <1>1, <1>9, LibraryAssumption DEF ScanGame, RelinkGame
  <2>4. \/ UNCHANGED library
        \/ /\ library' = [library EXCEPT ![g].cover = library[g].cover \/ g \in job.images]
        \/ /\ ~HasRow(g) /\ next <= Rows
           /\ library' = [library EXCEPT ![g] = [id |-> next, cover |-> library[g].cover \/ g \in job.images]]
        \/ /\ g \in job.images /\ library' = [library EXCEPT ![g].cover = TRUE]
    BY <1>9 DEF ScanGame, RelinkGame
  <2>5. /\ library' \in [Game -> [id : 0..Rows, cover : BOOLEAN]]
        /\ \A h \in Game \ {g} : library'[h] = library[h]
        /\ library[g].cover => library'[g].cover
        /\ library'[g].cover => library[g].cover \/ g \in job.images
    <3>1. CASE library' = [library EXCEPT ![g].cover = library[g].cover \/ g \in job.images]
      BY <1>1, <3>1
    <3>2. CASE /\ ~HasRow(g) /\ next <= Rows
               /\ library' = [library EXCEPT ![g] = [id |-> next, cover |-> library[g].cover \/ g \in job.images]]
      <4>1. [id |-> next, cover |-> library[g].cover \/ g \in job.images] \in [id : 0..Rows, cover : BOOLEAN]
        BY <1>1, <3>2, LibraryAssumption
      <4> QED BY <1>1, <3>2, <4>1
    <3>3. CASE g \in job.images /\ library' = [library EXCEPT ![g].cover = TRUE]
      BY <1>1, <3>3
    <3> QED BY <1>1, <2>4, <3>1, <3>2, <3>3
  <2> QED BY <1>1, <1>2, <2>1, <2>2, <2>3, <2>5 DEF RowTypes, CoversKnown, KeepsCovers, HasImage, Covered, HasRow
<1>10. ASSUME NEW g \in Game, PassGame(g)
       PROVE  RowTypes' /\ CoversKnown' /\ KeepsCovers
  <2>1. Seen(g) /\ UNCHANGED <<there, library, next, image>>
    BY <1>10 DEF PassGame, libraryVars
  <2> QED BY <1>1, <1>2, <1>3, <2>1 DEF RowTypes, CoversKnown, KeepsCovers, HasImage, Covered, HasRow
<1>11. ASSUME NEW g \in Game, WriteCover(g)
       PROVE  RowTypes' /\ CoversKnown' /\ KeepsCovers
  <2>1. /\ job.kind = "scrape" /\ job.at = "each" /\ g \in job.todo /\ job.now = {}
        /\ UNCHANGED <<there, library, next>> /\ ~Covered(g)
    BY <1>2, <1>11 DEF WriteCover
  <2>2. /\ image' \in [Game -> {"none", "own", "fetched", "cut"}]
        /\ image'[g] # "none" /\ \A h \in Game \ {g} : image'[h] = image[h]
    BY <1>1, <1>11 DEF WriteCover
  <2>3. /\ job'.images = job.images /\ job'.kind = job.kind
        /\ \/ job'.at = "name" /\ job'.now = {g} /\ job'.todo = job.todo
           \/ job'.at = "each" /\ job'.now = {} /\ job'.todo = job.todo \ {g}
    BY <1>2, <1>3, <1>11, <2>1 DEF WriteCover
  <2> QED BY <1>1, <1>2, <2>1, <2>2, <2>3 DEF RowTypes, CoversKnown, KeepsCovers, HasImage, Covered, HasRow
<1> QED
  BY <1>4, <1>5, <1>6, <1>7, <1>8, <1>9, <1>10, <1>11 DEF LibraryStep

-----------------------------------------------------------------------------
(* The theorems.                                                            *)

\* A program that was never started has the defaults, no core and an empty library.
LEMMA Initial ==
    Init => TypeOK /\ IInv
<1> SUFFICES ASSUME Init PROVE TypeOK /\ IInv
  OBVIOUS
<1> USE DEF Init, ConfigInit, JobsInit, CoreInit, LibraryInit, ViewInit
<1>1. NoCore \in Files /\ NoProfile \in Profiles /\ Idle \in Probes
  BY CoreAssumption DEF NoCore, NoProfile, Idle, Files, Profiles, Probes
<1>2. Settled(Fresh)
  BY <1>1, Groups, ConfigAssumption DEF Settled, Fresh
<1>3. ConfigTypes
  BY <1>2, Groups DEF ConfigTypes, Missing
<1>4. JobTypes
  BY NewJobs DEF JobTypes
<1>5. CoreTypes
  BY <1>1, CoreAssumption DEF CoreTypes
<1>6. LibraryTypes
  <2>1. [id |-> 0, cover |-> FALSE] \in [id : 0..Rows, cover : BOOLEAN] /\ 1 \in 1..Rows + 1
    BY LibraryAssumption
  <2>2. library \in [Game -> [id : 0..Rows, cover : BOOLEAN]]
    BY <2>1
  <2> QED BY <2>1, <2>2, LibraryAssumption DEF LibraryTypes
<1>7. AtWork
  BY DEF AtWork
<1>8. SettingsKept
  BY Groups DEF SettingsKept, Missing
<1>9. ProfilesSound
  BY Groups DEF ProfilesSound, Sound, Missing, Fresh, NoProfile
<1>10. CoreKnown
  BY DEF CoreKnown, NoJob, Idle
<1>11. ViewKnown
  BY DEF ViewKnown, RemovesWhatWasAsked, NoJob
<1>12. CoversKnown
  BY DEF CoversKnown, NoJob
<1> QED
  BY <1>3, <1>4, <1>5, <1>6, <1>7, <1>8, <1>9, <1>10, <1>11, <1>12 DEF TypeOK, IInv

\* Every step keeps the types and the invariant, and keeps the covers.
LEMMA StepKeeps ==
    ASSUME TypeOK, IInv, [Next]_vars
    PROVE  TypeOK' /\ IInv' /\ KeepsCovers
<1>1. ConfigStep /\ CoreStep /\ JobStep /\ ViewStep /\ LibraryStep
  BY ConfigForm, CoreForm, JobForm, ViewForm, LibraryForm
<1>2. ConfigTypes' /\ SettingsKept'
  BY <1>1, SettingsStep DEF TypeOK, IInv
<1>3. CoreTypes' /\ CoreKnown' /\ latest' >= latest
  BY <1>1, CoreKept
<1>4. latest' \in Nat
  BY <1>3, CoreAssumption DEF CoreTypes
<1>5. ProfilesSound'
  BY <1>1, <1>3, <1>4, SoundKept
<1>6. JobTypes' /\ AtWork'
  BY <1>1, JobKept
<1>7. ViewTypes' /\ ViewKnown'
  BY <1>1, ViewKept
<1>8. RowTypes' /\ CoversKnown' /\ KeepsCovers
  BY <1>1, LibraryKept
<1>9. LibraryTypes'
  BY <1>7, <1>8 DEF ViewTypes, RowTypes, LibraryTypes
<1> QED
  BY <1>2, <1>3, <1>5, <1>6, <1>7, <1>8, <1>9 DEF TypeOK, IInv

\* The types and the invariant hold whatever a person does, wherever writes break off, and
\* whenever the program ends.
THEOREM Invariance == Spec => [](TypeOK /\ IInv)
<1>1. TypeOK /\ IInv /\ [Next]_vars => (TypeOK /\ IInv)'
  BY StepKeeps
<1> QED BY <1>1, Initial, PTL DEF Spec

\* The variables have their types.
THEOREM TypesHold == Spec => []TypeOK
BY Invariance, PTL

\* A setting that was reported as saved is what the program uses and what its file holds,
\* though a job, a probe and the menus save the whole configuration from two threads.
THEOREM SettingsAreKept == Spec => []SettingsKept
<1>1. TypeOK /\ IInv => SettingsKept
  BY DEF IInv
<1> QED BY <1>1, Invariance, PTL

\* A profile that counts as that of the core's file was found in that very file, however
\* many versions were installed or put there while probes were at work.
THEOREM ProfilesMatchTheirFile == Spec => []ProfileOfItsFile
<1>1. TypeOK /\ IInv => ProfileOfItsFile
  <2>1. SUFFICES ASSUME TypeOK, IInv, Matches(memory["profiles"], core)
                 PROVE  memory["profiles"].version = core.version
    BY DEF ProfileOfItsFile
  <2>2. memory["profiles"].label = core /\ core # NoCore
    BY <2>1 DEF Matches
  <2>3. core.version = latest /\ latest \in Nat
    BY <2>1, <2>2, CoreAssumption DEF IInv, CoreKnown, TypeOK, CoreTypes
  <2> QED BY <2>1, <2>2, <2>3 DEF IInv, ProfilesSound, Sound
<1> QED BY <1>1, Invariance, PTL

\* What a removal removes was shown as selected when it was asked for.
THEOREM RemovalsAreAsked == Spec => []RemovesWhatWasAsked
<1>1. TypeOK /\ IInv => RemovesWhatWasAsked
  BY DEF IInv, ViewKnown
<1> QED BY <1>1, Invariance, PTL

\* No job overwrites or forgets a cover that is there, or names one that is not.
THEOREM CoversAreKept == Spec => CoversKept
<1>1. TypeOK /\ IInv /\ [Next]_vars => KeepsCovers
  BY StepKeeps
<1>2. [][KeepsCovers]_vars <=> CoversKept
  BY DEF CoversKept, KeepsCovers
<1> QED BY <1>1, <1>2, Invariance, PTL DEF Spec

=============================================================================
