------------------------------ MODULE CoreFiles ------------------------------
(***************************************************************************)
(* One libretro core as a file: installed in place by a job, replaced by   *)
(* hand, probed for its options by that job or by the UI thread, loaded by *)
(* a launch.  What a probe finds is kept in the settings, with a label     *)
(* that tells the file it was found in.                                    *)
(***************************************************************************)
EXTENDS ManageJobs

CONSTANT Versions  \* bound: files that are ever written

ASSUME CoreAssumption == Versions \in Nat

VARIABLES
    core,   \* the file
    latest, \* the last version that was written
    probe   \* of each thread: where it is in a probe, and what it knows

coreVars == <<core, latest, probe>>

Thread == {"ui", "job"}
Idle   == [at |-> "idle", known |-> NoProfile, label |-> NoCore, found |-> 0]

CoreInit == core = NoCore /\ latest = 0 /\ probe = [t \in Thread |-> Idle]

\* The UI thread is in no session and in no probe.
UiFree == app = "on" /\ ~playing /\ probe["ui"] = Idle

\* With the process its probes are gone.
ProbesEnd == probe' = [t \in Thread |-> Idle]

\* dynamic_profile_matches_core_file
Matches(p, f) == p.label # NoCore /\ p.label = f

-----------------------------------------------------------------------------
\* A person puts a core there, or takes it away.
ByHand ==
    /\ \/ /\ latest + 1 < Versions /\ latest' = latest + 1
          /\ core' = [version |-> latest', size |-> "whole"]
       \/ core # NoCore /\ core' = NoCore /\ UNCHANGED latest
    /\ UNCHANGED <<configVars, jobVars, probe>>

\* A launch loads the core and keeps what it saw of its options, with no label.
Launch ==
    /\ UiFree
    /\ playing' = TRUE
    /\ LET c == WithProfile([version |-> core.version, label |-> NoCore])
       IN  \/ core.size = "whole" /\ Change(c, {"profiles"})
           \/ UNCHANGED configVars
    /\ UNCHANGED <<running, job, coreVars>>

StopPlaying ==
    /\ playing /\ playing' = FALSE
    /\ UNCHANGED <<configVars, running, job, coreVars>>

-----------------------------------------------------------------------------
(* A probe: the metadata of the file, then a process that loads it, then    *)
(* the profile that it found.                                               *)

Labelled(known) == [Idle EXCEPT !.at = "labelled", !.known = known, !.label = core]

\* The process loads what is there now; it may fail, or find no options.
RunProbe(t) ==
    /\ probe[t].at = "labelled"
    /\ \/ /\ core.size = "whole"
          /\ probe' = [probe EXCEPT ![t] = [@ EXCEPT !.at = "ran", !.found = core.version]]
       \/ probe' = [probe EXCEPT ![t] = Idle]
    /\ UNCHANGED <<configVars, jobVars, core, latest>>

\* Mutant: the label is that of the file once the process has run.
FoundNow(t) == [version |-> probe[t].found, label |-> core]

Found(t) == [version |-> probe[t].found, label |-> probe[t].label]

\* update_discovered_core_profile
KeepProfile(t) ==
    /\ probe[t].at = "ran"
    /\ Change(WithProfile(Found(t)), {"profiles"})
    /\ probe' = [probe EXCEPT ![t] = Idle]
    /\ UNCHANGED <<jobVars, core, latest>>

\* prune_missing_discovered_core_profiles: a profile with a label goes with its file.
Pruned == IF memory["profiles"].label # NoCore /\ core = NoCore THEN NoProfile
          ELSE memory["profiles"]

\* discover_installed_core_options, up to its snapshot of the settings
Discover ==
    /\ UiFree
    /\ LET listing == [Idle EXCEPT !.at = "listing", !.known = Pruned]
       IN  IF Pruned = memory["profiles"]
           THEN UNCHANGED configVars /\ probe' = [probe EXCEPT !["ui"] = listing]
           ELSE /\ \/ /\ Saved(WithProfile(Pruned), {"profiles"})
                      /\ probe' = [probe EXCEPT !["ui"] = listing]
                   \/ Unsaved(WithProfile(Pruned), {"profiles"}) /\ UNCHANGED probe
                /\ UNCHANGED <<rig, app>>
    /\ UNCHANGED <<jobVars, core, latest>>

\* Each core that is there is probed, unless the profile in the snapshot is that of this file.
ListCores ==
    /\ probe["ui"].at = "listing"
    /\ LET known == probe["ui"].known
       IN  probe' = [probe EXCEPT !["ui"] =
                        IF core = NoCore \/ Matches(known, core) THEN Idle ELSE Labelled(known)]
    /\ UNCHANGED <<configVars, jobVars, core, latest>>

-----------------------------------------------------------------------------
(* A job installs a core: one of the catalog, which it probes; one that     *)
(* something depends on; or those of a setup, which then scans for games.   *)

BeginInstall(kind, games) ==
    /\ UiFree /\ latest < Versions
    /\ Begin([NoJob EXCEPT !.kind = kind, !.games = games,
                           !.at = IF kind = "setup" THEN "prepare" ELSE "download"])
    /\ UNCHANGED <<configVars, coreVars>>

\* Mutant: a setup that cannot be prepared ends without a word.
PrepareOrVanish ==
    /\ job.at = "prepare"
    /\ \/ /\ Saved(Welcomed, {"welcome"})
          /\ \E at \in {"download", "list"} : job' = [job EXCEPT !.at = at]
       \/ Unsaved(Welcomed, {"welcome"}) /\ job' = NoJob
    /\ UNCHANGED <<rig, app, playing, running, coreVars>>

\* prepare_safe_runtime_setup, in the thread of the job; cores may be missing, or all there.
\* apply_platform_defaults adds core variables that are absent and never changes one: they
\* are taken as there from the start.
Prepare ==
    /\ job.at = "prepare"
    /\ \/ /\ Saved(Welcomed, {"welcome"})
          /\ \E at \in {"download", "list"} : job' = [job EXCEPT !.at = at]
       \/ Unsaved(Welcomed, {"welcome"}) /\ Finish("failed")
    /\ UNCHANGED <<rig, app, playing, running, coreVars>>

\* The archive may not come, and may not hold the core.
Download ==
    /\ job.at = "download"
    /\ job' = [job EXCEPT !.at = "create"] \/ Finish("failed")
    /\ UNCHANGED <<configVars, playing, running, coreVars>>

\* extract_buildbot_archive_bytes: File::create cuts off what is there.
Create ==
    /\ job.at = "create"
    /\ \/ /\ latest' = latest + 1
          /\ core' = [version |-> latest', size |-> "empty"]
          /\ job' = [job EXCEPT !.at = "copy"]
       \/ Finish("failed") /\ UNCHANGED <<core, latest>>
    /\ UNCHANGED <<configVars, playing, running, probe>>

\* io::copy, unless a person has put another file there or taken it away.
Mine == core.size \in {"empty", "part"}

Copy ==
    /\ job.at = "copy"
    /\ \/ core.size = "empty" /\ core' = [core EXCEPT !.size = "part"] /\ UNCHANGED job
       \/ /\ core' = IF Mine THEN [core EXCEPT !.size = "whole"] ELSE core
          /\ job' = [job EXCEPT !.at = "verify"]
       \/ UNCHANGED core /\ Finish("failed")
    /\ UNCHANGED <<configVars, playing, running, latest, probe>>

\* verify_installed_core_file, ad_hoc_codesign and the state of the catalog, or of the
\* dependencies, after it
Verify ==
    /\ job.at = "verify"
    /\ \/ /\ core.size \in {"part", "whole"}
          /\ CASE job.kind = "catalog"    -> job' = [job EXCEPT !.at = "probe"]
               [] job.kind = "setup"      -> job' = [job EXCEPT !.at = "list"]
               [] OTHER                   -> Finish("done")
       \/ Finish("failed")
    /\ UNCHANGED <<configVars, playing, running, coreVars>>

\* probe_installed_catalog_core: whatever comes of it, the core is installed.
ProbeInstalled ==
    /\ job.at = "probe"
    /\ \/ core # NoCore /\ probe' = [probe EXCEPT !["job"] = Labelled(NoProfile)]
       \/ UNCHANGED probe
    /\ job' = [job EXCEPT !.at = "probing"]
    /\ UNCHANGED <<configVars, playing, running, core, latest>>

Probed ==
    /\ job.at = "probing" /\ probe["job"] = Idle
    /\ Finish("done")
    /\ UNCHANGED <<configVars, playing, running, coreVars>>

=============================================================================
