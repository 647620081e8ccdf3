----------------------------- MODULE GameLibrary -----------------------------
(***************************************************************************)
(* The games that the library knows, the covers it has of them, and the    *)
(* list of the manage view, in which games are selected and then removed.  *)
(* Scans, relinks, scrapes and removals are jobs; the list shows what the  *)
(* library held when it was last refreshed.                                *)
(***************************************************************************)
EXTENDS ManageJobs, FiniteSets

CONSTANTS
    Game,   \* files of games, each in the folder of its system
    Scopes, \* the games of a system, and of all
    Rows    \* bound: rows that the library ever gets

ASSUME LibraryAssumption ==
    /\ Game \in Scopes /\ \A s \in Scopes : s \subseteq Game
    /\ Rows \in Nat

VARIABLES
    there,    \* files that are there
    library,  \* of each game: the id of its row, or 0, and whether the row names a cover
    next,     \* the next id
    image,    \* of each game: the image at the place of its cover, and whose it is
    scope, rows, selected, armed, \* state.manage: scope, rows, selected_rom_ids, remove_confirmation_armed
    asked     \* history: the games selected in the list when a removal was asked for

viewVars    == <<scope, rows, selected, armed, asked>>
libraryVars == <<there, library, next, image, viewVars>>

Listed(s) == {library[g].id : g \in s} \ {0}
HasRow(g) == library[g].id # 0
HasImage  == {g \in Game : image[g] # "none"}

\* resolve_local_cover_asset_path finds the cover that the row names.
Covered(g) == HasRow(g) /\ library[g].cover /\ image[g] # "none"

ViewInit == scope = Game /\ rows = {} /\ selected = {} /\ armed = FALSE /\ asked = {}

LibraryInit ==
    /\ there = Game
    /\ library = [g \in Game |-> [id |-> 0, cover |-> FALSE]] /\ next = 1
    /\ image = [g \in Game |-> "none"]
    /\ ViewInit

-----------------------------------------------------------------------------
(* A person moves files: covers only while no job is at work.               *)

MoveGame(g) ==
    /\ there' = IF g \in there THEN there \ {g} ELSE there \cup {g}
    /\ UNCHANGED <<configVars, jobVars, library, next, image, viewVars>>

MoveCover(g) ==
    /\ job = NoJob
    /\ image' = [image EXCEPT ![g] = IF @ = "none" THEN "own" ELSE "none"]
    /\ UNCHANGED <<configVars, jobVars, there, library, next, viewVars>>

-----------------------------------------------------------------------------
(* The manage view.                                                         *)

Disarms == armed' = FALSE /\ asked' = IF job.kind = "remove" THEN asked ELSE {}

\* Mutant: what is no longer in the list stays selected.
ShowsAllSelected(s) ==
    /\ rows' = Listed(s)
    /\ UNCHANGED selected
    /\ Disarms

\* refresh_manage_rows: what is no longer in the list is no longer selected.
Shows(s) ==
    /\ rows' = Listed(s)
    /\ selected' = selected \cap rows'
    /\ Disarms

\* When the database cannot list them, all that is shown is a message.
MayShow(s) == Shows(s) \/ UNCHANGED <<rows, selected, armed, asked>>

\* The button waits for a job to end; opening the view does not.  A list that cannot be read
\* changes nothing.
Refresh ==
    /\ Shows(scope) /\ UNCHANGED scope
    /\ UNCHANGED <<configVars, jobVars, there, library, next, image>>

\* apply_manage_scope_index, whose callers wait for a job to end
ChooseScope(s) ==
    /\ ~running
    /\ scope' = s
    /\ Shows(s) \/ (Disarms /\ UNCHANGED <<rows, selected>>)
    /\ UNCHANGED <<configVars, jobVars, there, library, next, image>>

\* toggle_manage_row_selection and the checkbox of a row
Toggle(r) ==
    /\ r \in rows
    /\ selected' = IF r \in selected THEN selected \ {r} ELSE selected \cup {r}
    /\ Disarms
    /\ UNCHANGED <<configVars, jobVars, there, library, next, image, scope, rows>>

\* close_manage_view, navigate_to_view
CloseView ==
    /\ armed /\ Disarms
    /\ UNCHANGED <<configVars, jobVars, there, library, next, image, scope, rows, selected>>

\* start_remove_job: the first press asks, the second begins.
AskRemove ==
    /\ ~running /\ selected # {} /\ ~armed
    /\ armed' = TRUE /\ asked' = selected \cap rows
    /\ UNCHANGED <<configVars, jobVars, there, library, next, image, scope, rows, selected>>

Begins(j) ==
    /\ Begin(j)
    /\ armed' = FALSE /\ asked' = IF j.kind = "remove" THEN asked ELSE {}
    /\ UNCHANGED <<configVars, there, library, next, image, scope, rows, selected>>

BeginRemove ==
    /\ armed /\ selected # {}
    /\ Begins([NoJob EXCEPT !.kind = "remove", !.at = "remove", !.ids = selected])

BeginScan == Begins([NoJob EXCEPT !.kind = "scan", !.at = "list", !.games = scope])

\* start_scrape_job and start_relink_local_covers_job have a choice of systems of their own.
BeginCovers(kind, s) == Begins([NoJob EXCEPT !.kind = kind, !.at = "list", !.games = s])

\* poll_manage_jobs: only what went well is shown, and a removal clears the selection
\* whether or not the list can be read.
Poll ==
    /\ Taken
    /\ \/ job.at = "failed" /\ UNCHANGED <<rows, selected, armed, asked>>
       \/ job.at = "done" /\ job.kind # "remove" /\ MayShow(scope)
       \/ /\ job.at = "done" /\ job.kind = "remove"
          /\ rows' \in {rows, Listed(scope)} /\ selected' = {} /\ Disarms
    /\ UNCHANGED <<configVars, there, library, next, image, scope>>

-----------------------------------------------------------------------------
(* The threads of the jobs.                                                 *)

\* remove_roms_from_library: one transaction
Remove ==
    /\ job.at = "remove"
    /\ \/ /\ library' = [g \in Game |-> IF library[g].id \in job.ids
                                        THEN [id |-> 0, cover |-> FALSE] ELSE library[g]]
          /\ Finish("done")
       \/ Finish("failed") /\ UNCHANGED library
    /\ UNCHANGED <<configVars, playing, running, there, next, image, viewVars>>

\* Mutant: a scrape takes every game.
EveryGame(s) == {g \in s : HasRow(g)}

\* should_include_rom_for_cover_scrape, for missing covers
Candidates(s) == {g \in s : HasRow(g) /\ ~Covered(g)}

\* What a job does first: a scan lists the files, a relink the games that name no cover and
\* a scrape those that have none, up to its limit; all note what images are there.
Todos ==
    CASE job.kind = "relink" -> {{g \in job.games : HasRow(g) /\ ~library[g].cover}}
      [] job.kind = "scrape" -> SUBSET Candidates(job.games)
      [] OTHER               -> {job.games \cap there}

ListGames ==
    /\ job.at = "list"
    /\ \/ \E todo \in Todos :
             job' = [job EXCEPT !.at = "each", !.todo = todo, !.images = HasImage]
       \/ Finish("failed")
    /\ UNCHANGED <<configVars, playing, running, libraryVars>>

Seen(g) == job' = [job EXCEPT !.todo = @ \ {g}]

\* smart_scan_roms and upsert_scanned_rom: a file gets a row, and a row without a cover the
\* one that was there; a file that cannot be hashed is passed over, and one that is gone, or
\* the database, ends the scan.
ScanGame(g) ==
    /\ job.kind \in {"scan", "setup"} /\ job.at = "each" /\ g \in job.todo
    /\ LET cover == library[g].cover \/ g \in job.images
       IN  \/ /\ g \in there /\ HasRow(g)
              /\ library' = [library EXCEPT ![g].cover = cover]
              /\ Seen(g) /\ UNCHANGED next
           \/ /\ g \in there /\ ~HasRow(g) /\ next <= Rows
              /\ library' = [library EXCEPT ![g] = [id |-> next, cover |-> cover]]
              /\ Seen(g) /\ next' = next + 1
           \/ g \in there /\ Seen(g) /\ UNCHANGED <<library, next>>
           \/ Finish("failed") /\ UNCHANGED <<library, next>>
    /\ UNCHANGED <<configVars, playing, running, there, image, viewVars>>

\* relink_local_covers and update_rom_cover_path
RelinkGame(g) ==
    /\ job.kind = "relink" /\ job.at = "each" /\ g \in job.todo
    /\ \/ g \in job.images /\ library' = [library EXCEPT ![g].cover = TRUE]
       \/ UNCHANGED library
    /\ Seen(g)
    /\ UNCHANGED <<configVars, playing, running, there, next, image, viewVars>>

\* scrape_cover_for_rom: no cover is found, or it is written and then named.  Every game
\* has a place of its own here: that similar titles may share a cover is left out.
PassGame(g) ==
    /\ job.kind = "scrape" /\ job.at = "each" /\ g \in job.todo
    /\ Seen(g)
    /\ UNCHANGED <<configVars, playing, running, libraryVars>>

WriteCover(g) ==
    /\ job.kind = "scrape" /\ job.at = "each" /\ g \in job.todo
    /\ \/ image' = [image EXCEPT ![g] = "fetched"] /\ job' = [job EXCEPT !.at = "name", !.now = {g}]
       \/ image' = [image EXCEPT ![g] = "cut"] /\ Seen(g)
    /\ UNCHANGED <<configVars, playing, running, there, library, next, viewVars>>

NameCover ==
    /\ job.at = "name"
    /\ \E g \in job.now :
          /\ \/ library' = [library EXCEPT ![g].cover = TRUE]
             \/ UNCHANGED library
          /\ job' = [job EXCEPT !.at = "each", !.now = {}, !.todo = @ \ {g}]
    /\ UNCHANGED <<configVars, playing, running, there, next, image, viewVars>>

ListDone ==
    /\ job.at = "each" /\ job.todo = {}
    /\ Finish("done")
    /\ UNCHANGED <<configVars, playing, running, libraryVars>>

=============================================================================
