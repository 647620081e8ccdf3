----------------------------- MODULE ManageJobs -----------------------------
(***************************************************************************)
(* The jobs of the manage view: one thread at a time does what takes long, *)
(* and sends its result to the UI thread, which looks for it in every      *)
(* update that belongs to no play session.                                 *)
(***************************************************************************)
EXTENDS AppConfig

VARIABLES
    playing, \* a session, or its launch, has the window
    running, \* state.manage.job_running
    job      \* the thread: what it does, where it is, what it has still to do

jobVars == <<playing, running, job>>

\* games: those it is about; todo: those it still has to see; now: the one it is at;
\* images: covers it found when it began; ids: rows it was told to remove.
NoJob == [kind |-> "none", at |-> "none",
          games |-> {}, todo |-> {}, now |-> {}, images |-> {}, ids |-> {}]

JobsInit == playing = FALSE /\ running = FALSE /\ job = NoJob

\* begin_manage_job, and the thread it is for
Begin(j) ==
    /\ ~running
    /\ running' = TRUE /\ job' = j
    /\ UNCHANGED playing

\* The thread sends Finished and ends.
Finish(end) == job' = [NoJob EXCEPT !.kind = job.kind, !.at = end]

Ended == job.at \in {"done", "failed"}

\* poll_manage_jobs
Taken ==
    /\ ~playing /\ Ended
    /\ running' = FALSE /\ job' = NoJob
    /\ UNCHANGED playing

\* With the process the thread is gone.
JobsEnd == playing' = FALSE /\ running' = FALSE /\ job' = NoJob

=============================================================================
