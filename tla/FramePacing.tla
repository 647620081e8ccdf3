---------------------------- MODULE FramePacing ----------------------------
(***************************************************************************)
(* How a core is paced by the wall clock.  pump_main_thread_play_runner:   *)
(* how many frames a tick of the UI runs, what it owes to the next one,    *)
(* and from when the next one counts.  PlayRunnerClock: the deadlines of a *)
(* worker.  Times are whole units of which Interval make up one frame; the *)
(* pacing by the audio queue is not part of it.                            *)
(***************************************************************************)
EXTENDS Integers

CONSTANTS
    Interval,  \* one frame
    Policies,  \* the pacings the cores ask for
    Gap,       \* how long the event loop may leave the pump alone
    Work,      \* how long a tick may take
    MaxClock   \* bound: the length of a session

AllPolicies == {"wall", "n64", "n64smooth", "arcade", "dreamcast", "tight", "tightExternal",
                "worker"}

\* WORKER_MAX_CATCH_UP_FRAMES
MaxLate == 3

ASSUME FramePacingAssumption ==
    /\ Interval \in Nat \ {0}
    /\ Policies \subseteq AllPolicies
    /\ Gap \subseteq Nat /\ Work \subseteq Nat
    /\ MaxClock \in Nat

VARIABLES
    policy,  \* the pacing of the session's core
    since,   \* time since last_frame_run_at; of a worker, since one frame before next_deadline
    debt,    \* catch_up_frame_debt
    late,    \* catch_up_frames of a worker's clock
    played,  \* time the core has emulated in this session
    clock    \* time that has passed in this session

vars == <<policy, since, debt, late, played, clock>>

Least(a, b)      == IF a < b THEN a ELSE b
Clamp(x, lo, hi) == IF x < lo THEN lo ELSE Least(x, hi)
Share(n, d)      == (n * Interval) \div d

Tight     == policy \in {"tight", "tightExternal"}
FromDebt  == policy \in {"n64", "n64smooth"}
KeepsRest == policy \in {"wall", "tight", "tightExternal"}

\* The most a tick makes of what has passed and what is owed.
BudgetCap ==
    CASE policy = "arcade"    -> Share(5, 2)
      [] policy = "dreamcast" -> Share(27, 20)
      [] policy = "tight"     -> 2 * Interval
      [] OTHER                -> 3 * Interval

MostFrames(budget) ==
    CASE policy = "n64smooth"     -> IF budget >= Share(5, 2) THEN 2 ELSE 1
      [] policy = "dreamcast"     -> 1
      [] policy = "tightExternal" -> 3
      [] OTHER                    -> 2

DebtCap ==
    CASE policy = "wall"                          -> 0
      [] policy \in {"n64", "arcade", "dreamcast"} -> Interval
      [] OTHER                                    -> Share(3, 4)

\* More than three frames late, the clock is reset and one frame is due.
Stale   == since > 3 * Interval
Elapsed == IF Stale THEN Interval ELSE since
Owed    == IF Stale THEN 0 ELSE debt

\* Mutant: a core that is not due yet runs a frame.
DueAlways == TRUE
Due == IF FromDebt THEN Owed + Elapsed >= Interval ELSE Elapsed >= Interval

Budget == Clamp(Owed + Elapsed, Interval, BudgetCap)
Frames == Clamp(Budget \div Interval, 1, MostFrames(Budget))

\* Mutant: what is left of a tick's time is kept beside the debt.
RestKept == IF Elapsed > Frames * Interval THEN Elapsed - Frames * Interval ELSE 0

\* The time a tick leaves over, when it counts for the next one.
Rest == IF KeepsRest /\ Elapsed > Frames * Interval THEN Elapsed - Frames * Interval ELSE 0

\* What is still owed at the end of a tick that took `work`.
DebtAfter(work) ==
    LET owed    == Clamp(Budget - Frames * Interval, 0, DebtCap)
        overrun == Rest + work >= (IF Tight THEN Interval ELSE Frames * Interval)
    IN  CASE policy = "n64" /\ overrun -> 0
          [] policy = "n64smooth" /\ (overrun \/ work > 2 * Interval) -> Least(owed, Share(1, 2))
          [] policy = "tight" /\ overrun -> Least(owed, Share(1, 4))
          [] OTHER -> owed

\* begin_session resets the clock; a worker begins with one.
Init ==
    /\ policy \in Policies
    /\ since = 0 /\ debt = 0 /\ late = 0 /\ played = 0 /\ clock = 0

\* The pump is not called, or finds that no frame is due; the worker waits for its
\* deadline, for the core, or carries out a command.
Pass(time) ==
    /\ clock + time <= MaxClock
    /\ clock' = clock + time
    /\ since' = since + time
    /\ UNCHANGED <<policy, debt, late, played>>

Tick(work) ==
    /\ policy # "worker"
    /\ clock + work <= MaxClock
    /\ Due
    /\ played' = played + Frames * Interval
    /\ since' = Rest + work
    /\ debt' = DebtAfter(work)
    /\ clock' = clock + work
    /\ UNCHANGED <<policy, late>>

\* A worker runs a frame once its deadline has come, and moves it by one frame: what it is
\* late it catches up, unless it is still late after its third frame in a row.
WorkerFrame(work) ==
    LET left    == since - Interval + work
        overdue == left > Interval
        gives   == overdue /\ late + 1 >= MaxLate
    IN  /\ policy = "worker" /\ since >= Interval
        /\ clock + work <= MaxClock
        /\ played' = played + Interval
        /\ clock' = clock + work
        /\ since' = IF gives THEN 0 ELSE left
        /\ late' = IF overdue /\ ~gives THEN late + 1 ELSE 0
        /\ UNCHANGED <<policy, debt>>

\* A reset of the core and a loaded state reset the clock, unless a worker carries them out.
ResetClock ==
    /\ policy # "worker"
    /\ since' = 0 /\ debt' = 0
    /\ UNCHANGED <<policy, late, played, clock>>

\* The session ends, and another begins.
NextSession ==
    /\ policy' \in Policies
    /\ since' = 0 /\ debt' = 0 /\ late' = 0 /\ played' = 0 /\ clock' = 0

Next == \/ \E time \in Gap : Pass(time)
        \/ \E work \in Work : Tick(work) \/ WorkerFrame(work)
        \/ ResetClock \/ NextSession

Spec == Init /\ [][Next]_vars

-----------------------------------------------------------------------------
(* Properties.                                                              *)

TypeOK ==
    /\ policy \in Policies
    /\ since \in Nat
    /\ debt \in Nat
    /\ late \in 0..(MaxLate - 1)
    /\ played \in Nat
    /\ clock \in Nat

\* Catching up repays time that has passed and no more: in no sequence of late
\* and early ticks does a core run ahead of the wall clock.
NoOverspeed == played <= clock

\* What NoOverspeed rests on: no unit of time is counted twice among the frames
\* that have run, the debt and the time since the last tick.
TimeCountedOnce == played + debt + since <= clock

\* "cap it tightly to avoid FMV overspeed": the cores that follow the frame
\* clock are never more than two frames ahead of it.
FollowsFrameClock == played <= clock + 2 * Interval

=============================================================================
