------------------------- MODULE PlaySessionProofs -------------------------
(***************************************************************************)
(* Proofs about PlaySession, for any library of roms, any backlog of       *)
(* events and any catch-up.  IInv is inductive; each safety property of    *)
(* the session is one of its conjuncts or follows from it, and so do the   *)
(* action property RequestInItsSession and the refinement of CoreSession.  *)
(*                                                                         *)
(* The queues are the awkward part: Command, Event and Reports are opened  *)
(* only in the lemmas of the first section, and the steps cite those.      *)
(***************************************************************************)
EXTENDS PlaySession, TLAPS

-----------------------------------------------------------------------------
(* What the channels carry.                                                  *)

LEMMA StopIsCommand == Stop \in Command
  BY DEF Stop, Command, RomOrNone

LEMMA RequestIsCommand ==
    ASSUME NEW op \in Requests, NEW rom \in RomOrNone
    PROVE  [op |-> op, rom |-> rom] \in Command
  BY DEF Command

LEMMA ReportIsEvent ==
    ASSUME NEW kind \in {"stepped", "ready", "delivered", "failed", "stopped"},
           NEW from \in RomOrNone
    PROVE  [kind |-> kind, from |-> from] \in Event
  BY DEF Event

LEMMA AnswerTyped ==
    ASSUME NEW st \in {"none", "pending", "ok", "err"}, NEW from \in RomOrNone
    PROVE  Answered(st, from) \in Answer
  BY DEF Answered, Answer

LEMMA FrameReportTyped ==
    ASSUME NEW out, NEW m, loaded \in RomOrNone, events \in Seq(Event)
    PROVE  events
              \o (IF out = "embedded" THEN <<[kind |-> "delivered", from |-> loaded]>> ELSE <<>>)
              \o (IF m # {} THEN <<[kind |-> "ready", from |-> loaded]>> ELSE <<>>)
              \o <<[kind |-> "stepped", from |-> loaded]>> \in Seq(Event)
<1> DEFINE d == [kind |-> "delivered", from |-> loaded]
           r == [kind |-> "ready", from |-> loaded]
           p == [kind |-> "stepped", from |-> loaded]
<1>1. d \in Event /\ r \in Event /\ p \in Event
  BY ReportIsEvent
<1> HIDE DEF d, r, p
<1>2. (IF out = "embedded" THEN <<d>> ELSE <<>>) \in Seq(Event)
  BY <1>1
<1>3. (IF m # {} THEN <<r>> ELSE <<>>) \in Seq(Event)
  BY <1>1
<1>4. <<p>> \in Seq(Event)
  BY <1>1
<1> QED BY <1>2, <1>3, <1>4 DEF d, r, p

LEMMA StopSessionTyped ==
    ASSUME TypeOK, NEW next \in ResumePlaces, StopSession(next)
    PROVE  /\ ui' \in UiPlaces /\ resume' \in ResumePlaces
           /\ runner' \in Modes \cup {"none"} /\ cmds' \in Seq(Command)
<1>1. cmds \in Seq(Command) /\ Append(cmds, Stop) \in Seq(Command)
  BY StopIsCommand DEF TypeOK
<1>2. cmds' = cmds \/ cmds' = Append(cmds, Stop)
  BY DEF StopSession, StopSent
<1>3. ui' \in UiPlaces /\ resume' \in ResumePlaces /\ runner' \in Modes \cup {"none"}
  BY DEF StopSession, TypeOK, UiPlaces
<1> QED BY <1>1, <1>2, <1>3

LEMMA RequestTyped ==
    ASSUME TypeOK, NEW op \in Requests, NEW next \in ResumePlaces, Request(op, next)
    PROVE  TypeOK'
<1>1. asked' \in Command
  BY RequestIsCommand DEF Request, TypeOK
<1>2. cmds' \in Seq(Command)
  BY <1>1 DEF Request, TypeOK
<1>3. reply' \in Answer
  BY AnswerTyped DEF Request, TypeOK, RomOrNone
<1>4. ui' \in UiPlaces /\ resume' \in ResumePlaces /\ lock' \in {"free", "ui", "worker"}
  BY DEF Request, TypeOK, UiPlaces
<1> QED BY <1>1, <1>2, <1>3, <1>4 DEF Request, TypeOK, playVars

LEMMA FinishTyped ==
    ASSUME TypeOK, NEW st, NEW from \in RomOrNone, Finish(st, from)
    PROVE  ui' \in UiPlaces /\ saves' \in SUBSET [rom : RomOrNone, bytes : RomOrNone]
<1>1. ui' \in UiPlaces
  BY DEF Finish, TypeOK, UiPlaces, ResumePlaces
<1>2. [rom |-> active, bytes |-> from] \in [rom : RomOrNone, bytes : RomOrNone]
  BY DEF TypeOK
<1> QED BY <1>1, <1>2 DEF Finish, TypeOK

-----------------------------------------------------------------------------
\* The worker answers the command at the head of its channel.
ExecHoldsCommand == worker \in {"exec", "ports"} => cmds # <<>>

LEMMA TypeCorrect == Spec => []TypeOK
<1>1. Init => TypeOK /\ ExecHoldsCommand
  BY PlaySessionAssumption
  DEF Init, TypeOK, UiPlaces, ResumePlaces, Command, Phases, RomOrNone, WorkerPlaces,
      Answer, Answered, Stop, Requests, ExecHoldsCommand
<1>2. TypeOK /\ ExecHoldsCommand /\ [Next]_vars => TypeOK'
  <2> SUFFICES ASSUME TypeOK, ExecHoldsCommand, [Next]_vars PROVE TypeOK'
    OBVIOUS
  <2>a. NoRom \in RomOrNone /\ Rom \subseteq RomOrNone
    BY DEF RomOrNone
  <2> USE PlaySessionAssumption DEF TypeOK, tickVars, playVars, hostVars, channelVars,
       Modes, UiPlaces, ResumePlaces, WorkerPlaces, Phases, Requests
  <2>1. CASE CloseAfterStop
    BY <2>1, <2>a, StopIsCommand, RequestIsCommand, ReportIsEvent, AnswerTyped, FrameReportTyped DEF CloseAfterStop
  <2>2. CASE CloseRequested
    BY <2>2, StopSessionTyped DEF CloseRequested
  <2>3. CASE Quit
    BY <2>3, <2>a, StopIsCommand, RequestIsCommand, ReportIsEvent, AnswerTyped, FrameReportTyped DEF Quit
  <2>4. CASE OnExit
    <3>1. CASE SessionOpen
      BY <2>4, <3>1, StopSessionTyped DEF OnExit
    <3>2. CASE ~SessionOpen
      BY <2>4, <3>2 DEF OnExit
    <3> QED BY <3>1, <3>2
  <2>5. CASE LaunchRom
    BY <2>5, <2>a, StopIsCommand, RequestIsCommand, ReportIsEvent, AnswerTyped, FrameReportTyped DEF LaunchRom, QueueLaunch, ShellActive
  <2>6. CASE EnterPlay
    BY <2>6, <2>a, StopIsCommand, RequestIsCommand, ReportIsEvent, AnswerTyped, FrameReportTyped DEF EnterPlay, ShellActive
  <2>7. CASE JoinWorker
    BY <2>7, <2>a, StopIsCommand, RequestIsCommand, ReportIsEvent, AnswerTyped, FrameReportTyped DEF JoinWorker
  <2>8. CASE Unload
    BY <2>8, <2>a, StopIsCommand, RequestIsCommand, ReportIsEvent, AnswerTyped, FrameReportTyped DEF Unload
  <2>9. CASE ClearSession
    BY <2>9, <2>a, StopIsCommand, RequestIsCommand, ReportIsEvent, AnswerTyped, FrameReportTyped DEF ClearSession, ClearPlay
  <2>10. CASE BeginLoad
    BY <2>10, <2>a, StopIsCommand, RequestIsCommand, ReportIsEvent, AnswerTyped, FrameReportTyped DEF BeginLoad
  <2>11. CASE NoLoad
    BY <2>11, <2>a, StopIsCommand, RequestIsCommand, ReportIsEvent, AnswerTyped, FrameReportTyped DEF NoLoad
  <2>12. CASE LoadOk
    BY <2>12, <2>a, StopIsCommand, RequestIsCommand, ReportIsEvent, AnswerTyped, FrameReportTyped DEF LoadOk, ExecutorMode
  <2>13. CASE LoadRetry
    BY <2>13, <2>a, StopIsCommand, RequestIsCommand, ReportIsEvent, AnswerTyped, FrameReportTyped DEF LoadRetry
  <2>14. CASE LoadFailed
    BY <2>14, <2>a, StopIsCommand, RequestIsCommand, ReportIsEvent, AnswerTyped, FrameReportTyped DEF LoadFailed
  <2>15. CASE KeyboardEvent
    BY <2>15, <2>a, StopIsCommand, RequestIsCommand, ReportIsEvent, AnswerTyped, FrameReportTyped DEF KeyboardEvent
  <2>16. CASE ReturnTriggered
    BY <2>16, StopSessionTyped DEF ReturnTriggered
  <2>17. CASE NoReturn
    BY <2>17, <2>a, StopIsCommand, RequestIsCommand, ReportIsEvent, AnswerTyped, FrameReportTyped DEF NoReturn
  <2>18. CASE ResetShortcut
    BY <2>18, RequestTyped DEF ResetShortcut
  <2>19. CASE QuickSave
    BY <2>19, RequestTyped DEF QuickSave
  <2>20. CASE QuickLoad
    BY <2>20, RequestTyped DEF QuickLoad
  <2>21. CASE SkipShortcut
    BY <2>21, <2>a, StopIsCommand, RequestIsCommand, ReportIsEvent, AnswerTyped, FrameReportTyped DEF SkipShortcut
  <2>22. CASE HostCallReturns
    BY <2>22, FinishTyped DEF HostCallReturns, Finish
  <2>23. CASE ReplyReceived
    <3>1. reply.from \in RomOrNone
      BY DEF Answer
    <3>2. reply' \in Answer
      BY <2>23, <2>a, AnswerTyped DEF ReplyReceived
    <3> QED BY <2>23, <3>1, <3>2, FinishTyped DEF ReplyReceived, Finish
  <2>24. CASE DrainEvents
    <3>1. \A i \in 1..Len(events) : events[i].from \in RomOrNone
      <4>1. \A i \in 1..Len(events) : events[i] \in Event
        OBVIOUS
      <4> QED BY <4>1 DEF Event
    <3>2. shown' \in RomOrNone
      BY <2>24, <3>1 DEF DrainEvents
    <3>3. phase' \in Phases
      BY <2>24 DEF DrainEvents, Flushing, PresentedPhase, PresentOrWarn
    <3>4. events' \in Seq(Event)
      BY <2>24 DEF DrainEvents, Flushing
    <3> QED BY <2>24, <3>2, <3>3, <3>4 DEF DrainEvents, Flushing
  <2>25. CASE DrainFailure
    BY <2>25, StopSessionTyped DEF DrainFailure
  <2>26. CASE BeginTick
    BY <2>26, <2>a, StopIsCommand, RequestIsCommand, ReportIsEvent, AnswerTyped, FrameReportTyped DEF BeginTick
  <2>27. CASE BeginFrame
    BY <2>27, <2>a, StopIsCommand, RequestIsCommand, ReportIsEvent, AnswerTyped, FrameReportTyped DEF BeginFrame
  <2>28. CASE FrameDone
    <3>1. metrics' \in SUBSET {"embedded", "external"}
      BY <2>28 DEF FrameDone
    <3> QED BY <2>28, <3>1 DEF FrameDone
  <2>29. CASE FrameError
    BY <2>29, StopSessionTyped DEF FrameError
  <2>30. CASE EndTick
    BY <2>30, <2>a, StopIsCommand, RequestIsCommand, ReportIsEvent, AnswerTyped, FrameReportTyped DEF EndTick, Flushing, PresentedPhase, PresentOrWarn
  <2>31. CASE GpuBridgeFailed
    BY <2>31, StopSessionTyped DEF GpuBridgeFailed
  <2>32. CASE DrawShell
    BY <2>32, <2>a, StopIsCommand, RequestIsCommand, ReportIsEvent, AnswerTyped, FrameReportTyped DEF DrawShell, ShellPainted
  <2>33. CASE TryOtherCore
    BY <2>33, <2>a, StopIsCommand, RequestIsCommand, ReportIsEvent, AnswerTyped, FrameReportTyped DEF TryOtherCore, QueueLaunch
  <2>34. CASE DismissShell
    BY <2>34, <2>a, StopIsCommand, RequestIsCommand, ReportIsEvent, AnswerTyped, FrameReportTyped DEF DismissShell
  <2>35. CASE ResetButton
    BY <2>35, RequestTyped DEF ResetButton
  <2>36. CASE WorkerStops
    BY <2>36, <2>a, StopIsCommand, RequestIsCommand, ReportIsEvent, AnswerTyped, FrameReportTyped DEF WorkerStops, WorkerEnds
  <2>37. CASE WorkerTakes
    BY <2>37, <2>a, StopIsCommand, RequestIsCommand, ReportIsEvent, AnswerTyped, FrameReportTyped DEF WorkerTakes
  <2>38. CASE WorkerReplies
    <3>1. reply' \in Answer
      BY <2>38, <2>a, AnswerTyped DEF WorkerReplies, WorkerDone, WorkerUnlocks
    <3>2. cmds' \in Seq(Command)
      BY <2>38 DEF WorkerReplies, WorkerDone, WorkerUnlocks, ExecHoldsCommand
    <3> QED BY <2>38, <3>1, <3>2 DEF WorkerReplies, WorkerDone, WorkerUnlocks
  <2>39. CASE WorkerWakes
    BY <2>39, <2>a, StopIsCommand, RequestIsCommand, ReportIsEvent, AnswerTyped, FrameReportTyped DEF WorkerWakes
  <2>40. CASE WorkerChecks
    <3>1. [kind |-> "failed", from |-> loaded] \in Event /\ [kind |-> "stepped", from |-> NoRom] \in Event
      BY <2>a, ReportIsEvent
    <3>2. events' \in Seq(Event)
      <4>1. events \o <<[kind |-> "failed", from |-> loaded]>> \in Seq(Event)
        BY <3>1
      <4>2. Append(events, [kind |-> "stepped", from |-> NoRom]) \in Seq(Event)
        BY <3>1
      <4> QED BY <2>40, <4>1, <4>2 DEF WorkerChecks, WorkerEnds
    <3>3. reply' \in Answer
      BY <2>40, <2>a, AnswerTyped DEF WorkerChecks, WorkerEnds
    <3>4. worker' \in WorkerPlaces
      BY <2>40 DEF WorkerChecks, WorkerEnds
    <3>5. cmds' \in Seq(Command)
      <4>1. <<>> \in Seq(Command)
        OBVIOUS
      <4> QED BY <2>40, <4>1 DEF WorkerChecks, WorkerEnds
    <3> QED BY <2>40, <3>2, <3>3, <3>4, <3>5 DEF WorkerChecks
  <2>41. CASE WorkerRuns
    BY <2>41, <2>a, StopIsCommand, RequestIsCommand, ReportIsEvent, AnswerTyped, FrameReportTyped DEF WorkerRuns
  <2>42. CASE WorkerFrameDone
    BY <2>42, <2>a, StopIsCommand, RequestIsCommand, ReportIsEvent, AnswerTyped, FrameReportTyped DEF WorkerFrameDone, Presented
  <2>43. CASE WorkerFrameError
    BY <2>43, <2>a, StopIsCommand, RequestIsCommand, ReportIsEvent, AnswerTyped, FrameReportTyped DEF WorkerFrameError, WorkerUnlocks, WorkerEnds
  <2>44. CASE WorkerPanics
    BY <2>44, <2>a, StopIsCommand, RequestIsCommand, ReportIsEvent, AnswerTyped, FrameReportTyped DEF WorkerPanics, WorkerUnlocks, WorkerEnds, WorkerInCore
  <2>45. CASE UNCHANGED vars
    BY <2>45, <2>a, StopIsCommand, RequestIsCommand, ReportIsEvent, AnswerTyped, FrameReportTyped DEF vars
  <2>46. CASE FlushReturns
    BY <2>46, <2>a, StopIsCommand, RequestIsCommand, ReportIsEvent, AnswerTyped, FrameReportTyped DEF FlushReturns
  <2>47. CASE HostReset
    BY <2>47, <2>a, StopIsCommand, RequestIsCommand, ReportIsEvent, AnswerTyped, FrameReportTyped DEF HostReset
  <2>48. CASE PortsConfigured
    BY <2>48, FinishTyped DEF PortsConfigured, Finish
  <2>49. CASE SkipTick
    BY <2>49, <2>a, StopIsCommand, RequestIsCommand, ReportIsEvent, AnswerTyped, FrameReportTyped DEF SkipTick, PresentedPhase, PresentOrWarn
  <2>50. CASE FailFlushReturns
    BY <2>50, StopSessionTyped DEF FailFlushReturns
  <2>51. CASE WorkerResets
    BY <2>51, <2>a, StopIsCommand, RequestIsCommand, ReportIsEvent, AnswerTyped, FrameReportTyped DEF WorkerResets
  <2> QED
    BY <2>1, <2>2, <2>3, <2>4, <2>5, <2>6, <2>7, <2>8, <2>9, <2>10, <2>11,
       <2>12, <2>13, <2>14, <2>15, <2>16, <2>17, <2>18, <2>19, <2>20, <2>21,
       <2>22, <2>23, <2>24, <2>25, <2>26, <2>27, <2>28, <2>29, <2>30, <2>31,
       <2>32, <2>33, <2>34, <2>35, <2>36, <2>37, <2>38, <2>39, <2>40, <2>41,
       <2>42, <2>43, <2>44, <2>45, <2>46, <2>47, <2>48, <2>49, <2>50, <2>51
    DEF Next, UiNext, UpdateNext, StopNext, LaunchNext, InputNext, PumpNext, DrawNext, WorkerNext, Terminated
<1>3. TypeOK /\ ExecHoldsCommand /\ [Next]_vars => ExecHoldsCommand'
  <2> SUFFICES ASSUME TypeOK, ExecHoldsCommand, [Next]_vars PROVE ExecHoldsCommand'
    OBVIOUS
  <2> USE DEF ExecHoldsCommand, channelVars
  <2>a. \A c \in Command : Append(cmds, c) # <<>>
    BY DEF TypeOK
  <2>1. CASE UiNext
    <3>1. UNCHANGED worker \/ worker' \notin {"exec", "ports"}
      BY <2>1 DEF UiNext, UpdateNext, StopNext, LaunchNext, InputNext, PumpNext, DrawNext,
         CloseAfterStop, CloseRequested, Quit, OnExit, LaunchRom, EnterPlay,
         JoinWorker, Unload, ClearSession, BeginLoad, NoLoad, LoadOk, LoadRetry,
         LoadFailed, KeyboardEvent, ReturnTriggered, NoReturn, ResetShortcut,
         QuickSave, QuickLoad, SkipShortcut, HostCallReturns, HostReset, PortsConfigured, ReplyReceived,
         DrainEvents, DrainFailure, SkipTick, BeginTick, BeginFrame, FrameDone, FrameError, FailFlushReturns,
         EndTick, Flushing, FlushReturns, GpuBridgeFailed, DrawShell, TryOtherCore, DismissShell,
         ResetButton, QueueLaunch, Request, Finish, StopSession
    <3>2. UNCHANGED cmds \/ worker' = "none" \/ \E c \in Command : cmds' = Append(cmds, c)
      <4>1. ASSUME NEW next, StopSession(next)
            PROVE  UNCHANGED cmds \/ cmds' = Append(cmds, Stop)
        BY <4>1 DEF StopSession, StopSent
      <4>2. ASSUME NEW op \in Requests, NEW next, Request(op, next)
            PROVE  UNCHANGED cmds \/ \E c \in Command : cmds' = Append(cmds, c)
        BY <4>2, RequestIsCommand DEF Request, TypeOK
      <4> QED
        BY <2>1, <4>1, <4>2, StopIsCommand
        DEF UiNext, UpdateNext, StopNext, LaunchNext, InputNext, PumpNext, DrawNext, Requests,
            CloseAfterStop, CloseRequested, Quit, OnExit, LaunchRom, EnterPlay,
            JoinWorker, Unload, ClearSession, BeginLoad, NoLoad, LoadOk, LoadRetry,
            LoadFailed, KeyboardEvent, ReturnTriggered, NoReturn, ResetShortcut,
            QuickSave, QuickLoad, SkipShortcut, HostCallReturns, HostReset, PortsConfigured, ReplyReceived,
            DrainEvents, DrainFailure, SkipTick, BeginTick, BeginFrame, FrameDone, FrameError, FailFlushReturns,
            EndTick, Flushing, FlushReturns, GpuBridgeFailed, DrawShell, TryOtherCore, DismissShell,
            ResetButton, QueueLaunch, Finish, ClearPlay
    <3> QED BY <2>a, <3>1, <3>2
  <2>2. CASE WorkerNext
    BY <2>2 DEF WorkerNext, WorkerStops, WorkerTakes, WorkerResets, WorkerReplies, WorkerDone, WorkerUnlocks, WorkerWakes, WorkerChecks,
       WorkerRuns, WorkerFrameDone, WorkerFrameError, WorkerPanics, WorkerEnds
  <2>3. CASE Terminated \/ UNCHANGED vars
    BY <2>3 DEF Terminated, vars
  <2> QED BY <2>1, <2>2, <2>3 DEF Next
<1> QED BY <1>1, <1>2, <1>3, PTL DEF Spec

-----------------------------------------------------------------------------
(* The inductive invariant.                                                  *)

\* What does not depend on the contents of the channels.
Control == LockHolder /\ RunnerOfSession /\ PhaseMatchesHost /\ UiPlace /\ RomsKnown

LEMMA NoRomIsNone == NoRom \notin Rom
  BY PlaySessionAssumption

LEMMA IInvInit == Init => IInv
<1> SUFFICES ASSUME Init PROVE IInv
  OBVIOUS
<1>1. Control /\ CommandsInFlight /\ PlayingWasPresented /\ SavesOwnState
  BY DEF Init, Control, LockHolder, RunnerOfSession, PhaseMatchesHost, UiPlace, RomsKnown,
     CommandsInFlight, PlayingWasPresented, SavesOwnState, Answered
<1>2. ReportsFromLoaded
  BY DEF Init, ReportsFromLoaded
<1> QED BY <1>1, <1>2 DEF IInv, Control

LEMMA ControlStep ==
    ASSUME TypeOK, Control, ReportsFromLoaded, [Next]_vars
    PROVE  Control'
<1> USE NoRomIsNone
    DEF TypeOK, Control, LockHolder, RunnerOfSession, PhaseMatchesHost, UiPlace, RomsKnown,
        tickVars, playVars, hostVars, channelVars, RomOrNone, WorkerPlaces, Modes, UiPlaces
<1>1. CASE CloseAfterStop
  BY <1>1 DEF CloseAfterStop
<1>2. CASE CloseRequested
  BY <1>2 DEF CloseRequested, StopSession, SessionOpen, StopSent
<1>3. CASE Quit
  BY <1>3 DEF Quit
<1>4. CASE OnExit
  BY <1>4 DEF OnExit, StopSession, SessionOpen, StopSent
<1>5. CASE LaunchRom
  BY <1>5 DEF LaunchRom, QueueLaunch, ShellActive
<1>6. CASE EnterPlay
  BY <1>6 DEF EnterPlay, ShellActive
<1>7. CASE JoinWorker
  BY <1>7 DEF JoinWorker
<1>8. CASE Unload
  BY <1>8 DEF Unload
<1>9. CASE ClearSession
  BY <1>9 DEF ClearSession, ClearPlay
<1>10. CASE BeginLoad
  BY <1>10 DEF BeginLoad
<1>11. CASE NoLoad
  BY <1>11 DEF NoLoad
<1>12. CASE LoadOk
  BY <1>12 DEF LoadOk, ExecutorMode
<1>13. CASE LoadRetry
  BY <1>13 DEF LoadRetry
<1>14. CASE LoadFailed
  BY <1>14 DEF LoadFailed
<1>15. CASE KeyboardEvent
  BY <1>15 DEF KeyboardEvent
<1>16. CASE ReturnTriggered
  BY <1>16 DEF ReturnTriggered, StopSession, StopSent
<1>17. CASE NoReturn
  BY <1>17 DEF NoReturn
<1>18. CASE ResetShortcut
  BY <1>18 DEF ResetShortcut, Request
<1>19. CASE QuickSave
  BY <1>19 DEF QuickSave, Request
<1>20. CASE QuickLoad
  BY <1>20 DEF QuickLoad, Request
<1>21. CASE SkipShortcut
  BY <1>21 DEF SkipShortcut
<1>22. CASE HostCallReturns
  BY <1>22 DEF HostCallReturns, Finish
<1>23. CASE ReplyReceived
  BY <1>23 DEF ReplyReceived, Finish
<1>24. CASE DrainEvents
  <2>1. \A i \in 1..Len(events) : events[i] \in Reports
    BY DEF ReportsFromLoaded
  <2>2. \A i \in 1..Len(events) : events[i].from \in {NoRom, loaded}
    BY <2>1 DEF Reports
  <2>3. shown' \in {NoRom, loaded}
    BY <1>24, <2>2 DEF DrainEvents
  <2> QED BY <1>24, <2>3 DEF DrainEvents, Flushing, PresentedPhase, PresentOrWarn
<1>25. CASE DrainFailure
  BY <1>25 DEF DrainFailure, StopSession, StopSent
<1>26. CASE BeginTick
  BY <1>26 DEF BeginTick
<1>27. CASE BeginFrame
  BY <1>27 DEF BeginFrame
<1>28. CASE FrameDone
  BY <1>28 DEF FrameDone
<1>29. CASE FrameError
  BY <1>29 DEF FrameError, StopSession, StopSent
<1>30. CASE EndTick
  BY <1>30 DEF EndTick, Flushing, PresentedPhase, PresentOrWarn
<1>31. CASE GpuBridgeFailed
  BY <1>31 DEF GpuBridgeFailed, StopSession, StopSent
<1>32. CASE DrawShell
  BY <1>32 DEF DrawShell, ShellPainted
<1>33. CASE TryOtherCore
  BY <1>33 DEF TryOtherCore, QueueLaunch
<1>34. CASE DismissShell
  BY <1>34 DEF DismissShell
<1>35. CASE ResetButton
  BY <1>35 DEF ResetButton, Request
<1>36. CASE WorkerStops
  BY <1>36 DEF WorkerStops, WorkerEnds
<1>37. CASE WorkerTakes
  BY <1>37 DEF WorkerTakes
<1>38. CASE WorkerReplies
  BY <1>38 DEF WorkerReplies, WorkerDone, WorkerUnlocks
<1>39. CASE WorkerWakes
  BY <1>39 DEF WorkerWakes
<1>40. CASE WorkerChecks
  BY <1>40 DEF WorkerChecks, WorkerEnds
<1>41. CASE WorkerRuns
  BY <1>41 DEF WorkerRuns
<1>42. CASE WorkerFrameDone
  BY <1>42 DEF WorkerFrameDone, Presented
<1>43. CASE WorkerFrameError
  BY <1>43 DEF WorkerFrameError, WorkerUnlocks, WorkerEnds
<1>44. CASE WorkerPanics
  BY <1>44 DEF WorkerPanics, WorkerUnlocks, WorkerEnds, WorkerInCore
<1>45. CASE UNCHANGED vars
  BY <1>45 DEF vars
<1>46. CASE FlushReturns
  BY <1>46 DEF FlushReturns
<1>47. CASE HostReset
  BY <1>47 DEF HostReset
<1>48. CASE PortsConfigured
  BY <1>48 DEF PortsConfigured, Finish
<1>49. CASE SkipTick
  BY <1>49 DEF SkipTick, PresentedPhase, PresentOrWarn
<1>50. CASE FailFlushReturns
  BY <1>50 DEF FailFlushReturns, StopSession, StopSent
<1>51. CASE WorkerResets
  BY <1>51 DEF WorkerResets
<1> QED
  BY <1>1, <1>2, <1>3, <1>4, <1>5, <1>6, <1>7, <1>8, <1>9, <1>10, <1>11,
     <1>12, <1>13, <1>14, <1>15, <1>16, <1>17, <1>18, <1>19, <1>20, <1>21,
     <1>22, <1>23, <1>24, <1>25, <1>26, <1>27, <1>28, <1>29, <1>30, <1>31,
     <1>32, <1>33, <1>34, <1>35, <1>36, <1>37, <1>38, <1>39, <1>40, <1>41,
     <1>42, <1>43, <1>44, <1>45, <1>46, <1>47, <1>48, <1>49, <1>50, <1>51
  DEF Next, UiNext, UpdateNext, StopNext, LaunchNext, InputNext, PumpNext, DrawNext, WorkerNext, Terminated

LEMMA CommandsStep ==
    ASSUME TypeOK, Control, CommandsInFlight, SavesOwnState, [Next]_vars
    PROVE  CommandsInFlight' /\ SavesOwnState'
<1> USE NoRomIsNone
    DEF TypeOK, Control, LockHolder, RunnerOfSession, PhaseMatchesHost, UiPlace, RomsKnown,
        CommandsInFlight, SavesOwnState, Requests, Answered, Stop, WorkerAlive,
        tickVars, playVars, hostVars, channelVars, RomOrNone, WorkerPlaces, Modes, UiPlaces
<1>1. CASE CloseAfterStop
  BY <1>1 DEF CloseAfterStop
<1>2. CASE CloseRequested
  BY <1>2 DEF CloseRequested, StopSession, SessionOpen, StopSent
<1>3. CASE Quit
  BY <1>3 DEF Quit
<1>4. CASE OnExit
  BY <1>4 DEF OnExit, StopSession, SessionOpen, StopSent
<1>5. CASE LaunchRom
  BY <1>5 DEF LaunchRom, QueueLaunch, ShellActive
<1>6. CASE EnterPlay
  BY <1>6 DEF EnterPlay, ShellActive
<1>7. CASE JoinWorker
  BY <1>7 DEF JoinWorker
<1>8. CASE Unload
  BY <1>8 DEF Unload
<1>9. CASE ClearSession
  BY <1>9 DEF ClearSession, ClearPlay
<1>10. CASE BeginLoad
  BY <1>10 DEF BeginLoad
<1>11. CASE NoLoad
  BY <1>11 DEF NoLoad
<1>12. CASE LoadOk
  BY <1>12 DEF LoadOk, ExecutorMode
<1>13. CASE LoadRetry
  BY <1>13 DEF LoadRetry
<1>14. CASE LoadFailed
  BY <1>14 DEF LoadFailed
<1>15. CASE KeyboardEvent
  BY <1>15 DEF KeyboardEvent
<1>16. CASE ReturnTriggered
  <2>1. cmds = <<>> /\ Append(<<>>, Stop) = <<Stop>>
    BY <1>16 DEF ReturnTriggered
  <2> QED BY <1>16, <2>1 DEF ReturnTriggered, StopSession, StopSent
<1>17. CASE NoReturn
  BY <1>17 DEF NoReturn
<1>18. CASE ResetShortcut
  BY <1>18 DEF ResetShortcut, Request
<1>19. CASE QuickSave
  BY <1>19 DEF QuickSave, Request
<1>20. CASE QuickLoad
  BY <1>20 DEF QuickLoad, Request
<1>21. CASE SkipShortcut
  BY <1>21 DEF SkipShortcut
<1>22. CASE HostCallReturns
  BY <1>22 DEF HostCallReturns, Finish
<1>23. CASE ReplyReceived
  BY <1>23 DEF ReplyReceived, Finish
<1>24. CASE DrainEvents
  BY <1>24 DEF DrainEvents, Flushing, PresentedPhase, PresentOrWarn
<1>25. CASE DrainFailure
  BY <1>25 DEF DrainFailure, StopSession, StopSent
<1>26. CASE BeginTick
  BY <1>26 DEF BeginTick
<1>27. CASE BeginFrame
  BY <1>27 DEF BeginFrame
<1>28. CASE FrameDone
  BY <1>28 DEF FrameDone
<1>29. CASE FrameError
  BY <1>29 DEF FrameError, StopSession, StopSent
<1>30. CASE EndTick
  BY <1>30 DEF EndTick, Flushing, PresentedPhase, PresentOrWarn
<1>31. CASE GpuBridgeFailed
  BY <1>31 DEF GpuBridgeFailed, StopSession, StopSent
<1>32. CASE DrawShell
  BY <1>32 DEF DrawShell, ShellPainted
<1>33. CASE TryOtherCore
  BY <1>33 DEF TryOtherCore, QueueLaunch
<1>34. CASE DismissShell
  BY <1>34 DEF DismissShell
<1>35. CASE ResetButton
  BY <1>35 DEF ResetButton, Request
<1>36. CASE WorkerStops
  BY <1>36 DEF WorkerStops, WorkerEnds
<1>37. CASE WorkerTakes
  BY <1>37 DEF WorkerTakes
<1>38. CASE WorkerReplies
  BY <1>38 DEF WorkerReplies, WorkerDone, WorkerUnlocks
<1>39. CASE WorkerWakes
  BY <1>39 DEF WorkerWakes
<1>40. CASE WorkerChecks
  BY <1>40 DEF WorkerChecks, WorkerEnds
<1>41. CASE WorkerRuns
  BY <1>41 DEF WorkerRuns
<1>42. CASE WorkerFrameDone
  BY <1>42 DEF WorkerFrameDone, Presented
<1>43. CASE WorkerFrameError
  BY <1>43 DEF WorkerFrameError, WorkerUnlocks, WorkerEnds
<1>44. CASE WorkerPanics
  BY <1>44 DEF WorkerPanics, WorkerUnlocks, WorkerEnds, WorkerInCore
<1>45. CASE UNCHANGED vars
  BY <1>45 DEF vars
<1>46. CASE FlushReturns
  BY <1>46 DEF FlushReturns
<1>47. CASE HostReset
  BY <1>47 DEF HostReset
<1>48. CASE PortsConfigured
  BY <1>48 DEF PortsConfigured, Finish
<1>49. CASE SkipTick
  BY <1>49 DEF SkipTick, PresentedPhase, PresentOrWarn
<1>50. CASE FailFlushReturns
  BY <1>50 DEF FailFlushReturns, StopSession, StopSent
<1>51. CASE WorkerResets
  BY <1>51 DEF WorkerResets
<1> QED
  BY <1>1, <1>2, <1>3, <1>4, <1>5, <1>6, <1>7, <1>8, <1>9, <1>10, <1>11,
     <1>12, <1>13, <1>14, <1>15, <1>16, <1>17, <1>18, <1>19, <1>20, <1>21,
     <1>22, <1>23, <1>24, <1>25, <1>26, <1>27, <1>28, <1>29, <1>30, <1>31,
     <1>32, <1>33, <1>34, <1>35, <1>36, <1>37, <1>38, <1>39, <1>40, <1>41,
     <1>42, <1>43, <1>44, <1>45, <1>46, <1>47, <1>48, <1>49, <1>50, <1>51
  DEF Next, UiNext, UpdateNext, StopNext, LaunchNext, InputNext, PumpNext, DrawNext, WorkerNext, Terminated

LEMMA ReportsStep ==
    ASSUME TypeOK, Control, ReportsFromLoaded, PlayingWasPresented, [Next]_vars
    PROVE  ReportsFromLoaded' /\ PlayingWasPresented'
<1> USE NoRomIsNone
    DEF Control, RunnerOfSession, PhaseMatchesHost, UiPlace, Reports, ReportsFromLoaded,
        PlayingWasPresented, tickVars, playVars, hostVars, channelVars
<1>1. CASE CloseAfterStop
  BY <1>1 DEF CloseAfterStop
<1>2. CASE CloseRequested
  BY <1>2 DEF CloseRequested, StopSession, SessionOpen, StopSent
<1>3. CASE Quit
  BY <1>3 DEF Quit
<1>4. CASE OnExit
  BY <1>4 DEF OnExit, StopSession, SessionOpen, StopSent
<1>5. CASE LaunchRom
  BY <1>5 DEF LaunchRom, QueueLaunch, ShellActive
<1>6. CASE EnterPlay
  BY <1>6 DEF EnterPlay, ShellActive
<1>7. CASE JoinWorker
  BY <1>7 DEF JoinWorker
<1>8. CASE Unload
  BY <1>8 DEF Unload
<1>9. CASE ClearSession
  BY <1>9 DEF ClearSession, ClearPlay
<1>10. CASE BeginLoad
  BY <1>10 DEF BeginLoad
<1>11. CASE NoLoad
  BY <1>11 DEF NoLoad
<1>12. CASE LoadOk
  BY <1>12 DEF LoadOk, ExecutorMode
<1>13. CASE LoadRetry
  BY <1>13 DEF LoadRetry
<1>14. CASE LoadFailed
  BY <1>14 DEF LoadFailed
<1>15. CASE KeyboardEvent
  BY <1>15 DEF KeyboardEvent
<1>16. CASE ReturnTriggered
  BY <1>16 DEF ReturnTriggered, StopSession, StopSent
<1>17. CASE NoReturn
  BY <1>17 DEF NoReturn
<1>18. CASE ResetShortcut
  BY <1>18 DEF ResetShortcut, Request
<1>19. CASE QuickSave
  BY <1>19 DEF QuickSave, Request
<1>20. CASE QuickLoad
  BY <1>20 DEF QuickLoad, Request
<1>21. CASE SkipShortcut
  BY <1>21 DEF SkipShortcut
<1>22. CASE HostCallReturns
  BY <1>22 DEF HostCallReturns, Finish
<1>23. CASE ReplyReceived
  BY <1>23 DEF ReplyReceived, Finish
<1>24. CASE DrainEvents
  <2> HIDE DEF Reports
  <2>1. \A i \in 1..Len(events) : events[i] \in Reports
    BY DEF ReportsFromLoaded
  <2>2. Kinds \cap {"delivered", "ready"} # {} => metrics # {}
    <3> SUFFICES ASSUME NEW i \in 1..Len(events), events[i].kind \in {"delivered", "ready"}
                 PROVE  metrics # {}
      BY DEF Kinds
    <3> QED BY <2>1 DEF Reports
  <2>3. phase' = "Playing" => metrics # {}
    BY <1>24, <2>2 DEF DrainEvents, Flushing, PresentedPhase, PresentOrWarn, PlayingWasPresented
  <2>4. events' \in Seq(Reports')
    BY <1>24 DEF DrainEvents
  <2> QED BY <1>24, <2>3, <2>4 DEF DrainEvents, Flushing, ReportsFromLoaded, PlayingWasPresented
<1>25. CASE DrainFailure
  BY <1>25 DEF DrainFailure, StopSession, StopSent
<1>26. CASE BeginTick
  BY <1>26 DEF BeginTick
<1>27. CASE BeginFrame
  BY <1>27 DEF BeginFrame
<1>28. CASE FrameDone
  BY <1>28 DEF FrameDone
<1>29. CASE FrameError
  BY <1>29 DEF FrameError, StopSession, StopSent
<1>30. CASE EndTick
  BY <1>30 DEF EndTick, Flushing, PresentedPhase, PresentOrWarn
<1>31. CASE GpuBridgeFailed
  BY <1>31 DEF GpuBridgeFailed, StopSession, StopSent
<1>32. CASE DrawShell
  BY <1>32 DEF DrawShell, ShellPainted
<1>33. CASE TryOtherCore
  BY <1>33 DEF TryOtherCore, QueueLaunch
<1>34. CASE DismissShell
  BY <1>34 DEF DismissShell
<1>35. CASE ResetButton
  BY <1>35 DEF ResetButton, Request
<1>36. CASE WorkerStops
  <2>1. [kind |-> "stopped", from |-> NoRom] \in Reports /\ Reports' = Reports
    BY <1>36 DEF WorkerStops
  <2> HIDE DEF Reports
  <2> QED BY <1>36, <2>1 DEF WorkerStops, WorkerEnds
<1>37. CASE WorkerTakes
  BY <1>37 DEF WorkerTakes
<1>38. CASE WorkerReplies
  BY <1>38 DEF WorkerReplies, WorkerDone, WorkerUnlocks
<1>39. CASE WorkerWakes
  BY <1>39 DEF WorkerWakes
<1>40. CASE WorkerChecks
  <2>1. /\ [kind |-> "failed", from |-> loaded] \in Reports
        /\ [kind |-> "stepped", from |-> NoRom] \in Reports
        /\ Reports' = Reports
    BY <1>40 DEF WorkerChecks
  <2> HIDE DEF Reports
  <2>2. /\ events \o <<[kind |-> "failed", from |-> loaded]>> \in Seq(Reports)
        /\ Append(events, [kind |-> "stepped", from |-> NoRom]) \in Seq(Reports)
    BY <2>1
  <2>3. events' \in Seq(Reports')
    BY <1>40, <2>1, <2>2 DEF WorkerChecks, WorkerEnds
  <2> QED BY <1>40, <2>3 DEF WorkerChecks
<1>41. CASE WorkerRuns
  BY <1>41 DEF WorkerRuns
<1>42. CASE WorkerFrameDone
  <2> DEFINE d == [kind |-> "delivered", from |-> loaded]
             r == [kind |-> "ready", from |-> loaded]
             p == [kind |-> "stepped", from |-> loaded]
  <2>1. PICK out \in {"embedded", "external", "none"} :
           /\ metrics' = metrics \cup ({out} \ {"none"})
           /\ events' = events \o (IF out = "embedded" THEN <<d>> ELSE <<>>)
                                \o (IF metrics' # {} THEN <<r>> ELSE <<>>) \o <<p>>
    BY <1>42 DEF WorkerFrameDone, Presented
  <2>2. loaded' = loaded /\ UNCHANGED <<phase, runner>>
    BY <1>42 DEF WorkerFrameDone
  <2>3. /\ Reports \subseteq Reports' /\ p \in Reports'
        /\ (out = "embedded" => d \in Reports') /\ (metrics' # {} => r \in Reports')
    BY <2>1, <2>2
  <2> HIDE DEF Reports, d, r, p
  <2>4. /\ events \in Seq(Reports') /\ <<p>> \in Seq(Reports')
        /\ (IF out = "embedded" THEN <<d>> ELSE <<>>) \in Seq(Reports')
        /\ (IF metrics' # {} THEN <<r>> ELSE <<>>) \in Seq(Reports')
    BY <2>3
  <2>5. events' \in Seq(Reports')
    BY <2>1, <2>4
  <2>6. worker # "none"
    BY <1>42 DEF WorkerFrameDone
  <2> QED BY <2>1, <2>2, <2>5, <2>6
<1>43. CASE WorkerFrameError
  <2>1. [kind |-> "failed", from |-> loaded] \in Reports /\ Reports' = Reports
    BY <1>43 DEF WorkerFrameError, WorkerUnlocks
  <2> HIDE DEF Reports
  <2>2. events \o <<[kind |-> "failed", from |-> loaded]>> \in Seq(Reports)
    BY <2>1
  <2> QED BY <1>43, <2>1, <2>2 DEF WorkerFrameError, WorkerUnlocks, WorkerEnds
<1>44. CASE WorkerPanics
  <2>1. Reports' = Reports
    BY <1>44 DEF WorkerPanics
  <2> HIDE DEF Reports
  <2> QED BY <1>44, <2>1 DEF WorkerPanics, WorkerUnlocks, WorkerEnds, WorkerInCore
<1>45. CASE UNCHANGED vars
  BY <1>45 DEF vars
<1>46. CASE FlushReturns
  BY <1>46 DEF FlushReturns
<1>47. CASE HostReset
  BY <1>47 DEF HostReset
<1>48. CASE PortsConfigured
  BY <1>48 DEF PortsConfigured, Finish
<1>49. CASE SkipTick
  BY <1>49 DEF SkipTick, PresentedPhase, PresentOrWarn
<1>50. CASE FailFlushReturns
  BY <1>50 DEF FailFlushReturns, StopSession, StopSent
<1>51. CASE WorkerResets
  BY <1>51 DEF WorkerResets
<1> QED
  BY <1>1, <1>2, <1>3, <1>4, <1>5, <1>6, <1>7, <1>8, <1>9, <1>10, <1>11,
     <1>12, <1>13, <1>14, <1>15, <1>16, <1>17, <1>18, <1>19, <1>20, <1>21,
     <1>22, <1>23, <1>24, <1>25, <1>26, <1>27, <1>28, <1>29, <1>30, <1>31,
     <1>32, <1>33, <1>34, <1>35, <1>36, <1>37, <1>38, <1>39, <1>40, <1>41,
     <1>42, <1>43, <1>44, <1>45, <1>46, <1>47, <1>48, <1>49, <1>50, <1>51
  DEF Next, UiNext, UpdateNext, StopNext, LaunchNext, InputNext, PumpNext, DrawNext, WorkerNext, Terminated

\* The inductive invariant holds: the theorems below are read off from it.
THEOREM Invariance == Spec => [](TypeOK /\ IInv)
<1>1. Init => IInv
  BY IInvInit
<1>2. TypeOK /\ IInv /\ [Next]_vars => IInv'
  BY ControlStep, CommandsStep, ReportsStep DEF IInv, Control
<1> QED BY <1>1, <1>2, TypeCorrect, PTL DEF Spec
-----------------------------------------------------------------------------
(* The properties.                                                           *)

\* The two threads are never inside the core together, the keyboard callback
\* set apart.
THEOREM CoreCallsAreSerial == Spec => []CoreCallsSerial
<1>1. TypeOK /\ IInv => CoreCallsSerial
  BY DEF TypeOK, IInv, CoreCallsSerial, UiInCore, WorkerInCore, LockHolder, RunnerOfSession,
     UiPlaces, WorkerPlaces
<1> QED BY <1>1, Invariance, PTL

\* The worker thread lives between the load and the unload of its core.
THEOREM WorkerLivesInSession == Spec => []WorkerOnlyInSession
<1>1. TypeOK /\ IInv => WorkerOnlyInSession
  BY DEF TypeOK, IInv, WorkerOnlyInSession, WorkerAlive, RunnerOfSession, WorkerPlaces
<1> QED BY <1>1, Invariance, PTL

\* The launch phase and the host agree on whether a core is loaded.
THEOREM PhaseAgreesWithHost == Spec => []PhaseMatchesHost
<1>1. IInv => PhaseMatchesHost
  BY DEF IInv
<1> QED BY <1>1, Invariance, PTL

\* The launch shell never gives way to a game that has delivered no frame.
THEOREM PlayingImpliesPresented == Spec => []PlayingWasPresented
<1>1. IInv => PlayingWasPresented
  BY DEF IInv
<1> QED BY <1>1, Invariance, PTL

\* No frame of an earlier session is shown, nor waits to be.
THEOREM FramesAreOfThisSession == Spec => []NoStaleFrame
<1>1. IInv => NoStaleFrame
  <2> SUFFICES ASSUME IInv PROVE NoStaleFrame
    OBVIOUS
  <2>1. \A i \in 1..Len(events) : events[i] \in Reports
    BY DEF IInv, ReportsFromLoaded
  <2>2. \A i \in 1..Len(events) : events[i].from \in {NoRom, loaded}
    BY <2>1 DEF Reports
  <2>3. shown \in {NoRom, loaded}
    BY DEF IInv, RomsKnown
  <2> QED BY <2>2, <2>3 DEF NoStaleFrame
<1> QED BY <1>1, Invariance, PTL

\* Every quick save holds the bytes of its own rom's core.
THEOREM SavesHoldOwnState == Spec => []SavesOwnState
<1>1. IInv => SavesOwnState
  BY DEF IInv
<1> QED BY <1>1, Invariance, PTL

\* A waiting UI thread has a live worker that holds its command.
THEOREM RequestsAreHeld == Spec => []NoOrphanRequest
<1>1. IInv => NoOrphanRequest
  <2> SUFFICES ASSUME IInv, ui = "await", reply.st = "pending"
               PROVE  WorkerAlive /\ \E i \in 1..Len(cmds) : cmds[i] = asked
    BY DEF NoOrphanRequest
  <2>1. WorkerAlive /\ cmds = <<asked>>
    BY DEF IInv, CommandsInFlight
  <2>2. 1 \in 1..Len(cmds) /\ cmds[1] = asked
    BY <2>1
  <2> QED BY <2>1, <2>2
<1> QED BY <1>1, Invariance, PTL

\* A joined worker has been told to stop.
THEOREM StopIsSent == Spec => []StopReachesWorker
<1>1. IInv => StopReachesWorker
  <2> SUFFICES ASSUME IInv, ui = "join", worker # "gone"
               PROVE  \E i \in 1..Len(cmds) : cmds[i] = Stop
    BY DEF StopReachesWorker
  <2>1. cmds = <<Stop>>
    BY DEF IInv, CommandsInFlight
  <2>2. 1 \in 1..Len(cmds) /\ cmds[1] = Stop
    BY <2>1
  <2> QED BY <2>2
<1> QED BY <1>1, Invariance, PTL

\* The program ends with nothing loaded and nothing running.
THEOREM EndsClean == Spec => []ClosedClean
<1>1. TypeOK /\ IInv => ClosedClean
  BY DEF TypeOK, IInv, ClosedClean, RunnerOfSession, UiPlace, WorkerPlaces
<1> QED BY <1>1, Invariance, PTL

\* A command is carried out by the core of the session that sent it.
THEOREM RequestsStayInSession == Spec => RequestInItsSession
<1>1. TypeOK /\ IInv /\ [Next]_vars =>
        [WorkerDone /\ worker' = "idle" => Head(cmds).rom = loaded]_vars
  <2> SUFFICES ASSUME TypeOK, IInv, worker \in {"exec", "ports"}
               PROVE  Head(cmds).rom = loaded
    BY DEF WorkerDone
  <2>1. cmds # <<>> /\ Head(cmds).op # "Stop"
    BY DEF IInv, CommandsInFlight
  <2>2. cmds = <<asked>> /\ asked.rom = loaded
    <3>1. cmds # <<Stop>>
      BY <2>1 DEF Stop
    <3> QED BY <2>1, <3>1 DEF IInv, CommandsInFlight
  <2> QED BY <2>2
<1> QED BY <1>1, Invariance, PTL DEF Spec, RequestInItsSession

-----------------------------------------------------------------------------
(* The refinement.                                                           *)

LEMMA StepRefines ==
    ASSUME TypeOK, IInv, [Next]_vars
    PROVE  [Core!Next]_(Core!vars)
<1> USE NoRomIsNone
    DEF TypeOK, IInv, LockHolder, RunnerOfSession, UiPlace, PhaseMatchesHost, RomsKnown,
        Core!vars, Core!Next, Core!Open, Core!Opened, Core!Enter, Core!Leave, Core!Closed,
        Core!Threads, Caller, UiInCore, WorkerInCore, WorkerPlaces, UiPlaces,
        tickVars, playVars, hostVars, channelVars
<1>1. CASE CloseAfterStop
  BY <1>1 DEF CloseAfterStop
<1>2. CASE CloseRequested
  BY <1>2 DEF CloseRequested, StopSession, SessionOpen, StopSent
<1>3. CASE Quit
  BY <1>3 DEF Quit
<1>4. CASE OnExit
  BY <1>4 DEF OnExit, StopSession, SessionOpen, StopSent
<1>5. CASE LaunchRom
  BY <1>5 DEF LaunchRom, QueueLaunch, ShellActive
<1>6. CASE EnterPlay
  BY <1>6 DEF EnterPlay, ShellActive
<1>7. CASE JoinWorker
  BY <1>7 DEF JoinWorker
<1>8. CASE Unload
  BY <1>8 DEF Unload
<1>9. CASE ClearSession
  BY <1>9 DEF ClearSession, ClearPlay
<1>10. CASE BeginLoad
  BY <1>10 DEF BeginLoad
<1>11. CASE NoLoad
  BY <1>11 DEF NoLoad
<1>12. CASE LoadOk
  BY <1>12 DEF LoadOk, ExecutorMode
<1>13. CASE LoadRetry
  BY <1>13 DEF LoadRetry
<1>14. CASE LoadFailed
  BY <1>14 DEF LoadFailed
<1>15. CASE KeyboardEvent
  BY <1>15 DEF KeyboardEvent
<1>16. CASE ReturnTriggered
  BY <1>16 DEF ReturnTriggered, StopSession, StopSent
<1>17. CASE NoReturn
  BY <1>17 DEF NoReturn
<1>18. CASE ResetShortcut
  BY <1>18 DEF ResetShortcut, Request
<1>19. CASE QuickSave
  BY <1>19 DEF QuickSave, Request
<1>20. CASE QuickLoad
  BY <1>20 DEF QuickLoad, Request
<1>21. CASE SkipShortcut
  BY <1>21 DEF SkipShortcut
<1>22. CASE HostCallReturns
  BY <1>22 DEF HostCallReturns, Finish
<1>23. CASE ReplyReceived
  BY <1>23 DEF ReplyReceived, Finish
<1>24. CASE DrainEvents
  BY <1>24 DEF DrainEvents, Flushing, PresentedPhase, PresentOrWarn
<1>25. CASE DrainFailure
  BY <1>25 DEF DrainFailure, StopSession, StopSent
<1>26. CASE BeginTick
  BY <1>26 DEF BeginTick
<1>27. CASE BeginFrame
  BY <1>27 DEF BeginFrame
<1>28. CASE FrameDone
  BY <1>28 DEF FrameDone
<1>29. CASE FrameError
  BY <1>29 DEF FrameError, StopSession, StopSent
<1>30. CASE EndTick
  BY <1>30 DEF EndTick, Flushing, PresentedPhase, PresentOrWarn
<1>31. CASE GpuBridgeFailed
  BY <1>31 DEF GpuBridgeFailed, StopSession, StopSent
<1>32. CASE DrawShell
  BY <1>32 DEF DrawShell, ShellPainted
<1>33. CASE TryOtherCore
  BY <1>33 DEF TryOtherCore, QueueLaunch
<1>34. CASE DismissShell
  BY <1>34 DEF DismissShell
<1>35. CASE ResetButton
  BY <1>35 DEF ResetButton, Request
<1>36. CASE WorkerStops
  BY <1>36 DEF WorkerStops, WorkerEnds
<1>37. CASE WorkerTakes
  BY <1>37 DEF WorkerTakes
<1>38. CASE WorkerReplies
  BY <1>38 DEF WorkerReplies, WorkerDone, WorkerUnlocks
<1>39. CASE WorkerWakes
  BY <1>39 DEF WorkerWakes
<1>40. CASE WorkerChecks
  BY <1>40 DEF WorkerChecks, WorkerEnds
<1>41. CASE WorkerRuns
  BY <1>41 DEF WorkerRuns
<1>42. CASE WorkerFrameDone
  BY <1>42 DEF WorkerFrameDone, Presented
<1>43. CASE WorkerFrameError
  BY <1>43 DEF WorkerFrameError, WorkerUnlocks, WorkerEnds
<1>44. CASE WorkerPanics
  BY <1>44 DEF WorkerPanics, WorkerUnlocks, WorkerEnds, WorkerInCore
<1>45. CASE UNCHANGED vars
  BY <1>45 DEF vars
<1>46. CASE FlushReturns
  BY <1>46 DEF FlushReturns
<1>47. CASE HostReset
  BY <1>47 DEF HostReset
<1>48. CASE PortsConfigured
  BY <1>48 DEF PortsConfigured, Finish
<1>49. CASE SkipTick
  BY <1>49 DEF SkipTick, PresentedPhase, PresentOrWarn
<1>50. CASE FailFlushReturns
  BY <1>50 DEF FailFlushReturns, StopSession, StopSent
<1>51. CASE WorkerResets
  BY <1>51 DEF WorkerResets
<1> QED
  BY <1>1, <1>2, <1>3, <1>4, <1>5, <1>6, <1>7, <1>8, <1>9, <1>10, <1>11,
     <1>12, <1>13, <1>14, <1>15, <1>16, <1>17, <1>18, <1>19, <1>20, <1>21,
     <1>22, <1>23, <1>24, <1>25, <1>26, <1>27, <1>28, <1>29, <1>30, <1>31,
     <1>32, <1>33, <1>34, <1>35, <1>36, <1>37, <1>38, <1>39, <1>40, <1>41,
     <1>42, <1>43, <1>44, <1>45, <1>46, <1>47, <1>48, <1>49, <1>50, <1>51
  DEF Next, UiNext, UpdateNext, StopNext, LaunchNext, InputNext, PumpNext, DrawNext, WorkerNext, Terminated

\* The frontend keeps the promises of CoreSession to the cores it runs.
THEOREM RefinesCoreSession == Spec => CoreSessionSpec
<1>1. Init => Core!Init
  BY DEF Init, Core!Init, Caller, UiInCore, WorkerInCore
<1>2. TypeOK /\ IInv /\ [Next]_vars => [Core!Next]_(Core!vars)
  BY StepRefines
<1> QED BY <1>1, <1>2, Invariance, PTL DEF Spec, CoreSessionSpec, Core!Spec

=============================================================================
