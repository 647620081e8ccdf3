-------------------------- MODULE CoreHostProofs ---------------------------
(***************************************************************************)
(* Proofs about CoreHost, for any cores, any strategies and any machine:   *)
(* the types, the invariant, from it that no load, retry or unload leaves  *)
(* a core half loaded or half gone, and that the order of the libretro API *)
(* is kept.                                                                *)
(***************************************************************************)
EXTENDS CoreHost, TLAPS

\* Every core is given one of the backends.
LEMMA SelectsBackend ==
    \A c \in Core, asked \in Contexts \cup {"none"} : SelectBackend(c, asked) \in Backends
  BY DEF SelectBackend, SelectPcsx2, ForRequest, Backends, Contexts

\* Every step keeps the types: that a retry has a strategy left is the invariant's.
LEMMA StepTypes ==
    ASSUME TypeOK, IInv, [Next]_vars
    PROVE  TypeOK'
<1> USE DEF TypeOK, Steps, Unloading
<1>1. ASSUME NEW g \in Unloading, Begin(g) PROVE TypeOK'
  BY <1>1 DEF Begin, machine, coreVars, videoVars, loadVars
<1>2. CASE UnloadGame
  BY <1>2, CoreHostAssumption DEF UnloadGame, DeinitFirst, machine, videoVars, loadVars
<1>3. CASE UnloadNothing
  BY <1>3 DEF UnloadNothing, DestroySession, EndSession, machine, videoVars, loadVars
<1>4. CASE Destroy
  BY <1>4 DEF Destroy, DestroySession, EndSession, machine, videoVars, loadVars
<1>5. CASE Deinit
  BY <1>5 DEF Deinit, DeinitFirst, machine, videoVars, loadVars
<1>6. CASE AbandonContext
  BY <1>6 DEF AbandonContext, EndSession, machine, loadVars
<1>7. CASE DropLibrary
  BY <1>7 DEF DropLibrary, UnmapLibrary, Unmapped, machine, videoVars, loadVars
<1>8. CASE ClearRuntime
  BY <1>8 DEF ClearRuntime, machine, coreVars, videoVars, loadVars
<1>9. CASE PlanSession
  BY <1>9, SelectsBackend DEF PlanSession, machine, coreVars, loadVars
<1>10. CASE Configure
  BY <1>10 DEF Configure, machine
<1>11. CASE PrepareContent
  BY <1>11, CoreHostAssumption DEF PrepareContent, machine, coreVars, videoVars
<1>12. CASE LoadFails
  BY <1>12 DEF LoadFails, machine, coreVars, videoVars
<1>13. CASE MapLibrary
  BY <1>13 DEF MapLibrary, machine, videoVars
<1>14. CASE InitCore
  BY <1>14 DEF InitCore, machine, videoVars, loadVars
<1>15. CASE ContextFails
  BY <1>15 DEF ContextFails, UnmapLibrary, Unmapped, machine, videoVars, loadVars
<1>16. CASE BeginGame
  BY <1>16 DEF BeginGame, ContextReset, machine, videoVars, loadVars
<1>17. CASE GameTaken
  BY <1>17 DEF GameTaken, machine, videoVars, loadVars
<1>18. CASE GameRefused
  BY <1>18 DEF GameRefused, machine, coreVars, videoVars, loadVars
<1>19. CASE RefuseCore
  BY <1>19 DEF RefuseCore, machine, videoVars, loadVars
<1>20. CASE FinishLoad
  BY <1>20 DEF FinishLoad, ContextReset, machine, videoVars, loadVars
<1>21. CASE Retry
  BY <1>21, SelectsBackend, CoreHostAssumption DEF Retry, TryNext, PlanAgain, UnmapLibrary,
     Unmapped, machine, IInv, BringingUp
<1>22. CASE Registers
  BY <1>22 DEF Registers, machine, videoVars, loadVars
<1>23. ASSUME NEW context \in Contexts, AsksContext(context) PROVE TypeOK'
  BY <1>23 DEF AsksContext, machine, videoVars
<1>24. CASE UNCHANGED vars
  BY <1>24 DEF vars, machine, coreVars, videoVars, loadVars
<1> QED
  BY <1>1, <1>2, <1>3, <1>4, <1>5, <1>6, <1>7, <1>8, <1>9, <1>10, <1>11, <1>12, <1>13,
     <1>14, <1>15, <1>16, <1>17, <1>18, <1>19, <1>20, <1>21, <1>22, <1>23, <1>24 DEF Next,
     UnloadNext, LoadNext, CoreNext, Terminated

-----------------------------------------------------------------------------
(* The invariant.                                                            *)

\* Every step keeps the invariant: one step for each action and part.
LEMMA StepInvariant ==
    ASSUME TypeOK, IInv, [Next]_vars
    PROVE  IInv'
<1> USE DEF IInv, Clean, Empty, TypeOK, Unloading
<1>1. ASSUME NEW g \in Unloading, Begin(g) PROVE IInv'
  <2>1. Resting'
    BY <1>1 DEF Begin, machine, coreVars, videoVars, loadVars, Resting, TearingDown,
         BringingUp
  <2>2. TearingDown'
    BY <1>1 DEF Begin, machine, coreVars, videoVars, loadVars, Resting, TearingDown,
         BringingUp, DeinitFirst
  <2>3. BringingUp'
    BY <1>1 DEF Begin, machine, coreVars, videoVars, loadVars, Resting, TearingDown,
         BringingUp
  <2> QED
    BY <2>1, <2>2, <2>3
<1>2. CASE UnloadGame
  <2>1. Resting'
    BY <1>2, CoreHostAssumption DEF UnloadGame, machine, videoVars, loadVars, Resting,
         TearingDown, BringingUp, DeinitFirst
  <2>2. TearingDown'
    BY <1>2, CoreHostAssumption DEF UnloadGame, machine, videoVars, loadVars, Resting,
         TearingDown, BringingUp, DeinitFirst
  <2>3. BringingUp'
    BY <1>2, CoreHostAssumption DEF UnloadGame, machine, videoVars, loadVars, Resting,
         TearingDown, BringingUp, DeinitFirst
  <2> QED
    BY <2>1, <2>2, <2>3
<1>3. CASE UnloadNothing
  <2>1. Resting'
    BY <1>3, CoreHostAssumption DEF UnloadNothing, DestroySession, EndSession, machine,
         videoVars, loadVars, Resting, TearingDown, BringingUp
  <2>2. TearingDown'
    BY <1>3, CoreHostAssumption DEF UnloadNothing, DestroySession, EndSession, machine,
         videoVars, loadVars, Resting, TearingDown, BringingUp, DeinitFirst
  <2>3. BringingUp'
    BY <1>3, CoreHostAssumption DEF UnloadNothing, DestroySession, EndSession, machine,
         videoVars, loadVars, Resting, TearingDown, BringingUp
  <2> QED
    BY <2>1, <2>2, <2>3
<1>4. CASE Destroy
  <2>1. Resting'
    BY <1>4 DEF Destroy, DestroySession, EndSession, machine, videoVars, loadVars, Resting,
         TearingDown, BringingUp
  <2>2. TearingDown'
    BY <1>4 DEF Destroy, DestroySession, EndSession, machine, videoVars, loadVars, Resting,
         TearingDown, BringingUp, DeinitFirst
  <2>3. BringingUp'
    BY <1>4 DEF Destroy, DestroySession, EndSession, machine, videoVars, loadVars, Resting,
         TearingDown, BringingUp
  <2> QED
    BY <2>1, <2>2, <2>3
<1>5. CASE Deinit
  <2>1. Resting'
    BY <1>5 DEF Deinit, machine, videoVars, loadVars, Resting, TearingDown, BringingUp,
         DeinitFirst
  <2>2. TearingDown'
    BY <1>5 DEF Deinit, machine, videoVars, loadVars, Resting, TearingDown, BringingUp,
         DeinitFirst
  <2>3. BringingUp'
    BY <1>5 DEF Deinit, machine, videoVars, loadVars, Resting, TearingDown, BringingUp,
         DeinitFirst
  <2> QED
    BY <2>1, <2>2, <2>3
<1>6. CASE AbandonContext
  <2>1. Resting'
    BY <1>6 DEF AbandonContext, EndSession, machine, loadVars, Resting, TearingDown,
         BringingUp
  <2>2. TearingDown'
    BY <1>6 DEF AbandonContext, EndSession, machine, loadVars, Resting, TearingDown,
         BringingUp, DeinitFirst
  <2>3. BringingUp'
    BY <1>6 DEF AbandonContext, EndSession, machine, loadVars, Resting, TearingDown,
         BringingUp
  <2> QED
    BY <2>1, <2>2, <2>3
<1>7. CASE DropLibrary
  <2>1. Resting'
    BY <1>7 DEF DropLibrary, UnmapLibrary, Unmapped, machine, videoVars, loadVars, Resting,
         TearingDown, BringingUp
  <2>2. TearingDown'
    BY <1>7 DEF DropLibrary, UnmapLibrary, Unmapped, machine, videoVars, loadVars, Resting,
         TearingDown, BringingUp, DeinitFirst
  <2>3. BringingUp'
    BY <1>7 DEF DropLibrary, UnmapLibrary, Unmapped, machine, videoVars, loadVars, Resting,
         TearingDown, BringingUp
  <2> QED
    BY <2>1, <2>2, <2>3
<1>8. CASE ClearRuntime
  <2>1. Resting'
    BY <1>8 DEF ClearRuntime, machine, coreVars, videoVars, loadVars, Resting, TearingDown,
         BringingUp
  <2>2. TearingDown'
    BY <1>8 DEF ClearRuntime, machine, coreVars, videoVars, loadVars, Resting, TearingDown,
         BringingUp, DeinitFirst
  <2>3. BringingUp'
    BY <1>8 DEF ClearRuntime, machine, coreVars, videoVars, loadVars, Resting, TearingDown,
         BringingUp
  <2> QED
    BY <2>1, <2>2, <2>3
<1>9. CASE PlanSession
  <2>1. Resting'
    BY <1>9, SelectsBackend DEF PlanSession, machine, coreVars, loadVars, Backends,
         Resting, TearingDown, BringingUp
  <2>2. TearingDown'
    BY <1>9, SelectsBackend DEF PlanSession, machine, coreVars, loadVars, Backends,
         Resting, TearingDown, BringingUp, DeinitFirst
  <2>3. BringingUp'
    BY <1>9, SelectsBackend DEF PlanSession, machine, coreVars, loadVars, Backends,
         Resting, TearingDown, BringingUp
  <2> QED
    BY <2>1, <2>2, <2>3
<1>10. CASE Configure
  <2>1. Resting'
    BY <1>10 DEF Configure, machine, Resting, TearingDown, BringingUp
  <2>2. TearingDown'
    BY <1>10 DEF Configure, machine, Resting, TearingDown, BringingUp, DeinitFirst
  <2>3. BringingUp'
    BY <1>10 DEF Configure, machine, Resting, TearingDown, BringingUp
  <2> QED
    BY <2>1, <2>2, <2>3
<1>11. CASE PrepareContent
  <2>1. Resting'
    BY <1>11 DEF PrepareContent, machine, coreVars, videoVars, Resting, TearingDown,
         BringingUp
  <2>2. TearingDown'
    BY <1>11 DEF PrepareContent, machine, coreVars, videoVars, Resting, TearingDown,
         BringingUp, DeinitFirst
  <2>3. BringingUp'
    BY <1>11 DEF PrepareContent, machine, coreVars, videoVars, Resting, TearingDown,
         BringingUp
  <2> QED
    BY <2>1, <2>2, <2>3
<1>12. CASE LoadFails
  <2>1. Resting'
    BY <1>12 DEF LoadFails, machine, coreVars, videoVars, Resting, TearingDown, BringingUp
  <2>2. TearingDown'
    BY <1>12 DEF LoadFails, machine, coreVars, videoVars, Resting, TearingDown, BringingUp,
         DeinitFirst
  <2>3. BringingUp'
    BY <1>12 DEF LoadFails, machine, coreVars, videoVars, Resting, TearingDown, BringingUp
  <2> QED
    BY <2>1, <2>2, <2>3
<1>13. CASE MapLibrary
  <2>1. Resting'
    BY <1>13 DEF MapLibrary, machine, videoVars, Resting, TearingDown, BringingUp
  <2>2. TearingDown'
    BY <1>13 DEF MapLibrary, machine, videoVars, Resting, TearingDown, BringingUp,
         DeinitFirst
  <2>3. BringingUp'
    BY <1>13 DEF MapLibrary, machine, videoVars, Resting, TearingDown, BringingUp
  <2> QED
    BY <2>1, <2>2, <2>3
<1>14. CASE InitCore
  <2>1. Resting'
    BY <1>14 DEF InitCore, machine, videoVars, loadVars, Resting, TearingDown, BringingUp
  <2>2. TearingDown'
    BY <1>14 DEF InitCore, machine, videoVars, loadVars, Resting, TearingDown, BringingUp,
         DeinitFirst
  <2>3. BringingUp'
    BY <1>14 DEF InitCore, machine, videoVars, loadVars, Resting, TearingDown, BringingUp
  <2> QED
    BY <2>1, <2>2, <2>3
<1>15. CASE ContextFails
  <2>1. Resting'
    BY <1>15 DEF ContextFails, UnmapLibrary, Unmapped, machine, videoVars, loadVars,
         Resting, TearingDown, BringingUp
  <2>2. TearingDown'
    BY <1>15 DEF ContextFails, UnmapLibrary, Unmapped, machine, videoVars, loadVars,
         Resting, TearingDown, BringingUp, DeinitFirst
  <2>3. BringingUp'
    BY <1>15 DEF ContextFails, UnmapLibrary, Unmapped, machine, videoVars, loadVars,
         Resting, TearingDown, BringingUp
  <2> QED
    BY <2>1, <2>2, <2>3
<1>16. CASE BeginGame
  <2>1. Resting'
    BY <1>16 DEF BeginGame, ContextReset, machine, videoVars, loadVars, Resting,
         TearingDown, BringingUp
  <2>2. TearingDown'
    BY <1>16 DEF BeginGame, ContextReset, machine, videoVars, loadVars, Resting,
         TearingDown, BringingUp, DeinitFirst
  <2>3. BringingUp'
    BY <1>16 DEF BeginGame, ContextReset, machine, videoVars, loadVars, Resting,
         TearingDown, BringingUp
  <2> QED
    BY <2>1, <2>2, <2>3
<1>17. CASE GameTaken
  <2>1. Resting'
    BY <1>17 DEF GameTaken, machine, videoVars, loadVars, Resting, TearingDown, BringingUp
  <2>2. TearingDown'
    BY <1>17 DEF GameTaken, machine, videoVars, loadVars, Resting, TearingDown, BringingUp,
         DeinitFirst
  <2>3. BringingUp'
    BY <1>17 DEF GameTaken, machine, videoVars, loadVars, Resting, TearingDown, BringingUp
  <2> QED
    BY <2>1, <2>2, <2>3
<1>18. CASE GameRefused
  <2>1. Resting'
    BY <1>18 DEF GameRefused, machine, coreVars, videoVars, loadVars, Resting, TearingDown,
         BringingUp
  <2>2. TearingDown'
    BY <1>18 DEF GameRefused, machine, coreVars, videoVars, loadVars, Resting, TearingDown,
         BringingUp, DeinitFirst
  <2>3. BringingUp'
    BY <1>18 DEF GameRefused, machine, coreVars, videoVars, loadVars, Resting, TearingDown,
         BringingUp
  <2> QED
    BY <2>1, <2>2, <2>3
<1>19. CASE RefuseCore
  <2>1. Resting'
    BY <1>19 DEF RefuseCore, machine, videoVars, loadVars, Resting, TearingDown, BringingUp
  <2>2. TearingDown'
    BY <1>19 DEF RefuseCore, machine, videoVars, loadVars, Resting, TearingDown,
         BringingUp, DeinitFirst
  <2>3. BringingUp'
    BY <1>19 DEF RefuseCore, machine, videoVars, loadVars, Resting, TearingDown, BringingUp
  <2> QED
    BY <2>1, <2>2, <2>3
<1>20. CASE FinishLoad
  <2>1. Resting'
    BY <1>20, CoreHostAssumption DEF FinishLoad, ContextReset, machine, videoVars,
         loadVars, Resting, TearingDown, BringingUp
  <2>2. TearingDown'
    BY <1>20, CoreHostAssumption DEF FinishLoad, ContextReset, machine, videoVars,
         loadVars, Resting, TearingDown, BringingUp, DeinitFirst
  <2>3. BringingUp'
    BY <1>20, CoreHostAssumption DEF FinishLoad, ContextReset, machine, videoVars,
         loadVars, Resting, TearingDown, BringingUp
  <2> QED
    BY <2>1, <2>2, <2>3
<1>21. CASE Retry
  <2>1. Resting'
    BY <1>21, SelectsBackend DEF Retry, TryNext, PlanAgain, UnmapLibrary, Unmapped,
         machine, Backends, Resting, TearingDown, BringingUp
  <2>2. TearingDown'
    BY <1>21, SelectsBackend DEF Retry, TryNext, PlanAgain, UnmapLibrary, Unmapped,
         machine, Backends, Resting, TearingDown, BringingUp, DeinitFirst
  <2>3. BringingUp'
    BY <1>21, SelectsBackend DEF Retry, TryNext, PlanAgain, UnmapLibrary, Unmapped,
         machine, Backends, Resting, TearingDown, BringingUp
  <2> QED
    BY <2>1, <2>2, <2>3
<1>22. CASE Registers
  <2>1. Resting'
    BY <1>22 DEF Registers, machine, videoVars, loadVars, Resting, TearingDown, BringingUp
  <2>2. TearingDown'
    BY <1>22 DEF Registers, machine, videoVars, loadVars, Resting, TearingDown, BringingUp,
         DeinitFirst
  <2>3. BringingUp'
    BY <1>22 DEF Registers, machine, videoVars, loadVars, Resting, TearingDown, BringingUp
  <2> QED
    BY <2>1, <2>2, <2>3
<1>23. ASSUME NEW context \in Contexts, AsksContext(context) PROVE IInv'
  <2>1. Resting'
    BY <1>23 DEF AsksContext, machine, videoVars, Denied, Rejected, Backend, Resting,
         TearingDown, BringingUp
  <2>2. TearingDown'
    BY <1>23 DEF AsksContext, machine, videoVars, Denied, Rejected, Backend, Resting,
         TearingDown, BringingUp, DeinitFirst
  <2>3. BringingUp'
    BY <1>23 DEF AsksContext, machine, videoVars, Denied, Rejected, Backend, Resting,
         TearingDown, BringingUp
  <2> QED
    BY <2>1, <2>2, <2>3
<1>24. CASE UNCHANGED vars
  <2>1. Resting'
    BY <1>24 DEF vars, machine, coreVars, videoVars, loadVars, Resting, TearingDown,
         BringingUp
  <2>2. TearingDown'
    BY <1>24 DEF vars, machine, coreVars, videoVars, loadVars, Resting, TearingDown,
         BringingUp, DeinitFirst
  <2>3. BringingUp'
    BY <1>24 DEF vars, machine, coreVars, videoVars, loadVars, Resting, TearingDown,
         BringingUp
  <2> QED
    BY <2>1, <2>2, <2>3
<1> QED
  BY <1>1, <1>2, <1>3, <1>4, <1>5, <1>6, <1>7, <1>8, <1>9, <1>10, <1>11, <1>12, <1>13,
     <1>14, <1>15, <1>16, <1>17, <1>18, <1>19, <1>20, <1>21, <1>22, <1>23, <1>24 DEF Next,
     UnloadNext, LoadNext, CoreNext, Terminated

\* TypeOK and IInv are invariants of CoreHost, each needed for the other.
LEMMA Invariance == Spec => [](TypeOK /\ IInv)
<1>1. Init => TypeOK
  BY CoreHostAssumption DEF Init, TypeOK, Steps, Unloading
<1>2. Init => IInv
  BY CoreHostAssumption DEF Init, IInv, Resting, TearingDown, BringingUp, Clean, Empty, Unloading
<1>3. (TypeOK /\ IInv) /\ [Next]_vars => (TypeOK /\ IInv)'
  BY StepTypes, StepInvariant
<1> QED
  BY <1>1, <1>2, <1>3, PTL DEF Spec

\* Every variable keeps its type; a load makes no more attempts than it has
\* strategies.
THEOREM TypeCorrect == Spec => []TypeOK
<1> QED
  BY Invariance, PTL

\* No callback of a core that is gone is left where a core is there.
THEOREM CallbacksFollowTheCore == Spec => []CallbacksOfLoadedCore
<1>1. TypeOK /\ IInv => CallbacksOfLoadedCore
  BY DEF IInv, Resting, TearingDown, BringingUp, Clean, Empty, CallbacksOfLoadedCore, TypeOK, Steps
<1> QED
  BY <1>1, Invariance, PTL

\* A core that was loaded is loaded wholly.
THEOREM LoadsAreWhole == Spec => []LoadedIsWhole
<1>1. TypeOK /\ IInv => LoadedIsWhole
  BY DEF IInv, Resting, Empty, Clean, LoadedIsWhole, TypeOK
<1> QED
  BY <1>1, Invariance, PTL

\* A load that fails and an unload leave nothing of the core behind.
THEOREM NothingIsLeftBehind == Spec => []NothingOutlivesCore
<1>1. TypeOK /\ IInv => NothingOutlivesCore
  BY CoreHostAssumption DEF IInv, Resting, TearingDown, Empty, Clean, NothingOutlivesCore, TypeOK
<1> QED
  BY <1>1, Invariance, PTL

-----------------------------------------------------------------------------
(* The order of the libretro API.                                            *)

\* Every step of the host is one of the API's, or none.
LEMMA StepRefines ==
    ASSUME TypeOK, IInv, [Next]_vars
    PROVE  [Api!Next]_(Api!vars)
<1> USE DEF Stage, Context, TypeOK, IInv, Api!vars
<1>1. ASSUME NEW g \in Unloading, Begin(g) PROVE [Api!Next]_(Api!vars)
  BY <1>1 DEF Begin, machine, coreVars, videoVars, loadVars
<1>2. CASE UnloadGame
  BY <1>2, CoreHostAssumption DEF UnloadGame, machine, videoVars, loadVars, Api!Next,
     Api!UnloadGame, Api!Goes, Resting, TearingDown, BringingUp, Clean, Empty
<1>3. CASE UnloadNothing
  BY <1>3, CoreHostAssumption DEF UnloadNothing, DestroySession, EndSession, machine,
     videoVars, loadVars, Resting, Empty, Clean
<1>4. CASE Destroy
  BY <1>4 DEF Destroy, DestroySession, EndSession, machine, videoVars, loadVars, Api!Next,
     Api!DropContext, Resting, TearingDown, BringingUp, Clean, Empty
<1>5. CASE Deinit
  BY <1>5 DEF Deinit, machine, videoVars, loadVars, Api!Next, Api!Deinit, Api!Goes,
     Resting, TearingDown, BringingUp, Clean, Empty
<1>6. CASE AbandonContext
  BY <1>6 DEF AbandonContext, EndSession, machine, loadVars, Api!Next, Api!DropContext,
     Resting, TearingDown, BringingUp, Clean, Empty
<1>7. CASE DropLibrary
  BY <1>7 DEF DropLibrary, UnmapLibrary, Unmapped, machine, videoVars, loadVars, Api!Next,
     Api!Unmap, Api!Goes, Resting, TearingDown, BringingUp, Clean, Empty
<1>8. CASE ClearRuntime
  BY <1>8 DEF ClearRuntime, machine, coreVars, videoVars, loadVars
<1>9. CASE PlanSession
  BY <1>9 DEF PlanSession, machine, coreVars, loadVars
<1>10. CASE Configure
  BY <1>10 DEF Configure, machine
<1>11. CASE PrepareContent
  BY <1>11 DEF PrepareContent, machine, coreVars, videoVars
<1>12. CASE LoadFails
  BY <1>12 DEF LoadFails, machine, coreVars, videoVars
<1>13. CASE MapLibrary
  BY <1>13 DEF MapLibrary, machine, videoVars, Api!Next, Api!Map, Api!Goes, Resting,
     TearingDown, BringingUp, Clean, Empty
<1>14. CASE InitCore
  BY <1>14 DEF InitCore, machine, videoVars, loadVars, Api!Next, Api!InitCore, Api!Goes,
     Resting, TearingDown, BringingUp, Clean, Empty
<1>15. CASE ContextFails
  BY <1>15 DEF ContextFails, UnmapLibrary, Unmapped, machine, videoVars, loadVars,
     Api!Next, Api!Abandon, Resting, TearingDown, BringingUp, Clean, Empty
<1>16. CASE BeginGame
  BY <1>16 DEF BeginGame, ContextReset, machine, videoVars, loadVars, Api!Next,
     Api!ResetContext, Resting, TearingDown, BringingUp, Clean, Empty
<1>17. CASE GameTaken
  BY <1>17 DEF GameTaken, machine, videoVars, loadVars, Api!Next, Api!LoadGame, Api!Goes,
     Resting, TearingDown, BringingUp, Clean, Empty
<1>18. CASE GameRefused
  BY <1>18 DEF GameRefused, machine, coreVars, videoVars, loadVars
<1>19. CASE RefuseCore
  BY <1>19 DEF RefuseCore, machine, videoVars, loadVars, Api!Next, Api!UnloadGame,
     Api!Goes, Resting, TearingDown, BringingUp, Clean, Empty
<1>20. CASE FinishLoad
  BY <1>20 DEF FinishLoad, ContextReset, machine, videoVars, loadVars, Api!Next,
     Api!ResetContext, Resting, TearingDown, BringingUp, Clean, Empty
<1>21. CASE Retry
  BY <1>21 DEF Retry, UnmapLibrary, Unmapped, machine, Api!Next, Api!Unmap, Api!Goes,
     Resting, TearingDown, BringingUp, Clean, Empty
<1>22. CASE Registers
  BY <1>22 DEF Registers, machine, videoVars, loadVars
<1>23. ASSUME NEW context \in Contexts, AsksContext(context) PROVE [Api!Next]_(Api!vars)
  BY <1>23 DEF AsksContext, machine, videoVars, Api!Next, Api!AskContext, Resting,
     TearingDown, BringingUp, Clean, Empty
<1>24. CASE UNCHANGED vars
  BY <1>24 DEF vars, machine, coreVars, videoVars, loadVars
<1> QED
  BY <1>1, <1>2, <1>3, <1>4, <1>5, <1>6, <1>7, <1>8, <1>9, <1>10, <1>11, <1>12, <1>13,
     <1>14, <1>15, <1>16, <1>17, <1>18, <1>19, <1>20, <1>21, <1>22, <1>23, <1>24 DEF Next,
     UnloadNext, LoadNext, CoreNext, Terminated

\* Loads, retries and unloads keep the order of the libretro API.
THEOREM KeepsLibretroApi == Spec => LibretroApiSpec
<1>1. Init => Api!Init
  BY DEF Init, Api!Init, Stage, Context
<1>2. TypeOK /\ IInv /\ [Next]_vars => [Api!Next]_(Api!vars)
  BY StepRefines
<1> QED
  BY <1>1, <1>2, Invariance, PTL DEF Spec, LibretroApiSpec, Api!Spec

=============================================================================
