------------------------- MODULE SessionInputProofs -------------------------
(***************************************************************************)
(* Theorems of SessionInput: what a frame polls, what the core knows of    *)
(* the keys, and when a shortcut fires, for any number of pads, buttons,   *)
(* keys and shortcuts.                                                     *)
(***************************************************************************)
EXTENDS SessionInput, FiniteSetTheorems, FunctionTheorems, TLAPS

THEOREM Initial == Init => IInv
BY DEF Init, IInv, InputHeld, PolledWasHeld, KeysOfSession, KeysAgree, LatchesKnowPresses

(* What was not put in yet is still to be put in.                         *)
LEMMA InputHeldKept ==
    ASSUME InputHeld, [Next]_vars
    PROVE  InputHeld'
<1> USE DEF InputHeld, vars, padVars, keyVars, cutVars, sessionVars
<1>1. ASSUME NEW p \in Pad, Connect(p) PROVE InputHeld'
    BY <1>1 DEF Connect
<1>2. ASSUME NEW p \in Pad, Disconnect(p) PROVE InputHeld'
    BY <1>2 DEF Disconnect
<1>3. CASE PollInMenu
    BY <1>3 DEF PollInMenu, Reconcile
<1>4. CASE TypeInMenu
    BY <1>4 DEF TypeInMenu
<1>5. ASSUME NEW w \in BOOLEAN, NEW c \in BOOLEAN, NEW p \in BOOLEAN, Begin(w, c, p) PROVE InputHeld'
    BY <1>5 DEF Begin
<1>6. ASSUME NEW controls \in SUBSET Controls, Clear(controls) PROVE InputHeld'
    BY <1>6 DEF Clear, Held
<1>7. ASSUME NEW entry \in todo, SetInput(entry) PROVE InputHeld'
    BY <1>7 DEF SetInput
<1>8. ASSUME NEW k \in Key, KeyPressed(k) PROVE InputHeld'
    BY <1>8 DEF KeyPressed
<1>9. ASSUME NEW k \in Key, KeyReleased(k) PROVE InputHeld'
    BY <1>9 DEF KeyReleased
<1>10. CASE FocusLost
    BY <1>10 DEF FocusLost
<1>11. ASSUME NEW escape \in BOOLEAN, KeysSynced(escape) PROVE InputHeld'
    BY <1>11 DEF KeysSynced
<1>12. CASE CaptureGamepads
    BY <1>12 DEF CaptureGamepads, Reconcile, Held
<1>13. CASE Blocked
    BY <1>13 DEF Blocked
<1>14. ASSUME NEW expired \in SUBSET Hold, ReturnTriggered(expired) PROVE InputHeld'
    BY <1>14 DEF ReturnTriggered, Stopped
<1>15. ASSUME NEW expired \in SUBSET Hold, ApplyShortcuts(expired) PROVE InputHeld'
    BY <1>15 DEF ApplyShortcuts, Fires
<1>16. CASE WorkerFrame
    BY <1>16 DEF WorkerFrame
<1>17. CASE Pump
    BY <1>17 DEF Pump, FlushReleases
<1>18. CASE PumpFails
    BY <1>18 DEF PumpFails, Stopped
<1>19. CASE UNCHANGED vars
    BY <1>19
<1> QED
    BY <1>1, <1>2, <1>3, <1>4, <1>5, <1>6, <1>7, <1>8, <1>9, <1>10, <1>11, <1>12, <1>13,
     <1>14, <1>15, <1>16, <1>17, <1>18, <1>19 DEF Next

(* What is polled is a part of what is held.                              *)
LEMMA PollsKept ==
    ASSUME InputHeld, PolledWasHeld, [Next]_vars
    PROVE  PolledWasHeld'
<1> USE DEF InputHeld, PolledWasHeld, vars, padVars, keyVars, cutVars, sessionVars
<1>1. ASSUME NEW p \in Pad, Connect(p) PROVE PolledWasHeld'
    BY <1>1 DEF Connect
<1>2. ASSUME NEW p \in Pad, Disconnect(p) PROVE PolledWasHeld'
    BY <1>2 DEF Disconnect
<1>3. CASE PollInMenu
    BY <1>3 DEF PollInMenu, Reconcile
<1>4. CASE TypeInMenu
    BY <1>4 DEF TypeInMenu
<1>5. ASSUME NEW w \in BOOLEAN, NEW c \in BOOLEAN, NEW p \in BOOLEAN, Begin(w, c, p) PROVE PolledWasHeld'
    BY <1>5 DEF Begin
<1>6. ASSUME NEW controls \in SUBSET Controls, Clear(controls) PROVE PolledWasHeld'
    BY <1>6 DEF Clear, Held
<1>7. ASSUME NEW entry \in todo, SetInput(entry) PROVE PolledWasHeld'
    BY <1>7 DEF SetInput
<1>8. ASSUME NEW k \in Key, KeyPressed(k) PROVE PolledWasHeld'
    BY <1>8 DEF KeyPressed
<1>9. ASSUME NEW k \in Key, KeyReleased(k) PROVE PolledWasHeld'
    BY <1>9 DEF KeyReleased
<1>10. CASE FocusLost
    BY <1>10 DEF FocusLost
<1>11. ASSUME NEW escape \in BOOLEAN, KeysSynced(escape) PROVE PolledWasHeld'
    BY <1>11 DEF KeysSynced
<1>12. CASE CaptureGamepads
    BY <1>12 DEF CaptureGamepads, Reconcile, Held
<1>13. CASE Blocked
    BY <1>13 DEF Blocked
<1>14. ASSUME NEW expired \in SUBSET Hold, ReturnTriggered(expired) PROVE PolledWasHeld'
    BY <1>14 DEF ReturnTriggered, Stopped
<1>15. ASSUME NEW expired \in SUBSET Hold, ApplyShortcuts(expired) PROVE PolledWasHeld'
    BY <1>15 DEF ApplyShortcuts, Fires
<1>16. CASE WorkerFrame
    BY <1>16 DEF WorkerFrame
<1>17. CASE Pump
    BY <1>17 DEF Pump, FlushReleases
<1>18. CASE PumpFails
    BY <1>18 DEF PumpFails, Stopped
<1>19. CASE UNCHANGED vars
    BY <1>19
<1> QED
    BY <1>1, <1>2, <1>3, <1>4, <1>5, <1>6, <1>7, <1>8, <1>9, <1>10, <1>11, <1>12, <1>13,
     <1>14, <1>15, <1>16, <1>17, <1>18, <1>19 DEF Next

(* Releases are owed only for keys pressed since a frame.                 *)
LEMMA KeysOfSessionKept ==
    ASSUME KeysOfSession, [Next]_vars
    PROVE  KeysOfSession'
<1> USE DEF KeysOfSession, vars, padVars, keyVars, cutVars, sessionVars
<1>1. ASSUME NEW p \in Pad, Connect(p) PROVE KeysOfSession'
    BY <1>1 DEF Connect
<1>2. ASSUME NEW p \in Pad, Disconnect(p) PROVE KeysOfSession'
    BY <1>2 DEF Disconnect
<1>3. CASE PollInMenu
    BY <1>3 DEF PollInMenu, Reconcile
<1>4. CASE TypeInMenu
    BY <1>4 DEF TypeInMenu
<1>5. ASSUME NEW w \in BOOLEAN, NEW c \in BOOLEAN, NEW p \in BOOLEAN, Begin(w, c, p) PROVE KeysOfSession'
    BY <1>5 DEF Begin
<1>6. ASSUME NEW controls \in SUBSET Controls, Clear(controls) PROVE KeysOfSession'
    BY <1>6 DEF Clear, Held
<1>7. ASSUME NEW entry \in todo, SetInput(entry) PROVE KeysOfSession'
    BY <1>7 DEF SetInput
<1>8. ASSUME NEW k \in Key, KeyPressed(k) PROVE KeysOfSession'
    BY <1>8 DEF KeyPressed
<1>9. ASSUME NEW k \in Key, KeyReleased(k) PROVE KeysOfSession'
    BY <1>9 DEF KeyReleased
<1>10. CASE FocusLost
    BY <1>10 DEF FocusLost
<1>11. ASSUME NEW escape \in BOOLEAN, KeysSynced(escape) PROVE KeysOfSession'
    BY <1>11 DEF KeysSynced
<1>12. CASE CaptureGamepads
    BY <1>12 DEF CaptureGamepads, Reconcile, Held
<1>13. CASE Blocked
    BY <1>13 DEF Blocked
<1>14. ASSUME NEW expired \in SUBSET Hold, ReturnTriggered(expired) PROVE KeysOfSession'
    BY <1>14 DEF ReturnTriggered, Stopped
<1>15. ASSUME NEW expired \in SUBSET Hold, ApplyShortcuts(expired) PROVE KeysOfSession'
    BY <1>15 DEF ApplyShortcuts, Fires
<1>16. CASE WorkerFrame
    BY <1>16 DEF WorkerFrame
<1>17. CASE Pump
    BY <1>17 DEF Pump, FlushReleases
<1>18. CASE PumpFails
    BY <1>18 DEF PumpFails, Stopped
<1>19. CASE UNCHANGED vars
    BY <1>19
<1> QED
    BY <1>1, <1>2, <1>3, <1>4, <1>5, <1>6, <1>7, <1>8, <1>9, <1>10, <1>11, <1>12, <1>13,
     <1>14, <1>15, <1>16, <1>17, <1>18, <1>19 DEF Next

(* The core and the frontend agree.                                       *)
LEMMA KeysAgreeKept ==
    ASSUME KeysOfSession, KeysAgree, [Next]_vars
    PROVE  KeysAgree'
<1> USE DEF KeysOfSession, KeysAgree, vars, padVars, keyVars, cutVars, sessionVars
<1>1. ASSUME NEW p \in Pad, Connect(p) PROVE KeysAgree'
    BY <1>1 DEF Connect
<1>2. ASSUME NEW p \in Pad, Disconnect(p) PROVE KeysAgree'
    BY <1>2 DEF Disconnect
<1>3. CASE PollInMenu
    BY <1>3 DEF PollInMenu, Reconcile
<1>4. CASE TypeInMenu
    BY <1>4 DEF TypeInMenu
<1>5. ASSUME NEW w \in BOOLEAN, NEW c \in BOOLEAN, NEW p \in BOOLEAN, Begin(w, c, p) PROVE KeysAgree'
    BY <1>5 DEF Begin
<1>6. ASSUME NEW controls \in SUBSET Controls, Clear(controls) PROVE KeysAgree'
    BY <1>6 DEF Clear, Held
<1>7. ASSUME NEW entry \in todo, SetInput(entry) PROVE KeysAgree'
    BY <1>7 DEF SetInput
<1>8. ASSUME NEW k \in Key, KeyPressed(k) PROVE KeysAgree'
    BY <1>8 DEF KeyPressed
<1>9. ASSUME NEW k \in Key, KeyReleased(k) PROVE KeysAgree'
  <2>1. CASE ~callback
      BY <1>9, <2>1 DEF KeyReleased
  <2>2. CASE callback /\ passthrough /\ k \in since
    <3>1. known' = (prev' \ lost') \cup pending'
        BY <1>9, <2>2 DEF KeyReleased
    <3> QED
        BY <1>9, <3>1 DEF KeyReleased
  <2>3. CASE callback /\ ~(passthrough /\ k \in since)
    <3>1. known' = (prev' \ lost') \cup pending' /\ k \notin pending
        BY <1>9, <2>3 DEF KeyReleased
    <3> QED
        BY <1>9, <3>1 DEF KeyReleased
  <2> QED
      BY <2>1, <2>2, <2>3
<1>10. CASE FocusLost
    BY <1>10 DEF FocusLost
<1>11. ASSUME NEW escape \in BOOLEAN, KeysSynced(escape) PROVE KeysAgree'
    BY <1>11 DEF KeysSynced
<1>12. CASE CaptureGamepads
    BY <1>12 DEF CaptureGamepads, Reconcile, Held
<1>13. CASE Blocked
    BY <1>13 DEF Blocked
<1>14. ASSUME NEW expired \in SUBSET Hold, ReturnTriggered(expired) PROVE KeysAgree'
    BY <1>14 DEF ReturnTriggered, Stopped
<1>15. ASSUME NEW expired \in SUBSET Hold, ApplyShortcuts(expired) PROVE KeysAgree'
    BY <1>15 DEF ApplyShortcuts, Fires
<1>16. CASE WorkerFrame
    BY <1>16 DEF WorkerFrame
<1>17. CASE Pump
    BY <1>17 DEF Pump, FlushReleases
<1>18. CASE PumpFails
    BY <1>18 DEF PumpFails, Stopped
<1>19. CASE UNCHANGED vars
    BY <1>19
<1> QED
    BY <1>1, <1>2, <1>3, <1>4, <1>5, <1>6, <1>7, <1>8, <1>9, <1>10, <1>11, <1>12, <1>13,
     <1>14, <1>15, <1>16, <1>17, <1>18, <1>19 DEF Next

(* The latches remember who has not let go.                               *)
LEMMA LatchesKept ==
    ASSUME LatchesKnowPresses, [Next]_vars
    PROVE  LatchesKnowPresses'
<1> USE DEF LatchesKnowPresses, Shortcut, vars, padVars, keyVars, cutVars, sessionVars
<1>1. ASSUME NEW p \in Pad, Connect(p) PROVE LatchesKnowPresses'
    BY <1>1 DEF Connect
<1>2. ASSUME NEW p \in Pad, Disconnect(p) PROVE LatchesKnowPresses'
    BY <1>2 DEF Disconnect
<1>3. CASE PollInMenu
    BY <1>3 DEF PollInMenu, Reconcile
<1>4. CASE TypeInMenu
    BY <1>4 DEF TypeInMenu
<1>5. ASSUME NEW w \in BOOLEAN, NEW c \in BOOLEAN, NEW p \in BOOLEAN, Begin(w, c, p) PROVE LatchesKnowPresses'
    BY <1>5 DEF Begin
<1>6. ASSUME NEW controls \in SUBSET Controls, Clear(controls) PROVE LatchesKnowPresses'
    BY <1>6 DEF Clear, Held
<1>7. ASSUME NEW entry \in todo, SetInput(entry) PROVE LatchesKnowPresses'
    BY <1>7 DEF SetInput
<1>8. ASSUME NEW k \in Key, KeyPressed(k) PROVE LatchesKnowPresses'
    BY <1>8 DEF KeyPressed
<1>9. ASSUME NEW k \in Key, KeyReleased(k) PROVE LatchesKnowPresses'
    BY <1>9 DEF KeyReleased
<1>10. CASE FocusLost
    BY <1>10 DEF FocusLost
<1>11. ASSUME NEW escape \in BOOLEAN, KeysSynced(escape) PROVE LatchesKnowPresses'
    BY <1>11 DEF KeysSynced
<1>12. CASE CaptureGamepads
    BY <1>12 DEF CaptureGamepads, Reconcile, Held
<1>13. CASE Blocked
    BY <1>13 DEF Blocked
<1>14. ASSUME NEW expired \in SUBSET Hold, ReturnTriggered(expired) PROVE LatchesKnowPresses'
    BY <1>14 DEF ReturnTriggered, Stopped
<1>15. ASSUME NEW expired \in SUBSET Hold, ApplyShortcuts(expired) PROVE LatchesKnowPresses'
    BY <1>15 DEF ApplyShortcuts, Fires
<1>16. CASE WorkerFrame
    BY <1>16 DEF WorkerFrame
<1>17. CASE Pump
    BY <1>17 DEF Pump, FlushReleases
<1>18. CASE PumpFails
    BY <1>18 DEF PumpFails, Stopped
<1>19. CASE UNCHANGED vars
    BY <1>19
<1> QED
    BY <1>1, <1>2, <1>3, <1>4, <1>5, <1>6, <1>7, <1>8, <1>9, <1>10, <1>11, <1>12, <1>13,
     <1>14, <1>15, <1>16, <1>17, <1>18, <1>19 DEF Next

THEOREM Invariance == Spec => []IInv
<1>1. ASSUME IInv, [Next]_vars PROVE IInv'
    BY <1>1, InputHeldKept, PollsKept, KeysOfSessionKept, KeysAgreeKept, LatchesKept DEF IInv
<1> QED
    BY Initial, <1>1, PTL DEF Spec

-----------------------------------------------------------------------------

\* What a frame polls was held, in the slot of its player; on the UI thread it
\* is all that was held.
THEOREM PollsWhatIsHeld == Spec => []PolledWasHeld
<1>1. IInv => PolledWasHeld
    BY DEF IInv
<1> QED
    BY Invariance, <1>1, PTL

\* The core's keys are the frontend's, but for the releases that are owed and
\* those that came late.
THEOREM CoreKnowsTheKeys == Spec => []KeysAgree
<1>1. IInv => KeysAgree
    BY DEF IInv
<1> QED
    BY Invariance, <1>1, PTL

\* A shortcut that fires has been released since the session began, and since
\* it last fired.
THEOREM FiresOnlyAfterRelease == Spec => FiresOncePerPress
<1>1. ASSUME IInv, [Next]_vars PROVE [\A s \in fired' \ fired : s \in up]_vars
  <2> USE DEF vars, cutVars
  <2> SUFFICES ASSUME NEW s \in fired' \ fired PROVE s \in up
      OBVIOUS
  <2>1. ASSUME NEW p \in Pad, Connect(p) PROVE s \in up
      BY <2>1 DEF Connect
  <2>2. ASSUME NEW p \in Pad, Disconnect(p) PROVE s \in up
      BY <2>2 DEF Disconnect
  <2>3. CASE PollInMenu
      BY <2>3 DEF PollInMenu, Reconcile
  <2>4. CASE TypeInMenu
      BY <2>4 DEF TypeInMenu
  <2>5. ASSUME NEW w \in BOOLEAN, NEW c \in BOOLEAN, NEW p \in BOOLEAN, Begin(w, c, p) PROVE s \in up
      BY <2>5 DEF Begin
  <2>6. ASSUME NEW controls \in SUBSET Controls, Clear(controls) PROVE s \in up
      BY <2>6 DEF Clear
  <2>7. ASSUME NEW entry \in todo, SetInput(entry) PROVE s \in up
      BY <2>7 DEF SetInput
  <2>8. ASSUME NEW k \in Key, KeyPressed(k) PROVE s \in up
      BY <2>8 DEF KeyPressed
  <2>9. ASSUME NEW k \in Key, KeyReleased(k) PROVE s \in up
      BY <2>9 DEF KeyReleased
  <2>10. CASE FocusLost
      BY <2>10 DEF FocusLost
  <2>11. ASSUME NEW escape \in BOOLEAN, KeysSynced(escape) PROVE s \in up
      BY <2>11 DEF KeysSynced
  <2>12. CASE CaptureGamepads
      BY <2>12 DEF CaptureGamepads, Reconcile
  <2>13. CASE Blocked
      BY <2>13 DEF Blocked
  <2>14. ASSUME NEW expired \in SUBSET Hold, ReturnTriggered(expired) PROVE s \in up
      BY <1>1, <2>14 DEF ReturnTriggered, IInv, LatchesKnowPresses, Shortcut, Fires
  <2>15. ASSUME NEW expired \in SUBSET Hold, ApplyShortcuts(expired) PROVE s \in up
      BY <1>1, <2>15 DEF ApplyShortcuts, IInv, LatchesKnowPresses, Shortcut, Fires
  <2>16. CASE WorkerFrame
      BY <2>16 DEF WorkerFrame
  <2>17. CASE Pump
      BY <2>17 DEF Pump, FlushReleases
  <2>18. CASE PumpFails
      BY <2>18 DEF PumpFails, Stopped
  <2>19. CASE UNCHANGED vars
      BY <2>19
  <2> QED
      BY <1>1, <2>1, <2>2, <2>3, <2>4, <2>5, <2>6, <2>7, <2>8, <2>9, <2>10, <2>11, <2>12, <2>13, <2>14, <2>15, <2>16, <2>17, <2>18, <2>19 DEF Next
<1> QED
    BY Invariance, <1>1, PTL DEF Spec, FiresOncePerPress

-----------------------------------------------------------------------------
(* Places in a finite set of numbers.                                       *)

\* As many are below a number as it has others before it.
LEMMA BelowType ==
  ASSUME NEW S, IsFiniteSet(S), NEW x
  PROVE  /\ Below(x, S) \in Nat
         /\ Cardinality(S) \in Nat
         /\ S \subseteq Int /\ x \in S => Below(x, S) < Cardinality(S)
<1> DEFINE B == {y \in S : y < x}
<1>1. IsFiniteSet(B) /\ Cardinality(B) \in Nat /\ Cardinality(S) \in Nat
      /\ Cardinality(B) <= Cardinality(S) /\ (Cardinality(S) = Cardinality(B) => S = B)
  BY FS_Subset, FS_CardinalityType
<1>2. ASSUME S \subseteq Int, x \in S PROVE S # B
  <2>1. x \notin B
    BY <1>2
  <2> QED
    BY <1>2, <2>1
<1> HIDE DEF B
<1>3. S \subseteq Int /\ x \in S => Cardinality(B) < Cardinality(S)
  BY <1>1, <1>2
<1> QED
  BY <1>1, <1>3 DEF Below, B

\* Who comes first has fewer before him.
LEMMA BelowGrows ==
  ASSUME NEW S \in SUBSET Int, IsFiniteSet(S), NEW x \in S, NEW y \in Int, x < y
  PROVE  Below(x, S) < Below(y, S)
<1> DEFINE A == {z \in S : z < x}
           B == {z \in S : z < y}
<1>1. IsFiniteSet(A) /\ IsFiniteSet(B)
  BY FS_Subset
<1>2. A \subseteq B /\ A # B
  <2>1. x \in B /\ x \notin A
    OBVIOUS
  <2>2. x \in Int /\ \A z \in S : z \in Int
    OBVIOUS
  <2>3. A \subseteq B
    <3>1. ASSUME NEW z \in A PROVE z \in B
      <4>1. z \in S /\ z < x /\ z \in Int
        BY <2>2
      <4>2. z < y
        BY <2>2, <4>1
      <4> QED
        BY <4>1, <4>2
    <3> QED
      BY <3>1
  <2> HIDE DEF A, B
  <2>4. A # B
    BY <2>1, Zenon
  <2> QED
    BY <2>3, <2>4, Zenon
<1> HIDE DEF A, B
<1>3. Cardinality(A) <= Cardinality(B) /\ Cardinality(A) # Cardinality(B)
  BY <1>1, <1>2, FS_Subset
<1>4. Cardinality(A) < Cardinality(B)
  BY <1>1, <1>3, FS_CardinalityType
<1> QED
  BY <1>4 DEF Below, A, B

\* No two have the same place, and the places are in the order of the numbers.
LEMMA BelowOrders ==
  ASSUME NEW S \in SUBSET Int, IsFiniteSet(S), NEW x \in S, NEW y \in S
  PROVE  /\ Below(x, S) = Below(y, S) => x = y
         /\ Below(x, S) < Below(y, S) => x < y
<1>1. Below(x, S) \in Nat /\ Below(y, S) \in Nat
  BY BelowType
<1>2. x < y => Below(x, S) < Below(y, S)
  BY BelowGrows
<1>3. y < x => Below(y, S) < Below(x, S)
  BY BelowGrows
<1> QED
  BY <1>1, <1>2, <1>3

\* An injection between finite sets of the same size leaves nobody out.
LEMMA EqualInjectionOnto ==
  ASSUME NEW S, NEW T, IsFiniteSet(T), Cardinality(S) = Cardinality(T),
         NEW f \in Injection(S, T)
  PROVE  f \in Surjection(S, T)
<1>1. Cardinality(S) = Cardinality(T) <=> f \in Surjection(S, T)
  BY FS_Injection, Zenon
<1> QED
  BY <1>1, Zenon

\* Every place is somebody's.
LEMMA PlaceTaken ==
  ASSUME NEW S \in SUBSET Int, IsFiniteSet(S), NEW k \in Nat, k < Cardinality(S)
  PROVE  \E x \in S : Below(x, S) = k
<1> DEFINE f == [x \in S |-> Below(x, S)]
           T == 0..(Cardinality(S) - 1)
<1>1. Cardinality(S) \in Nat
  BY FS_CardinalityType
<1>2. IsFiniteSet(T) /\ Cardinality(S) = Cardinality(T)
  <2>1. /\ 0 \in Int /\ Cardinality(S) - 1 \in Int /\ ~(0 > Cardinality(S) - 1)
        /\ (Cardinality(S) - 1) - 0 + 1 = Cardinality(S)
    BY <1>1
  <2> QED
    BY <2>1, FS_Interval
<1>3. f \in [S -> T]
  <2>1. \A x \in S : Below(x, S) \in Nat /\ Below(x, S) < Cardinality(S)
    BY BelowType
  <2> QED
    BY <1>1, <2>1
<1>4. \A x, y \in S : f[x] = f[y] => x = y
  BY BelowOrders
<1>5. k \in T
  BY <1>1
<1>6. \A x \in S : f[x] = Below(x, S)
  OBVIOUS
<1> HIDE DEF f, T
<1>7. \E x \in S : f[x] = k
  <2>1. f \in Injection(S, T)
    BY <1>3, <1>4, Fun_IsInj
  <2>2. f \in Surjection(S, T)
    BY <2>1, <1>2, EqualInjectionOnto
  <2>3. \A t \in T : \E x \in S : f[x] = t
    BY <2>2, Fun_SurjectionProperties
  <2> QED
    BY <2>3, <1>5
<1> QED
  BY <1>6, <1>7

-----------------------------------------------------------------------------
(* The slots of the pads.                                                   *)

\* A pad that was there keeps its number; those who are new come after all
\* others, no two with the same.
LEMMA ArrivedInOrder ==
  ASSUME PadsInOrder
  PROVE  /\ Arrived \in [connected -> Nat]
         /\ Cardinality(connected \ DOMAIN order) \in Nat
         /\ \A p \in connected : Arrived[p] < next + Cardinality(connected \ DOMAIN order)
         /\ \A p \in connected \cap DOMAIN order : Arrived[p] = order[p] /\ order[p] < next
         /\ \A p \in connected \ DOMAIN order : Arrived[p] >= next
         /\ \A p, q \in connected : Arrived[p] = Arrived[q] => p = q
<1> DEFINE fresh == connected \ DOMAIN order
<1>1. fresh \in SUBSET Int /\ IsFiniteSet(fresh) /\ Cardinality(fresh) \in Nat
  <2>1. fresh \in SUBSET Int
    <3>1. Pad \subseteq Nat
      BY InputAssumption, Zenon
    <3>2. connected \subseteq Pad
      BY DEF PadsInOrder
    <3>3. \A p \in fresh : p \in Int
      BY <3>1, <3>2
    <3> QED
      BY <3>3
  <2>2. IsFiniteSet(fresh)
    BY FS_Difference DEF PadsInOrder
  <2> QED
    BY <2>1, <2>2, FS_CardinalityType
<1>2. Arrived = [p \in connected |-> IF p \in fresh THEN next + Below(p, fresh) ELSE order[p]]
  BY DEF Arrived
<1> HIDE DEF fresh
<1>3. \A p \in fresh : Below(p, fresh) \in Nat /\ Below(p, fresh) < Cardinality(fresh)
  BY <1>1, BelowType
<1>4. \A p, q \in fresh : Below(p, fresh) = Below(q, fresh) => p = q
  BY <1>1, BelowOrders
<1>5. \A p \in connected \ fresh : p \in DOMAIN order /\ order[p] \in Nat /\ order[p] < next
  BY DEF PadsInOrder, fresh
<1>6. \A p, q \in connected \ fresh : order[p] = order[q] => p = q
  BY DEF PadsInOrder, fresh
<1>7. next \in Nat /\ fresh \subseteq connected
  BY DEF PadsInOrder, fresh
<1>8. ASSUME NEW p \in fresh
      PROVE  /\ Arrived[p] \in Nat /\ Arrived[p] >= next
             /\ Arrived[p] < next + Cardinality(fresh)
  <2>1. Arrived[p] = next + Below(p, fresh)
    BY <1>2, <1>7
  <2> QED
    BY <2>1, <1>1, <1>3, <1>7
<1>9. ASSUME NEW p \in connected \ fresh
      PROVE  /\ Arrived[p] = order[p] /\ Arrived[p] \in Nat /\ Arrived[p] < next
             /\ Arrived[p] < next + Cardinality(fresh)
  <2>1. Arrived[p] = order[p]
    BY <1>2
  <2> QED
    BY <2>1, <1>1, <1>5, <1>7
<1>10. ASSUME NEW p \in connected, NEW q \in connected, Arrived[p] = Arrived[q] PROVE p = q
  <2>1. CASE p \in fresh /\ q \in fresh
    <3>1. Arrived[p] = next + Below(p, fresh) /\ Arrived[q] = next + Below(q, fresh)
      BY <2>1, <1>2
    <3>2. Below(p, fresh) = Below(q, fresh)
      BY <2>1, <3>1, <1>3, <1>7, <1>10
    <3> QED
      BY <2>1, <3>2, <1>4
  <2>2. CASE p \in fresh /\ q \notin fresh
    BY <2>2, <1>7, <1>8, <1>9, <1>10
  <2>3. CASE p \notin fresh /\ q \in fresh
    BY <2>3, <1>7, <1>8, <1>9, <1>10
  <2>4. CASE p \notin fresh /\ q \notin fresh
    BY <2>4, <1>6, <1>9, <1>10
  <2> QED
    BY <2>1, <2>2, <2>3, <2>4
<1>11. Arrived \in [connected -> Nat]
  <2>1. \A p \in connected : Arrived[p] \in Nat
    BY <1>8, <1>9
  <2> QED
    BY <2>1, <1>2
<1> QED
  BY <1>1, <1>5, <1>8, <1>9, <1>10, <1>11 DEF fresh

\* The turns of those who wait: one after the other, in the order they came.
LEMMA TurnsInOrder ==
  ASSUME PadsInOrder
  PROVE  /\ \A p \in Waiting : Turn(p) \in Nat
         /\ \A p, q \in Waiting : Turn(p) = Turn(q) => p = q
         /\ \A p, q \in Waiting : Turn(p) < Turn(q) => Arrived[p] < Arrived[q]
         /\ \A p \in Waiting : \A k \in Nat : k < Turn(p) => \E q \in Waiting : Turn(q) = k
<1> DEFINE A == {Arrived[q] : q \in Waiting}
           f == [q \in Waiting |-> Arrived[q]]
<1>1. Waiting \subseteq connected /\ IsFiniteSet(Waiting)
  <2>1. Waiting \subseteq connected
    BY DEF Waiting
  <2> QED
    BY <2>1, FS_Subset DEF PadsInOrder
<1>2. \A p \in Waiting : Arrived[p] \in Nat
  BY <1>1, ArrivedInOrder
<1>3. \A p, q \in Waiting : Arrived[p] = Arrived[q] => p = q
  BY <1>1, ArrivedInOrder
<1>4. A \in SUBSET Int
  BY <1>2
<1>5. IsFiniteSet(A)
  <2>1. f \in Surjection(Waiting, A)
    <3>1. f \in [Waiting -> A]
      OBVIOUS
    <3>2. \A a \in A : \E q \in Waiting : f[q] = a
      OBVIOUS
    <3> HIDE DEF f, A
    <3> QED
      BY <3>1, <3>2, Fun_IsSurj
  <2> HIDE DEF f, A
  <2> QED
    BY <2>1, <1>1, FS_Surjection
<1>6. \A p \in Waiting : Turn(p) = Below(Arrived[p], A) /\ Arrived[p] \in A
  BY DEF Turn
<1>7. \A a \in A : \E q \in Waiting : Arrived[q] = a
  OBVIOUS
<1> HIDE DEF A
<1>8. \A p \in Waiting : Turn(p) \in Nat /\ Turn(p) < Cardinality(A)
  BY <1>4, <1>5, <1>6, BelowType
<1>9. \A p, q \in Waiting : /\ Turn(p) = Turn(q) => Arrived[p] = Arrived[q]
                            /\ Turn(p) < Turn(q) => Arrived[p] < Arrived[q]
  <2>1. \A a, b \in A : /\ Below(a, A) = Below(b, A) => a = b
                        /\ Below(a, A) < Below(b, A) => a < b
    BY <1>4, <1>5, BelowOrders
  <2> QED
    BY <2>1, <1>6
<1>10. ASSUME NEW p \in Waiting, NEW k \in Nat, k < Turn(p)
       PROVE  \E q \in Waiting : Turn(q) = k
  <2>1. Cardinality(A) \in Nat
    BY <1>5, FS_CardinalityType
  <2>2. k < Cardinality(A)
    BY <2>1, <1>8, <1>10
  <2>3. PICK a \in A : Below(a, A) = k
    BY <2>2, <1>4, <1>5, PlaceTaken
  <2> QED
    BY <2>3, <1>6, <1>7
<1> QED
  BY <1>3, <1>8, <1>9, <1>10

\* The free slots are those that are left.
LEMMA FreeSlots ==
  ASSUME PadsInOrder
  PROVE  /\ Free \in SUBSET Int /\ Free \subseteq Slots /\ IsFiniteSet(Free)
         /\ IsFiniteSet(Kept) /\ Cardinality(Kept) \in Nat /\ Cardinality(Free) \in Nat
         /\ Cardinality(Free) = MaxPlayers - Cardinality(Kept)
<1> DEFINE T == {slots[p] : p \in Kept}
           f == [p \in Kept |-> slots[p]]
<1>1. MaxPlayers \in Nat \ {0}
  BY InputAssumption, Zenon
<1>2. IsFiniteSet(Slots) /\ Cardinality(Slots) = MaxPlayers /\ Slots \subseteq Int
  <2>1. Slots \subseteq Int
    BY <1>1 DEF Slots
  <2>2. 0 \in Int /\ MaxPlayers - 1 \in Int /\ ~(0 > MaxPlayers - 1) /\ (MaxPlayers - 1) - 0 + 1 = MaxPlayers
    BY <1>1
  <2> QED
    BY <2>1, <2>2, FS_Interval DEF Slots
<1>3. IsFiniteSet(Kept) /\ Cardinality(Kept) \in Nat
  <2>1. Kept \subseteq connected
    BY DEF Kept
  <2> QED
    BY <2>1, FS_Subset, FS_CardinalityType DEF PadsInOrder
<1>4. \A p \in Kept : slots[p] \in Slots
  BY DEF Kept, PadsInOrder
<1>5. \A p, q \in Kept : slots[p] = slots[q] => p = q
  BY DEF Kept, PadsInOrder, FirstComeFirstServed
<1>6. f \in Injection(Kept, T) /\ f \in Surjection(Kept, T)
  <2>1. f \in [Kept -> T] /\ \A p, q \in Kept : f[p] = f[q] => p = q
    BY <1>5
  <2>2. \A t \in T : \E p \in Kept : f[p] = t
    OBVIOUS
  <2> HIDE DEF f, T
  <2> QED
    BY <2>1, <2>2, Fun_IsInj, Fun_IsSurj
<1>7. T \subseteq Slots
  BY <1>4
<1>8. Free = Slots \ T
  BY DEF Free
<1> HIDE DEF f, T
<1>9. Cardinality(T) = Cardinality(Kept)
  BY <1>3, <1>6, FS_Surjection
<1>10. Slots \cap T = T
  BY <1>7
<1>11. IsFiniteSet(Slots \ T) /\ Cardinality(Slots \ T) = Cardinality(Slots) - Cardinality(Slots \cap T)
  BY <1>2, FS_Difference
<1>12. IsFiniteSet(Free) /\ Cardinality(Free) = Cardinality(Slots) - Cardinality(T)
  BY <1>8, <1>10, <1>11, Zenon
<1>13. Free \subseteq Slots
  BY <1>8
<1>14. \A s \in Free : s \in Int
  BY <1>2, <1>13
<1>15. Cardinality(Free) \in Nat
  BY <1>12, FS_CardinalityType
<1> QED
  BY <1>2, <1>3, <1>9, <1>12, <1>13, <1>14, <1>15

\* Who is served gets the free slot of his turn.
LEMMA SlotOfServed ==
  ASSUME PadsInOrder, NEW p \in Served
  PROVE  /\ p \in Waiting /\ p \notin Kept
         /\ Assigned[p] \in Free /\ Below(Assigned[p], Free) = Turn(p)
<1>1. p \in Waiting /\ p \notin Kept /\ Turn(p) < Cardinality(Free)
  BY DEF Served, Waiting
<1>2. Turn(p) \in Nat
  BY <1>1, TurnsInOrder
<1>3. Free \in SUBSET Int /\ IsFiniteSet(Free)
  BY FreeSlots
<1>4. \E s \in Free : Below(s, Free) = Turn(p)
  BY <1>1, <1>2, <1>3, PlaceTaken
<1>5. Assigned[p] = CHOOSE s \in Free : Below(s, Free) = Turn(p)
  BY <1>1 DEF Assigned
<1> QED
  BY <1>1, <1>4, <1>5

\* If somebody goes on waiting, all the free slots have been given.
LEMMA NoSlotLeft ==
  ASSUME PadsInOrder, NEW p \in Waiting, p \notin Served
  PROVE  IsFiniteSet(Served) /\ Cardinality(Served) = Cardinality(Free)
<1> DEFINE T == 0..(Cardinality(Free) - 1)
           f == [q \in Served |-> Turn(q)]
<1>1. Cardinality(Free) \in Nat
  BY FreeSlots
<1>2. \A q \in Waiting : Turn(q) \in Nat
  BY TurnsInOrder
<1>3. Cardinality(Free) <= Turn(p)
  BY <1>1, <1>2 DEF Served
<1>4. f \in [Served -> T]
  BY <1>1, <1>2 DEF Served
<1>5. \A q, r \in Served : f[q] = f[r] => q = r
  BY TurnsInOrder DEF Served
<1>6. \A k \in T : \E q \in Served : f[q] = k
  <2>1. ASSUME NEW k \in T PROVE \E q \in Served : f[q] = k
    <3>1. k \in Nat /\ k < Cardinality(Free) /\ k < Turn(p)
      BY <1>1, <1>2, <1>3
    <3>2. PICK q \in Waiting : Turn(q) = k
      BY <3>1, TurnsInOrder
    <3>3. q \in Served
      BY <3>1, <3>2 DEF Served
    <3> QED
      BY <3>2, <3>3
  <2> QED
    BY <2>1
<1>7. IsFiniteSet(T) /\ Cardinality(T) = Cardinality(Free)
  <2>1. /\ 0 \in Int /\ Cardinality(Free) - 1 \in Int
        /\ 0 > Cardinality(Free) - 1 => Cardinality(Free) = 0
        /\ (Cardinality(Free) - 1) - 0 + 1 = Cardinality(Free)
    BY <1>1
  <2> QED
    BY <2>1, FS_Interval
<1> HIDE DEF f, T
<1>8. f \in Injection(Served, T) /\ f \in Surjection(Served, T)
  BY <1>4, <1>5, <1>6, Fun_IsInj, Fun_IsSurj
<1>9. IsFiniteSet(Served)
  BY <1>7, <1>8, FS_Injection
<1>10. Cardinality(T) = Cardinality(Served)
  BY <1>8, <1>9, FS_Surjection
<1> QED
  BY <1>7, <1>9, <1>10

\* Where the pads stand after their slots were given again.
LEMMA SlotsOfAssigned ==
  ASSUME PadsInOrder
  PROVE  /\ DOMAIN Assigned = Kept \cup Served
         /\ Kept \cup Served \subseteq connected \cap Playable
         /\ \A p \in Kept : Assigned[p] = slots[p] /\ Assigned[p] \notin Free
         /\ \A p \in Kept \cup Served : Assigned[p] \in Slots
         /\ \A p, q \in Kept \cup Served : Assigned[p] = Assigned[q] => p = q
<1>1. \A p \in Kept : Assigned[p] = slots[p] /\ Assigned[p] \notin Free /\ Assigned[p] \in Slots
  BY DEF Assigned, Free, Kept, PadsInOrder
<1>2. \A p \in Served : Assigned[p] \in Free /\ Assigned[p] \in Slots
  BY SlotOfServed, FreeSlots
<1>3. \A p, q \in Kept : Assigned[p] = Assigned[q] => p = q
  BY <1>1 DEF Kept, PadsInOrder, FirstComeFirstServed
<1>4. \A p, q \in Served : Assigned[p] = Assigned[q] => p = q
  BY SlotOfServed, TurnsInOrder
<1>5. \A p, q \in Kept \cup Served : Assigned[p] = Assigned[q] => p = q
  BY <1>1, <1>2, <1>3, <1>4
<1>6. Kept \cup Served \subseteq connected \cap Playable
  BY DEF Kept, Served, Waiting
<1> QED
  BY <1>1, <1>2, <1>5, <1>6 DEF Assigned

\* Who still waits does so because all slots are taken, by pads that came before.
LEMMA WaitersCameLater ==
  ASSUME PadsInOrder, NEW p \in Waiting, p \notin Served
  PROVE  /\ Cardinality(Kept \cup Served) = MaxPlayers
         /\ \A q \in Kept \cup Served : Arrived[q] < Arrived[p]
<1>1. p \in connected /\ p \in Playable /\ p \notin Kept
  BY DEF Waiting
<1>2. Cardinality(Kept \cup Served) = MaxPlayers
  <2>1. IsFiniteSet(Served) /\ Cardinality(Served) = Cardinality(Free)
    BY NoSlotLeft
  <2>2. /\ IsFiniteSet(Kept) /\ Cardinality(Kept) \in Nat
        /\ Cardinality(Free) = MaxPlayers - Cardinality(Kept)
    BY FreeSlots
  <2>3. Kept \cap Served = {}
    BY DEF Served, Waiting
  <2>4. Cardinality(Kept \cup Served) = Cardinality(Kept) + Cardinality(Served) - Cardinality(Kept \cap Served)
    BY <2>1, <2>2, FS_Union
  <2>5. Cardinality(Kept \cap Served) = 0
    BY <2>3, FS_EmptySet, Zenon
  <2>6. MaxPlayers \in Nat
    BY InputAssumption, Zenon
  <2> QED
    BY <2>1, <2>2, <2>4, <2>5, <2>6
<1>3. ASSUME NEW q \in Served PROVE Arrived[q] < Arrived[p]
  <2>1. q \in Waiting /\ Turn(q) \in Nat /\ Turn(p) \in Nat /\ Cardinality(Free) \in Nat
    BY TurnsInOrder, FreeSlots DEF Served
  <2>2. Turn(q) < Turn(p)
    BY <2>1 DEF Served
  <2> QED
    BY <2>1, <2>2, TurnsInOrder
<1>4. ASSUME NEW q \in Kept PROVE Arrived[q] < Arrived[p]
  <2>1. q \in connected /\ q \in DOMAIN slots /\ q \in DOMAIN order
    BY DEF Kept, PadsInOrder
  <2>2. Arrived[q] = order[q] /\ order[q] < next /\ Arrived[q] \in Nat
    BY <2>1, ArrivedInOrder
  <2>3. CASE p \in DOMAIN order
    <3>1. p \notin DOMAIN slots
      BY <1>1 DEF Kept
    <3>2. order[q] < order[p]
      BY <1>1, <2>1, <2>3, <3>1 DEF PadsInOrder, FirstComeFirstServed
    <3>3. Arrived[p] = order[p]
      BY <1>1, <2>3, ArrivedInOrder
    <3> QED
      BY <2>2, <3>2, <3>3
  <2>4. CASE p \notin DOMAIN order
    <3>1. Arrived[p] >= next /\ Arrived[p] \in Nat
      BY <1>1, <2>4, ArrivedInOrder
    <3>2. next \in Nat
      BY DEF PadsInOrder
    <3> QED
      BY <2>2, <3>1, <3>2
  <2> QED
    BY <2>3, <2>4
<1> QED
  BY <1>2, <1>3, <1>4

\* So the slots that are given again are given first come, first served.
LEMMA ReconcileInOrder ==
  ASSUME PadsInOrder, Reconcile
  PROVE  PadsInOrder'
<1>1. order' = Arrived /\ slots' = Assigned /\ connected' = connected
      /\ next' = next + Cardinality(connected \ DOMAIN order)
  BY DEF Reconcile
<1>2. DOMAIN order' = connected
  BY <1>1 DEF Arrived
<1>3. DOMAIN slots' = Kept \cup Served
  BY <1>1, SlotsOfAssigned
<1>4. IsFiniteSet(connected') /\ connected' \subseteq Pad
  BY <1>1 DEF PadsInOrder
<1>5. next' \in Nat /\ next' + Cardinality(connected' \ DOMAIN order') <= Arrivals
  <2>1. Cardinality(connected' \ DOMAIN order') = 0
    <3>1. connected' \ DOMAIN order' = {}
      BY <1>1, <1>2
    <3> QED
      BY <3>1, FS_EmptySet, Zenon
  <2>2. Cardinality(connected \ DOMAIN order) \in Nat
    BY ArrivedInOrder
  <2>3. next \in Nat /\ next + Cardinality(connected \ DOMAIN order) <= Arrivals
    BY DEF PadsInOrder
  <2> QED
    BY <1>1, <2>1, <2>2, <2>3
<1>6. DOMAIN order' \subseteq Pad /\ \A p \in DOMAIN order' : order'[p] \in 0..(next' - 1)
  <2>1. ASSUME NEW p \in connected PROVE Arrived[p] \in 0..(next' - 1)
    <3>1. /\ Arrived[p] \in Nat
          /\ Arrived[p] < next + Cardinality(connected \ DOMAIN order)
      BY ArrivedInOrder
    <3> QED
      BY <1>1, <1>5, <3>1
  <2> QED
    BY <1>1, <1>2, <1>4, <2>1
<1>7. \A p, q \in DOMAIN order' : order'[p] = order'[q] => p = q
  BY <1>1, <1>2, ArrivedInOrder
<1>8. DOMAIN slots' \subseteq DOMAIN order' \cap Playable /\ \A p \in DOMAIN slots' : slots'[p] \in Slots
  BY <1>1, <1>2, <1>3, SlotsOfAssigned
<1>9. FirstComeFirstServed'
  <2>1. \A p, q \in DOMAIN slots' : slots'[p] = slots'[q] => p = q
    BY <1>1, <1>3, SlotsOfAssigned
  <2>2. ASSUME NEW p \in (DOMAIN order' \cap Playable) \ DOMAIN slots'
        PROVE  /\ Cardinality(DOMAIN slots') = MaxPlayers
               /\ \A q \in DOMAIN slots' : order'[q] < order'[p]
    <3>1. p \in Waiting /\ p \notin Served
      BY <1>2, <1>3 DEF Waiting
    <3>2. /\ Cardinality(Kept \cup Served) = MaxPlayers
          /\ \A q \in Kept \cup Served : Arrived[q] < Arrived[p]
      BY <3>1, WaitersCameLater
    <3> QED
      BY <1>1, <1>3, <3>2, Zenon
  <2> QED
    BY <2>1, <2>2 DEF FirstComeFirstServed
<1> QED
  BY <1>4, <1>5, <1>6, <1>7, <1>8, <1>9 DEF PadsInOrder, Slots

\* Pads come and go, and nothing but Reconcile changes the order and the slots.
LEMMA PadsInOrderKept ==
  ASSUME PadsInOrder, [Next]_vars
  PROVE  PadsInOrder'
<1> USE DEF vars, padVars
<1>0. ASSUME UNCHANGED padVars PROVE PadsInOrder'
  BY <1>0 DEF PadsInOrder, FirstComeFirstServed
<1>1. ASSUME NEW p \in Pad, Connect(p) PROVE PadsInOrder'
  <2>1. /\ connected' = connected \cup {p} /\ p \notin connected
        /\ order' = order /\ slots' = slots /\ next' = next
        /\ next + Cardinality(connected \ DOMAIN order) < Arrivals
    BY <1>1 DEF Connect
  <2>2. IsFiniteSet(connected')
    BY <2>1, FS_AddElement DEF PadsInOrder
  <2>3. next + Cardinality(connected' \ DOMAIN order') <= Arrivals
    <3> DEFINE fresh == connected \ DOMAIN order
    <3>1. IsFiniteSet(fresh) /\ Cardinality(fresh) \in Nat
      BY FS_Difference, FS_CardinalityType DEF PadsInOrder
    <3>2. Cardinality(fresh \cup {p}) \in {Cardinality(fresh), Cardinality(fresh) + 1}
      BY <3>1, FS_AddElement
    <3>3. connected' \ DOMAIN order' \in {fresh, fresh \cup {p}}
      BY <2>1
    <3>4. next \in Nat /\ Arrivals \in Nat
      BY InputAssumption DEF PadsInOrder
    <3>5. next + Cardinality(fresh) < Arrivals
      BY <2>1
    <3> HIDE DEF fresh
    <3>6. Cardinality(connected' \ DOMAIN order') \in {Cardinality(fresh), Cardinality(fresh \cup {p})}
      BY <3>3, Zenon
    <3> QED
      BY <3>1, <3>2, <3>4, <3>5, <3>6
  <2>4. connected' \subseteq Pad
    BY <2>1 DEF PadsInOrder
  <2>5. FirstComeFirstServed'
    BY <2>1 DEF PadsInOrder, FirstComeFirstServed
  <2> QED
    BY <2>1, <2>2, <2>3, <2>4, <2>5 DEF PadsInOrder, Slots
<1>2. ASSUME NEW p \in Pad, Disconnect(p) PROVE PadsInOrder'
  <2>1. /\ connected' = connected \ {p}
        /\ order' = order /\ slots' = slots /\ next' = next
    BY <1>2 DEF Disconnect
  <2>2. IsFiniteSet(connected') /\ connected' \subseteq Pad
    BY <2>1, FS_RemoveElement DEF PadsInOrder
  <2>3. next + Cardinality(connected' \ DOMAIN order') <= Arrivals
    <3> DEFINE fresh == connected \ DOMAIN order
               fewer == connected' \ DOMAIN order'
    <3>1. fewer \subseteq fresh
      BY <2>1
    <3>2. IsFiniteSet(fresh)
      BY FS_Difference DEF PadsInOrder
    <3>3. next \in Nat /\ Arrivals \in Nat /\ next + Cardinality(fresh) <= Arrivals
      BY InputAssumption DEF PadsInOrder
    <3> HIDE DEF fresh, fewer
    <3>4. IsFiniteSet(fewer) /\ Cardinality(fewer) <= Cardinality(fresh)
      BY <3>1, <3>2, FS_Subset
    <3>5. Cardinality(fewer) \in Nat /\ Cardinality(fresh) \in Nat
      BY <3>2, <3>4, FS_CardinalityType
    <3>6. next + Cardinality(fewer) <= Arrivals
      BY <3>3, <3>4, <3>5
    <3> QED
      BY <3>6 DEF fewer
  <2>4. FirstComeFirstServed'
    BY <2>1 DEF PadsInOrder, FirstComeFirstServed
  <2> QED
    BY <2>1, <2>2, <2>3, <2>4 DEF PadsInOrder, Slots
<1>3. CASE PollInMenu
  BY <1>3, ReconcileInOrder DEF PollInMenu
<1>4. CASE TypeInMenu
  BY <1>4, <1>0 DEF TypeInMenu
<1>5. ASSUME NEW w \in BOOLEAN, NEW c \in BOOLEAN, NEW p \in BOOLEAN, Begin(w, c, p) PROVE PadsInOrder'
  BY <1>5, <1>0 DEF Begin
<1>6. ASSUME NEW controls \in SUBSET Controls, Clear(controls) PROVE PadsInOrder'
  BY <1>6, <1>0 DEF Clear
<1>7. ASSUME NEW entry \in todo, SetInput(entry) PROVE PadsInOrder'
  BY <1>7, <1>0 DEF SetInput
<1>8. ASSUME NEW k \in Key, KeyPressed(k) PROVE PadsInOrder'
  BY <1>8, <1>0 DEF KeyPressed
<1>9. ASSUME NEW k \in Key, KeyReleased(k) PROVE PadsInOrder'
  BY <1>9, <1>0 DEF KeyReleased
<1>10. CASE FocusLost
  BY <1>10, <1>0 DEF FocusLost
<1>11. ASSUME NEW escape \in BOOLEAN, KeysSynced(escape) PROVE PadsInOrder'
  BY <1>11, <1>0 DEF KeysSynced
<1>12. CASE CaptureGamepads
  BY <1>12, ReconcileInOrder DEF CaptureGamepads
<1>13. CASE Blocked
  BY <1>13, <1>0 DEF Blocked
<1>14. ASSUME NEW expired \in SUBSET Hold, ReturnTriggered(expired) PROVE PadsInOrder'
  BY <1>14, <1>0 DEF ReturnTriggered
<1>15. ASSUME NEW expired \in SUBSET Hold, ApplyShortcuts(expired) PROVE PadsInOrder'
  BY <1>15, <1>0 DEF ApplyShortcuts
<1>16. CASE WorkerFrame
  BY <1>16, <1>0 DEF WorkerFrame
<1>17. CASE Pump
  BY <1>17, <1>0 DEF Pump
<1>18. CASE PumpFails
  BY <1>18, <1>0 DEF PumpFails
<1>19. CASE UNCHANGED vars
  BY <1>19, <1>0
<1> QED
  BY <1>1, <1>2, <1>3, <1>4, <1>5, <1>6, <1>7, <1>8, <1>9, <1>10, <1>11, <1>12, <1>13,
     <1>14, <1>15, <1>16, <1>17, <1>18, <1>19 DEF Next

LEMMA PadsInOrderAlways == Spec => []PadsInOrder
<1>1. Init => PadsInOrder
  <2> SUFFICES ASSUME Init PROVE PadsInOrder
    OBVIOUS
  <2>1. connected = {} /\ next = 0 /\ DOMAIN order = {} /\ DOMAIN slots = {}
    BY DEF Init
  <2>2. IsFiniteSet(connected) /\ Cardinality(connected \ DOMAIN order) = 0
    <3>1. connected \ DOMAIN order = {}
      BY <2>1
    <3> QED
      BY <2>1, <3>1, FS_EmptySet, Zenon
  <2>3. Arrivals \in Nat
    BY InputAssumption, Zenon
  <2>4. FirstComeFirstServed
    BY <2>1 DEF FirstComeFirstServed
  <2> QED
    BY <2>1, <2>2, <2>3, <2>4 DEF PadsInOrder
<1> QED
  BY <1>1, PadsInOrderKept, PTL DEF Spec

\* No two gamepads share a player's slot; a pad waits only while all slots are
\* taken, and everyone who plays came before it, however many pads there are and
\* in whatever order they come, go and are looked for.
THEOREM PadsFirstComeFirstServed == Spec => []FirstComeFirstServed
<1>1. PadsInOrder => FirstComeFirstServed
  BY DEF PadsInOrder
<1> QED
  BY <1>1, PadsInOrderAlways, PTL

-----------------------------------------------------------------------------
(* The types.                                                               *)

\* What the frontend, the core and the shortcuts can hold.
HeldTypes ==
    /\ rig \in Rigs
    /\ place \in {"menu", "between", "keyboard", "keys", "gamepads", "pump"}
    /\ {worker, callback, passthrough, stepped, block} \subseteq BOOLEAN
    /\ input \subseteq Entries /\ todo \subseteq Entries
    /\ now \subseteq Entries /\ polls \subseteq SUBSET Entries
    /\ keysDown \subseteq Key /\ prev \subseteq Key /\ since \subseteq Key
    /\ pending \subseteq Key /\ known \subseteq Key /\ lost \subseteq Key
    /\ shortcuts \subseteq Shortcut /\ latched \subseteq Shortcut
    /\ armed \subseteq Hold /\ fired \subseteq Shortcut /\ up \subseteq Shortcut

\* The pads' part of the type is what is known of their order.
LEMMA TypeOfPads ==
  ASSUME PadsInOrder, HeldTypes
  PROVE  TypeOK
<1>1. next \in 0..Arrivals
  BY ArrivedInOrder, InputAssumption DEF PadsInOrder
<1> QED
  BY <1>1 DEF PadsInOrder, HeldTypes, TypeOK

\* The keyboard is in the first slot.
LEMMA FirstSlot == 0 \in Slots
<1>1. MaxPlayers \in Nat \ {0}
  BY InputAssumption, Zenon
<1> QED
  BY <1>1 DEF Slots

\* What is held on a device is an entry of its slot.
LEMMA EntriesOfSlot ==
  ASSUME NEW port \in Slots
  PROVE  /\ \A controls : Held(port, controls) \subseteq Entries
         /\ \A keys \in SUBSET Key : {port} \X keys \subseteq Entries
BY DEF Held, Entries

LEMMA HeldTypesKept ==
  ASSUME HeldTypes, PadsInOrder', [Next]_vars
  PROVE  HeldTypes'
<1> USE DEF HeldTypes, vars, padVars, keyVars, cutVars, sessionVars
<1>0. /\ "return" \in Hold /\ rig.keys \subseteq Key /\ 0 \in Slots
      /\ Hold \subseteq Shortcut
  <2>1. "return" \in Hold /\ \A r \in Rigs : r.keys \subseteq Key
    BY InputAssumption, Zenon
  <2> QED
    BY <2>1, FirstSlot DEF Shortcut
<1>1. ASSUME NEW p \in Pad, Connect(p) PROVE HeldTypes'
  BY <1>0, <1>1 DEF Connect
<1>2. ASSUME NEW p \in Pad, Disconnect(p) PROVE HeldTypes'
  BY <1>0, <1>2 DEF Disconnect
<1>3. CASE PollInMenu
  BY <1>0, <1>3 DEF PollInMenu, Reconcile
<1>4. CASE TypeInMenu
  BY <1>0, <1>4 DEF TypeInMenu
<1>5. ASSUME NEW w \in BOOLEAN, NEW c \in BOOLEAN, NEW p \in BOOLEAN, Begin(w, c, p) PROVE HeldTypes'
  BY <1>0, <1>5 DEF Begin
<1>6. ASSUME NEW controls \in SUBSET Controls, Clear(controls) PROVE HeldTypes'
  <2>1. Held(0, controls) \subseteq Entries
    BY <1>0, EntriesOfSlot
  <2>2. todo' \subseteq Entries /\ now' \subseteq Entries /\ input' \subseteq Entries /\ polls' = {}
    BY <1>6, <2>1 DEF Clear
  <2>3. shortcuts' \subseteq Shortcut /\ fired' = {} /\ place' = "keyboard"
    BY <1>6 DEF Clear
  <2> QED
    BY <1>6, <2>2, <2>3 DEF Clear
<1>7. ASSUME NEW entry \in todo, SetInput(entry) PROVE HeldTypes'
  BY <1>0, <1>7 DEF SetInput
<1>8. ASSUME NEW k \in Key, KeyPressed(k) PROVE HeldTypes'
  BY <1>0, <1>8 DEF KeyPressed
<1>9. ASSUME NEW k \in Key, KeyReleased(k) PROVE HeldTypes'
  BY <1>0, <1>9 DEF KeyReleased
<1>10. CASE FocusLost
  BY <1>0, <1>10 DEF FocusLost
<1>11. ASSUME NEW escape \in BOOLEAN, KeysSynced(escape) PROVE HeldTypes'
  <2>1. {0} \X keysDown \subseteq Entries
    BY <1>0, EntriesOfSlot
  <2>2. todo' \subseteq Entries /\ now' \subseteq Entries
    BY <1>11, <2>1 DEF KeysSynced
  <2>3. shortcuts' \subseteq Shortcut
    BY <1>0, <1>11 DEF KeysSynced
  <2>4. prev' \subseteq Key /\ since' \subseteq Key /\ pending' \subseteq Key
    BY <1>11 DEF KeysSynced
  <2>5. known' \subseteq Key /\ lost' \subseteq Key
    BY <1>11 DEF KeysSynced
  <2> QED
    BY <1>11, <2>2, <2>3, <2>4, <2>5 DEF KeysSynced
<1>12. CASE CaptureGamepads
  <2>1. PICK held \in [DOMAIN slots' -> SUBSET Controls] :
          /\ todo' = UNION {Held(slots'[p], held[p]) : p \in DOMAIN slots'}
          /\ shortcuts' = shortcuts \cup ((UNION {held[p] : p \in DOMAIN slots'}) \cap Shortcut)
    BY <1>12 DEF CaptureGamepads
  <2>2. \A p \in DOMAIN slots' : slots'[p] \in Slots
    BY DEF PadsInOrder, Slots
  <2>3. \A p \in DOMAIN slots' : Held(slots'[p], held[p]) \subseteq Entries
    BY <2>2, EntriesOfSlot
  <2>4. todo' \subseteq Entries
    BY <2>1, <2>3
  <2>5. shortcuts' \subseteq Shortcut
    <3> DEFINE pressed == UNION {held[p] : p \in DOMAIN slots'}
    <3>1. shortcuts' = shortcuts \cup (pressed \cap Shortcut)
      BY <2>1, Zenon
    <3> HIDE DEF pressed
    <3> QED
      BY <3>1
  <2>6. now' = now \cup todo'
    BY <1>12 DEF CaptureGamepads
  <2> QED
    BY <1>12, <2>4, <2>5, <2>6 DEF CaptureGamepads, Reconcile
<1>13. CASE Blocked
  BY <1>0, <1>13 DEF Blocked
<1>14. ASSUME NEW expired \in SUBSET Hold, ReturnTriggered(expired) PROVE HeldTypes'
  BY <1>0, <1>14 DEF ReturnTriggered, Stopped
<1>15. ASSUME NEW expired \in SUBSET Hold, ApplyShortcuts(expired) PROVE HeldTypes'
  BY <1>0, <1>15 DEF ApplyShortcuts, Fires
<1>16. CASE WorkerFrame
  BY <1>0, <1>16 DEF WorkerFrame
<1>17. CASE Pump
  <2>1. polls' \subseteq SUBSET Entries
    BY <1>17 DEF Pump
  <2>2. since' \subseteq Key /\ pending' \subseteq Key /\ known' \subseteq Key
        /\ lost' \subseteq Key /\ prev' \subseteq Key
    BY <1>17 DEF Pump, FlushReleases
  <2> QED
    BY <1>17, <2>1, <2>2 DEF Pump
<1>18. CASE PumpFails
  BY <1>0, <1>18 DEF PumpFails, Stopped
<1>19. CASE UNCHANGED vars
  BY <1>0, <1>19
<1> QED
  BY <1>1, <1>2, <1>3, <1>4, <1>5, <1>6, <1>7, <1>8, <1>9, <1>10, <1>11, <1>12, <1>13,
     <1>14, <1>15, <1>16, <1>17, <1>18, <1>19 DEF Next

\* Every part of the input state is of its kind: what the core polls is in slots
\* of players, no more arrivals are numbered than there were, and no slot is
\* given that there is not.
THEOREM TypeCorrect == Spec => []TypeOK
<1>1. Init => HeldTypes
  BY InputAssumption DEF Init, HeldTypes
<1>2. HeldTypes /\ PadsInOrder' /\ [Next]_vars => HeldTypes'
  BY HeldTypesKept
<1>3. PadsInOrder /\ HeldTypes => TypeOK
  BY TypeOfPads
<1> QED
  BY <1>1, <1>2, <1>3, PadsInOrderAlways, PTL DEF Spec

=============================================================================
