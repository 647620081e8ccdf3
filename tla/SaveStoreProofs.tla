-------------------------- MODULE SaveStoreProofs --------------------------
(***************************************************************************)
(* Proofs about SaveStore, for any roms, slots, images and limits: the     *)
(* types, and the invariant that follows the save under way, from which    *)
(* what a slot holds after failed and interrupted saves.                   *)
(***************************************************************************)
EXTENDS SaveStore, FiniteSetTheorems, TLAPS

\* Every row, file and backup is of its kind at every step of a save, after
\* crashes and failed undos too: what a slot's row says is a size, and what its
\* file has is one image or none.
THEOREM TypeCorrect == Spec => []TypeOK
<1>1. Init => TypeOK
  BY SaveStoreAssumption DEF Init, TypeOK, ImageOrNone, Steps
<1>2. TypeOK /\ [Next]_vars => TypeOK'
  <2> SUFFICES ASSUME TypeOK, [Next]_vars PROVE TypeOK'
    OBVIOUS
  <2> USE DEF TypeOK, ImageOrNone, Steps
  <2>1. ASSUME NEW s \in Slot, NEW image \in Image, BeginSave(s, image) PROVE TypeOK'
    BY <2>1 DEF BeginSave
  <2>2. CASE SetAside
    BY <2>2 DEF SetAside
  <2>3. CASE SetAsideFails
    BY <2>3 DEF SetAsideFails
  <2>4. CASE WriteTemp
    BY <2>4 DEF WriteTemp
  <2>5. CASE Place
    BY <2>5 DEF Place
  <2>6. CASE Commit
    BY <2>6, SaveStoreAssumption DEF Commit
  <2>7. CASE CommitFails
    BY <2>7 DEF CommitFails
  <2>8. CASE Clean
    BY <2>8 DEF Clean, LeftBehind
  <2>9. CASE Remove
    BY <2>9 DEF Remove
  <2>10. CASE PutBack
    BY <2>10 DEF PutBack, LeftBehind
  <2>11. ASSUME NEW s \in Slot, LoadUnreadable(s) PROVE TypeOK'
    BY <2>11 DEF LoadUnreadable, saveVars
  <2>12. ASSUME NEW rom \in Rom, DeleteRom(rom) PROVE TypeOK'
    BY <2>12 DEF DeleteRom, saveVars
  <2>13. CASE Crash
    BY <2>13 DEF Crash, LeftBehind
  <2>14. CASE UNCHANGED vars
    BY <2>14 DEF vars, saveVars
  <2> QED
    BY <2>1, <2>2, <2>3, <2>4, <2>5, <2>6, <2>7, <2>8, <2>9, <2>10, <2>11, <2>12,
       <2>13, <2>14 DEF Next, SaveNext
<1> QED
  BY <1>1, <1>2, PTL DEF Spec

-----------------------------------------------------------------------------
(* The invariant.                                                            *)

\* IInv is an invariant: one step for each action, one for each of its parts.
LEMMA Invariance == Spec => []IInv
<1>1. Init => IInv
  BY DEF Init, IInv, RowOfCommitted, SaveUnderWay, SlotIntact, CommittedSurvives,
         RowsOfListedRoms, Slot
<1>2. TypeOK /\ TypeOK' /\ IInv /\ [Next]_vars => IInv'
  <2> SUFFICES ASSUME TypeOK, TypeOK', IInv, [Next]_vars PROVE IInv'
    OBVIOUS
  <2> USE SaveStoreAssumption DEF TypeOK, ImageOrNone, Steps, Busy, IInv
  <2>1. ASSUME NEW s \in Slot, NEW image \in Image, BeginSave(s, image) PROVE IInv'
    <3>1. RowOfCommitted'
      BY <2>1 DEF BeginSave, Admitted, RowOfCommitted, SaveUnderWay
    <3>2. SaveUnderWay'
      BY <2>1 DEF BeginSave, Admitted, SaveUnderWay, SlotIntact, RowOfCommitted, CommittedSurvives
    <3>3. SlotIntact'
      BY <2>1 DEF BeginSave, Admitted, SlotIntact, RowOfCommitted, SaveUnderWay
    <3>4. CommittedSurvives'
      BY <2>1 DEF BeginSave, Admitted, CommittedSurvives, SaveUnderWay
    <3>5. RowsOfListedRoms'
      BY <2>1 DEF BeginSave, Admitted, RowsOfListedRoms
    <3> QED
      BY <3>1, <3>2, <3>3, <3>4, <3>5
  <2>2. CASE SetAside
    <3>1. RowOfCommitted'
      BY <2>2 DEF SetAside, RowOfCommitted, SaveUnderWay
    <3>2. SaveUnderWay'
      BY <2>2 DEF SetAside, SaveUnderWay, SlotIntact, RowOfCommitted, CommittedSurvives
    <3>3. SlotIntact'
      BY <2>2 DEF SetAside, SlotIntact, RowOfCommitted, SaveUnderWay
    <3>4. CommittedSurvives'
      BY <2>2 DEF SetAside, CommittedSurvives, SaveUnderWay
    <3>5. RowsOfListedRoms'
      BY <2>2 DEF SetAside, RowsOfListedRoms
    <3> QED
      BY <3>1, <3>2, <3>3, <3>4, <3>5
  <2>3. CASE SetAsideFails
    <3>1. RowOfCommitted'
      BY <2>3 DEF SetAsideFails, RowOfCommitted, SaveUnderWay
    <3>2. SaveUnderWay'
      BY <2>3 DEF SetAsideFails, SaveUnderWay, SlotIntact, RowOfCommitted, CommittedSurvives
    <3>3. SlotIntact'
      BY <2>3 DEF SetAsideFails, SlotIntact, RowOfCommitted, SaveUnderWay
    <3>4. CommittedSurvives'
      BY <2>3 DEF SetAsideFails, CommittedSurvives, SaveUnderWay
    <3>5. RowsOfListedRoms'
      BY <2>3 DEF SetAsideFails, RowsOfListedRoms
    <3> QED
      BY <3>1, <3>2, <3>3, <3>4, <3>5
  <2>4. CASE WriteTemp
    <3>1. RowOfCommitted'
      BY <2>4 DEF WriteTemp, RowOfCommitted, SaveUnderWay
    <3>2. SaveUnderWay'
      BY <2>4 DEF WriteTemp, SaveUnderWay, SlotIntact, RowOfCommitted, CommittedSurvives
    <3>3. SlotIntact'
      BY <2>4 DEF WriteTemp, SlotIntact, RowOfCommitted, SaveUnderWay
    <3>4. CommittedSurvives'
      BY <2>4 DEF WriteTemp, CommittedSurvives, SaveUnderWay
    <3>5. RowsOfListedRoms'
      BY <2>4 DEF WriteTemp, RowsOfListedRoms
    <3> QED
      BY <3>1, <3>2, <3>3, <3>4, <3>5
  <2>5. CASE Place
    <3>1. RowOfCommitted'
      BY <2>5 DEF Place, RowOfCommitted, SaveUnderWay
    <3>2. SaveUnderWay'
      BY <2>5 DEF Place, SaveUnderWay, SlotIntact, RowOfCommitted, CommittedSurvives
    <3>3. SlotIntact'
      BY <2>5 DEF Place, SlotIntact, RowOfCommitted, SaveUnderWay
    <3>4. CommittedSurvives'
      BY <2>5 DEF Place, CommittedSurvives, SaveUnderWay
    <3>5. RowsOfListedRoms'
      BY <2>5 DEF Place, RowsOfListedRoms
    <3> QED
      BY <3>1, <3>2, <3>3, <3>4, <3>5
  <2>6. CASE Commit
    <3>1. RowOfCommitted'
      BY <2>6 DEF Commit, RowOfCommitted, SaveUnderWay
    <3>2. SaveUnderWay'
      BY <2>6 DEF Commit, SaveUnderWay, SlotIntact, RowOfCommitted, CommittedSurvives
    <3>3. SlotIntact'
      BY <2>6 DEF Commit, SlotIntact, RowOfCommitted, SaveUnderWay
    <3>4. CommittedSurvives'
      BY <2>6 DEF Commit, CommittedSurvives, SaveUnderWay
    <3>5. RowsOfListedRoms'
      BY <2>6 DEF Commit, RowsOfListedRoms
    <3> QED
      BY <3>1, <3>2, <3>3, <3>4, <3>5
  <2>7. CASE CommitFails
    <3>1. RowOfCommitted'
      BY <2>7 DEF CommitFails, RowOfCommitted, SaveUnderWay
    <3>2. SaveUnderWay'
      BY <2>7 DEF CommitFails, SaveUnderWay, SlotIntact, RowOfCommitted, CommittedSurvives
    <3>3. SlotIntact'
      BY <2>7 DEF CommitFails, SlotIntact, RowOfCommitted, SaveUnderWay
    <3>4. CommittedSurvives'
      BY <2>7 DEF CommitFails, CommittedSurvives, SaveUnderWay
    <3>5. RowsOfListedRoms'
      BY <2>7 DEF CommitFails, RowsOfListedRoms
    <3> QED
      BY <3>1, <3>2, <3>3, <3>4, <3>5
  <2>8. CASE Clean
    <3>1. RowOfCommitted'
      BY <2>8 DEF Clean, LeftBehind, RowOfCommitted, SaveUnderWay
    <3>2. SaveUnderWay'
      BY <2>8 DEF Clean, LeftBehind, SaveUnderWay, SlotIntact, RowOfCommitted, CommittedSurvives
    <3>3. SlotIntact'
      BY <2>8 DEF Clean, LeftBehind, SlotIntact, RowOfCommitted, SaveUnderWay
    <3>4. CommittedSurvives'
      BY <2>8 DEF Clean, LeftBehind, CommittedSurvives, SaveUnderWay
    <3>5. RowsOfListedRoms'
      BY <2>8 DEF Clean, LeftBehind, RowsOfListedRoms
    <3> QED
      BY <3>1, <3>2, <3>3, <3>4, <3>5
  <2>9. CASE Remove
    <3>1. RowOfCommitted'
      BY <2>9 DEF Remove, RowOfCommitted, SaveUnderWay
    <3>2. SaveUnderWay'
      BY <2>9 DEF Remove, SaveUnderWay, SlotIntact, RowOfCommitted, CommittedSurvives
    <3>3. SlotIntact'
      BY <2>9 DEF Remove, SlotIntact, RowOfCommitted, SaveUnderWay
    <3>4. CommittedSurvives'
      BY <2>9 DEF Remove, CommittedSurvives, SaveUnderWay
    <3>5. RowsOfListedRoms'
      BY <2>9 DEF Remove, RowsOfListedRoms
    <3> QED
      BY <3>1, <3>2, <3>3, <3>4, <3>5
  <2>10. CASE PutBack
    <3>1. RowOfCommitted'
      BY <2>10 DEF PutBack, LeftBehind, RowOfCommitted, SaveUnderWay
    <3>2. SaveUnderWay'
      BY <2>10 DEF PutBack, LeftBehind, SaveUnderWay, SlotIntact, RowOfCommitted, CommittedSurvives
    <3>3. SlotIntact'
      BY <2>10 DEF PutBack, LeftBehind, SlotIntact, RowOfCommitted, SaveUnderWay
    <3>4. CommittedSurvives'
      BY <2>10 DEF PutBack, LeftBehind, CommittedSurvives, SaveUnderWay
    <3>5. RowsOfListedRoms'
      BY <2>10 DEF PutBack, LeftBehind, RowsOfListedRoms
    <3> QED
      BY <3>1, <3>2, <3>3, <3>4, <3>5
  <2>11. ASSUME NEW s \in Slot, LoadUnreadable(s) PROVE IInv'
    <3>1. RowOfCommitted'
      BY <2>11 DEF LoadUnreadable, saveVars, RowOfCommitted, SaveUnderWay
    <3>2. SaveUnderWay'
      BY <2>11 DEF LoadUnreadable, saveVars, SaveUnderWay, SlotIntact, RowOfCommitted, CommittedSurvives
    <3>3. SlotIntact'
      BY <2>11 DEF LoadUnreadable, saveVars, SlotIntact, RowOfCommitted, SaveUnderWay
    <3>4. CommittedSurvives'
      BY <2>11 DEF LoadUnreadable, saveVars, CommittedSurvives, SaveUnderWay
    <3>5. RowsOfListedRoms'
      BY <2>11 DEF LoadUnreadable, saveVars, RowsOfListedRoms
    <3> QED
      BY <3>1, <3>2, <3>3, <3>4, <3>5
  <2>12. ASSUME NEW rom \in Rom, DeleteRom(rom) PROVE IInv'
    <3>1. RowOfCommitted'
      BY <2>12 DEF DeleteRom, saveVars, RowOfCommitted, SaveUnderWay, Slot
    <3>2. SaveUnderWay'
      BY <2>12 DEF DeleteRom, saveVars, SaveUnderWay, SlotIntact, RowOfCommitted, CommittedSurvives, Slot
    <3>3. SlotIntact'
      BY <2>12 DEF DeleteRom, saveVars, SlotIntact, RowOfCommitted, SaveUnderWay, Slot
    <3>4. CommittedSurvives'
      BY <2>12 DEF DeleteRom, saveVars, CommittedSurvives, SaveUnderWay, Slot
    <3>5. RowsOfListedRoms'
      BY <2>12 DEF DeleteRom, saveVars, RowsOfListedRoms, Slot
    <3> QED
      BY <3>1, <3>2, <3>3, <3>4, <3>5
  <2>13. CASE Crash
    <3>1. RowOfCommitted'
      BY <2>13 DEF Crash, LeftBehind, RowOfCommitted, SaveUnderWay
    <3>2. SaveUnderWay'
      BY <2>13 DEF Crash, LeftBehind, SaveUnderWay, SlotIntact, RowOfCommitted, CommittedSurvives
    <3>3. SlotIntact'
      BY <2>13 DEF Crash, LeftBehind, SlotIntact, RowOfCommitted, SaveUnderWay
    <3>4. CommittedSurvives'
      BY <2>13 DEF Crash, LeftBehind, CommittedSurvives, SaveUnderWay
    <3>5. RowsOfListedRoms'
      BY <2>13 DEF Crash, LeftBehind, RowsOfListedRoms
    <3> QED
      BY <3>1, <3>2, <3>3, <3>4, <3>5
  <2>14. CASE UNCHANGED vars
    <3>1. RowOfCommitted'
      BY <2>14 DEF vars, saveVars, RowOfCommitted, SaveUnderWay
    <3>2. SaveUnderWay'
      BY <2>14 DEF vars, saveVars, SaveUnderWay, SlotIntact, RowOfCommitted, CommittedSurvives
    <3>3. SlotIntact'
      BY <2>14 DEF vars, saveVars, SlotIntact, RowOfCommitted, SaveUnderWay
    <3>4. CommittedSurvives'
      BY <2>14 DEF vars, saveVars, CommittedSurvives, SaveUnderWay
    <3>5. RowsOfListedRoms'
      BY <2>14 DEF vars, saveVars, RowsOfListedRoms
    <3> QED
      BY <3>1, <3>2, <3>3, <3>4, <3>5
  <2> QED
    BY <2>1, <2>2, <2>3, <2>4, <2>5, <2>6, <2>7, <2>8, <2>9, <2>10, <2>11, <2>12, <2>13, <2>14 DEF Next, SaveNext
<1> QED
  BY <1>1, <1>2, TypeCorrect, PTL DEF Spec

\* A slot no crash or failed undo has torn holds its last successful save.
THEOREM FailedSavesLeaveSlotsIntact == Spec => []SlotIntact
<1>1. IInv => SlotIntact
  BY DEF IInv
<1> QED
  BY <1>1, Invariance, PTL

\* What a row promises is still in a file, wherever a save was stopped.
THEOREM CommittedImagesSurvive == Spec => []CommittedSurvives
<1>1. IInv => CommittedSurvives
  BY DEF IInv
<1> QED
  BY <1>1, Invariance, PTL

\* Only slots of listed roms have a row.
THEOREM RowsFollowRoms == Spec => []RowsOfListedRoms
<1>1. IInv => RowsOfListedRoms
  BY DEF IInv
<1> QED
  BY <1>1, Invariance, PTL

-----------------------------------------------------------------------------
(* The profile's quota.  The total of the rows is the number of bytes that   *)
(* they claim, so that a row that changes takes its bytes away and adds      *)
(* others.                                                                   *)

\* Who claims a byte.
LEMMA ClaimedBy ==
  ASSUME NEW sizes, NEW b
  PROVE  b \in Claimed(sizes) <=> \E s \in Slot : \E i \in 1..sizes[s] : b = <<s, i>>
BY DEF Claimed

\* The bytes of one slot.
LEMMA BytesOfSlot ==
  ASSUME NEW s, NEW n \in Nat
  PROVE  IsFiniteSet({s} \X (1..n)) /\ Cardinality({s} \X (1..n)) = n
<1>1. IsFiniteSet({s}) /\ Cardinality({s}) = 1
  BY FS_Singleton
<1>2. IsFiniteSet(1..n) /\ Cardinality(1..n) = n
  BY FS_Interval
<1>3. IsFiniteSet({s} \X (1..n)) /\ Cardinality({s} \X (1..n)) = 1 * n
  BY <1>1, <1>2, FS_Product
<1> QED
  BY <1>3

\* A row that changes from one size to another changes the total by as much.
LEMMA UsedAfterUpdate ==
  ASSUME NEW sizes \in [Slot -> Nat], NEW after \in [Slot -> Nat], NEW s \in Slot,
         \A t \in Slot \ {s} : after[t] = sizes[t],
         IsFiniteSet(Claimed(sizes))
  PROVE  /\ IsFiniteSet(Claimed(after))
         /\ Used(sizes) \in Nat
         /\ Used(after) = Used(sizes) - sizes[s] + after[s]
<1> DEFINE old   == {s} \X (1..sizes[s])
           fresh == {s} \X (1..after[s])
           rest  == Claimed(sizes) \ old
<1>1. Claimed(sizes) = rest \cup old
  BY ClaimedBy
<1>2. Claimed(after) = rest \cup fresh
  <2>1. ASSUME NEW b \in Claimed(after) PROVE b \in rest \cup fresh
    <3>1. PICK t \in Slot : \E i \in 1..after[t] : b = <<t, i>>
      BY ClaimedBy
    <3>2. CASE t = s
      BY <3>1, <3>2
    <3>3. CASE t # s
      <4>1. b \in Claimed(sizes)
        BY <3>1, <3>3, ClaimedBy
      <4> QED
        BY <3>1, <3>3, <4>1
    <3> QED
      BY <3>2, <3>3
  <2>2. ASSUME NEW b \in rest PROVE b \in Claimed(after)
    <3>1. PICK t \in Slot : \E i \in 1..sizes[t] : b = <<t, i>>
      BY ClaimedBy
    <3>2. t # s
      BY <3>1
    <3> QED
      BY <3>1, <3>2, ClaimedBy
  <2>3. ASSUME NEW b \in fresh PROVE b \in Claimed(after)
    BY ClaimedBy
  <2> QED
    BY <2>1, <2>2, <2>3
<1>3. rest \cap old = {} /\ rest \cap fresh = {}
  <2>1. ASSUME NEW b \in rest, b \in fresh PROVE FALSE
    <3>1. PICK t \in Slot : \E i \in 1..sizes[t] : b = <<t, i>>
      BY ClaimedBy
    <3> QED
      BY <2>1, <3>1
  <2> QED
    BY <2>1
<1>4. IsFiniteSet(old) /\ Cardinality(old) = sizes[s]
  BY BytesOfSlot
<1>5. IsFiniteSet(fresh) /\ Cardinality(fresh) = after[s]
  BY BytesOfSlot
<1>6. IsFiniteSet(rest) /\ Cardinality(rest) \in Nat
  BY FS_Difference, FS_CardinalityType
<1>7. Cardinality({}) = 0
  BY FS_EmptySet
<1>8. Used(sizes) = Cardinality(rest) + sizes[s]
  <2>1. Cardinality(rest \cup old) = Cardinality(rest) + Cardinality(old) - Cardinality(rest \cap old)
    BY <1>4, <1>6, FS_Union
  <2>2. Used(sizes) = Cardinality(rest \cup old) /\ Cardinality(rest \cap old) = 0
    BY <1>1, <1>3, <1>7, Zenon DEF Used
  <2> HIDE DEF old, rest
  <2> QED
    BY <2>1, <2>2, <1>4, <1>6
<1>9. IsFiniteSet(Claimed(after)) /\ Used(after) = Cardinality(rest) + after[s]
  <2>1. /\ IsFiniteSet(rest \cup fresh)
        /\ Cardinality(rest \cup fresh) = Cardinality(rest) + Cardinality(fresh) - Cardinality(rest \cap fresh)
    BY <1>5, <1>6, FS_Union
  <2>2. /\ Used(after) = Cardinality(rest \cup fresh) /\ Cardinality(rest \cap fresh) = 0
        /\ IsFiniteSet(Claimed(after))
    BY <2>1, <1>2, <1>3, <1>7, Zenon DEF Used
  <2> HIDE DEF fresh, rest
  <2> QED
    BY <2>1, <2>2, <1>5, <1>6
<1> HIDE DEF rest
<1> QED
  BY <1>6, <1>8, <1>9

\* Rows that are deleted claim nothing any more.
LEMMA UsedOfFewer ==
  ASSUME NEW sizes \in [Slot -> Nat], NEW fewer \in [Slot -> Nat],
         \A s \in Slot : fewer[s] \in {0, sizes[s]},
         IsFiniteSet(Claimed(sizes))
  PROVE  /\ IsFiniteSet(Claimed(fewer))
         /\ Used(fewer) \in Nat /\ Used(sizes) \in Nat
         /\ Used(fewer) <= Used(sizes)
<1>1. Claimed(fewer) \subseteq Claimed(sizes)
  BY ClaimedBy
<1> QED
  BY <1>1, FS_Subset, FS_CardinalityType DEF Used

\* A save is admitted when it fits, and still fits when its row is written.
LEMMA AdmittedFitsKept ==
  ASSUME TypeOK, AdmittedFits, [Next]_vars
  PROVE  AdmittedFits'
<1> USE SaveStoreAssumption DEF AdmittedFits, QuotaHeld
<1>1. ASSUME NEW s \in Slot, NEW image \in Image, BeginSave(s, image) PROVE AdmittedFits'
  BY <1>1 DEF BeginSave, Admitted
<1>2. CASE SetAside
  BY <1>2 DEF SetAside
<1>3. CASE SetAsideFails
  BY <1>3 DEF SetAsideFails
<1>4. CASE WriteTemp
  BY <1>4 DEF WriteTemp
<1>5. CASE Place
  BY <1>5 DEF Place
<1>6. CASE Commit
  <2>1. /\ IsFiniteSet(Claimed(row'))
        /\ Used(row) \in Nat
        /\ Used(row') = Used(row) - row[key] + Size[new]
    <3>1. /\ row \in [Slot -> Nat] /\ row' \in [Slot -> Nat] /\ key \in Slot
          /\ row'[key] = Size[new]
          /\ \A t \in Slot \ {key} : row'[t] = row[t]
      BY <1>6 DEF Commit, TypeOK
    <3> QED
      BY <3>1, UsedAfterUpdate
  <2>2. Used(row) + Size[new] <= ProfileMax + row[key]
    BY <1>6 DEF Commit
  <2>3. row[key] \in Nat /\ Size[new] \in Nat
    BY DEF TypeOK
  <2> QED
    BY <1>6, <2>1, <2>2, <2>3 DEF Commit
<1>7. CASE CommitFails
  BY <1>7 DEF CommitFails
<1>8. CASE Clean
  BY <1>8 DEF Clean
<1>9. CASE Remove
  BY <1>9 DEF Remove
<1>10. CASE PutBack
  BY <1>10 DEF PutBack
<1>11. ASSUME NEW s \in Slot, LoadUnreadable(s) PROVE AdmittedFits'
  <2>1. row' \in [Slot -> Nat] /\ \A t \in Slot : row'[t] \in {0, row[t]}
    BY <1>11 DEF LoadUnreadable, TypeOK
  <2>2. /\ IsFiniteSet(Claimed(row'))
        /\ Used(row') \in Nat /\ Used(row) \in Nat
        /\ Used(row') <= Used(row)
    BY <2>1, UsedOfFewer DEF TypeOK
  <2> QED
    BY <1>11, <2>2 DEF LoadUnreadable, saveVars
<1>12. ASSUME NEW rom \in Rom, DeleteRom(rom) PROVE AdmittedFits'
  <2>1. row' \in [Slot -> Nat] /\ \A t \in Slot : row'[t] \in {0, row[t]}
    BY <1>12 DEF DeleteRom, TypeOK
  <2>2. /\ IsFiniteSet(Claimed(row'))
        /\ Used(row') \in Nat /\ Used(row) \in Nat
        /\ Used(row') <= Used(row)
    BY <2>1, UsedOfFewer DEF TypeOK
  <2> QED
    BY <1>12, <2>2 DEF DeleteRom, saveVars
<1>13. CASE Crash
  BY <1>13 DEF Crash
<1>14. CASE UNCHANGED vars
  BY <1>14 DEF vars, saveVars
<1> QED
  BY <1>1, <1>2, <1>3, <1>4, <1>5, <1>6, <1>7, <1>8, <1>9, <1>10, <1>11, <1>12,
     <1>13, <1>14 DEF Next, SaveNext

\* The rows of a profile never claim more than profile_max_bytes, for any number
\* of slots, any sizes and any limits: a save is admitted by a total that was
\* read before its file was written, and the total has not grown since.
THEOREM QuotaIsHeld == Spec => []QuotaHeld
<1>1. Init => AdmittedFits
  <2> SUFFICES ASSUME Init PROVE AdmittedFits
    OBVIOUS
  <2>1. Claimed(row) = {}
    BY ClaimedBy DEF Init
  <2> QED
    BY <2>1, FS_EmptySet, SaveStoreAssumption DEF Init, AdmittedFits, QuotaHeld, Used
<1>2. AdmittedFits => QuotaHeld
  BY DEF AdmittedFits
<1>3. TypeOK /\ AdmittedFits /\ [Next]_vars => AdmittedFits'
  BY AdmittedFitsKept
<1> QED
  BY <1>1, <1>2, <1>3, TypeCorrect, PTL DEF Spec

-----------------------------------------------------------------------------
(* The refinement of SlotStore.                                              *)

\* UndoneFile is an invariant: the undo of a save begins with no file in the
\* slot, or with the one the save has placed, and removes that or marks the slot
\* as torn.
LEMMA UndoneFileAlways == Spec => []UndoneFile
<1>1. Init => UndoneFile
  BY DEF Init, UndoneFile
<1>2. TypeOK /\ IInv /\ UndoneFile /\ [Next]_vars => UndoneFile'
  <2> SUFFICES ASSUME TypeOK, IInv, UndoneFile, [Next]_vars PROVE UndoneFile'
    OBVIOUS
  <2> USE DEF TypeOK, IInv, SaveUnderWay, UndoneFile
  <2>1. ASSUME NEW s \in Slot, NEW image \in Image, BeginSave(s, image) PROVE UndoneFile'
    BY <2>1 DEF BeginSave
  <2>2. CASE SetAside \/ SetAsideFails
    BY <2>2 DEF SetAside, SetAsideFails
  <2>3. CASE WriteTemp
    BY <2>3 DEF WriteTemp
  <2>4. CASE Place
    BY <2>4 DEF Place
  <2>5. CASE Commit \/ Clean
    BY <2>5 DEF Commit, Clean
  <2>6. CASE CommitFails
    BY <2>6 DEF CommitFails
  <2>7. CASE Remove
    BY <2>7 DEF Remove
  <2>8. CASE PutBack \/ Crash
    BY <2>8 DEF PutBack, Crash
  <2>9. ASSUME NEW s \in Slot, LoadUnreadable(s) PROVE UndoneFile'
    BY <2>9 DEF LoadUnreadable, saveVars
  <2>10. ASSUME NEW rom \in Rom, DeleteRom(rom) PROVE UndoneFile'
    BY <2>10 DEF DeleteRom, saveVars
  <2>11. CASE UNCHANGED vars
    BY <2>11 DEF vars, saveVars
  <2> QED
    BY <2>1, <2>2, <2>3, <2>4, <2>5, <2>6, <2>7, <2>8, <2>9, <2>10, <2>11 DEF Next, SaveNext
<1> QED
  BY <1>1, <1>2, TypeCorrect, Invariance, PTL DEF Spec

\* What a step of the store is, of which only the loads are known: a stutter ...
LEMMA StoreStutters ==
    ASSUME \A s \in Slot : Loaded(s)' = Loaded(s), Pending' = Pending, torn' = torn
    PROVE  UNCHANGED Store!vars
  BY DEF Store!vars

\* ... the end of a save that failed, ...
LEMMA StoreFails ==
    ASSUME NEW t \in Slot, NEW i \in Image, Pending = {<<t, i>>}, Pending' = {}, torn' = torn,
           \A s \in Slot : Loaded(s)' = Loaded(s)
    PROVE  Store!Next
<1>1. Store!Fail(t, i)
  BY DEF Store!Fail
<1> QED
  BY <1>1 DEF Store!Next

\* ... the mark that one will be torn, ...
LEMMA StoreTears ==
    ASSUME NEW t \in Slot, NEW i \in Image, Pending = {<<t, i>>}, Pending' = Pending,
           torn' = torn \cup {t}, \A s \in Slot : Loaded(s)' = Loaded(s)
    PROVE  Store!Next
<1>1. Store!Tear(t, i)
  BY DEF Store!Tear
<1> QED
  BY <1>1 DEF Store!Next

\* ... the end of one that is, ...
LEMMA StoreEndsTorn ==
    ASSUME NEW t \in Slot, NEW i \in Image, Pending = {<<t, i>>}, Pending' = {},
           torn' = torn \cup {t}, Loaded(t)' \in {NoImage, i},
           \A s \in Slot \ {t} : Loaded(s)' = Loaded(s)
    PROVE  Store!Next
<1> DEFINE stored == [s \in Slot |-> Loaded(s)]
<1>1. stored' = [stored EXCEPT ![t] = Loaded(t)']
  OBVIOUS
<1>2. Store!EndTorn(t, i)
  BY <1>1 DEF Store!EndTorn
<1> QED
  BY <1>2 DEF Store!Next

\* ... or slots that are emptied.
LEMMA StoreForgets ==
    ASSUME NEW slots \in SUBSET Slot, Pending = {}, Pending' = {}, torn' = torn,
           \A s \in Slot : Loaded(s)' = IF s \in slots THEN NoImage ELSE Loaded(s)
    PROVE  Store!Next
<1>1. Store!Forget(slots)
  BY DEF Store!Forget
<1> QED
  BY <1>1 DEF Store!Next

\* A save begins, and no load returns anything else for it.
LEMMA BeginRefines ==
    ASSUME TypeOK, NEW t \in Slot, NEW i \in Image, BeginSave(t, i)
    PROVE  Store!Next
<1>1. \A s \in Slot : Loaded(s)' = Loaded(s)
  BY DEF BeginSave, Loaded, Busy
<1>2. Pending = {} /\ Pending' = {<<t, i>>} /\ torn' = torn
  BY DEF BeginSave, Pending
<1>3. Store!Begin(t, i)
  BY <1>1, <1>2 DEF Store!Begin
<1> QED
  BY <1>3 DEF Store!Next

\* The row is committed: that is when the new image takes the place of the old.
LEMMA CommitRefines ==
    ASSUME TypeOK, SaveUnderWay, Commit
    PROVE  Store!Next
<1> USE SaveStoreAssumption DEF TypeOK
<1>1. PICK t \in Slot : t = key
  OBVIOUS
<1>2. PICK i \in Image : i = new
  OBVIOUS
<1>3. \A s \in Slot : Loaded(s)' = IF s = t THEN i ELSE Loaded(s)
  BY <1>1, <1>2 DEF Commit, Loaded, Busy, SaveUnderWay
<1>4. Pending = {<<t, i>>} /\ Pending' = {} /\ torn' = torn \ {t}
  BY <1>1, <1>2 DEF Commit, Pending
<1>5. Store!Succeed(t, i)
  BY <1>3, <1>4 DEF Store!Succeed
<1> QED
  BY <1>5 DEF Store!Next

\* The last step of an undo: the backup is back, and with it the image that is
\* loaded, or the slot is torn.
LEMMA PutBackRefines ==
    ASSUME TypeOK, UndoneFile, PutBack
    PROVE  Store!Next
<1> USE DEF TypeOK
<1>1. PICK t \in Slot : t = key
  OBVIOUS
<1>2. PICK i \in Image : i = new
  OBVIOUS
<1>3. Pending = {<<t, i>>} /\ Pending' = {}
  BY <1>1, <1>2 DEF PutBack, Pending
<1>4. \A s \in Slot \ {t} : Loaded(s)' = Loaded(s)
  BY <1>1 DEF PutBack, Loaded, Busy
<1>5. CASE Loaded(t)' = Loaded(t) /\ torn' = torn
  BY <1>3, <1>4, <1>5, StoreFails
<1>6. CASE torn' = torn \cup {t} /\ Loaded(t)' \in {NoImage, i}
  BY <1>3, <1>4, <1>6, StoreEndsTorn
<1>7. CASE bak = NoImage /\ t \notin torn
  <2>1. Loaded(t)' = Loaded(t) /\ torn' = torn
    BY <1>1, <1>7 DEF PutBack, UndoneFile, Loaded, Busy
  <2> QED
    BY <2>1, <1>5
<1>8. CASE bak = NoImage /\ t \in torn
  <2>1. torn' = torn \cup {t} /\ Loaded(t)' \in {NoImage, i}
    BY <1>1, <1>2, <1>8 DEF PutBack, UndoneFile, Loaded, Busy
  <2> QED
    BY <2>1, <1>6
<1>9. CASE bak # NoImage
  <2>1. CASE file' = [file EXCEPT ![key] = bak] /\ torn' = torn
    <3>1. Loaded(t)' = Loaded(t)
      BY <1>1, <1>9, <2>1 DEF PutBack, Loaded, Busy
    <3> QED
      BY <3>1, <2>1, <1>5
  <2>2. CASE file' = file /\ torn' = torn \cup {key}
    <3>1. Loaded(t)' \in {NoImage, i}
      BY <1>1, <1>2, <1>9, <2>2 DEF PutBack, UndoneFile, Loaded, Busy
    <3> QED
      BY <3>1, <2>2, <1>1, <1>6
  <2> QED
    BY <1>9, <2>1, <2>2 DEF PutBack
<1> QED
  BY <1>7, <1>8, <1>9

\* A kill: the backup is lost, and the slot's file is what is loaded from now on.
LEMMA CrashRefines ==
    ASSUME TypeOK, SaveUnderWay, UndoneFile, Crash
    PROVE  [Store!Next]_(Store!vars)
<1> USE DEF TypeOK
<1>1. PICK t \in Slot : t = key
  OBVIOUS
<1>2. PICK i \in Image : i = new
  OBVIOUS
<1>3. \A s \in Slot \ {t} : Loaded(s)' = Loaded(s)
  BY <1>1 DEF Crash, Loaded, Busy
<1>4. Pending' = {}
  BY DEF Crash, Pending
<1>5. CASE step = "clean"
  <2>1. Pending = {} /\ torn' = torn /\ Loaded(t)' = Loaded(t)
    BY <1>1, <1>5 DEF Crash, Pending, Loaded, Busy
  <2> QED
    BY <2>1, <1>3, <1>4, StoreStutters
<1>6. CASE step = "setaside"
  <2>1. Pending = {<<t, i>>} /\ torn' = torn /\ Loaded(t)' = Loaded(t)
    BY <1>1, <1>2, <1>6 DEF Crash, Pending, Loaded, Busy
  <2> QED
    BY <2>1, <1>3, <1>4, StoreFails
<1>7. CASE step \notin {"setaside", "clean"}
  <2>1. Pending = {<<t, i>>} /\ torn' = torn \cup {t}
    BY <1>1, <1>2, <1>7 DEF Crash, Pending
  <2>2. file[t] \in {NoImage, i}
    BY <1>1, <1>2, <1>7 DEF Crash, SaveUnderWay, UndoneFile, Steps
  <2>3. Loaded(t)' \in {NoImage, i}
    BY <2>2, <1>7 DEF Crash, Loaded, Busy
  <2> QED
    BY <2>1, <2>3, <1>3, <1>4, StoreEndsTorn
<1> QED
  BY <1>5, <1>6, <1>7

\* Every step of a save, and of all else that happens to a slot, is a step of
\* SlotStore or one that no load can see.
LEMMA StepRefines ==
    TypeOK /\ IInv /\ UndoneFile /\ [Next]_vars => [Store!Next]_(Store!vars)
<1> SUFFICES ASSUME TypeOK, IInv, UndoneFile, [Next]_vars PROVE [Store!Next]_(Store!vars)
  OBVIOUS
<1> USE DEF TypeOK, IInv
<1>1. ASSUME NEW s \in Slot, NEW image \in Image, BeginSave(s, image) PROVE Store!Next
  BY <1>1, BeginRefines
<1>2. CASE SetAside
  <2>1. \A s \in Slot : Loaded(s)' = Loaded(s)
    BY <1>2 DEF SetAside, Loaded, Busy
  <2> QED
    BY <2>1, <1>2, StoreStutters DEF SetAside, Pending
<1>3. CASE SetAsideFails
  <2>1. \A s \in Slot : Loaded(s)' = Loaded(s)
    BY <1>3 DEF SetAsideFails, Loaded, Busy
  <2>2. Pending = {<<key, new>>} /\ Pending' = {} /\ torn' = torn
    BY <1>3 DEF SetAsideFails, Pending
  <2> QED
    BY <2>1, <2>2, StoreFails
<1>4. CASE WriteTemp \/ Place \/ CommitFails
  <2>1. \A s \in Slot : Loaded(s)' = Loaded(s)
    BY <1>4 DEF WriteTemp, Place, CommitFails, Loaded, Busy
  <2>2. Pending' = Pending /\ torn' = torn
    BY <1>4 DEF WriteTemp, Place, CommitFails, Pending
  <2> QED
    BY <2>1, <2>2, StoreStutters
<1>5. CASE Commit
  BY <1>5, CommitRefines
<1>6. CASE Clean
  <2>1. \A s \in Slot : Loaded(s)' = Loaded(s)
    BY <1>6 DEF Clean, Loaded, Busy
  <2> QED
    BY <2>1, <1>6, StoreStutters DEF Clean, Pending
<1>7. CASE Remove
  <2>1. \A s \in Slot : Loaded(s)' = Loaded(s)
    BY <1>7 DEF Remove, Loaded, Busy
  <2>2. Pending = {<<key, new>>} /\ Pending' = Pending
    BY <1>7 DEF Remove, Pending
  <2>3. CASE torn' = torn
    BY <2>1, <2>2, <2>3, StoreStutters
  <2>4. CASE torn' = torn \cup {key}
    BY <2>1, <2>2, <2>4, StoreTears
  <2> QED
    BY <1>7, <2>3, <2>4 DEF Remove
<1>8. CASE PutBack
  BY <1>8, PutBackRefines
<1>9. ASSUME NEW s \in Slot, LoadUnreadable(s) PROVE Store!Next
  <2>1. \A t \in Slot : Loaded(t)' = IF t \in {s} THEN NoImage ELSE Loaded(t)
    BY <1>9 DEF LoadUnreadable, Loaded, Busy, saveVars
  <2>2. Pending = {} /\ Pending' = {} /\ torn' = torn
    BY <1>9 DEF LoadUnreadable, Pending, saveVars
  <2> QED
    BY <2>1, <2>2, StoreForgets
<1>10. ASSUME NEW rom \in Rom, DeleteRom(rom) PROVE Store!Next
  <2> DEFINE ofRom == {s \in Slot : s[1] = rom}
  <2>1. \A s \in Slot : Loaded(s)' = IF s \in ofRom THEN NoImage ELSE Loaded(s)
    BY <1>10 DEF DeleteRom, Loaded, Busy, saveVars
  <2>2. Pending = {} /\ Pending' = {} /\ torn' = torn
    BY <1>10 DEF DeleteRom, Pending, saveVars
  <2> QED
    BY <2>1, <2>2, StoreForgets
<1>11. CASE Crash
  BY <1>11, CrashRefines
<1>12. CASE UNCHANGED vars
  <2>1. \A s \in Slot : Loaded(s)' = Loaded(s)
    BY <1>12 DEF vars, saveVars, Loaded, Busy
  <2> QED
    BY <2>1, <1>12, StoreStutters DEF vars, saveVars, Pending
<1> QED
  BY <1>1, <1>2, <1>3, <1>4, <1>5, <1>6, <1>7, <1>8, <1>9, <1>10, <1>11, <1>12
  DEF Next, SaveNext

\* save_save_slot, write_state_file_with_rollback and restore_state_file with all
\* their failures, and a kill between any two steps, implement a store whose
\* saves are atomic, for any roms, slots, images and limits.
THEOREM RefinesSlotStore == Spec => SlotStoreSpec
<1>1. Init => Store!Init
  <2> SUFFICES ASSUME Init PROVE Store!Init
    OBVIOUS
  <2>1. \A s \in Slot : Loaded(s) = NoImage
    BY DEF Init, Loaded
  <2> QED
    BY <2>1 DEF Init, Store!Init, Pending
<1>2. TypeOK /\ IInv /\ UndoneFile /\ [Next]_vars => [Store!Next]_(Store!vars)
  BY StepRefines
<1> QED
  BY <1>1, <1>2, TypeCorrect, Invariance, UndoneFileAlways, PTL
  DEF Spec, SlotStoreSpec, Store!Spec

=============================================================================
