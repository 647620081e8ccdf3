----------------------------- MODULE SaveStore -----------------------------
(***************************************************************************)
(* The save slots of a profile: one row of the SaveState table per slot,   *)
(* and one file per slot that save_save_slot replaces in steps, each of    *)
(* which can fail, and between any two of which the program can be killed. *)
(*                                                                         *)
(* A state of the core is an image; of a row only its size is kept, 0      *)
(* standing for no row.  The temporary file is not modelled: nothing reads *)
(* it before it is renamed.  The database mutex is held from the checks of *)
(* a save to its end, so one save at most is under way.                    *)
(***************************************************************************)
EXTENDS Naturals, FiniteSets

CONSTANTS
    Rom,        \* the roms that are ever in the library
    SlotNo,     \* the slots of a rom
    Image,      \* the states a core can serialize to
    NoImage,    \* stands for no file
    Size,       \* the size of an image
    SlotMax,    \* SaveLimits.slot_max_bytes
    ProfileMax  \* SaveLimits.profile_max_bytes

ASSUME SaveStoreAssumption ==
    /\ NoImage \notin Image
    /\ Size \in [Image -> Nat]
    /\ SlotMax \in Nat
    /\ ProfileMax \in Nat

VARIABLES
    listed,     \* the roms in the Rom table
    row,        \* sizeBytes of each slot's row, 0 when there is none
    file,       \* the image in each slot-<n>.state
    left,       \* the images in backup files nothing refers to any more
    step,       \* what the save under way does next
    key,        \* its slot
    new,        \* its image
    bak,        \* the image in its backup file
    committed,  \* history: what the last save of each slot with a row stored
    torn        \* history: slots whose last save a crash or a failed undo cut short

saveVars == <<step, key, new, bak>>
vars == <<listed, row, file, left, saveVars, committed, torn>>

Slot        == Rom \X SlotNo
ImageOrNone == Image \cup {NoImage}
Steps       == {"idle", "setaside", "write", "place", "commit", "clean", "remove", "putback"}

\* The bytes that the rows claim, each by its slot and its place in it, and how
\* many they are: the sum of the sizes.
Claimed(sizes) == UNION {{s} \X (1..sizes[s]) : s \in Slot}
Used(sizes)    == Cardinality(Claimed(sizes))

Init ==
    /\ listed = Rom
    /\ row = [s \in Slot |-> 0]
    /\ file = [s \in Slot |-> NoImage]
    /\ left = [s \in Slot |-> {}]
    /\ step = "idle" /\ key \in Slot /\ new \in Image /\ bak = NoImage
    /\ committed = [s \in Slot |-> NoImage]
    /\ torn = {}

-----------------------------------------------------------------------------
(* save_save_slot and write_state_file_with_rollback.                        *)

\* Mutant: the old size of the slot is taken off a total that lacks it.
AdmittedTwiceFreed(s, image) ==
    /\ Size[image] \in 1..SlotMax
    /\ Used(row) + Size[image] <= ProfileMax + 2 * row[s]

\* The checks of save_save_slot: no empty state, the slot's limit, the profile's.
\* The query of the total is taken to answer; one that fails counts as 0.
Admitted(s, image) ==
    /\ Size[image] \in 1..SlotMax
    /\ Used(row) + Size[image] <= ProfileMax + row[s]

BeginSave(s, image) ==
    /\ step = "idle"
    /\ Admitted(s, image)
    /\ step' = "setaside" /\ key' = s /\ new' = image /\ bak' = NoImage
    /\ UNCHANGED <<listed, row, file, left, committed, torn>>

\* Mutant: no backup is taken.
SetAsideNothing ==
    /\ step = "setaside"
    /\ step' = "write"
    /\ UNCHANGED <<listed, row, file, left, key, new, bak, committed, torn>>

\* A file that is already there is renamed to a backup.
SetAside ==
    /\ step = "setaside"
    /\ step' = "write"
    /\ bak' = file[key]
    /\ file' = [file EXCEPT ![key] = NoImage]
    /\ UNCHANGED <<listed, row, left, key, new, committed, torn>>

\* The directory cannot be made, or the file not be renamed.
SetAsideFails ==
    /\ step = "setaside"
    /\ step' = "idle"
    /\ UNCHANGED <<listed, row, file, left, key, new, bak, committed, torn>>

WriteTemp ==
    /\ step = "write"
    /\ step' \in {"place", "remove"}
    /\ UNCHANGED <<listed, row, file, left, key, new, bak, committed, torn>>

Place ==
    /\ step = "place"
    /\ \/ step' = "commit" /\ file' = [file EXCEPT ![key] = new]
       \/ step' = "remove" /\ UNCHANGED file
    /\ UNCHANGED <<listed, row, left, key, new, bak, committed, torn>>

\* The transaction updates the row, or inserts one: the foreign key asks for
\* the rom.
Commit ==
    /\ step = "commit"
    /\ key[1] \in listed
    /\ step' = "clean"
    /\ row' = [row EXCEPT ![key] = Size[new]]
    /\ committed' = [committed EXCEPT ![key] = new]
    /\ torn' = torn \ {key}
    /\ UNCHANGED <<listed, file, left, key, new, bak>>

\* Mutant: a failed commit is not undone.
CommitFailsUndone ==
    /\ step = "commit"
    /\ step' = "clean"
    /\ UNCHANGED <<listed, row, file, left, key, new, bak, committed, torn>>

CommitFails ==
    /\ step = "commit"
    /\ step' = "remove"
    /\ UNCHANGED <<listed, row, file, left, key, new, bak, committed, torn>>

\* The image of the backup, when the file stays behind.
LeftBehind == [left EXCEPT ![key] = @ \cup ({bak} \ {NoImage})]

\* The backup is removed; the error of a removal that fails is ignored.
Clean ==
    /\ step = "clean"
    /\ step' = "idle"
    /\ left' \in {left, LeftBehind}
    /\ UNCHANGED <<listed, row, file, key, new, bak, committed, torn>>

\* restore_state_file removes the slot's file, if there is one, and puts the
\* backup back.  It ignores the errors of both.
Remove ==
    /\ step = "remove"
    /\ step' = "putback"
    /\ \/ file' = [file EXCEPT ![key] = NoImage] /\ UNCHANGED torn
       \/ file[key] # NoImage /\ torn' = torn \cup {key} /\ UNCHANGED file
    /\ UNCHANGED <<listed, row, left, key, new, bak, committed>>

PutBack ==
    /\ step = "putback"
    /\ step' = "idle"
    /\ IF bak = NoImage THEN UNCHANGED <<file, left, torn>>
       ELSE \/ file' = [file EXCEPT ![key] = bak] /\ UNCHANGED <<left, torn>>
            \/ left' = LeftBehind /\ torn' = torn \cup {key} /\ UNCHANGED file
    /\ UNCHANGED <<listed, row, key, new, bak, committed>>

-----------------------------------------------------------------------------

\* Mutant: a load does not wait for the save that holds the database.
LoadUnreadableAnytime(s) ==
    /\ row[s] # 0
    /\ row' = [row EXCEPT ![s] = 0]
    /\ committed' = [committed EXCEPT ![s] = NoImage]
    /\ UNCHANGED <<listed, file, left, saveVars, torn>>

\* load_save_slot finds a row whose file it cannot read: the file is missing,
\* or the read fails.  The row is deleted.
LoadUnreadable(s) ==
    /\ step = "idle"
    /\ row[s] # 0
    /\ row' = [row EXCEPT ![s] = 0]
    /\ committed' = [committed EXCEPT ![s] = NoImage]
    /\ UNCHANGED <<listed, file, left, saveVars, torn>>

\* Mutant: the rom is removed, its slots' rows are not.
DeleteRomKeepsRows(rom) ==
    /\ step = "idle"
    /\ rom \in listed
    /\ listed' = listed \ {rom}
    /\ UNCHANGED <<row, file, left, saveVars, committed, torn>>

\* delete_roms of a library job: the foreign key's cascade deletes the rows,
\* the files stay.
DeleteRom(rom) ==
    /\ step = "idle"
    /\ rom \in listed
    /\ listed' = listed \ {rom}
    /\ row' = [s \in Slot |-> IF s[1] = rom THEN 0 ELSE row[s]]
    /\ committed' = [s \in Slot |-> IF s[1] = rom THEN NoImage ELSE committed[s]]
    /\ UNCHANGED <<file, left, saveVars, torn>>

\* The program is killed in the middle of a save and started again: its backup
\* is known to nobody.
Crash ==
    /\ step # "idle"
    /\ step' = "idle"
    /\ left' = LeftBehind
    /\ torn' = IF step \in {"setaside", "clean"} THEN torn ELSE torn \cup {key}
    /\ UNCHANGED <<listed, row, file, key, new, bak, committed>>

SaveNext == \/ \E s \in Slot, image \in Image : BeginSave(s, image)
            \/ SetAside \/ SetAsideFails \/ WriteTemp \/ Place \/ Commit \/ CommitFails
            \/ Clean \/ Remove \/ PutBack

Next == \/ SaveNext
        \/ \E s \in Slot : LoadUnreadable(s)
        \/ \E rom \in Rom : DeleteRom(rom)
        \/ Crash

Spec == Init /\ [][Next]_vars

-----------------------------------------------------------------------------
(* Properties.                                                              *)

TypeOK ==
    /\ listed \in SUBSET Rom
    /\ row \in [Slot -> Nat]
    /\ file \in [Slot -> ImageOrNone]
    /\ left \in [Slot -> SUBSET Image]
    /\ step \in Steps /\ key \in Slot /\ new \in Image /\ bak \in ImageOrNone
    /\ committed \in [Slot -> ImageOrNone]
    /\ torn \in SUBSET Slot

\* The slot a save is under way for.
Busy(s) == step # "idle" /\ key = s

\* A slot that no crash and no failed undo has torn holds what its last
\* successful save stored, and the row tells its size: a save that fails at
\* whatever step leaves the slot as it was.
SlotIntact ==
    \A s \in Slot \ torn : row[s] # 0 /\ ~Busy(s) =>
        file[s] = committed[s] /\ file[s] # NoImage /\ row[s] = Size[file[s]]

\* What a slot's row promises is never destroyed: wherever a save is stopped, a
\* file still has it, the slot's own or a backup.
CommittedSurvives ==
    \A s \in Slot : committed[s] # NoImage =>
        \/ file[s] = committed[s]
        \/ committed[s] \in left[s]
        \/ Busy(s) /\ bak = committed[s]

\* The rows of a profile never claim more than profile_max_bytes, whichever
\* saves replace which.
QuotaHeld == Used(row) <= ProfileMax

\* Only slots of listed roms have a row, also after a rom is removed while its
\* game is being played and saved.
RowsOfListedRoms == \A s \in Slot : row[s] # 0 => s[1] \in listed

\* What loading a slot returns once the save under way is undone: the image in
\* its file or, from where that is set aside, in its backup.
Loaded(s) ==
    IF row[s] = 0 THEN NoImage
    ELSE IF Busy(s) /\ step \notin {"setaside", "clean"} THEN bak
    ELSE file[s]
Pending == IF step \in {"idle", "clean"} THEN {} ELSE {<<key, new>>}
Store   == INSTANCE SlotStore WITH stored <- [s \in Slot |-> Loaded(s)], pending <- Pending

\* Saving is atomic: a save takes effect as a whole, when its row is committed,
\* or not at all; the steps before and after, and those of an undo, are seen by
\* no load, and a kill loses no slot but the one that was being saved.
SlotStoreSpec == Store!Spec

-----------------------------------------------------------------------------
(* The inductive invariant.                                                  *)

\* A row tells the size of what was committed.
RowOfCommitted ==
    \A s \in Slot : IF committed[s] = NoImage THEN row[s] = 0
                    ELSE row[s] = Size[committed[s]] /\ row[s] # 0

\* How far the save under way has come, and where the image it replaces is.
SaveUnderWay ==
    /\ step # "idle" => Size[new] # 0
    /\ step = "setaside" => bak = NoImage
    /\ step = "setaside" /\ key \notin torn /\ committed[key] # NoImage =>
         file[key] = committed[key]
    /\ step \in {"write", "place"} => file[key] = NoImage
    /\ step \in {"commit", "clean"} => file[key] = new
    /\ step = "clean" => committed[key] = new
    /\ step \in {"write", "place", "commit", "remove", "putback"} /\ committed[key] # NoImage =>
         /\ bak = committed[key] \/ committed[key] \in left[key]
         /\ key \notin torn => bak = committed[key]

\* A save that was admitted still fits, until its row is there: nothing else
\* changes the rows while it is under way.
AdmittedFits ==
    /\ IsFiniteSet(Claimed(row))
    /\ QuotaHeld
    /\ step \in {"setaside", "write", "place", "commit"} =>
         Used(row) + Size[new] <= ProfileMax + row[key]

\* What a save that is being undone has in the slot's file is its own image, and
\* once the undo is past it, only if it could not be removed.
UndoneFile ==
    /\ step \in {"remove", "putback"} => file[key] \in {NoImage, new}
    /\ step = "putback" /\ key \notin torn => file[key] = NoImage

IInv == RowOfCommitted /\ SaveUnderWay /\ SlotIntact /\ CommittedSurvives /\ RowsOfListedRoms

=============================================================================
