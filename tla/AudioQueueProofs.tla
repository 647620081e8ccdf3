--------------------------- MODULE AudioQueueProofs ---------------------------
(***************************************************************************)
(* Theorems about AudioQueue: its types, that a session hears only its own *)
(* sound, and that a queue which paces its core stays short, for every     *)
(* latency, batch, ratio and device.                                       *)
(***************************************************************************)
EXTENDS AudioQueue, SequenceTheorems, TLAPS

(***************************************************************************)
(* What the queue and the resampler make of a state with frames of F.      *)
(***************************************************************************)

LEMMA DropFirstLemma ==
    ASSUME NEW F, NEW s \in Seq(F), NEW n \in Nat
    PROVE  /\ DropFirst(s, n) \in Seq(F)
           /\ Len(DropFirst(s, n)) = IF n < Len(s) THEN Len(s) - n ELSE 0
  <1> DEFINE m == Least(n, Len(s)) + 1
  <1>1. Len(s) \in Nat
    BY LenProperties
  <1>2. m \in Nat \ {0} /\ m = IF n < Len(s) THEN n + 1 ELSE Len(s) + 1
    BY <1>1 DEF Least
  <1>3. \A i \in m..Len(s) : s[i] \in F
    BY <1>1, <1>2, ElementOfSeq
  <1>4. /\ SubSeq(s, m, Len(s)) \in Seq(F)
        /\ Len(SubSeq(s, m, Len(s))) = IF m <= Len(s) THEN Len(s) - m + 1 ELSE 0
    <2> HIDE DEF m
    <2> QED BY <1>1, <1>2, <1>3, SubSeqProperties
  <1> QED BY <1>1, <1>2, <1>4 DEF DropFirst

LEMMA BatchLemma ==
    ASSUME NEW F, NEW f \in F, NEW n \in Nat
    PROVE  [i \in 1..n |-> f] \in Seq(F) /\ Len([i \in 1..n |-> f]) = n
  <1>1. [i \in 1..n |-> f] \in [1..n -> F]
    OBVIOUS
  <1>2. [i \in 1..n |-> f] \in Seq(F)
    BY <1>1, SeqDef
  <1> QED BY <1>2, LenProperties

\* A push keeps the frames within F and the queue within its limit.
LEMMA PushedLemma ==
    ASSUME NEW F, NEW p \in Nat, NEW a \in States(F, p), NEW f \in F, NEW n \in Batches,
           Len(a.samples) <= Cap
    PROVE  /\ Pushed(a, f, n) \in States(F, p)
           /\ Len(Pushed(a, f, n).samples) <= Cap
           /\ Len(Pushed(a, f, n).samples) <= Len(a.samples) + n
           /\ Pushed(a, f, n) = [a EXCEPT !.samples = Pushed(a, f, n).samples]
  <1> DEFINE over == Len(a.samples) + n - Cap
             kept == IF over > 0 THEN DropFirst(a.samples, over) ELSE a.samples
             new  == [i \in 1..n |-> f]
  <1>1. n \in Nat /\ Cap \in Nat /\ n <= Cap
    BY AudioAssumption
  <1>2. a.samples \in Seq(F) /\ Len(a.samples) \in Nat
    BY LenProperties DEF States
  <1>3. new \in Seq(F) /\ Len(new) = n
    BY <1>1, BatchLemma
  <1>4. kept \in Seq(F) /\ Len(kept) = IF over > 0 THEN Cap - n ELSE Len(a.samples)
    <2>1. CASE over > 0
      <3>1. over \in Nat
        BY <1>1, <1>2, <2>1
      <3>2. /\ DropFirst(a.samples, over) \in Seq(F)
            /\ Len(DropFirst(a.samples, over))
                 = IF over < Len(a.samples) THEN Len(a.samples) - over ELSE 0
        <4> HIDE DEF over
        <4> QED BY <1>2, <3>1, DropFirstLemma
      <3> QED BY <1>1, <1>2, <2>1, <3>2
    <2>2. CASE ~(over > 0)
      BY <1>1, <1>2, <2>2
    <2> QED BY <2>1, <2>2
  <1>5. kept \o new \in Seq(F) /\ Len(kept \o new) = Len(kept) + n
    <2> HIDE DEF kept, new
    <2> QED BY <1>3, <1>4, ConcatProperties
  <1>6. Pushed(a, f, n) = a \/ Pushed(a, f, n) = [a EXCEPT !.samples = kept \o new]
    BY DEF Pushed
  <1>7. Len(kept \o new) <= Cap /\ Len(kept \o new) <= Len(a.samples) + n
    BY <1>1, <1>2, <1>4, <1>5
  <1> HIDE DEF kept, new
  <1>8. CASE Pushed(a, f, n) = a
    BY <1>1, <1>2, <1>8 DEF States
  <1>9. CASE Pushed(a, f, n) = [a EXCEPT !.samples = kept \o new]
    BY <1>1, <1>2, <1>5, <1>7, <1>9 DEF States
  <1> QED BY <1>6, <1>8, <1>9

\* A trim shortens the queue, never below the latency it aims for.
LEMMA TrimmedLemma ==
    ASSUME NEW F, NEW p \in Nat, NEW a \in States(F, p), Len(a.samples) <= Cap
    PROVE  /\ Trimmed(a) \in States(F, p)
           /\ Len(Trimmed(a).samples) <= Len(a.samples)
  <1> DEFINE keep == IF TrimsToTarget THEN Target ELSE Longest
             cut  == Len(a.samples) - keep
  <1>1. a.samples \in Seq(F) /\ Len(a.samples) \in Nat
    BY LenProperties DEF States
  <1>2. keep \in Nat /\ Longest \in Nat /\ keep <= Longest
    BY AudioAssumption
  <1>3. CASE ~rated \/ Len(a.samples) <= Longest
    BY <1>1, <1>3 DEF Trimmed
  <1>4. CASE ~(~rated \/ Len(a.samples) <= Longest)
    <2>1. cut \in Nat
      BY <1>1, <1>2, <1>4
    <2>2. DropFirst(a.samples, cut) \in Seq(F) /\ Len(DropFirst(a.samples, cut)) <= Len(a.samples)
      <3> HIDE DEF cut
      <3>1. /\ DropFirst(a.samples, cut) \in Seq(F)
            /\ Len(DropFirst(a.samples, cut))
                 = IF cut < Len(a.samples) THEN Len(a.samples) - cut ELSE 0
        BY <1>1, <2>1, DropFirstLemma
      <3> QED BY <1>1, <2>1, <3>1
    <2>3. Trimmed(a) = [Interrupted(a) EXCEPT !.samples = DropFirst(a.samples, cut)]
      BY <1>4 DEF Trimmed, Interrupted, States
    <2>4. p \in Nat /\ 0 \in 0..p
      OBVIOUS
    <2> HIDE DEF cut
    <2> QED BY <2>2, <2>3, <2>4 DEF Interrupted, States
  <1> QED BY <1>3, <1>4

\* What a pop gives is of F when Quiet is, and the queue gets no longer.
LEMMA PopLemma ==
    ASSUME NEW F, Quiet \in F, NEW p \in Nat, NEW a \in States(F, p)
    PROVE  /\ PopFrame(a).frame \in F
           /\ PopFrame(a).state \in States(F, p)
           /\ Len(PopFrame(a).state.samples) <= Len(a.samples)
           /\ PopFrame(a).state.phase = a.phase
           /\ PopFrame(a).state.current = a.current
           /\ PopFrame(a).state.next = a.next
  <1>1. a.samples \in Seq(F) /\ Len(a.samples) \in Nat
    BY LenProperties DEF States
  <1>2. Conceals \in 0..Concealment
    BY AudioAssumption DEF Conceals
  <1>3. CASE a.samples # <<>>
    <2>1. Head(a.samples) \in F /\ Tail(a.samples) \in Seq(F)
          /\ Len(Tail(a.samples)) = Len(a.samples) - 1
      BY <1>1, <1>3, HeadTailProperties
    <2> DEFINE b == [a EXCEPT !.samples = Tail(a.samples),
                              !.last = Head(a.samples), !.left = Conceals]
    <2>2. PopFrame(a) = [frame |-> Head(a.samples), state |-> b]
      BY <1>3 DEF PopFrame
    <2>3. b \in States(F, p)
      BY <1>2, <2>1 DEF States
    <2>4. b.samples = Tail(a.samples) /\ b.phase = a.phase /\ b.current = a.current /\ b.next = a.next
      BY DEF States
    <2> HIDE DEF b
    <2>5. Len(b.samples) <= Len(a.samples)
      BY <1>1, <2>1, <2>4
    <2>6. PopFrame(a).frame = Head(a.samples) /\ PopFrame(a).state = b
      BY ONLY <2>2
    <2> QED BY <2>1, <2>3, <2>4, <2>5, <2>6
  <1>4. CASE a.samples = <<>> /\ Concealing(a)
    <2> DEFINE b == [a EXCEPT !.left = a.left - 1]
    <2>1. PopFrame(a) = [frame |-> a.last, state |-> b]
      BY <1>4 DEF PopFrame
    <2>2. a.left - 1 \in 0..Concealment
      BY <1>4, AudioAssumption DEF Concealing, States
    <2>3. /\ b \in States(F, p) /\ Len(b.samples) <= Len(a.samples)
          /\ b.phase = a.phase /\ b.current = a.current /\ b.next = a.next
      BY <1>1, <2>2 DEF States
    <2>4. a.last \in F
      BY DEF States
    <2> HIDE DEF b
    <2> QED BY <2>1, <2>3, <2>4
  <1>5. CASE a.samples = <<>> /\ ~Concealing(a)
    <2>1. PopFrame(a) = [frame |-> Quiet, state |-> a]
      BY <1>5 DEF PopFrame
    <2> QED BY <1>1, <2>1
  <1> QED BY <1>3, <1>4, <1>5

LEMMA FillLemma ==
    ASSUME NEW F, Quiet \in F, None \notin F, NEW p \in Nat, NEW a \in States(F, p)
    PROVE  /\ FillCurrent(a) \in States(F, p) /\ FillCurrent(a).current \in F
           /\ FillNext(a) \in States(F, p) /\ FillNext(a).next \in F
           /\ FillNext(a).current = a.current
           /\ FillCurrent(a).phase = a.phase /\ FillNext(a).phase = a.phase
           /\ Len(FillCurrent(a).samples) <= Len(a.samples)
           /\ Len(FillNext(a).samples) <= Len(a.samples)
  <1> DEFINE q == PopFrame(a)
  <1>1. a.samples \in Seq(F) /\ Len(a.samples) \in Nat
    BY LenProperties DEF States
  <1>2. /\ q.frame \in F /\ q.state \in States(F, p) /\ Len(q.state.samples) <= Len(a.samples)
        /\ q.state.phase = a.phase /\ q.state.current = a.current /\ q.state.next = a.next
    BY PopLemma
  <1>3. FillCurrent(a) = IF a.current # None THEN a ELSE [q.state EXCEPT !.current = q.frame]
    BY DEF FillCurrent
  <1>4. FillNext(a) = IF a.next # None THEN a ELSE [q.state EXCEPT !.next = q.frame]
    BY DEF FillNext
  <1> HIDE DEF q
  <1> QED BY <1>1, <1>2, <1>3, <1>4 DEF States

\* One turn takes a unit off a phase that has one.
LEMMA AdvanceLemma ==
    ASSUME NEW F, Quiet \in F, None \notin F, NEW p \in Nat, NEW a \in States(F, p),
           a.current \in F, a.next \in F
    PROVE  /\ Advance(a) \in States(F, p)
           /\ Advance(a).current \in F /\ Advance(a).next \in F
           /\ Advance(a).phase = IF a.phase < Unit THEN a.phase ELSE a.phase - Unit
           /\ Len(Advance(a).samples) <= Len(a.samples)
  <1> DEFINE b == [a EXCEPT !.current = a.next, !.next = None, !.phase = a.phase - Unit]
  <1>1. Unit \in Nat \ {0} /\ a.phase \in 0..p /\ Len(a.samples) \in Nat
    BY AudioAssumption, LenProperties DEF States
  <1>2. Advance(a) = IF a.phase < Unit THEN a ELSE FillNext(b)
    BY DEF Advance, States
  <1>3. CASE a.phase < Unit
    BY <1>1, <1>2, <1>3
  <1>4. CASE ~(a.phase < Unit)
    <2>1. a.phase - Unit \in 0..p
      BY <1>1, <1>4
    <2>2. b \in States(F, p) /\ b.current = a.next /\ b.phase = a.phase - Unit
          /\ b.samples = a.samples
      BY <2>1 DEF States
    <2> HIDE DEF b
    <2> QED BY <1>1, <1>2, <1>4, <2>2, FillLemma
  <1> QED BY <1>3, <1>4

\* An output is made of frames of F, and the phase it leaves is below a unit.
LEMMA OutputLemma ==
    ASSUME NEW F, Quiet \in F, None \notin F, NEW a \in States(F, Unit - 1),
           NEW ratio \in Ratios
    PROVE  /\ Output(a, ratio).frames \subseteq F
           /\ Output(a, ratio).state \in States(F, Unit - 1)
           /\ Len(Output(a, ratio).state.samples) <= Len(a.samples)
  <1> DEFINE plain == ratio = Unit /\ a.current = None /\ a.next = None
             still == [a EXCEPT !.phase = 0]
             full  == FillNext(FillCurrent(a))
             moved == [full EXCEPT !.phase = full.phase + ratio]
             top   == 3 * Unit
  <1>1. Unit \in Nat \ {0} /\ ratio \in 1..(2 * Unit) /\ Unit - 1 \in Nat /\ top \in Nat
    BY AudioAssumption
  <1>2. Len(a.samples) \in Nat /\ a.phase \in 0..(Unit - 1)
    BY LenProperties DEF States
  <1>3. CASE plain
    <2>1. still \in States(F, Unit - 1) /\ still.samples = a.samples
      BY <1>1 DEF States
    <2>2. Output(a, ratio) = [frames |-> {PopFrame(still).frame}, state |-> PopFrame(still).state]
      BY <1>3 DEF Output
    <2> HIDE DEF still
    <2> QED BY <1>1, <2>1, <2>2, PopLemma
  <1>4. CASE ~plain
    <2> DEFINE c == FillCurrent(a)
    <2>1. c \in States(F, Unit - 1) /\ c.current \in F /\ c.phase = a.phase
          /\ Len(c.samples) <= Len(a.samples)
      BY <1>1, FillLemma
    <2>2. full \in States(F, Unit - 1) /\ full.next \in F /\ full.current \in F
          /\ full.phase = a.phase /\ Len(full.samples) <= Len(c.samples)
      <3> HIDE DEF c
      <3>1. full = FillNext(c)
        BY DEF c
      <3> HIDE DEF full
      <3> QED BY <1>1, <2>1, <3>1, FillLemma
    <2> HIDE DEF full, c
    <2>3. moved \in States(F, top) /\ moved.next \in F /\ moved.current \in F
          /\ moved.phase = a.phase + ratio /\ moved.samples = full.samples
      <3>1. full.phase + ratio \in 0..top
        BY <1>1, <1>2, <2>2
      <3> HIDE DEF top
      <3> QED BY <2>2, <3>1 DEF States
    <2>4. Output(a, ratio) = [frames |-> {full.current, full.next},
                              state |-> Advance(Advance(moved))]
      BY <1>4, <2>2 DEF Output, full, States
    <2> HIDE DEF moved, top
    <2>5. /\ Advance(moved) \in States(F, top)
          /\ Advance(moved).current \in F /\ Advance(moved).next \in F
          /\ Advance(moved).phase = IF a.phase + ratio < Unit THEN a.phase + ratio
                                    ELSE a.phase + ratio - Unit
          /\ Len(Advance(moved).samples) <= Len(full.samples)
      <3>1. /\ Advance(moved) \in States(F, top)
            /\ Advance(moved).current \in F /\ Advance(moved).next \in F
            /\ Advance(moved).phase = IF moved.phase < Unit THEN moved.phase ELSE moved.phase - Unit
            /\ Len(Advance(moved).samples) <= Len(moved.samples)
        BY <1>1, <2>3, AdvanceLemma
      <3>2. moved.phase = a.phase + ratio /\ moved.samples = full.samples
        BY <2>3
      <3> QED BY <1>1, <1>2, <3>1, <3>2
    <2> DEFINE d == Advance(moved)
               e == Advance(d)
    <2>6. /\ e \in States(F, top)
          /\ e.phase = IF d.phase < Unit THEN d.phase ELSE d.phase - Unit
          /\ Len(e.samples) <= Len(d.samples)
      <3> HIDE DEF d
      <3>1. d \in States(F, top) /\ d.current \in F /\ d.next \in F
        BY <2>5 DEF d
      <3> QED BY <1>1, <3>1, AdvanceLemma
    <2>7. e.phase \in 0..(Unit - 1)
      BY <1>1, <1>2, <2>5, <2>6
    <2>8. e \in States(F, Unit - 1)
      <3> HIDE DEF e
      <3> QED BY <2>6, <2>7 DEF States
    <2>9. Len(e.samples) <= Len(a.samples)
      <3>1. Len(c.samples) \in Nat /\ Len(full.samples) \in Nat /\ Len(d.samples) \in Nat
            /\ Len(e.samples) \in Nat
        <4> HIDE DEF d, e
        <4> QED BY <2>1, <2>2, <2>5, <2>6, LenProperties DEF States, d
      <3> HIDE DEF e
      <3> QED BY <1>2, <2>1, <2>2, <2>5, <2>6, <3>1
    <2> QED BY <2>2, <2>4, <2>8, <2>9
  <1> QED BY <1>3, <1>4

LEMMA FrameFacts ==
    /\ Quiet \in Frame /\ None \notin Frame
    /\ session \in Session => Sound \subseteq Frame /\ Quiet \in Sound /\ None \notin Sound
  BY AudioAssumption DEF Frame, Sound

\* What begins a session anew.
LEMMA ResetLemma ==
    ASSUME NEW F, Quiet \in F, NEW a \in States(F, Unit - 1)
    PROVE  /\ ResetState(a) \in States(F, Unit - 1) /\ ResetState(a).samples = <<>>
           /\ ResetState(a).current = None /\ ResetState(a).next = None
  <1>1. <<>> \in Seq(F) /\ 0 \in 0..(Unit - 1)
    BY AudioAssumption, EmptySeq
  <1> QED BY <1>1 DEF ResetState, Empty, States

LEMMA InterruptedLemma ==
    ASSUME NEW F, NEW a \in States(F, Unit - 1)
    PROVE  Interrupted(a) \in States(F, Unit - 1) /\ Interrupted(a).samples = a.samples
  <1>1. 0 \in 0..(Unit - 1)
    BY AudioAssumption
  <1> QED BY <1>1 DEF Interrupted, States

\* Applying the profile is what makes a loaded state one of the session's own.
LEMMA ProfileLemma ==
    ASSUME NEW F, NEW G, Quiet \in G, NEW a \in States(F, Unit - 1), a.samples \in Seq(G)
    PROVE  ApplyProfile(a) \in States(G, Unit - 1) /\ ApplyProfile(a).samples = a.samples
  <1>1. 0 \in 0..(Unit - 1) /\ 0 \in 0..Concealment
    BY AudioAssumption
  <1> QED BY <1>1 DEF ApplyProfile, States

(***************************************************************************)
(* The invariant.                                                          *)
(***************************************************************************)

THEOREM Initial == Init => IInv
  <1> SUFFICES ASSUME Init PROVE IInv
    OBVIOUS
  <1>1. Empty \in States(Frame, Unit - 1) /\ Len(Empty.samples) = 0
    <2>1. <<>> \in Seq(Frame) /\ Len(<<>>) = 0 /\ 0 \in 0..(Unit - 1) /\ 0 \in 0..Concealment
      BY AudioAssumption, EmptySeq
    <2> QED BY <2>1, FrameFacts DEF Empty, States
  <1>2. 0 <= Cap /\ 0 \in 0..DeviceBuffer
    BY AudioAssumption
  <1>3. TypeOK
    <2>1. state \in States(Frame, Unit - 1) /\ Len(state.samples) <= Cap
      BY <1>1, <1>2 DEF Init
    <2>2. /\ stage = "idle" /\ session = None /\ core \in Core /\ rated = FALSE
          /\ stream = "none" /\ filling = 0 /\ due = 0 /\ heard = {}
      BY DEF Init
    <2>3. filling \in 0..DeviceBuffer /\ due \in 0..2
      BY <1>2, <2>2
    <2> QED BY <2>1, <2>2, <2>3 DEF TypeOK
  <1>4. SoundOfSession /\ StageOfStream /\ DueFits
    BY DEF Init, SoundOfSession, StageOfStream, DueFits
  <1> QED BY <1>3, <1>4 DEF IInv

\* A callback only makes room for what is still due.
LEMMA Shrinking ==
    ASSUME TypeOK, DueFits, Len(state.samples) \in Nat, Len(state'.samples) \in Nat,
           Len(state'.samples) <= Len(state.samples),
           due' = due, PacedByQueue' = PacedByQueue
    PROVE  DueFits'
  <1> SUFFICES ASSUME PacedByQueue, due > 0, NEW b \in Batches
               PROVE  Len(state'.samples) + due * b <= Longest
    BY DEF DueFits
  <1>1. b \in Nat /\ due \in 1..2 /\ Longest \in Nat
    BY AudioAssumption DEF TypeOK
  <1>2. Len(state.samples) + due * b <= Longest
    BY DEF DueFits
  <1>3. due * b \in Nat
    BY <1>1
  <1> DEFINE more == due * b
  <1> HIDE DEF more
  <1>4. Len(state.samples) + more <= Longest /\ more \in Nat
    BY <1>2, <1>3 DEF more
  <1>5. Len(state'.samples) + more <= Longest
    BY <1>1, <1>4
  <1> QED BY <1>5 DEF more

\* Every step keeps the invariant.
THEOREM Invariance == IInv /\ [Next]_vars => IInv'
  <1> SUFFICES ASSUME IInv, [Next]_vars PROVE IInv'
    OBVIOUS
  <1> USE DEF IInv
  <1> DEFINE p == Unit - 1
  <1>0. /\ state \in States(Frame, p) /\ Len(state.samples) <= Cap /\ Len(state.samples) \in Nat
        /\ Quiet \in Frame /\ None \notin Frame /\ p \in Nat /\ 0 <= Cap
    BY FrameFacts, LenProperties, AudioAssumption DEF TypeOK, States
  <1> HIDE DEF p
  <1>1. ASSUME NEW s \in Session, NEW c \in Core, Attempt(s, c) PROVE IInv'
    <2>1. /\ state' \in States(Frame, p) /\ state'.samples = <<>>
          /\ state'.current = None /\ state'.next = None
      BY <1>0, <1>1, ResetLemma DEF Attempt, p
    <2>2. <<>> \in Seq(Sound') /\ Len(state'.samples) = 0
      BY <2>1, EmptySeq
    <2>3. TypeOK'
      BY <1>0, <1>1, <2>1, <2>2 DEF Attempt, TypeOK, p
    <2>4. SoundOfSession'
      BY <1>1, <2>1, <2>2 DEF Attempt, SoundOfSession, StageOfStream, Attempted
    <2>5. StageOfStream' /\ DueFits'
      BY <1>1 DEF Attempt, StageOfStream, DueFits
    <2> QED BY <2>3, <2>4, <2>5
  <1>2. CASE LoadFails
    BY <1>2 DEF LoadFails, TypeOK, SoundOfSession, StageOfStream, DueFits, Sound, PacedByQueue
  <1>3. ASSUME NEW o \in {"noDevice", "failed", "running"}, LoadOk(o) PROVE IInv'
    <2>1. Quiet \in Sound /\ Sound' = Sound /\ state.samples \in Seq(Sound)
      BY <1>3 DEF LoadOk, SoundOfSession, Attempted, Sound
    <2>2. /\ state' \in States(Frame, p) /\ state' \in States(Sound, p)
          /\ state'.samples = state.samples
      <3>1. state.samples \in Seq(Frame)
        BY <1>0 DEF States
      <3> QED BY <1>0, <1>3, <2>1, <3>1, ProfileLemma DEF LoadOk, p
    <2>3. TypeOK'
      BY <1>0, <1>3, <2>2 DEF LoadOk, TypeOK, p
    <2>4. SoundOfSession'
      BY <1>3, <2>1, <2>2 DEF LoadOk, SoundOfSession, p
    <2>5. StageOfStream' /\ DueFits'
      BY <1>3 DEF LoadOk, StageOfStream, DueFits
    <2> QED BY <2>3, <2>4, <2>5
  <1>4. ASSUME NEW f \in Sound, NEW n \in Batches, PushOutsideFrame(f, n) PROVE IInv'
    <2>1. session \in Session /\ due = 0 /\ stage \in {"loading", "stopping"}
      BY <1>4 DEF PushOutsideFrame, StageOfStream
    <2>2. f \in Frame /\ Sound' = Sound /\ session' = session
      BY <1>4, <2>1, FrameFacts DEF PushOutsideFrame, Sound
    <2>3. state' \in States(Frame, p) /\ Len(state'.samples) <= Cap
      BY <1>0, <1>4, <2>2, PushedLemma DEF PushOutsideFrame
    <2>4. TypeOK'
      BY <1>4, <2>3 DEF PushOutsideFrame, TypeOK, p
    <2>5. SoundOfSession'
      <3>1. CASE stage = "loading"
        <4>1. Attempted
          BY <3>1 DEF SoundOfSession
        <4> DEFINE a == [state EXCEPT !.last = Quiet]
        <4>2. a \in States(Sound, p) /\ a.samples = state.samples /\ Quiet \in Sound
          BY <1>0, <4>1 DEF Attempted, States, Sound
        <4>3. Pushed(a, f, n).samples \in Seq(Sound)
          BY <1>0, <4>2, PushedLemma DEF States
        <4>4. Pushed(state, f, n).samples = Pushed(a, f, n).samples
          BY <1>0, <4>2 DEF Pushed, States
        <4>5. Pushed(state, f, n) = [state EXCEPT !.samples = Pushed(state, f, n).samples]
          BY <1>0, <2>2, PushedLemma
        <4>6. state'.samples \in Seq(Sound) /\ state'.current = None /\ state'.next = None
          BY <1>0, <1>4, <4>1, <4>3, <4>4, <4>5 DEF PushOutsideFrame, Attempted, States
        <4> QED BY <1>4, <2>2, <3>1, <4>6 DEF PushOutsideFrame, SoundOfSession, Attempted
      <3>2. CASE stage = "stopping"
        <4>1. Pushed(state, f, n) \in States(Sound, p)
          BY <1>0, <3>2, PushedLemma DEF SoundOfSession, p
        <4> QED BY <1>4, <2>2, <3>2, <4>1 DEF PushOutsideFrame, SoundOfSession, p
      <3> QED BY <2>1, <3>1, <3>2
    <2>6. StageOfStream' /\ DueFits'
      BY <1>4, <2>1 DEF PushOutsideFrame, StageOfStream, DueFits
    <2> QED BY <2>4, <2>5, <2>6
  <1>5. CASE Stop
    BY <1>5 DEF Stop, TypeOK, SoundOfSession, StageOfStream, DueFits, Sound, Unlocked
  <1>6. CASE Unloaded
    <2>1. state' \in States(Frame, p) /\ state'.samples = <<>>
      BY <1>0, <1>6, ResetLemma DEF Unloaded, p
    <2>2. Len(state'.samples) = 0
      BY <2>1, EmptySeq
    <2>3. TypeOK'
      BY <1>0, <1>6, <2>1, <2>2 DEF Unloaded, TypeOK, p
    <2>4. SoundOfSession' /\ StageOfStream' /\ DueFits'
      BY <1>6 DEF Unloaded, SoundOfSession, StageOfStream, DueFits
    <2> QED BY <2>3, <2>4
  <1>7. CASE Tick
    <2>1. TypeOK'
      BY <1>7 DEF Tick, TypeOK, FramesToRun, Unlocked
    <2>2. SoundOfSession' /\ StageOfStream'
      BY <1>7 DEF Tick, SoundOfSession, StageOfStream, Sound, Attempted
    <2>3. DueFits'
      <3> SUFFICES ASSUME PacedByQueue, due' > 0, NEW b \in Batches
                   PROVE  Len(state.samples) + due' * b <= Longest
        BY <1>7 DEF Tick, DueFits, PacedByQueue
      <3> DEFINE level == Len(state.samples)
      <3>1. due' = FramesToRun(level)
        BY <1>7 DEF Tick
      <3>2. level \in 0..Cap /\ Target \in Nat /\ Cap \in Nat /\ b \in Nat
        BY <1>0, AudioAssumption
      <3>3. /\ 4 * level < 5 * Target => level + b <= Longest
            /\ 20 * level <= 17 * Target => level + 2 * b <= Longest
        BY <3>2, BatchesFit
      <3> HIDE DEF level
      <3>4. CASE due' = 2
        <4>1. 20 * level <= 17 * Target
          BY <3>1, <3>2, <3>4 DEF FramesToRun
        <4> QED BY <3>3, <3>4, <4>1 DEF level
      <3>5. CASE due' = 1
        <4>1. 4 * level < 5 * Target
          BY <3>1, <3>2, <3>5 DEF FramesToRun
        <4>2. due' * b = b
          BY <3>2, <3>5
        <4> QED BY <3>3, <4>1, <4>2 DEF level
      <3> QED BY <3>1, <3>4, <3>5 DEF FramesToRun
    <2> QED BY <2>1, <2>2, <2>3
  <1>8. ASSUME NEW f \in Sound, NEW n \in Batches, RunFrame(f, n) PROVE IInv'
    <2>1. session \in Session /\ stage = "playing" /\ due \in 1..2 /\ n \in Nat
      BY <1>8, AudioAssumption DEF RunFrame, StageOfStream, TypeOK
    <2>2. f \in Frame /\ Quiet \in Sound /\ Sound' = Sound
      BY <1>8, <2>1, FrameFacts DEF RunFrame, Sound
    <2>3. /\ state' \in States(Frame, p) /\ Len(state'.samples) <= Cap
          /\ Len(state'.samples) <= Len(state.samples) + n
      BY <1>0, <1>8, <2>2, PushedLemma DEF RunFrame
    <2>4. TypeOK'
      BY <1>8, <2>1, <2>3 DEF RunFrame, TypeOK, p
    <2>5. SoundOfSession'
      <3>1. Pushed(state, f, n) \in States(Sound, p)
        BY <1>0, <2>1, PushedLemma DEF SoundOfSession, p
      <3> QED BY <1>8, <2>1, <2>2, <3>1 DEF RunFrame, SoundOfSession, p
    <2>6. StageOfStream'
      BY <1>8, <2>1 DEF RunFrame, StageOfStream
    <2>7. DueFits'
      <3> SUFFICES ASSUME PacedByQueue, due' > 0, NEW b \in Batches
                   PROVE  Len(state'.samples) + due' * b <= Longest
        BY <1>8 DEF RunFrame, DueFits, PacedByQueue
      <3>1. due = 2 /\ due' = 1
        BY <1>8, <2>1 DEF RunFrame
      <3>2. b \in Nat /\ Longest \in Nat /\ Len(state'.samples) \in Nat
        BY <2>3, AudioAssumption, LenProperties DEF States
      <3>3. /\ Len(state.samples) + 2 * n <= Longest
            /\ Len(state.samples) + 2 * b <= Longest
        BY <1>8, <3>1 DEF DueFits
      <3> DEFINE l == Len(state.samples)
                 m == Len(state'.samples)
      <3>4. l \in Nat /\ m \in Nat /\ m <= l + n /\ l + 2 * n <= Longest /\ l + 2 * b <= Longest
        BY <1>0, <2>3, <3>2, <3>3
      <3> HIDE DEF l, m
      <3>5. m + b <= Longest
        BY <2>1, <3>2, <3>4
      <3>6. due' * b = b
        BY <3>1, <3>2
      <3> QED BY <3>5, <3>6 DEF m
    <2> QED BY <2>4, <2>5, <2>6, <2>7
  <1>9. CASE ChangeRate
    <2>1. stage = "playing" /\ Sound' = Sound
      BY <1>9 DEF ChangeRate, StageOfStream, TypeOK, Sound
    <2>2. /\ state' \in States(Frame, p) /\ state' \in States(Sound, p)
          /\ state'.samples = state.samples
      BY <1>0, <1>9, <2>1, InterruptedLemma DEF ChangeRate, SoundOfSession, p
    <2> QED BY <1>0, <1>9, <2>1, <2>2
            DEF ChangeRate, TypeOK, SoundOfSession, StageOfStream, DueFits, PacedByQueue, p
  <1>10. CASE BeginCallback
    <2>1. stage = "playing" /\ Sound' = Sound
      BY <1>10 DEF BeginCallback, StageOfStream, Sound
    <2>2. /\ state' \in States(Frame, p) /\ state' \in States(Sound, p)
          /\ Len(state'.samples) <= Len(state.samples)
      BY <1>0, <1>10, <2>1, TrimmedLemma DEF BeginCallback, SoundOfSession, p
    <2>3. Len(state'.samples) \in Nat
      BY <2>2, LenProperties DEF States
    <2>4. TypeOK'
      BY <1>0, <1>10, <2>2, <2>3, AudioAssumption DEF BeginCallback, TypeOK, p
    <2>5. SoundOfSession' /\ StageOfStream'
      BY <1>10, <2>1, <2>2 DEF BeginCallback, SoundOfSession, StageOfStream, p
    <2>6. DueFits'
      BY <1>0, <1>10, <2>2, <2>3, Shrinking DEF BeginCallback, PacedByQueue
    <2> QED BY <2>4, <2>5, <2>6
  <1>11. ASSUME NEW ratio \in Ratios, WriteFrame(ratio) PROVE IInv'
    <2>1. stage = "playing" /\ Sound' = Sound /\ session \in Session /\ filling \in Nat
      BY <1>11 DEF WriteFrame, StageOfStream, Sound, TypeOK
    <2>2. Quiet \in Sound /\ None \notin Sound /\ Sound \subseteq Frame
      BY <2>1, FrameFacts
    <2>3. state' \in States(Frame, p) /\ Len(state'.samples) <= Len(state.samples)
      BY <1>0, <1>11, OutputLemma DEF WriteFrame, p
    <2>4. state' \in States(Sound, p) /\ heard' \subseteq Sound
      BY <1>11, <2>1, <2>2, OutputLemma DEF WriteFrame, SoundOfSession, p
    <2>5. Len(state'.samples) \in Nat
      BY <2>3, LenProperties DEF States
    <2>6. TypeOK'
      BY <1>0, <1>11, <2>2, <2>3, <2>4, <2>5, AudioAssumption DEF WriteFrame, TypeOK, p
    <2>7. SoundOfSession' /\ StageOfStream'
      BY <1>11, <2>1, <2>4 DEF WriteFrame, SoundOfSession, StageOfStream, p
    <2>8. DueFits'
      BY <1>0, <1>11, <2>3, <2>5, Shrinking DEF WriteFrame, PacedByQueue
    <2> QED BY <2>6, <2>7, <2>8
  <1>12. CASE StreamDies
    <2>1. stage = "playing"
      BY <1>12 DEF StreamDies, StageOfStream
    <2> QED BY <1>12, <2>1 DEF StreamDies, TypeOK, SoundOfSession, StageOfStream, DueFits, Sound, PacedByQueue
  <1>13. CASE UNCHANGED vars
    BY <1>13 DEF vars, TypeOK, SoundOfSession, StageOfStream, DueFits, Sound, Attempted, PacedByQueue
  <1> QED
    BY <1>1, <1>2, <1>3, <1>4, <1>5, <1>6, <1>7, <1>8, <1>9, <1>10, <1>11, <1>12, <1>13
    DEF Next, PlayFrame, Callback

THEOREM Invariant == Spec => []IInv
  BY Initial, Invariance, PTL DEF Spec

\* The types hold; the queue never grows past its limit.
THEOREM TypeCorrect == Spec => []TypeOK
  <1>1. IInv => TypeOK
    BY DEF IInv
  <1> QED BY <1>1, Invariant, PTL

\* A session hears the sound that it has produced, and none of another.
THEOREM HearsItself == Spec => []HeardFromThisSession
  <1>1. IInv => HeardFromThisSession
    BY DEF IInv, SoundOfSession, HeardFromThisSession
  <1> QED BY <1>1, Invariant, PTL

\* A queue that paces its core never leaves the latency it is within.
THEOREM StaysShort == Spec => TrimIsForEmergencies
  <1> DEFINE Short == PacedByQueue /\ stage = "playing" /\ Len(state.samples) <= Longest
                      => Len(state'.samples) <= Longest
  <1>1. ASSUME IInv, [Next]_vars PROVE [Short]_vars
    <2> SUFFICES ASSUME Next, PacedByQueue, stage = "playing", Len(state.samples) <= Longest
                 PROVE  Len(state'.samples) <= Longest
      BY <1>1
    <2>1. /\ state \in States(Frame, Unit - 1) /\ Len(state.samples) <= Cap
          /\ Quiet \in Frame /\ None \notin Frame /\ Unit - 1 \in Nat /\ Longest \in Nat
          /\ Len(state.samples) \in Nat
      BY <1>1, FrameFacts, AudioAssumption, LenProperties DEF IInv, TypeOK, States
    <2>2. Len(state'.samples) \in Nat
      <3>1. IInv'
        BY <1>1, Invariance
      <3> QED BY <3>1, LenProperties DEF IInv, TypeOK, States
    <2>3. ASSUME NEW f \in Sound, NEW n \in Batches, RunFrame(f, n)
          PROVE  Len(state'.samples) <= Longest
      <3>1. due \in 1..2 /\ session \in Session /\ n \in Nat
        BY <1>1, <2>3, AudioAssumption DEF RunFrame, IInv, TypeOK, StageOfStream
      <3>2. Len(state'.samples) <= Len(state.samples) + n
        BY <2>1, <2>3, <3>1, FrameFacts, PushedLemma DEF RunFrame
      <3>3. Len(state.samples) + due * n <= Longest
        <4>1. due > 0
          BY <3>1
        <4> QED BY <1>1, <4>1 DEF IInv, DueFits
      <3>4. n <= due * n /\ due * n \in Nat
        <4>1. CASE due = 1
          BY <3>1, <4>1
        <4>2. CASE due = 2
          BY <3>1, <4>2
        <4> QED BY <3>1, <4>1, <4>2
      <3> DEFINE more == due * n
                 l == Len(state.samples)
                 m == Len(state'.samples)
      <3>5. l \in Nat /\ m \in Nat /\ more \in Nat /\ m <= l + n /\ l + more <= Longest /\ n <= more
        BY <2>1, <2>2, <3>2, <3>3, <3>4
      <3> HIDE DEF more, l, m
      <3>6. m <= Longest
        BY <2>1, <3>1, <3>5
      <3> QED BY <3>6 DEF m
    <2>4. CASE ChangeRate
      BY <2>1, <2>4, InterruptedLemma DEF ChangeRate
    <2>5. CASE BeginCallback
      BY <2>1, <2>2, <2>5, TrimmedLemma DEF BeginCallback
    <2>6. ASSUME NEW ratio \in Ratios, WriteFrame(ratio) PROVE Len(state'.samples) <= Longest
      BY <2>1, <2>2, <2>6, OutputLemma DEF WriteFrame
    <2>7. CASE Stop \/ Tick \/ StreamDies
      BY <2>7 DEF Stop, Tick, StreamDies
    <2> QED
      BY <2>3, <2>4, <2>5, <2>6, <2>7
      DEF Next, PlayFrame, Callback, Attempt, LoadFails, LoadOk, PushOutsideFrame, Unloaded
  <1> QED BY <1>1, Invariant, PTL DEF Spec, TrimIsForEmergencies
===============================================================================
