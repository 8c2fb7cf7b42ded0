------------------------ MODULE WriterReader_proofs ------------------------
(***************************************************************************)
(* Proofs about lab_03/writer_reader.c, for any number of children and any *)
(* length of the alphabet: the counters count, a writer is alone, and the  *)
(* shared letter implements the abstract register.                         *)
(***************************************************************************)
EXTENDS WriterReader, FiniteSetTheorems, TLAPS

-----------------------------------------------------------------------------
(* The skeleton, as in LetterBuffer_proofs. *)

\* What FamilyInv needs to know of pc: it maps children to labels.
PcOK(Labels) == LoopPcs \subseteq Labels /\ pc \in [Child -> Labels]

\* Sets of children are finite, and count as one expects.
LEMMA Counting ==
  ASSUME NEW S \in SUBSET Child, NEW c \in Child
  PROVE  /\ Cardinality(S) \in Nat /\ (Cardinality(S) = 0 <=> S = {})
         /\ c \notin S => Cardinality(S \cup {c}) = Cardinality(S) + 1
         /\ c \in S => Cardinality(S \ {c}) = Cardinality(S) - 1
<1>1. IsFiniteSet(Child)
  BY FamilyAssumption, FS_Interval DEF Child
<1>2. IsFiniteSet(S)
  BY <1>1, FS_Subset
<1> QED
  BY <1>2, FS_CardinalityType, FS_EmptySet, FS_AddElement, FS_RemoveElement

\* The initial state satisfies the family's invariant.
LEMMA FamilyInitially ==
  ASSUME FamilyInit
  PROVE  FamilyTypeOK /\ FamilyInv
<1>1. \A c \in Child : c >= 0
  BY FamilyAssumption DEF Child
<1> QED
  BY <1>1, FamilyAssumption
     DEF FamilyInit, FamilyTypeOK, FamilyInv, Ready, MainPc, Life

\* The end of a child keeps the family's invariant, and does not move its pc
\* out of its critical section.
LEMMA ChildEnds ==
  ASSUME NEW Labels, PcOK(Labels), FamilyTypeOK, FamilyInv,
         NEW c \in Child, Alive(c), End(c)
  PROVE  FamilyTypeOK' /\ FamilyInv' /\ PcOK(Labels)'
<1>1. /\ life' = [life EXCEPT ![c] = "zombie"]
      /\ life[c] = "alive"
      /\ UNCHANGED <<main, forked, mainFlag, ipc>>
      /\ flag' = [flag EXCEPT ![c] = FALSE]
      /\ pc' = [pc EXCEPT ![c] = IF @ \in LoopPcs THEN "gone" ELSE @]
  BY DEF End, Alive
<1>2. FamilyTypeOK'
  BY <1>1 DEF FamilyTypeOK, Life
<1>3. PcOK(Labels)'
  BY <1>1 DEF PcOK, LoopPcs
<1>4. \A d \in Child : life'[d] = IF d = c THEN "zombie" ELSE life[d]
  BY <1>1 DEF FamilyTypeOK
<1>5. \A d \in Child : d # c => pc'[d] = pc[d]
  BY <1>1 DEF PcOK
<1>6. FamilyInv'
  BY <1>1, <1>4, <1>5 DEF FamilyInv, Ready
<1> QED
  BY <1>2, <1>3, <1>6

\* A living child may move to another label, whatever else it does outside
\* the family's variables; it was forked after the objects were ready.
LEMMA ChildMoves ==
  ASSUME NEW Labels, PcOK(Labels), FamilyTypeOK, FamilyInv,
         NEW c \in Child, NEW from, NEW l \in Labels, Move(c, from, l)
  PROVE  /\ FamilyTypeOK' /\ FamilyInv' /\ PcOK(Labels)'
         /\ Ready /\ Ready'
         /\ pc[c] \in from /\ pc'[c] = l
         /\ \A d \in Child : d # c => pc'[d] = pc[d]
<1>1. /\ Alive(c) /\ Goto(c, l) /\ pc[c] \in from
      /\ UNCHANGED <<main, forked, mainFlag, flag, life, ipc>>
  BY DEF Move
<1>2. /\ PcOK(Labels)' /\ pc'[c] = l
      /\ \A d \in Child : d # c => pc'[d] = pc[d]
  BY <1>1 DEF PcOK, Goto
<1>3. Ready
  <2>1. c >= 0
    BY DEF Child
  <2> QED
    BY <1>1, <2>1 DEF FamilyInv, Alive
<1> QED
  BY <1>1, <1>2, <1>3 DEF FamilyTypeOK, FamilyInv, Ready, Alive

\* So does a SIGINT, whose handler only clears the flag.
LEMMA ChildSignalled ==
  ASSUME NEW Labels, PcOK(Labels), FamilyTypeOK, FamilyInv,
         NEW c \in Child, NEW asleep, Sigint(c, asleep)
  PROVE  FamilyTypeOK' /\ FamilyInv' /\ PcOK(Labels)'
BY DEF Sigint, PcOK, FamilyTypeOK, FamilyInv, Ready

\* A step of the parent.
ParentStep ==
  \/ SetupSucceeds
  \/ \E created \in SUBSET IpcObjects : SetupFails(created)
  \/ Fork \/ ForkFails
  \/ \E c \in Child : Reap(c)
  \/ WaitInterrupted \/ NoMoreChildren \/ SigintParent
  \/ \E x \in IpcObjects : Remove(x)

\* Every step of the parent keeps the family's invariant and leaves the
\* children where they are.
LEMMA ParentMoves ==
  ASSUME NEW Labels, PcOK(Labels), FamilyTypeOK, FamilyInv, ParentStep
  PROVE  FamilyTypeOK' /\ FamilyInv' /\ PcOK(Labels)' /\ pc' = pc
<1>1. CASE SetupSucceeds
  BY <1>1, FamilyAssumption
     DEF SetupSucceeds, FamilyTypeOK, FamilyInv, Ready, MainPc, PcOK
<1>2. CASE \E created \in SUBSET IpcObjects : SetupFails(created)
  BY <1>2 DEF SetupFails, FamilyTypeOK, FamilyInv, Ready, MainPc, PcOK
<1>3. CASE Fork
  <2>1. /\ forked \in Child
        /\ forked' = forked + 1
        /\ \A c \in Child : c \in Nat
    BY <1>3, FamilyAssumption DEF Fork, FamilyInv, FamilyTypeOK, Child
  <2>2. FamilyTypeOK'
    BY <1>3, <2>1, FamilyAssumption DEF Fork, FamilyInv, FamilyTypeOK, Life, MainPc, Child
  <2>3. \A c \in Child : life'[c] = IF c = forked THEN "alive" ELSE life[c]
    BY <1>3, <2>1 DEF Fork, FamilyTypeOK
  <2>4. forked \in Nat /\ ChildCount \in Nat
    BY FamilyAssumption DEF FamilyTypeOK
  <2>5. (main' = "fork" => forked' < ChildCount) /\ main' \in {"fork", "wait"}
    BY <1>3, <2>1, <2>4 DEF Fork, FamilyInv
  <2>6. \A c \in Child : (life'[c] = "unborn") <=> (c >= forked')
    BY <2>1, <2>3, <2>4 DEF FamilyInv
  <2>7. pc' = pc /\ ipc' = ipc /\ main = "fork"
    BY <1>3 DEF Fork
  <2> QED
    BY <2>2, <2>3, <2>5, <2>6, <2>7 DEF FamilyInv, Ready, PcOK
<1>4. CASE ForkFails
  BY <1>4 DEF ForkFails, FamilyTypeOK, FamilyInv, Ready, MainPc, PcOK
<1>5. CASE \E c \in Child : Reap(c)
  <2>1. PICK c \in Child : Reap(c)
    BY <1>5
  <2>2. \A d \in Child : life'[d] = IF d = c THEN "reaped" ELSE life[d]
    BY <2>1 DEF Reap, FamilyTypeOK
  <2> QED
    BY <2>1, <2>2 DEF Reap, FamilyTypeOK, FamilyInv, Ready, Life, PcOK
<1>6. CASE WaitInterrupted \/ SigintParent
  BY <1>6 DEF WaitInterrupted, SigintParent, FamilyTypeOK, FamilyInv, Ready, PcOK
<1>7. CASE NoMoreChildren
  BY <1>7 DEF NoMoreChildren, FamilyTypeOK, FamilyInv, Ready, MainPc, PcOK
<1>8. CASE \E x \in IpcObjects : Remove(x)
  BY <1>8 DEF Remove, FamilyTypeOK, FamilyInv, Ready, MainPc, PcOK
<1> QED
  BY <1>1, <1>2, <1>3, <1>4, <1>5, <1>6, <1>7, <1>8 DEF ParentStep
-----------------------------------------------------------------------------
(* The invariant. *)

USE DEF WRITE_QUEUE, READ_QUEUE, ACTIVE_WRITER, ACTIVE_READERS

Labels == LoopPcs \cup ReaderPcs \cup WriterPcs

Inside(c) == Reading(c) \/ Writing(c)
ReadersIn == {c \in Child : Reading(c)}
WritersIn == {c \in Child : Writing(c)}

\* The queue counters are back at 0 after every call.
QueuesEmpty == sem[WRITE_QUEUE] = 0 /\ sem[READ_QUEUE] = 0

\* The letter is one past the alphabet only between the increment and the
\* wrap-around, and it is 'a' until main() has set it.
LetterInv ==
  /\ var = LETTERS => \E c \in Child : pc[c] = "wrap"
  /\ \A c \in Child : pc[c] = "wrap" => var > 0
  /\ ~Ready => var = 0

IInv ==
  TypeOK /\ FamilyInv /\ WriterExcludesAll /\ CountersCount /\ QueuesEmpty /\ LetterInv
-----------------------------------------------------------------------------
(* What the semaphore calls do. *)

\* One operation that can be applied.
LEMMA ApplyOne ==
  ASSUME NEW s \in [0 .. 3 -> Nat], NEW n \in 0 .. 3, NEW o \in Int, s[n] + o >= 0
  PROVE  /\ Apply(s, sembuf(n, o)) \in [0 .. 3 -> Nat]
         /\ \A k \in 0 .. 3 :
              Apply(s, sembuf(n, o))[k] = IF k = n THEN s[n] + o ELSE s[k]
BY DEF Apply, sembuf

\* With empty queues start_read passes when no writer is active, and counts
\* one reader more.
LEMMA StartReadDoes ==
  ASSUME NEW s \in [0 .. 3 -> Nat], s[0] = 0, s[1] = 0
  PROVE  /\ CanSemop5(s, start_read) <=> s[2] = 0
         /\ CanSemop5(s, start_read) =>
              /\ Semop5(s, start_read) \in [0 .. 3 -> Nat]
              /\ \A k \in 0 .. 3 :
                   Semop5(s, start_read)[k] = IF k = 3 THEN s[3] + 1 ELSE s[k]
<1>1. /\ start_read[1] = sembuf(1, 1) /\ start_read[2] = sembuf(0, 0)
      /\ start_read[3] = sembuf(2, 0) /\ start_read[4] = sembuf(3, 1)
      /\ start_read[5] = sembuf(1, -1)
  BY DEF start_read, P, V
<1> DEFINE s1 == Apply(s, sembuf(1, 1))
           s2 == Apply(s1, sembuf(0, 0))
           s3 == Apply(s2, sembuf(2, 0))
           s4 == Apply(s3, sembuf(3, 1))
           s5 == Apply(s4, sembuf(1, -1))
<1>2. s1 \in [0 .. 3 -> Nat] /\ s1[0] = 0 /\ s1[1] = 1 /\ s1[2] = s[2] /\ s1[3] = s[3]
  BY ApplyOne
<1>3. s2 \in [0 .. 3 -> Nat] /\ s2[0] = 0 /\ s2[1] = 1 /\ s2[2] = s[2] /\ s2[3] = s[3]
  <2> HIDE DEF s1
  <2> QED
    BY <1>2, ApplyOne
<1>4. s3 \in [0 .. 3 -> Nat] /\ s3[0] = 0 /\ s3[1] = 1 /\ s3[2] = s[2] /\ s3[3] = s[3]
  <2> HIDE DEF s2
  <2> QED
    BY <1>3, ApplyOne
<1>5. s4 \in [0 .. 3 -> Nat] /\ s4[0] = 0 /\ s4[1] = 1 /\ s4[2] = s[2] /\ s4[3] = s[3] + 1
  <2> HIDE DEF s3
  <2> QED
    BY <1>4, ApplyOne
<1>6. s5 \in [0 .. 3 -> Nat] /\ s5[0] = 0 /\ s5[1] = 0 /\ s5[2] = s[2] /\ s5[3] = s[3] + 1
  <2> HIDE DEF s4
  <2> QED
    BY <1>5, ApplyOne
<1>7. Semop5(s, start_read) = s5
  BY <1>1 DEF Semop5, Semop2
<1>8. CanSemop5(s, start_read) <=>
        /\ Passes(s, sembuf(1, 1)) /\ Passes(s1, sembuf(0, 0)) /\ Passes(s2, sembuf(2, 0))
        /\ Passes(s3, sembuf(3, 1)) /\ Passes(s4, sembuf(1, -1))
  BY <1>1 DEF CanSemop5, CanSemop2, Semop2
<1> HIDE DEF s1, s2, s3, s4, s5
<1>9. CanSemop5(s, start_read) <=> s[2] = 0
  BY <1>2, <1>3, <1>4, <1>5, <1>8 DEF Passes, sembuf
<1> QED
  BY <1>6, <1>7, <1>9

\* start_write passes when nobody is active, and counts one writer more.
LEMMA StartWriteDoes ==
  ASSUME NEW s \in [0 .. 3 -> Nat], s[0] = 0, s[1] = 0
  PROVE  /\ CanSemop5(s, start_write) <=> s[2] = 0 /\ s[3] = 0
         /\ CanSemop5(s, start_write) =>
              /\ Semop5(s, start_write) \in [0 .. 3 -> Nat]
              /\ \A k \in 0 .. 3 :
                   Semop5(s, start_write)[k] = IF k = 2 THEN s[2] + 1 ELSE s[k]
<1>1. /\ start_write[1] = sembuf(0, 1) /\ start_write[2] = sembuf(2, 0)
      /\ start_write[3] = sembuf(3, 0) /\ start_write[4] = sembuf(2, 1)
      /\ start_write[5] = sembuf(0, -1)
  BY DEF start_write, P, V
<1> DEFINE s1 == Apply(s, sembuf(0, 1))
           s2 == Apply(s1, sembuf(2, 0))
           s3 == Apply(s2, sembuf(3, 0))
           s4 == Apply(s3, sembuf(2, 1))
           s5 == Apply(s4, sembuf(0, -1))
<1>2. s1 \in [0 .. 3 -> Nat] /\ s1[0] = 1 /\ s1[1] = 0 /\ s1[2] = s[2] /\ s1[3] = s[3]
  BY ApplyOne
<1>3. s2 \in [0 .. 3 -> Nat] /\ s2[0] = 1 /\ s2[1] = 0 /\ s2[2] = s[2] /\ s2[3] = s[3]
  <2> HIDE DEF s1
  <2> QED
    BY <1>2, ApplyOne
<1>4. s3 \in [0 .. 3 -> Nat] /\ s3[0] = 1 /\ s3[1] = 0 /\ s3[2] = s[2] /\ s3[3] = s[3]
  <2> HIDE DEF s2
  <2> QED
    BY <1>3, ApplyOne
<1>5. s4 \in [0 .. 3 -> Nat] /\ s4[0] = 1 /\ s4[1] = 0 /\ s4[2] = s[2] + 1 /\ s4[3] = s[3]
  <2> HIDE DEF s3
  <2> QED
    BY <1>4, ApplyOne
<1>6. s5 \in [0 .. 3 -> Nat] /\ s5[0] = 0 /\ s5[1] = 0 /\ s5[2] = s[2] + 1 /\ s5[3] = s[3]
  <2> HIDE DEF s4
  <2> QED
    BY <1>5, ApplyOne
<1>7. Semop5(s, start_write) = s5
  BY <1>1 DEF Semop5, Semop2
<1>8. CanSemop5(s, start_write) <=>
        /\ Passes(s, sembuf(0, 1)) /\ Passes(s1, sembuf(2, 0)) /\ Passes(s2, sembuf(3, 0))
        /\ Passes(s3, sembuf(2, 1)) /\ Passes(s4, sembuf(0, -1))
  BY <1>1 DEF CanSemop5, CanSemop2, Semop2
<1> HIDE DEF s1, s2, s3, s4, s5
<1>9. CanSemop5(s, start_write) <=> s[2] = 0 /\ s[3] = 0
  BY <1>2, <1>3, <1>4, <1>5, <1>8 DEF Passes, sembuf
<1> QED
  BY <1>6, <1>7, <1>9

\* Each of the closing calls takes one from its counter.
LEMMA EndDoes ==
  ASSUME NEW s \in [0 .. 3 -> Nat], NEW n \in {2, 3}, NEW ops,
         ops = <<sembuf(n, P)>>, CanSemop1(s, ops)
  PROVE  /\ Semop1(s, ops) \in [0 .. 3 -> Nat]
         /\ \A k \in 0 .. 3 : Semop1(s, ops)[k] = IF k = n THEN s[n] - 1 ELSE s[k]
<1>1. ops[1] = sembuf(n, -1) /\ s[n] + (-1) >= 0
  BY DEF CanSemop1, Passes, sembuf, P
<1> QED
  BY <1>1, ApplyOne DEF Semop1
-----------------------------------------------------------------------------
(* Counting children. *)

\* What CountersCount says, in terms of the two sets.
LEMMA CountersAreSets ==
  CountersCount <=> sem[3] = Cardinality(ReadersIn) /\ sem[2] = Cardinality(WritersIn)
BY DEF CountersCount, ReadersIn, WritersIn

\* The places of a child, spelled out.
LEMMA LabelsDisjoint ==
  /\ LoopPcs = {"alarm", "while", "semop", "sleep", "gone"}
  /\ ReaderPcs = {"get", "end_read"}
  /\ WriterPcs = {"inc", "wrap", "put", "end_write"}
BY DEF LoopPcs, ReaderPcs, WriterPcs

\* Before the semaphores are ready nobody is inside.
LEMMA NobodyBeforeReady ==
  ASSUME FamilyInv, NEW c \in Child, Inside(c)
  PROVE  Ready
<1>1. c >= 0
  BY DEF Child
<1> QED
  BY <1>1, LabelsDisjoint DEF FamilyInv, Inside, Reading, Writing
-----------------------------------------------------------------------------
(* The steps. *)

\* A step that touches neither the semaphores nor the letter, and brings no
\* child in or out.
LEMMA Untouched ==
  ASSUME IInv, FamilyTypeOK', FamilyInv', PcOK(Labels)', UNCHANGED <<sem, letters>>,
         Ready => Ready',
         \A c \in Child : Inside(c) \/ Inside(c)' => pc'[c] = pc[c]
  PROVE  IInv'
<1>1. \A c \in Child : (Reading(c)' <=> Reading(c)) /\ (Writing(c)' <=> Writing(c))
  BY DEF Inside, Reading, Writing
<1>2. TypeOK'
  BY DEF IInv, TypeOK, PcOK, Labels, letters
<1>3. ReadersIn' = ReadersIn /\ WritersIn' = WritersIn
  BY <1>1 DEF ReadersIn, WritersIn
<1>4. CountersCount'
  BY <1>3, CountersAreSets, sem' = sem DEF IInv, CountersCount, ReadersIn, WritersIn
<1>5. WriterExcludesAll'
  BY <1>1 DEF IInv, WriterExcludesAll
<1>6. \A c \in Child : pc'[c] = "wrap" <=> pc[c] = "wrap"
  BY LabelsDisjoint DEF Inside, Writing
<1>7. LetterInv' /\ QueuesEmpty'
  BY <1>6 DEF IInv, LetterInv, QueuesEmpty, letters
<1> QED
  BY <1>2, <1>4, <1>5, <1>7 DEF IInv

\* The parent.
LEMMA MainKeepsIInv ==
  ASSUME IInv, Main
  PROVE  IInv'
<1>1. PcOK(Labels) /\ FamilyTypeOK /\ FamilyInv
  BY DEF IInv, TypeOK, PcOK, Labels
<1>2. CASE Setup
  <2>1. FamilyTypeOK' /\ FamilyInv' /\ PcOK(Labels)' /\ pc' = pc /\ ~Ready /\ Ready'
    BY <1>1, <1>2, ParentMoves DEF Setup, ParentStep, SetupSucceeds, Ready
  <2>2. \A c \in Child : ~Inside(c) /\ ~Inside(c)'
    BY <1>1, <2>1, NobodyBeforeReady DEF Inside, Reading, Writing
  <2>3. ReadersIn' = {} /\ WritersIn' = {}
    BY <2>2 DEF ReadersIn, WritersIn, Inside
  <2>4. CountersCount' /\ QueuesEmpty'
    BY <1>2, <2>3, FS_EmptySet DEF Setup, CountersCount, QueuesEmpty, ReadersIn, WritersIn
  <2>5. TypeOK'
    BY <1>2, <2>1, WriterReaderAssumption DEF IInv, TypeOK, Setup, PcOK, Labels
  <2>6. WriterExcludesAll'
    BY <2>2 DEF WriterExcludesAll, Inside
  <2>7. LetterInv'
    BY <1>2, <2>1, <2>2, LabelsDisjoint, WriterReaderAssumption
       DEF LetterInv, Setup, Inside, Writing
  <2> QED
    BY <2>1, <2>4, <2>5, <2>6, <2>7 DEF IInv
<1>3. CASE ~Setup
  <2>1. {} \in SUBSET IpcObjects /\ {"sem"} \in SUBSET IpcObjects
        /\ IpcObjects \in SUBSET IpcObjects
        /\ "sem" \in IpcObjects /\ "shm" \in IpcObjects
    BY WriterReaderAssumption
  <2>2. ParentStep /\ UNCHANGED <<sem, letters>>
    BY <1>3, <2>1 DEF Main, ParentStep, RemoveSem, RemoveShm
  <2>3. FamilyTypeOK' /\ FamilyInv' /\ PcOK(Labels)' /\ pc' = pc
    BY <1>1, <2>2, ParentMoves
  <2>4. Ready => Ready'
    BY <2>2 DEF ParentStep, SetupSucceeds, SetupFails, Fork, ForkFails, Reap,
                WaitInterrupted, NoMoreChildren, SigintParent, Remove, Ready
  <2> QED
    BY <2>2, <2>3, <2>4, Untouched
<1> QED
  BY <1>2, <1>3

\* A child moves outside.
LEMMA QuietKeepsIInv ==
  ASSUME IInv, NEW c \in Child, NEW from \in SUBSET LoopPcs, NEW l \in LoopPcs,
         Move(c, from, l), UNCHANGED <<sem, letters>>
  PROVE  IInv'
<1>1. PcOK(Labels) /\ FamilyTypeOK /\ FamilyInv /\ l \in Labels
  BY DEF IInv, TypeOK, PcOK, Labels
<1>2. /\ FamilyTypeOK' /\ FamilyInv' /\ PcOK(Labels)' /\ Ready /\ Ready'
      /\ pc[c] \in from /\ pc'[c] = l
      /\ \A d \in Child : d # c => pc'[d] = pc[d]
  BY <1>1, ChildMoves
<1>3. \A d \in Child : Inside(d) \/ Inside(d)' => pc'[d] = pc[d]
  BY <1>2, LabelsDisjoint DEF Inside, Reading, Writing
<1> QED
  BY <1>2, <1>3, Untouched

\* A child's loop, and the signals.
LEMMA LoopKeepsIInv ==
  ASSUME IInv, NEW c \in Child, Loop(c)
  PROVE  IInv'
<1>1. PcOK(Labels) /\ FamilyTypeOK /\ FamilyInv /\ UNCHANGED <<sem, letters>>
  BY DEF IInv, TypeOK, PcOK, Labels, Loop
<1>2. CASE Alarm(c) \/ LoopAgain(c)
  BY <1>1, <1>2, QuietKeepsIInv, LabelsDisjoint DEF Alarm, LoopAgain
<1>3. CASE Alive(c) /\ End(c)
  <2>1. FamilyTypeOK' /\ FamilyInv' /\ PcOK(Labels)'
    BY <1>1, <1>3, ChildEnds
  <2>2. \A d \in Child : Inside(d) \/ Inside(d)' => pc'[d] = pc[d]
    BY <1>1, <1>3, LabelsDisjoint DEF End, PcOK, Inside, Reading, Writing
  <2>3. Ready => Ready'
    BY <1>3 DEF End, Ready
  <2> QED
    BY <1>1, <2>1, <2>2, <2>3, Untouched
<1>4. CASE Sigint(c, {"sleep"})
  <2>1. FamilyTypeOK' /\ FamilyInv' /\ PcOK(Labels)'
    BY <1>1, <1>4, ChildSignalled
  <2>2. pc' = pc /\ (Ready => Ready')
    BY <1>4 DEF Sigint, Ready
  <2> QED
    BY <1>1, <2>1, <2>2, Untouched
<1> QED
  BY <1>2, <1>3, <1>4 DEF Loop, LoopEnds, SigintAsleep, Sigalrm

\* A reader that gets in finds no writer inside, and is counted.
LEMMA StartReadKeepsIInv ==
  ASSUME IInv, NEW c \in Child, StartRead(c)
  PROVE  IInv'
<1>1. PcOK(Labels) /\ FamilyTypeOK /\ FamilyInv /\ "get" \in Labels
  BY LabelsDisjoint DEF IInv, TypeOK, PcOK, Labels
<1>2. /\ FamilyTypeOK' /\ FamilyInv' /\ PcOK(Labels)' /\ Ready /\ Ready'
      /\ pc[c] \in {"semop", "sleep"} /\ pc'[c] = "get"
      /\ \A d \in Child : d # c => pc'[d] = pc[d]
  BY <1>1, ChildMoves DEF StartRead, Enter
<1>3. sem \in [0 .. 3 -> Nat] /\ sem[0] = 0 /\ sem[1] = 0
  BY DEF IInv, TypeOK, QueuesEmpty
<1>4. CanSemop5(sem, start_read) /\ sem' = Semop5(sem, start_read) /\ UNCHANGED letters
  BY DEF StartRead, Enter
<1>5. /\ sem[2] = 0 /\ sem' \in [0 .. 3 -> Nat] /\ sem'[0] = 0 /\ sem'[1] = 0
      /\ sem'[2] = 0 /\ sem'[3] = sem[3] + 1
  BY <1>3, <1>4, StartReadDoes
<1>6. WritersIn = {}
  BY <1>5, CountersAreSets, Counting DEF IInv, WritersIn
<1>7. \A d \in Child : ~Writing(d) /\ ~Writing(d)'
  BY <1>2, <1>6, LabelsDisjoint DEF WritersIn, Writing
<1>8. c \notin ReadersIn /\ ReadersIn' = ReadersIn \cup {c} /\ WritersIn' = {}
  BY <1>2, <1>7, LabelsDisjoint DEF ReadersIn, WritersIn, Reading
<1>9. Cardinality(ReadersIn') = sem'[3] /\ Cardinality(WritersIn') = sem'[2]
  <2>1. ReadersIn \in SUBSET Child
    BY DEF ReadersIn
  <2> QED
    BY <1>5, <1>8, <2>1, CountersAreSets, Counting, FS_EmptySet DEF IInv
<1>10. CountersCount' /\ WriterExcludesAll' /\ QueuesEmpty'
  BY <1>5, <1>7, <1>9
     DEF CountersCount, WriterExcludesAll, QueuesEmpty, ReadersIn, WritersIn
<1>11. TypeOK'
  BY <1>2, <1>4, <1>5 DEF IInv, TypeOK, PcOK, Labels, letters
<1>12. LetterInv'
  BY <1>2, <1>4, <1>7, LabelsDisjoint DEF IInv, LetterInv, letters, Writing
<1> QED
  BY <1>2, <1>10, <1>11, <1>12 DEF IInv

\* A writer that gets in finds nobody inside.
LEMMA StartWriteKeepsIInv ==
  ASSUME IInv, NEW c \in Child, StartWrite(c)
  PROVE  IInv'
<1>1. PcOK(Labels) /\ FamilyTypeOK /\ FamilyInv /\ "inc" \in Labels
  BY LabelsDisjoint DEF IInv, TypeOK, PcOK, Labels
<1>2. /\ FamilyTypeOK' /\ FamilyInv' /\ PcOK(Labels)' /\ Ready /\ Ready'
      /\ pc[c] \in {"semop", "sleep"} /\ pc'[c] = "inc"
      /\ \A d \in Child : d # c => pc'[d] = pc[d]
  BY <1>1, ChildMoves DEF StartWrite, Enter
<1>3. sem \in [0 .. 3 -> Nat] /\ sem[0] = 0 /\ sem[1] = 0
  BY DEF IInv, TypeOK, QueuesEmpty
<1>4. CanSemop5(sem, start_write) /\ sem' = Semop5(sem, start_write) /\ UNCHANGED letters
  BY DEF StartWrite, Enter
<1>5. /\ sem[2] = 0 /\ sem[3] = 0 /\ sem' \in [0 .. 3 -> Nat]
      /\ sem'[0] = 0 /\ sem'[1] = 0 /\ sem'[2] = 1 /\ sem'[3] = 0
  BY <1>3, <1>4, StartWriteDoes
<1>6. WritersIn = {} /\ ReadersIn = {}
  BY <1>5, CountersAreSets, Counting DEF IInv, WritersIn, ReadersIn
<1>7. \A d \in Child : ~Inside(d)
  BY <1>6 DEF WritersIn, ReadersIn, Inside
<1>8. \A d \in Child : ~Reading(d)' /\ (Writing(d)' <=> d = c)
  BY <1>2, <1>7, LabelsDisjoint DEF Inside, Reading, Writing
<1>9. ReadersIn' = {} /\ WritersIn' = {c}
  BY <1>8 DEF ReadersIn, WritersIn
<1>10. CountersCount' /\ WriterExcludesAll' /\ QueuesEmpty'
  BY <1>5, <1>8, <1>9, FS_EmptySet, FS_Singleton
     DEF CountersCount, WriterExcludesAll, QueuesEmpty, ReadersIn, WritersIn
<1>11. TypeOK'
  BY <1>2, <1>4, <1>5 DEF IInv, TypeOK, PcOK, Labels, letters
<1>12. \A d \in Child : pc[d] # "wrap" /\ pc'[d] # "wrap"
  BY <1>2, <1>7, LabelsDisjoint DEF Inside, Writing
<1>13. LetterInv'
  BY <1>2, <1>4, <1>12 DEF IInv, LetterInv, letters
<1> QED
  BY <1>2, <1>10, <1>11, <1>13 DEF IInv

\* The last call takes the child from its counter.
LEMMA LeaveKeepsIInv ==
  ASSUME IInv, NEW c \in Child, EndRead(c) \/ EndWrite(c)
  PROVE  IInv'
<1>1. PcOK(Labels) /\ FamilyTypeOK /\ FamilyInv /\ "while" \in Labels
  BY LabelsDisjoint DEF IInv, TypeOK, PcOK, Labels
<1>2. PICK last \in {"end_read", "end_write"} :
        /\ Move(c, {last}, "while") /\ UNCHANGED letters
        /\ last = "end_read" => CanSemop1(sem, end_read) /\ sem' = Semop1(sem, end_read)
        /\ last = "end_write" => CanSemop1(sem, end_write) /\ sem' = Semop1(sem, end_write)
  BY DEF EndRead, EndWrite, Leave
<1>3. /\ FamilyTypeOK' /\ FamilyInv' /\ PcOK(Labels)' /\ Ready /\ Ready'
      /\ pc[c] = last /\ pc'[c] = "while"
      /\ \A d \in Child : d # c => pc'[d] = pc[d]
  BY <1>1, <1>2, ChildMoves
<1>4. sem \in [0 .. 3 -> Nat] /\ sem[0] = 0 /\ sem[1] = 0
  BY DEF IInv, TypeOK, QueuesEmpty
<1>5. /\ sem[3] = Cardinality(ReadersIn) /\ sem[2] = Cardinality(WritersIn)
      /\ ReadersIn \in SUBSET Child /\ WritersIn \in SUBSET Child
  BY CountersAreSets DEF IInv, ReadersIn, WritersIn
<1>6. /\ \A d \in Child : d # c => (Reading(d)' <=> Reading(d)) /\ (Writing(d)' <=> Writing(d))
      /\ ~Reading(c)' /\ ~Writing(c)'
  BY <1>3, LabelsDisjoint DEF Reading, Writing
<1>7. ReadersIn' = ReadersIn \ {c} /\ WritersIn' = WritersIn \ {c}
  BY <1>6 DEF ReadersIn, WritersIn
<1>8. /\ sem' \in [0 .. 3 -> Nat] /\ sem'[0] = 0 /\ sem'[1] = 0
      /\ sem'[3] = Cardinality(ReadersIn') /\ sem'[2] = Cardinality(WritersIn')
  <2>1. CASE last = "end_read"
    <3>1. /\ sem' \in [0 .. 3 -> Nat]
          /\ \A k \in 0 .. 3 : sem'[k] = IF k = 3 THEN sem[3] - 1 ELSE sem[k]
      BY <1>2, <1>4, <2>1, EndDoes DEF end_read
    <3>2. c \in ReadersIn /\ c \notin WritersIn
      BY <1>3, <2>1, LabelsDisjoint DEF ReadersIn, WritersIn, Reading, Writing
    <3>3. Cardinality(ReadersIn') = Cardinality(ReadersIn) - 1 /\ WritersIn' = WritersIn
      BY <1>5, <1>7, <3>2, Counting
    <3> QED
      BY <1>4, <1>5, <3>1, <3>3
  <2>2. CASE last = "end_write"
    <3>1. /\ sem' \in [0 .. 3 -> Nat]
          /\ \A k \in 0 .. 3 : sem'[k] = IF k = 2 THEN sem[2] - 1 ELSE sem[k]
      BY <1>2, <1>4, <2>2, EndDoes DEF end_write
    <3>2. c \in WritersIn /\ c \notin ReadersIn
      BY <1>3, <2>2, LabelsDisjoint DEF ReadersIn, WritersIn, Reading, Writing
    <3>3. Cardinality(WritersIn') = Cardinality(WritersIn) - 1 /\ ReadersIn' = ReadersIn
      BY <1>5, <1>7, <3>2, Counting
    <3> QED
      BY <1>4, <1>5, <3>1, <3>3
  <2> QED
    BY <2>1, <2>2
<1>9. CountersCount' /\ QueuesEmpty'
  BY <1>8 DEF CountersCount, QueuesEmpty, ReadersIn, WritersIn
<1>10. WriterExcludesAll'
  BY <1>6 DEF IInv, WriterExcludesAll
<1>11. TypeOK'
  BY <1>2, <1>3, <1>8 DEF IInv, TypeOK, PcOK, Labels, letters
<1>12. \A d \in Child : pc'[d] = "wrap" <=> pc[d] = "wrap"
  BY <1>3
<1>13. LetterInv'
  BY <1>2, <1>3, <1>12 DEF IInv, LetterInv, letters
<1> QED
  BY <1>3, <1>9, <1>10, <1>11, <1>13 DEF IInv

\* Two places of a reader, or two of a writer, inside.
SameSide(from, to) == {from, to} \subseteq ReaderPcs \/ {from, to} \subseteq WriterPcs

\* What the statements between the calls keep; the letter is left to each.
LEMMA StatementKeeps ==
  ASSUME IInv, NEW c \in Child, NEW from, NEW to, Statement(c, from, to),
         SameSide(from, to)
  PROVE  /\ FamilyTypeOK' /\ FamilyInv' /\ PcOK(Labels)' /\ Ready /\ Ready'
         /\ sem' = sem /\ WriterExcludesAll' /\ CountersCount' /\ QueuesEmpty'
         /\ pc[c] = from /\ pc'[c] = to
         /\ \A d \in Child : d # c => pc'[d] = pc[d]
         /\ \A d \in Child : d # c => pc[d] # "wrap"
<1>1. PcOK(Labels) /\ FamilyTypeOK /\ FamilyInv /\ to \in Labels
  BY DEF IInv, TypeOK, PcOK, Labels, SameSide
<1>2. /\ FamilyTypeOK' /\ FamilyInv' /\ PcOK(Labels)' /\ Ready /\ Ready' /\ sem' = sem
      /\ pc[c] = from /\ pc'[c] = to
      /\ \A d \in Child : d # c => pc'[d] = pc[d]
  BY <1>1, ChildMoves DEF Statement
<1>3. \A d \in Child : (Reading(d)' <=> Reading(d)) /\ (Writing(d)' <=> Writing(d))
  BY <1>2, LabelsDisjoint DEF Reading, Writing, SameSide
<1>4. ReadersIn' = ReadersIn /\ WritersIn' = WritersIn
  BY <1>3 DEF ReadersIn, WritersIn
<1>5. CountersCount' /\ QueuesEmpty'
  BY <1>2, <1>4, CountersAreSets
     DEF IInv, CountersCount, QueuesEmpty, ReadersIn, WritersIn
<1>6. WriterExcludesAll'
  BY <1>3 DEF IInv, WriterExcludesAll
<1>7. \A d \in Child : d # c => pc[d] # "wrap"
  BY <1>2, LabelsDisjoint DEF IInv, WriterExcludesAll, Reading, Writing, SameSide
<1> QED
  BY <1>2, <1>5, <1>6, <1>7

\* The statements.
LEMMA StatementsKeepIInv ==
  ASSUME IInv, NEW c \in Child, Get(c) \/ Increment(c) \/ Wrap(c) \/ Put(c)
  PROVE  IInv'
<1>1. /\ SameSide("get", "end_read") /\ SameSide("inc", "wrap")
      /\ SameSide("wrap", "put") /\ SameSide("put", "end_write")
  BY LabelsDisjoint DEF SameSide
<1>2. var \in 0 .. LETTERS /\ seen \in 0 .. LETTERS - 1 /\ LETTERS \in Nat \ {0}
  BY WriterReaderAssumption DEF IInv, TypeOK
<1>3. CASE Get(c)
  <2>1. /\ FamilyTypeOK' /\ FamilyInv' /\ PcOK(Labels)' /\ Ready /\ Ready'
        /\ sem' = sem /\ WriterExcludesAll' /\ CountersCount' /\ QueuesEmpty'
        /\ pc[c] = "get" /\ pc'[c] = "end_read"
        /\ \A d \in Child : d # c => pc'[d] = pc[d] /\ pc[d] # "wrap"
    BY <1>1, <1>3, StatementKeeps DEF Get
  <2>2. seen' = var /\ var' = var /\ var < LETTERS
    BY <1>2, <1>3, <2>1 DEF Get, IInv, LetterInv
  <2>3. TypeOK'
    BY <1>2, <2>1, <2>2 DEF IInv, TypeOK, PcOK, Labels
  <2>4. LetterInv'
    BY <1>2, <2>1, <2>2 DEF LetterInv
  <2> QED
    BY <2>1, <2>3, <2>4 DEF IInv
<1>4. CASE Increment(c)
  <2>1. /\ FamilyTypeOK' /\ FamilyInv' /\ PcOK(Labels)' /\ Ready /\ Ready'
        /\ sem' = sem /\ WriterExcludesAll' /\ CountersCount' /\ QueuesEmpty'
        /\ pc[c] = "inc" /\ pc'[c] = "wrap"
        /\ \A d \in Child : d # c => pc'[d] = pc[d] /\ pc[d] # "wrap"
    BY <1>1, <1>4, StatementKeeps DEF Increment
  <2>2. seen' = seen /\ var' = var + 1 /\ var < LETTERS
    BY <1>2, <1>4, <2>1 DEF Increment, IInv, LetterInv
  <2>3. TypeOK'
    BY <1>2, <2>1, <2>2 DEF IInv, TypeOK, PcOK, Labels
  <2>4. LetterInv'
    BY <1>2, <2>1, <2>2 DEF LetterInv
  <2> QED
    BY <2>1, <2>3, <2>4 DEF IInv
<1>5. CASE Wrap(c)
  <2>1. /\ FamilyTypeOK' /\ FamilyInv' /\ PcOK(Labels)' /\ Ready /\ Ready'
        /\ sem' = sem /\ WriterExcludesAll' /\ CountersCount' /\ QueuesEmpty'
        /\ pc[c] = "wrap" /\ pc'[c] = "put"
        /\ \A d \in Child : d # c => pc'[d] = pc[d] /\ pc[d] # "wrap"
    BY <1>1, <1>5, StatementKeeps DEF Wrap
  <2>2. seen' = seen /\ var' = (IF var = LETTERS THEN 0 ELSE var) /\ var' < LETTERS
    BY <1>2, <1>5 DEF Wrap
  <2>3. TypeOK'
    BY <1>2, <2>1, <2>2 DEF IInv, TypeOK, PcOK, Labels
  <2>4. LetterInv'
    BY <1>2, <2>1, <2>2 DEF LetterInv
  <2> QED
    BY <2>1, <2>3, <2>4 DEF IInv
<1>6. CASE Put(c)
  <2>1. /\ FamilyTypeOK' /\ FamilyInv' /\ PcOK(Labels)' /\ Ready /\ Ready'
        /\ sem' = sem /\ WriterExcludesAll' /\ CountersCount' /\ QueuesEmpty'
        /\ pc[c] = "put" /\ pc'[c] = "end_write"
        /\ \A d \in Child : d # c => pc'[d] = pc[d] /\ pc[d] # "wrap"
    BY <1>1, <1>6, StatementKeeps DEF Put
  <2>2. seen' = var /\ var' = var /\ var < LETTERS
    BY <1>2, <1>6, <2>1 DEF Put, IInv, LetterInv
  <2>3. TypeOK'
    BY <1>2, <2>1, <2>2 DEF IInv, TypeOK, PcOK, Labels
  <2>4. LetterInv'
    BY <1>2, <2>1, <2>2 DEF LetterInv
  <2> QED
    BY <2>1, <2>3, <2>4 DEF IInv
<1> QED
  BY <1>3, <1>4, <1>5, <1>6

\* A child that goes to sleep.
LEMMA SleepKeepsIInv ==
  ASSUME IInv, NEW c \in Child, NEW ops, Sleep(c, ops)
  PROVE  IInv'
BY QuietKeepsIInv, LabelsDisjoint DEF Sleep

\* The initial state.
LEMMA InitEstablishesIInv ==
  ASSUME Init
  PROVE  IInv
<1>1. FamilyTypeOK /\ FamilyInv /\ ~Ready
  BY FamilyInitially DEF Init, FamilyInit, Ready
<1>2. \A c \in Child : ~Inside(c)
  BY <1>1, NobodyBeforeReady
<1>3. ReadersIn = {} /\ WritersIn = {}
  BY <1>2 DEF ReadersIn, WritersIn, Inside
<1>4. CountersCount /\ QueuesEmpty
  BY <1>3, CountersAreSets, FS_EmptySet DEF Init, QueuesEmpty
<1>5. TypeOK
  BY <1>1, WriterReaderAssumption DEF Init, FamilyInit, TypeOK, LoopPcs
<1>6. WriterExcludesAll
  BY <1>2 DEF WriterExcludesAll, Inside
<1>7. LetterInv
  BY <1>2, LabelsDisjoint, WriterReaderAssumption DEF Init, LetterInv, Inside, Writing
<1> QED
  BY <1>1, <1>4, <1>5, <1>6, <1>7 DEF IInv

(***************************************************************************)
(* The inductive invariant of writer_reader.c.  That the counters count    *)
(* and the queues are empty is what makes a passing semop() mean that      *)
(* nobody is in the way.                                                   *)
(***************************************************************************)
THEOREM Invariance == Spec => []IInv
<1>1. Init => IInv
  BY InitEstablishesIInv
<1>2. IInv /\ [Next]_vars => IInv'
  <2> SUFFICES ASSUME IInv, [Next]_vars
               PROVE  IInv'
    OBVIOUS
  <2>1. CASE Main
    BY <2>1, MainKeepsIInv
  <2>2. ASSUME NEW c \in Child, Loop(c) \/ Reader(c) \/ Writer(c)
        PROVE  IInv'
    BY <2>2, LoopKeepsIInv, SleepKeepsIInv, StartReadKeepsIInv, StartWriteKeepsIInv,
       StatementsKeepIInv, LeaveKeepsIInv DEF Reader, Writer
  <2>3. CASE UNCHANGED vars
    <3>1. /\ FamilyTypeOK' /\ FamilyInv' /\ PcOK(Labels)' /\ pc' = pc
          /\ UNCHANGED <<sem, letters>> /\ (Ready => Ready')
      BY <2>3 DEF IInv, TypeOK, FamilyTypeOK, FamilyInv, PcOK, Labels, Ready, vars, family
    <3> QED
      BY <3>1, Untouched
  <2> QED
    BY <2>1, <2>2, <2>3 DEF Next, Terminated, Readers, Writers
<1> QED
  BY <1>1, <1>2, PTL DEF Spec
-----------------------------------------------------------------------------
(* The properties. *)

\* writer_reader.c 49-95: a writer is alone, the dead included.
THEOREM WriterIsAlone == Spec => []WriterExcludesAll
<1>1. IInv => WriterExcludesAll
  BY DEF IInv
<1> QED
  BY <1>1, Invariance, PTL

\* writer_reader.c 28-42: the ACTIVE counters count those inside.
THEOREM CountersAreRight == Spec => []CountersCount
<1>1. IInv => CountersCount
  BY DEF IInv
<1> QED
  BY <1>1, Invariance, PTL

\* writer_reader.c 28-32, 36-40: only active children keep a child waiting.
THEOREM QueuesAreNoObstacle == Spec => []QueuesNeverHold
<1>1. IInv => QueuesNeverHold
  <2> SUFFICES ASSUME IInv
               PROVE  QueuesNeverHold
    OBVIOUS
  <2>1. sem \in [0 .. 3 -> Nat] /\ sem[0] = 0 /\ sem[1] = 0
    BY DEF IInv, TypeOK, QueuesEmpty
  <2>2. sem[2] + sem[3] = 0 <=> sem[2] = 0 /\ sem[3] = 0
    BY <2>1
  <2> QED
    BY <2>1, <2>2, StartReadDoes, StartWriteDoes DEF QueuesNeverHold
<1> QED
  BY <1>1, Invariance, PTL

\* writer_reader.c 60, 82-87: 'z' + 1 is never printed.
THEOREM OnlyLettersArePrinted == Spec => []OnlyLettersPrinted
<1>1. IInv => OnlyLettersPrinted
  <2> SUFFICES ASSUME IInv, NEW c \in Child, pc[c] \in {"get", "put"}
               PROVE  var < LETTERS
    BY DEF OnlyLettersPrinted
  <2>1. \A d \in Child : pc[d] # "wrap"
    BY LabelsDisjoint DEF IInv, WriterExcludesAll, Reading, Writing
  <2> QED
    BY <2>1, WriterReaderAssumption DEF IInv, TypeOK, LetterInv
<1> QED
  BY <1>1, Invariance, PTL

\* writer_reader.c 51-66, 72-93: what a child killed inside leaves behind.
THEOREM KilledHolderShuts == Spec => KilledHolderShutsOut
<1>1. IInv /\ [Next]_vars =>
        /\ (\E c \in Child : Reading(c) /\ ~Alive(c)) => var' = var
        /\ (\E c \in Child : Writing(c) /\ ~Alive(c)) => UNCHANGED <<sem, letters>>
  <2> SUFFICES ASSUME IInv, [Next]_vars, NEW k \in Child, Inside(k), ~Alive(k)
               PROVE  /\ Reading(k) => var' = var
                      /\ Writing(k) => UNCHANGED <<sem, letters>>
    BY DEF Inside
  <2>1. ~Setup
    BY NobodyBeforeReady DEF IInv, Setup, SetupSucceeds, Ready
  <2>2. \A c \in Child : Alive(c) /\ Writing(c) => FALSE
    BY DEF IInv, WriterExcludesAll, Inside
  <2>3. \A c \in Child : ~Increment(c) /\ ~Wrap(c) /\ ~Put(c) /\ ~EndWrite(c)
    BY <2>2, LabelsDisjoint
       DEF Increment, Wrap, Put, EndWrite, Leave, Statement, Move, Writing
  <2>4. CASE Reading(k)
    <3>1. ~Writing(k)
      BY <2>4, LabelsDisjoint DEF Reading, Writing
    <3> QED
      BY <2>1, <2>3, <3>1
         DEF Next, Main, Loop, Reader, Writer, StartRead, StartWrite, Enter, Sleep, Get,
             EndRead, Leave, Readers, Writers, Terminated, letters, vars
  <2>5. CASE Writing(k)
    <3>1. sem \in [0 .. 3 -> Nat] /\ sem[0] = 0 /\ sem[1] = 0
      BY DEF IInv, TypeOK, QueuesEmpty
    <3>2. WritersIn \in SUBSET Child /\ WritersIn # {}
      BY <2>5 DEF WritersIn
    <3>3. sem[2] # 0
      BY <3>2, CountersAreSets, Counting DEF IInv
    <3>4. ~CanSemop5(sem, start_read) /\ ~CanSemop5(sem, start_write)
      BY <3>1, <3>3, StartReadDoes, StartWriteDoes
    <3>5. \A c \in Child : ~StartRead(c) /\ ~StartWrite(c)
      BY <3>4 DEF StartRead, StartWrite, Enter
    <3>6. \A c \in Child : ~Reading(c)
      BY <2>5, LabelsDisjoint DEF IInv, WriterExcludesAll, Reading, Writing
    <3>7. \A c \in Child : ~Get(c) /\ ~EndRead(c)
      BY <3>6, LabelsDisjoint DEF Get, EndRead, Leave, Statement, Move, Reading
    <3>8. ~Reading(k)
      BY <3>6
    <3> QED
      BY <2>1, <2>3, <3>5, <3>7, <3>8
         DEF Next, Main, Loop, Reader, Writer, Readers, Writers, Sleep, Terminated, vars
  <2> QED
    BY <2>4, <2>5 DEF Inside
<1> QED
  BY <1>1, Invariance, PTL DEF Spec, KilledHolderShutsOut
-----------------------------------------------------------------------------
(* The refinement. *)

\* A step that keeps the letter and moves nobody to or from the wrap-around
\* does nothing to the register.
LEMMA ValueKept ==
  ASSUME UNCHANGED letters, \A c \in Child : pc'[c] = "wrap" <=> pc[c] = "wrap"
  PROVE  Value' = Value /\ seen' = seen
BY DEF Value, letters

\* The step of a statement of a child, in the register.
LEMMA StatementsImplement ==
  ASSUME IInv, NEW c \in Child, Get(c) \/ Increment(c) \/ Wrap(c) \/ Put(c)
  PROVE  [Abstract!Next]_<<Value, seen>>
<1>1. /\ SameSide("get", "end_read") /\ SameSide("inc", "wrap")
      /\ SameSide("wrap", "put") /\ SameSide("put", "end_write")
  BY LabelsDisjoint DEF SameSide
<1>2. var \in 0 .. LETTERS /\ LETTERS \in Nat \ {0}
  BY WriterReaderAssumption DEF IInv, TypeOK
<1>3. CASE Get(c) \/ Put(c)
  <2>1. /\ pc[c] # "wrap" /\ pc'[c] # "wrap"
        /\ \A d \in Child : d # c => pc'[d] = pc[d] /\ pc[d] # "wrap"
    BY <1>1, <1>3, StatementKeeps DEF Get, Put
  <2>2. var' = var /\ seen' = var
    BY <1>3 DEF Get, Put
  <2>3. Value = var /\ Value' = var
    BY <2>1, <2>2 DEF Value
  <2> QED
    BY <2>2, <2>3 DEF Abstract!Next, Abstract!Read
<1>4. CASE Increment(c)
  <2>1. /\ pc[c] = "inc" /\ pc'[c] = "wrap"
        /\ \A d \in Child : d # c => pc'[d] = pc[d] /\ pc[d] # "wrap"
    BY <1>1, <1>4, StatementKeeps DEF Increment
  <2>2. var' = var + 1 /\ seen' = seen
    BY <1>4 DEF Increment
  <2>3. Value = var /\ Value' = var
    BY <1>2, <2>1, <2>2 DEF Value
  <2> QED
    BY <2>2, <2>3
<1>5. CASE Wrap(c)
  <2>1. /\ pc[c] = "wrap" /\ pc'[c] = "put"
        /\ \A d \in Child : d # c => pc'[d] = pc[d] /\ pc[d] # "wrap"
    BY <1>1, <1>5, StatementKeeps DEF Wrap
  <2>2. var' = (IF var = LETTERS THEN 0 ELSE var) /\ seen' = seen
    BY <1>5 DEF Wrap
  <2>3. Value = var - 1 /\ Value' = var'
    BY <2>1 DEF Value
  <2>4. Value' = Abstract!Succ(Value)
    BY <1>2, <2>2, <2>3 DEF Abstract!Succ
  <2> QED
    BY <2>2, <2>4 DEF Abstract!Next, Abstract!Write
<1> QED
  BY <1>3, <1>4, <1>5

(***************************************************************************)
(* writer_reader.c 49-95: whatever children are killed or interrupted, the *)
(* letter goes round the alphabet one at a time, and every letter printed  *)
(* is the current one.                                                     *)
(***************************************************************************)
THEOREM ImplementsRegister == Spec => ImplementsLetterRegister
<1>1. Init => Abstract!Init
  <2> SUFFICES ASSUME Init
               PROVE  Abstract!Init
    OBVIOUS
  <2>1. \A c \in Child : pc[c] # "wrap"
    BY DEF Init, FamilyInit
  <2> QED
    BY <2>1 DEF Init, Abstract!Init, Value
<1>2. IInv /\ [Next]_vars => [Abstract!Next]_<<Value, seen>>
  <2> SUFFICES ASSUME IInv, [Next]_vars
               PROVE  [Abstract!Next]_<<Value, seen>>
    OBVIOUS
  <2>1. pc \in [Child -> Labels]
    BY DEF IInv, TypeOK, Labels
  <2>2. CASE Setup
    <3>1. var = 0 /\ var' = 0 /\ seen' = seen /\ pc' = pc
      BY <2>2 DEF Setup, SetupSucceeds, IInv, LetterInv, Ready
    <3> QED
      BY <3>1, ValueKept DEF letters
  <2>3. CASE Main /\ ~Setup
    <3>1. UNCHANGED letters /\ pc' = pc
      BY <2>3 DEF Main, SetupFails, Fork, ForkFails, Reap, WaitInterrupted, NoMoreChildren,
                  SigintParent, RemoveSem, RemoveShm, Remove, family
    <3> QED
      BY <3>1, ValueKept
  <2>4. ASSUME NEW c \in Child, Loop(c)
        PROVE  [Abstract!Next]_<<Value, seen>>
    <3>1. UNCHANGED letters
      BY <2>4 DEF Loop
    <3>2. \A d \in Child : pc'[d] = "wrap" <=> pc[d] = "wrap"
      BY <2>1, <2>4, LabelsDisjoint
         DEF Loop, Alarm, LoopAgain, LoopEnds, Sigint, SigintAsleep, Sigalrm, End, Move, Goto
    <3> QED
      BY <3>1, <3>2, ValueKept
  <2>5. ASSUME NEW c \in Child, NEW from, NEW to, from \cap {"wrap"} = {}, to # "wrap",
               Move(c, from, to), UNCHANGED letters
        PROVE  [Abstract!Next]_<<Value, seen>>
    <3>1. \A d \in Child : pc'[d] = "wrap" <=> pc[d] = "wrap"
      BY <2>1, <2>5 DEF Move, Goto
    <3> QED
      BY <2>5, <3>1, ValueKept
  <2>6. ASSUME NEW c \in Child, Reader(c) \/ Writer(c)
        PROVE  [Abstract!Next]_<<Value, seen>>
    <3>1. CASE StartRead(c) \/ StartWrite(c)
      BY <2>5, <3>1 DEF StartRead, StartWrite, Enter
    <3>2. CASE Sleep(c, start_read) \/ Sleep(c, start_write)
      BY <2>5, <3>2 DEF Sleep
    <3>3. CASE EndRead(c) \/ EndWrite(c)
      BY <2>5, <3>3 DEF EndRead, EndWrite, Leave
    <3> QED
      BY <2>6, <3>1, <3>2, <3>3, StatementsImplement DEF Reader, Writer
  <2>7. CASE UNCHANGED vars
    BY <2>7, ValueKept DEF vars, family
  <2> QED
    BY <2>2, <2>3, <2>4, <2>6, <2>7 DEF Next, Terminated, Readers, Writers
<1> QED
  BY <1>1, <1>2, Invariance, PTL DEF Spec, ImplementsLetterRegister, Abstract!Spec
=============================================================================
