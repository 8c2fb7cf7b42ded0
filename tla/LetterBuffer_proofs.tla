------------------------- MODULE LetterBuffer_proofs -------------------------
(***************************************************************************)
(* Proofs about the two producer/consumer programs, for any number of      *)
(* children, any size of the buffer and any length of the alphabet.        *)
(* First what every step of the circular buffer keeps, whichever semaphore *)
(* calls surround the critical sections (Labels is the set of labels of    *)
(* the program at hand); then lab_03/prod_cons.c, with its two semop()     *)
(* calls; then lab_03/prod_cons_mac.c, where a child can end with a slot   *)
(* and without the buffer.                                                 *)
(***************************************************************************)
EXTENDS ProdCons, ProdConsMac, FiniteSetTheorems, SequenceTheorems, TLAPS
-----------------------------------------------------------------------------
(* The skeleton: the parent, and the lives of the children. *)

\* What FamilyInv needs to know of pc: it maps children to labels.
PcOK(Labels) == LoopPcs \subseteq Labels /\ pc \in [Child -> Labels]

\* Sets of children are finite, and count as one expects.
LEMMA Counting ==
  ASSUME NEW S \in SUBSET Child, NEW c \in Child
  PROVE  /\ Cardinality(S) \in Nat /\ (Cardinality(S) = 0 <=> S = {})
         /\ c \notin S => Cardinality(S \cup {c}) = Cardinality(S) + 1
         /\ c \in S => Cardinality(S \ {c}) = Cardinality(S) - 1
<1>1. IsFiniteSet(Child)
  BY FamilyAssumption, FS_Interval DEF Child
<1>2. IsFiniteSet(S)
  BY <1>1, FS_Subset
<1> QED
  BY <1>2, FS_CardinalityType, FS_EmptySet, FS_AddElement, FS_RemoveElement

\* A part counts no more than the whole, and two halves add up.
LEMMA CountingParts ==
  ASSUME NEW S \in SUBSET Child, NEW T \in SUBSET Child
  PROVE  /\ Cardinality(S) \in Nat /\ (Cardinality(S) = 0 <=> S = {})
         /\ T \subseteq S => Cardinality(T) <= Cardinality(S)
         /\ S \cap T = {} => Cardinality(S \cup T) = Cardinality(S) + Cardinality(T)
<1>1. IsFiniteSet(Child)
  BY FamilyAssumption, FS_Interval DEF Child
<1>2. IsFiniteSet(S) /\ IsFiniteSet(T)
  BY <1>1, FS_Subset
<1>3. Cardinality(S) \in Nat /\ Cardinality(T) \in Nat /\ Cardinality({}) = 0
  BY <1>2, FS_CardinalityType, FS_EmptySet
<1>4. T \subseteq S => Cardinality(T) <= Cardinality(S)
  BY <1>2, FS_Subset
<1>5. S \cap T = {} => Cardinality(S \cup T) = Cardinality(S) + Cardinality(T)
  <2> SUFFICES ASSUME S \cap T = {}
               PROVE  Cardinality(S \cup T) = Cardinality(S) + Cardinality(T)
    OBVIOUS
  <2>1. Cardinality(S \cup T) = Cardinality(S) + Cardinality(T) - Cardinality(S \cap T)
    BY <1>2, FS_Union
  <2>2. Cardinality(S \cap T) = 0
    BY <1>3, Zenon
  <2> QED
    BY <1>3, <2>1, <2>2
<1>6. Cardinality(S) = 0 <=> S = {}
  BY <1>2, FS_EmptySet
<1> QED
  BY <1>3, <1>4, <1>5, <1>6

\* The initial state satisfies the family's invariant.
LEMMA FamilyInitially ==
  ASSUME FamilyInit
  PROVE  FamilyTypeOK /\ FamilyInv
<1>1. \A c \in Child : c >= 0
  BY FamilyAssumption DEF Child
<1> QED
  BY <1>1, FamilyAssumption
     DEF FamilyInit, FamilyTypeOK, FamilyInv, Ready, MainPc, Life

\* The end of a child keeps the family's invariant, and does not move its pc
\* out of its critical section.
LEMMA ChildEnds ==
  ASSUME NEW Labels, PcOK(Labels), FamilyTypeOK, FamilyInv,
         NEW c \in Child, Alive(c), End(c)
  PROVE  FamilyTypeOK' /\ FamilyInv' /\ PcOK(Labels)'
<1>1. /\ life' = [life EXCEPT ![c] = "zombie"]
      /\ life[c] = "alive"
      /\ UNCHANGED <<main, forked, mainFlag, ipc>>
      /\ flag' = [flag EXCEPT ![c] = FALSE]
      /\ pc' = [pc EXCEPT ![c] = IF @ \in LoopPcs THEN "gone" ELSE @]
  BY DEF End, Alive
<1>2. FamilyTypeOK'
  BY <1>1 DEF FamilyTypeOK, Life
<1>3. PcOK(Labels)'
  BY <1>1 DEF PcOK, LoopPcs
<1>4. \A d \in Child : life'[d] = IF d = c THEN "zombie" ELSE life[d]
  BY <1>1 DEF FamilyTypeOK
<1>5. \A d \in Child : d # c => pc'[d] = pc[d]
  BY <1>1 DEF PcOK
<1>6. FamilyInv'
  BY <1>1, <1>4, <1>5 DEF FamilyInv, Ready
<1> QED
  BY <1>2, <1>3, <1>6

\* A living child may move to another label, whatever else it does outside
\* the family's variables; it was forked after the objects were ready.
LEMMA ChildMoves ==
  ASSUME NEW Labels, PcOK(Labels), FamilyTypeOK, FamilyInv,
         NEW c \in Child, NEW from, NEW l \in Labels, Move(c, from, l)
  PROVE  /\ FamilyTypeOK' /\ FamilyInv' /\ PcOK(Labels)'
         /\ Ready /\ Ready'
         /\ pc[c] \in from /\ pc'[c] = l
         /\ \A d \in Child : d # c => pc'[d] = pc[d]
<1>1. /\ Alive(c) /\ Goto(c, l) /\ pc[c] \in from
      /\ UNCHANGED <<main, forked, mainFlag, flag, life, ipc>>
  BY DEF Move
<1>2. /\ PcOK(Labels)' /\ pc'[c] = l
      /\ \A d \in Child : d # c => pc'[d] = pc[d]
  BY <1>1 DEF PcOK, Goto
<1>3. Ready
  <2>1. c >= 0
    BY DEF Child
  <2> QED
    BY <1>1, <2>1 DEF FamilyInv, Alive
<1> QED
  BY <1>1, <1>2, <1>3 DEF FamilyTypeOK, FamilyInv, Ready, Alive

\* So does a SIGINT, whose handler only clears the flag.
LEMMA ChildSignalled ==
  ASSUME NEW Labels, PcOK(Labels), FamilyTypeOK, FamilyInv,
         NEW c \in Child, NEW asleep, Sigint(c, asleep)
  PROVE  FamilyTypeOK' /\ FamilyInv' /\ PcOK(Labels)'
BY DEF Sigint, PcOK, FamilyTypeOK, FamilyInv, Ready

\* A step of the parent.
ParentStep ==
  \/ SetupSucceeds
  \/ \E created \in SUBSET IpcObjects : SetupFails(created)
  \/ Fork \/ ForkFails
  \/ \E c \in Child : Reap(c)
  \/ WaitInterrupted \/ NoMoreChildren \/ SigintParent
  \/ \E x \in IpcObjects : Remove(x)

\* Every step of the parent keeps the family's invariant and leaves the
\* children where they are.
LEMMA ParentMoves ==
  ASSUME NEW Labels, PcOK(Labels), FamilyTypeOK, FamilyInv, ParentStep
  PROVE  FamilyTypeOK' /\ FamilyInv' /\ PcOK(Labels)' /\ pc' = pc
<1>1. CASE SetupSucceeds
  BY <1>1, FamilyAssumption
     DEF SetupSucceeds, FamilyTypeOK, FamilyInv, Ready, MainPc, PcOK
<1>2. CASE \E created \in SUBSET IpcObjects : SetupFails(created)
  BY <1>2 DEF SetupFails, FamilyTypeOK, FamilyInv, Ready, MainPc, PcOK
<1>3. CASE Fork
  <2>1. /\ forked \in Child
        /\ forked' = forked + 1
        /\ \A c \in Child : c \in Nat
    BY <1>3, FamilyAssumption DEF Fork, FamilyInv, FamilyTypeOK, Child
  <2>2. FamilyTypeOK'
    BY <1>3, <2>1, FamilyAssumption DEF Fork, FamilyInv, FamilyTypeOK, Life, MainPc, Child
  <2>3. \A c \in Child : life'[c] = IF c = forked THEN "alive" ELSE life[c]
    BY <1>3, <2>1 DEF Fork, FamilyTypeOK
  <2>4. forked \in Nat /\ ChildCount \in Nat
    BY FamilyAssumption DEF FamilyTypeOK
  <2>5. (main' = "fork" => forked' < ChildCount) /\ main' \in {"fork", "wait"}
    BY <1>3, <2>1, <2>4 DEF Fork, FamilyInv
  <2>6. \A c \in Child : (life'[c] = "unborn") <=> (c >= forked')
    BY <2>1, <2>3, <2>4 DEF FamilyInv
  <2>7. pc' = pc /\ ipc' = ipc /\ main = "fork"
    BY <1>3 DEF Fork
  <2> QED
    BY <2>2, <2>3, <2>5, <2>6, <2>7 DEF FamilyInv, Ready, PcOK
<1>4. CASE ForkFails
  BY <1>4 DEF ForkFails, FamilyTypeOK, FamilyInv, Ready, MainPc, PcOK
<1>5. CASE \E c \in Child : Reap(c)
  <2>1. PICK c \in Child : Reap(c)
    BY <1>5
  <2>2. \A d \in Child : life'[d] = IF d = c THEN "reaped" ELSE life[d]
    BY <2>1 DEF Reap, FamilyTypeOK
  <2> QED
    BY <2>1, <2>2 DEF Reap, FamilyTypeOK, FamilyInv, Ready, Life, PcOK
<1>6. CASE WaitInterrupted \/ SigintParent
  BY <1>6 DEF WaitInterrupted, SigintParent, FamilyTypeOK, FamilyInv, Ready, PcOK
<1>7. CASE NoMoreChildren
  BY <1>7 DEF NoMoreChildren, FamilyTypeOK, FamilyInv, Ready, MainPc, PcOK
<1>8. CASE \E x \in IpcObjects : Remove(x)
  BY <1>8 DEF Remove, FamilyTypeOK, FamilyInv, Ready, MainPc, PcOK
<1> QED
  BY <1>1, <1>2, <1>3, <1>4, <1>5, <1>6, <1>7, <1>8 DEF ParentStep

\* The invariant gives the property of the IPC objects: a living child was
\* forked, and has not been waited for.
LEMMA FamilyKeepsIpc ==
  ASSUME FamilyTypeOK, FamilyInv
  PROVE  IpcOutlivesChildren
<1>1. ASSUME NEW c \in Child, Alive(c)
      PROVE  ipc = IpcObjects
  <2>1. forked # 0
    BY <1>1 DEF FamilyInv, Alive, Child
  <2>2. main \in {"fork", "wait", "fork_err"}
    BY <1>1, <2>1 DEF FamilyInv, FamilyTypeOK, MainPc, Ready, Alive
  <2> QED
    BY <2>2 DEF FamilyInv
<1> QED
  BY <1>1 DEF IpcOutlivesChildren
-----------------------------------------------------------------------------
(* The buffer. *)

USE DEF SEMAPHORE_EMPTY, SEMAPHORE_FULL, SEMAPHORE_BINARY

Critical == ProducerPcs \cup ConsumerPcs

BufferLabels(Labels) == PcOK(Labels) /\ Critical \subseteq Labels

\* The labels, spelled out.
LEMMA LabelsDisjoint ==
  /\ LoopPcs \cap Critical = {}
  /\ LoopPcs = {"alarm", "while", "semop", "sleep", "gone"}
  /\ Critical = {"store", "next", "wrapletter", "wrapp", "end_produce",
                 "get", "advance", "wrapc", "end_consume"}
BY DEF LoopPcs, Critical, ProducerPcs, ConsumerPcs

\* Before the objects are ready no child exists, let alone in its critical
\* section.
LEMMA NobodyBeforeReady ==
  ASSUME FamilyInv, ~Ready
  PROVE  \A c \in Child : ~InCritical(c)
<1>1. \A c \in Child : c >= 0
  BY FamilyAssumption DEF Child
<1> QED
  BY <1>1 DEF FamilyInv, InCritical, ProducerPcs, ConsumerPcs

\* A step that changes neither the shared memory nor SEMAPHORE_BINARY, nor
\* the place of any child in its critical section, and brings none into it.
LEMMA BufferUntouched ==
  ASSUME BufferInv, FamilyTypeOK', FamilyInv',
         sem' \in [0 .. 2 -> Nat], sem'[2] = sem[2], UNCHANGED buffer,
         Ready' => Ready,
         \A c \in Child : InCritical(c) \/ InCritical(c)' => pc'[c] = pc[c]
  PROVE  /\ BufferInv'
         /\ \A c \in Child : InCritical(c)' <=> InCritical(c)
<1>1. \A c \in Child : InCritical(c)' <=> InCritical(c)
  BY DEF InCritical
<1>2. BufferTypeOK'
  BY DEF BufferInv, BufferTypeOK, buffer
<1>3. MutualExclusion' /\ BinaryInv'
  BY <1>1 DEF BufferInv, MutualExclusion, BinaryInv
<1>4. \A c \in Child : pc[c] \in {"next", "wrapletter", "wrapp", "wrapc"}
                         => pc'[c] = pc[c]
  BY DEF InCritical, ProducerPcs, ConsumerPcs
<1>5. PointerInv'
  BY <1>4 DEF BufferInv, PointerInv, buffer
<1> QED
  BY <1>1, <1>2, <1>3, <1>5 DEF BufferInv

\* The initial state.
LEMMA BufferInitially == BufferInit => BufferInv
<1> SUFFICES ASSUME BufferInit PROVE BufferInv
  OBVIOUS
<1>1. FamilyTypeOK /\ FamilyInv
  BY FamilyInitially DEF BufferInit
<1>2. ~Ready /\ \A c \in Child : ~InCritical(c)
  BY DEF BufferInit, FamilyInit, Ready, InCritical, ProducerPcs, ConsumerPcs
<1>3. MutualExclusion /\ BinaryInv
  BY <1>2 DEF MutualExclusion, BinaryInv
<1>4. BufferTypeOK
  BY <1>1, BufferAssumption DEF BufferInit, BufferTypeOK
<1>5. PointerInv
  BY BufferAssumption DEF BufferInit, PointerInv
<1> QED
  BY <1>1, <1>3, <1>4, <1>5 DEF BufferInv

\* main() giving the semaphores their values establishes what the children
\* then rely on.
LEMMA SetupKeeps ==
  ASSUME NEW Labels, BufferLabels(Labels), BufferInv, Setup
  PROVE  /\ BufferInv' /\ BufferLabels(Labels)'
         /\ sem'[0] = ELEMENTS /\ sem'[1] = 0 /\ sem'[2] = 1
         /\ ~Ready /\ pc' = pc
         /\ \A c \in Child : ~InCritical(c)'
<1>1. PcOK(Labels) /\ FamilyTypeOK /\ FamilyInv
  BY DEF BufferInv, BufferTypeOK, BufferLabels
<1>2. FamilyTypeOK' /\ FamilyInv' /\ PcOK(Labels)' /\ pc' = pc
  BY <1>1, ParentMoves DEF Setup, ParentStep
<1>3. ~Ready
  BY DEF Setup, SetupSucceeds, Ready
<1>4. \A c \in Child : ~InCritical(c)'
  BY <1>1, <1>2, <1>3, NobodyBeforeReady DEF InCritical
<1>5. /\ sem' \in [0 .. 2 -> Nat]
      /\ sem'[0] = ELEMENTS /\ sem'[1] = 0 /\ sem'[2] = 1
  BY BufferAssumption DEF Setup, SetValues
<1>6. MutualExclusion' /\ BinaryInv'
  BY <1>4, <1>5 DEF MutualExclusion, BinaryInv
<1>7. BufferTypeOK'
  BY <1>2, <1>5 DEF BufferInv, BufferTypeOK, Setup, buffer
<1>8. PointerInv'
  BY <1>2 DEF BufferInv, PointerInv, Setup, buffer
<1> QED
  BY <1>2, <1>3, <1>4, <1>5, <1>6, <1>7, <1>8 DEF BufferInv, BufferLabels

\* The parent's steps after the setup, and its failures.
LEMMA ParentKeeps ==
  ASSUME NEW Labels, BufferLabels(Labels), BufferInv,
         ParentStep, ~SetupSucceeds, UNCHANGED <<sem, buffer>>
  PROVE  /\ BufferInv' /\ BufferLabels(Labels)'
         /\ pc' = pc /\ (Ready' => Ready)
<1>1. PcOK(Labels) /\ FamilyTypeOK /\ FamilyInv
  BY DEF BufferInv, BufferTypeOK, BufferLabels
<1>2. FamilyTypeOK' /\ FamilyInv' /\ PcOK(Labels)' /\ pc' = pc
  BY <1>1, ParentMoves
<1>3. Ready' => Ready
  BY DEF ParentStep, SetupFails, Fork, ForkFails, Reap, WaitInterrupted,
         NoMoreChildren, SigintParent, Remove, Ready
<1>4. sem' \in [0 .. 2 -> Nat]
  BY DEF BufferInv, BufferTypeOK
<1> QED
  BY <1>2, <1>3, <1>4, BufferUntouched DEF BufferLabels

\* A child moves outside its critical section, and may take or give back a
\* slot on the way.
LEMMA MoveOutsideKeeps ==
  ASSUME NEW Labels, BufferLabels(Labels), BufferInv,
         NEW c \in Child, NEW from, NEW l \in Labels, Move(c, from, l),
         from \cap Critical = {}, l \notin Critical,
         sem' \in [0 .. 2 -> Nat], sem'[2] = sem[2], UNCHANGED buffer
  PROVE  /\ BufferInv' /\ BufferLabels(Labels)' /\ Ready /\ Ready'
         /\ pc[c] \in from /\ pc'[c] = l
         /\ \A d \in Child : d # c => pc'[d] = pc[d]
<1>1. PcOK(Labels) /\ FamilyTypeOK /\ FamilyInv
  BY DEF BufferInv, BufferTypeOK, BufferLabels
<1>2. /\ FamilyTypeOK' /\ FamilyInv' /\ PcOK(Labels)'
      /\ Ready /\ Ready'
      /\ pc[c] \in from /\ pc'[c] = l
      /\ \A d \in Child : d # c => pc'[d] = pc[d]
  BY <1>1, ChildMoves
<1>3. \A d \in Child : InCritical(d) \/ InCritical(d)' => pc'[d] = pc[d]
  BY <1>2 DEF InCritical, Critical
<1> QED
  BY <1>2, <1>3, BufferUntouched DEF BufferLabels

\* A child that ends stays counted if it was in its critical section.
LEMMA EndKeeps ==
  ASSUME NEW Labels, BufferLabels(Labels), BufferInv,
         NEW c \in Child, Alive(c), End(c), UNCHANGED <<sem, buffer>>
  PROVE  /\ BufferInv' /\ BufferLabels(Labels)' /\ (Ready' <=> Ready)
         /\ pc' = [pc EXCEPT ![c] = IF @ \in LoopPcs THEN "gone" ELSE @]
<1>1. PcOK(Labels) /\ FamilyTypeOK /\ FamilyInv /\ sem \in [0 .. 2 -> Nat]
  BY DEF BufferInv, BufferTypeOK, BufferLabels
<1>2. FamilyTypeOK' /\ FamilyInv' /\ PcOK(Labels)'
  BY <1>1, ChildEnds
<1>3. /\ pc' = [pc EXCEPT ![c] = IF @ \in LoopPcs THEN "gone" ELSE @]
      /\ (Ready' <=> Ready)
  BY DEF End, Ready
<1>4. \A d \in Child : InCritical(d) \/ InCritical(d)' => pc'[d] = pc[d]
  <2>1. \A d \in Child : pc[d] \in Critical => pc[d] \notin LoopPcs
    BY LabelsDisjoint
  <2>2. "gone" \notin Critical
    BY LabelsDisjoint
  <2> QED
    BY <1>1, <1>3, <2>1, <2>2 DEF InCritical, Critical, PcOK
<1> QED
  BY <1>1, <1>2, <1>3, <1>4, BufferUntouched DEF BufferLabels

\* A SIGINT whose handler returns.
LEMMA SigintKeeps ==
  ASSUME NEW Labels, BufferLabels(Labels), BufferInv,
         NEW c \in Child, NEW asleep, Sigint(c, asleep), UNCHANGED <<sem, buffer>>
  PROVE  /\ BufferInv' /\ BufferLabels(Labels)' /\ pc' = pc /\ (Ready' <=> Ready)
<1>1. PcOK(Labels) /\ FamilyTypeOK /\ FamilyInv /\ sem \in [0 .. 2 -> Nat]
  BY DEF BufferInv, BufferTypeOK, BufferLabels
<1>2. FamilyTypeOK' /\ FamilyInv' /\ PcOK(Labels)'
  BY <1>1, ChildSignalled
<1>3. pc' = pc /\ (Ready' <=> Ready)
  BY DEF Sigint, Ready
<1> QED
  BY <1>1, <1>2, <1>3, BufferUntouched DEF BufferLabels
-----------------------------------------------------------------------------
(* The edges of a critical section. *)

\* A child that lowers SEMAPHORE_BINARY finds nobody in a critical section,
\* and is the only one there afterwards.
LEMMA EnterKeeps ==
  ASSUME NEW Labels, BufferLabels(Labels), BufferInv,
         NEW c \in Child, NEW from, NEW l \in {"store", "get"}, Move(c, from, l),
         sem' \in [0 .. 2 -> Nat], sem[2] >= 1, sem'[2] = sem[2] - 1,
         UNCHANGED buffer
  PROVE  /\ BufferInv' /\ BufferLabels(Labels)' /\ Ready /\ Ready'
         /\ pc[c] \in from /\ pc'[c] = l
         /\ \A d \in Child : d # c => pc'[d] = pc[d]
         /\ sem[2] = 1
         /\ \A d \in Child : ~InCritical(d) /\ (InCritical(d)' <=> d = c)
<1>1. PcOK(Labels) /\ FamilyTypeOK /\ FamilyInv
  BY DEF BufferInv, BufferTypeOK, BufferLabels
<1>2. l \in Labels /\ l \in Critical
  BY LabelsDisjoint DEF BufferLabels
<1>3. /\ FamilyTypeOK' /\ FamilyInv' /\ PcOK(Labels)'
      /\ Ready /\ Ready'
      /\ pc[c] \in from /\ pc'[c] = l
      /\ \A d \in Child : d # c => pc'[d] = pc[d]
  BY <1>1, <1>2, ChildMoves
<1>4. sem[2] = 1 /\ sem'[2] = 0
  BY <1>3 DEF BufferInv, BinaryInv
<1>5. \A d \in Child : ~InCritical(d)
  BY <1>3, <1>4 DEF BufferInv, BinaryInv
<1>6. \A d \in Child : InCritical(d)' <=> d = c
  BY <1>2, <1>3, <1>5 DEF InCritical, Critical
<1>7. MutualExclusion' /\ BinaryInv'
  BY <1>4, <1>6 DEF MutualExclusion, BinaryInv
<1>8. BufferTypeOK'
  BY <1>3 DEF BufferInv, BufferTypeOK, buffer
<1>9. PointerInv'
  BY <1>5 DEF BufferInv, PointerInv, buffer, InCritical, ProducerPcs, ConsumerPcs
<1> QED
  BY <1>3, <1>4, <1>5, <1>6, <1>7, <1>8, <1>9 DEF BufferInv, BufferLabels

\* A child that raises SEMAPHORE_BINARY was the only one inside, and nobody
\* is afterwards.
LEMMA LeaveKeeps ==
  ASSUME NEW Labels, BufferLabels(Labels), BufferInv,
         NEW c \in Child, NEW last \in {"end_produce", "end_consume"},
         NEW l \in Labels, l \notin Critical, Move(c, {last}, l),
         sem' \in [0 .. 2 -> Nat], sem'[2] = sem[2] + 1, UNCHANGED buffer
  PROVE  /\ BufferInv' /\ BufferLabels(Labels)' /\ Ready /\ Ready'
         /\ pc[c] = last /\ pc'[c] = l
         /\ \A d \in Child : d # c => pc'[d] = pc[d]
         /\ InCritical(c) /\ sem[2] = 0
         /\ \A d \in Child : (d # c => ~InCritical(d)) /\ ~InCritical(d)'
<1>1. PcOK(Labels) /\ FamilyTypeOK /\ FamilyInv
  BY DEF BufferInv, BufferTypeOK, BufferLabels
<1>2. /\ FamilyTypeOK' /\ FamilyInv' /\ PcOK(Labels)'
      /\ Ready /\ Ready'
      /\ pc[c] = last /\ pc'[c] = l
      /\ \A d \in Child : d # c => pc'[d] = pc[d]
  BY <1>1, ChildMoves
<1>3. InCritical(c)
  BY <1>2 DEF InCritical, ProducerPcs, ConsumerPcs
<1>4. \A d \in Child : d # c => ~InCritical(d)
  BY <1>3 DEF BufferInv, MutualExclusion
<1>5. \A d \in Child : ~InCritical(d)'
  BY <1>2, <1>4 DEF InCritical, Critical
<1>6. sem[2] = 0 /\ sem'[2] = 1
  BY <1>2, <1>3 DEF BufferInv, BinaryInv
<1>7. MutualExclusion' /\ BinaryInv'
  BY <1>5, <1>6 DEF MutualExclusion, BinaryInv
<1>8. BufferTypeOK'
  BY <1>2 DEF BufferInv, BufferTypeOK, buffer
<1>9. PointerInv'
  <2>1. \A d \in Child : pc[d] \notin {"next", "wrapletter", "wrapp", "wrapc"}
    BY <1>2, <1>4 DEF InCritical, ProducerPcs, ConsumerPcs
  <2> QED
    BY <2>1 DEF BufferInv, PointerInv, buffer
<1> QED
  BY <1>2, <1>3, <1>4, <1>5, <1>6, <1>7, <1>8, <1>9 DEF BufferInv, BufferLabels
-----------------------------------------------------------------------------
(* The statements of a critical section. *)

\* What every statement keeps; the pointers and the letter are left to each.
LEMMA StatementKeeps ==
  ASSUME NEW Labels, BufferLabels(Labels), BufferInv, NEW c \in Child,
         NEW from \in Critical, NEW to \in Critical, Statement(c, from, to)
  PROVE  /\ FamilyTypeOK' /\ FamilyInv' /\ BufferLabels(Labels)'
         /\ Ready /\ Ready'
         /\ MutualExclusion' /\ BinaryInv' /\ sem' = sem /\ sem \in [0 .. 2 -> Nat]
         /\ pc[c] = from /\ pc'[c] = to
         /\ \A d \in Child : d # c => pc'[d] = pc[d] /\ pc[d] \notin Critical
<1>1. PcOK(Labels) /\ FamilyTypeOK /\ FamilyInv /\ sem \in [0 .. 2 -> Nat]
  BY DEF BufferInv, BufferTypeOK, BufferLabels
<1>2. to \in Labels /\ Move(c, {from}, to) /\ sem' = sem
  BY DEF BufferLabels, Statement
<1>3. /\ FamilyTypeOK' /\ FamilyInv' /\ PcOK(Labels)'
      /\ Ready /\ Ready'
      /\ pc[c] = from /\ pc'[c] = to
      /\ \A d \in Child : d # c => pc'[d] = pc[d]
  BY <1>1, <1>2, ChildMoves
<1>4. \A d \in Child : InCritical(d)' <=> InCritical(d)
  BY <1>3 DEF InCritical, Critical
<1>5. MutualExclusion' /\ BinaryInv'
  BY <1>2, <1>3, <1>4 DEF BufferInv, MutualExclusion, BinaryInv
<1>6. \A d \in Child : d # c => pc[d] \notin Critical
  BY <1>3 DEF BufferInv, MutualExclusion, InCritical, Critical
<1> QED
  BY <1>1, <1>2, <1>3, <1>5, <1>6 DEF BufferLabels

\* The producer's statements keep the invariant.
LEMMA ProduceKeeps ==
  ASSUME NEW Labels, BufferLabels(Labels), BufferInv, NEW c \in Child, Produce(c)
  PROVE  /\ BufferInv' /\ BufferLabels(Labels)' /\ sem' = sem
         /\ Ready /\ Ready'
         /\ pc[c] \in Critical /\ pc'[c] \in Critical
         /\ \A d \in Child : d # c => pc'[d] = pc[d]
         /\ \A d \in Child : InCritical(d)' <=> InCritical(d)
<1>1. {"store", "next", "wrapletter", "wrapp", "end_produce"} \subseteq Critical
  BY LabelsDisjoint
<1>2. CASE Store(c)
  <2>1. /\ FamilyTypeOK' /\ FamilyInv' /\ BufferLabels(Labels)'
        /\ MutualExclusion' /\ BinaryInv' /\ sem' = sem /\ sem \in [0 .. 2 -> Nat]
        /\ pc[c] = "store" /\ pc'[c] = "next" /\ Ready /\ Ready'
        /\ \A d \in Child : d # c => pc'[d] = pc[d] /\ pc[d] \notin Critical
    BY <1>1, <1>2, StatementKeeps DEF Store
  <2>2. producep # ELEMENTS /\ letter # LETTERS /\ consumep # ELEMENTS
    BY <1>2, <2>1, LabelsDisjoint, BufferAssumption DEF BufferInv, PointerInv, Store
  <2>3. BufferTypeOK'
    BY <1>2, <2>1, <2>2, BufferAssumption DEF BufferInv, BufferTypeOK, Store
  <2>4. PointerInv'
    BY <1>2, <2>1, <2>2 DEF Store, PointerInv
  <2>5. \A d \in Child : InCritical(d)' <=> InCritical(d)
    BY <1>1, <2>1 DEF InCritical, Critical
  <2> QED
    BY <1>1, <2>1, <2>3, <2>4, <2>5 DEF BufferInv
<1>3. CASE NextLetter(c)
  <2>1. /\ FamilyTypeOK' /\ FamilyInv' /\ BufferLabels(Labels)'
        /\ MutualExclusion' /\ BinaryInv' /\ sem' = sem /\ sem \in [0 .. 2 -> Nat]
        /\ pc[c] = "next" /\ pc'[c] = "wrapletter" /\ Ready /\ Ready'
        /\ \A d \in Child : d # c => pc'[d] = pc[d] /\ pc[d] \notin Critical
    BY <1>1, <1>3, StatementKeeps DEF NextLetter
  <2>2. letter # LETTERS /\ consumep # ELEMENTS
    BY <1>3, <2>1, LabelsDisjoint, BufferAssumption DEF BufferInv, PointerInv, NextLetter
  <2>3. BufferTypeOK'
    BY <1>3, <2>1, <2>2, BufferAssumption DEF BufferInv, BufferTypeOK, NextLetter
  <2>4. PointerInv'
    BY <1>3, <2>1, <2>2 DEF NextLetter, PointerInv
  <2>5. \A d \in Child : InCritical(d)' <=> InCritical(d)
    BY <1>1, <2>1 DEF InCritical, Critical
  <2> QED
    BY <1>1, <2>1, <2>3, <2>4, <2>5 DEF BufferInv
<1>4. CASE WrapLetter(c)
  <2>1. /\ FamilyTypeOK' /\ FamilyInv' /\ BufferLabels(Labels)'
        /\ MutualExclusion' /\ BinaryInv' /\ sem' = sem /\ sem \in [0 .. 2 -> Nat]
        /\ pc[c] = "wrapletter" /\ pc'[c] = "wrapp" /\ Ready /\ Ready'
        /\ \A d \in Child : d # c => pc'[d] = pc[d] /\ pc[d] \notin Critical
    BY <1>1, <1>4, StatementKeeps DEF WrapLetter
  <2>2. consumep # ELEMENTS /\ letter' # LETTERS
    BY <1>4, <2>1, LabelsDisjoint, BufferAssumption DEF BufferInv, PointerInv, WrapLetter
  <2>3. BufferTypeOK'
    BY <1>4, <2>1, <2>2, BufferAssumption DEF BufferInv, BufferTypeOK, WrapLetter
  <2>4. PointerInv'
    BY <1>4, <2>1, <2>2 DEF WrapLetter, PointerInv
  <2>5. \A d \in Child : InCritical(d)' <=> InCritical(d)
    BY <1>1, <2>1 DEF InCritical, Critical
  <2> QED
    BY <1>1, <2>1, <2>3, <2>4, <2>5 DEF BufferInv
<1>5. CASE WrapProducep(c)
  <2>1. /\ FamilyTypeOK' /\ FamilyInv' /\ BufferLabels(Labels)'
        /\ MutualExclusion' /\ BinaryInv' /\ sem' = sem /\ sem \in [0 .. 2 -> Nat]
        /\ pc[c] = "wrapp" /\ pc'[c] = "end_produce" /\ Ready /\ Ready'
        /\ \A d \in Child : d # c => pc'[d] = pc[d] /\ pc[d] \notin Critical
    BY <1>1, <1>5, StatementKeeps DEF WrapProducep
  <2>2. consumep # ELEMENTS /\ letter # LETTERS /\ producep' # ELEMENTS
    BY <1>5, <2>1, LabelsDisjoint, BufferAssumption DEF BufferInv, PointerInv, WrapProducep
  <2>3. BufferTypeOK'
    BY <1>5, <2>1, <2>2, BufferAssumption DEF BufferInv, BufferTypeOK, WrapProducep
  <2>4. PointerInv'
    BY <1>5, <2>1, <2>2 DEF WrapProducep, PointerInv
  <2>5. \A d \in Child : InCritical(d)' <=> InCritical(d)
    BY <1>1, <2>1 DEF InCritical, Critical
  <2> QED
    BY <1>1, <2>1, <2>3, <2>4, <2>5 DEF BufferInv
<1> QED
  BY <1>2, <1>3, <1>4, <1>5 DEF Produce

\* So do the consumer's.
LEMMA ConsumeKeeps ==
  ASSUME NEW Labels, BufferLabels(Labels), BufferInv, NEW c \in Child, Consume(c)
  PROVE  /\ BufferInv' /\ BufferLabels(Labels)' /\ sem' = sem
         /\ Ready /\ Ready'
         /\ pc[c] \in Critical /\ pc'[c] \in Critical
         /\ \A d \in Child : d # c => pc'[d] = pc[d]
         /\ \A d \in Child : InCritical(d)' <=> InCritical(d)
<1>1. {"get", "advance", "wrapc", "end_consume"} \subseteq Critical
  BY LabelsDisjoint
<1>2. CASE Get(c)
  <2>1. /\ FamilyTypeOK' /\ FamilyInv' /\ BufferLabels(Labels)'
        /\ MutualExclusion' /\ BinaryInv' /\ sem' = sem /\ sem \in [0 .. 2 -> Nat]
        /\ pc[c] = "get" /\ pc'[c] = "advance" /\ Ready /\ Ready'
        /\ \A d \in Child : d # c => pc'[d] = pc[d] /\ pc[d] \notin Critical
    BY <1>1, <1>2, StatementKeeps DEF Get
  <2>2. producep # ELEMENTS /\ letter # LETTERS /\ consumep # ELEMENTS
    BY <1>2, <2>1, LabelsDisjoint, BufferAssumption DEF BufferInv, PointerInv, Get
  <2>3. BufferTypeOK'
    BY <1>2, <2>1, <2>2, BufferAssumption DEF BufferInv, BufferTypeOK, Get
  <2>4. PointerInv'
    BY <1>2, <2>1, <2>2 DEF Get, PointerInv
  <2>5. \A d \in Child : InCritical(d)' <=> InCritical(d)
    BY <1>1, <2>1 DEF InCritical, Critical
  <2> QED
    BY <1>1, <2>1, <2>3, <2>4, <2>5 DEF BufferInv
<1>3. CASE Advance(c)
  <2>1. /\ FamilyTypeOK' /\ FamilyInv' /\ BufferLabels(Labels)'
        /\ MutualExclusion' /\ BinaryInv' /\ sem' = sem /\ sem \in [0 .. 2 -> Nat]
        /\ pc[c] = "advance" /\ pc'[c] = "wrapc" /\ Ready /\ Ready'
        /\ \A d \in Child : d # c => pc'[d] = pc[d] /\ pc[d] \notin Critical
    BY <1>1, <1>3, StatementKeeps DEF Advance
  <2>2. producep # ELEMENTS /\ letter # LETTERS /\ consumep # ELEMENTS
    BY <1>3, <2>1, LabelsDisjoint, BufferAssumption DEF BufferInv, PointerInv, Advance
  <2>3. BufferTypeOK'
    BY <1>3, <2>1, <2>2, BufferAssumption DEF BufferInv, BufferTypeOK, Advance
  <2>4. PointerInv'
    BY <1>3, <2>1, <2>2 DEF Advance, PointerInv
  <2>5. \A d \in Child : InCritical(d)' <=> InCritical(d)
    BY <1>1, <2>1 DEF InCritical, Critical
  <2> QED
    BY <1>1, <2>1, <2>3, <2>4, <2>5 DEF BufferInv
<1>4. CASE WrapConsumep(c)
  <2>1. /\ FamilyTypeOK' /\ FamilyInv' /\ BufferLabels(Labels)'
        /\ MutualExclusion' /\ BinaryInv' /\ sem' = sem /\ sem \in [0 .. 2 -> Nat]
        /\ pc[c] = "wrapc" /\ pc'[c] = "end_consume" /\ Ready /\ Ready'
        /\ \A d \in Child : d # c => pc'[d] = pc[d] /\ pc[d] \notin Critical
    BY <1>1, <1>4, StatementKeeps DEF WrapConsumep
  <2>2. producep # ELEMENTS /\ letter # LETTERS /\ consumep' # ELEMENTS
    BY <1>4, <2>1, LabelsDisjoint, BufferAssumption DEF BufferInv, PointerInv, WrapConsumep
  <2>3. BufferTypeOK'
    BY <1>4, <2>1, <2>2, BufferAssumption DEF BufferInv, BufferTypeOK, WrapConsumep
  <2>4. PointerInv'
    BY <1>4, <2>1, <2>2 DEF WrapConsumep, PointerInv
  <2>5. \A d \in Child : InCritical(d)' <=> InCritical(d)
    BY <1>1, <2>1 DEF InCritical, Critical
  <2> QED
    BY <1>1, <2>1, <2>3, <2>4, <2>5 DEF BufferInv
<1> QED
  BY <1>2, <1>3, <1>4 DEF Consume

\* The invariant keeps the pointers in bounds wherever they are used.
LEMMA BoundsFollow == BufferInv => PointersInBounds
<1> SUFFICES ASSUME BufferInv, NEW c \in Child
             PROVE  /\ pc[c] = "store" => producep < ELEMENTS
                    /\ pc[c] = "get" => consumep < ELEMENTS
  BY DEF PointersInBounds
<1>1. producep \in 0 .. ELEMENTS /\ consumep \in 0 .. ELEMENTS
  BY DEF BufferInv, BufferTypeOK
<1>2. pc[c] \in {"store", "get"} => \A d \in Child : d # c => ~InCritical(d)
  BY DEF BufferInv, MutualExclusion, InCritical, ProducerPcs, ConsumerPcs
<1>3. pc[c] \in {"store", "get"} => producep # ELEMENTS /\ consumep # ELEMENTS
  BY <1>2 DEF BufferInv, PointerInv, InCritical, ProducerPcs, ConsumerPcs
<1> QED
  BY <1>1, <1>3, BufferAssumption
-----------------------------------------------------------------------------
(* Letters in a circular buffer: facts about Slot and LettersFrom alone. *)

\* Slot wraps an offset round, and does so consistently.
LEMMA SlotWraps ==
  ASSUME NEW x \in 0 .. 2 * ELEMENTS
  PROVE  /\ Slot(x) \in 0 .. ELEMENTS - 1
         /\ x < ELEMENTS => Slot(x) = x
         /\ \A y \in 0 .. 2 * ELEMENTS :
              /\ x < y /\ y < x + ELEMENTS => Slot(x) # Slot(y)
              /\ /\ x < 2 * ELEMENTS /\ y < 2 * ELEMENTS /\ Slot(x) = Slot(y)
                 => Slot(x + 1) = Slot(y + 1)
BY BufferAssumption DEF Slot

\* n letters from h are a sequence of n elements.
LEMMA LettersAreSeq ==
  ASSUME NEW Values, NEW s \in [0 .. ELEMENTS - 1 -> Values],
         NEW h \in 0 .. ELEMENTS, NEW n \in 0 .. ELEMENTS
  PROVE  LettersFrom(s, h, n) \in Seq(Values) /\ Len(LettersFrom(s, h, n)) = n
<1>1. ELEMENTS \in Nat \ {0}
  BY BufferAssumption
<1>2. \A k \in 1 .. n : h + k - 1 \in 0 .. 2 * ELEMENTS /\ s[Slot(h + k - 1)] \in Values
  BY <1>1, SlotWraps
<1>3. LettersFrom(s, h, n) \in [1 .. n -> Values]
  BY <1>2 DEF LettersFrom
<1>4. n \in Nat
  BY <1>1
<1> QED
  BY <1>3, <1>4, SeqDef

\* None of them exactly if n is 0.
LEMMA NoLetters ==
  ASSUME NEW Values, NEW s \in [0 .. ELEMENTS - 1 -> Values],
         NEW h \in 0 .. ELEMENTS, NEW n \in 0 .. ELEMENTS
  PROVE  LettersFrom(s, h, n) = <<>> <=> n = 0
<1> DEFINE letters == LettersFrom(s, h, n)
<1>1. letters \in Seq(Values) /\ Len(letters) = n
  BY LettersAreSeq
<1> HIDE DEF letters
<1>2. letters = <<>> <=> n = 0
  BY <1>1, EmptySeq
<1> QED
  BY <1>2 DEF letters

\* A letter stored behind the last one is appended.
LEMMA LettersGrow ==
  ASSUME NEW Values, NEW s \in [0 .. ELEMENTS - 1 -> Values], NEW l \in Values,
         NEW h \in 0 .. ELEMENTS, NEW n \in 0 .. ELEMENTS - 1
  PROVE  LettersFrom([s EXCEPT ![Slot(h + n)] = l], h, n + 1)
           = Append(LettersFrom(s, h, n), l)
<1>1. ELEMENTS \in Nat \ {0} /\ n \in 0 .. ELEMENTS /\ n + 1 \in 0 .. ELEMENTS
  BY BufferAssumption
<1>2. PICK m \in 0 .. ELEMENTS : m = n + 1
  BY <1>1
<1> DEFINE t == [s EXCEPT ![Slot(h + n)] = l]
           grown == LettersFrom(t, h, m)
           old == LettersFrom(s, h, n)
<1>3. /\ t \in [0 .. ELEMENTS - 1 -> Values]
      /\ \A x \in 0 .. ELEMENTS - 1 : t[x] = IF x = Slot(h + n) THEN l ELSE s[x]
  OBVIOUS
<1> HIDE DEF t
<1>4. /\ grown \in Seq(Values) /\ Len(grown) = m
      /\ \A k \in 1 .. m : grown[k] = t[Slot(h + k - 1)]
  <2>1. grown \in Seq(Values) /\ Len(grown) = m
    BY <1>3, LettersAreSeq
  <2> QED
    BY <2>1 DEF LettersFrom
<1>5. /\ old \in Seq(Values) /\ Len(old) = n
      /\ \A k \in 1 .. n : old[k] = s[Slot(h + k - 1)]
  <2>1. old \in Seq(Values) /\ Len(old) = n
    BY <1>1, LettersAreSeq
  <2> QED
    BY <2>1 DEF LettersFrom
<1> HIDE DEF grown, old
<1>6. \A k \in 1 .. n : grown[k] = old[k]
  <2> SUFFICES ASSUME NEW k \in 1 .. n
               PROVE  grown[k] = old[k]
    OBVIOUS
  <2>1. /\ h + k - 1 \in 0 .. 2 * ELEMENTS /\ h + n \in 0 .. 2 * ELEMENTS
        /\ h + k - 1 < h + n /\ h + n < h + k - 1 + ELEMENTS
    BY <1>1
  <2>2. Slot(h + k - 1) # Slot(h + n) /\ Slot(h + k - 1) \in 0 .. ELEMENTS - 1
    BY <2>1, SlotWraps
  <2> QED
    BY <1>1, <1>2, <1>3, <1>4, <1>5, <2>2
<1>7. grown[n + 1] = l
  <2>1. h + (n + 1) - 1 = h + n /\ h + n \in 0 .. 2 * ELEMENTS /\ n + 1 \in 1 .. n + 1
    BY <1>1
  <2>2. t[Slot(h + n)] = l
    BY <1>3, <2>1, SlotWraps
  <2> QED
    BY <1>2, <1>4, <2>1, <2>2
<1>8. /\ Append(old, l) \in Seq(Values) /\ Len(Append(old, l)) = n + 1
      /\ \A k \in 1 .. n : Append(old, l)[k] = old[k]
      /\ Append(old, l)[n + 1] = l
  BY <1>5, AppendProperties
<1>9. \A k \in 1 .. n + 1 : grown[k] = Append(old, l)[k]
  BY <1>1, <1>6, <1>7, <1>8
<1>10. grown = Append(old, l)
  BY <1>2, <1>4, <1>8, <1>9, SeqEqual
<1> QED
  BY <1>2, <1>10 DEF grown, old, t

\* The first letter is the one at h, the others follow it.
LEMMA LettersShrink ==
  ASSUME NEW Values, NEW s \in [0 .. ELEMENTS - 1 -> Values],
         NEW h \in 0 .. ELEMENTS - 1, NEW n \in 1 .. ELEMENTS
  PROVE  /\ Head(LettersFrom(s, h, n)) = s[h]
         /\ Tail(LettersFrom(s, h, n)) = LettersFrom(s, h + 1, n - 1)
<1>1. /\ ELEMENTS \in Nat \ {0} /\ h \in 0 .. ELEMENTS /\ h + 1 \in 0 .. ELEMENTS
      /\ n \in 0 .. ELEMENTS /\ n - 1 \in 0 .. ELEMENTS
  BY BufferAssumption
<1>2. PICK g \in 0 .. ELEMENTS, m \in 0 .. ELEMENTS : g = h + 1 /\ m = n - 1
  BY <1>1
<1> DEFINE old == LettersFrom(s, h, n)
           rest == LettersFrom(s, g, m)
<1>3. /\ old \in Seq(Values) /\ Len(old) = n /\ (old = <<>> <=> n = 0)
      /\ \A k \in 1 .. n : old[k] = s[Slot(h + k - 1)]
  <2>1. old \in Seq(Values) /\ Len(old) = n
    BY <1>1, LettersAreSeq
  <2>2. old = <<>> <=> n = 0
    BY <1>1, NoLetters
  <2> QED
    BY <2>1, <2>2 DEF LettersFrom
<1>4. /\ rest \in Seq(Values) /\ Len(rest) = m
      /\ \A k \in 1 .. m : rest[k] = s[Slot(g + k - 1)]
  <2>1. rest \in Seq(Values) /\ Len(rest) = m
    BY LettersAreSeq
  <2> QED
    BY <2>1 DEF LettersFrom
<1> HIDE DEF old, rest
<1>5. Head(old) = s[h]
  <2>1. 1 \in 1 .. n /\ h + 1 - 1 = h
    BY <1>1
  <2>2. Slot(h) = h
    BY <1>1, SlotWraps
  <2> QED
    BY <1>3, <2>1, <2>2
<1>6. /\ Tail(old) \in Seq(Values) /\ Len(Tail(old)) = n - 1
      /\ \A k \in 1 .. n - 1 : Tail(old)[k] = old[k + 1]
  BY <1>1, <1>3, HeadTailProperties
<1>7. \A k \in 1 .. n - 1 : Tail(old)[k] = rest[k]
  <2> SUFFICES ASSUME NEW k \in 1 .. n - 1
               PROVE  Tail(old)[k] = rest[k]
    OBVIOUS
  <2>1. k + 1 \in 1 .. n /\ h + (k + 1) - 1 = h + 1 + k - 1
    BY <1>1
  <2> QED
    BY <1>2, <1>3, <1>4, <1>6, <2>1
<1>8. Tail(old) = rest
  BY <1>1, <1>2, <1>4, <1>6, <1>7, SeqEqual
<1> QED
  BY <1>2, <1>5, <1>8 DEF old, rest

\* Behind the end of the buffer is its beginning.
LEMMA LettersGoRound ==
  ASSUME NEW s, NEW n \in 0 .. ELEMENTS
  PROVE  LettersFrom(s, ELEMENTS, n) = LettersFrom(s, 0, n)
<1>1. ELEMENTS \in Nat \ {0}
  BY BufferAssumption
<1>2. \A k \in 1 .. n : Slot(ELEMENTS + k - 1) = Slot(0 + k - 1)
  BY <1>1 DEF Slot
<1> QED
  BY <1>2 DEF LettersFrom
-----------------------------------------------------------------------------
(* What the steps do to the letters in the queue, if n letters are in it.  *)

\* While one child executes a statement, its label is the only one of a
\* critical section that any child stands at.
LEMMA OnlyInside ==
  ASSUME NEW Labels, BufferLabels(Labels), BufferInv, NEW c \in Child,
         NEW from \in Critical, NEW to \in Critical, Statement(c, from, to)
  PROVE  \A l \in Critical : /\ (\E d \in Child : pc[d] = l) <=> l = from
                             /\ (\E d \in Child : pc'[d] = l) <=> l = to
<1>1. /\ pc[c] = from /\ pc'[c] = to
      /\ \A d \in Child : d # c => pc'[d] = pc[d] /\ pc[d] \notin Critical
  BY StatementKeeps
<1> QED
  BY <1>1

LEMMA HeadInBounds ==
  ASSUME BufferInv
  PROVE  QueueHead \in 0 .. ELEMENTS
<1>1. consumep \in 0 .. ELEMENTS /\ ELEMENTS \in Nat
  BY BufferAssumption DEF BufferInv, BufferTypeOK
<1>2. ~(consumep = ELEMENTS /\ \E c \in Child : pc[c] = "advance")
  BY DEF BufferInv, MutualExclusion, PointerInv, InCritical, ConsumerPcs
<1> QED
  BY <1>1, <1>2 DEF QueueHead

\* A step that leaves the shared memory alone and moves no child to or from
\* the labels the queue depends on changes nothing about it.
LEMMA QueueUntouched ==
  ASSUME UNCHANGED buffer,
         (\E c \in Child : pc'[c] = "advance") <=> \E c \in Child : pc[c] = "advance",
         (\E c \in Child : pc'[c] = "next") <=> \E c \in Child : pc[c] = "next"
  PROVE  /\ storage' = storage /\ QueueHead' = QueueHead /\ out' = out
         /\ \A n : OrderInv(n)' <=> OrderInv(n)
<1>1. storage' = storage /\ consumep' = consumep /\ producep' = producep
      /\ letter' = letter /\ out' = out
  BY DEF buffer
<1>2. QueueHead' = QueueHead
  BY <1>1 DEF QueueHead
<1>3. Upcoming' = Upcoming
  BY <1>1 DEF Upcoming, SuccLetter
<1> QED
  BY <1>1, <1>2, <1>3 DEF OrderInv, NewestOf, SuccLetter, Slot

\* The store puts the letter that follows the one put last.
LEMMA StorePuts ==
  ASSUME NEW Labels, BufferLabels(Labels), BufferInv, NEW c \in Child, Store(c),
         NEW n \in 0 .. ELEMENTS - 1, OrderInv(n)
  PROVE  /\ LettersFrom(storage', QueueHead', n + 1)
             = Append(LettersFrom(storage, QueueHead, n), SuccLetter(NewestOf(n)))
         /\ out' = out
         /\ OrderInv(n + 1)'
<1>1. {"store", "next", "advance"} \subseteq Critical
  BY LabelsDisjoint
<1>2. /\ \A l \in Critical : (\E d \in Child : pc[d] = l) <=> l = "store"
      /\ \A l \in Critical : (\E d \in Child : pc'[d] = l) <=> l = "next"
  BY <1>1, OnlyInside DEF Store
<1>3. QueueHead' = consumep /\ QueueHead = consumep /\ out' = out
  BY <1>1, <1>2 DEF QueueHead, Store, BufferInv, BufferTypeOK
<1>4. /\ producep \in 0 .. ELEMENTS - 1 /\ letter \in 0 .. LETTERS - 1
      /\ consumep \in 0 .. ELEMENTS
      /\ storage \in [0 .. ELEMENTS - 1 -> {Nul} \cup 0 .. LETTERS - 1]
  BY <1>1, <1>2, BufferAssumption, LabelsDisjoint
    DEF BufferInv, BufferTypeOK, PointerInv
<1>5. SuccLetter(NewestOf(n)) = letter
  BY <1>1, <1>2, <1>4, BufferAssumption DEF OrderInv, Upcoming
<1>6. Slot(consumep + n) = producep
  <2>1. producep \in 0 .. 2 * ELEMENTS /\ producep < ELEMENTS
    BY <1>4, BufferAssumption
  <2> QED
    BY <1>3, <2>1, SlotWraps DEF OrderInv
<1>7. storage' = [storage EXCEPT ![Slot(consumep + n)] = letter]
  BY <1>6 DEF Store
<1>8. LettersFrom(storage', QueueHead', n + 1)
        = Append(LettersFrom(storage, QueueHead, n), letter)
  <2> DEFINE Values == {Nul} \cup 0 .. LETTERS - 1
  <2>1. letter \in Values /\ storage \in [0 .. ELEMENTS - 1 -> Values]
    BY <1>4
  <2> HIDE DEF Values
  <2>2. LettersFrom([storage EXCEPT ![Slot(consumep + n)] = letter], consumep, n + 1)
          = Append(LettersFrom(storage, consumep, n), letter)
    BY <1>4, <2>1, LettersGrow
  <2> QED
    BY <1>3, <1>7, <2>2
<1>9. (Slot(QueueHead + (n + 1)) = Slot(producep))'
  <2>1. /\ consumep + n \in 0 .. 2 * ELEMENTS /\ producep \in 0 .. 2 * ELEMENTS
        /\ consumep + n < 2 * ELEMENTS /\ producep < 2 * ELEMENTS
        /\ Slot(consumep + n) = Slot(producep)
    BY <1>3, <1>4, BufferAssumption DEF OrderInv
  <2>2. Slot(consumep + n + 1) = Slot(producep + 1)
    BY <2>1, SlotWraps
  <2>3. consumep + n + 1 = consumep + (n + 1)
    BY <1>4
  <2> QED
    BY <1>3, <2>2, <2>3 DEF Store, Slot
<1>10. (SuccLetter(NewestOf(n + 1)) = Upcoming)'
  <2>1. NewestOf(n + 1)' = letter
    <3>1. n + 1 # 0 /\ consumep + (n + 1) - 1 = consumep + n
      BY <1>4
    <3>2. storage'[Slot(consumep + n)] = letter
      BY <1>4, <1>6, <1>7
    <3> QED
      BY <1>3, <3>1, <3>2 DEF NewestOf, Slot
  <2>2. Upcoming' = SuccLetter(letter)
    BY <1>1, <1>2 DEF Upcoming, Store, SuccLetter
  <2> QED
    BY <2>1, <2>2 DEF SuccLetter
<1> QED
  BY <1>3, <1>5, <1>8, <1>9, <1>10 DEF OrderInv

\* The printf takes the oldest letter.
LEMMA GetTakes ==
  ASSUME NEW Labels, BufferLabels(Labels), BufferInv, NEW c \in Child, Get(c),
         NEW n \in 1 .. ELEMENTS, OrderInv(n)
  PROVE  /\ out' = Head(LettersFrom(storage, QueueHead, n))
         /\ LettersFrom(storage', QueueHead', n - 1)
              = Tail(LettersFrom(storage, QueueHead, n))
         /\ OrderInv(n - 1)'
<1>1. {"get", "next", "advance"} \subseteq Critical
  BY LabelsDisjoint
<1>2. /\ \A l \in Critical : (\E d \in Child : pc[d] = l) <=> l = "get"
      /\ \A l \in Critical : (\E d \in Child : pc'[d] = l) <=> l = "advance"
  BY <1>1, OnlyInside DEF Get
<1>3. /\ consumep \in 0 .. ELEMENTS - 1
      /\ storage \in [0 .. ELEMENTS - 1 -> {Nul} \cup 0 .. LETTERS - 1]
  BY <1>1, <1>2, BufferAssumption, LabelsDisjoint
    DEF BufferInv, BufferTypeOK, PointerInv
<1>4. /\ QueueHead' = consumep + 1 /\ QueueHead = consumep
      /\ storage' = storage /\ out' = storage[consumep]
      /\ producep' = producep /\ letter' = letter
  BY <1>1, <1>2, <1>3 DEF QueueHead, Get
<1>5. /\ Head(LettersFrom(storage, consumep, n)) = storage[consumep]
      /\ Tail(LettersFrom(storage, consumep, n))
           = LettersFrom(storage, consumep + 1, n - 1)
  BY <1>3, LettersShrink
<1>6. consumep + 1 + (n - 1) = consumep + n /\ n - 1 \in Nat /\ n # 0
  BY <1>3, BufferAssumption
<1>7. (Slot(QueueHead + (n - 1)) = Slot(producep))'
  BY <1>4, <1>6 DEF OrderInv, Slot
<1>8. NewestOf(n - 1)' = NewestOf(n)
  <2>1. CASE n = 1
    <3>1. n - 1 = 0 /\ consumep + n - 1 = consumep
      BY <1>3, <2>1
    <3>2. Slot(consumep) = consumep
      BY <1>3, BufferAssumption DEF Slot
    <3> QED
      BY <1>4, <1>6, <3>1, <3>2 DEF NewestOf
  <2>2. CASE n # 1
    <3>1. n - 1 # 0 /\ consumep + 1 + (n - 1) - 1 = consumep + n - 1
      BY <1>3, <2>2
    <3> QED
      BY <1>4, <1>6, <3>1 DEF NewestOf, Slot
  <2> QED
    BY <2>1, <2>2
<1>9. Upcoming' = Upcoming
  BY <1>1, <1>2, <1>4 DEF Upcoming, SuccLetter
<1> QED
  BY <1>4, <1>5, <1>7, <1>8, <1>9 DEF OrderInv, SuccLetter

\* The other statements leave the queue as it is.
LEMMA OtherStatements ==
  ASSUME NEW Labels, BufferLabels(Labels), BufferInv, NEW c \in Child,
         NEW n \in 0 .. ELEMENTS, OrderInv(n),
         \/ NextLetter(c)
         \/ WrapLetter(c)
         \/ WrapProducep(c)
         \/ Advance(c)
         \/ WrapConsumep(c)
  PROVE  /\ LettersFrom(storage', QueueHead', n) = LettersFrom(storage, QueueHead, n)
         /\ out' = out
         /\ OrderInv(n)'
<1>1. Critical = {"store", "next", "wrapletter", "wrapp", "end_produce",
                  "get", "advance", "wrapc", "end_consume"}
  BY LabelsDisjoint
<1>2. /\ ELEMENTS \in Nat \ {0} /\ LETTERS \in Nat \ {0}
      /\ producep \in 0 .. ELEMENTS /\ consumep \in 0 .. ELEMENTS
      /\ letter \in 0 .. LETTERS
  BY BufferAssumption DEF BufferInv, BufferTypeOK
<1>3. CASE NextLetter(c)
  <2>1. /\ \A l \in Critical : (\E d \in Child : pc[d] = l) <=> l = "next"
        /\ \A l \in Critical : (\E d \in Child : pc'[d] = l) <=> l = "wrapletter"
    BY <1>1, <1>3, OnlyInside DEF NextLetter
  <2>2. letter # LETTERS
    BY <1>1, <2>1 DEF BufferInv, PointerInv
  <2>3. Upcoming' = Upcoming
    BY <1>1, <1>2, <1>3, <2>1, <2>2 DEF Upcoming, SuccLetter, NextLetter
  <2>4. QueueHead' = QueueHead
    BY <1>1, <1>3, <2>1 DEF QueueHead, NextLetter
  <2> QED
    BY <1>3, <2>3, <2>4 DEF OrderInv, NewestOf, SuccLetter, Slot, NextLetter
<1>4. CASE WrapLetter(c)
  <2>1. /\ \A l \in Critical : (\E d \in Child : pc[d] = l) <=> l = "wrapletter"
        /\ \A l \in Critical : (\E d \in Child : pc'[d] = l) <=> l = "wrapp"
    BY <1>1, <1>4, OnlyInside DEF WrapLetter
  <2>2. Upcoming' = Upcoming
    BY <1>1, <1>2, <1>4, <2>1 DEF Upcoming, SuccLetter, WrapLetter
  <2>3. QueueHead' = QueueHead
    BY <1>1, <1>4, <2>1 DEF QueueHead, WrapLetter
  <2> QED
    BY <1>4, <2>2, <2>3 DEF OrderInv, NewestOf, SuccLetter, Slot, WrapLetter
<1>5. CASE WrapProducep(c)
  <2>1. /\ \A l \in Critical : (\E d \in Child : pc[d] = l) <=> l = "wrapp"
        /\ \A l \in Critical : (\E d \in Child : pc'[d] = l) <=> l = "end_produce"
    BY <1>1, <1>5, OnlyInside DEF WrapProducep
  <2>2. Upcoming' = Upcoming
    BY <1>1, <1>5, <2>1 DEF Upcoming, SuccLetter, WrapProducep
  <2>3. QueueHead' = QueueHead
    BY <1>1, <1>5, <2>1 DEF QueueHead, WrapProducep
  <2>4. Slot(producep)' = Slot(producep)
    BY <1>2, <1>5 DEF Slot, WrapProducep
  <2> QED
    BY <1>5, <2>2, <2>3, <2>4 DEF OrderInv, NewestOf, SuccLetter, Slot, WrapProducep
<1>6. CASE Advance(c)
  <2>1. /\ \A l \in Critical : (\E d \in Child : pc[d] = l) <=> l = "advance"
        /\ \A l \in Critical : (\E d \in Child : pc'[d] = l) <=> l = "wrapc"
    BY <1>1, <1>6, OnlyInside DEF Advance
  <2>2. Upcoming' = Upcoming
    BY <1>1, <1>6, <2>1 DEF Upcoming, SuccLetter, Advance
  <2>3. QueueHead' = QueueHead
    BY <1>1, <1>2, <1>6, <2>1 DEF QueueHead, Advance
  <2> QED
    BY <1>6, <2>2, <2>3 DEF OrderInv, NewestOf, SuccLetter, Slot, Advance
<1>7. CASE WrapConsumep(c)
  <2>1. /\ \A l \in Critical : (\E d \in Child : pc[d] = l) <=> l = "wrapc"
        /\ \A l \in Critical : (\E d \in Child : pc'[d] = l) <=> l = "end_consume"
    BY <1>1, <1>7, OnlyInside DEF WrapConsumep
  <2>2. Upcoming' = Upcoming
    BY <1>1, <1>7, <2>1 DEF Upcoming, SuccLetter, WrapConsumep
  <2>3. /\ QueueHead = consumep
        /\ QueueHead' = IF consumep = ELEMENTS THEN 0 ELSE consumep
    BY <1>1, <1>2, <1>7, <2>1 DEF QueueHead, WrapConsumep
  <2>4. /\ storage' = storage /\ producep' = producep /\ letter' = letter
        /\ out' = out
    BY <1>7 DEF WrapConsumep
  <2>5. LettersFrom(storage', QueueHead', n) = LettersFrom(storage, QueueHead, n)
    BY <2>3, <2>4, LettersGoRound
  <2>6. (Slot(QueueHead + n) = Slot(producep))'
    BY <1>2, <2>3, <2>4 DEF OrderInv, Slot
  <2>7. NewestOf(n)' = NewestOf(n)
    BY <1>2, <2>3, <2>4 DEF NewestOf, Slot
  <2> QED
    BY <2>2, <2>4, <2>5, <2>6, <2>7 DEF OrderInv, SuccLetter
<1> QED
  BY <1>3, <1>4, <1>5, <1>6, <1>7

\* The newest letter of the queue, read off the sequence.
LEMMA NewestIsLast ==
  ASSUME BufferInv, NEW n \in 0 .. ELEMENTS, NEW q,
         q = LettersFrom(storage, QueueHead, n)
  PROVE  /\ Len(q) = n
         /\ q = <<>> <=> n = 0
         /\ (IF q = <<>> THEN out ELSE q[Len(q)]) = NewestOf(n)
<1> DEFINE Values == {Nul} \cup 0 .. LETTERS - 1
<1>1. storage \in [0 .. ELEMENTS - 1 -> Values] /\ QueueHead \in 0 .. ELEMENTS
  BY HeadInBounds DEF BufferInv, BufferTypeOK
<1> HIDE DEF Values
<1>2. Len(LettersFrom(storage, QueueHead, n)) = n
  BY <1>1, LettersAreSeq
<1>3. LettersFrom(storage, QueueHead, n) = <<>> <=> n = 0
  BY <1>1, NoLetters
<1>4. n # 0 => LettersFrom(storage, QueueHead, n)[n] = NewestOf(n)
  BY BufferAssumption DEF LettersFrom, NewestOf
<1> QED
  BY <1>2, <1>3, <1>4 DEF NewestOf
-----------------------------------------------------------------------------
(***************************************************************************)
(* lab_03/prod_cons.c                                                      *)
(***************************************************************************)

SysVLabels == LoopPcs \cup Critical

-----------------------------------------------------------------------------
(* What the semaphore calls do. *)

\* An array of two operations on different semaphores: when it passes, and
\* what it leaves.
LEMMA TwoOperations ==
  ASSUME NEW s \in [0 .. 2 -> Nat], NEW ops,
         ops[1].num \in 0 .. 2, ops[2].num \in 0 .. 2, ops[1].num # ops[2].num,
         ops[1].op \in Int \ {0}, ops[2].op \in Int \ {0}
  PROVE  /\ CanSemop2(s, ops) <=> /\ s[ops[1].num] + ops[1].op >= 0
                                  /\ s[ops[2].num] + ops[2].op >= 0
         /\ Semop2(s, ops) = [s EXCEPT ![ops[1].num] = @ + ops[1].op,
                                       ![ops[2].num] = @ + ops[2].op]
<1>1. Apply(s, ops[1]) = [s EXCEPT ![ops[1].num] = @ + ops[1].op]
  BY DEF Apply
<1>2. Semop2(s, ops) = [s EXCEPT ![ops[1].num] = @ + ops[1].op,
                                 ![ops[2].num] = @ + ops[2].op]
  BY <1>1 DEF Semop2, Apply
<1>3. CanSemop2(s, ops) <=> /\ s[ops[1].num] + ops[1].op >= 0
                            /\ s[ops[2].num] + ops[2].op >= 0
  BY <1>1 DEF CanSemop2, Passes
<1> QED
  BY <1>2, <1>3

\* start_produce passes only when there is a free slot and nobody is in a
\* critical section, and takes both.
LEMMA StartProduceTakes ==
  ASSUME NEW s \in [0 .. 2 -> Nat], CanSemop2(s, start_produce)
  PROVE  /\ s[0] >= 1 /\ s[2] >= 1
         /\ Semop2(s, start_produce) \in [0 .. 2 -> Nat]
         /\ Semop2(s, start_produce)[0] = s[0] - 1
         /\ Semop2(s, start_produce)[2] = s[2] - 1
         /\ Semop2(s, start_produce)[1] = s[1]
<1>1. /\ start_produce[1].num = 0 /\ start_produce[1].op = -1
      /\ start_produce[2].num = 2 /\ start_produce[2].op = -1
  BY DEF start_produce, sembuf, P
<1> QED
  BY <1>1, TwoOperations

\* It passes whenever both are there.
LEMMA StartProducePasses ==
  ASSUME NEW s \in [0 .. 2 -> Nat], s[0] >= 1, s[2] >= 1
  PROVE  CanSemop2(s, start_produce)
<1>1. /\ start_produce[1].num = 0 /\ start_produce[1].op = -1
      /\ start_produce[2].num = 2 /\ start_produce[2].op = -1
  BY DEF start_produce, sembuf, P
<1> QED
  BY <1>1, TwoOperations

\* start_consume, likewise, takes a letter and the buffer.
LEMMA StartConsumeTakes ==
  ASSUME NEW s \in [0 .. 2 -> Nat], CanSemop2(s, start_consume)
  PROVE  /\ s[1] >= 1 /\ s[2] >= 1
         /\ Semop2(s, start_consume) \in [0 .. 2 -> Nat]
         /\ Semop2(s, start_consume)[1] = s[1] - 1
         /\ Semop2(s, start_consume)[2] = s[2] - 1
         /\ Semop2(s, start_consume)[0] = s[0]
<1>1. /\ start_consume[1].num = 1 /\ start_consume[1].op = -1
      /\ start_consume[2].num = 2 /\ start_consume[2].op = -1
  BY DEF start_consume, sembuf, P
<1> QED
  BY <1>1, TwoOperations

\* It passes whenever both are there.
LEMMA StartConsumePasses ==
  ASSUME NEW s \in [0 .. 2 -> Nat], s[1] >= 1, s[2] >= 1
  PROVE  CanSemop2(s, start_consume)
<1>1. /\ start_consume[1].num = 1 /\ start_consume[1].op = -1
      /\ start_consume[2].num = 2 /\ start_consume[2].op = -1
  BY DEF start_consume, sembuf, P
<1> QED
  BY <1>1, TwoOperations

\* end_produce gives back the buffer and one letter.
LEMMA EndProduceGives ==
  ASSUME NEW s \in [0 .. 2 -> Nat]
  PROVE  /\ Semop2(s, end_produce) \in [0 .. 2 -> Nat]
         /\ Semop2(s, end_produce)[2] = s[2] + 1
         /\ Semop2(s, end_produce)[1] = s[1] + 1
         /\ Semop2(s, end_produce)[0] = s[0]
<1>1. /\ end_produce[1].num = 2 /\ end_produce[1].op = 1
      /\ end_produce[2].num = 1 /\ end_produce[2].op = 1
  BY DEF end_produce, sembuf, V
<1> QED
  BY <1>1, TwoOperations

\* end_consume gives back the buffer and one free slot.
LEMMA EndConsumeGives ==
  ASSUME NEW s \in [0 .. 2 -> Nat]
  PROVE  /\ Semop2(s, end_consume) \in [0 .. 2 -> Nat]
         /\ Semop2(s, end_consume)[2] = s[2] + 1
         /\ Semop2(s, end_consume)[0] = s[0] + 1
         /\ Semop2(s, end_consume)[1] = s[1]
<1>1. /\ end_consume[1].num = 2 /\ end_consume[1].op = 1
      /\ end_consume[2].num = 0 /\ end_consume[2].op = 1
  BY DEF end_consume, sembuf, V
<1> QED
  BY <1>1, TwoOperations
-----------------------------------------------------------------------------
(* The inductive invariant. *)

\* The slots, without a case distinction: the child in its critical section
\* is the one SEMAPHORE_BINARY misses.
LEMMA SlotsAsSum ==
  ASSUME BufferInv, Ready
  PROVE  SlotAccounting <=> sem[0] + sem[1] + 1 - sem[2] = ELEMENTS
<1>1. sem \in [0 .. 2 -> Nat] /\ ELEMENTS \in Nat
  BY BufferAssumption DEF BufferInv, BufferTypeOK
<1>2. CASE \E c \in Child : InCritical(c)
  <2>1. sem[2] = 0
    BY <1>2 DEF BufferInv, BinaryInv
  <2> QED
    BY <1>1, <1>2, <2>1 DEF SlotAccounting
<1>3. CASE ~ \E c \in Child : InCritical(c)
  <2>1. sem[2] = 1
    BY <1>3 DEF BufferInv, BinaryInv
  <2> QED
    BY <1>1, <1>3, <2>1 DEF SlotAccounting
<1> QED
  BY <1>2, <1>3

\* IInv is the buffer's invariant, the labels and the accounting.
LEMMA IInvParts == IInv <=> BufferInv /\ BufferLabels(SysVLabels) /\ SlotAccounting
BY DEF IInv, TypeOK, BufferInv, BufferLabels, PcOK, SysVLabels, Critical

\* The same for the next state.
LEMMA IInvPartsNext ==
  ASSUME BufferInv', BufferLabels(SysVLabels)', SlotAccounting'
  PROVE  IInv'
BY DEF IInv, TypeOK, BufferInv, BufferLabels, PcOK, SysVLabels, Critical

\* SlotsAsSum for the next state.
LEMMA SlotsAsSumNext ==
  ASSUME BufferInv', sem'[0] + sem'[1] + 1 - sem'[2] = ELEMENTS
  PROVE  SlotAccounting'
<1>1. sem' \in [0 .. 2 -> Nat] /\ ELEMENTS \in Nat
  BY BufferAssumption DEF BufferInv, BufferTypeOK
<1>2. CASE ~Ready'
  BY <1>2 DEF SlotAccounting
<1>3. CASE Ready' /\ \E c \in Child : InCritical(c)'
  <2>1. sem'[2] = 0
    BY <1>3 DEF BufferInv, BinaryInv
  <2> QED
    BY <1>1, <1>3, <2>1 DEF SlotAccounting
<1>4. CASE Ready' /\ ~ \E c \in Child : InCritical(c)'
  <2>1. sem'[2] = 1
    BY <1>4 DEF BufferInv, BinaryInv
  <2> QED
    BY <1>1, <1>4, <2>1 DEF SlotAccounting
<1> QED
  BY <1>2, <1>3, <1>4

\* A step that changes no semaphore and neither fills nor empties the
\* critical sections keeps the accounting.
LEMMA SlotsKept ==
  ASSUME SlotAccounting, sem' = sem, Ready' => Ready,
         \A c \in Child : InCritical(c)' <=> InCritical(c)
  PROVE  SlotAccounting'
BY DEF SlotAccounting

\* The initial state satisfies the invariant.
LEMMA InitEstablishesIInv == Init => IInv
<1> SUFFICES ASSUME Init PROVE IInv
  OBVIOUS
<1>1. BufferInv
  BY BufferInitially DEF Init
<1>2. BufferLabels(SysVLabels) /\ ~Ready
  BY DEF Init, BufferInit, FamilyInit, BufferLabels, PcOK, SysVLabels, LoopPcs, Ready
<1> QED
  BY <1>1, <1>2, IInvParts DEF SlotAccounting

\* The parent's steps keep the invariant.
LEMMA MainKeepsIInv == IInv /\ Main => IInv'
<1> SUFFICES ASSUME IInv, Main PROVE IInv'
  OBVIOUS
<1>1. BufferInv /\ BufferLabels(SysVLabels) /\ SlotAccounting
  BY IInvParts
<1>2. CASE Setup
  <2>1. /\ BufferInv' /\ BufferLabels(SysVLabels)'
        /\ sem'[0] = ELEMENTS /\ sem'[1] = 0 /\ sem'[2] = 1
    BY <1>1, <1>2, SetupKeeps
  <2> QED
    BY <2>1, BufferAssumption, SlotsAsSumNext, IInvPartsNext
<1>3. CASE ~Setup
  <2>1. {} \in SUBSET IpcObjects /\ {"sem"} \in SUBSET IpcObjects
        /\ IpcObjects \in SUBSET IpcObjects
        /\ "sem" \in IpcObjects /\ "shm" \in IpcObjects
    BY ProdConsAssumption
  <2>2. ~SetupSucceeds
    BY <1>3 DEF Main, Setup, SetupSucceeds, SetupFails, Fork, ForkFails, Reap,
                WaitInterrupted, NoMoreChildren, SigintParent, RemoveSem,
                RemoveShm, Remove
  <2>3. UNCHANGED <<sem, buffer>> /\ ParentStep
    BY <1>3, <2>1 DEF Main, ParentStep, RemoveSem, RemoveShm
  <2>4. BufferInv' /\ BufferLabels(SysVLabels)' /\ pc' = pc /\ (Ready' => Ready)
    BY <1>1, <2>2, <2>3, ParentKeeps
  <2>5. SlotAccounting'
    BY <1>1, <2>3, <2>4, SlotsKept DEF InCritical
  <2> QED
    BY <2>4, <2>5, IInvPartsNext
<1> QED
  BY <1>2, <1>3

\* A child's steps outside its critical section that change no semaphore.
LEMMA QuietKeepsIInv ==
  ASSUME IInv, NEW c \in Child, NEW from, NEW l \in SysVLabels, Move(c, from, l),
         from \cap Critical = {}, l \notin Critical, UNCHANGED <<sem, buffer>>
  PROVE  IInv'
<1>1. BufferInv /\ BufferLabels(SysVLabels) /\ SlotAccounting
  BY IInvParts
<1>2. sem' \in [0 .. 2 -> Nat]
  BY <1>1 DEF BufferInv, BufferTypeOK
<1>3. /\ BufferInv' /\ BufferLabels(SysVLabels)' /\ Ready /\ Ready'
      /\ pc[c] \in from /\ pc'[c] = l
      /\ \A d \in Child : d # c => pc'[d] = pc[d]
  BY <1>1, <1>2, MoveOutsideKeeps
<1>4. \A d \in Child : InCritical(d)' <=> InCritical(d)
  BY <1>3 DEF InCritical, Critical
<1> QED
  BY <1>1, <1>3, <1>4, SlotsKept, IInvPartsNext

\* The steps of a child outside its critical section, and the signals.
LEMMA LoopKeepsIInv ==
  ASSUME IInv, NEW c \in Child, Loop(c)
  PROVE  IInv'
<1>1. /\ BufferInv /\ BufferLabels(SysVLabels) /\ SlotAccounting
      /\ UNCHANGED <<sem, buffer>>
  BY IInvParts DEF Loop
<1>2. {"alarm", "while", "semop"} \subseteq SysVLabels \ Critical
  BY LabelsDisjoint DEF SysVLabels
<1>3. CASE Alarm(c)
  BY <1>1, <1>2, <1>3, QuietKeepsIInv DEF Alarm
<1>4. CASE LoopAgain(c)
  BY <1>1, <1>2, <1>4, QuietKeepsIInv DEF LoopAgain
<1>5. CASE LoopEnds(c) \/ SigintAsleep(c, {"sleep"}) \/ Sigalrm(c)
  <2>1. Alive(c) /\ End(c)
    BY <1>5 DEF LoopEnds, SigintAsleep, Sigalrm
  <2>2. /\ BufferInv' /\ BufferLabels(SysVLabels)' /\ (Ready' <=> Ready)
        /\ pc' = [pc EXCEPT ![c] = IF @ \in LoopPcs THEN "gone" ELSE @]
    BY <1>1, <2>1, EndKeeps
  <2>3. \A d \in Child : InCritical(d)' <=> InCritical(d)
    <3>1. \A d \in Child : pc[d] \in Critical => pc[d] \notin LoopPcs
      BY LabelsDisjoint
    <3>2. "gone" \notin Critical
      BY LabelsDisjoint
    <3> QED
      BY <1>1, <2>2, <3>1, <3>2 DEF InCritical, Critical, BufferLabels, PcOK
  <2> QED
    BY <1>1, <2>2, <2>3, SlotsKept, IInvPartsNext
<1>6. CASE Sigint(c, {"sleep"})
  <2>1. /\ BufferInv' /\ BufferLabels(SysVLabels)' /\ pc' = pc /\ (Ready' <=> Ready)
    BY <1>1, <1>6, SigintKeeps
  <2>2. \A d \in Child : InCritical(d)' <=> InCritical(d)
    BY <2>1 DEF InCritical
  <2> QED
    BY <1>1, <2>1, <2>2, SlotsKept, IInvPartsNext
<1> QED
  BY <1>3, <1>4, <1>5, <1>6 DEF Loop

\* The opening semop() moves a slot from its counter to the child.
LEMMA EnterKeepsIInv ==
  ASSUME IInv, NEW c \in Child,
         \/ Enter(c, start_produce, "store")
         \/ Enter(c, start_consume, "get")
  PROVE  IInv'
<1>1. BufferInv /\ BufferLabels(SysVLabels) /\ SlotAccounting
  BY IInvParts
<1>2. PICK l \in {"store", "get"} : Move(c, {"semop", "sleep"}, l)
  BY DEF Enter
<1>3. sem \in [0 .. 2 -> Nat] /\ ELEMENTS \in Nat
  BY <1>1, BufferAssumption DEF BufferInv, BufferTypeOK
<1>4. /\ sem[2] >= 1
      /\ sem' \in [0 .. 2 -> Nat]
      /\ sem'[2] = sem[2] - 1
      /\ sem'[0] + sem'[1] = sem[0] + sem[1] - 1
  BY <1>3, StartProduceTakes, StartConsumeTakes DEF Enter
<1>5. BufferInv' /\ BufferLabels(SysVLabels)' /\ Ready
  BY <1>1, <1>2, <1>4, EnterKeeps DEF Enter
<1>6. sem[0] + sem[1] + 1 - sem[2] = ELEMENTS
  BY <1>1, <1>5, SlotsAsSum
<1>7. sem'[0] + sem'[1] + 1 - sem'[2] = ELEMENTS
  BY <1>3, <1>4, <1>6
<1> QED
  BY <1>5, <1>7, SlotsAsSumNext, IInvPartsNext

\* The closing one moves it to the other counter.
LEMMA LeaveKeepsIInv ==
  ASSUME IInv, NEW c \in Child,
         \/ Leave(c, "end_produce", end_produce)
         \/ Leave(c, "end_consume", end_consume)
  PROVE  IInv'
<1>1. BufferInv /\ BufferLabels(SysVLabels) /\ SlotAccounting
  BY IInvParts
<1>2. PICK last \in {"end_produce", "end_consume"} : Move(c, {last}, "while")
  BY DEF Leave
<1>3. sem \in [0 .. 2 -> Nat] /\ ELEMENTS \in Nat
  BY <1>1, BufferAssumption DEF BufferInv, BufferTypeOK
<1>4. /\ sem' \in [0 .. 2 -> Nat]
      /\ sem'[2] = sem[2] + 1
      /\ sem'[0] + sem'[1] = sem[0] + sem[1] + 1
  <2>1. \/ sem' = Semop2(sem, end_produce)
        \/ sem' = Semop2(sem, end_consume)
    BY DEF Leave
  <2>2. CASE sem' = Semop2(sem, end_produce)
    BY <1>3, <2>2, EndProduceGives
  <2>3. CASE sem' = Semop2(sem, end_consume)
    BY <1>3, <2>3, EndConsumeGives
  <2> QED
    BY <2>1, <2>2, <2>3
<1>5. "while" \in SysVLabels /\ "while" \notin Critical /\ UNCHANGED buffer
  BY LabelsDisjoint DEF SysVLabels, Leave
<1>6. BufferInv' /\ BufferLabels(SysVLabels)' /\ Ready
  BY <1>1, <1>2, <1>4, <1>5, LeaveKeeps
<1>7. sem[0] + sem[1] + 1 - sem[2] = ELEMENTS
  BY <1>1, <1>6, SlotsAsSum
<1>8. sem'[0] + sem'[1] + 1 - sem'[2] = ELEMENTS
  BY <1>3, <1>4, <1>7
<1> QED
  BY <1>6, <1>8, SlotsAsSumNext, IInvPartsNext

\* The statements between them.
LEMMA StatementsKeepIInv ==
  ASSUME IInv, NEW c \in Child, Produce(c) \/ Consume(c)
  PROVE  IInv'
<1>1. BufferInv /\ BufferLabels(SysVLabels) /\ SlotAccounting
  BY IInvParts
<1>2. /\ BufferInv' /\ BufferLabels(SysVLabels)' /\ sem' = sem /\ Ready
      /\ \A d \in Child : InCritical(d)' <=> InCritical(d)
  BY <1>1, ProduceKeeps, ConsumeKeeps
<1> QED
  BY <1>1, <1>2, SlotsKept, IInvPartsNext

\* A child that goes to sleep changes nothing the others see.
LEMMA SleepKeepsIInv ==
  ASSUME IInv, NEW c \in Child, NEW ops, Sleep(c, ops)
  PROVE  IInv'
<1>1. "sleep" \in SysVLabels /\ "sleep" \notin Critical /\ {"semop"} \cap Critical = {}
  BY LabelsDisjoint DEF SysVLabels
<1> QED
  BY <1>1, QuietKeepsIInv DEF Sleep

\* Every step keeps the invariant.
LEMMA NextKeepsIInv == IInv /\ [Next]_vars => IInv'
<1> SUFFICES ASSUME IInv, [Next]_vars PROVE IInv'
  OBVIOUS
<1>1. CASE Main
  BY <1>1, MainKeepsIInv
<1>2. CASE \E c \in Child : Loop(c)
  BY <1>2, LoopKeepsIInv
<1>3. CASE \E c \in Producers : Producer(c)
  <2>1. PICK c \in Child : Producer(c)
    BY <1>3 DEF Producers
  <2> QED
    BY <2>1, EnterKeepsIInv, SleepKeepsIInv, StatementsKeepIInv, LeaveKeepsIInv
       DEF Producer
<1>4. CASE \E c \in Consumers : Consumer(c)
  <2>1. PICK c \in Child : Consumer(c)
    BY <1>4 DEF Consumers
  <2> QED
    BY <2>1, EnterKeepsIInv, SleepKeepsIInv, StatementsKeepIInv, LeaveKeepsIInv
       DEF Consumer
<1>5. CASE UNCHANGED vars
  BY <1>5 DEF vars, family, buffer, IInv, TypeOK, BufferInv, BufferTypeOK,
              FamilyTypeOK, FamilyInv, MutualExclusion, BinaryInv, PointerInv,
              SlotAccounting, Ready, InCritical
<1> QED
  BY <1>1, <1>2, <1>3, <1>4, <1>5 DEF Next, Terminated

\* IInv is an invariant of the program.
THEOREM Invariance == Spec => []IInv
<1> QED
  BY InitEstablishesIInv, NextKeepsIInv, PTL DEF Spec
-----------------------------------------------------------------------------
(* The properties. *)

\* Every variable stays in its range: producep and consumep never point more
\* than one past the buffer, and nothing but a letter is ever stored in it
\* (prod_cons.c 56-60, 83-92).
THEOREM TypeCorrectness == Spec => []TypeOK
<1>1. IInv => TypeOK
  BY DEF IInv
<1> QED
  BY <1>1, Invariance, PTL

\* At most one child is, or died, between its two semop() calls
\* (prod_cons.c 44-97).
THEOREM MutualExclusionHolds == Spec => []MutualExclusion
<1>1. IInv => MutualExclusion
  BY DEF IInv, BufferInv
<1> QED
  BY <1>1, Invariance, PTL

\* No slot is lost or made up: the two counting semaphores and the child in
\* its critical section account for all ELEMENTS (prod_cons.c 29-37).
THEOREM SlotsAreAccountedFor == Spec => []SlotAccounting
<1>1. IInv => SlotAccounting
  BY DEF IInv
<1> QED
  BY <1>1, Invariance, PTL

\* No child dereferences a pointer that has run off the end of the buffer
\* (prod_cons.c 56, 83).
THEOREM PointersStayInBounds == Spec => []PointersInBounds
<1>1. IInv => PointersInBounds
  BY BoundsFollow DEF IInv
<1> QED
  BY <1>1, Invariance, PTL

\* The objects outlive every child that uses them (prod_cons.c 172-204).
THEOREM IpcOutlives == Spec => []IpcOutlivesChildren
<1>1. IInv => IpcOutlivesChildren
  BY FamilyKeepsIpc DEF IInv, BufferInv, BufferTypeOK
<1> QED
  BY <1>1, Invariance, PTL

\* The children block each other only through a death: all the living ones
\* can be stuck only when one has died between its two semop() calls or all
\* producers, or all consumers, are gone (prod_cons.c 44-97).
THEOREM OnlyDeathsCanBlock == Spec => []OnlyDeathsBlock
<1>1. IInv => OnlyDeathsBlock
  <2> SUFFICES ASSUME IInv,
                      \A c \in Child : Alive(c) => Stuck(c),
                      NEW q \in Producers, Alive(q),
                      NEW r \in Consumers, Alive(r)
               PROVE  \E c \in Child : InCritical(c) /\ ~Alive(c)
    BY DEF OnlyDeathsBlock
  <2>1. q \in Child /\ r \in Child /\ r \notin Producers
    BY DEF Producers, Consumers
  <2>2. SUFFICES \E c \in Child : InCritical(c)
    BY LabelsDisjoint DEF Stuck, InCritical, Critical
  <2>3. SUFFICES ASSUME ~ \E c \in Child : InCritical(c) PROVE FALSE
    OBVIOUS
  <2>4. Ready
    <3>1. q >= 0
      BY <2>1 DEF Child
    <3> QED
      BY <2>1, <3>1 DEF IInv, BufferInv, FamilyInv, Alive
  <2>5. sem \in [0 .. 2 -> Nat] /\ ELEMENTS \in Nat \ {0}
    BY BufferAssumption DEF IInv, BufferInv, BufferTypeOK
  <2>6. sem[2] = 1 /\ sem[0] + sem[1] = ELEMENTS
    BY <2>3, <2>4, <2>5 DEF IInv, BufferInv, BinaryInv, SlotAccounting
  <2>7. ~CanSemop2(sem, start_produce) /\ ~CanSemop2(sem, start_consume)
    BY <2>1 DEF Stuck
  <2>8. sem[0] = 0 /\ sem[1] = 0
    BY <2>5, <2>6, <2>7, StartProducePasses, StartConsumePasses
  <2> QED
    BY <2>5, <2>6, <2>8
<1> QED
  BY <1>1, Invariance, PTL

\* A child killed in its critical section freezes the buffer for ever: no
\* step of anybody else touches it or the semaphores (prod_cons.c 46-66,
\* 71-95).
THEOREM KilledHolderFreezes == Spec => KilledHolderFreezesBuffer
<1>1. IInv /\ [Next]_vars
        => ((\E c \in Child : InCritical(c) /\ ~Alive(c)) => UNCHANGED <<sem, buffer>>)
  <2> SUFFICES ASSUME IInv, [Next]_vars,
                      NEW k \in Child, InCritical(k), ~Alive(k)
               PROVE  UNCHANGED <<sem, buffer>>
    OBVIOUS
  <2>1. Ready
    BY NobodyBeforeReady DEF IInv, BufferInv
  <2>2. sem[2] = 0 /\ sem \in [0 .. 2 -> Nat]
    BY <2>1 DEF IInv, BufferInv, BinaryInv, BufferTypeOK
  <2>3. \A c \in Child : Alive(c) => pc[c] \notin Critical
    BY DEF IInv, BufferInv, MutualExclusion, InCritical, Critical
  <2>4. ~CanSemop2(sem, start_produce) /\ ~CanSemop2(sem, start_consume)
    BY <2>2, StartProduceTakes, StartConsumeTakes
  <2>5. ~Setup
    BY <2>1 DEF Setup, SetupSucceeds, Ready
  <2>6. \A c \in Child :
          /\ ~Produce(c) /\ ~Consume(c)
          /\ ~Leave(c, "end_produce", end_produce)
          /\ ~Leave(c, "end_consume", end_consume)
    BY <2>3, LabelsDisjoint
       DEF Produce, Consume, Leave, Store, NextLetter, WrapLetter, WrapProducep,
           Get, Advance, WrapConsumep, Statement, Move
  <2>7. \A c \in Child : ~Enter(c, start_produce, "store") /\ ~Enter(c, start_consume, "get")
    BY <2>4 DEF Enter
  <2> QED
    BY <2>5, <2>6, <2>7 DEF Next, Main, Loop, Producer, Consumer, Sleep,
                            Terminated, Producers, Consumers, vars
<1> QED
  BY <1>1, Invariance, PTL DEF Spec, KilledHolderFreezesBuffer
-----------------------------------------------------------------------------
(* The buffer implements the queue. *)

(***************************************************************************)
(* What the refinement rests on besides IInv: the order of the letters,    *)
(* and that SEMAPHORE_FULL is 0 until main() gives it its value.           *)
(***************************************************************************)
FifoInv ==
  /\ OrderInv(QueueLen)
  /\ ~Ready => sem[SEMAPHORE_FULL] = 0

Stored == ProducerPcs \ {"store"}

LEMMA StoredPcs == Stored = {"next", "wrapletter", "wrapp", "end_produce"}
BY DEF Stored, ProducerPcs

\* The queue never holds more than the buffer, there is room for the letter
\* about to be stored, and a letter for the consumer about to print.
LEMMA QueueFits ==
  ASSUME IInv, FifoInv
  PROVE  /\ QueueLen \in 0 .. ELEMENTS
         /\ \A c \in Child : /\ pc[c] = "store" => QueueLen < ELEMENTS
                             /\ pc[c] = "get" => QueueLen >= 1
<1>1. sem \in [0 .. 2 -> Nat] /\ ELEMENTS \in Nat \ {0}
  BY BufferAssumption DEF IInv, BufferInv, BufferTypeOK
<1>2. \A c \in Child : /\ pc[c] \in Stored => InCritical(c)
                       /\ pc[c] \in {"get", "store"} => InCritical(c)
  BY DEF InCritical, Stored, ProducerPcs, ConsumerPcs
<1>3. \A c, d \in Child : InCritical(c) /\ InCritical(d) => c = d
  BY DEF IInv, BufferInv, MutualExclusion
<1>4. {"get", "store"} \cap Stored = {}
  BY StoredPcs
<1>5. /\ InFlight(Stored) \in {0, 1} /\ InFlight({"get"}) \in {0, 1}
      /\ InFlight(Stored) = 1 => InFlight({"get"}) = 0
      /\ \A c \in Child : pc[c] = "get" => InFlight({"get"}) = 1
      /\ \A c \in Child : pc[c] = "store" => InFlight({"get"}) = 0 /\ InFlight(Stored) = 0
  BY <1>2, <1>3, <1>4 DEF InFlight
<1>6. QueueLen = sem[1] + InFlight(Stored) + InFlight({"get"})
  BY DEF QueueLen, Stored
<1>7. CASE Ready
  <2>1. sem[0] + sem[1] + (IF \E c \in Child : InCritical(c) THEN 1 ELSE 0) = ELEMENTS
    BY <1>7 DEF IInv, SlotAccounting
  <2>2. InFlight(Stored) + InFlight({"get"}) <= IF \E c \in Child : InCritical(c) THEN 1 ELSE 0
    BY <1>2, <1>5 DEF InFlight
  <2>3. \A c \in Child : pc[c] = "store" => sem[0] + sem[1] + 1 = ELEMENTS
    BY <1>2, <2>1
  <2>4. QueueLen \in 0 .. ELEMENTS
    BY <1>1, <1>5, <1>6, <2>1, <2>2
  <2>5. \A c \in Child : pc[c] = "store" => QueueLen < ELEMENTS
    BY <1>1, <1>5, <1>6, <2>3
  <2>6. \A c \in Child : pc[c] = "get" => QueueLen >= 1
    BY <1>1, <1>5, <1>6
  <2> QED
    BY <2>4, <2>5, <2>6
<1>8. CASE ~Ready
  <2>1. \A c \in Child : ~InCritical(c)
    BY <1>8, NobodyBeforeReady DEF IInv, BufferInv
  <2>2. InFlight(Stored) = 0 /\ InFlight({"get"}) = 0
    BY <1>2, <2>1 DEF InFlight
  <2> QED
    BY <1>1, <1>2, <1>6, <1>8, <2>1, <2>2 DEF FifoInv
<1> QED
  BY <1>7, <1>8

\* A step that leaves the queue alone is a stutter of the abstract one.
LEMMA Stutters ==
  ASSUME FifoInv, NEW n, QueueLen = n, QueueLen' = n,
         LettersFrom(storage', QueueHead', n) = LettersFrom(storage, QueueHead, n),
         out' = out, OrderInv(n)', ~Ready' => sem'[1] = 0
  PROVE  FifoInv' /\ UNCHANGED <<QueueOf(QueueLen), out>>
BY DEF FifoInv, QueueOf

\* No step but a store or a printf needs a look at the letters: the step
\* leaves them, and the labels the queue depends on, as they are.
LEMMA QuietStutters ==
  ASSUME IInv, FifoInv, UNCHANGED <<sem, buffer>>, Ready => Ready',
         \A c \in Child : InCritical(c) \/ InCritical(c)' => pc'[c] = pc[c]
  PROVE  FifoInv' /\ UNCHANGED <<QueueOf(QueueLen), out>>
<1>1. \A l \in Critical :
        (\E c \in Child : pc'[c] = l) <=> \E c \in Child : pc[c] = l
  BY DEF InCritical, Critical
<1>2. \A S \in SUBSET Critical :
        (\E c \in Child : pc'[c] \in S) <=> \E c \in Child : pc[c] \in S
  BY DEF InCritical, Critical
<1>3. Stored \in SUBSET Critical /\ {"get"} \in SUBSET Critical
      /\ "advance" \in Critical /\ "next" \in Critical
  BY LabelsDisjoint, StoredPcs
<1>4. InFlight(Stored)' = InFlight(Stored) /\ InFlight({"get"})' = InFlight({"get"})
  BY <1>2, <1>3 DEF InFlight
<1>5. QueueLen' = QueueLen
  BY <1>4 DEF QueueLen, Stored
<1>6. /\ storage' = storage /\ QueueHead' = QueueHead /\ out' = out
      /\ \A n : OrderInv(n)' <=> OrderInv(n)
  BY <1>1, <1>3, QueueUntouched
<1>7. ~Ready' => sem'[1] = 0
  BY DEF FifoInv
<1>8. PICK n : n = QueueLen
  OBVIOUS
<1> QED
  BY <1>5, <1>6, <1>7, <1>8, Stutters DEF FifoInv

\* So is the setup: nothing is in the buffer before it, nothing after it.
LEMMA SetupStutters ==
  ASSUME IInv, FifoInv, Setup
  PROVE  FifoInv' /\ UNCHANGED <<QueueOf(QueueLen), out>>
<1>1. /\ sem'[1] = 0 /\ ~Ready /\ pc' = pc
      /\ \A c \in Child : ~InCritical(c)'
  BY IInvParts, SetupKeeps
<1>2. \A c \in Child : pc[c] \notin Stored \cup {"get", "next", "advance"}
  BY <1>1 DEF InCritical, Stored, ProducerPcs, ConsumerPcs
<1>3. InFlight(Stored) = 0 /\ InFlight({"get"}) = 0
  BY <1>2 DEF InFlight
<1>4. InFlight(Stored)' = 0 /\ InFlight({"get"})' = 0
  BY <1>1, <1>2 DEF InFlight
<1>5. QueueLen = 0 /\ QueueLen' = 0
  BY <1>1, <1>3, <1>4 DEF QueueLen, Stored, FifoInv
<1>6. UNCHANGED buffer
  BY DEF Setup
<1>7. /\ storage' = storage /\ QueueHead' = QueueHead /\ out' = out
      /\ \A n : OrderInv(n)' <=> OrderInv(n)
  BY <1>1, <1>6, QueueUntouched
<1> QED
  BY <1>1, <1>5, <1>7, Stutters DEF FifoInv

\* The opening semop() moves no letter: a consumer's takes it from
\* SEMAPHORE_FULL, but the consumer has yet to print it.
LEMMA EnterStutters ==
  ASSUME IInv, FifoInv, NEW c \in Child,
         \/ Enter(c, start_produce, "store")
         \/ Enter(c, start_consume, "get")
  PROVE  FifoInv' /\ UNCHANGED <<QueueOf(QueueLen), out>>
<1>1. BufferInv /\ BufferLabels(SysVLabels)
  BY IInvParts
<1>2. PICK l \in {"store", "get"} : Move(c, {"semop", "sleep"}, l)
        /\ sem[2] >= 1 /\ sem' \in [0 .. 2 -> Nat] /\ sem'[2] = sem[2] - 1
        /\ sem'[1] = (IF l = "get" THEN sem[1] - 1 ELSE sem[1])
        /\ UNCHANGED buffer
  <2>1. sem \in [0 .. 2 -> Nat]
    BY <1>1 DEF BufferInv, BufferTypeOK
  <2>2. CASE Enter(c, start_produce, "store")
    BY <2>1, <2>2, StartProduceTakes DEF Enter
  <2>3. CASE Enter(c, start_consume, "get")
    BY <2>1, <2>3, StartConsumeTakes DEF Enter
  <2> QED
    BY <2>2, <2>3
<1>3. /\ Ready' /\ pc'[c] = l
      /\ \A d \in Child : d # c => pc'[d] = pc[d]
      /\ \A d \in Child : ~InCritical(d) /\ (InCritical(d)' <=> d = c)
  BY <1>1, <1>2, EnterKeeps
<1>4. \A d \in Child : pc[d] \notin Stored \cup {"get", "next", "advance"}
  BY <1>3 DEF InCritical, Stored, ProducerPcs, ConsumerPcs
<1>5. \A d \in Child : pc'[d] \notin Stored \cup {"next", "advance"}
                       /\ (pc'[d] = "get" <=> d = c /\ l = "get")
  BY <1>3, <1>4, StoredPcs
<1>6. InFlight(Stored) = 0 /\ InFlight({"get"}) = 0
  BY <1>4 DEF InFlight
<1>7. InFlight(Stored)' = 0 /\ InFlight({"get"})' = (IF l = "get" THEN 1 ELSE 0)
  BY <1>5 DEF InFlight
<1>8. QueueLen' = QueueLen
  <2>1. sem[1] \in Nat
    BY <1>1 DEF BufferInv, BufferTypeOK
  <2> QED
    BY <1>2, <1>6, <1>7, <2>1 DEF QueueLen, Stored
<1>9. /\ storage' = storage /\ QueueHead' = QueueHead /\ out' = out
      /\ \A n : OrderInv(n)' <=> OrderInv(n)
  BY <1>2, <1>4, <1>5, QueueUntouched
<1>10. PICK n : n = QueueLen
  OBVIOUS
<1> QED
  BY <1>3, <1>8, <1>9, <1>10, Stutters DEF FifoInv

\* Nor does the closing one: it counts the letter the producer has stored.
LEMMA LeaveStutters ==
  ASSUME IInv, FifoInv, NEW c \in Child,
         \/ Leave(c, "end_produce", end_produce)
         \/ Leave(c, "end_consume", end_consume)
  PROVE  FifoInv' /\ UNCHANGED <<QueueOf(QueueLen), out>>
<1>1. BufferInv /\ BufferLabels(SysVLabels)
  BY IInvParts
<1>2. PICK last \in {"end_produce", "end_consume"} : Move(c, {last}, "while")
        /\ sem' \in [0 .. 2 -> Nat] /\ sem'[2] = sem[2] + 1
        /\ sem'[1] = (IF last = "end_produce" THEN sem[1] + 1 ELSE sem[1])
        /\ UNCHANGED buffer
  <2>1. sem \in [0 .. 2 -> Nat]
    BY <1>1 DEF BufferInv, BufferTypeOK
  <2>2. CASE Leave(c, "end_produce", end_produce)
    BY <2>1, <2>2, EndProduceGives DEF Leave
  <2>3. CASE Leave(c, "end_consume", end_consume)
    BY <2>1, <2>3, EndConsumeGives DEF Leave
  <2> QED
    BY <2>2, <2>3
<1>3. "while" \in SysVLabels /\ "while" \notin Critical
  BY LabelsDisjoint DEF SysVLabels
<1>4. /\ Ready' /\ pc[c] = last
      /\ \A d \in Child : (d # c => ~InCritical(d)) /\ ~InCritical(d)'
  BY <1>1, <1>2, <1>3, LeaveKeeps
<1>5. \A d \in Child : pc'[d] \notin Stored \cup {"get", "next", "advance"}
  BY <1>4 DEF InCritical, Stored, ProducerPcs, ConsumerPcs
<1>6. \A d \in Child : /\ pc[d] \notin {"get", "next", "advance"}
                       /\ pc[d] \in Stored <=> d = c /\ last = "end_produce"
  BY <1>4, StoredPcs DEF InCritical, ProducerPcs, ConsumerPcs
<1>7. InFlight(Stored)' = 0 /\ InFlight({"get"})' = 0
  BY <1>5 DEF InFlight
<1>8. /\ InFlight(Stored) = (IF last = "end_produce" THEN 1 ELSE 0)
      /\ InFlight({"get"}) = 0
  BY <1>6 DEF InFlight
<1>9. QueueLen' = QueueLen
  <2>1. sem[1] \in Nat
    BY <1>1 DEF BufferInv, BufferTypeOK
  <2> QED
    BY <1>2, <1>7, <1>8, <2>1 DEF QueueLen, Stored
<1>10. /\ storage' = storage /\ QueueHead' = QueueHead /\ out' = out
       /\ \A n : OrderInv(n)' <=> OrderInv(n)
  BY <1>2, <1>5, <1>6, QueueUntouched
<1>11. PICK n : n = QueueLen
  OBVIOUS
<1> QED
  BY <1>4, <1>9, <1>10, <1>11, Stutters DEF FifoInv

\* How many letters are in the queue before and after a statement.
LEMMA StatementCounts ==
  ASSUME IInv, NEW c \in Child, NEW from \in Critical, NEW to \in Critical,
         Statement(c, from, to)
  PROVE  /\ Ready' /\ pc[c] = from
         /\ QueueLen = sem[1] + (IF from \in Stored \cup {"get"} THEN 1 ELSE 0)
         /\ QueueLen' = sem[1] + (IF to \in Stored \cup {"get"} THEN 1 ELSE 0)
<1>1. BufferInv /\ BufferLabels(SysVLabels)
  BY IInvParts
<1>2. \A l \in Critical : /\ (\E d \in Child : pc[d] = l) <=> l = from
                          /\ (\E d \in Child : pc'[d] = l) <=> l = to
  BY <1>1, OnlyInside
<1>3. Ready' /\ sem' = sem /\ sem \in [0 .. 2 -> Nat] /\ pc[c] = from
  BY <1>1, StatementKeeps
<1>4. Stored \subseteq Critical /\ "get" \in Critical /\ "get" \notin Stored
  BY LabelsDisjoint, StoredPcs
<1>5. /\ InFlight(Stored) = (IF from \in Stored THEN 1 ELSE 0)
      /\ InFlight({"get"}) = (IF from = "get" THEN 1 ELSE 0)
  BY <1>2, <1>4 DEF InFlight
<1>6. /\ InFlight(Stored)' = (IF to \in Stored THEN 1 ELSE 0)
      /\ InFlight({"get"})' = (IF to = "get" THEN 1 ELSE 0)
  BY <1>2, <1>4 DEF InFlight
<1> QED
  BY <1>3, <1>4, <1>5, <1>6 DEF QueueLen, Stored

\* A store is a Put, a printf is a Get, and the other statements stutter.
LEMMA StatementsImplement ==
  ASSUME IInv, FifoInv, NEW c \in Child, Produce(c) \/ Consume(c)
  PROVE  FifoInv' /\ [Abstract!Next]_<<QueueOf(QueueLen), out>>
<1>1. BufferInv /\ BufferLabels(SysVLabels)
  BY IInvParts
<1>2. Critical = {"store", "next", "wrapletter", "wrapp", "end_produce",
                  "get", "advance", "wrapc", "end_consume"}
  BY LabelsDisjoint
<1>3. PICK n \in 0 .. ELEMENTS : n = QueueLen
  BY QueueFits
<1>4. OrderInv(n) /\ sem[1] \in Nat
  BY <1>1, <1>3 DEF FifoInv, BufferInv, BufferTypeOK
<1>5. PICK q : q = LettersFrom(storage, QueueHead, n)
  OBVIOUS
<1>6. /\ QueueOf(QueueLen) = q
      /\ Len(q) = n /\ (q = <<>> <=> n = 0)
      /\ (IF q = <<>> THEN out ELSE q[Len(q)]) = NewestOf(n)
  BY <1>1, <1>3, <1>5, NewestIsLast DEF QueueOf
<1>7. CASE Store(c)
  <2>1. Ready' /\ n \in 0 .. ELEMENTS - 1 /\ QueueLen' = n + 1
    <3>1. /\ Ready' /\ pc[c] = "store"
          /\ QueueLen = sem[1] /\ QueueLen' = sem[1] + 1
      BY <1>2, <1>4, <1>7, StatementCounts, StoredPcs DEF Store
    <3>2. QueueLen < ELEMENTS
      BY <3>1, QueueFits
    <3> QED
      BY <1>3, <3>1, <3>2, BufferAssumption
  <2>2. /\ LettersFrom(storage', QueueHead', n + 1) = Append(q, SuccLetter(NewestOf(n)))
        /\ out' = out
        /\ OrderInv(n + 1)'
    BY <1>1, <1>4, <1>5, <1>7, <2>1, StorePuts
  <2>3. QueueOf(QueueLen)' = Append(q, SuccLetter(NewestOf(n)))
    BY <2>1, <2>2 DEF QueueOf
  <2>4. Abstract!Succ(Abstract!Newest) = SuccLetter(NewestOf(n))
    BY <1>6 DEF Abstract!Succ, Abstract!Newest, SuccLetter
  <2>5. Abstract!Put
    BY <1>6, <2>1, <2>2, <2>3, <2>4, BufferAssumption DEF Abstract!Put
  <2> QED
    BY <2>1, <2>2, <2>5 DEF Abstract!Next, FifoInv
<1>8. CASE Get(c)
  <2>1. Ready' /\ n >= 1 /\ QueueLen' = n - 1
    BY <1>2, <1>3, <1>4, <1>8, StatementCounts, StoredPcs, QueueFits DEF Get
  <2>2. /\ out' = Head(q)
        /\ LettersFrom(storage', QueueHead', n - 1) = Tail(q)
        /\ OrderInv(n - 1)'
    BY <1>1, <1>3, <1>4, <1>5, <1>8, <2>1, GetTakes
  <2>3. QueueOf(QueueLen)' = Tail(q)
    BY <2>1, <2>2 DEF QueueOf
  <2>4. Abstract!Get
    BY <1>6, <2>1, <2>2, <2>3 DEF Abstract!Get
  <2> QED
    BY <2>1, <2>2, <2>4 DEF Abstract!Next, FifoInv
<1>9. CASE \/ NextLetter(c) \/ WrapLetter(c) \/ WrapProducep(c)
           \/ Advance(c) \/ WrapConsumep(c)
  <2>1. Ready' /\ QueueLen' = n
    BY <1>2, <1>3, <1>4, <1>9, StatementCounts, StoredPcs
       DEF NextLetter, WrapLetter, WrapProducep, Advance, WrapConsumep
  <2>2. /\ LettersFrom(storage', QueueHead', n) = LettersFrom(storage, QueueHead, n)
        /\ out' = out
        /\ OrderInv(n)'
    BY <1>1, <1>4, <1>9, OtherStatements
  <2> QED
    BY <1>3, <2>1, <2>2, Stutters
<1> QED
  BY <1>7, <1>8, <1>9 DEF Produce, Consume

\* The initial state is the empty queue, which ends with 'z'.
LEMMA InitEstablishesFifo == Init => FifoInv /\ Abstract!Init
<1> SUFFICES ASSUME Init PROVE FifoInv /\ Abstract!Init
  OBVIOUS
<1>1. \A c \in Child : pc[c] = "alarm"
  BY DEF Init, BufferInit, FamilyInit
<1>2. sem[1] = 0 /\ consumep = 0 /\ producep = 0 /\ letter = 0 /\ out = LETTERS - 1
  BY DEF Init, BufferInit
<1>3. InFlight(Stored) = 0 /\ InFlight({"get"}) = 0
  BY <1>1, StoredPcs DEF InFlight
<1>4. QueueLen = 0 /\ QueueHead = 0
  BY <1>1, <1>2, <1>3 DEF QueueLen, QueueHead, Stored
<1>5. OrderInv(0)
  BY <1>1, <1>2, <1>4, BufferAssumption DEF OrderInv, NewestOf, Upcoming, SuccLetter
<1>6. BufferInv
  BY BufferInitially DEF Init
<1>7. QueueOf(QueueLen) = <<>>
  <2>1. 0 \in 0 .. ELEMENTS
    BY BufferAssumption
  <2> QED
    BY <1>4, <1>6, <2>1, NewestIsLast DEF QueueOf
<1> QED
  BY <1>2, <1>4, <1>5, <1>7 DEF FifoInv, Abstract!Init

\* Every step of the program is a step of the queue, or a stutter.
LEMMA NextImplements ==
  IInv /\ FifoInv /\ [Next]_vars
    => FifoInv' /\ [Abstract!Next]_<<QueueOf(QueueLen), out>>
<1> SUFFICES ASSUME IInv, FifoInv, [Next]_vars
             PROVE  FifoInv' /\ [Abstract!Next]_<<QueueOf(QueueLen), out>>
  OBVIOUS
<1>1. pc \in [Child -> SysVLabels]
  BY DEF IInv, TypeOK, SysVLabels, Critical
<1>2. CASE Setup
  BY <1>2, SetupStutters
<1>3. CASE Main /\ ~Setup
  <2>1. UNCHANGED <<sem, buffer>> /\ pc' = pc /\ (Ready => Ready')
    BY <1>3 DEF Main, SetupFails, Fork, ForkFails, Reap, WaitInterrupted, NoMoreChildren,
                SigintParent, RemoveSem, RemoveShm, Remove, Ready
  <2> QED
    BY <2>1, QuietStutters
<1>4. ASSUME NEW c \in Child, Loop(c)
      PROVE  FifoInv' /\ [Abstract!Next]_<<QueueOf(QueueLen), out>>
  <2>1. UNCHANGED <<sem, buffer>> /\ (Ready => Ready')
    BY <1>4 DEF Loop, Alarm, LoopAgain, LoopEnds, Sigint, SigintAsleep, Sigalrm, End, Move,
                Ready
  <2>2. \A d \in Child : InCritical(d) \/ InCritical(d)' => pc'[d] = pc[d]
    BY <1>1, <1>4, LabelsDisjoint
       DEF InCritical, Critical, Loop, Alarm, LoopAgain, LoopEnds, Sigint, SigintAsleep,
           Sigalrm, End, Move, Goto
  <2> QED
    BY <2>1, <2>2, QuietStutters
<1>5. ASSUME NEW c \in Child, NEW ops, Sleep(c, ops)
      PROVE  FifoInv' /\ [Abstract!Next]_<<QueueOf(QueueLen), out>>
  <2>1. UNCHANGED <<sem, buffer>> /\ (Ready => Ready')
    BY <1>5 DEF Sleep, Move, Ready
  <2>2. \A d \in Child : InCritical(d) \/ InCritical(d)' => pc'[d] = pc[d]
    BY <1>1, <1>5, LabelsDisjoint DEF InCritical, Critical, Sleep, Move, Goto
  <2> QED
    BY <2>1, <2>2, QuietStutters
<1>6. ASSUME NEW c \in Child, Producer(c) \/ Consumer(c)
      PROVE  FifoInv' /\ [Abstract!Next]_<<QueueOf(QueueLen), out>>
  BY <1>5, <1>6, EnterStutters, LeaveStutters, StatementsImplement DEF Producer, Consumer
<1>7. CASE UNCHANGED vars
  <2>1. UNCHANGED <<sem, buffer>> /\ (Ready => Ready') /\ pc' = pc
    BY <1>7 DEF vars, family, Ready
  <2> QED
    BY <2>1, QuietStutters
<1> QED
  BY <1>2, <1>3, <1>4, <1>6, <1>7 DEF Next, Terminated, Producers, Consumers

\* The circular buffer behaves as a bounded first-in first-out queue of
\* letters in the order of the alphabet, none lost and none twice, whatever
\* child is killed or interrupted at whatever statement (prod_cons.c 44-97).
THEOREM ImplementsQueue == Spec => ImplementsLetterQueue
<1> QED
  BY InitEstablishesIInv, InitEstablishesFifo, NextKeepsIInv, NextImplements, PTL
     DEF Spec, ImplementsLetterQueue, Abstract!Spec
-----------------------------------------------------------------------------
(***************************************************************************)
(* lab_03/prod_cons_mac.c                                                  *)
(***************************************************************************)

MacLabels == LoopPcs \cup Critical \cup HandoverPcs

\* The children with a slot in their hands.
Holders == {c \in Child : HasSlot(c)}

\* The semaphores are the last thing to be removed.
RemovalInv == main = "cleanup" => "sem" \in ipc

MacIInv == MacTypeOK /\ BufferInv /\ MacSlotAccounting /\ NamesFollowTheRun /\ RemovalInv

\* What MacIInv says, as the lemmas about the buffer take it.
LEMMA MacIInvParts ==
  MacIInv <=> /\ BufferInv /\ BufferLabels(MacLabels) /\ names \subseteq Names
           /\ MacSlotAccounting /\ NamesFollowTheRun /\ RemovalInv
BY DEF MacIInv, MacTypeOK, BufferInv, BufferLabels, PcOK, MacLabels, Critical

\* The same for the next state.
LEMMA MacIInvPartsNext ==
  ASSUME BufferInv', BufferLabels(MacLabels)', names' \subseteq Names,
         MacSlotAccounting', NamesFollowTheRun', RemovalInv'
  PROVE  MacIInv'
BY DEF MacIInv, MacTypeOK, BufferInv, BufferLabels, PcOK, MacLabels, Critical

\* A place with a slot is not one without.
LEMMA HandoverDisjoint ==
  /\ HandoverPcs = {"wait_binary", "sleep_binary", "post"}
  /\ HandoverPcs \cap LoopPcs = {} /\ HandoverPcs \cap Critical = {}
BY LabelsDisjoint DEF HandoverPcs

\* A child with a slot has been forked.
LEMMA NoHolderBeforeReady ==
  ASSUME FamilyInv, NEW c \in Child, HasSlot(c)
  PROVE  Ready
<1>1. c >= 0
  BY DEF Child
<1> QED
  BY <1>1 DEF FamilyInv, HasSlot, InCritical, ProducerPcs, ConsumerPcs, HandoverPcs

\* A step that leaves the counting semaphores and the holders as they are.
LEMMA MacSlotsKept ==
  ASSUME MacSlotAccounting, Ready' => Ready, sem'[0] = sem[0], sem'[1] = sem[1],
         \A c \in Child : HasSlot(c)' <=> HasSlot(c)
  PROVE  MacSlotAccounting'
<1>1. Holders' = Holders
  BY DEF Holders
<1> QED
  BY <1>1 DEF MacSlotAccounting, Holders

\* A step of a child has nothing to do with the names.
LEMMA NamesKept ==
  ASSUME MacIInv, UNCHANGED <<names, main, ipc>>
  PROVE  names' \subseteq Names /\ NamesFollowTheRun' /\ RemovalInv'
BY DEF MacIInv, MacTypeOK, NamesFollowTheRun, RemovalInv
-----------------------------------------------------------------------------
\* main() opens the semaphores.
LEMMA OpenKeepsIInv ==
  ASSUME MacIInv, Open
  PROVE  MacIInv'
<1>1. BufferInv /\ BufferLabels(MacLabels)
  BY MacIInvParts
<1>2. /\ BufferInv' /\ BufferLabels(MacLabels)'
      /\ sem'[0] = ELEMENTS /\ sem'[1] = 0 /\ ~Ready /\ pc' = pc
  BY <1>1, SetupKeeps DEF Open
<1>3. \A c \in Child : ~HasSlot(c)'
  BY <1>1, <1>2, NoHolderBeforeReady
     DEF BufferInv, HasSlot, InCritical, ProducerPcs, ConsumerPcs
<1>4. Holders' = {}
  BY <1>3 DEF Holders
<1>5. MacSlotAccounting'
  BY <1>2, <1>4, FS_EmptySet, BufferAssumption DEF MacSlotAccounting, Holders
<1>6. names' \subseteq Names /\ NamesFollowTheRun' /\ RemovalInv'
  BY DEF Open, Setup, SetupSucceeds, NamesFollowTheRun, RemovalInv
<1> QED
  BY <1>2, <1>5, <1>6, MacIInvPartsNext

\* The rest of the parent.
LEMMA ParentKeepsIInv ==
  ASSUME MacIInv, MacMain, ~Open
  PROVE  MacIInv'
<1>1. BufferInv /\ BufferLabels(MacLabels) /\ MacSlotAccounting /\ FamilyInv /\ FamilyTypeOK
  BY MacIInvParts DEF BufferInv, BufferTypeOK
<1>2. /\ {} \in SUBSET IpcObjects /\ {"sem"} \in SUBSET IpcObjects
      /\ {"sem", "shm"} \in SUBSET IpcObjects
      /\ "sem" \in IpcObjects /\ "shm" \in IpcObjects
  BY ProdConsMacAssumption
<1>3. ParentStep /\ UNCHANGED <<sem, buffer>>
  BY <1>2 DEF MacMain, ParentStep, OpenFails, SharedMemoryFails, MacRemoveShm, CloseAndUnlink
<1>4. ~SetupSucceeds
  BY DEF MacMain, SetupSucceeds, OpenFails, SharedMemoryFails, SetupFails, MacRemoveShm,
         CloseAndUnlink, Remove, Fork, ForkFails, Reap, WaitInterrupted, NoMoreChildren,
         SigintParent
<1>5. BufferInv' /\ BufferLabels(MacLabels)' /\ pc' = pc /\ (Ready' => Ready)
  BY <1>1, <1>3, <1>4, ParentKeeps
<1>6. MacSlotAccounting'
  BY <1>1, <1>3, <1>5, MacSlotsKept DEF HasSlot, InCritical
<1>7. names \subseteq Names /\ NamesFollowTheRun /\ RemovalInv
  BY MacIInvParts
<1>8. names' \subseteq Names /\ NamesFollowTheRun' /\ RemovalInv'
  <2>1. CASE OpenFails
    BY <1>7, <2>1 DEF OpenFails, SetupFails, NamesFollowTheRun, RemovalInv
  <2>2. CASE SharedMemoryFails
    BY <1>7, <2>2 DEF SharedMemoryFails, SetupFails, NamesFollowTheRun, RemovalInv
  <2>3. CASE MacRemoveShm
    BY <1>7, <2>3 DEF MacRemoveShm, Remove, NamesFollowTheRun, RemovalInv
  <2>4. CASE CloseAndUnlink
    <3>1. ipc' = {} /\ main' = "exit0"
      BY <1>1, <2>4, ProdConsMacAssumption DEF CloseAndUnlink, Remove, FamilyTypeOK
    <3> QED
      BY <2>4, <3>1 DEF CloseAndUnlink, NamesFollowTheRun, RemovalInv
  <2>5. CASE UNCHANGED names /\ (Fork \/ ForkFails \/ \E c \in Child : Reap(c))
    BY <1>7, <2>5 DEF Fork, ForkFails, Reap, NamesFollowTheRun, RemovalInv
  <2>6. CASE UNCHANGED names /\ NoMoreChildren
    BY <1>1, <1>2, <1>7, <2>6 DEF NoMoreChildren, NamesFollowTheRun, RemovalInv, FamilyInv
  <2>7. CASE UNCHANGED names /\ (WaitInterrupted \/ SigintParent)
    BY <1>7, <2>7 DEF WaitInterrupted, SigintParent, NamesFollowTheRun, RemovalInv
  <2> QED
    BY <2>1, <2>2, <2>3, <2>4, <2>5, <2>6, <2>7 DEF MacMain
<1> QED
  BY <1>5, <1>6, <1>8, MacIInvPartsNext
-----------------------------------------------------------------------------
\* A child moves outside its critical section without a slot changing hands.
LEMMA MacQuietKeepsIInv ==
  ASSUME MacIInv, NEW c \in Child, NEW from, NEW l \in MacLabels, Move(c, from, l),
         \/ from \subseteq LoopPcs /\ l \in LoopPcs
         \/ from \subseteq HandoverPcs /\ l \in HandoverPcs,
         UNCHANGED <<sem, buffer, names>>
  PROVE  MacIInv'
<1>1. BufferInv /\ BufferLabels(MacLabels) /\ MacSlotAccounting
  BY MacIInvParts
<1>2. sem' \in [0 .. 2 -> Nat]
  BY <1>1 DEF BufferInv, BufferTypeOK
<1>3. from \cap Critical = {} /\ l \notin Critical
  BY LabelsDisjoint, HandoverDisjoint
<1>4. /\ BufferInv' /\ BufferLabels(MacLabels)' /\ Ready /\ Ready'
      /\ pc[c] \in from /\ pc'[c] = l
      /\ \A d \in Child : d # c => pc'[d] = pc[d]
  BY <1>1, <1>2, <1>3, MoveOutsideKeeps
<1>5. \A d \in Child : HasSlot(d)' <=> HasSlot(d)
  BY <1>3, <1>4, HandoverDisjoint, LabelsDisjoint DEF HasSlot, InCritical, Critical
<1>6. MacSlotAccounting'
  BY <1>1, <1>4, <1>5, MacSlotsKept
<1>7. names' \subseteq Names /\ NamesFollowTheRun' /\ RemovalInv'
  BY NamesKept DEF Move
<1> QED
  BY <1>4, <1>6, <1>7, MacIInvPartsNext

\* A child's loop, and the signals: one that ends keeps what it has.
LEMMA MacLoopKeepsIInv ==
  ASSUME MacIInv, NEW c \in Child, MacLoop(c), UNCHANGED names
  PROVE  MacIInv'
<1>1. /\ BufferInv /\ BufferLabels(MacLabels) /\ MacSlotAccounting
      /\ UNCHANGED <<sem, buffer>>
  BY MacIInvParts DEF MacLoop
<1>2. {"alarm", "while", "semop"} \subseteq MacLabels \cap LoopPcs
  BY LabelsDisjoint DEF MacLabels
<1>3. CASE Alarm(c) \/ LoopAgain(c)
  BY <1>1, <1>2, <1>3, MacQuietKeepsIInv DEF Alarm, LoopAgain
<1>4. CASE Alive(c) /\ End(c)
  <2>1. /\ BufferInv' /\ BufferLabels(MacLabels)' /\ (Ready' <=> Ready)
        /\ pc' = [pc EXCEPT ![c] = IF @ \in LoopPcs THEN "gone" ELSE @]
    BY <1>1, <1>4, EndKeeps
  <2>2. \A d \in Child : HasSlot(d)' <=> HasSlot(d)
    <3>1. \A d \in Child : HasSlot(d) => pc[d] \notin LoopPcs
      BY LabelsDisjoint, HandoverDisjoint DEF HasSlot, InCritical, Critical
    <3>2. "gone" \notin Critical /\ "gone" \notin HandoverPcs
      BY LabelsDisjoint, HandoverDisjoint
    <3> QED
      BY <1>1, <2>1, <3>1, <3>2 DEF HasSlot, InCritical, Critical, BufferLabels, PcOK
  <2>3. MacSlotAccounting'
    BY <1>1, <2>1, <2>2, MacSlotsKept
  <2>4. names' \subseteq Names /\ NamesFollowTheRun' /\ RemovalInv'
    BY <1>4, NamesKept DEF End
  <2> QED
    BY <2>1, <2>3, <2>4, MacIInvPartsNext
<1>5. CASE Sigint(c, {"sleep", "sleep_binary"})
  <2>1. BufferInv' /\ BufferLabels(MacLabels)' /\ pc' = pc /\ (Ready' <=> Ready)
    BY <1>1, <1>5, SigintKeeps
  <2>2. MacSlotAccounting'
    BY <1>1, <2>1, MacSlotsKept DEF HasSlot, InCritical
  <2>3. names' \subseteq Names /\ NamesFollowTheRun' /\ RemovalInv'
    BY <1>5, NamesKept DEF Sigint
  <2> QED
    BY <2>1, <2>2, <2>3, MacIInvPartsNext
<1> QED
  BY <1>3, <1>4, <1>5 DEF MacLoop, LoopEnds, SigintAsleep, Sigalrm

\* The first sem_wait() takes a slot.
LEMMA TakeSlotKeepsIInv ==
  ASSUME MacIInv, NEW c \in Child, NEW slot \in {0, 1}, UNCHANGED names,
         Wait(c, slot, {"semop", "sleep"}, "wait_binary")
  PROVE  MacIInv'
<1>1. BufferInv /\ BufferLabels(MacLabels) /\ MacSlotAccounting
  BY MacIInvParts
<1>2. sem \in [0 .. 2 -> Nat] /\ ELEMENTS \in Nat
  BY <1>1, BufferAssumption DEF BufferInv, BufferTypeOK
<1>3. /\ Move(c, {"semop", "sleep"}, "wait_binary") /\ UNCHANGED buffer
      /\ sem[slot] > 0 /\ sem' = [sem EXCEPT ![slot] = @ - 1]
  BY DEF Wait
<1>4. sem' \in [0 .. 2 -> Nat] /\ sem'[2] = sem[2] /\ sem'[0] + sem'[1] = sem[0] + sem[1] - 1
  BY <1>2, <1>3
<1>5. /\ {"semop", "sleep"} \cap Critical = {}
      /\ "wait_binary" \notin Critical /\ "wait_binary" \in MacLabels
  BY LabelsDisjoint, HandoverDisjoint DEF MacLabels
<1>6. /\ BufferInv' /\ BufferLabels(MacLabels)' /\ Ready /\ Ready'
      /\ pc[c] \in {"semop", "sleep"} /\ pc'[c] = "wait_binary"
      /\ \A d \in Child : d # c => pc'[d] = pc[d]
  BY <1>1, <1>3, <1>4, <1>5, MoveOutsideKeeps
<1>7. c \notin Holders /\ Holders' = Holders \cup {c} /\ Holders \in SUBSET Child
  BY <1>5, <1>6, HandoverDisjoint DEF Holders, HasSlot, InCritical, Critical
<1>8. Cardinality(Holders') = Cardinality(Holders) + 1 /\ Cardinality(Holders) \in Nat
  BY <1>7, Counting
<1>9. sem[0] + sem[1] + Cardinality(Holders) = ELEMENTS
  BY <1>1, <1>6 DEF MacSlotAccounting, Holders
<1>10. sem'[0] + sem'[1] + Cardinality(Holders') = ELEMENTS
  BY <1>2, <1>4, <1>8, <1>9
<1>11. MacSlotAccounting'
  BY <1>10 DEF MacSlotAccounting, Holders
<1>12. names' \subseteq Names /\ NamesFollowTheRun' /\ RemovalInv'
  BY <1>3, NamesKept DEF Move
<1> QED
  BY <1>6, <1>11, <1>12, MacIInvPartsNext

\* The last sem_post() gives the other one.
LEMMA GiveSlotKeepsIInv ==
  ASSUME MacIInv, NEW c \in Child, NEW other \in {0, 1}, UNCHANGED names,
         Post(c, other, "post", "while")
  PROVE  MacIInv'
<1>1. BufferInv /\ BufferLabels(MacLabels) /\ MacSlotAccounting
  BY MacIInvParts
<1>2. sem \in [0 .. 2 -> Nat] /\ ELEMENTS \in Nat
  BY <1>1, BufferAssumption DEF BufferInv, BufferTypeOK
<1>3. /\ Move(c, {"post"}, "while") /\ UNCHANGED buffer
      /\ sem' = [sem EXCEPT ![other] = @ + 1]
  BY DEF Post
<1>4. sem' \in [0 .. 2 -> Nat] /\ sem'[2] = sem[2] /\ sem'[0] + sem'[1] = sem[0] + sem[1] + 1
  BY <1>2, <1>3
<1>5. {"post"} \cap Critical = {} /\ "while" \notin Critical /\ "while" \in MacLabels
  BY LabelsDisjoint DEF MacLabels
<1>6. /\ BufferInv' /\ BufferLabels(MacLabels)' /\ Ready /\ Ready'
      /\ pc[c] \in {"post"} /\ pc'[c] = "while"
      /\ \A d \in Child : d # c => pc'[d] = pc[d]
  BY <1>1, <1>3, <1>4, <1>5, MoveOutsideKeeps
<1>7. c \in Holders /\ Holders' = Holders \ {c} /\ Holders \in SUBSET Child
  BY <1>5, <1>6, HandoverDisjoint DEF Holders, HasSlot, InCritical, Critical
<1>8. Cardinality(Holders') = Cardinality(Holders) - 1 /\ Cardinality(Holders) \in Nat
  BY <1>7, Counting
<1>9. sem[0] + sem[1] + Cardinality(Holders) = ELEMENTS
  BY <1>1, <1>6 DEF MacSlotAccounting, Holders
<1>10. sem'[0] + sem'[1] + Cardinality(Holders') = ELEMENTS
  BY <1>2, <1>4, <1>8, <1>9
<1>11. MacSlotAccounting'
  BY <1>10 DEF MacSlotAccounting, Holders
<1>12. names' \subseteq Names /\ NamesFollowTheRun' /\ RemovalInv'
  BY <1>3, NamesKept DEF Move
<1> QED
  BY <1>6, <1>11, <1>12, MacIInvPartsNext

\* Taking the buffer leaves the slot in hand.
LEMMA WaitBinaryKeepsIInv ==
  ASSUME MacIInv, NEW c \in Child, UNCHANGED names, NEW first \in {"store", "get"},
         Wait(c, 2, {"wait_binary", "sleep_binary"}, first)
  PROVE  MacIInv'
<1>1. BufferInv /\ BufferLabels(MacLabels) /\ MacSlotAccounting /\ sem \in [0 .. 2 -> Nat]
  BY MacIInvParts DEF BufferInv, BufferTypeOK
<1>2. /\ Move(c, {"wait_binary", "sleep_binary"}, first) /\ UNCHANGED buffer
      /\ sem[2] >= 1 /\ sem' = [sem EXCEPT ![2] = @ - 1]
  BY <1>1 DEF Wait
<1>3. /\ sem' \in [0 .. 2 -> Nat] /\ sem'[2] = sem[2] - 1
      /\ sem'[0] = sem[0] /\ sem'[1] = sem[1]
  BY <1>1, <1>2
<1>4. /\ BufferInv' /\ BufferLabels(MacLabels)' /\ Ready /\ Ready'
      /\ pc[c] \in {"wait_binary", "sleep_binary"} /\ pc'[c] = first
      /\ \A d \in Child : d # c => pc'[d] = pc[d]
  BY <1>1, <1>2, <1>3, EnterKeeps
<1>5. \A d \in Child : HasSlot(d)' <=> HasSlot(d)
  BY <1>4, LabelsDisjoint, HandoverDisjoint DEF HasSlot, InCritical, Critical
<1>6. MacSlotAccounting'
  BY <1>1, <1>3, <1>4, <1>5, MacSlotsKept
<1>7. names' \subseteq Names /\ NamesFollowTheRun' /\ RemovalInv'
  BY <1>2, NamesKept DEF Move
<1> QED
  BY <1>4, <1>6, <1>7, MacIInvPartsNext

\* So does giving it back.
LEMMA PostBinaryKeepsIInv ==
  ASSUME MacIInv, NEW c \in Child, UNCHANGED names,
         NEW last \in {"end_produce", "end_consume"}, Post(c, 2, last, "post")
  PROVE  MacIInv'
<1>1. BufferInv /\ BufferLabels(MacLabels) /\ MacSlotAccounting
  BY MacIInvParts
<1>2. Move(c, {last}, "post") /\ UNCHANGED buffer
  BY DEF Post
<1>3. /\ sem' \in [0 .. 2 -> Nat] /\ sem'[2] = sem[2] + 1
      /\ sem'[0] = sem[0] /\ sem'[1] = sem[1]
  BY <1>1 DEF Post, BufferInv, BufferTypeOK
<1>4. "post" \in MacLabels /\ "post" \notin Critical
  BY HandoverDisjoint DEF MacLabels
<1>5. BufferInv' /\ BufferLabels(MacLabels)' /\ Ready
  BY <1>1, <1>2, <1>3, <1>4, LeaveKeeps
<1>6. /\ pc[c] = last /\ pc'[c] = "post" /\ Ready'
      /\ \A d \in Child : d # c => pc'[d] = pc[d]
  BY <1>1, <1>2, <1>4, ChildMoves DEF BufferInv, BufferTypeOK, BufferLabels
<1>7. \A d \in Child : HasSlot(d)' <=> HasSlot(d)
  BY <1>6, LabelsDisjoint, HandoverDisjoint DEF HasSlot, InCritical, Critical
<1>8. MacSlotAccounting'
  BY <1>1, <1>3, <1>5, <1>6, <1>7, MacSlotsKept
<1>9. names' \subseteq Names /\ NamesFollowTheRun' /\ RemovalInv'
  BY <1>2, NamesKept DEF Move
<1> QED
  BY <1>5, <1>8, <1>9, MacIInvPartsNext

\* The statements of the critical sections.
LEMMA MacStatementsKeepIInv ==
  ASSUME MacIInv, NEW c \in Child, Produce(c) \/ Consume(c), UNCHANGED names
  PROVE  MacIInv'
<1>1. BufferInv /\ BufferLabels(MacLabels) /\ MacSlotAccounting
  BY MacIInvParts
<1>2. /\ BufferInv' /\ BufferLabels(MacLabels)' /\ sem' = sem /\ Ready
      /\ pc[c] \in Critical /\ pc'[c] \in Critical
      /\ \A d \in Child : d # c => pc'[d] = pc[d]
  BY <1>1, ProduceKeeps, ConsumeKeeps
<1>3. \A d \in Child : HasSlot(d)' <=> HasSlot(d)
  BY <1>2 DEF HasSlot, InCritical, Critical
<1>4. MacSlotAccounting'
  BY <1>1, <1>2, <1>3, MacSlotsKept
<1>5. UNCHANGED <<main, ipc>>
  BY DEF Produce, Consume, Store, NextLetter, WrapLetter, WrapProducep, Get, Advance,
         WrapConsumep, Statement, Move
<1>6. names' \subseteq Names /\ NamesFollowTheRun' /\ RemovalInv'
  BY <1>5, NamesKept
<1> QED
  BY <1>2, <1>4, <1>6, MacIInvPartsNext

\* A child that blocks.
LEMMA MacSleepKeepsIInv ==
  ASSUME MacIInv, NEW c \in Child, NEW s, UNCHANGED names,
         \/ MacSleep(c, s, "semop", "sleep")
         \/ MacSleep(c, s, "wait_binary", "sleep_binary")
  PROVE  MacIInv'
<1>1. /\ {"semop"} \subseteq LoopPcs /\ "sleep" \in LoopPcs \cap MacLabels
      /\ {"wait_binary"} \subseteq HandoverPcs /\ "sleep_binary" \in HandoverPcs \cap MacLabels
  BY LabelsDisjoint, HandoverDisjoint DEF MacLabels
<1> QED
  BY <1>1, MacQuietKeepsIInv DEF MacSleep

\* The initial state satisfies the invariant, whatever names exist.
LEMMA MacInitEstablishesIInv == MacInit => MacIInv
<1> SUFFICES ASSUME MacInit PROVE MacIInv
  OBVIOUS
<1>1. BufferInv
  BY BufferInitially DEF MacInit
<1>2. BufferLabels(MacLabels) /\ ~Ready /\ names \subseteq Names
  BY DEF MacInit, BufferInit, FamilyInit, BufferLabels, PcOK, MacLabels, LoopPcs, Ready
<1>3. NamesFollowTheRun /\ RemovalInv
  BY DEF MacInit, BufferInit, FamilyInit, NamesFollowTheRun, RemovalInv
<1> QED
  BY <1>1, <1>2, <1>3, MacIInvParts DEF MacSlotAccounting

\* Every step keeps it.
LEMMA MacNextKeepsIInv == MacIInv /\ [MacNext]_macVars => MacIInv'
<1> SUFFICES ASSUME MacIInv, [MacNext]_macVars PROVE MacIInv'
  OBVIOUS
<1>1. CASE MacMain
  BY <1>1, OpenKeepsIInv, ParentKeepsIInv
<1>2. ASSUME NEW c \in Child, UNCHANGED names, MacLoop(c) \/ MacProducer(c) \/ MacConsumer(c)
      PROVE  MacIInv'
  BY <1>2, MacLoopKeepsIInv, TakeSlotKeepsIInv, GiveSlotKeepsIInv,
     WaitBinaryKeepsIInv, PostBinaryKeepsIInv, MacStatementsKeepIInv, MacSleepKeepsIInv
     DEF MacProducer, MacConsumer, Calls
<1>3. CASE UNCHANGED macVars
  BY <1>3 DEF macVars, family, buffer, MacIInv, MacTypeOK, BufferInv, BufferTypeOK, FamilyTypeOK,
              FamilyInv, MutualExclusion, BinaryInv, PointerInv, MacSlotAccounting, Ready,
              InCritical, HasSlot, NamesFollowTheRun, RemovalInv
<1> QED
  BY <1>1, <1>2, <1>3 DEF MacNext, MacTerminated, Producers, Consumers

(***************************************************************************)
(* The inductive invariant of prod_cons_mac.c: the buffer's, the slots     *)
(* with their holders, and what the parent has still to remove.            *)
(***************************************************************************)
THEOREM MacInvariance == MacSpec => []MacIInv
<1> QED
  BY MacInitEstablishesIInv, MacNextKeepsIInv, PTL DEF MacSpec
-----------------------------------------------------------------------------
(* The properties. *)

\* prod_cons_mac.c 40-116: at most one child is, or died, between its calls
\* on the binary semaphore.
THEOREM MacMutualExclusionHolds == MacSpec => []MutualExclusion
<1>1. MacIInv => MutualExclusion
  BY DEF MacIInv, BufferInv
<1> QED
  BY <1>1, MacInvariance, PTL

\* prod_cons_mac.c 40-116: every variable stays in its range, the
\* pointers and the letter as in prod_cons.c.
THEOREM MacTypeCorrectness == MacSpec => []MacTypeOK
<1>1. MacIInv => MacTypeOK
  BY DEF MacIInv
<1> QED
  BY <1>1, MacInvariance, PTL

\* prod_cons_mac.c 59, 98: no child dereferences a pointer that has run off
\* the end of the buffer.
THEOREM MacPointersStayInBounds == MacSpec => []PointersInBounds
<1>1. MacIInv => PointersInBounds
  BY BoundsFollow DEF MacIInv
<1> QED
  BY <1>1, MacInvariance, PTL

\* prod_cons_mac.c 162-213: the semaphores and the shared memory outlive
\* every child that uses them.
THEOREM MacIpcOutlives == MacSpec => []IpcOutlivesChildren
<1>1. MacIInv => IpcOutlivesChildren
  BY FamilyKeepsIpc DEF MacIInv, BufferInv, BufferTypeOK
<1> QED
  BY <1>1, MacInvariance, PTL

(***************************************************************************)
(* Once a child of prod_cons_mac.c has been killed between its calls on    *)
(* the binary semaphore, nobody gets into the buffer again: the others can *)
(* still take slots and post the ones they have filled or emptied before,  *)
(* but the half-done update is never seen (prod_cons_mac.c 50-66, 87-107). *)
(***************************************************************************)
MacKilledHolderFreezesBuffer ==
  [][(\E c \in Child : InCritical(c) /\ ~Alive(c))
       => UNCHANGED <<sem[SEMAPHORE_BINARY], buffer>>]_macVars

\* prod_cons_mac.c 50-66, 87-107: a killed holder freezes the buffer.
THEOREM MacKilledHolderFreezes == MacSpec => MacKilledHolderFreezesBuffer
<1>1. MacIInv /\ [MacNext]_macVars
        => ((\E c \in Child : InCritical(c) /\ ~Alive(c))
              => UNCHANGED <<sem[SEMAPHORE_BINARY], buffer>>)
  <2> SUFFICES ASSUME MacIInv, [MacNext]_macVars,
                      NEW k \in Child, InCritical(k), ~Alive(k)
               PROVE  UNCHANGED <<sem[SEMAPHORE_BINARY], buffer>>
    OBVIOUS
  <2>1. Ready
    BY NobodyBeforeReady DEF MacIInv, BufferInv
  <2>2. sem[2] = 0 /\ sem \in [0 .. 2 -> Nat]
    BY <2>1 DEF MacIInv, BufferInv, BinaryInv, BufferTypeOK
  <2>3. \A c \in Child : Alive(c) => pc[c] \notin Critical
    BY DEF MacIInv, BufferInv, MutualExclusion, InCritical, Critical
  <2>4. ~Setup
    BY <2>1 DEF Setup, SetupSucceeds, Ready
  <2>5. \A c \in Child :
          /\ ~Produce(c) /\ ~Consume(c)
          /\ ~Post(c, SEMAPHORE_BINARY, "end_produce", "post")
          /\ ~Post(c, SEMAPHORE_BINARY, "end_consume", "post")
    BY <2>3, LabelsDisjoint
       DEF Produce, Consume, Post, Store, NextLetter, WrapLetter, WrapProducep,
           Get, Advance, WrapConsumep, Statement, Move
  <2>6. \A c \in Child : \A from, to : ~Wait(c, SEMAPHORE_BINARY, from, to)
    BY <2>2 DEF Wait, SEMAPHORE_BINARY
  <2>7. ASSUME NEW c \in Child, NEW s \in {0, 1}, NEW from, NEW to,
               Wait(c, s, from, to) \/ Post(c, s, from, to)
        PROVE  UNCHANGED <<sem[SEMAPHORE_BINARY], buffer>>
    BY <2>2, <2>7 DEF Wait, Post, SEMAPHORE_BINARY
  <2>8. ASSUME NEW c \in Child, MacProducer(c) \/ MacConsumer(c)
        PROVE  UNCHANGED <<sem[SEMAPHORE_BINARY], buffer>>
    BY <2>5, <2>6, <2>7, <2>8
       DEF MacProducer, MacConsumer, Calls, MacSleep, SEMAPHORE_EMPTY, SEMAPHORE_FULL
  <2>9. CASE MacMain \/ MacTerminated \/ UNCHANGED macVars \/ \E c \in Child : MacLoop(c)
    BY <2>4, <2>9 DEF MacMain, Open, MacTerminated, macVars, MacLoop
  <2> QED
    BY <2>8, <2>9 DEF MacNext, Producers, Consumers
<1> QED
  BY <1>1, MacInvariance, PTL DEF MacSpec, MacKilledHolderFreezesBuffer

\* prod_cons_mac.c 40-116: the slots a dead child took are all that is missing.
THEOREM MacSlotsAreAccountedFor == MacSpec => []MacSlotAccounting
<1>1. MacIInv => MacSlotAccounting
  BY DEF MacIInv
<1> QED
  BY <1>1, MacInvariance, PTL

\* prod_cons_mac.c 128-136, 208-213: a run that ends well leaves no name.
THEOREM NamesAreRemoved == MacSpec => []NamesFollowTheRun
<1>1. MacIInv => NamesFollowTheRun
  BY DEF MacIInv
<1> QED
  BY <1>1, MacInvariance, PTL

\* prod_cons_mac.c 40-116: the children block each other only if one of them
\* has died with a slot, or one kind has died out.
THEOREM MacOnlyDeathsCanBlock == MacSpec => []MacOnlyDeathsBlock
<1>1. MacIInv => MacOnlyDeathsBlock
  <2> SUFFICES ASSUME MacIInv,
                      \A c \in Child : Alive(c) => MacStuck(c),
                      \A c \in Child : HasSlot(c) => Alive(c),
                      NEW q \in Producers, Alive(q),
                      NEW r \in Consumers, Alive(r)
               PROVE  FALSE
    BY DEF MacOnlyDeathsBlock
  <2>1. q \in Child /\ r \in Child /\ r \notin Producers
    BY DEF Producers, Consumers
  <2>2. Ready
    <3>1. q >= 0
      BY <2>1 DEF Child
    <3> QED
      BY <2>1, <3>1 DEF MacIInv, BufferInv, FamilyInv, Alive
  <2>3. sem \in [0 .. 2 -> Nat] /\ ELEMENTS \in Nat \ {0}
    BY BufferAssumption DEF MacIInv, BufferInv, BufferTypeOK
  <2>4. \A c \in Child : ~InCritical(c)
    BY LabelsDisjoint DEF HasSlot, MacStuck, InCritical, Critical
  <2>5. sem[2] # 0
    BY <2>2, <2>4 DEF MacIInv, BufferInv, BinaryInv
  <2>6. \A c \in Child : ~HasSlot(c)
    BY <2>4, <2>5, HandoverDisjoint, LabelsDisjoint DEF HasSlot, MacStuck
  <2>7. Holders = {}
    BY <2>6 DEF Holders
  <2>8. sem[0] + sem[1] = ELEMENTS
    BY <2>2, <2>3, <2>7, FS_EmptySet DEF MacIInv, MacSlotAccounting, Holders
  <2>9. sem[0] = 0 /\ sem[1] = 0
    BY <2>1, <2>5 DEF MacStuck
  <2> QED
    BY <2>3, <2>8, <2>9
<1> QED
  BY <1>1, MacInvariance, PTL
-----------------------------------------------------------------------------
(* The buffer implements the queue. *)

FilledPcs == (ProducerPcs \ {"store"}) \cup {"post"}
AskedPcs == {"wait_binary", "sleep_binary", "get"}

LEMMA FilledLabels == FilledPcs = {"next", "wrapletter", "wrapp", "end_produce", "post"}
BY DEF FilledPcs, ProducerPcs

\* Child c at label l answers for a letter SEMAPHORE_FULL does not count:
\* one it has stored, or one it has asked for and not printed.
HasLetter(c, l) == \/ c \in Producers /\ l \in FilledPcs
                   \/ c \in Consumers /\ l \in AskedPcs

\* The children that do, if p says where each of them is.
InHand(p) == {c \in Child : HasLetter(c, p[c])}

One(b) == IF b THEN 1 ELSE 0

(***************************************************************************)
(* What the refinement rests on besides MacIInv: the order of the letters,    *)
(* and that SEMAPHORE_FULL is 0 until main() gives it its value.           *)
(***************************************************************************)
MacFifoInv ==
  /\ OrderInv(MacQueueLen)
  /\ ~Ready => sem[SEMAPHORE_FULL] = 0

\* The two counts in MacQueueLen are one.
LEMMA LettersInHand ==
  ASSUME NEW p, NEW n \in Nat
  PROVE  n + Cardinality({c \in Producers : p[c] \in (ProducerPcs \ {"store"}) \cup {"post"}})
           + Cardinality({c \in Consumers : p[c] \in {"wait_binary", "sleep_binary", "get"}})
         = n + Cardinality(InHand(p))
<1> DEFINE filled == {c \in Producers : p[c] \in FilledPcs}
           asked == {c \in Consumers : p[c] \in AskedPcs}
<1>1. filled \in SUBSET Child /\ asked \in SUBSET Child
  BY DEF Producers, Consumers
<1>2. filled \cap asked = {}
  BY DEF Consumers
<1>3. InHand(p) = filled \cup asked
  BY DEF InHand, HasLetter, Producers, Consumers
<1> HIDE DEF filled, asked
<1>4. /\ Cardinality(filled) \in Nat /\ Cardinality(asked) \in Nat
      /\ Cardinality(filled \cup asked) = Cardinality(filled) + Cardinality(asked)
  BY <1>1, <1>2, CountingParts
<1>5. n + Cardinality(filled) + Cardinality(asked) = n + Cardinality(InHand(p))
  BY <1>3, <1>4
<1> QED
  BY <1>5 DEF filled, asked, FilledPcs, AskedPcs

\* One child's move changes the count by what it takes and gives.
LEMMA HandMoves ==
  ASSUME NEW p, NEW q, NEW c \in Child, \A d \in Child : d # c => q[d] = p[d]
  PROVE  /\ Cardinality(InHand(p)) \in Nat
         /\ Cardinality(InHand(q)) + One(HasLetter(c, p[c]))
              = Cardinality(InHand(p)) + One(HasLetter(c, q[c]))
<1>1. InHand(p) \in SUBSET Child /\ InHand(q) \in SUBSET Child
  BY DEF InHand
<1>2. /\ c \in InHand(p) <=> HasLetter(c, p[c])
      /\ c \in InHand(q) <=> HasLetter(c, q[c])
  BY DEF InHand
<1>3. InHand(p) \ {c} = InHand(q) \ {c}
  BY DEF InHand
<1>4. Cardinality(InHand(p)) \in Nat /\ Cardinality(InHand(q)) \in Nat
  BY <1>1, Counting
<1>5. Cardinality(InHand(p) \ {c}) = Cardinality(InHand(p)) - One(HasLetter(c, p[c]))
  <2>1. CASE c \in InHand(p)
    BY <1>1, <1>2, <2>1, Counting DEF One
  <2>2. CASE c \notin InHand(p)
    <3>1. InHand(p) \ {c} = InHand(p)
      BY <2>2
    <3> QED
      BY <1>1, <1>2, <1>4, <2>2, <3>1 DEF One
  <2> QED
    BY <2>1, <2>2
<1>6. Cardinality(InHand(q) \ {c}) = Cardinality(InHand(q)) - One(HasLetter(c, q[c]))
  <2>1. CASE c \in InHand(q)
    BY <1>1, <1>2, <2>1, Counting DEF One
  <2>2. CASE c \notin InHand(q)
    <3>1. InHand(q) \ {c} = InHand(q)
      BY <2>2
    <3> QED
      BY <1>1, <1>2, <1>4, <2>2, <3>1 DEF One
  <2> QED
    BY <2>1, <2>2
<1> QED
  BY <1>3, <1>4, <1>5, <1>6 DEF One

\* The queue never holds more than the buffer, although some of the slots
\* may be lost with the children that died; there is room for the letter
\* about to be stored, and a letter for the consumer about to print.
LEMMA MacQueueFits ==
  ASSUME MacIInv, MacFifoInv
  PROVE  /\ MacQueueLen \in 0 .. ELEMENTS
         /\ \A c \in Child : pc[c] = "store" => MacQueueLen < ELEMENTS
         /\ \A c \in Consumers : pc[c] = "get" => MacQueueLen >= 1
<1>1. sem \in [0 .. 2 -> Nat] /\ ELEMENTS \in Nat \ {0}
  BY BufferAssumption DEF MacIInv, BufferInv, BufferTypeOK
<1>2. MacQueueLen = sem[1] + Cardinality(InHand(pc))
  BY <1>1, LettersInHand DEF MacQueueLen
<1>3. InHand(pc) \in SUBSET Child /\ Holders \in SUBSET Child /\ InHand(pc) \subseteq Holders
  BY DEF InHand, HasLetter, Holders, HasSlot, InCritical, FilledPcs, AskedPcs, ProducerPcs,
         ConsumerPcs, HandoverPcs
<1>4. /\ Cardinality(InHand(pc)) \in Nat /\ Cardinality(Holders) \in Nat
      /\ Cardinality(InHand(pc)) <= Cardinality(Holders)
  BY <1>3, CountingParts
<1>5. \A c \in Child : pc[c] = "store" => Cardinality(InHand(pc)) <= Cardinality(Holders) - 1
  <2> SUFFICES ASSUME NEW c \in Child, pc[c] = "store"
               PROVE  Cardinality(InHand(pc)) <= Cardinality(Holders) - 1
    OBVIOUS
  <2>1. c \in Holders /\ c \notin InHand(pc)
    BY FilledLabels DEF Holders, HasSlot, InCritical, ProducerPcs, InHand, HasLetter, AskedPcs
  <2>2. InHand(pc) \subseteq Holders \ {c} /\ Holders \ {c} \in SUBSET Child
    BY <1>3, <2>1
  <2>3. Cardinality(InHand(pc)) <= Cardinality(Holders \ {c})
    BY <1>3, <2>2, CountingParts
  <2> QED
    BY <1>3, <2>1, <2>3, Counting
<1>6. \A c \in Consumers : pc[c] = "get" => Cardinality(InHand(pc)) >= 1
  <2> SUFFICES ASSUME NEW c \in Consumers, pc[c] = "get"
               PROVE  Cardinality(InHand(pc)) >= 1
    OBVIOUS
  <2>1. c \in InHand(pc)
    BY DEF InHand, HasLetter, AskedPcs, Consumers
  <2> QED
    BY <1>3, <1>4, <2>1, CountingParts
<1>7. CASE Ready
  <2>1. sem[0] + sem[1] + Cardinality(Holders) = ELEMENTS
    BY <1>7 DEF MacIInv, MacSlotAccounting, Holders
  <2>2. MacQueueLen \in 0 .. ELEMENTS
    BY <1>1, <1>2, <1>4, <2>1
  <2>3. \A c \in Child : pc[c] = "store" => MacQueueLen < ELEMENTS
    BY <1>1, <1>2, <1>4, <1>5, <2>1
  <2>4. \A c \in Consumers : pc[c] = "get" => MacQueueLen >= 1
    BY <1>1, <1>2, <1>4, <1>6
  <2> QED
    BY <2>2, <2>3, <2>4
<1>8. CASE ~Ready
  <2>1. \A c \in Child : ~HasSlot(c)
    BY <1>8, NoHolderBeforeReady DEF MacIInv, BufferInv
  <2>2. Holders = {} /\ sem[1] = 0
    BY <1>8, <2>1 DEF Holders, MacFifoInv
  <2>3. Cardinality(InHand(pc)) = 0
    BY <1>3, <2>2, CountingParts
  <2>4. \A c \in Child : pc[c] \notin {"store", "get"}
    BY <2>1 DEF HasSlot, InCritical, ProducerPcs, ConsumerPcs
  <2>5. MacQueueLen = 0
    BY <1>2, <2>2, <2>3
  <2> QED
    BY <1>1, <2>4, <2>5 DEF Consumers
<1> QED
  BY <1>7, <1>8

\* A step that leaves the queue alone is a stutter of the abstract one.
LEMMA MacStutters ==
  ASSUME MacFifoInv, UNCHANGED buffer, MacQueueLen' = MacQueueLen, ~Ready' => sem'[1] = 0,
         (\E c \in Child : pc'[c] = "advance") <=> \E c \in Child : pc[c] = "advance",
         (\E c \in Child : pc'[c] = "next") <=> \E c \in Child : pc[c] = "next"
  PROVE  MacFifoInv' /\ UNCHANGED <<QueueOf(MacQueueLen), out>>
<1>1. /\ storage' = storage /\ QueueHead' = QueueHead /\ out' = out
      /\ \A n : OrderInv(n)' <=> OrderInv(n)
  BY QueueUntouched
<1>2. PICK n : n = MacQueueLen
  OBVIOUS
<1> QED
  BY <1>1, <1>2 DEF MacFifoInv, QueueOf

\* So is one that changes no semaphore and moves no child that has a slot.
LEMMA MacQuietStutters ==
  ASSUME MacIInv, MacFifoInv, UNCHANGED <<sem, buffer>>, Ready => Ready',
         \A c \in Child : HasSlot(c) \/ HasSlot(c)' => pc'[c] = pc[c]
  PROVE  MacFifoInv' /\ UNCHANGED <<QueueOf(MacQueueLen), out>>
<1>1. \A c \in Child : HasLetter(c, pc'[c]) <=> HasLetter(c, pc[c])
  BY DEF HasLetter, HasSlot, InCritical, FilledPcs, AskedPcs, ProducerPcs, ConsumerPcs,
         HandoverPcs
<1>2. InHand(pc') = InHand(pc)
  BY <1>1 DEF InHand
<1>3. sem[1] \in Nat
  BY DEF MacIInv, BufferInv, BufferTypeOK
<1>4. MacQueueLen = sem[1] + Cardinality(InHand(pc))
  BY <1>3, LettersInHand DEF MacQueueLen
<1>5. MacQueueLen' = sem[1] + Cardinality(InHand(pc'))
  BY <1>3, LettersInHand DEF MacQueueLen
<1>6. \A c \in Child : /\ pc'[c] = "advance" <=> pc[c] = "advance"
                       /\ pc'[c] = "next" <=> pc[c] = "next"
  BY DEF HasSlot, InCritical, ProducerPcs, ConsumerPcs
<1> QED
  BY <1>2, <1>4, <1>5, <1>6, MacStutters DEF MacFifoInv

\* How one child's step changes the number of letters in the queue.
LEMMA MoveCounts ==
  ASSUME MacIInv, NEW c \in Child, sem' \in [0 .. 2 -> Nat],
         \A d \in Child : d # c => pc'[d] = pc[d]
  PROVE  /\ MacQueueLen \in Nat /\ MacQueueLen' \in Nat
         /\ MacQueueLen' + sem[1] + One(HasLetter(c, pc[c]))
              = MacQueueLen + sem'[1] + One(HasLetter(c, pc'[c]))
<1>1. sem[1] \in Nat /\ sem'[1] \in Nat
  BY DEF MacIInv, BufferInv, BufferTypeOK
<1>2. MacQueueLen = sem[1] + Cardinality(InHand(pc))
  BY <1>1, LettersInHand DEF MacQueueLen
<1>3. MacQueueLen' = sem'[1] + Cardinality(InHand(pc'))
  BY <1>1, LettersInHand DEF MacQueueLen
<1>4. /\ Cardinality(InHand(pc)) \in Nat
      /\ Cardinality(InHand(pc')) + One(HasLetter(c, pc[c]))
           = Cardinality(InHand(pc)) + One(HasLetter(c, pc'[c]))
  BY HandMoves
<1>5. InHand(pc') \in SUBSET Child
  BY DEF InHand
<1>6. Cardinality(InHand(pc')) \in Nat
  BY <1>5, CountingParts
<1> QED
  BY <1>1, <1>2, <1>3, <1>4, <1>6 DEF One

\* A semaphore call moves no letter: what SEMAPHORE_FULL stops counting,
\* the child that made the call answers for, and the other way round.
LEMMA CallStutters ==
  ASSUME MacIInv, MacFifoInv, NEW c \in Child, NEW from, NEW to, UNCHANGED buffer,
         Move(c, from, to), from \cap {"next", "advance"} = {}, to \notin {"next", "advance"},
         sem' \in [0 .. 2 -> Nat],
         sem'[1] + One(HasLetter(c, to)) = sem[1] + One(HasLetter(c, pc[c]))
  PROVE  MacFifoInv' /\ UNCHANGED <<QueueOf(MacQueueLen), out>>
<1>1. PcOK(MacLabels) /\ FamilyTypeOK /\ FamilyInv /\ pc \in [Child -> MacLabels]
  BY MacIInvParts DEF BufferInv, BufferTypeOK, BufferLabels, PcOK
<1>2. /\ pc[c] \in from /\ pc'[c] = to
      /\ \A d \in Child : d # c => pc'[d] = pc[d]
  BY <1>1 DEF Move, Goto
<1>3. Ready'
  <2>1. c >= 0 /\ life[c] = "alive"
    BY DEF Child, Move, Alive
  <2>2. Ready
    BY <1>1, <2>1 DEF FamilyInv
  <2> QED
    BY <2>2 DEF Move, Ready
<1>4. sem[1] \in Nat /\ sem'[1] \in Nat
  BY DEF MacIInv, BufferInv, BufferTypeOK
<1>5. /\ MacQueueLen \in Nat /\ MacQueueLen' \in Nat
      /\ MacQueueLen' + sem[1] + One(HasLetter(c, pc[c]))
           = MacQueueLen + sem'[1] + One(HasLetter(c, pc'[c]))
  BY <1>2, MoveCounts
<1>6. MacQueueLen' = MacQueueLen
  BY <1>2, <1>4, <1>5 DEF One
<1>7. \A d \in Child : /\ pc'[d] = "advance" <=> pc[d] = "advance"
                       /\ pc'[d] = "next" <=> pc[d] = "next"
  BY <1>2
<1> QED
  BY <1>3, <1>6, <1>7, MacStutters

\* The calls of a producer: only its last post changes SEMAPHORE_FULL.
LEMMA ProducerCallStutters ==
  ASSUME MacIInv, MacFifoInv, NEW c \in Producers,
         Calls(c, SEMAPHORE_EMPTY, "store", "end_produce", SEMAPHORE_FULL)
  PROVE  MacFifoInv' /\ UNCHANGED <<QueueOf(MacQueueLen), out>>
<1>1. c \in Child /\ c \notin Consumers /\ sem \in [0 .. 2 -> Nat]
  BY DEF Producers, Consumers, MacIInv, BufferInv, BufferTypeOK
<1>2. \A l : HasLetter(c, l) <=> l \in {"next", "wrapletter", "wrapp", "end_produce", "post"}
  BY <1>1, FilledLabels DEF HasLetter
<1>3. PICK from, to : /\ Move(c, from, to) /\ UNCHANGED buffer /\ sem' \in [0 .. 2 -> Nat]
                      /\ \/ /\ from \in {{"semop", "sleep"}, {"semop"}, {"wait_binary"},
                                         {"wait_binary", "sleep_binary"}}
                            /\ to \in {"wait_binary", "sleep", "store", "sleep_binary"}
                            /\ sem'[1] = sem[1]
                         \/ from = {"end_produce"} /\ to = "post" /\ sem'[1] = sem[1]
                         \/ from = {"post"} /\ to = "while" /\ sem'[1] = sem[1] + 1
  BY <1>1 DEF Calls, Wait, MacSleep, Post
<1>4. pc[c] \in from
  BY <1>3 DEF Move
<1>5. sem'[1] + One(HasLetter(c, to)) = sem[1] + One(HasLetter(c, pc[c]))
  BY <1>1, <1>2, <1>3, <1>4 DEF One
<1> QED
  BY <1>1, <1>3, <1>5, CallStutters

\* The calls of a consumer: only its first wait does.
LEMMA ConsumerCallStutters ==
  ASSUME MacIInv, MacFifoInv, NEW c \in Consumers,
         Calls(c, SEMAPHORE_FULL, "get", "end_consume", SEMAPHORE_EMPTY)
  PROVE  MacFifoInv' /\ UNCHANGED <<QueueOf(MacQueueLen), out>>
<1>1. c \in Child /\ c \notin Producers /\ sem \in [0 .. 2 -> Nat]
  BY DEF Producers, Consumers, MacIInv, BufferInv, BufferTypeOK
<1>2. \A l : HasLetter(c, l) <=> l \in {"wait_binary", "sleep_binary", "get"}
  BY <1>1 DEF HasLetter, AskedPcs
<1>3. PICK from, to : /\ Move(c, from, to) /\ UNCHANGED buffer /\ sem' \in [0 .. 2 -> Nat]
                      /\ \/ /\ from = {"semop", "sleep"} /\ to = "wait_binary"
                            /\ sem[1] > 0 /\ sem'[1] = sem[1] - 1
                         \/ from = {"semop"} /\ to = "sleep" /\ sem'[1] = sem[1]
                         \/ /\ from \in {{"wait_binary"}, {"wait_binary", "sleep_binary"}}
                            /\ to \in {"sleep_binary", "get"} /\ sem'[1] = sem[1]
                         \/ /\ from \in {{"end_consume"}, {"post"}}
                            /\ to \in {"post", "while"} /\ sem'[1] = sem[1]
  BY <1>1 DEF Calls, Wait, MacSleep, Post
<1>4. pc[c] \in from
  BY <1>3 DEF Move
<1>5. sem'[1] + One(HasLetter(c, to)) = sem[1] + One(HasLetter(c, pc[c]))
  BY <1>1, <1>2, <1>3, <1>4 DEF One
<1> QED
  BY <1>1, <1>3, <1>5, CallStutters

\* The setup is a stutter too: nothing is in the buffer before or after it.
LEMMA MacSetupStutters ==
  ASSUME MacIInv, MacFifoInv, Setup
  PROVE  MacFifoInv' /\ UNCHANGED <<QueueOf(MacQueueLen), out>>
<1>1. /\ sem'[1] = 0 /\ ~Ready /\ pc' = pc
  BY MacIInvParts, SetupKeeps
<1>2. \A c \in Child : ~HasSlot(c)
  BY <1>1, NoHolderBeforeReady DEF MacIInv, BufferInv
<1>3. \A c \in Child : ~HasLetter(c, pc[c])
  BY <1>2 DEF HasLetter, HasSlot, InCritical, FilledPcs, AskedPcs, ProducerPcs, ConsumerPcs,
              HandoverPcs
<1>4. InHand(pc) = {} /\ InHand(pc') = {}
  BY <1>1, <1>3 DEF InHand
<1>5. sem[1] = 0
  BY <1>1 DEF MacFifoInv
<1>6. 0 + Cardinality(InHand(pc)) = MacQueueLen
  BY <1>5, LettersInHand DEF MacQueueLen
<1>7. 0 + Cardinality(InHand(pc')) = MacQueueLen'
  BY <1>1, LettersInHand DEF MacQueueLen
<1> QED
  BY <1>1, <1>4, <1>6, <1>7, MacStutters DEF Setup

\* A store is a Put, a printf is a Get, and the other statements stutter.
LEMMA MacStatementsImplement ==
  ASSUME MacIInv, MacFifoInv, NEW c \in Child,
         \/ c \in Producers /\ Produce(c)
         \/ c \in Consumers /\ Consume(c)
  PROVE  MacFifoInv' /\ [MacAbstract!Next]_<<QueueOf(MacQueueLen), out>>
<1>1. BufferInv /\ BufferLabels(MacLabels)
  BY MacIInvParts
<1>2. /\ Ready' /\ sem' = sem /\ sem' \in [0 .. 2 -> Nat] /\ sem[1] \in Nat
      /\ \A d \in Child : d # c => pc'[d] = pc[d]
  BY <1>1, ProduceKeeps, ConsumeKeeps DEF BufferInv, BufferTypeOK
<1>3. PICK n \in 0 .. ELEMENTS : n = MacQueueLen
  BY MacQueueFits
<1>4. OrderInv(n) /\ n \in Nat
  BY <1>3 DEF MacFifoInv
<1>5. PICK q : q = LettersFrom(storage, QueueHead, n)
  OBVIOUS
<1>6. /\ QueueOf(MacQueueLen) = q
      /\ Len(q) = n /\ (q = <<>> <=> n = 0)
      /\ (IF q = <<>> THEN out ELSE q[Len(q)]) = NewestOf(n)
  BY <1>1, <1>3, <1>5, NewestIsLast DEF QueueOf
<1>7. /\ MacQueueLen' \in Nat
      /\ MacQueueLen' + One(HasLetter(c, pc[c])) = n + One(HasLetter(c, pc'[c]))
  <2>1. /\ One(HasLetter(c, pc[c])) \in {0, 1} /\ One(HasLetter(c, pc'[c])) \in {0, 1}
        /\ sem'[1] = sem[1]
    BY <1>2 DEF One
  <2>2. /\ MacQueueLen' \in Nat
        /\ MacQueueLen' + sem[1] + One(HasLetter(c, pc[c]))
             = MacQueueLen + sem'[1] + One(HasLetter(c, pc'[c]))
    BY <1>2, MoveCounts
  <2> QED
    BY <1>2, <1>3, <1>4, <2>1, <2>2
<1>8. pc \in [Child -> MacLabels]
  BY <1>1 DEF BufferLabels, PcOK
<1>9. CASE c \in Producers /\ Store(c)
  <2>1. pc[c] = "store" /\ pc'[c] = "next"
    BY <1>8, <1>9 DEF Store, Statement, Move, Goto
  <2>2. ~HasLetter(c, pc[c]) /\ HasLetter(c, pc'[c])
    BY <1>9, <2>1, FilledLabels DEF HasLetter, Consumers
  <2>3. MacQueueLen' = n + 1
    <3>1. One(HasLetter(c, pc[c])) = 0 /\ One(HasLetter(c, pc'[c])) = 1
      BY <2>2 DEF One
    <3>2. \A j, k \in Nat : k + 0 = j + 1 => k = j + 1
      OBVIOUS
    <3> QED
      BY <1>4, <1>7, <3>1, <3>2, Zenon
  <2>4. n \in 0 .. ELEMENTS - 1
    <3>1. MacQueueLen < ELEMENTS
      BY <2>1, MacQueueFits
    <3> QED
      BY <1>3, <3>1, BufferAssumption
  <2>5. /\ LettersFrom(storage', QueueHead', n + 1) = Append(q, SuccLetter(NewestOf(n)))
        /\ out' = out
        /\ OrderInv(n + 1)'
    BY <1>1, <1>4, <1>5, <1>9, <2>4, StorePuts
  <2>6. QueueOf(MacQueueLen)' = Append(q, SuccLetter(NewestOf(n)))
    BY <2>3, <2>5 DEF QueueOf
  <2>7. MacAbstract!Succ(MacAbstract!Newest) = SuccLetter(NewestOf(n))
    BY <1>6 DEF MacAbstract!Succ, MacAbstract!Newest, SuccLetter
  <2>8. MacAbstract!Put
    BY <1>6, <2>4, <2>5, <2>6, <2>7, BufferAssumption DEF MacAbstract!Put
  <2> QED
    BY <1>2, <2>3, <2>5, <2>8 DEF MacAbstract!Next, MacFifoInv
<1>10. CASE c \in Consumers /\ Get(c)
  <2>1. pc[c] = "get" /\ pc'[c] = "advance"
    BY <1>8, <1>10 DEF Get, Statement, Move, Goto
  <2>2. HasLetter(c, pc[c]) /\ ~HasLetter(c, pc'[c])
    BY <1>10, <2>1 DEF HasLetter, Consumers, AskedPcs
  <2>3. MacQueueLen' = n - 1
    <3>1. One(HasLetter(c, pc[c])) = 1 /\ One(HasLetter(c, pc'[c])) = 0
      BY <2>2 DEF One
    <3>2. \A j, k \in Nat : k + 1 = j + 0 => k = j - 1
      OBVIOUS
    <3> QED
      BY <1>4, <1>7, <3>1, <3>2, Zenon
  <2>4. n \in 1 .. ELEMENTS
    <3>1. MacQueueLen >= 1
      BY <1>10, <2>1, MacQueueFits
    <3> QED
      BY <1>3, <3>1, BufferAssumption
  <2>5. /\ out' = Head(q)
        /\ LettersFrom(storage', QueueHead', n - 1) = Tail(q)
        /\ OrderInv(n - 1)'
    BY <1>1, <1>4, <1>5, <1>10, <2>4, GetTakes
  <2>6. QueueOf(MacQueueLen)' = Tail(q)
    BY <2>3, <2>5 DEF QueueOf
  <2>7. MacAbstract!Get
    BY <1>6, <2>4, <2>5, <2>6 DEF MacAbstract!Get
  <2> QED
    BY <1>2, <2>3, <2>5, <2>7 DEF MacAbstract!Next, MacFifoInv
<1>11. CASE \/ c \in Producers /\ (NextLetter(c) \/ WrapLetter(c) \/ WrapProducep(c))
            \/ c \in Consumers /\ (Advance(c) \/ WrapConsumep(c))
  <2>1. \/ /\ c \in Producers /\ c \notin Consumers
           /\ pc[c] \in FilledPcs /\ pc'[c] \in FilledPcs
        \/ /\ c \in Consumers /\ c \notin Producers
           /\ pc[c] \notin AskedPcs /\ pc'[c] \notin AskedPcs
    BY <1>8, <1>11, FilledLabels
       DEF NextLetter, WrapLetter, WrapProducep, Advance, WrapConsumep, Statement, Move, Goto,
           AskedPcs, Consumers
  <2>2. HasLetter(c, pc'[c]) <=> HasLetter(c, pc[c])
    BY <2>1 DEF HasLetter
  <2>3. MacQueueLen' = n
    <3>1. /\ One(HasLetter(c, pc'[c])) = One(HasLetter(c, pc[c]))
          /\ One(HasLetter(c, pc[c])) \in Nat
      BY <2>2 DEF One
    <3>2. \A i, j, k \in Nat : k + i = j + i => k = j
      OBVIOUS
    <3> QED
      BY <1>4, <1>7, <3>1, <3>2, Zenon
  <2>4. /\ LettersFrom(storage', QueueHead', n) = LettersFrom(storage, QueueHead, n)
        /\ out' = out
        /\ OrderInv(n)'
    BY <1>1, <1>4, <1>11, OtherStatements
  <2> QED
    BY <1>2, <1>3, <2>3, <2>4 DEF MacFifoInv, QueueOf
<1> QED
  BY <1>9, <1>10, <1>11 DEF Produce, Consume

\* The initial state is the empty queue, which ends with 'z'.
LEMMA MacInitEstablishesFifo == MacInit => MacFifoInv /\ MacAbstract!Init
<1> SUFFICES ASSUME MacInit PROVE MacFifoInv /\ MacAbstract!Init
  OBVIOUS
<1>1. \A c \in Child : pc[c] = "alarm"
  BY DEF MacInit, BufferInit, FamilyInit
<1>2. sem[1] = 0 /\ consumep = 0 /\ producep = 0 /\ letter = 0 /\ out = LETTERS - 1
  BY DEF MacInit, BufferInit
<1>3. InHand(pc) = {}
  BY <1>1, FilledLabels DEF InHand, HasLetter, AskedPcs
<1>4. MacQueueLen = 0 /\ QueueHead = 0
  <2>1. 0 + Cardinality(InHand(pc)) = MacQueueLen
    BY <1>2, LettersInHand DEF MacQueueLen
  <2> QED
    BY <1>1, <1>2, <1>3, <2>1, FS_EmptySet DEF QueueHead
<1>5. OrderInv(0)
  BY <1>1, <1>2, <1>4, BufferAssumption DEF OrderInv, NewestOf, Upcoming, SuccLetter
<1>6. BufferInv
  BY BufferInitially DEF MacInit
<1>7. QueueOf(MacQueueLen) = <<>>
  <2>1. 0 \in 0 .. ELEMENTS
    BY BufferAssumption
  <2> QED
    BY <1>4, <1>6, <2>1, NewestIsLast DEF QueueOf
<1> QED
  BY <1>2, <1>4, <1>5, <1>7 DEF MacFifoInv, MacAbstract!Init

\* Every step of the program is a step of the queue, or a stutter.
LEMMA MacNextImplements ==
  MacIInv /\ MacFifoInv /\ [MacNext]_macVars
    => MacFifoInv' /\ [MacAbstract!Next]_<<QueueOf(MacQueueLen), out>>
<1> SUFFICES ASSUME MacIInv, MacFifoInv, [MacNext]_macVars
             PROVE  MacFifoInv' /\ [MacAbstract!Next]_<<QueueOf(MacQueueLen), out>>
  OBVIOUS
<1>1. pc \in [Child -> MacLabels]
  BY DEF MacIInv, MacTypeOK, MacLabels, Critical
<1>2. CASE Setup
  BY <1>2, MacSetupStutters
<1>3. CASE MacMain /\ ~Open
  <2>1. UNCHANGED <<sem, buffer>> /\ pc' = pc /\ (Ready => Ready')
    BY <1>3 DEF MacMain, OpenFails, SharedMemoryFails, SetupFails, Fork, ForkFails, Reap,
                WaitInterrupted, NoMoreChildren, SigintParent, MacRemoveShm, CloseAndUnlink,
                Remove, Ready
  <2>2. \A c \in Child : pc'[c] = pc[c]
    BY <2>1
  <2> QED
    BY <2>1, <2>2, MacQuietStutters
<1>4. ASSUME NEW c \in Child, MacLoop(c)
      PROVE  MacFifoInv' /\ [MacAbstract!Next]_<<QueueOf(MacQueueLen), out>>
  <2>1. UNCHANGED <<sem, buffer>> /\ (Ready => Ready')
    BY <1>4 DEF MacLoop, Alarm, LoopAgain, LoopEnds, Sigint, SigintAsleep, Sigalrm, End, Move,
                Ready
  <2>2. \A d \in Child : HasSlot(d) \/ HasSlot(d)' => pc'[d] = pc[d]
    BY <1>1, <1>4, LabelsDisjoint, HandoverDisjoint
       DEF HasSlot, InCritical, Critical, MacLoop, Alarm, LoopAgain, LoopEnds, Sigint,
           SigintAsleep, Sigalrm, End, Move, Goto
  <2> QED
    BY <2>1, <2>2, MacQuietStutters
<1>5. ASSUME NEW c \in Producers, MacProducer(c)
      PROVE  MacFifoInv' /\ [MacAbstract!Next]_<<QueueOf(MacQueueLen), out>>
  <2>1. c \in Child
    BY DEF Producers
  <2> QED
    BY <1>5, <2>1, ProducerCallStutters, MacStatementsImplement DEF MacProducer
<1>6. ASSUME NEW c \in Consumers, MacConsumer(c)
      PROVE  MacFifoInv' /\ [MacAbstract!Next]_<<QueueOf(MacQueueLen), out>>
  <2>1. c \in Child
    BY DEF Consumers
  <2> QED
    BY <1>6, <2>1, ConsumerCallStutters, MacStatementsImplement DEF MacConsumer
<1>7. CASE UNCHANGED macVars
  <2>1. UNCHANGED <<sem, buffer>> /\ (Ready => Ready') /\ pc' = pc
    BY <1>7 DEF macVars, family, Ready
  <2>2. \A c \in Child : pc'[c] = pc[c]
    BY <2>1
  <2> QED
    BY <2>1, <2>2, MacQuietStutters
<1> QED
  BY <1>2, <1>3, <1>4, <1>5, <1>6, <1>7 DEF MacNext, MacMain, Open, MacTerminated

\* Letters leave the buffer in the order of the alphabet, none lost and none
\* twice, although producers can have stored letters they have not posted,
\* and may die before they do (prod_cons_mac.c 40-116).
THEOREM MacImplementsQueue == MacSpec => MacImplementsLetterQueue
<1> QED
  BY MacInitEstablishesIInv, MacInitEstablishesFifo, MacNextKeepsIInv, MacNextImplements, PTL
     DEF MacSpec, MacImplementsLetterQueue, MacAbstract!Spec
=============================================================================
