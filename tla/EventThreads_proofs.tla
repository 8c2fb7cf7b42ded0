------------------------ MODULE EventThreads_proofs ------------------------
(***************************************************************************)
(* Proofs about the two programs of lab_04, for any number of threads, any *)
(* alphabet and any width of the counters: the events never leave all      *)
(* threads waiting, can_read is always in somebody's hands, and only       *)
(* overlapping writers drive the letter out of its alphabet.               *)
(*                                                                         *)
(* The names of writer_reader_active.c are used as they are, those of      *)
(* writer_reader.c with WR! before them.                                   *)
(***************************************************************************)
EXTENDS EventWriterReaderActive, TLAPS

WR == INSTANCE EventWriterReader

\* The loops of main() over the threads.
MainInv ==
  /\ main \in {"setup", "create"} =>
       next < ThreadCount /\ \A t \in Thread : t >= next => pc[t] = "unborn"
  /\ main = "wait" => next = 0
  /\ main = "kill" => next < ThreadCount

\* What a thread has loaded from cnt is a value of cnt, and only writers come
\* between start_write() and stop_write().
ThreadInv ==
  /\ \A t \in Thread : pc[t] = "cnt_store" => reg[t] \in Nat
  /\ \A t \in Readers : pc[t] \notin SectionPcs

\* As long as no two writers have met, the one that adds 1 to the letter has
\* seen that it is not the last.
LetterInv ==
  Watch /\ ~overlap =>
    /\ ~Overlapping
    /\ symbol < LETTERS
    /\ \A t \in Thread :
         pc[t] \in {"inc", "put"} => reg[t] = symbol /\ symbol < LETTERS - 1

IInv == TypeOK /\ MainInv /\ ThreadInv /\ LetterInv

\* In writer_reader.c: a thread that will signal one of the events, or end,
\* before it waits for one again.
WayPcs ==
  SectionPcs \cup
    {"uncount_load", "uncount_store", "stop", "choose", "set_write", "set_read",
     "signal", "lock", "unlock", "end_read"}
OnItsWay(t) == pc[t] \in WayPcs

EventsInHand ==
  (\A t \in Thread : ~Ended(t)) =>
    /\ can_read \/ can_write \/ \E t \in Thread : OnItsWay(t)
    /\ \E t \in Thread : ~Asleep(t)

\* Each kind of thread waits for its own event.
OwnEvents ==
  /\ \A t \in Writers : pc[t] # "wait_read"
  /\ \A t \in Readers : pc[t] # "wait_write"
-----------------------------------------------------------------------------
(* What a step of a thread does to the invariant, one lemma for each kind. *)

\* The labels at which the invariant asks nothing of reg.
Plain == ThreadPcs \ {"cnt_store", "inc", "put"}

\* The step itself.
LEMMA ThreadMoves ==
  ASSUME IInv, NEW t \in Thread, NEW from, NEW to \in ThreadPcs, Step(t, from, to)
  PROVE  /\ main' = main /\ next' = next /\ ctrl' = ctrl
         /\ pc[t] = from /\ pc'[t] = to /\ \A u \in Thread : u # t => pc'[u] = pc[u]
         /\ pc' \in [Thread -> ThreadPcs]
         /\ overlap' \in BOOLEAN
         /\ Watch /\ ~overlap' => ~overlap /\ ~Overlapping'
<1>1. pc \in [Thread -> ThreadPcs] /\ overlap \in BOOLEAN
  BY DEF IInv, TypeOK
<1>2. overlap' = (overlap \/ (Watch /\ Overlapping'))
  BY DEF Step
<1>3. /\ overlap' \in BOOLEAN
      /\ Watch /\ ~overlap' => ~overlap /\ ~Overlapping'
  BY <1>1, <1>2, EventThreadsAssumption, Zenon
<1>4. /\ main' = main /\ next' = next /\ ctrl' = ctrl
      /\ pc[t] = from /\ pc' = [pc EXCEPT ![t] = to]
  BY DEF Step
<1> QED
  BY <1>1, <1>3, <1>4

\* A thread that takes a step was born, and stays born.
LEMMA MainStays ==
  ASSUME IInv, NEW t \in Thread, NEW from, NEW to \in ThreadPcs, Step(t, from, to),
         from # "unborn"
  PROVE  MainInv'
<1>1. /\ main' = main /\ next' = next
      /\ pc[t] = from /\ \A u \in Thread : u # t => pc'[u] = pc[u]
  BY ThreadMoves
<1> QED
  BY <1>1 DEF IInv, MainInv

\* The types of what a step may change besides pc, overlap and reg.
SharedTypes ==
  /\ can_read \in BOOLEAN /\ can_write \in BOOLEAN
  /\ bmutex \in Thread \cup {Nobody}
  /\ write_cnt \in -LONG_MAX - 1 .. LONG_MAX
  /\ symbol \in 0 .. CHARS - 1
  /\ cnt \in Nat
  /\ flag \in {0, 1}

\* A step that leaves the letter alone and asks nothing of reg.
LEMMA PlainKeeps ==
  ASSUME IInv, NEW t \in Thread, NEW from, NEW to \in Plain, Step(t, from, to),
         from # "unborn", t \in Readers => to \notin SectionPcs,
         reg' \in [Thread -> Int], \A u \in Thread : u # t => reg'[u] = reg[u],
         symbol' = symbol, SharedTypes'
  PROVE  IInv'
<1>1. to \in ThreadPcs /\ to \notin {"cnt_store", "inc", "put"}
  BY DEF Plain
<1>2. /\ main' = main /\ next' = next /\ ctrl' = ctrl
      /\ pc'[t] = to /\ \A u \in Thread : u # t => pc'[u] = pc[u]
      /\ pc' \in [Thread -> ThreadPcs]
      /\ overlap' \in BOOLEAN
      /\ Watch /\ ~overlap' => ~overlap /\ ~Overlapping'
  BY <1>1, ThreadMoves
<1>3. TypeOK'
  BY <1>2 DEF IInv, TypeOK, SharedTypes
<1>4. MainInv'
  BY <1>1, MainStays
<1>5. ThreadInv'
  BY <1>1, <1>2 DEF IInv, ThreadInv, Readers
<1>6. LetterInv'
  BY <1>1, <1>2 DEF IInv, LetterInv
<1> QED
  BY <1>3, <1>4, <1>5, <1>6 DEF IInv

\* As long as no two writers have met, a writer in its section is alone.
LEMMA WriterAlone ==
  ASSUME IInv, NEW t \in Writers, pc[t] \in SectionPcs, Watch, ~overlap,
         NEW u \in Thread, u # t
  PROVE  pc[u] \notin SectionPcs
<1>1. ~Overlapping
  BY DEF IInv, LetterInv
<1>2. CASE u \in Writers
  BY <1>1, <1>2 DEF Overlapping
<1>3. CASE u \in Readers
  BY <1>3 DEF IInv, ThreadInv
<1> QED
  BY <1>2, <1>3 DEF Readers

\* A statement of a writer in its section, which may change reg and symbol.
LEMMA StatementKeeps ==
  ASSUME IInv, NEW t \in Writers, NEW from \in SectionPcs, NEW to \in ThreadPcs,
         Step(t, from, to),
         reg' \in [Thread -> Int], \A u \in Thread : u # t => reg'[u] = reg[u],
         SharedTypes',
         to = "cnt_store" => reg'[t] \in Nat,
         Watch /\ ~overlap =>
           symbol' < LETTERS /\
           (to \in {"inc", "put"} => reg'[t] = symbol' /\ symbol' < LETTERS - 1)
  PROVE  IInv'
<1>1. t \in Thread /\ t \notin Readers /\ from # "unborn"
  BY DEF Writers, Readers, SectionPcs
<1>2. /\ main' = main /\ next' = next /\ ctrl' = ctrl
      /\ pc[t] = from /\ pc'[t] = to /\ \A u \in Thread : u # t => pc'[u] = pc[u]
      /\ pc' \in [Thread -> ThreadPcs]
      /\ overlap' \in BOOLEAN
      /\ Watch /\ ~overlap' => ~overlap /\ ~Overlapping'
  BY <1>1, ThreadMoves
<1>3. TypeOK'
  BY <1>2 DEF IInv, TypeOK, SharedTypes
<1>4. MainInv'
  BY <1>1, MainStays
<1>5. ThreadInv'
  BY <1>1, <1>2 DEF IInv, ThreadInv, Readers
<1>6. LetterInv'
  <2> SUFFICES ASSUME Watch, ~overlap'
               PROVE  LetterInv'
    BY DEF LetterInv
  <2>1. ~overlap /\ ~Overlapping'
    BY <1>2
  <2>2. \A u \in Thread : u # t => pc'[u] \notin {"inc", "put"}
    BY <1>2, <2>1, WriterAlone DEF SectionPcs
  <2> QED
    BY <1>2, <2>1, <2>2 DEF LetterInv
<1> QED
  BY <1>3, <1>4, <1>5, <1>6 DEF IInv

\* A 32-bit counter stays in its range.
LEMMA LongInRange ==
  ASSUME NEW n \in Int
  PROVE  Long(n) \in -LONG_MAX - 1 .. LONG_MAX
<1>1. PICK w \in Nat : w = 2 * LONG_MAX + 2 /\ w > 0
  BY EventThreadsAssumption
<1>2. \A k \in Int : k % w \in 0 .. w - 1
  BY <1>1
<1>3. (n + LONG_MAX + 1) \in Int
  BY EventThreadsAssumption
<1>4. (n + LONG_MAX + 1) % w \in 0 .. w - 1
  BY <1>2, <1>3
<1> QED
  BY <1>1, <1>4, EventThreadsAssumption DEF Long

\* The statements of writer() between start_write() and stop_write().
LEMMA LetterKeeps ==
  ASSUME IInv, NEW t \in Writers, Letter(t)
  PROVE  IInv'
<1>1. t \in Thread /\ pc[t] \in ThreadPcs /\ reg \in [Thread -> Int] /\ SharedTypes
  BY DEF IInv, TypeOK, Writers, SharedTypes
<1>2. /\ LETTERS \in Nat \ {0} /\ CHARS \in Nat /\ CHARS >= LETTERS
      /\ Thread \in SUBSET Int
  BY EventThreadsAssumption DEF Thread
<1>3. /\ {"test", "inc", "put", "cnt_load", "cnt_store", "reset", "check"} \subseteq SectionPcs
      /\ SectionPcs \subseteq ThreadPcs /\ {"stop", "done"} \subseteq Plain
      /\ "check" \in Plain /\ "reset" \in Plain /\ "cnt_load" \in Plain
      /\ Plain \subseteq ThreadPcs /\ {"stop", "done"} \cap SectionPcs = {}
  BY DEF SectionPcs, ThreadPcs, Plain
<1>4. Watch /\ ~overlap =>
        /\ symbol < LETTERS
        /\ pc[t] \in {"inc", "put"} => reg[t] = symbol /\ symbol < LETTERS - 1
  BY <1>1 DEF IInv, LetterInv
<1>5. CASE TestSymbol(t)
  <2>1. SharedTypes' /\ symbol' = symbol
    BY <1>1, <1>5 DEF TestSymbol, SharedTypes, events
  <2>2. reg' = [reg EXCEPT ![t] = IF symbol = LETTERS - 1 THEN 0 ELSE symbol]
    BY <1>5 DEF TestSymbol
  <2>3. symbol \in Int
    BY <1>1 DEF SharedTypes
  <2>4. reg' \in [Thread -> Int] /\ \A u \in Thread : u # t => reg'[u] = reg[u]
    BY <1>1, <2>2, <2>3
  <2>5. CASE symbol = LETTERS - 1
    BY <1>2, <1>3, <1>4, <1>5, <2>1, <2>4, <2>5, StatementKeeps DEF TestSymbol
  <2>6. CASE symbol # LETTERS - 1
    <3>1. reg'[t] = symbol /\ (symbol < LETTERS => symbol < LETTERS - 1)
      BY <1>1, <1>2, <2>2, <2>3, <2>6
    <3> QED
      BY <1>3, <1>4, <1>5, <2>1, <2>4, <2>6, <3>1, StatementKeeps DEF TestSymbol
  <2> QED
    BY <2>5, <2>6
<1>6. CASE LoadSymbol(t)
  <2>1. SharedTypes' /\ symbol' = symbol /\ pc[t] = "inc"
    BY <1>1, <1>6 DEF LoadSymbol, SharedTypes, events, Step
  <2>2. PICK s \in {reg[t], symbol} : reg' = [reg EXCEPT ![t] = s]
    BY <1>6 DEF LoadSymbol
  <2>3. s \in Int
    BY <1>1, <2>2 DEF SharedTypes
  <2>4. /\ reg' \in [Thread -> Int] /\ \A u \in Thread : u # t => reg'[u] = reg[u]
        /\ reg'[t] = s
    BY <1>1, <2>2, <2>3
  <2> QED
    BY <1>3, <1>4, <1>6, <2>1, <2>2, <2>4, StatementKeeps DEF LoadSymbol
<1>7. CASE StoreSymbol(t)
  <2>1. symbol' = (reg[t] + 1) % CHARS /\ pc[t] = "put" /\ reg' = [reg EXCEPT ![t] = 0]
    BY <1>7 DEF StoreSymbol, Step
  <2>2. reg' \in [Thread -> Int] /\ \A u \in Thread : u # t => reg'[u] = reg[u]
    BY <1>1, <2>1
  <2>3. PICK r \in Int : r = reg[t]
    BY <1>1
  <2>4. \A j \in Int, k \in Nat \ {0} : j % k \in 0 .. k - 1
    OBVIOUS
  <2>5. symbol' \in 0 .. CHARS - 1
    <3>1. r + 1 \in Int /\ CHARS \in Nat \ {0}
      BY <1>2
    <3>2. (r + 1) % CHARS \in 0 .. CHARS - 1
      BY <2>4, <3>1, Zenon
    <3> QED
      BY <2>1, <2>3, <3>2
  <2>6. SharedTypes'
    BY <1>1, <1>7, <2>5 DEF StoreSymbol, SharedTypes, events
  <2>7. Watch /\ ~overlap => symbol' < LETTERS
    <3> SUFFICES ASSUME Watch, ~overlap
                 PROVE  symbol' < LETTERS
      OBVIOUS
    <3>1. r = symbol /\ symbol < LETTERS - 1 /\ symbol \in Nat
      BY <1>1, <1>4, <2>1, <2>3 DEF SharedTypes
    <3>2. \A j, k \in Nat : j + 1 < k => (j + 1) % k = j + 1
      OBVIOUS
    <3>3. r \in Nat /\ r + 1 < CHARS /\ r + 1 < LETTERS
      BY <1>2, <3>1
    <3>4. symbol' = r + 1
      BY <1>2, <2>1, <2>3, <3>2, <3>3
    <3> QED
      BY <3>3, <3>4
  <2> QED
    BY <1>3, <1>7, <2>2, <2>6, <2>7, StatementKeeps DEF StoreSymbol
<1>8. CASE LoadCnt(t)
  <2>1. SharedTypes' /\ symbol' = symbol /\ cnt \in Nat
    BY <1>1, <1>8 DEF LoadCnt, SharedTypes, events
  <2>2. reg' \in [Thread -> Int] /\ reg'[t] = cnt /\ \A u \in Thread : u # t => reg'[u] = reg[u]
    BY <1>1, <1>8, <2>1 DEF LoadCnt
  <2> QED
    BY <1>3, <1>4, <1>8, <2>1, <2>2, StatementKeeps DEF LoadCnt
<1>9. CASE StoreCnt(t)
  <2>1. reg[t] \in Nat /\ cnt' = reg[t] + 1 /\ reg' = [reg EXCEPT ![t] = 0]
    BY <1>1, <1>9 DEF StoreCnt, Step, IInv, ThreadInv
  <2>2. SharedTypes' /\ symbol' = symbol
    BY <1>1, <1>9, <2>1 DEF StoreCnt, SharedTypes, events
  <2>3. reg' \in [Thread -> Int] /\ \A u \in Thread : u # t => reg'[u] = reg[u]
    BY <1>1, <2>1
  <2> QED
    BY <1>3, <1>4, <1>9, <2>2, <2>3, StatementKeeps DEF StoreCnt
<1>10. CASE ResetSymbol(t)
  <2>1. SharedTypes' /\ symbol' = 0 /\ reg' = reg
    BY <1>1, <1>2, <1>10 DEF ResetSymbol, SharedTypes, events
  <2> QED
    BY <1>1, <1>2, <1>3, <1>10, <2>1, StatementKeeps DEF ResetSymbol
<1>11. CASE GoOn(t)
  <2>1. SharedTypes' /\ symbol' = symbol /\ reg' = reg
    BY <1>1, <1>11 DEF GoOn, SharedTypes, events
  <2> QED
    BY <1>1, <1>3, <1>4, <1>11, <2>1, StatementKeeps DEF GoOn
<1>12. CASE Break(t)
  <2>1. /\ pc[t] = "check" /\ ctrl' = TRUE
        /\ pc' = [pc EXCEPT ![t] = "done"] /\ UNCHANGED <<main, next, shared>>
    BY <1>12 DEF Break
  <2>2. /\ pc' \in [Thread -> ThreadPcs] /\ pc'[t] = "done"
        /\ \A u \in Thread : u # t => pc'[u] = pc[u]
    BY <1>1, <1>3, <2>1 DEF IInv, TypeOK
  <2>3. TypeOK'
    BY <2>1, <2>2 DEF IInv, TypeOK, shared, events
  <2>4. MainInv'
    BY <1>1, <2>1, <2>2 DEF IInv, MainInv, shared
  <2>5. ThreadInv'
    BY <1>3, <2>1, <2>2 DEF IInv, ThreadInv, shared, Readers
  <2>6. Overlapping' => Overlapping
    BY <1>3, <2>2 DEF Overlapping, Writers
  <2>7. LetterInv'
    BY <2>1, <2>2, <2>6 DEF IInv, LetterInv, shared
  <2> QED
    BY <2>3, <2>4, <2>5, <2>7 DEF IInv
<1> QED
  BY <1>5, <1>6, <1>7, <1>8, <1>9, <1>10, <1>11, <1>12 DEF Letter

\* The statements of start_write() and start_read() on write_cnt and the mutex.
LEMMA CountKeeps ==
  ASSUME IInv, NEW t \in Thread, NEW from, NEW to \in Plain, from # "unborn",
         t \in Readers => to \notin SectionPcs,
         \/ LoadCount(t, from, to)
         \/ \E change \in {1, -1} : StoreCount(t, change, from, to)
         \/ LockMutex(t, from, to) \/ ReleaseMutex(t, from, to)
  PROVE  IInv'
<1>1. SharedTypes /\ reg \in [Thread -> Int]
  BY DEF IInv, TypeOK, SharedTypes
<1>2. CASE LoadCount(t, from, to)
  <2>1. write_cnt \in Int
    BY <1>1, EventThreadsAssumption DEF SharedTypes
  <2>2. SharedTypes' /\ symbol' = symbol
    BY <1>1, <1>2 DEF LoadCount, SharedTypes, events
  <2>3. reg' \in [Thread -> Int] /\ \A u \in Thread : u # t => reg'[u] = reg[u]
    BY <1>1, <1>2, <2>1 DEF LoadCount
  <2> QED
    BY <1>2, <2>2, <2>3, PlainKeeps DEF LoadCount
<1>3. ASSUME NEW change \in {1, -1}, StoreCount(t, change, from, to)
      PROVE  IInv'
  <2>1. reg[t] + change \in Int
    BY <1>1
  <2>2. write_cnt' \in -LONG_MAX - 1 .. LONG_MAX
    BY <1>3, <2>1, LongInRange DEF StoreCount
  <2>3. SharedTypes' /\ symbol' = symbol
    BY <1>1, <1>3, <2>2 DEF StoreCount, SharedTypes, events
  <2>4. reg' \in [Thread -> Int] /\ \A u \in Thread : u # t => reg'[u] = reg[u]
    BY <1>1, <1>3 DEF StoreCount
  <2> QED
    BY <1>3, <2>3, <2>4, PlainKeeps DEF StoreCount
<1>4. CASE LockMutex(t, from, to) \/ ReleaseMutex(t, from, to)
  <2>1. SharedTypes' /\ symbol' = symbol /\ reg' = reg
    BY <1>1, <1>4 DEF LockMutex, ReleaseMutex, SharedTypes, events
  <2> QED
    BY <1>1, <1>4, <2>1, PlainKeeps DEF LockMutex, ReleaseMutex
<1> QED
  BY <1>2, <1>3, <1>4

\* A step that changes nothing but an event, the test of flag among them.
LEMMA EventKeeps ==
  ASSUME IInv, NEW t \in Thread, NEW from, NEW to \in Plain, from # "unborn",
         t \in Readers => to \notin SectionPcs,
         EventStep(t, from, to), can_read' \in BOOLEAN, can_write' \in BOOLEAN
  PROVE  IInv'
<1>1. SharedTypes /\ reg \in [Thread -> Int]
  BY DEF IInv, TypeOK, SharedTypes
<1>2. SharedTypes' /\ symbol' = symbol /\ reg' = reg
  BY <1>1 DEF EventStep, SharedTypes
<1> QED
  BY <1>1, <1>2, PlainKeeps DEF EventStep

LEMMA WhileKeeps ==
  ASSUME IInv, NEW t \in Thread, NEW first \in Plain \ SectionPcs, While(t, first)
  PROVE  IInv'
<1>1. SharedTypes /\ reg \in [Thread -> Int]
  BY DEF IInv, TypeOK, SharedTypes
<1>2. SharedTypes' /\ symbol' = symbol /\ reg' = reg
  BY <1>1 DEF While, SharedTypes, events
<1>3. "done" \in Plain \ SectionPcs
  BY DEF Plain, ThreadPcs, SectionPcs
<1>4. PICK to \in Plain \ SectionPcs : Step(t, "while", to)
  BY <1>3 DEF While
<1> QED
  BY <1>1, <1>2, <1>4, PlainKeeps

\* What main() does, and the console events.
LEMMA MainKeeps ==
  ASSUME IInv, Main \/ UserCtrl
  PROVE  IInv'
<1>1. ThreadCount \in Nat \ {0} /\ Thread = 0 .. ThreadCount - 1
  BY EventThreadsAssumption DEF Thread
<1>2. /\ next \in 0 .. ThreadCount /\ pc \in [Thread -> ThreadPcs]
      /\ Exits = {"exit0", "exit1", "stopped"}
      /\ {"while", "done", "killed"} \subseteq ThreadPcs
      /\ {"while", "done", "killed"} \cap SectionPcs = {}
  BY DEF IInv, TypeOK, Exits, ThreadPcs, SectionPcs
<1>3. ASSUME pc' = pc, UNCHANGED shared
      PROVE  ThreadInv' /\ LetterInv'
  BY <1>3 DEF IInv, ThreadInv, LetterInv, Overlapping, shared
<1>4. ASSUME NEW l \in {"while", "done", "killed"}, next \in Thread,
             pc' = [pc EXCEPT ![next] = l], reg' = reg, symbol' = symbol, overlap' = overlap
      PROVE  /\ ThreadInv' /\ LetterInv' /\ pc' \in [Thread -> ThreadPcs]
             /\ \A t \in Thread : t # next => pc'[t] = pc[t]
  <2>1. /\ pc' \in [Thread -> ThreadPcs]
        /\ \A t \in Thread : pc'[t] = IF t = next THEN l ELSE pc[t]
    BY <1>2, <1>4
  <2>2. l \notin SectionPcs /\ l \notin {"inc", "put", "cnt_store"}
    BY <1>2
  <2>3. Overlapping' => Overlapping
    BY <2>1, <2>2 DEF Overlapping, Writers
  <2>4. ThreadInv'
    BY <1>4, <2>1, <2>2 DEF IInv, ThreadInv, Readers
  <2>5. LetterInv'
    BY <1>4, <2>1, <2>2, <2>3 DEF IInv, LetterInv
  <2> QED
    BY <2>1, <2>4, <2>5
<1>5. CASE CreateObjects
  <2>1. TypeOK' /\ MainInv'
    BY <1>5 DEF CreateObjects, IInv, TypeOK, MainInv, Exits, shared, events
  <2> QED
    BY <1>3, <1>5, <2>1 DEF CreateObjects, IInv
<1>6. CASE CreateThread
  <2>1. next \in Thread /\ next < ThreadCount /\ main = "create" /\ UNCHANGED <<ctrl, shared>>
        /\ pc' = [pc EXCEPT ![next] = "while"]
    BY <1>1, <1>2, <1>6 DEF CreateThread, IInv, MainInv
  <2>2. /\ ThreadInv' /\ LetterInv' /\ pc' \in [Thread -> ThreadPcs]
        /\ \A t \in Thread : t # next => pc'[t] = pc[t]
    BY <1>4, <2>1 DEF shared
  <2>3. \/ next + 1 = ThreadCount /\ main' = "wait" /\ next' = 0
        \/ next + 1 < ThreadCount /\ main' = "create" /\ next' = next + 1
    BY <1>1, <1>2, <1>6, <2>1 DEF CreateThread
  <2>4. TypeOK'
    BY <1>1, <1>2, <2>1, <2>2, <2>3 DEF IInv, TypeOK, shared, events
  <2>5. MainInv'
    BY <1>1, <1>2, <2>1, <2>2, <2>3 DEF IInv, MainInv
  <2> QED
    BY <2>2, <2>4, <2>5 DEF IInv
<1>7. CASE CreateThreadFails \/ AllFinished \/ WaitFails
  <2>1. main' \in {"exit0", "exit1"} /\ UNCHANGED <<next, pc, ctrl, shared>>
    BY <1>7 DEF CreateThreadFails, AllFinished, WaitFails
  <2>2. TypeOK' /\ MainInv'
    BY <2>1 DEF IInv, TypeOK, MainInv, Exits, shared, events
  <2> QED
    BY <1>3, <2>1, <2>2 DEF IInv
<1>8. CASE Timeout
  <2>1. TypeOK' /\ MainInv'
    BY <1>1, <1>8 DEF Timeout, IInv, TypeOK, MainInv, shared, events
  <2> QED
    BY <1>3, <1>8, <2>1 DEF Timeout, IInv
<1>9. CASE Terminate
  <2>1. next \in Thread /\ next + 1 \in 0 .. ThreadCount /\ main = "kill"
    BY <1>1, <1>2, <1>9 DEF Terminate, IInv, MainInv
  <2>2. PICK l \in {"while", "done", "killed"} : pc' = [pc EXCEPT ![next] = l]
    BY <1>2, <1>9, <2>1 DEF Terminate
  <2>3. /\ next' = next + 1 /\ main' = (IF next' = ThreadCount THEN "exit0" ELSE "kill")
        /\ bmutex' \in {bmutex, Nobody}
        /\ UNCHANGED <<reg, events, write_cnt, symbol, cnt, flag, ctrl, overlap>>
    BY <1>9 DEF Terminate
  <2>4. ThreadInv' /\ LetterInv' /\ pc' \in [Thread -> ThreadPcs]
    BY <1>4, <2>1, <2>2, <2>3
  <2>5. TypeOK'
    BY <1>2, <2>1, <2>3, <2>4 DEF IInv, TypeOK, events
  <2>6. MainInv'
    BY <1>1, <2>1, <2>3 DEF MainInv
  <2> QED
    BY <2>4, <2>5, <2>6 DEF IInv
<1>10. CASE UserCtrl
  <2>1. TypeOK' /\ MainInv'
    BY <1>10 DEF UserCtrl, IInv, TypeOK, MainInv, shared, events
  <2> QED
    BY <1>3, <1>10, <2>1 DEF UserCtrl, IInv
<1> QED
  BY <1>5, <1>6, <1>7, <1>8, <1>9, <1>10 DEF Main

\* The process ends.
LEMMA ExitKeeps ==
  ASSUME IInv, main' \in Exits, UNCHANGED <<next, pc, ctrl, shared>>
  PROVE  IInv'
BY DEF IInv, TypeOK, MainInv, ThreadInv, LetterInv, Overlapping, Exits, shared, events

LEMMA InitEstablishesIInv ==
  ASSUME Init
  PROVE  IInv
<1>1. /\ ThreadCount \in Nat \ {0} /\ LETTERS \in Nat \ {0} /\ CHARS \in Nat \ {0}
      /\ LONG_MAX \in Nat /\ Thread = 0 .. ThreadCount - 1
  BY EventThreadsAssumption DEF Thread
<1>2. "unborn" \in ThreadPcs /\ "unborn" \notin SectionPcs
  BY DEF ThreadPcs, SectionPcs
<1>3. ~Overlapping
  BY <1>2 DEF Init, Overlapping, Writers
<1>4. TypeOK
  <2>1. 0 \in 0 .. ThreadCount /\ 0 \in 0 .. CHARS - 1 /\ 0 \in -LONG_MAX - 1 .. LONG_MAX
    BY <1>1
  <2>2. pc \in [Thread -> ThreadPcs] /\ reg \in [Thread -> Int]
    BY <1>2 DEF Init
  <2> QED
    BY <2>1, <2>2 DEF Init, TypeOK
<1>5. MainInv /\ ThreadInv
  BY <1>1, <1>2 DEF Init, MainInv, ThreadInv, Readers
<1>6. LetterInv
  BY <1>1, <1>3 DEF Init, LetterInv
<1> QED
  BY <1>4, <1>5, <1>6 DEF IInv
-----------------------------------------------------------------------------
(* writer_reader_active.c *)

LEMMA WriterKeeps ==
  ASSUME IInv, NEW t \in Writers, Writer(t)
  PROVE  IInv'
<1>1. t \in Thread /\ t \notin Readers /\ can_read \in BOOLEAN /\ can_write \in BOOLEAN
  BY DEF IInv, TypeOK, Writers, Readers
<1>2. /\ {"wait_write", "uncount_load", "uncount_store", "count_store", "try_read",
          "test", "set_read", "while"} \subseteq Plain
      /\ "count_load" \in Plain \ SectionPcs
  BY DEF Plain, ThreadPcs, SectionPcs
<1>3. CASE While(t, "count_load")
  BY <1>1, <1>2, <1>3, WhileKeeps
<1>4. CASE \/ LoadCount(t, "count_load", "count_store")
           \/ StoreCount(t, 1, "count_store", "try_read")
           \/ LoadCount(t, "uncount_load", "uncount_store")
           \/ StoreCount(t, -1, "uncount_store", "test")
  BY <1>1, <1>2, <1>4, CountKeeps
<1>5. CASE TryRead(t)
  <2>1. PICK to \in {"wait_write", "uncount_load"} :
          EventStep(t, "try_read", to) /\ can_read' = FALSE /\ UNCHANGED can_write
    BY <1>5 DEF TryRead
  <2> QED
    BY <1>1, <1>2, <2>1, EventKeeps
<1>6. CASE WaitCanWrite(t)
  BY <1>1, <1>2, <1>6, EventKeeps DEF WaitCanWrite, events
<1>7. CASE StopWrite(t)
  BY <1>1, <1>2, <1>7, EventKeeps DEF StopWrite, ResetCanRead, SetCanRead
<1> QED
  BY <1>3, <1>4, <1>5, <1>6, <1>7, LetterKeeps DEF Writer, StartWrite

LEMMA ReaderKeeps ==
  ASSUME IInv, NEW t \in Readers, Reader(t)
  PROVE  IInv'
<1>1. t \in Thread /\ can_read \in BOOLEAN /\ can_write \in BOOLEAN
  BY DEF IInv, TypeOK, Readers
<1>2. {"wait_read", "try_write", "signal", "lock", "unlock", "end_read", "while",
       "test_count"} \subseteq Plain \ SectionPcs
  BY DEF Plain, ThreadPcs, SectionPcs
<1>3. CASE While(t, "test_count")
  BY <1>1, <1>2, <1>3, WhileKeeps
<1>4. CASE TestCount(t) \/ TryWrite(t)
  <2>1. PICK from \in {"test_count", "try_write"}, to \in {"wait_read", "try_write", "signal"} :
          EventStep(t, from, to) /\ UNCHANGED events
    BY <1>4 DEF TestCount, TryWrite
  <2> QED
    BY <1>1, <1>2, <2>1, EventKeeps DEF events
<1>5. CASE \/ WaitCanRead(t, "wait_read", "signal") \/ SetCanRead(t, "signal", "lock")
           \/ StopRead(t)
  BY <1>1, <1>2, <1>5, EventKeeps DEF WaitCanRead, SetCanRead, StopRead
<1>6. CASE LockMutex(t, "lock", "unlock") \/ ReleaseMutex(t, "unlock", "end_read")
  BY <1>1, <1>2, <1>6, CountKeeps
<1> QED
  BY <1>3, <1>4, <1>5, <1>6 DEF Reader, StartRead

\* The inductive invariant, of the shared skeleton.
THEOREM Invariance == Spec => []IInv
<1>1. IInv /\ [Next]_vars => IInv'
  <2> SUFFICES ASSUME IInv, [Next]_vars
               PROVE  IInv'
    OBVIOUS
  <2>1. CASE Stop \/ \E t \in Thread : CallFails(t)
    BY <2>1, ExitKeeps DEF Stop, CallFails, Exits
  <2>2. CASE UNCHANGED vars
    BY <2>2 DEF IInv, TypeOK, MainInv, ThreadInv, LetterInv, Overlapping, vars, events
  <2> QED
    BY <2>1, <2>2, MainKeeps, WriterKeeps, ReaderKeeps DEF Next, Terminated
<1> QED
  BY <1>1, InitEstablishesIInv, PTL DEF Spec
-----------------------------------------------------------------------------
(* writer_reader.c *)

\* What a writer and a reader do, in the words of the skeleton.
WRStopWrite(t) ==
  \/ EventStep(t, "stop", "choose") /\ can_write' = FALSE /\ UNCHANGED can_read
  \/ EventStep(t, "choose", "set_write") /\ UNCHANGED events
  \/ EventStep(t, "choose", "set_read") /\ UNCHANGED events
  \/ EventStep(t, "set_write", "while") /\ can_write' = TRUE /\ UNCHANGED can_read
  \/ SetCanRead(t, "set_read", "while")

WRTryRead(t) ==
  \/ EventStep(t, "try_read", "uncount_load") /\ can_read' = FALSE /\ UNCHANGED can_write
  \/ EventStep(t, "try_read", "wait_write") /\ ~can_read /\ can_read' = FALSE
       /\ UNCHANGED can_write

WRWriter(t) ==
  \/ While(t, "count_load")
  \/ LoadCount(t, "count_load", "count_store") \/ StoreCount(t, 1, "count_store", "try_read")
  \/ WRTryRead(t) \/ WaitCanWrite(t)
  \/ LoadCount(t, "uncount_load", "uncount_store")
  \/ StoreCount(t, -1, "uncount_store", "test")
  \/ Letter(t) \/ WRStopWrite(t)
  \/ EventStep(t, "check", "done") /\ UNCHANGED events

WRReader(t) ==
  \/ While(t, "test_count")
  \/ EventStep(t, "test_count", "wait_read") /\ UNCHANGED events
  \/ EventStep(t, "test_count", "try_write") /\ UNCHANGED events
  \/ EventStep(t, "try_write", "signal") /\ UNCHANGED events
  \/ EventStep(t, "try_write", "wait_read") /\ ~can_write /\ UNCHANGED events
  \/ WaitCanRead(t, "wait_read", "signal")
  \/ SetCanRead(t, "signal", "lock")
  \/ LockMutex(t, "lock", "unlock") \/ ReleaseMutex(t, "unlock", "end_read")
  \/ EventStep(t, "end_read", "while") /\ can_write' = TRUE /\ UNCHANGED can_read

\* The two programs share the skeleton.
LEMMA SameSkeleton ==
  /\ WR!Init <=> Init
  /\ WR!Main <=> Main
  /\ WR!UserCtrl <=> UserCtrl
  /\ WR!Terminated => UNCHANGED vars
  /\ WR!vars = vars /\ WR!Writers = Writers /\ WR!Readers = Readers
BY DEF WR!Init, Init, WR!vars, vars, WR!events, events, WR!shared, shared,
       WR!Running, Running, WR!Exits, Exits, WR!Ended, Ended,
       WR!Thread, Thread, WR!Writers, Writers, WR!Readers, Readers, WR!Nobody, Nobody,
       WR!UserCtrl, UserCtrl, WR!Main, Main, WR!CreateObjects, CreateObjects,
       WR!CreateThread, CreateThread, WR!CreateThreadFails, CreateThreadFails,
       WR!AllFinished, AllFinished, WR!Timeout, Timeout, WR!WaitFails, WaitFails,
       WR!Terminate, Terminate, WR!Terminated

LEMMA SameStatements ==
  ASSUME NEW t, NEW from, NEW to
  PROVE  /\ WR!Step(t, from, to) <=> Step(t, from, to)
         /\ WR!EventStep(t, from, to) <=> EventStep(t, from, to)
         /\ WR!While(t, to) <=> While(t, to)
         /\ WR!LoadCount(t, from, to) <=> LoadCount(t, from, to)
         /\ WR!StoreCount(t, 1, from, to) <=> StoreCount(t, 1, from, to)
         /\ WR!StoreCount(t, -1, from, to) <=> StoreCount(t, -1, from, to)
         /\ WR!LockMutex(t, from, to) <=> LockMutex(t, from, to)
         /\ WR!ReleaseMutex(t, from, to) <=> ReleaseMutex(t, from, to)
         /\ WR!SetCanRead(t, from, to) <=> SetCanRead(t, from, to)
         /\ WR!WaitCanRead(t, from, to) <=> WaitCanRead(t, from, to)
         /\ WR!Letter(t) <=> Letter(t)
BY DEF WR!events, events, WR!shared, shared, WR!Running, Running, WR!Exits, Exits,
       WR!Thread, Thread, WR!Writers, Writers, WR!Nobody, Nobody,
       WR!SectionPcs, SectionPcs, WR!Overlapping, Overlapping, WR!Step, Step,
       WR!EventStep, EventStep, WR!While, While, WR!LoadCount, LoadCount,
       WR!StoreCount, StoreCount, WR!Long, Long,
       WR!LockMutex, LockMutex, WR!ReleaseMutex, ReleaseMutex,
       WR!SetCanRead, SetCanRead, WR!WaitCanRead, WaitCanRead,
       WR!Letter, Letter, WR!TestSymbol, TestSymbol, WR!LoadSymbol, LoadSymbol,
       WR!StoreSymbol, StoreSymbol, WR!LoadCnt, LoadCnt, WR!StoreCnt, StoreCnt,
       WR!ResetSymbol, ResetSymbol, WR!GoOn, GoOn, WR!Break, Break

LEMMA WRWriterSteps ==
  ASSUME NEW t, can_read \in BOOLEAN, WR!Writer(t) \/ WR!BreakUnheard(t)
  PROVE  WRWriter(t)
<1>1. CASE WR!While(t, "count_load")
  <2>1. While(t, "count_load")
    BY <1>1, SameStatements
  <2> QED
    BY <2>1 DEF WRWriter
<1>2. CASE \/ WR!LoadCount(t, "count_load", "count_store")
           \/ WR!LoadCount(t, "uncount_load", "uncount_store")
  <2>1. \/ LoadCount(t, "count_load", "count_store")
        \/ LoadCount(t, "uncount_load", "uncount_store")
    BY <1>2, SameStatements
  <2> QED
    BY <2>1 DEF WRWriter
<1>3. CASE \/ WR!StoreCount(t, 1, "count_store", "try_read")
           \/ WR!StoreCount(t, -1, "uncount_store", "test")
  <2>1. \/ StoreCount(t, 1, "count_store", "try_read")
        \/ StoreCount(t, -1, "uncount_store", "test")
    BY <1>3, SameStatements
  <2> QED
    BY <2>1 DEF WRWriter
<1>4. CASE WR!TryRead(t)
  <2>1. CASE can_read
    <3>1. EventStep(t, "try_read", "uncount_load") /\ can_read' = FALSE /\ UNCHANGED can_write
      BY <1>4, <2>1, SameStatements DEF WR!TryRead
    <3> QED
      BY <3>1 DEF WRTryRead, WRWriter
  <2>2. CASE ~can_read
    <3>1. EventStep(t, "try_read", "wait_write") /\ can_read' = FALSE /\ UNCHANGED can_write
      BY <1>4, <2>2, SameStatements DEF WR!TryRead
    <3> QED
      BY <2>2, <3>1 DEF WRTryRead, WRWriter
  <2> QED
    BY <2>1, <2>2
<1>5. CASE WR!WaitCanWrite(t)
  <2>1. EventStep(t, "wait_write", "uncount_load") /\ can_write /\ UNCHANGED events
    BY <1>5, SameStatements DEF WR!WaitCanWrite, WR!events, events
  <2> QED
    BY <2>1 DEF WaitCanWrite, WRWriter
<1>6. CASE WR!StopWrite(t)
  <2>1. CASE WR!ResetCanWrite(t)
    <3>1. EventStep(t, "stop", "choose") /\ can_write' = FALSE /\ UNCHANGED can_read
      BY <2>1, SameStatements DEF WR!ResetCanWrite
    <3> QED
      BY <3>1 DEF WRStopWrite, WRWriter
  <2>2. CASE WR!Choose(t)
    <3>1. /\ EventStep(t, "choose", IF write_cnt > 0 THEN "set_write" ELSE "set_read")
          /\ UNCHANGED events
      BY <2>2, SameStatements DEF WR!Choose, WR!events, events
    <3>2. \/ EventStep(t, "choose", "set_write") /\ UNCHANGED events
          \/ EventStep(t, "choose", "set_read") /\ UNCHANGED events
      BY <3>1
    <3> QED
      BY <3>2 DEF WRStopWrite, WRWriter
  <2>3. CASE WR!SetCanWrite(t, "set_write")
    <3>1. EventStep(t, "set_write", "while") /\ can_write' = TRUE /\ UNCHANGED can_read
      BY <2>3, SameStatements DEF WR!SetCanWrite
    <3> QED
      BY <3>1 DEF WRStopWrite, WRWriter
  <2>4. CASE WR!SetCanRead(t, "set_read", "while")
    <3>1. SetCanRead(t, "set_read", "while")
      BY <2>4, SameStatements
    <3> QED
      BY <3>1 DEF WRStopWrite, WRWriter
  <2> QED
    BY <1>6, <2>1, <2>2, <2>3, <2>4 DEF WR!StopWrite
<1>7. CASE WR!BreakUnheard(t)
  <2>1. Step(t, "check", "done")
    BY <1>7, SameStatements DEF WR!BreakUnheard
  <2>2. EventStep(t, "check", "done") /\ UNCHANGED events
    BY <1>7, <2>1 DEF WR!BreakUnheard, WR!events, events, EventStep
  <2> QED
    BY <2>2 DEF WRWriter
<1>8. CASE WR!Letter(t)
  <2>1. Letter(t)
    BY <1>8, SameStatements
  <2> QED
    BY <2>1 DEF WRWriter
<1> QED
  BY <1>1, <1>2, <1>3, <1>4, <1>5, <1>6, <1>7, <1>8 DEF WR!Writer, WR!StartWrite

LEMMA WRReaderSteps ==
  ASSUME NEW t, can_write \in BOOLEAN, WR!Reader(t)
  PROVE  WRReader(t)
<1>1. CASE WR!While(t, "test_count")
  <2>1. While(t, "test_count")
    BY <1>1, SameStatements
  <2> QED
    BY <2>1 DEF WRReader
<1>2. CASE WR!TestCount(t)
  <2>1. /\ EventStep(t, "test_count", IF write_cnt # 0 THEN "wait_read" ELSE "try_write")
        /\ UNCHANGED events
    BY <1>2, SameStatements DEF WR!TestCount, WR!events, events
  <2>2. \/ EventStep(t, "test_count", "wait_read") /\ UNCHANGED events
        \/ EventStep(t, "test_count", "try_write") /\ UNCHANGED events
    BY <2>1
  <2> QED
    BY <2>2 DEF WRReader
<1>3. CASE WR!TryWrite(t)
  <2>1. /\ EventStep(t, "try_write", IF can_write THEN "signal" ELSE "wait_read")
        /\ UNCHANGED events
    BY <1>3, SameStatements DEF WR!TryWrite, WR!events, events
  <2>2. \/ EventStep(t, "try_write", "signal") /\ UNCHANGED events
        \/ EventStep(t, "try_write", "wait_read") /\ ~can_write /\ UNCHANGED events
    BY <2>1
  <2> QED
    BY <2>2 DEF WRReader
<1>4. CASE WR!WaitCanRead(t, "wait_read", "signal") \/ WR!SetCanRead(t, "signal", "lock")
  <2>1. WaitCanRead(t, "wait_read", "signal") \/ SetCanRead(t, "signal", "lock")
    BY <1>4, SameStatements
  <2> QED
    BY <2>1 DEF WRReader
<1>5. CASE WR!LockMutex(t, "lock", "unlock") \/ WR!ReleaseMutex(t, "unlock", "end_read")
  <2>1. LockMutex(t, "lock", "unlock") \/ ReleaseMutex(t, "unlock", "end_read")
    BY <1>5, SameStatements
  <2> QED
    BY <2>1 DEF WRReader
<1>6. CASE WR!StopRead(t)
  <2>1. EventStep(t, "end_read", "while") /\ can_write' = TRUE /\ UNCHANGED can_read
    BY <1>6, SameStatements DEF WR!StopRead, WR!SetCanWrite
  <2> QED
    BY <2>1 DEF WRReader
<1> QED
  BY <1>1, <1>2, <1>3, <1>4, <1>5, <1>6 DEF WR!Reader, WR!StartRead

LEMMA WRWriterKeeps ==
  ASSUME IInv, NEW t \in Writers, WRWriter(t)
  PROVE  IInv'
<1>1. t \in Thread /\ t \notin Readers /\ can_read \in BOOLEAN /\ can_write \in BOOLEAN
  BY DEF IInv, TypeOK, Writers, Readers
<1>2. /\ {"wait_write", "uncount_load", "uncount_store", "count_store", "try_read",
          "test", "choose", "set_write", "set_read", "while", "done"} \subseteq Plain
      /\ "count_load" \in Plain \ SectionPcs
  BY DEF Plain, ThreadPcs, SectionPcs
<1>3. CASE While(t, "count_load")
  BY <1>1, <1>2, <1>3, WhileKeeps
<1>4. CASE \/ LoadCount(t, "count_load", "count_store")
           \/ StoreCount(t, 1, "count_store", "try_read")
           \/ LoadCount(t, "uncount_load", "uncount_store")
           \/ StoreCount(t, -1, "uncount_store", "test")
  BY <1>1, <1>2, <1>4, CountKeeps
<1>5. CASE WRTryRead(t)
  BY <1>1, <1>2, <1>5, EventKeeps DEF WRTryRead
<1>6. CASE WaitCanWrite(t) \/ (EventStep(t, "check", "done") /\ UNCHANGED events)
  BY <1>1, <1>2, <1>6, EventKeeps DEF WaitCanWrite, events
<1>7. CASE WRStopWrite(t)
  BY <1>1, <1>2, <1>7, EventKeeps DEF WRStopWrite, SetCanRead, events
<1> QED
  BY <1>3, <1>4, <1>5, <1>6, <1>7, LetterKeeps DEF WRWriter

LEMMA WRReaderKeeps ==
  ASSUME IInv, NEW t \in Readers, WRReader(t)
  PROVE  IInv'
<1>1. t \in Thread /\ can_read \in BOOLEAN /\ can_write \in BOOLEAN
  BY DEF IInv, TypeOK, Readers
<1>2. {"wait_read", "try_write", "signal", "lock", "unlock", "end_read", "while",
       "test_count"} \subseteq Plain \ SectionPcs
  BY DEF Plain, ThreadPcs, SectionPcs
<1>3. CASE While(t, "test_count")
  BY <1>1, <1>2, <1>3, WhileKeeps
<1>4. CASE \/ EventStep(t, "test_count", "wait_read") /\ UNCHANGED events
           \/ EventStep(t, "test_count", "try_write") /\ UNCHANGED events
           \/ EventStep(t, "try_write", "signal") /\ UNCHANGED events
           \/ EventStep(t, "try_write", "wait_read") /\ ~can_write /\ UNCHANGED events
  BY <1>1, <1>2, <1>4, EventKeeps DEF events
<1>5. CASE \/ WaitCanRead(t, "wait_read", "signal") \/ SetCanRead(t, "signal", "lock")
           \/ EventStep(t, "end_read", "while") /\ can_write' = TRUE /\ UNCHANGED can_read
  BY <1>1, <1>2, <1>5, EventKeeps DEF WaitCanRead, SetCanRead
<1>6. CASE LockMutex(t, "lock", "unlock") \/ ReleaseMutex(t, "unlock", "end_read")
  BY <1>1, <1>2, <1>6, CountKeeps
<1> QED
  BY <1>3, <1>4, <1>5, <1>6 DEF WRReader

\* A step of writer_reader.c.
WRNext ==
  \/ Main \/ UserCtrl
  \/ WR!Handler
  \/ \E t \in Writers : WRWriter(t)
  \/ \E t \in Readers : WRReader(t)
  \/ UNCHANGED vars

LEMMA WRNextSteps ==
  ASSUME IInv, [WR!Next]_(WR!vars)
  PROVE  WRNext
<1>1. can_read \in BOOLEAN /\ can_write \in BOOLEAN
  BY DEF IInv, TypeOK
<1>2. CASE UNCHANGED WR!vars
  BY <1>2 DEF WR!vars, WR!events, vars, events, WRNext
<1>3. CASE \E t \in Writers : WR!Writer(t) \/ WR!BreakUnheard(t)
  BY <1>1, <1>3, WRWriterSteps DEF WRNext
<1>4. CASE \E t \in Readers : WR!Reader(t)
  BY <1>1, <1>4, WRReaderSteps DEF WRNext
<1> QED
  BY <1>2, <1>3, <1>4, SameSkeleton DEF WR!Next, WRNext

\* The inductive invariant holds in writer_reader.c too.
LEMMA WRNextKeeps ==
  ASSUME IInv, WRNext
  PROVE  IInv'
<1>1. CASE WR!Handler
  BY <1>1 DEF WR!Handler, IInv, TypeOK, MainInv, ThreadInv, LetterInv, Overlapping,
              WR!events
<1>2. CASE UNCHANGED vars
  BY <1>2 DEF IInv, TypeOK, MainInv, ThreadInv, LetterInv, Overlapping, vars, events
<1> QED
  BY <1>1, <1>2, MainKeeps, WRWriterKeeps, WRReaderKeeps DEF WRNext

THEOREM WRInvariance == WR!Spec => []IInv
<1>1. WR!Init => IInv
  BY InitEstablishesIInv, SameSkeleton
<1>2. IInv /\ [WR!Next]_(WR!vars) => IInv'
  BY WRNextSteps, WRNextKeeps
<1> QED
  BY <1>1, <1>2, PTL DEF WR!Spec

-----------------------------------------------------------------------------
(* writer_reader.c: who will signal an event. *)

\* What a thread's step does to the events: it is on its way after it, or has
\* ended; or it has just signalled one; or it leaves the events as they are,
\* and a writer goes to sleep only if it has found can_read not signalled.
HandStep(t) ==
  /\ ~Ended(t) /\ \A u \in Thread : u # t => pc'[u] = pc[u]
  /\ \/ OnItsWay(t)' \/ Ended(t)'
     \/ (can_read' \/ can_write') /\ pc'[t] = "while"
     \/ ~OnItsWay(t) /\ UNCHANGED events /\ (pc'[t] = "wait_write" => ~can_read)

LEMMA HandsKept ==
  ASSUME EventsInHand, OwnEvents', NEW t \in Thread, HandStep(t)
  PROVE  EventsInHand'
<1> SUFFICES ASSUME \A u \in Thread : ~Ended(u)'
             PROVE  /\ can_read' \/ can_write' \/ \E u \in Thread : OnItsWay(u)'
                    /\ \E u \in Thread : ~Asleep(u)'
  BY DEF EventsInHand
<1>1. ~Ended(t) /\ \A u \in Thread : u # t => pc'[u] = pc[u]
  BY DEF HandStep
<1>2. \A u \in Thread : ~Ended(u)
  BY <1>1 DEF Ended
<1>3. can_read \/ can_write \/ \E u \in Thread : OnItsWay(u)
  BY <1>2 DEF EventsInHand
<1>4. 0 \in Writers /\ 0 \in Thread
  BY EventThreadsAssumption DEF Writers, Thread
<1>5. \A u \in Thread : OnItsWay(u)' => ~Asleep(u)'
  BY DEF OnItsWay, WayPcs, SectionPcs, Asleep
<1>6. CASE OnItsWay(t)'
  BY <1>5, <1>6
<1>7. CASE (can_read' \/ can_write') /\ pc'[t] = "while"
  BY <1>7 DEF Asleep
<1>8. CASE ~OnItsWay(t) /\ UNCHANGED events /\ (pc'[t] = "wait_write" => ~can_read)
  <2>1. can_read' = can_read /\ can_write' = can_write
    BY <1>8 DEF events
  <2>2. \A u \in Thread : OnItsWay(u) => OnItsWay(u)'
    BY <1>1, <1>8 DEF OnItsWay
  <2>3. can_read' \/ can_write' \/ \E u \in Thread : OnItsWay(u)'
    BY <1>3, <2>1, <2>2
  <2>4. ASSUME can_write'
        PROVE  ~Asleep(0)'
    BY <1>4, <2>4 DEF Asleep, OwnEvents
  <2>5. ASSUME can_read', ~can_write'
        PROVE  ~Asleep(t)'
    BY <1>8, <2>1, <2>5 DEF Asleep
  <2> QED
    BY <1>4, <1>5, <2>3, <2>4, <2>5
<1> QED
  BY <1>6, <1>7, <1>8 DEF HandStep

\* A statement of a writer between start_write() and stop_write().
LEMMA LetterHands ==
  ASSUME IInv, NEW t \in Writers, Letter(t)
  PROVE  /\ pc[t] \in SectionPcs /\ \A u \in Thread : u # t => pc'[u] = pc[u]
         /\ pc'[t] \in SectionPcs \cup {"stop", "done"}
         /\ UNCHANGED events
<1>1. t \in Thread /\ pc \in [Thread -> ThreadPcs]
  BY DEF IInv, TypeOK, Writers
<1>2. SectionPcs = {"test", "cnt_load", "cnt_store", "reset", "check", "inc", "put"}
  BY DEF SectionPcs
<1>3. UNCHANGED events
  BY DEF Letter, TestSymbol, LoadSymbol, StoreSymbol, LoadCnt, StoreCnt, ResetSymbol, GoOn,
         Break, shared, events
<1>4. PICK to \in SectionPcs \cup {"stop", "done"} :
        pc[t] \in SectionPcs /\ pc' = [pc EXCEPT ![t] = to]
  BY <1>2 DEF Letter, TestSymbol, LoadSymbol, StoreSymbol, LoadCnt, StoreCnt, ResetSymbol,
              GoOn, Break, Step
<1> QED
  BY <1>1, <1>3, <1>4

LEMMA WRWriterHands ==
  ASSUME IInv, NEW t \in Writers, WRWriter(t)
  PROVE  HandStep(t) /\ pc'[t] # "wait_read"
<1>1. /\ t \in Thread /\ pc \in [Thread -> ThreadPcs]
      /\ can_read \in BOOLEAN /\ can_write \in BOOLEAN
  BY DEF IInv, TypeOK, Writers
<1>2. ASSUME NEW from, NEW to, Step(t, from, to)
      PROVE  pc[t] = from /\ pc'[t] = to /\ \A u \in Thread : u # t => pc'[u] = pc[u]
  BY <1>1, <1>2 DEF Step
<1>3. CASE \/ While(t, "count_load") \/ LoadCount(t, "count_load", "count_store")
           \/ StoreCount(t, 1, "count_store", "try_read")
  <2>1. PICK from \in {"while", "count_load", "count_store"},
             to \in {"count_load", "done", "count_store", "try_read"} :
          Step(t, from, to) /\ UNCHANGED events
    BY <1>3 DEF While, LoadCount, StoreCount, events
  <2> QED
    BY <1>2, <2>1 DEF HandStep, OnItsWay, WayPcs, SectionPcs, Ended
<1>4. CASE \/ LoadCount(t, "uncount_load", "uncount_store")
           \/ StoreCount(t, -1, "uncount_store", "test")
  BY <1>2, <1>4 DEF LoadCount, StoreCount, HandStep, OnItsWay, WayPcs, SectionPcs, Ended
<1>5. CASE WRTryRead(t)
  <2>1. CASE Step(t, "try_read", "uncount_load")
    BY <1>2, <2>1 DEF HandStep, OnItsWay, WayPcs, Ended
  <2>2. CASE Step(t, "try_read", "wait_write") /\ ~can_read /\ can_read' = FALSE
               /\ UNCHANGED can_write
    <3>1. can_read = FALSE
      BY <1>1, <2>2
    <3>2. UNCHANGED events
      BY <2>2, <3>1 DEF events
    <3> QED
      BY <1>2, <2>2, <3>2 DEF HandStep, OnItsWay, WayPcs, SectionPcs, Ended
  <2> QED
    BY <1>5, <2>1, <2>2 DEF WRTryRead, EventStep
<1>6. CASE WaitCanWrite(t) \/ (EventStep(t, "check", "done") /\ UNCHANGED events)
  BY <1>2, <1>6
     DEF WaitCanWrite, EventStep, HandStep, OnItsWay, WayPcs, SectionPcs, Ended
<1>7. CASE WRStopWrite(t)
  BY <1>2, <1>7
     DEF WRStopWrite, SetCanRead, EventStep, HandStep, OnItsWay, WayPcs, SectionPcs, Ended
<1>8. CASE Letter(t)
  BY <1>8, LetterHands DEF HandStep, OnItsWay, WayPcs, SectionPcs, Ended
<1> QED
  BY <1>3, <1>4, <1>5, <1>6, <1>7, <1>8 DEF WRWriter

LEMMA WRReaderHands ==
  ASSUME IInv, NEW t \in Readers, WRReader(t)
  PROVE  HandStep(t) /\ pc'[t] # "wait_write"
<1>1. /\ t \in Thread /\ pc \in [Thread -> ThreadPcs]
      /\ can_read \in BOOLEAN /\ can_write \in BOOLEAN
  BY DEF IInv, TypeOK, Readers
<1>2. ASSUME NEW from, NEW to, Step(t, from, to)
      PROVE  pc[t] = from /\ pc'[t] = to /\ \A u \in Thread : u # t => pc'[u] = pc[u]
  BY <1>1, <1>2 DEF Step
<1>3. CASE \/ While(t, "test_count")
           \/ EventStep(t, "test_count", "wait_read") /\ UNCHANGED events
           \/ EventStep(t, "test_count", "try_write") /\ UNCHANGED events
           \/ EventStep(t, "try_write", "wait_read") /\ ~can_write /\ UNCHANGED events
  <2>1. PICK from \in {"while", "test_count", "try_write"},
             to \in {"test_count", "done", "wait_read", "try_write"} :
          Step(t, from, to) /\ UNCHANGED events
    BY <1>3 DEF While, EventStep, events
  <2> QED
    BY <1>2, <2>1 DEF HandStep, OnItsWay, WayPcs, SectionPcs, Ended
<1>4. CASE \/ EventStep(t, "try_write", "signal") /\ UNCHANGED events
           \/ WaitCanRead(t, "wait_read", "signal")
           \/ SetCanRead(t, "signal", "lock")
           \/ LockMutex(t, "lock", "unlock") \/ ReleaseMutex(t, "unlock", "end_read")
  BY <1>2, <1>4
     DEF WaitCanRead, SetCanRead, LockMutex, ReleaseMutex, EventStep, HandStep, OnItsWay,
         WayPcs, SectionPcs, Ended
<1>5. CASE EventStep(t, "end_read", "while") /\ can_write' = TRUE /\ UNCHANGED can_read
  BY <1>2, <1>5 DEF EventStep, HandStep, Ended
<1> QED
  BY <1>3, <1>4, <1>5 DEF WRReader

LEMMA MainHands ==
  ASSUME IInv, EventsInHand, OwnEvents, Main \/ UserCtrl
  PROVE  EventsInHand' /\ OwnEvents'
<1>1. ThreadCount \in Nat \ {0} /\ Thread = 0 .. ThreadCount - 1
  BY EventThreadsAssumption DEF Thread
<1>2. next \in 0 .. ThreadCount /\ pc \in [Thread -> ThreadPcs]
  BY DEF IInv, TypeOK
<1>3. ASSUME pc' = pc, UNCHANGED shared
      PROVE  EventsInHand' /\ OwnEvents'
  BY <1>3 DEF EventsInHand, OwnEvents, OnItsWay, Asleep, Ended, shared, events
<1>4. ASSUME NEW k \in Thread, NEW l \in {"while", "done", "killed"},
             pc' = [pc EXCEPT ![k] = l], UNCHANGED events,
             l = "while" => pc[k] = "unborn"
      PROVE  EventsInHand' /\ OwnEvents'
  <2>1. pc'[k] = l /\ \A u \in Thread : u # k => pc'[u] = pc[u]
    BY <1>2, <1>4
  <2>2. OwnEvents'
    BY <2>1 DEF OwnEvents, Writers, Readers
  <2>3. CASE l = "while"
    <3>1. HandStep(k)
      BY <1>4, <2>1, <2>3 DEF HandStep, OnItsWay, WayPcs, SectionPcs, Ended
    <3> QED
      BY <1>4, <2>2, <3>1, HandsKept
  <2>4. CASE l # "while"
    BY <1>4, <2>1, <2>2, <2>4 DEF EventsInHand, Ended
  <2> QED
    BY <2>3, <2>4
<1>5. CASE CreateThread
  <2>1. PICK k \in Thread : k = next /\ pc[k] = "unborn"
    BY <1>1, <1>2, <1>5 DEF CreateThread, IInv, MainInv
  <2>2. pc' = [pc EXCEPT ![k] = "while"] /\ UNCHANGED events
    BY <1>5, <2>1 DEF CreateThread, shared, events
  <2> QED
    BY <1>4, <2>1, <2>2
<1>6. CASE Terminate
  <2>1. PICK k \in Thread : k = next
    BY <1>1, <1>2, <1>6 DEF Terminate, IInv, MainInv
  <2>2. PICK l \in {"done", "killed"} : pc' = [pc EXCEPT ![k] = l]
    BY <1>2, <1>6, <2>1 DEF Terminate
  <2>3. UNCHANGED events
    BY <1>6 DEF Terminate, events
  <2> QED
    BY <1>4, <2>1, <2>2, <2>3
<1> QED
  BY <1>3, <1>5, <1>6
     DEF Main, UserCtrl, CreateObjects, CreateThreadFails, AllFinished, Timeout, WaitFails

\* writer_reader.c 27-57: whoever resets an event is on its way to signal one,
\* and a writer tests can_read before it sleeps.
LEMMA WRHandsInvariance == WR!Spec => [](EventsInHand /\ OwnEvents)
<1>1. WR!Init => EventsInHand /\ OwnEvents
  <2> SUFFICES ASSUME Init
               PROVE  EventsInHand /\ OwnEvents
    BY SameSkeleton
  <2>1. 0 \in Thread /\ \A t \in Thread : pc[t] = "unborn"
    BY EventThreadsAssumption DEF Init, Thread
  <2> QED
    BY <2>1 DEF Init, EventsInHand, OwnEvents, Asleep, Writers, Readers
<1>2. IInv /\ EventsInHand /\ OwnEvents /\ [WR!Next]_(WR!vars) => (EventsInHand /\ OwnEvents)'
  <2> SUFFICES ASSUME IInv, EventsInHand, OwnEvents, WRNext
               PROVE  EventsInHand' /\ OwnEvents'
    BY WRNextSteps
  <2>1. CASE WR!Handler \/ UNCHANGED vars
    BY <2>1 DEF WR!Handler, WR!events, vars, events, EventsInHand, OwnEvents, OnItsWay,
                Asleep, Ended
  <2>2. ASSUME NEW t \in Writers, WRWriter(t)
        PROVE  EventsInHand' /\ OwnEvents'
    <3>1. HandStep(t) /\ pc'[t] # "wait_read" /\ t \in Thread /\ t \notin Readers
      BY <2>2, WRWriterHands DEF Writers, Readers
    <3>2. OwnEvents'
      BY <3>1 DEF OwnEvents, HandStep, Writers, Readers
    <3> QED
      BY <3>1, <3>2, HandsKept
  <2>3. ASSUME NEW t \in Readers, WRReader(t)
        PROVE  EventsInHand' /\ OwnEvents'
    <3>1. HandStep(t) /\ pc'[t] # "wait_write" /\ t \in Thread /\ t \notin Writers
      BY <2>3, WRReaderHands DEF Readers
    <3>2. OwnEvents'
      BY <3>1 DEF OwnEvents, HandStep, Writers, Readers
    <3> QED
      BY <3>1, <3>2, HandsKept
  <2> QED
    BY <2>1, <2>2, <2>3, MainHands DEF WRNext
<1> QED
  BY <1>1, <1>2, WRInvariance, PTL DEF WR!Spec

\* writer_reader.c 27-57: the events never leave all the threads waiting.
THEOREM SomebodyCanGoOn == WR!Spec => []NobodyStalls
<1>1. EventsInHand => NobodyStalls
  BY DEF EventsInHand, NobodyStalls
<1> QED
  BY <1>1, WRHandsInvariance, PTL

\* The letter is beyond the alphabet only after two writers have met.
LEMMA LettersLeave ==
  ASSUME IInv, Watch
  PROVE  AlphabetLeftByOverlap
<1> SUFFICES ASSUME symbol >= LETTERS
             PROVE  overlap
  BY DEF AlphabetLeftByOverlap
<1>1. symbol \in Int /\ LETTERS \in Int /\ overlap \in BOOLEAN
  BY EventThreadsAssumption DEF IInv, TypeOK
<1>2. ~(symbol < LETTERS)
  BY <1>1
<1> QED
  BY <1>2 DEF IInv, LetterInv

\* writer_reader.c 63-72: symbol runs past 'z' only after two writers have met.
THEOREM WROnlyOverlapLeavesAlphabet ==
  ASSUME Watch
  PROVE  WR!Spec => []AlphabetLeftByOverlap
<1>1. IInv => AlphabetLeftByOverlap
  BY LettersLeave
<1> QED
  BY <1>1, WRInvariance, PTL
-----------------------------------------------------------------------------
(* writer_reader_active.c: who will signal can_read. *)

\* What a thread's step does to can_read: the thread will signal it after the
\* step, or has ended; or it has just signalled it; or it was not to signal
\* it, and leaves it as it is.  It never touches can_write.
SignalStep(t) ==
  /\ can_write' = can_write
  /\ \A u \in Thread : u # t => pc'[u] = pc[u]
  /\ \/ WillSignal(t)' \/ Ended(t)' \/ can_read'
     \/ ~WillSignal(t) /\ ~Ended(t) /\ can_read' = can_read

LEMMA SignalKept ==
  ASSUME SignalInHand, NEW t \in Thread, SignalStep(t)
  PROVE  SignalInHand'
<1> SUFFICES ASSUME ~can_read'
             PROVE  \E u \in Thread : (WillSignal(u) \/ Ended(u))'
  BY DEF SignalInHand
<1>1. CASE WillSignal(t)' \/ Ended(t)'
  BY <1>1
<1>2. CASE ~WillSignal(t) /\ ~Ended(t) /\ can_read' = can_read
  <2>1. PICK u \in Thread : WillSignal(u) \/ Ended(u)
    BY <1>2 DEF SignalInHand
  <2>2. pc'[u] = pc[u]
    BY <1>2, <2>1 DEF SignalStep
  <2> QED
    BY <2>1, <2>2 DEF WillSignal, Ended
<1> QED
  BY <1>1, <1>2 DEF SignalStep

LEMMA WriterSignals ==
  ASSUME IInv, NEW t \in Writers, Writer(t)
  PROVE  SignalStep(t) /\ pc'[t] # "wait_read"
<1>1. t \in Thread /\ pc \in [Thread -> ThreadPcs]
  BY DEF IInv, TypeOK, Writers
<1>2. ASSUME NEW from, NEW to, Step(t, from, to)
      PROVE  pc[t] = from /\ pc'[t] = to /\ \A u \in Thread : u # t => pc'[u] = pc[u]
  BY <1>1, <1>2 DEF Step
<1>3. CASE \/ While(t, "count_load") \/ LoadCount(t, "count_load", "count_store")
           \/ StoreCount(t, 1, "count_store", "try_read")
  <2>1. PICK from \in {"while", "count_load", "count_store"},
             to \in {"count_load", "done", "count_store", "try_read"} :
          Step(t, from, to) /\ UNCHANGED events
    BY <1>3 DEF While, LoadCount, StoreCount, events
  <2> QED
    BY <1>2, <2>1 DEF SignalStep, WillSignal, SectionPcs, Ended, events
<1>4. CASE \/ LoadCount(t, "uncount_load", "uncount_store")
           \/ StoreCount(t, -1, "uncount_store", "test")
           \/ WaitCanWrite(t)
  BY <1>2, <1>4
     DEF LoadCount, StoreCount, WaitCanWrite, EventStep, SignalStep, WillSignal, SectionPcs,
         events
<1>5. CASE TryRead(t)
  <2>1. PICK to \in {"wait_write", "uncount_load"} :
          Step(t, "try_read", to) /\ UNCHANGED can_write
    BY <1>5 DEF TryRead, EventStep
  <2> QED
    BY <1>2, <2>1 DEF SignalStep, WillSignal
<1>6. CASE StopWrite(t)
  BY <1>2, <1>6
     DEF StopWrite, ResetCanRead, SetCanRead, EventStep, SignalStep, WillSignal
<1>7. CASE Letter(t)
  BY <1>7, LetterHands DEF SignalStep, WillSignal, SectionPcs, Ended, events
<1> QED
  BY <1>3, <1>4, <1>5, <1>6, <1>7 DEF Writer, StartWrite

LEMMA ReaderSignals ==
  ASSUME IInv, NEW t \in Readers, Reader(t)
  PROVE  SignalStep(t) /\ pc'[t] # "wait_write"
<1>1. t \in Thread /\ pc \in [Thread -> ThreadPcs]
  BY DEF IInv, TypeOK, Readers
<1>2. ASSUME NEW from, NEW to, Step(t, from, to)
      PROVE  pc[t] = from /\ pc'[t] = to /\ \A u \in Thread : u # t => pc'[u] = pc[u]
  BY <1>1, <1>2 DEF Step
<1>3. CASE While(t, "test_count") \/ TestCount(t) \/ TryWrite(t)
  <2>1. PICK from \in {"while", "test_count", "try_write"},
             to \in {"test_count", "done", "wait_read", "try_write", "signal"} :
          Step(t, from, to) /\ UNCHANGED events
    BY <1>3 DEF While, TestCount, TryWrite, EventStep, events
  <2> QED
    BY <1>2, <2>1 DEF SignalStep, WillSignal, SectionPcs, Ended, events
<1>4. CASE \/ WaitCanRead(t, "wait_read", "signal")
           \/ SetCanRead(t, "signal", "lock")
           \/ LockMutex(t, "lock", "unlock") \/ ReleaseMutex(t, "unlock", "end_read")
           \/ StopRead(t)
  BY <1>2, <1>4
     DEF WaitCanRead, SetCanRead, LockMutex, ReleaseMutex, StopRead, EventStep, SignalStep,
         WillSignal, events
<1> QED
  BY <1>3, <1>4 DEF Reader, StartRead

\* Nobody touches can_write, so a writer never sleeps.
ActiveInv == SignalInHand /\ can_write /\ OwnEvents

LEMMA MainSignals ==
  ASSUME IInv, ActiveInv, Main \/ UserCtrl
  PROVE  ActiveInv'
<1>1. ThreadCount \in Nat \ {0} /\ Thread = 0 .. ThreadCount - 1
  BY EventThreadsAssumption DEF Thread
<1>2. next \in 0 .. ThreadCount /\ pc \in [Thread -> ThreadPcs]
  BY DEF IInv, TypeOK
<1>3. ASSUME pc' = pc, UNCHANGED shared
      PROVE  ActiveInv'
  BY <1>3 DEF ActiveInv, SignalInHand, OwnEvents, WillSignal, Ended, shared, events
<1>4. ASSUME NEW k \in Thread, NEW l \in {"while", "done", "killed"},
             pc' = [pc EXCEPT ![k] = l], UNCHANGED events,
             l = "while" => pc[k] = "unborn"
      PROVE  ActiveInv'
  <2>1. pc'[k] = l /\ \A u \in Thread : u # k => pc'[u] = pc[u]
    BY <1>2, <1>4
  <2>2. OwnEvents' /\ can_write'
    BY <1>4, <2>1 DEF ActiveInv, OwnEvents, Writers, Readers, events
  <2>3. SignalStep(k)
    <3>1. can_read' = can_read /\ can_write' = can_write
      BY <1>4 DEF events
    <3>2. CASE l = "while"
      <4>1. ~WillSignal(k) /\ ~Ended(k)
        BY <1>4, <3>2 DEF WillSignal, SectionPcs, Ended
      <4> QED
        BY <2>1, <3>1, <4>1 DEF SignalStep
    <3>3. CASE l # "while"
      <4>1. Ended(k)'
        BY <1>4, <2>1, <3>3 DEF Ended
      <4> QED
        BY <2>1, <3>1, <4>1 DEF SignalStep
    <3> QED
      BY <3>2, <3>3
  <2> QED
    BY <1>4, <2>2, <2>3, SignalKept DEF ActiveInv
<1>5. CASE CreateThread
  <2>1. PICK k \in Thread : k = next /\ pc[k] = "unborn"
    BY <1>1, <1>2, <1>5 DEF CreateThread, IInv, MainInv
  <2>2. pc' = [pc EXCEPT ![k] = "while"] /\ UNCHANGED events
    BY <1>5, <2>1 DEF CreateThread, shared, events
  <2> QED
    BY <1>4, <2>1, <2>2
<1>6. CASE Terminate
  <2>1. PICK k \in Thread : k = next
    BY <1>1, <1>2, <1>6 DEF Terminate, IInv, MainInv
  <2>2. PICK l \in {"done", "killed"} : pc' = [pc EXCEPT ![k] = l]
    BY <1>2, <1>6, <2>1 DEF Terminate
  <2>3. UNCHANGED events
    BY <1>6 DEF Terminate, events
  <2> QED
    BY <1>4, <2>1, <2>2, <2>3
<1> QED
  BY <1>3, <1>5, <1>6
     DEF Main, UserCtrl, CreateObjects, CreateThreadFails, AllFinished, Timeout, WaitFails

LEMMA ActiveInvariance == Spec => []ActiveInv
<1>1. Init => ActiveInv
  BY DEF Init, ActiveInv, SignalInHand, OwnEvents, Writers, Readers
<1>2. IInv /\ ActiveInv /\ [Next]_vars => ActiveInv'
  <2> SUFFICES ASSUME IInv, ActiveInv, [Next]_vars
               PROVE  ActiveInv'
    OBVIOUS
  <2>1. ASSUME pc' = pc, UNCHANGED events
        PROVE  ActiveInv'
    BY <2>1 DEF ActiveInv, SignalInHand, OwnEvents, WillSignal, Ended, events
  <2>2. CASE Stop \/ (\E t \in Thread : CallFails(t)) \/ UNCHANGED vars
    <3>1. pc' = pc /\ UNCHANGED events
      BY <2>2 DEF Stop, CallFails, shared, vars, events
    <3> QED
      BY <2>1, <3>1
  <2>3. ASSUME NEW t \in Thread, SignalStep(t), OwnEvents'
        PROVE  ActiveInv'
    BY <2>3, SignalKept DEF ActiveInv, SignalStep
  <2>4. ASSUME NEW t \in Writers, Writer(t)
        PROVE  ActiveInv'
    <3>1. SignalStep(t) /\ pc'[t] # "wait_read" /\ t \in Thread /\ t \notin Readers
      BY <2>4, WriterSignals DEF Writers, Readers
    <3>2. OwnEvents'
      BY <3>1 DEF ActiveInv, OwnEvents, SignalStep, Writers, Readers
    <3> QED
      BY <2>3, <3>1, <3>2
  <2>5. ASSUME NEW t \in Readers, Reader(t)
        PROVE  ActiveInv'
    <3>1. SignalStep(t) /\ pc'[t] # "wait_write" /\ t \in Thread /\ t \notin Writers
      BY <2>5, ReaderSignals DEF Readers
    <3>2. OwnEvents'
      BY <3>1 DEF ActiveInv, OwnEvents, SignalStep, Writers, Readers
    <3> QED
      BY <2>3, <3>1, <3>2
  <2> QED
    BY <2>2, <2>4, <2>5, MainSignals DEF Next, Terminated
<1> QED
  BY <1>1, <1>2, Invariance, PTL DEF Spec

\* writer_reader_active.c 22-95: whoever resets can_read signals it, before it
\* waits for it again.
THEOREM SomebodySignals == Spec => []SignalInHand
<1>1. ActiveInv => SignalInHand
  BY DEF ActiveInv
<1> QED
  BY <1>1, ActiveInvariance, PTL

\* The same: can_write stays signalled, so the threads never all wait.
THEOREM ActiveNeverStalls == Spec => []NobodyStalls
<1>1. ActiveInv => NobodyStalls
  <2> SUFFICES ASSUME ActiveInv
               PROVE  \E t \in Thread : ~Asleep(t)
    BY DEF NobodyStalls
  <2>1. 0 \in Writers /\ 0 \in Thread
    BY EventThreadsAssumption DEF Writers, Thread
  <2> QED
    BY <2>1 DEF ActiveInv, OwnEvents, Asleep
<1> QED
  BY <1>1, ActiveInvariance, PTL

\* writer_reader_active.c 101-114: symbol runs past 'z' only after two writers
\* have met.
THEOREM OnlyOverlapLeavesAlphabet ==
  ASSUME Watch
  PROVE  Spec => []AlphabetLeftByOverlap
<1>1. IInv => AlphabetLeftByOverlap
  BY LettersLeave
<1> QED
  BY <1>1, Invariance, PTL

\* The types, in both programs.
THEOREM TypeCorrectness == (Spec => []TypeOK) /\ (WR!Spec => []TypeOK)
<1>1. IInv => TypeOK
  BY DEF IInv
<1> QED
  BY <1>1, Invariance, WRInvariance, PTL
=============================================================================
