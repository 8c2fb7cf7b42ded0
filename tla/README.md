# OS_5: models and proofs

This directory models the concurrent programs of the repository in TLA+,
checks them with TLC on small instances and proves the safety properties and the
refinements of all of them with TLAPS for every size.

The repository is a set of laboratory programs of an operating systems course.
They share no code: each is a `main()` of its own. What they have in common is
what makes them hard: processes and threads that meet in shared memory,
semaphores, events or messages, and signals that arrive at any step.

## The parts of the system

| Part | State | Operations | What is hard |
|---|---|---|---|
| `lab_03`: parent and children | the children's lives, `flag` of each process, the IPC objects | fork loop, `wait()` loop, clean-up, SIGINT handler, `alarm(1)` | SIGINT in `wait()`, SIGALRM at any step, failing `fork()` |
| `lab_03/prod_cons.c` | three System V semaphores, the circular buffer, two pointers, the next letter | `producer()`, `consumer()` | a child killed between its two `semop()` calls; four writes to shared memory in a row |
| `lab_03/prod_cons_mac.c` | the same over three named POSIX semaphores | the same | the slot and the buffer are taken in two calls; the names outlive the run |
| `lab_03/writer_reader.c` | four System V semaphores used as counters, one letter | `reader()`, `writer()` | five operations in one call; a letter out of range between two statements |
| `lab_04/writer_reader.c` | two events, a mutex, racy counters, a letter | `start_read()` .. `stop_write()`, console handler, `main()` | lost updates, lost wake-ups, `TerminateThread()` |
| `lab_04/writer_reader_active.c` | the same, no console handler | the same | `can_write` is never reset, a writer excludes nobody |
| `daemon/main.c` | the lock file, the disposition of SIGHUP, the signal mask, the signal thread | `daemonize()`, `already_running()`, `thr_fn()`, `reread()` | several copies at once, a stale lock file, signals between two steps of the start |
| `daemon/daemon.c`, `daemon/lockdaemon.c` | the same functions in files of their own | | |
| `working_rpc_another/calculator` | a server with a static result, a client with five threads and one static reply | `calculator_proc_1` | the threads share the reply; UDP retries |
| `RPC/calc` | the data, mutex and condition a service routine shares with a detached thread | `calculate_1_svc()`, `calculate_thread()`, clients over UDP | the data is freed while its thread still has calls to make on it; spurious and lost wake-ups |
| `working_rpc_another/bakery` | `choosing`, `number` | `get_ticket()`, `wait_for_turn()`, `submit_request_1_svc()` | a busy wait inside a sequential server; a client's 25 s timeout |
| `RPC/pc` | the closedown timer | generated dispatcher, empty service routines | |
| `Lab_01`, `lab_02` | a pipe, a flag in each process | fork, wait, exec, pipe, signal | the order of the messages in the pipe, and who still holds its ends |

The programs run side by side and never call each other. Within a program the
parts interact through shared memory and semaphores (`lab_03`), events and
plain globals (`lab_04`), the lock file and signals (`daemon`), and calls over
a socket (the RPC programs).

What makes each part correct:

* parent and children: no object is removed under a living child; the program
  ends, and ends clean once all children were forked;
* producers and consumers: one child at a time in the buffer, no pointer out of
  it, no letter lost, doubled or out of order, and nobody blocked but by a death;
* readers and writers (`lab_03`): a writer is alone, the letter printed is
  always one of the alphabet and the current one;
* readers and writers (`lab_04`): the threads never all wait, and the process
  ends; mutual exclusion is **not** among its properties, see below;
* daemon: one copy gets past the lock file, ever; the file names no other; signals
  are handled;
* calculator: a thread gets the answer to its own request, whatever is lost, late
  or repeated (it does not quite, see below), and the client ends;
* bakery: the service routine never waits for somebody who cannot be served
  while it waits, and every process gets its own response;
* `RPC/calc`: nobody touches what has been freed, nothing is leaked, no wake-up is
  lost, and a client prints the answer to its own request;
* the pipe programs: every process ends, the two reads take all that was
  written, and it is known when messages come out in pieces.

## Modules

| Module | Models | With |
|---|---|---|
| `SysVSem` | `semop(2)`: an array of operations, applied in order and all or nothing | |
| `ForkWait` | the skeleton of the `lab_03` programs | |
| `LetterBuffer` | the circular buffer and the statements of the critical sections of `producer()` and `consumer()` | extends `ForkWait` |
| `ProdCons` | `lab_03/prod_cons.c` | `LetterBuffer`, `SysVSem`, refines `LetterQueue` |
| `ProdConsMac` | `lab_03/prod_cons_mac.c` | `LetterBuffer`, refines `LetterQueue` |
| `WriterReader` | `lab_03/writer_reader.c` | `ForkWait`, `SysVSem`, refines `LetterRegister` |
| `LetterQueue`, `LetterRegister` | what the programs of `lab_03` promise: a bounded queue of consecutive letters, an atomic register | |
| `EventThreads` | what the two programs of `lab_04` share: `main()`, the racy variables, the writer's statements | |
| `EventWriterReader` | `lab_04/writer_reader.c` | `EventThreads` |
| `EventWriterReaderActive` | `lab_04/writer_reader_active.c` | `EventThreads` |
| `Daemon` | `daemon/main.c` | |
| `SunRpc` | what the RPC programs stand on: calls with an xid, messages on their way, the dispatcher made by rpcgen, which serves one request at a time | |
| `Calculator` | `working_rpc_another/calculator`: client and server | `SunRpc` over UDP |
| `Bakery` | `working_rpc_another/bakery`: client and server | `SunRpc` over TCP |
| `CalcThread` | `RPC/calc`: client and server with its detached thread | `SunRpc` over UDP |
| `PipeMessages` | `Lab_01/fifth.c` and `Lab_01/lab_04.c` | |
| `LetterBuffer_proofs` | lemmas about the skeleton and the buffer, for any semaphore calls, and the proofs about the two producer/consumer programs | extends `ProdCons` and `ProdConsMac` |
| `WriterReader_proofs` | the proofs about `lab_03/writer_reader.c`, with the lemmas on the skeleton it needs | |
| `EventThreads_proofs` | the proofs about both programs of `lab_04` | extends `EventWriterReaderActive`, `EventWriterReader` as an instance |
| `Daemon_proofs`, `Calculator_proofs`, `Bakery_proofs`, `CalcThread_proofs`, `PipeMessages_proofs` | the proofs about the daemon, the calculators, the bakery and the pipe programs | |

`ProdCons` and `ProdConsMac` are proved about in one module, so what both have
under one name is called `Mac...` in the second (`MacSpec`, `MacSlotAccounting`).

Operators named `X_Something` just before a definition `X` are faulty variants
of `X`: each property is known to fail when `X` is replaced by one of them.

### How the models correspond to the code

*Processes and threads.* `pc[c]` is the statement a child or thread is about to
execute. Every statement that reads or writes shared memory, a semaphore, an
event or a flag is a step. `printf` changes nothing and has no step, except
where the letter it prints is what the property is about (`Get` in
`LetterBuffer` and `WriterReader`, `Put` in `WriterReader`).

*Semaphores.* `semop()` has two outcomes: it goes through (`Enter`), at once or
after a sleep, or the child goes to sleep (`Sleep`). A child asleep stays
eligible for `Enter`, which is how a wake-up looks from outside. There is no
order among sleepers. `sem_wait()` in `ProdConsMac` likewise.

*Signals.* SIGINT may reach any process at any step: it clears the copy of
`flag` of that process, and if the process sleeps in a semaphore call the call
fails with `EINTR` and the child exits with 1. SIGALRM, once armed, may end a
child at any step. A child killed in its critical section keeps its `pc`, so
that the state it left behind can be spoken about; `life` says it is dead. The
same child leaves its semaphores as they are, since no operation carries
`SEM_UNDO`.

*The parent.* Every creation call may fail, `fork()` may fail at any child, and
`wait()` may be interrupted. Calls on the program's own valid objects (removing
them, detaching) do not fail in the model.

*Windows.* `can_read` is an auto-reset event (a successful wait resets it),
`can_write` a manual-reset one. An increment of a plain global is a load and a
store. For `symbol++` after the test `symbol == 'z'` the compiler may reuse the
value just tested or load it again: `LoadSymbol` has both outcomes.
`TerminateThread()` may hit any thread anywhere; the mutex of a terminated owner
is abandoned and can be taken. `overlap` in `EventThreads` is a history
variable: it records that two writers have been between `start_write()` and
`stop_write()` together, and no action depends on it. It is kept where `Watch` is
set (`events_active`), and left at `FALSE` in `events`, which does not ask for it.

*The daemon.* `pc[d]` is the main thread of copy `d` and `thr[d]` its signal
thread. Whether SIGHUP is ignored and whether signals are blocked follows from
`pc`. A copy can be killed at every step, the configuration file can appear and
disappear, and nobody but the program touches the lock file. The write of the pid
may fail, which the program does not notice: the file then stays empty.

*The RPC programs.* `clnt_call()` and the network are not code of the repository;
`SunRpc` models them by what the programs rely on. A call is named by its number,
which stands for the xid: a handle accepts only the reply to its current call
and drops others. Over UDP a message on its way may be lost, delivered in any
order and delivered more than once, which is also what a retry amounts to: a
datagram sent once is never taken off `requests` or `replies`. Over TCP it comes once, and `Bakery` takes the messages of one connection in order.
A call may fail at any moment while it waits, as it does after 25 seconds. The
server is one thread: it takes a request, runs the service routine and sends the
static result before it takes the next. It is not killed in the model, and the
connection of a living process does not break.
In `Calculator` the static `clnt_res` is its field `result`, the only one
anybody reads; `memset()` and the decoding of a reply write it in one step each.
The history variable `writer` records who wrote it last; no action depends on it.
Integers stand for the floats. In `Bakery` the texts of requests and responses
are left out.

*The detached thread.* `CalcThread` has a step for every call of
`calculate_1_svc()` and of `calculate_thread()` on the data they share. `held` is
what exists of it: the block, the mutex and the condition. The initialisations and
`pthread_create()` may fail, and `Undone` says what the routine undoes after each
failure; at its end the two destroys and `free()` are a step each, so a path that
forgot one of them would leave it in `held`. (After a failing `pthread_create()` it
also skips `pthread_attr_destroy()`; the attributes are not part of the data and
are left out.) `pthread_cond_wait()` gives the mutex back and sleeps
in one step, wakes on a signal or by itself, and takes the mutex again before it
returns. The source has a closing brace too many (`calculator_server.c:107`) and
does not compile; the routine is modelled with the `return` that follows as its
end. The history variable `short` records the calls that met a failure; no
action depends on it.

*The pipe.* A byte in `PipeMessages` is the index of the child that wrote it, so
that a read can be compared with the message it was meant for. Who holds which end
follows from `pc` and `main`. Both programs are one module and `program` says which
is run: `fifth.c` writes only after a SIGINT and reads twice, `lab_04.c` writes at
once and reads a third time with the length of a string that is not there,
which is whatever number the stack holds (that it may also crash is the step
`KillParent`). `wrote` and `reads` are histories.

## Runs

| Run | Instance | Shows |
|---|---|---|
| `prodcons` | 3 children, 2 slots, 3 letters | safety of `prod_cons.c`, its refinement of `LetterQueue`; it ends, and ends clean |
| `prodcons_mac` | 3 children, 2 slots, 3 letters | safety of `prod_cons_mac.c`, its refinement of `LetterQueue`, the life of the semaphore names |
| `writer_reader` | 4 children, 3 letters | safety of `lab_03/writer_reader.c` and its refinement of `LetterRegister` |
| `events` | 2 writers, 1 reader, alphabet of 1, two rounds | the events never leave all threads waiting; after a console event every thread ends, or waits for an event nobody will signal |
| `events_active` | 2 writers, 1 reader, alphabet of 2 in a `char` of 3 values, two rounds | the letter leaves the alphabet only through overlapping writers; `can_read` is always in somebody's hands |
| `daemon` | 3 copies, 2 signals | one copy at most, and no other for ever after, also once the first has ended; the lock file names that copy or nobody; no signal is taken after SIGTERM; a copy comes to serve; SIGTERM stops the thread |
| `daemon_refusal` | 2 copies | **violated**: a copy is refused although none is running |
| `calculator` | 2 threads, 2 calls, 2 operations | only another thread's call can spoil the shared reply; retries and late replies never mix up requests and answers; the client ends even if the server never answers |
| `calculator_result` | 2 threads, 1 call, 4 operations | **violated**: a thread prints a result that is not its own |
| `bakery` | 2 processes, 2 client ids, 2 requests each | nobody but the client being served has a ticket; every process gets its own response; every request is taken and finished |
| `calc_thread` | 1 client, 3 calls, 2 operations | the data outlives the thread and is not leaked; the client prints the answer to its request, or 0 for a call that met a failure; the routine always returns |
| `pipe` | both programs, messages of 6 and 12 bytes | messages come out in pieces exactly when the second child wrote first; two reads take all that was written; every process ends |

*Why the bounds are enough.* With three children there are two producers, so
producers meet each other as well as a consumer; four children give two of each
kind. Two slots make the buffer wrap, run full and run empty; three letters
against two slots make the two wrap-arounds fall at different times. Three
letters in `writer_reader` tell the old letter, the new one and the wrap apart.
In `lab_04` one character beyond the alphabet is enough for the letter to leave
it, and `write_cnt` with the range -2 .. 1 lets a lost update drive it to either
side of 0 (and over the edge, which the 32-bit counter of the program only does
after 2^31 lost updates; the properties hold all the same). `ROUNDS` stands for
the 3 of `cnt >= 3`: with two rounds the program reaches its end by
itself. Three copies of the daemon let one hold the lock file, one come
too late and one be on its way. `MaxSignals` bounds the signals sent, enough for
a SIGTERM with another signal before or after it.

Two calls per thread let a reply to the first arrive during the second, and two
operations with different results tell the answers apart; the result 0 is that
of no request, so a cleared reply shows. Two processes with the same two client
ids meet in one entry of `number` and in two.

One client of `RPC/calc` is enough for the routine, which serves one request
at a time; three calls let replies to two earlier ones arrive late, and the two
operations tell them apart. The messages of the pipe programs have their real
lengths (6 and 12): the pieces depend on which is longer. `GARBAGE`, the bound of
the third length, is one more than the longer message.

`TypeOK` is checked in `prodcons`, where the type of the pointers is at stake, and
proved for every program, alone or within its inductive invariant. In the other runs the properties
say more.

*Deadlock* is checked in every run: a program that is over takes the step
`Terminated`, so a stop anywhere else would be reported. In `Daemon` somebody
can always edit the configuration file, and there is no such question.

*Fairness.* `ProdCons`: the parent is scheduled, a child arms its alarm, and an
armed alarm goes off. Nothing is assumed about semaphores or SIGINT, so the
liveness property holds even if a child never gets a semaphore.
`EventWriterReader`: for `FlagStops` every thread that can run and the console
handler are scheduled, and the main thread is not, because its timeout would
end every question. `Daemon`: the threads of a living copy are scheduled, and no copy needs
to be started or killed. `Calculator`: the threads of
the client are scheduled and a call without a reply times out; nothing is
assumed about the server and the network. `Bakery`: the server is scheduled, and
`svc_run()` looks at every connection with something to read; nothing is assumed
about the clients. `CalcThread`: the service routine is scheduled, and the detached
thread gets the mutex in the end (strong fairness): without that, a routine woken
by itself again and again could always be the one that takes it. No wake-up is
assumed, spurious or not. `PipeMessages`: the three processes are scheduled, and the
five seconds pass; nobody need send a signal.

## What the runs show of the code

* `prod_cons.c`, `prod_cons_mac.c` and `lab_03/writer_reader.c` keep their
  shared memory consistent whatever the signals do. The price is that a child
  killed at the wrong moment blocks the others until their alarms: the
  properties `OnlyDeathsBlock`, `MacOnlyDeathsBlock`, `KilledHolderFreezesBuffer`
  and `KilledHolderShutsOut` say exactly when.
* In `prod_cons_mac.c` a child that is interrupted in its second `sem_wait()`
  keeps its slot: `MacSlotAccounting` counts it.
* The queue counters of `lab_03/writer_reader.c` are raised and lowered within
  one atomic call, so they never hold anybody back (`QueuesNeverHold`): readers
  that keep coming can keep a writer out.
* In `lab_04` nothing keeps two writers, or a reader and a writer, apart:
  `can_read` and `can_write` start signalled and each opens the section for one
  kind while the other is in it. The repository says nowhere that they should be
  kept apart, so there is no run that refutes it; `AlphabetLeftByOverlap` says
  what it can lead to (checked for the second variant: the statements are the same
  in both, and there nothing ever holds a writer back for good).
* `daemon/main.c` takes the existence of the lock file for a running daemon
  (`main.c:35`, against the comment `main.c:181` and the message `main.c:185`)
  and never removes it: `daemon_refusal`, and `OneDaemonEver` for what follows: the
  first copy past the lock file is the last one too. The write of its pid is not
  checked (`main.c:46`), so the file may name nobody, but never another copy:
  `PidFileNamesTheDaemon`.
  After a SIGTERM the signal thread is gone and the process lives on with every
  signal blocked (`main.c:158`): `DeafAfterTerm`.
* In the calculator the five threads of the client share the static reply of the
  stub (`calculator_clnt.c:15`), so a thread can print 0 or another thread's
  result as its own: `calculator_result`. `LastWriterDecides` says that this is the
  only way: server, retries and late replies never give a wrong answer.
* In the bakery the dispatcher serves one request at a time, so the bakery
  algorithm never has anybody to wait for and every ticket is 1
  (`NobodyElseQueues`, `ResponseIsOwn`). It is just as well: the wait would be in
  the only thread that could end it.
* In `RPC/calc` the thread sets `is_done` and then still signals and unlocks. That
  it does both with the mutex taken is what keeps the data alive: the routine can
  only see `is_done` after the thread's last touch (`DataOutlivesThread`). It is also
  why no wake-up is lost (`NoWakeupIsLost`).
* In the pipe programs nothing orders the two writes. If the second child
  writes first, the first read returns half of its message and the second the
  rest, or a mixture (`WholeUnlessOvertaken`); nothing is lost all the same
  (`TwoReadsTakeAll`), and the third read of `lab_04.c` gets nothing.

## Proofs

*`prod_cons.c`.* `LetterBuffer_proofs` proves for every `ChildCount >= 1`, `ELEMENTS >= 1` and
`LETTERS >= 1`, with `IpcObjects = {"sem", "shm"}` (the assumptions
`FamilyAssumption`, `BufferAssumption` and `ProdConsAssumption`):

    Spec => []TypeOK                Spec => []PointersInBounds
    Spec => []MutualExclusion       Spec => []IpcOutlivesChildren
    Spec => []SlotAccounting        Spec => []OnlyDeathsBlock
    Spec => KilledHolderFreezesBuffer
    Spec => ImplementsLetterQueue

The first seven rest on one inductive invariant, `IInv`. Mutual exclusion is not inductive:
that `SEMAPHORE_BINARY` is 0 exactly while some child is in its critical
section, alive or dead, has to be carried along (`BinaryInv`). The type of
`producep`, `consumep` and `letter` is not inductive either: each may stand one
past its range, but only while some child is between the statement that advances
it and the one that wraps it (`PointerInv`), and by mutual exclusion it is that
child which wraps it. `FamilyInv` ties the children's lives to the place the
parent has reached, which is what `IpcOutlivesChildren` needs. `SlotAccounting`
is inductive with these.

The argument is split the way the modules are. The first part of
`LetterBuffer_proofs` shows what a step of the skeleton does to `FamilyInv`, then
that every kind of step (the parent's, a child's outside its section, the end of a
child, the entry, each statement, the exit) keeps `BufferInv`, in terms that do not
mention how the semaphores are taken, so that they serve both programs; the
part on `prod_cons.c` adds what the four `sembuf` arrays do, and the slots.

*The refinement of `LetterQueue`* says that the letters come out in the order
of the alphabet, none lost and none twice, and that the buffer never holds more than
`ELEMENTS`. The queue of the abstract specification is `QueueOf(QueueLen)`: that
many slots of `shmp` from `QueueHead` on, round the end of the array. Three facts
make it a queue:

1. `OrderInv` (in `LetterBuffer`, part of `FifoInv`): the queue ends where `producep`
   stands, and the letter to come is the successor of the newest in the queue. It
   has to be said of the letter to come rather than of `letter`, because
   `letter` is behind by one between `store` and `next` and one past the alphabet
   until it is wrapped.
2. `QueueFits`: how many letters the queue holds, which semaphores and children in
   their sections know together. With `SlotAccounting` it follows that
   there is room for the letter about to be stored and a letter for the
   consumer about to print.
3. Lemmas on what the queue does when the array is written: a store at the end
   appends (`LettersGrow`, `StorePuts`), a read at the head takes the first
   (`LettersShrink`, `GetTakes`), and everything else stutters (`OtherStatements`,
   `QueueUntouched`). The wrap-around is `SlotWraps`.

`StatementsImplement` then maps `Store` to the abstract put, `Get` to the abstract
get and the rest to stutters, `NextImplements` adds the steps of the parent, the
semaphore calls and the deaths. A child killed in its section keeps its share of
`QueueLen`, so its death changes nothing in the queue. `FifoInv` also says that
`SEMAPHORE_FULL` is 0 until `main()` sets it: else a child could not be excluded
from the queue before there is one.

*The calculator.* `Calculator_proofs` proves for any number of threads and calls, any operations and
arguments, over UDP or TCP (`SunRpcAssumption`, `CalculatorAssumption`,
`ClientAssumption`):

    Spec => []TypeOK
    Spec => []LastWriterDecides
    Spec => []AnswersFit

Neither property is inductive. The invariant `IInv` follows a request on its way:
a message of a thread's current call is there only while the thread waits or
has just been answered, and it carries the thread's request (`RequestsInv`) or the
answer to it (`RepliesInv`); in between, the server's static result is the answer
to the request it holds (`ServerInv`). `LoopInv` and `MainInv` bound the loops.
One lemma, `MessagesKept`, covers every step that only removes messages.

*`prod_cons_mac.c`.* The last part of `LetterBuffer_proofs` proves, under the same
assumptions,

    MacSpec => []MacTypeOK              MacSpec => []PointersInBounds
    MacSpec => []MutualExclusion        MacSpec => []IpcOutlivesChildren
    MacSpec => []MacSlotAccounting      MacSpec => []MacOnlyDeathsBlock
    MacSpec => []NamesFollowTheRun      MacSpec => MacKilledHolderFreezesBuffer
    MacSpec => MacImplementsLetterQueue

The lemmas about the buffer are the same. `MacKilledHolderFreezesBuffer` is weaker
than its twin: the others can still take and post slots, and no run asks it. What
is new is that a child
has its slot in hand before and after its critical section: `MacSlotAccounting` goes
over the cardinality of the set of holders, which a call on the slot semaphores
changes by the one child that makes it, and a call on the binary semaphore not at
all. `NamesFollowTheRun` needs that the parent unlinks the names with its last
removal (`RemovalInv`). In the refinement the letters that no semaphore counts at the
moment are those of the children `InHand`: a producer after its store and before
its `sem_post()`, a consumer after its `sem_wait()` and before it has taken the
letter. `HandMoves` says what the step of one child does to their number.

*Readers and writers.* `WriterReader_proofs` proves for every `ChildCount >= 1` and `LETTERS >= 1`

    Spec => []WriterExcludesAll     Spec => []CountersCount
    Spec => []QueuesNeverHold       Spec => []OnlyLettersPrinted
    Spec => KilledHolderShutsOut    Spec => ImplementsLetterRegister

A passing `semop()` says something about the semaphores; that it says something
about the children is `CountersCount`, so exclusion is not inductive without it.
The other two parts of the invariant are that the queue counters are 0 between
calls (`QueuesEmpty`), and that the letter is one past the alphabet only while a
child, alive or dead, is between the increment and the wrap (`LetterInv`). The
refinement maps that intermediate letter to the one the wrap will make it, so
the increment is the abstract write and the wrap a stutter.

*The daemon.* `Daemon_proofs` proves for any set of copies

    Spec => []AtMostOneDaemon       Spec => []PidFileNamesTheDaemon
    Spec => OneDaemonEver           Spec => DeafAfterTerm

`AtMostOneDaemon` and `PidFileNamesTheDaemon` support each other: a copy gets past
the lock file only if it does not exist, and it exists while a copy is past it.
For `OneDaemonEver` the argument goes on after that copy: its being past the file
bars every other copy (`PastOpenBars`), and that the file exists and no other copy
is past it is kept by every step, the end of the copy included (`BarredForEver`).

*The bakery.* `Bakery_proofs` proves for any processes, client ids and requests

    Spec => []NobodyElseQueues      Spec => []ResponseIsOwn
    Spec => []NeverWaits            Spec => []TypeOK

The invariant says which part of the service routine an entry of `choosing` or
`number` belongs to (`ShopInv`), and that a reply on its way is the one to the call
it names, whoever's current call that is (`MessagesInv`). That the client id of a
call is in the arrays is a fact about the division in `IdOf` (`DivBounded`).
`NeverWaits` says that the busy waits never go round.

*The programs of `lab_04`.* `EventThreads_proofs` proves for any number of threads, any alphabet, any range of
`char` that holds it and any width of the counters (`EventThreadsAssumption`)

    writer_reader.c                         writer_reader_active.c
    WR!Spec => []TypeOK                     Spec => []TypeOK
    WR!Spec => []NobodyStalls               Spec => []NobodyStalls
                                            Spec => []SignalInHand
    Watch: WR!Spec => []AlphabetLeftByOverlap   Watch: Spec => []AlphabetLeftByOverlap

where `Watch` only says that the history variable is kept. (No run asks the two that
stand beside a checked one: `NobodyStalls` of the second variant and the alphabet of
the first.) One inductive invariant serves both programs: `IInv` has the types, the
loops of `main()` (`MainInv`), that only writers come between `start_write()` and
`stop_write()` and that `cnt` is incremented from a value it had (`ThreadInv`), and
`LetterInv`: as long as no two writers have met, the writer between its test of
`symbol` and its store has loaded the value that is still there, and has seen that
it is not the last letter. Each kind of statement has a lemma that it keeps `IInv`;
`WRWriterSteps` and `WRReaderSteps` show that the steps of `writer_reader.c` are of
those kinds.

That the events never leave everybody waiting is not inductive. What is, is
`EventsInHand`: an event is signalled, or some thread is on its way to signal one;
and not all threads sleep. Both parts are needed, since a writer that goes to
sleep on `can_write` has found `can_read` not signalled, and it is the first part that
then says who is awake; and `can_read` alone would not wake a program of writers,
which the second part excludes. Thread 0 is a writer (`OwnEvents`): `can_write`
always has somebody to wake. In the second variant `SignalInHand` is inductive, and
`can_write` is never touched.

*`RPC/calc`.* `CalcThread_proofs` proves for any clients, calls, operations and
arguments (`CalcThreadAssumption`)

    Spec => []DataOutlivesThread    Spec => []PrintsItsAnswer
    Spec => []SignalToCome          Spec => []TypeOK

`DataOutlivesThread` is not inductive: that the routine frees the data says nothing of
where the thread is. Three facts together do. What exists of the data goes by where
the routine is (`HeldInv`); so does the owner of the mutex, with where the thread is
(`OwnerInv`); a thread exists only while the routine waits for it, and in that time
`is_done` is set exactly when the thread is past its store or gone (`ThreadInv`). The routine leaves its
loop with the mutex, hence while the thread is not between its lock and its unlock, and
with `is_done` seen, hence not before the lock: the thread is gone. `PrintsItsAnswer`
follows a request through the routine as in the calculator: the data holds its
arguments, and from the end of the computation on the result for them (`AnswerInv`); a
message is about a call its client has made, and if that is the current one, with the
arguments the client still holds (`MessagesInv`). `SignalToCome` says that while
the routine is between its test of `is_done` and the end of its sleep the signal of
the thread is still ahead. It is inductive together with these, and is the safety part
of `RoutineReturns`: no wake-up is lost.

*The pipe programs.* `PipeMessages_proofs` proves for messages of any positive length
and any third length (`PipeAssumption`)

    Spec => []WholeUnlessOvertaken  Spec => []TwoReadsTakeAll
    Spec => []NobodyWrites          Spec => []TypeOK

The invariant says what the pipe and the reads are as functions of `wrote`
(`ContentInv`): before the first read the pipe is the `Stream` of the messages
written so far, the first read takes the first `FIRST` bytes of it (`Taken`) and
leaves the rest (`Left`), the second takes that rest. It takes all of it because a
child writes at most once (`WroteInv`), so that a stream has at most `FIRST + SECOND`
bytes (`StreamIsShort`), and because nothing is written between two reads: the parent
reads only when both children have ended (`ParentInv`), which is also why no read ever
waits (`NobodyWrites`, the safety part of `EverybodyEnds`). There are only five orders
of the writes, and `Streams` says what `FlattenSeq` makes of each, so no induction
over sequences is needed. `WholePieces` and `OvertakenPiece` are the two directions of
`WholeUnlessOvertaken`.

The inductive invariants were checked by TLC on the instances of the runs before
they were proved, those of `CalcThread` and `PipeMessages` also with two clients and
with other lengths of the messages.

Model-checked only: the liveness properties (`EventuallyCleanedUp`, `FlagStops`,
`SomebodyServes`, `TermStopsTheThread`, `ClientEnds`, `EveryRequestIsServed`,
`RoutineReturns`, `EverybodyEnds`), since liveness under fairness is out of the
prover's reach. Every other property of a passing run is a theorem. The two findings
are counterexamples and have nothing to prove.

## Not modelled

* In the RPC programs, the routines nobody calls: `calculator_prog_1()` of the
  client in `working_rpc_another`, `get_ticket_number_1_svc()` (a counter) and
  `get_queue_position_1_svc()` (a constant) of the bakery.
* `RPC/pc`: what rpcgen made of `pc.x`. The service routines are the generator's
  empty templates, under names the dispatcher does not call, so there is no
  behaviour of the program to model.
* `daemon/daemon.c` and `daemon/lockdaemon.c`: `main.c` holds the same functions and
  uses its own; no `main()` calls these.
* The reports, and the exercises of `Lab_01` and `lab_02` that only print what
  `fork`, `wait`, `sleep` and `exec` return and share nothing between processes.
  The twins of the pipe programs in `lab_02` are the same programs with a buffer
  left uninitialised or names left undeclared; `lab_02/3_third.c` and
  `lab_02/5_fifth.c` do not compile.
* Formatting and output, `asctime`, the contents of the configuration file,
  the C runtime's locks.

## State of the plan

Every program with behaviour of its own has a model, and every safety property,
action property and refinement that a passing run checks is proved. What is left is
what the tools cannot do: proofs of the liveness properties listed above. A change of
the sources that gives `RPC/pc` service routines would start with a module on
`SunRpc`, one that makes the rest of `lab_02` compile with a module beside
`PipeMessages`.
