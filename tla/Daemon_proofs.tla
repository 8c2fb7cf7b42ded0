--------------------------- MODULE Daemon_proofs ---------------------------
(***************************************************************************)
(* For any number of copies and of signals: O_EXCL lets one copy past the  *)
(* lock file, the file names that copy or nobody as long as it runs, no    *)
(* other copy ever gets past it, not even after its end, and SIGTERM makes *)
(* a daemon deaf.                                                          *)
(***************************************************************************)
EXTENDS Daemon, TLAPS

MainPcs == Starting \cup Blocked \cup {"shell", "refused", "dead"}

IInv == TypeOK /\ AtMostOneDaemon /\ PidFileNamesTheDaemon

\* A copy that ends leaves the lock file and the others as they are.
LEMMA EndsKeepsIInv ==
  ASSUME IInv, NEW d \in Copies, Ends(d), sent' \in Nat
  PROVE  IInv'
<1>1. \A e \in Copies : PastOpen(e)' => e # d /\ PastOpen(e) /\ pc'[e] = pc[e]
  BY DEF IInv, TypeOK, Ends, Goto, PastOpen
<1>2. TypeOK'
  BY DEF IInv, TypeOK, Ends, Goto
<1>3. AtMostOneDaemon'
  BY <1>1 DEF IInv, AtMostOneDaemon
<1>4. PidFileNamesTheDaemon'
  BY <1>1 DEF IInv, PidFileNamesTheDaemon, Ends
<1> QED
  BY <1>2, <1>3, <1>4 DEF IInv

\* So does one that only moves on, on its side of the lock file.
LEMMA GoesKeepsIInv ==
  ASSUME IInv, NEW d \in Copies, NEW from \in MainPcs, NEW to \in MainPcs,
         Goes(d, from, to), from # "serving", to # "serving",
         \/ to \notin {"lock", "write", "restore", "block", "create"}
         \/ from = "lock" /\ to = "write"
         \/ from \in {"restore", "block"} /\ to \in {"block", "create"}
  PROVE  IInv'
<1>1. \A e \in Copies :
        PastOpen(e)' => /\ PastOpen(e)
                        /\ pc'[e] \in {"lock", "write"} <=> pc[e] \in {"lock", "write"}
  BY DEF IInv, TypeOK, Goes, Goto, PastOpen, MainPcs, Starting, Blocked, IgnoresHup
<1>2. TypeOK'
  BY DEF IInv, TypeOK, Goes, Goto, MainPcs
<1>3. AtMostOneDaemon'
  BY <1>1 DEF IInv, AtMostOneDaemon
<1>4. PidFileNamesTheDaemon'
  BY <1>1 DEF IInv, PidFileNamesTheDaemon, Goes
<1> QED
  BY <1>2, <1>3, <1>4 DEF IInv

\* Nor does it matter what the signal thread does while the main thread
\* stays where it is.
LEMMA MainStays ==
  ASSUME IInv, TypeOK', UNCHANGED <<pc, pidfile>>
  PROVE  IInv'
BY DEF IInv, AtMostOneDaemon, PidFileNamesTheDaemon, PastOpen

\* The start-up of a copy.
LEMMA StartUpStep ==
  ASSUME IInv, NEW d \in Copies, Start(d) \/ GoesOn(d) \/ Fails(d)
  PROVE  IInv'
<1> USE DEF MainPcs, Starting, Blocked, IgnoresHup
<1>1. CASE Start(d)
  BY <1>1, GoesKeepsIInv DEF Start
<1>2. CASE IgnoreHup(d) \/ Detach(d)
  BY <1>2, GoesKeepsIInv DEF IgnoreHup, Detach
<1>3. CASE OpenLockfile(d)
  <2>1. \A e \in Copies : ~PastOpen(e)
    BY <1>3, DaemonAssumption DEF IInv, PidFileNamesTheDaemon, OpenLockfile
  <2>2. \A e \in Copies : PastOpen(e)' => e = d
    BY <1>3, <2>1 DEF IInv, TypeOK, OpenLockfile, Goto, PastOpen
  <2>3. pc'[d] = "lock" /\ pidfile' = Empty
    BY <1>3 DEF IInv, TypeOK, OpenLockfile, Goto
  <2>4. TypeOK'
    BY <1>3 DEF IInv, TypeOK, OpenLockfile, Goto
  <2> QED
    BY <2>2, <2>3, <2>4 DEF IInv, AtMostOneDaemon, PidFileNamesTheDaemon
<1>4. CASE Refuse(d)
  BY <1>4, GoesKeepsIInv DEF Refuse
<1>5. CASE Lock(d)
  BY <1>5, GoesKeepsIInv DEF Lock
<1>6. CASE WritePid(d)
  <2>1. PastOpen(d) /\ \A e \in Copies : PastOpen(e) => e = d
    BY <1>6 DEF IInv, AtMostOneDaemon, WritePid, PastOpen
  <2>2. \A e \in Copies : PastOpen(e)' => e = d
    BY <1>6, <2>1 DEF IInv, TypeOK, WritePid, Goto, PastOpen
  <2>3. pc'[d] = "restore" /\ pidfile' \in {d, Empty}
    BY <1>6, <2>1 DEF IInv, TypeOK, PidFileNamesTheDaemon, WritePid, Goto
  <2>4. TypeOK'
    BY <1>6 DEF IInv, TypeOK, WritePid, Goto
  <2> QED
    BY <2>2, <2>3, <2>4 DEF IInv, AtMostOneDaemon, PidFileNamesTheDaemon
<1>7. CASE RestoreHup(d) \/ BlockAll(d)
  BY <1>7, GoesKeepsIInv DEF RestoreHup, BlockAll
<1>8. CASE CreateThread(d)
  <2>1. \A e \in Copies :
          PastOpen(e)' => /\ PastOpen(e)
                          /\ pc'[e] \in {"lock", "write"} <=> pc[e] \in {"lock", "write"}
    BY <1>8 DEF IInv, TypeOK, CreateThread, Goto, PastOpen
  <2>2. TypeOK'
    BY <1>8 DEF IInv, TypeOK, CreateThread, Goto
  <2>3. AtMostOneDaemon'
    BY <2>1 DEF IInv, AtMostOneDaemon
  <2>4. PidFileNamesTheDaemon'
    BY <1>8, <2>1 DEF IInv, PidFileNamesTheDaemon, CreateThread
  <2> QED
    BY <2>2, <2>3, <2>4 DEF IInv
<1>9. CASE Fails(d)
  BY <1>9, EndsKeepsIInv DEF Fails, IInv, TypeOK
<1> QED
  BY <1>1, <1>2, <1>3, <1>4, <1>5, <1>6, <1>7, <1>8, <1>9 DEF GoesOn

\* The signal thread and the signals.
LEMMA SignalStep ==
  ASSUME IInv, NEW d \in Copies,
         Sigwait(d) \/ Reread(d) \/ (\E s \in Signals : Send(d, s)) \/ Killed(d)
  PROVE  IInv'
<1>1. CASE Sigwait(d)
  <2>1. TypeOK'
    BY <1>1 DEF IInv, TypeOK, Sigwait
  <2> QED
    BY <1>1, <2>1, MainStays DEF Sigwait
<1>2. CASE Reread(d)
  <2>1. CASE conf
    <3>1. TypeOK'
      BY <1>2, <2>1 DEF IInv, TypeOK, Reread
    <3> QED
      BY <1>2, <2>1, <3>1, MainStays DEF Reread
  <2>2. CASE ~conf
    BY <1>2, <2>2, EndsKeepsIInv DEF Reread, IInv, TypeOK
  <2> QED
    BY <2>1, <2>2
<1>3. ASSUME NEW s \in Signals, Send(d, s)
      PROVE  IInv'
  <2>1. sent' \in Nat
    BY <1>3 DEF Send, IInv, TypeOK
  <2>2. CASE Ends(d)
    BY <2>1, <2>2, EndsKeepsIInv
  <2>3. CASE UNCHANGED <<pc, thr, pidfile, conf>>
             /\ (UNCHANGED pending \/ pending' = [pending EXCEPT ![d] = @ \cup {s}])
    <3>1. TypeOK'
      BY <1>3, <2>1, <2>3 DEF IInv, TypeOK
    <3> QED
      BY <2>3, <3>1, MainStays
  <2> QED
    BY <1>3, <2>2, <2>3 DEF Send
<1>4. CASE Killed(d)
  BY <1>4, EndsKeepsIInv DEF Killed, IInv, TypeOK
<1> QED
  BY <1>1, <1>2, <1>3, <1>4

\* main.c: the copies keep to the lock file, whatever ends them.
THEOREM Invariance == Spec => []IInv
<1>1. Init => IInv
  BY DaemonAssumption DEF Init, IInv, TypeOK, AtMostOneDaemon, PidFileNamesTheDaemon,
                          PastOpen, Starting, Blocked
<1>2. IInv /\ [Next]_vars => IInv'
  <2> SUFFICES ASSUME IInv, [Next]_vars
               PROVE  IInv'
    OBVIOUS
  <2>1. CASE EditConf \/ UNCHANGED vars
    <3>1. TypeOK'
      BY <2>1 DEF IInv, TypeOK, EditConf, vars
    <3> QED
      BY <2>1, <3>1, MainStays DEF EditConf, vars
  <2> QED
    BY <2>1, StartUpStep, SignalStep DEF Next
<1> QED
  BY <1>1, <1>2, PTL DEF Spec

\* main.c:35-39, 184-187: O_EXCL lets at most one copy past the lock file.
THEOREM OneDaemonAtMost == Spec => []AtMostOneDaemon
<1>1. IInv => AtMostOneDaemon
  BY DEF IInv
<1> QED
  BY <1>1, Invariance, PTL

\* main.c:44-46: the lock file names the daemon that runs, or nobody if the
\* write of its pid has failed.
THEOREM PidFileIsRight == Spec => []PidFileNamesTheDaemon
<1>1. IInv => PidFileNamesTheDaemon
  BY DEF IInv
<1> QED
  BY <1>1, Invariance, PTL

\* The lock file exists, and no copy but d is past it.
Barred(d) ==
  /\ pidfile # Absent
  /\ \A e \in Copies : e # d => ~PastOpen(e)

\* A copy that is past the lock file is so alone, and the file exists.
LEMMA PastOpenBars ==
  ASSUME IInv, NEW d \in Copies, PastOpen(d)
  PROVE  Barred(d)
BY DaemonAssumption DEF IInv, AtMostOneDaemon, PidFileNamesTheDaemon, Barred

\* The others stay barred whatever happens: no step removes the file, and only
\* the creation of it lets a copy past.
LEMMA BarredForEver ==
  ASSUME IInv, NEW d \in Copies, Barred(d), [Next]_vars
  PROVE  Barred(d)'
<1>1. ASSUME NEW f \in Copies, NEW to, pc' = [pc EXCEPT ![f] = to],
             to \in {"start", "detach", "open", "refused", "dead"},
             pidfile' = pidfile
      PROVE  Barred(d)'
  BY <1>1 DEF IInv, TypeOK, Barred, PastOpen
<1>2. CASE UNCHANGED <<pc, pidfile>>
  BY <1>2 DEF Barred, PastOpen
<1>3. ASSUME NEW f \in Copies, NEW from, NEW to, Goes(f, from, to),
             \/ from = "lock" /\ to = "write"
             \/ from = "restore" /\ to = "block"
             \/ from = "block" /\ to = "create"
      PROVE  Barred(d)'
  <2>1. \A e \in Copies : PastOpen(e)' => PastOpen(e)
    BY <1>3 DEF IInv, TypeOK, Goes, Goto, PastOpen
  <2> QED
    BY <1>3, <2>1 DEF Barred, Goes
<1>4. ASSUME NEW f \in Copies, Start(f) \/ GoesOn(f)
      PROVE  Barred(d)'
  <2>1. CASE Start(f) \/ IgnoreHup(f) \/ Detach(f) \/ Refuse(f)
    BY <1>1, <2>1 DEF Start, IgnoreHup, Detach, Refuse, Goes, Goto
  <2>2. CASE OpenLockfile(f)
    BY <2>2 DEF OpenLockfile, Barred
  <2>3. CASE Lock(f) \/ RestoreHup(f) \/ BlockAll(f)
    BY <1>3, <2>3 DEF Lock, RestoreHup, BlockAll
  <2>4. CASE WritePid(f)
    <3>1. \A e \in Copies : PastOpen(e)' => PastOpen(e)
      BY <2>4 DEF IInv, TypeOK, WritePid, Goto, PastOpen
    <3>2. pidfile' # Absent
      BY <2>4, DaemonAssumption DEF WritePid, Barred
    <3> QED
      BY <3>1, <3>2 DEF Barred
  <2>5. CASE CreateThread(f)
    <3>1. \A e \in Copies : PastOpen(e)' => PastOpen(e)
      BY <2>5 DEF IInv, TypeOK, CreateThread, Goto, PastOpen
    <3> QED
      BY <2>5, <3>1 DEF CreateThread, Barred
  <2> QED
    BY <1>4, <2>1, <2>2, <2>3, <2>4, <2>5 DEF GoesOn
<1>5. ASSUME NEW f \in Copies, Ends(f)
      PROVE  Barred(d)'
  BY <1>1, <1>5 DEF Ends, Goto
<1>6. ASSUME NEW f \in Copies,
             Sigwait(f) \/ Reread(f) \/ (\E s \in Signals : Send(f, s))
      PROVE  Barred(d)'
  BY <1>2, <1>5, <1>6 DEF Sigwait, Reread, Send
<1> QED
  BY <1>2, <1>4, <1>5, <1>6 DEF Next, Fails, Killed, EditConf, vars

\* main.c:35-39, 181-187: the first copy past the lock file is the only one
\* ever, since the file outlives it.
THEOREM OneDaemonForEver == Spec => OneDaemonEver
<1> SUFFICES ASSUME NEW d \in Copies, NEW e \in Copies, d # e
             PROVE  Spec => [](PastOpen(d) => []~PastOpen(e))
  BY DEF OneDaemonEver
<1>1. IInv /\ PastOpen(d) => Barred(d)
  BY PastOpenBars
<1>2. IInv /\ Barred(d) /\ [Next]_vars => Barred(d)'
  BY BarredForEver
<1>3. Barred(d) => ~PastOpen(e)
  BY DEF Barred
<1> QED
  BY <1>1, <1>2, <1>3, Invariance, PTL DEF Spec

\* main.c:156-158, 217-222: nothing but the end of the process follows the
\* end of the signal thread.
THEOREM DeafToTheEnd == Spec => DeafAfterTerm
<1>1. IInv /\ [Next]_vars
        => [\A d \in Copies : thr[d] = "gone" /\ pc'[d] = "serving"
              => thr'[d] = "gone" /\ pending[d] \subseteq pending'[d]]_vars
  <2> SUFFICES ASSUME IInv, Next, NEW e \in Copies, thr[e] = "gone", pc'[e] = "serving"
               PROVE  thr'[e] = "gone" /\ pending[e] \subseteq pending'[e]
    OBVIOUS
  <2>1. pc[e] = "serving"
    BY DEF IInv, TypeOK
  <2>2. ASSUME NEW d \in Copies, Start(d) \/ GoesOn(d)
        PROVE  thr'[e] = "gone" /\ pending[e] \subseteq pending'[e]
    BY <2>1, <2>2 DEF IInv, TypeOK, Start, GoesOn, IgnoreHup, Detach, OpenLockfile, Refuse,
                      Lock, WritePid, RestoreHup, BlockAll, CreateThread, Goes, Goto
  <2>3. ASSUME NEW d \in Copies, Ends(d)
        PROVE  thr'[e] = "gone" /\ pending[e] \subseteq pending'[e]
    BY <2>3 DEF IInv, TypeOK, Ends, Goto
  <2>4. ASSUME NEW d \in Copies, Sigwait(d) \/ Reread(d)
        PROVE  thr'[e] = "gone" /\ pending[e] \subseteq pending'[e]
    BY <2>3, <2>4 DEF IInv, TypeOK, Sigwait, Reread
  <2>5. ASSUME NEW d \in Copies, NEW s \in Signals, Send(d, s)
        PROVE  thr'[e] = "gone" /\ pending[e] \subseteq pending'[e]
    BY <2>3, <2>5 DEF IInv, TypeOK, Send
  <2>6. CASE EditConf
    BY <2>6 DEF EditConf
  <2> QED
    BY <2>2, <2>3, <2>4, <2>5, <2>6 DEF Next, Fails, Killed
<1> QED
  BY <1>1, Invariance, PTL DEF Spec, DeafAfterTerm
=============================================================================
