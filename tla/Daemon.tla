------------------------------- MODULE Daemon -------------------------------
(***************************************************************************)
(* daemon/main.c: the start of a daemon, the lock file that is to keep a   *)
(* second copy from running, and the thread that takes the signals.        *)
(* Several copies are started on one system, signals reach them at any     *)
(* time, and any of them may be killed.                                    *)
(*                                                                         *)
(* pc[d] is where the main thread of copy d is, and thr[d] where its       *)
(* signal thread is.  The disposition of SIGHUP and the signal mask follow *)
(* from pc: SIGHUP is ignored from the sigaction() in daemonize() to the   *)
(* one in main(), and everything is blocked from pthread_sigmask() on.     *)
(***************************************************************************)
EXTENDS Naturals

CONSTANTS
  Copies,     \* the copies of the daemon that may be started
  Absent, Empty,  \* no lock file, a lock file without a pid in it
  MaxSignals  \* bound on the number of signals sent

ASSUME DaemonAssumption ==
  Absent \notin Copies /\ Empty \notin Copies /\ Absent # Empty

VARIABLES
  pc, thr,
  pending,  \* the signals blocked and not yet taken by sigwait()
  pidfile,  \* LOCKFILE: Absent, Empty, or the copy whose pid it holds
  conf,     \* CONFFILE exists
  sent      \* the number of signals sent

vars == <<pc, thr, pending, pidfile, conf, sent>>

Signals == {"HUP", "TERM", "USR1"}

IgnoresHup == {"detach", "open", "lock", "write", "restore"}
Blocked == {"create", "serving"}
Starting == {"start", "block"} \cup IgnoresHup \cup {"create"}

Lives(d) == pc[d] \in Starting \cup Blocked

\* d has created the lock file.
PastOpen(d) == pc[d] \in {"lock", "write", "restore", "block", "create", "serving"}

Goto(d, l) == pc' = [pc EXCEPT ![d] = l]

\* d ends, by exit(1) or by a signal.  It never removes the lock file.
Ends_RemovesLockfile(d) ==
  /\ Goto(d, "dead")
  /\ thr' = [thr EXCEPT ![d] = "none"]
  /\ pending' = [pending EXCEPT ![d] = {}]
  /\ pidfile' = IF PastOpen(d) THEN Absent ELSE pidfile
  /\ UNCHANGED conf
Ends(d) ==
  /\ Goto(d, "dead")
  /\ thr' = [thr EXCEPT ![d] = "none"]
  /\ pending' = [pending EXCEPT ![d] = {}]
  /\ UNCHANGED <<pidfile, conf>>

Init ==
  /\ pc = [d \in Copies |-> "shell"]
  /\ thr = [d \in Copies |-> "none"]
  /\ pending = [d \in Copies |-> {}]
  /\ pidfile = Absent
  /\ conf \in BOOLEAN
  /\ sent = 0
-----------------------------------------------------------------------------
(* daemonize() and main(). *)

\* A statement of the start-up that only moves on.
Goes(d, from, to) ==
  /\ pc[d] = from
  /\ Goto(d, to)
  /\ UNCHANGED <<thr, pending, pidfile, conf, sent>>

\* The process of the shell forks, and the child is the daemon.
Start(d) == Goes(d, "shell", "start")

\* sigaction(SIGHUP, SIG_IGN), and then the descriptors.
IgnoreHup(d) == Goes(d, "start", "detach")
Detach(d) == Goes(d, "detach", "open")

\* setsid(), sigaction(), chdir() or a descriptor fails; so may the open() of
\* the lock file for want of rights, its fcntl() lock, and later the
\* sigaction(), pthread_sigmask() and pthread_create() of main().
Fails(d) ==
  /\ pc[d] \in {"start", "detach", "open", "lock", "restore", "block", "create"}
  /\ Ends(d)
  /\ UNCHANGED sent

\* already_running(): open(LOCKFILE, O_CREAT | O_EXCL | O_RDWR) creates it.
OpenLockfile_NotExclusive(d) ==
  /\ pc[d] = "open"
  /\ pidfile' = Empty
  /\ Goto(d, "lock")
  /\ UNCHANGED <<thr, pending, conf, sent>>
OpenLockfile(d) ==
  /\ pc[d] = "open"
  /\ pidfile = Absent
  /\ pidfile' = Empty
  /\ Goto(d, "lock")
  /\ UNCHANGED <<thr, pending, conf, sent>>

\* It exists already: main() logs that the daemon is running, and exits.
Refuse_Always(d) == Goes(d, "open", "refused")
Refuse(d) == pidfile # Absent /\ Goes(d, "open", "refused")

Lock(d) == Goes(d, "lock", "write")

\* ftruncate() and write() of the pid.  Nobody looks at what they return: if
\* the write fails the daemon goes on, and the file it has created stays empty.
\* (ftruncate() of an empty file changes nothing, failing or not.)
WritePid(d) ==
  /\ pc[d] = "write"
  /\ pidfile' \in {pidfile, d}
  /\ Goto(d, "restore")
  /\ UNCHANGED <<thr, pending, conf, sent>>

\* sigaction(SIGHUP, SIG_DFL), then sigfillset() and pthread_sigmask().
RestoreHup(d) == Goes(d, "restore", "block")
BlockAll(d) == Goes(d, "block", "create")

\* pthread_create(thr_fn), and main() enters its loop of sleep(2).
CreateThread(d) ==
  /\ pc[d] = "create"
  /\ Goto(d, "serving")
  /\ thr' = [thr EXCEPT ![d] = "sigwait"]
  /\ UNCHANGED <<pending, pidfile, conf, sent>>

GoesOn(d) ==
  \/ IgnoreHup(d) \/ Detach(d)
  \/ OpenLockfile(d) \/ Refuse(d) \/ Lock(d) \/ WritePid(d)
  \/ RestoreHup(d) \/ BlockAll(d) \/ CreateThread(d)
-----------------------------------------------------------------------------
(* thr_fn() and reread(). *)

\* sigwait() returns a pending signal.  After SIGTERM the thread, and only
\* the thread, is gone.
Sigwait_NoExit(d) ==
  /\ thr[d] = "sigwait"
  /\ \E s \in pending[d] :
       /\ pending' = [pending EXCEPT ![d] = @ \ {s}]
       /\ thr' = [thr EXCEPT ![d] = IF s = "HUP" THEN "reread" ELSE "sigwait"]
  /\ UNCHANGED <<pc, pidfile, conf, sent>>
Sigwait_AnyThread(d) ==
  /\ thr[d] \in {"sigwait", "gone"}
  /\ \E s \in pending[d] :
       /\ pending' = [pending EXCEPT ![d] = @ \ {s}]
       /\ thr' = [thr EXCEPT ![d] = IF s = "HUP" THEN "reread"
                                      ELSE IF s = "TERM" THEN "gone"
                                      ELSE "sigwait"]
  /\ UNCHANGED <<pc, pidfile, conf, sent>>
Sigwait(d) ==
  /\ thr[d] = "sigwait"
  /\ \E s \in pending[d] :
       /\ pending' = [pending EXCEPT ![d] = @ \ {s}]
       /\ thr' = [thr EXCEPT ![d] = IF s = "HUP" THEN "reread"
                                      ELSE IF s = "TERM" THEN "gone"
                                      ELSE "sigwait"]
  /\ UNCHANGED <<pc, pidfile, conf, sent>>

\* reread() reads CONFFILE, or exits with the whole process if there is none.
Reread(d) ==
  /\ thr[d] = "reread"
  /\ \/ /\ conf
        /\ thr' = [thr EXCEPT ![d] = "sigwait"]
        /\ UNCHANGED <<pc, pending, pidfile, conf, sent>>
     \/ ~conf /\ Ends(d) /\ UNCHANGED sent
-----------------------------------------------------------------------------
(* The rest of the system. *)

\* A signal is sent: held, ignored, or deadly.
Send(d, s) ==
  /\ Lives(d) /\ sent < MaxSignals
  /\ sent' = sent + 1
  /\ \/ /\ pc[d] \in Blocked
        /\ pending' = [pending EXCEPT ![d] = @ \cup {s}]
        /\ UNCHANGED <<pc, thr, pidfile, conf>>
     \/ /\ s = "HUP" /\ pc[d] \in IgnoresHup
        /\ UNCHANGED <<pc, thr, pending, pidfile, conf>>
     \/ /\ pc[d] \notin Blocked
        /\ ~(s = "HUP" /\ pc[d] \in IgnoresHup)
        /\ Ends(d)

\* SIGKILL, or a crash.
Killed(d) == Lives(d) /\ Ends(d) /\ UNCHANGED sent

\* Somebody writes or removes the configuration file.
EditConf ==
  /\ conf' = ~conf
  /\ UNCHANGED <<pc, thr, pending, pidfile, sent>>

Next ==
  \/ \E d \in Copies :
       \/ Start(d) \/ GoesOn(d) \/ Fails(d)
       \/ Sigwait(d) \/ Reread(d)
       \/ \E s \in Signals : Send(d, s)
       \/ Killed(d)
  \/ EditConf

Spec == Init /\ [][Next]_vars

\* The threads of a living daemon are scheduled.  Nobody need start one,
\* send it anything or kill it.
Fairness ==
  \A d \in Copies : /\ WF_vars(GoesOn(d))
                    /\ WF_vars(Sigwait(d))
                    /\ WF_vars(Reread(d))

FairSpec == Spec /\ Fairness
-----------------------------------------------------------------------------
(* Properties *)

TypeOK ==
  /\ pc \in [Copies -> Starting \cup Blocked \cup {"shell", "refused", "dead"}]
  /\ thr \in [Copies -> {"none", "sigwait", "reread", "gone"}]
  /\ \A d \in Copies : thr[d] = "none" <=> pc[d] # "serving"
  /\ pending \in [Copies -> SUBSET Signals]
  /\ pidfile \in Copies \cup {Absent, Empty}
  /\ conf \in BOOLEAN
  /\ sent \in Nat

\* Of all the copies started, at most one gets past the lock file
\* (main.c 32-48, 184-187).
AtMostOneDaemon ==
  \A d, e \in Copies : PastOpen(d) /\ PastOpen(e) => d = e

\* From the moment it has passed the write of its pid to its end, the lock
\* file names the running daemon, or nobody if the write has failed, and never
\* another copy, whatever the others do (main.c 44-46).
PidFileNamesTheDaemon ==
  \A d \in Copies :
    PastOpen(d) => IF pc[d] \in {"lock", "write"} THEN pidfile = Empty
                                                  ELSE pidfile \in {d, Empty}

\* Once a copy has got past the lock file no other copy ever does, not even
\* after the first has ended, however it has ended: the file stays
\* (main.c 35-39, 181-187).
OneDaemonEver ==
  \A d, e \in Copies : d # e => [](PastOpen(d) => []~PastOpen(e))

\* Once the thread has taken a SIGTERM the daemon goes on with every signal
\* blocked: none is taken any more, they only pile up (main.c 156-158,
\* 201-202, 217-222).
DeafAfterTerm ==
  [][\A d \in Copies :
       thr[d] = "gone" /\ pc'[d] = "serving"
         => thr'[d] = "gone" /\ pending[d] \subseteq pending'[d]]_vars

\* If a copy is on its way, one comes to serve, unless one has ended on the
\* way, of a failure or of a signal (main.c 166-222).
SomebodyServes ==
  (\E d \in Copies : pc[d] \in Starting)
     ~> (\E d \in Copies : pc[d] \in {"serving", "dead"})

\* A SIGTERM held for a serving daemon stops its thread, or the daemon has
\* ended before (main.c 146-158).
TermStopsTheThread ==
  \A d \in Copies :
    (pc[d] = "serving" /\ "TERM" \in pending[d] /\ thr[d] # "gone")
      ~> (thr[d] \in {"gone", "none"})

\* main.c 181: already_running() is to make sure that no copy of the daemon
\* was running before; main.c 185 logs that one is.
RefusalIsTruthful ==
  [][\A d \in Copies : pc[d] = "open" /\ pc'[d] = "refused"
                         => \E e \in Copies : PastOpen(e)]_vars
=============================================================================
