---------------------------- MODULE Stage1Worker ----------------------------
(***************************************************************************)
(* The worker thread behind parse_many (struct stage1_worker): one mutex,  *)
(* one condition variable shared by both directions, two flags.            *)
(*                                                                         *)
(* The stream's thread (Main) calls start_thread, run, finish and, from    *)
(* the destructor, stop_thread; the worker thread (Worker) loops on the    *)
(* condition variable and runs stage 1 with the mutex held.  Every lock,   *)
(* wait, notification and unlock is a step of its own, so that the two     *)
(* threads interleave where the C++ code lets them.                        *)
(*                                                                         *)
(* The calls obey what the comments of document_stream.h ask for: run only *)
(* after start_thread, and stop_thread once, from the destructor.  run may *)
(* come again before finish (a second begin() on a stream does that) and   *)
(* finish may come without a new run (document_stream::next does that when *)
(* a batch turned out to be empty).                                        *)
(***************************************************************************)
EXTENDS Naturals, FiniteSets

CONSTANTS Jobs,        \* values of _next_batch_start
          NoJob,       \* no value yet
          MaxSpurious  \* bound: wake-ups without a notification

ASSUME WorkerAssumption == NoJob \notin Jobs /\ MaxSpurious \in Nat

Main   == "main"
Worker == "worker"
Thread == {Main, Worker}
Free   == "free"

VARIABLES mutex,      \* locking_mutex: its owner, or Free
          waiting,    \* threads blocked in cond_var.wait and not notified
          has_work,
          can_work,
          job,        \* _next_batch_start, owner and stage1_thread_parser
          result,     \* the job whose stage 1 ran last (stage1_thread_error)
          joinable,   \* thread.joinable()
          pcM,        \* Main: where it stands in the call it makes
          pcW,        \* Worker: where it stands in its loop
          seen,       \* the result Main found when finish() last returned
          spurious    \* number of spurious wake-ups so far

vars == <<mutex, waiting, has_work, can_work, job, result, joinable, pcM, pcW,
          seen, spurious>>

MainPC == {"idle",
           "start.lock", "start.body", "start.unlock",
           "run.lock", "run.body", "run.unlock",
           "finish.lock", "finish.check", "finish.wait", "finish.unlock",
           "stop.lock", "stop.body", "stop.unlock", "stop.join", "gone"}
WorkerPC == {"none", "lock", "check", "wait", "work", "clear", "unlock",
             "exit", "exited"}

Init == /\ mutex = Free
        /\ waiting = {}
        /\ has_work = FALSE
        /\ can_work = TRUE
        /\ job = NoJob
        /\ result = NoJob
        /\ joinable = FALSE
        /\ pcM = "idle"
        /\ pcW = "none"
        /\ seen = NoJob
        /\ spurious = 0

Acquire(t) == mutex = Free /\ mutex' = t
Release(t) == mutex = t /\ mutex' = Free

(* notify_one wakes one of the threads that wait, if there is one. *)
NotifyOne == \/ waiting = {} /\ UNCHANGED waiting
             \/ \E t \in waiting : waiting' = waiting \ {t}
NotifyAll == waiting' = {}

-----------------------------------------------------------------------------
(* Main: a call begins when no other call of Main is in progress. *)
Call(op) == /\ pcM = "idle"
            /\ pcM' = op
            /\ UNCHANGED <<mutex, waiting, has_work, can_work, job, result,
                           joinable, pcW, seen, spurious>>

CallStart  == Call("start.lock")
CallRun    == joinable /\ Call("run.lock")
CallFinish == joinable /\ Call("finish.lock")
CallStop   == Call("stop.lock")

(* std::unique_lock<std::mutex> lock(locking_mutex) at the head of a call. *)
LockFor(op, body) == /\ pcM = op
                     /\ Acquire(Main)
                     /\ pcM' = body
                     /\ UNCHANGED <<waiting, has_work, can_work, job, result,
                                    joinable, pcW, seen, spurious>>

MainLock == \/ LockFor("start.lock", "start.body")
            \/ LockFor("run.lock", "run.body")
            \/ LockFor("finish.lock", "finish.check")
            \/ LockFor("stop.lock", "stop.body")

UnlockTo(op, dest) == /\ pcM = op
                      /\ Release(Main)
                      /\ pcM' = dest
                      /\ UNCHANGED <<waiting, has_work, can_work, job, result,
                                     joinable, pcW, seen, spurious>>

MainUnlock == \/ UnlockTo("start.unlock", "idle")
              \/ UnlockTo("run.unlock", "idle")
              \/ UnlockTo("stop.unlock", "stop.join")

(* start_thread: a second call finds the thread joinable and returns. *)
StartBody == /\ pcM = "start.body"
             /\ joinable' = TRUE
             /\ pcW' = IF joinable THEN pcW ELSE "lock"
             /\ pcM' = "start.unlock"
             /\ UNCHANGED <<mutex, waiting, has_work, can_work, job, result,
                            seen, spurious>>

(* Slip: run publishes the job and forgets to notify. *)
RunBody_Silent == /\ pcM = "run.body"
                  /\ \E j \in Jobs : job' = j
                  /\ has_work' = TRUE
                  /\ pcM' = "run.unlock"
                  /\ UNCHANGED <<mutex, waiting, can_work, result, joinable,
                                 pcW, seen, spurious>>

(* run: publish the job, then notify the worker. *)
RunBody == /\ pcM = "run.body"
           /\ \E j \in Jobs : job' = j
           /\ has_work' = TRUE
           /\ NotifyOne
           /\ pcM' = "run.unlock"
           /\ UNCHANGED <<mutex, can_work, result, joinable, pcW, seen,
                          spurious>>

(* finish: the predicate of cond_var.wait is tested with the mutex held;   *)
(* when it fails the thread releases the mutex and waits in one step.      *)
FinishCheck == /\ pcM = "finish.check"
               /\ IF has_work
                  THEN /\ Release(Main)
                       /\ waiting' = waiting \cup {Main}
                       /\ pcM' = "finish.wait"
                  ELSE /\ pcM' = "finish.unlock"
                       /\ UNCHANGED <<mutex, waiting>>
               /\ UNCHANGED <<has_work, can_work, job, result, joinable, pcW,
                              seen, spurious>>

(* Slip: a woken finish trusts the notification, without the predicate. *)
FinishWake_Trusting == /\ pcM = "finish.wait"
                       /\ Main \notin waiting
                       /\ Acquire(Main)
                       /\ pcM' = "finish.unlock"
                       /\ UNCHANGED <<waiting, has_work, can_work, job, result,
                                      joinable, pcW, seen, spurious>>

FinishWake == /\ pcM = "finish.wait"
              /\ Main \notin waiting
              /\ Acquire(Main)
              /\ pcM' = "finish.check"
              /\ UNCHANGED <<waiting, has_work, can_work, job, result,
                             joinable, pcW, seen, spurious>>

(* finish returns; the stream then reads the result (load_from_stage1_thread). *)
FinishReturn == /\ pcM = "finish.unlock"
                /\ Release(Main)
                /\ pcM' = "idle"
                /\ seen' = result
                /\ UNCHANGED <<waiting, has_work, can_work, job, result,
                               joinable, pcW, spurious>>

(* Slip: stop_thread withdraws the job and leaves can_work as it is. *)
StopBody_KeepsWorking == /\ pcM = "stop.body"
                         /\ has_work' = FALSE
                         /\ NotifyAll
                         /\ pcM' = "stop.unlock"
                         /\ UNCHANGED <<mutex, can_work, job, result, joinable,
                                        pcW, seen, spurious>>

(* stop_thread: clear both flags, wake everybody, unlock, join. *)
StopBody == /\ pcM = "stop.body"
            /\ can_work' = FALSE
            /\ has_work' = FALSE
            /\ NotifyAll
            /\ pcM' = "stop.unlock"
            /\ UNCHANGED <<mutex, job, result, joinable, pcW, seen, spurious>>

(* Slip: the destructor detaches the thread instead of joining it. *)
StopJoin_Detached == /\ pcM = "stop.join"
                     /\ joinable' = FALSE
                     /\ pcM' = "gone"
                     /\ UNCHANGED <<mutex, waiting, has_work, can_work, job,
                                    result, pcW, seen, spurious>>

StopJoin == /\ pcM = "stop.join"
            /\ joinable => pcW = "exited"
            /\ joinable' = FALSE
            /\ pcM' = "gone"
            /\ UNCHANGED <<mutex, waiting, has_work, can_work, job, result,
                           pcW, seen, spurious>>

MainStep == \/ MainLock \/ MainUnlock
            \/ StartBody \/ RunBody
            \/ FinishCheck \/ FinishWake \/ FinishReturn
            \/ StopBody \/ StopJoin

-----------------------------------------------------------------------------
(* Worker: one round of the while(true) loop. *)
WorkerLock == /\ pcW = "lock"
              /\ Acquire(Worker)
              /\ pcW' = "check"
              /\ UNCHANGED <<waiting, has_work, can_work, job, result,
                             joinable, pcM, seen, spurious>>

(* Slip: the mutex is released before stage 1 runs. *)
WorkerCheck_Unlocked ==
    /\ pcW = "check"
    /\ Release(Worker)
    /\ IF has_work \/ ~can_work
       THEN /\ pcW' = IF can_work THEN "work" ELSE "exit"
            /\ UNCHANGED waiting
       ELSE /\ waiting' = waiting \cup {Worker}
            /\ pcW' = "wait"
    /\ UNCHANGED <<has_work, can_work, job, result, joinable, pcM, seen,
                   spurious>>

WorkerCheck ==
    /\ pcW = "check"
    /\ IF has_work \/ ~can_work
       THEN /\ pcW' = IF can_work THEN "work" ELSE "exit"
            /\ UNCHANGED <<mutex, waiting>>
       ELSE /\ Release(Worker)
            /\ waiting' = waiting \cup {Worker}
            /\ pcW' = "wait"
    /\ UNCHANGED <<has_work, can_work, job, result, joinable, pcM, seen,
                   spurious>>

WorkerWake == /\ pcW = "wait"
              /\ Worker \notin waiting
              /\ Acquire(Worker)
              /\ pcW' = "check"
              /\ UNCHANGED <<waiting, has_work, can_work, job, result,
                             joinable, pcM, seen, spurious>>

(* run_stage1 on the job, with the mutex held. *)
WorkerRun == /\ pcW = "work"
             /\ result' = job
             /\ pcW' = "clear"
             /\ UNCHANGED <<mutex, waiting, has_work, can_work, job, joinable,
                            pcM, seen, spurious>>

WorkerClear == /\ pcW = "clear"
               /\ has_work' = FALSE
               /\ NotifyOne
               /\ pcW' = "unlock"
               /\ UNCHANGED <<mutex, can_work, job, result, joinable, pcM,
                              seen, spurious>>

WorkerUnlock == /\ pcW \in {"unlock", "exit"}
                /\ Release(Worker)
                /\ pcW' = IF pcW = "exit" THEN "exited" ELSE "lock"
                /\ UNCHANGED <<waiting, has_work, can_work, job, result,
                               joinable, pcM, seen, spurious>>

WorkerStep == \/ WorkerLock \/ WorkerCheck \/ WorkerWake
              \/ WorkerRun \/ WorkerClear \/ WorkerUnlock

(* A condition variable may wake a thread that nobody notified. *)
Spurious == /\ spurious < MaxSpurious
            /\ \E t \in waiting : waiting' = waiting \ {t}
            /\ spurious' = spurious + 1
            /\ UNCHANGED <<mutex, has_work, can_work, job, result, joinable,
                           pcM, pcW, seen>>

(* The stream is destroyed and its thread is gone: nothing is left to do. *)
Gone == pcM = "gone" /\ UNCHANGED vars

Next == \/ CallStart \/ CallRun \/ CallFinish \/ CallStop
        \/ MainStep \/ WorkerStep \/ Spurious \/ Gone

Fairness == WF_vars(MainStep) /\ WF_vars(WorkerStep)

Spec == Init /\ [][Next]_vars
FairSpec == Spec /\ Fairness
-----------------------------------------------------------------------------
TypeOK == /\ mutex \in Thread \cup {Free}
          /\ waiting \subseteq Thread
          /\ has_work \in BOOLEAN
          /\ can_work \in BOOLEAN
          /\ job \in Jobs \cup {NoJob}
          /\ result \in Jobs \cup {NoJob}
          /\ joinable \in BOOLEAN
          /\ pcM \in MainPC
          /\ pcW \in WorkerPC
          /\ seen \in Jobs \cup {NoJob}
          /\ spurious \in 0..MaxSpurious

(* Program points at which a thread owns the mutex. *)
MainCritical   == {"start.body", "start.unlock", "run.body", "run.unlock",
                   "finish.check", "finish.unlock", "stop.body", "stop.unlock"}
WorkerCritical == {"check", "work", "clear", "unlock", "exit"}

(* A thread owns the mutex exactly at its critical program points, so stage *)
(* 1 never runs while Main reads or writes the job, the flags or the result *)
(* under the lock.                                                          *)
OwnsMutex == /\ mutex = Main <=> pcM \in MainCritical
             /\ mutex = Worker <=> pcW \in WorkerCritical

(* No wake-up is lost although both directions share one condition variable *)
(* and notify with notify_one: a thread that sleeps un-notified has nothing *)
(* to do.                                                                   *)
NoLostWakeup == /\ Worker \in waiting => pcW = "wait" /\ ~has_work /\ can_work
                /\ Main \in waiting => pcM = "finish.wait" /\ has_work

(* When finish() returns, stage 1 has run on the job of the latest run():   *)
(* also after a second run() that came before the first one was finished.   *)
FinishSeesLatest == pcM = "finish.unlock" => result = job

(* After the destructor, no thread is left that could touch the stream, and *)
(* nobody sleeps on the destroyed condition variable.                       *)
GoneIsQuiet == pcM = "gone" => pcW \in {"none", "exited"} /\ waiting = {}

(* Once stop_thread cleared can_work, stage 1 does not run any more: the    *)
(* destructor withdraws a job that had not started.                         *)
NoWorkAfterStop == [][~can_work => result' = result]_vars

(* A job is not replaced under the worker: what run() hands over stays as   *)
(* it is from the moment the worker commits to it until it clears has_work. *)
JobStable == [][(pcW \in {"work", "clear"} /\ pcW' # "unlock")
                  => (job' = job /\ has_work' = has_work)]_vars

(* finish() and the destructor always return. *)
FinishReturns == pcM = "finish.lock" ~> pcM = "idle"
StopReturns   == pcM = "stop.lock" ~> pcM = "gone"

(* The protocol implements the one-job mailbox a stream expects. *)
Contract == INSTANCE WorkerContract
              WITH posted <- IF has_work /\ pcW # "clear" THEN job ELSE NoJob,
                   outcome <- result, open <- can_work, collected <- seen
ImplementsContract == Contract!Spec
=============================================================================
