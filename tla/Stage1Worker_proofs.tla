------------------------ MODULE Stage1Worker_proofs -------------------------
(***************************************************************************)
(* Proofs about the worker protocol, for any set of jobs and any number of *)
(* spurious wake-ups.                                                      *)
(***************************************************************************)
EXTENDS Stage1Worker, TLAPS

(* Where the two threads can be: run and finish happen after start_thread, *)
(* can_work is FALSE exactly from stop_thread's body on, and the worker    *)
(* commits to a job, and to leaving, only on the flags it saw.             *)
Phases == /\ ~can_work <=> pcM \in {"stop.unlock", "stop.join", "gone"}
          /\ pcM \in {"run.lock", "run.body", "run.unlock", "start.unlock",
                      "finish.lock", "finish.check", "finish.wait",
                      "finish.unlock"} => joinable
          /\ pcW # "none" => joinable \/ pcM = "gone"
          /\ joinable => pcW # "none"
          /\ pcM = "gone" => pcW \in {"none", "exited"}
          /\ pcW = "work" => has_work /\ can_work
          /\ pcW = "clear" => has_work /\ can_work /\ result = job
          /\ pcW \in {"exit", "exited"} => ~can_work
          /\ pcM = "finish.unlock" => ~has_work
          /\ has_work => job \in Jobs

(* With no work left, the result is that of the latest job. *)
Settled == ~has_work /\ can_work => result = job

IInv == TypeOK /\ OwnsMutex /\ NoLostWakeup /\ Phases /\ Settled
        /\ FinishSeesLatest

LEMMA InitIInv == Init => IInv
<1> SUFFICES ASSUME Init
             PROVE  IInv
  OBVIOUS
<1> USE DEF Init, Thread, Main, Worker, Free
<1>1. TypeOK
  <2>1. spurious \in 0..MaxSpurious
    BY WorkerAssumption
  <2>2. QED
    BY <2>1, Zenon DEF TypeOK, MainPC, WorkerPC
<1>2. OwnsMutex
  BY DEF OwnsMutex, MainCritical, WorkerCritical
<1>3. NoLostWakeup /\ Phases /\ Settled /\ FinishSeesLatest
  BY DEF NoLostWakeup, Phases, Settled, FinishSeesLatest
<1>4. QED
  BY <1>1, <1>2, <1>3 DEF IInv

LEMMA NextIInv == IInv /\ [Next]_vars => IInv'
<1> SUFFICES ASSUME IInv, [Next]_vars
             PROVE  IInv'
  OBVIOUS
<1> USE WorkerAssumption
    DEF IInv, TypeOK, OwnsMutex, NoLostWakeup, Phases, Settled,
        FinishSeesLatest, Thread, Main, Worker, Free, MainPC, WorkerPC,
        MainCritical, WorkerCritical, Acquire, Release
<1>1. CASE CallStart \/ CallRun \/ CallFinish \/ CallStop
  <2>1. CASE CallStart
    BY <2>1 DEF CallStart, Call
  <2>2. CASE CallRun
    BY <2>2 DEF CallRun, Call
  <2>3. CASE CallFinish
    BY <2>3 DEF CallFinish, Call
  <2>4. CASE CallStop
    BY <2>4 DEF CallStop, Call
  <2>5. QED
    BY <1>1, <2>1, <2>2, <2>3, <2>4
<1>2. CASE MainLock
  <2>1. CASE LockFor("start.lock", "start.body")
    BY <2>1 DEF LockFor
  <2>2. CASE LockFor("run.lock", "run.body")
    BY <2>2 DEF LockFor
  <2>3. CASE LockFor("finish.lock", "finish.check")
    BY <2>3 DEF LockFor
  <2>4. CASE LockFor("stop.lock", "stop.body")
    BY <2>4 DEF LockFor
  <2>5. QED
    BY <1>2, <2>1, <2>2, <2>3, <2>4 DEF MainLock
<1>3. CASE MainUnlock
  <2>1. CASE UnlockTo("start.unlock", "idle")
    BY <2>1 DEF UnlockTo
  <2>2. CASE UnlockTo("run.unlock", "idle")
    BY <2>2 DEF UnlockTo
  <2>3. CASE UnlockTo("stop.unlock", "stop.join")
    BY <2>3 DEF UnlockTo
  <2>4. QED
    BY <1>3, <2>1, <2>2, <2>3 DEF MainUnlock
<1>4. CASE StartBody
  BY <1>4 DEF StartBody
<1>5. CASE RunBody
  BY <1>5 DEF RunBody, NotifyOne
<1>6. CASE FinishCheck
  BY <1>6 DEF FinishCheck
<1>7. CASE FinishWake
  BY <1>7 DEF FinishWake
<1>8. CASE FinishReturn
  BY <1>8 DEF FinishReturn
<1>9. CASE StopBody
  BY <1>9 DEF StopBody, NotifyAll
<1>10. CASE StopJoin
  BY <1>10 DEF StopJoin
<1>11. CASE WorkerLock
  BY <1>11 DEF WorkerLock
<1>12. CASE WorkerCheck
  BY <1>12, ZenonT(40) DEF WorkerCheck
<1>13. CASE WorkerWake
  BY <1>13 DEF WorkerWake
<1>14. CASE WorkerRun
  BY <1>14 DEF WorkerRun
<1>15. CASE WorkerClear
  BY <1>15 DEF WorkerClear, NotifyOne
<1>16. CASE WorkerUnlock
  BY <1>16 DEF WorkerUnlock
<1>17. CASE Spurious
  BY <1>17 DEF Spurious
<1>18. CASE UNCHANGED vars
  BY <1>18 DEF vars
<1>19. QED
  BY <1>1, <1>2, <1>3, <1>4, <1>5, <1>6, <1>7, <1>8, <1>9, <1>10, <1>11,
     <1>12, <1>13, <1>14, <1>15, <1>16, <1>17, <1>18
  DEF Next, MainStep, WorkerStep, Gone

(* The strengthened invariant holds in every reachable state. *)
THEOREM InvariantHolds == Spec => []IInv
  BY InitIInv, NextIInv, PTL DEF Spec

(* Type correctness of the worker protocol. *)
THEOREM TypeCorrect == Spec => []TypeOK
<1>1. IInv => TypeOK
  BY DEF IInv
<1>2. QED
  BY <1>1, InvariantHolds, PTL

(* Stage 1 and the calls of the stream exclude each other. *)
THEOREM MutualExclusion == Spec => []OwnsMutex
<1>1. IInv => OwnsMutex
  BY DEF IInv
<1>2. QED
  BY <1>1, InvariantHolds, PTL

(* One condition variable and notify_one are enough: no wake-up is lost. *)
THEOREM NoWakeupIsLost == Spec => []NoLostWakeup
<1>1. IInv => NoLostWakeup
  BY DEF IInv
<1>2. QED
  BY <1>1, InvariantHolds, PTL

(* finish() hands out the result of the latest run(). *)
THEOREM FinishIsCurrent == Spec => []FinishSeesLatest
<1>1. IInv => FinishSeesLatest
  BY DEF IInv
<1>2. QED
  BY <1>1, InvariantHolds, PTL

(* The destructor leaves no thread and no sleeper behind. *)
THEOREM DestructorIsQuiet == Spec => []GoneIsQuiet
<1>1. IInv => GoneIsQuiet
  BY DEF IInv, TypeOK, Thread, Phases, NoLostWakeup, GoneIsQuiet
<1>2. QED
  BY <1>1, InvariantHolds, PTL

-----------------------------------------------------------------------------
(* Stage 1 does not run once stop_thread has cleared can_work. *)
THEOREM StopWithdraws == Spec => NoWorkAfterStop
<1>1. IInv /\ [Next]_vars => [~can_work => result' = result]_vars
  BY DEF IInv, Phases, Next, CallStart, CallRun, CallFinish, CallStop, Call,
         MainStep, MainLock, LockFor, MainUnlock, UnlockTo, StartBody, RunBody,
         FinishCheck, FinishWake, FinishReturn, StopBody, StopJoin,
         WorkerStep, WorkerLock, WorkerCheck, WorkerWake, WorkerRun,
         WorkerClear, WorkerUnlock, Spurious, Gone, vars
<1>2. QED
  BY <1>1, InvariantHolds, PTL DEF Spec, NoWorkAfterStop

-----------------------------------------------------------------------------
(* Refinement: every step of the protocol is a step of the mailbox or      *)
(* leaves the mailbox as it is.                                            *)
LEMMA InitContract == Init => Contract!Init
  BY DEF Init, Contract!Init

LEMMA StepContract == IInv /\ [Next]_vars => [Contract!Next]_(Contract!cvars)
<1> SUFFICES ASSUME IInv, [Next]_vars
             PROVE  [Contract!Next]_(Contract!cvars)
  OBVIOUS
<1> USE DEF IInv, TypeOK, Phases, OwnsMutex, MainCritical, WorkerCritical,
            Main, Worker, Free, Contract!cvars
<1>1. CASE RunBody
  <2>1. PICK j \in Jobs : job' = j
    BY <1>1 DEF RunBody
  <2>2. Contract!Post(j)
    BY <1>1, <2>1 DEF RunBody, Contract!Post
  <2>3. QED
    BY <2>2 DEF Contract!Next
<1>2. CASE FinishReturn
  BY <1>2 DEF FinishReturn, Contract!Next, Contract!Collect
<1>3. CASE StopBody
  BY <1>3 DEF StopBody, Contract!Next, Contract!Close
<1>4. CASE WorkerRun
  BY <1>4, WorkerAssumption DEF WorkerRun, Contract!Next, Contract!Execute
<1>5. CASE WorkerClear
  BY <1>5 DEF WorkerClear
<1>6. CASE StartBody
  BY <1>6 DEF StartBody
<1>7. CASE MainLock \/ MainUnlock \/ FinishCheck \/ FinishWake \/ StopJoin
  BY <1>7 DEF MainLock, LockFor, MainUnlock, UnlockTo, FinishCheck,
              FinishWake, StopJoin
<1>8. CASE WorkerLock \/ WorkerCheck \/ WorkerWake \/ WorkerUnlock
  BY <1>8 DEF WorkerLock, WorkerCheck, WorkerWake, WorkerUnlock
<1>9. CASE CallStart \/ CallRun \/ CallFinish \/ CallStop
  BY <1>9 DEF CallStart, CallRun, CallFinish, CallStop, Call
<1>10. CASE Spurious \/ UNCHANGED vars
  BY <1>10 DEF Spurious, vars
<1>11. QED
  BY <1>1, <1>2, <1>3, <1>4, <1>5, <1>6, <1>7, <1>8, <1>9, <1>10
  DEF Next, MainStep, WorkerStep, Gone

(* The mutex, the condition variable and the two flags implement the       *)
(* one-job mailbox of WorkerContract.                                      *)
THEOREM WorkerImplementsContract == Spec => ImplementsContract
  BY InitContract, StepContract, InvariantHolds, PTL
  DEF Spec, ImplementsContract, Contract!Spec
=============================================================================
