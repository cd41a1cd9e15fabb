--------------------------- MODULE WorkerContract ---------------------------
(***************************************************************************)
(* What a document_stream expects of its stage-1 worker: a mailbox for one *)
(* job.  The stream posts a job, the worker executes the posted job, and a *)
(* collection waits until nothing is posted any more and then hands out    *)
(* the outcome of the last execution.  Closing the worker withdraws a job  *)
(* that was not executed, and nothing is executed afterwards.              *)
(*                                                                         *)
(* A job is the start of the batch to index (_next_batch_start); the       *)
(* outcome is the job whose stage-1 result sits in stage1_thread_parser.   *)
(***************************************************************************)
CONSTANTS Jobs,   \* the batches a stream may ask for
          NoJob   \* no batch: nothing posted, nothing executed yet

VARIABLES posted,    \* the job waiting for the worker, or NoJob
          outcome,   \* the job whose result is available, or NoJob
          open,      \* FALSE once the worker was told to stop
          collected  \* the job whose outcome the last collection returned

cvars == <<posted, outcome, open, collected>>

Init == /\ posted = NoJob
        /\ outcome = NoJob
        /\ open = TRUE
        /\ collected = NoJob

(* Posting replaces a job that has not been executed yet. *)
Post(j) == /\ open
           /\ posted' = j
           /\ UNCHANGED <<outcome, open, collected>>

Execute == /\ open
           /\ posted # NoJob
           /\ outcome' = posted
           /\ posted' = NoJob
           /\ UNCHANGED <<open, collected>>

Collect == /\ posted = NoJob
           /\ collected' = outcome
           /\ UNCHANGED <<posted, outcome, open>>

Close == /\ open
         /\ open' = FALSE
         /\ posted' = NoJob
         /\ UNCHANGED <<outcome, collected>>

Next == \/ \E j \in Jobs : Post(j)
        \/ Execute
        \/ Collect
        \/ Close

Spec == Init /\ [][Next]_cvars
=============================================================================
