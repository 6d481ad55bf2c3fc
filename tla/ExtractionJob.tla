---------------------------- MODULE ExtractionJob ----------------------------
(***************************************************************************)
(* What ExtractionOrchestrator.process_document promises of one call, and  *)
(* of the job record it keeps in Redis, without tiers, windows or cache:   *)
(*                                                                         *)
(*   - it makes at most MaxRetries attempts, and gives up only after all;  *)
(*   - when it returns a job, the record in Redis says what it returned;   *)
(*   - the record may say "failed" only after the last attempt, and may    *)
(*     say "completed" while the job still runs (a lost reply), never      *)
(*     before an attempt went through all the tiers.                       *)
(***************************************************************************)
EXTENDS Naturals

CONSTANTS
  Jobs,        \* calls of process_document
  MaxRetries   \* ExtractionOrchestrator.MAX_RETRIES

VARIABLES
  status,    \* of the call
  retries,   \* failed attempts
  shown      \* state in the job's record

jobVars == <<status, retries, shown>>

Running(j) == status[j] = "running"

JobInit ==
  /\ status = [j \in Jobs |-> "new"]
  /\ retries = [j \in Jobs |-> 0]
  /\ shown = [j \in Jobs |-> "none"]

\* The record is created; the call ends at once if Redis refuses it.
Begin(j) ==
  /\ status[j] = "new"
  /\ \/ /\ status' = [status EXCEPT ![j] = "running"]
        /\ shown' = [shown EXCEPT ![j] = "pending"]
     \/ /\ status' = [status EXCEPT ![j] = "raised"]
        /\ \E s \in {"none", "pending"} : shown' = [shown EXCEPT ![j] = s]
  /\ UNCHANGED retries

\* An attempt fails, whatever it wrote last.
FailAttempt(j) ==
  /\ Running(j)
  /\ retries[j] < MaxRetries
  /\ retries' = [retries EXCEPT ![j] = @ + 1]
  /\ \E s \in {"pending", "completed"} : shown' = [shown EXCEPT ![j] = s]
  /\ UNCHANGED status

\* A running attempt rewrites the record.
Show(j) ==
  /\ Running(j)
  /\ retries[j] < MaxRetries
  /\ \E s \in {"pending", "completed"} : shown' = [shown EXCEPT ![j] = s]
  /\ UNCHANGED <<status, retries>>

Complete(j) ==
  /\ Running(j)
  /\ retries[j] < MaxRetries
  /\ status' = [status EXCEPT ![j] = "completed"]
  /\ shown' = [shown EXCEPT ![j] = "completed"]
  /\ UNCHANGED retries

\* After the last attempt: the failure is recorded, or recording it fails too.
GiveUp(j) ==
  /\ Running(j)
  /\ retries[j] = MaxRetries
  /\ \/ /\ status' = [status EXCEPT ![j] = "failed"]
        /\ shown' = [shown EXCEPT ![j] = "failed"]
     \/ /\ status' = [status EXCEPT ![j] = "raised"]
        /\ \E s \in {shown[j], "failed"} : shown' = [shown EXCEPT ![j] = s]
  /\ UNCHANGED retries

\* The process running the call dies.
Die(j) ==
  /\ Running(j)
  /\ status' = [status EXCEPT ![j] = "dead"]
  /\ UNCHANGED <<retries, shown>>

JobNext ==
  \E j \in Jobs :
    Begin(j) \/ FailAttempt(j) \/ Show(j) \/ Complete(j) \/ GiveUp(j) \/ Die(j)

JobSpec == JobInit /\ [][JobNext]_jobVars
=============================================================================
