----------------------------- MODULE JobServer -----------------------------
(***************************************************************************)
(* A job of the server from its submission to its final status: the        *)
(* pipeline it runs, the cancel request and the reaper                     *)
(* (crates/flume-server/src/api/handlers.rs, job.rs and                    *)
(* crates/flume-api/src/environment.rs).                                   *)
(*                                                                         *)
(* The job's factory connects the job's token to the scheduler's and runs  *)
(* the pipeline; its task is finished when add_sink returned.  The server  *)
(* state is behind one mutex: every handler is one step.                   *)
(***************************************************************************)
EXTENDS Pipeline

VARIABLES
  status,      (* the JobStatus of the handle                               *)
  token        (* the handle's cancel_token                                 *)

jobVars == <<status, token>>
serverVars == <<vars, jobVars>>

Terminal == {"completed", "cancelled", "failed"}
Finished == sink \in {"ok", "err"}

(* submit_job: the task is spawned and its handle kept. *)
JobInit ==
  /\ Init
  /\ status = "running"
  /\ token = FALSE

(* cancel_job: refused for a terminal job, allowed again for one that is   *)
(* being cancelled; it does not look at the task.                           *)
CancelJob ==
  /\ status \notin Terminal
  /\ token' = TRUE
  /\ status' = "cancelling"
  /\ UNCHANGED vars

(* connect_cancel_token: a task waits for the one token and cancels the    *)
(* other.                                                                   *)
BridgeCancel ==
  /\ token
  /\ RequestCancel
  /\ UNCHANGED jobVars

(* Mutant: the status is told from the token alone, as job_reaper does. *)
Outcome_ByToken == IF token THEN "cancelled" ELSE "completed"

Outcome ==
  IF sink = "err" THEN "failed" ELSE IF token THEN "cancelled" ELSE "completed"

(* Mutant: only running jobs are reaped. *)
Reap_Running ==
  /\ Finished
  /\ status = "running"
  /\ status' = Outcome
  /\ UNCHANGED <<vars, token>>

(* reap_finished_jobs *)
Reap ==
  /\ Finished
  /\ status \notin Terminal
  /\ status' = Outcome
  /\ UNCHANGED <<vars, token>>

JobStep(A) == A /\ UNCHANGED jobVars

JobNext ==
  \/ CancelJob
  \/ BridgeCancel
  \/ Reap
  \/ JobStep(Yield)
  \/ JobStep(Drainer)
  \/ \E k \in Ops : JobStep(Task(k))
  \/ JobStep(Sink)

JobSpec == JobInit /\ [][JobNext]_serverVars

(* The tasks, the bridge and the reaper's timer are scheduled; the source  *)
(* may wait for input forever.                                              *)
TaskFairSpec ==
  /\ JobSpec
  /\ WF_serverVars(JobStep(Drainer)) /\ WF_serverVars(JobStep(Sink))
  /\ \A k \in Ops : WF_serverVars(JobStep(Task(k)))
  /\ WF_serverVars(BridgeCancel) /\ WF_serverVars(Reap)

(* The same with a source that always answers in the end. *)
JobFairSpec == TaskFairSpec /\ WF_serverVars(JobStep(Yield))

-----------------------------------------------------------------------------
(* Type correctness. *)
JobTypeOK ==
  /\ TypeOK
  /\ status \in {"running", "cancelling"} \cup Terminal
  /\ token \in BOOLEAN

(* Ok means all: when add_sink returned Ok, and so when the job is reported *)
(* completed, the result of every element the source yielded reached the   *)
(* sink.  A failure of any task is covered up neither as a completion nor  *)
(* as a cancellation (scheduler.rs line 62, handlers.rs lines 228-243).     *)
StatusIsTrue ==
  /\ OkMeansAll
  /\ status = "completed" => sink = "ok" /\ ~token
  /\ status = "cancelled" => token /\ \A k \in Ops : task[k] # "err"
  /\ status = "failed" => sink = "err"

(* Every job of a source that ends gets a terminal status and keeps it:    *)
(* whichever task dies, the others find their channels closed, nobody      *)
(* waits forever, and no cancel request comes too late to be refused       *)
(* (scheduler.rs line 67, handlers.rs lines 111 and 222).                   *)
JobEnds == <>[](status \in Terminal)

(* "Run the hot loop until the input channel is closed or cancellation is  *)
(* requested" (task.rs line 63).  It fails under TaskFairSpec: the drainer  *)
(* waits for a silent source and holds the channels open.                   *)
CancelEnds == token ~> Finished
=============================================================================
