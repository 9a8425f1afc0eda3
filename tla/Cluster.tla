------------------------------ MODULE Cluster ------------------------------
(***************************************************************************)
(* The JobManager and its TaskManagers: registration, heartbeats and the   *)
(* deployment of jobs (crates/flume-server/src/jm.rs and tm.rs,            *)
(* crates/flume-network/src/resource_manager.rs, jm_service.rs and         *)
(* tm_service.rs).                                                         *)
(*                                                                         *)
(* A TaskManager process is told by its boot, which also stands for the    *)
(* address it registers (the port is chosen anew by every process).  A     *)
(* call is a request that may be lost, handled by the callee at some later *)
(* time, and a response.  Processes crash and are started again.           *)
(***************************************************************************)
EXTENDS Integers, Sequences, SlotManager, PhysicalPlan, TLC

CONSTANTS
  TMs,           (* TaskManager ids                                         *)
  NumSlots,      (* [TMs -> Nat], num_slots of the configuration            *)
  Jobs,          (* the ids of the jobs to deploy                           *)
  NameOf,        (* [Jobs -> STRING]: the job name                          *)
  Parallelism,   (* [Jobs -> Nat]                                           *)
  MaxFaults      (* bound: crashes, failed calls, cancellations, together   *)

ASSUME ClusterAssumption ==
  /\ NumSlots \in [TMs -> Nat]
  /\ Parallelism \in [Jobs -> Nat]
  /\ MaxFaults \in Nat
  /\ Free.job \notin Jobs   (* a variant of SlotState, not a name *)

VARIABLES
  boot,       (* boot[t]: which process of TaskManager t this is            *)
  up,         (* the TaskManagers whose process runs and has registered     *)
  sm,         (* sm[t]: its SlotManager                                     *)
  rm,         (* rm[t]: the ResourceManager's entry of t, or Unknown        *)
  beats,      (* heartbeat requests under way                               *)
  job,        (* job[j]: the deploy_job call of job j                       *)
  faults,     (* how many of the bounded disturbances there were            *)
  accepted    (* history: accepted[j], <<t, boot, subtask>> t answered yes  *)

tmVars == <<boot, up, sm>>
vars == <<tmVars, rm, beats, job, faults, accepted>>

Unknown == [boot |-> 0, used |-> 0]
Known(t) == rm[t] # Unknown

(* todo: what is still to be sent to each TaskManager of the plan; target: *)
(* the one whose client is connected; call: the deploy call under way.     *)
NoCall == "none"
NotDeployed ==
  [stage |-> "new", todo |-> [t \in TMs |-> <<>>], address |-> [t \in TMs |-> 0],
   target |-> NoCall, call |-> NoCall, deployed |-> 0]

Init ==
  /\ boot = [t \in TMs |-> 0]
  /\ up = {}
  /\ sm = [t \in TMs |-> NewSlots(NumSlots[t])]
  /\ rm = [t \in TMs |-> Unknown]
  /\ beats = {}
  /\ job = [j \in Jobs |-> NotDeployed]
  /\ faults = 0
  /\ accepted = [j \in Jobs |-> {}]

-----------------------------------------------------------------------------
(* TaskManager processes and their heartbeats. *)

(* run_task_manager: a new process registers; the entry of an older one is *)
(* replaced.                                                                *)
Register(t) ==
  /\ t \notin up
  /\ boot' = [boot EXCEPT ![t] = @ + 1]
  /\ up' = up \cup {t}
  /\ sm' = [sm EXCEPT ![t] = NewSlots(NumSlots[t])]
  /\ rm' = [rm EXCEPT ![t] = [boot |-> boot[t] + 1, used |-> 0]]
  /\ UNCHANGED <<beats, job, faults, accepted>>

(* One of the disturbances the bound counts. *)
Disturb ==
  /\ faults < MaxFaults
  /\ faults' = faults + 1

(* The process is gone, killed or told to stop; the JobManager's entry     *)
(* stays.                                                                   *)
Stop(t) ==
  /\ up' = up \ {t}
  /\ sm' = [sm EXCEPT ![t] = NewSlots(NumSlots[t])]

Crash(t) ==
  /\ Disturb
  /\ t \in up
  /\ Stop(t)
  /\ UNCHANGED <<boot, rm, beats, job, accepted>>

Own(t) == {b \in beats : b.tm = t /\ b.boot = boot[t]}

(* A tick: the counts are read under the lock, the call is made after it.  *)
SendHeartbeat(t) ==
  /\ t \in up
  /\ Own(t) = {}
  /\ beats' = beats \cup {[tm |-> t, boot |-> boot[t], used |-> InUse(sm[t])]}
  /\ UNCHANGED <<tmVars, rm, job, faults, accepted>>

(* Mutant: only the timestamp is refreshed. *)
HandleHeartbeat_TimeOnly(b) ==
  /\ beats' = beats \ {b}
  /\ rm' = rm
  /\ IF ~Known(b.tm) /\ b.boot = boot[b.tm] /\ b.tm \in up
     THEN Stop(b.tm) ELSE UNCHANGED <<up, sm>>
  /\ UNCHANGED <<boot, job, faults, accepted>>

(* The JobManager handles a heartbeat and answers; a sender it does not    *)
(* know, if it still runs, stops.  The request of a crashed process may be *)
(* handled after the next one registered.                                   *)
HandleHeartbeat(b) ==
  /\ beats' = beats \ {b}
  /\ rm' = IF Known(b.tm) THEN [rm EXCEPT ![b.tm].used = b.used] ELSE rm
  /\ IF ~Known(b.tm) /\ b.boot = boot[b.tm] /\ b.tm \in up
     THEN Stop(b.tm) ELSE UNCHANGED <<up, sm>>
  /\ UNCHANGED <<boot, job, faults, accepted>>

(* The call fails: logged, and sent again at the next tick. *)
LoseHeartbeat(b) ==
  /\ Disturb
  /\ beats' = beats \ {b}
  /\ UNCHANGED <<tmVars, rm, job, accepted>>

-----------------------------------------------------------------------------
(* deploy_job. *)

SubtaskName(j, index) == NameOf[j] \o "-source-" \o ToString(index)

(* Different numbers are written differently, and a name is told from what *)
(* "call" says otherwise.                                                   *)
ASSUME NamesAssumption ==
  \A j \in Jobs : \A i, k \in 0..(Parallelism[j] - 1) :
    /\ SubtaskName(j, i) = SubtaskName(j, k) => i = k
    /\ SubtaskName(j, i) \notin {NoCall, "yes", "no"}

Offers(order) ==
  [k \in DOMAIN order |->
     [tm |-> order[k], total |-> NumSlots[order[k]], used |-> rm[order[k]].used]]

JobGraph(j) == AddNode(EmptyGraph, NameOf[j], Parallelism[j])

(* The subtasks a plan gives to t, in its order. *)
GroupFor(t, j, assignments) ==
  LET mine == Keep(assignments, {a \in Range(assignments) : a.tm = t})
  IN  [n \in DOMAIN mine |-> SubtaskName(j, mine[n].subtask.index)]

(* Offers, plan and grouping under the locks; the offers come in the order *)
(* of a HashMap.  The calls are made after the locks are released.         *)
PlanJob(j) ==
  /\ job[j].stage = "new"
  /\ \E order \in SetToSeqs({t \in TMs : Known(t)}) :
       LET plan == Schedule(JobGraph(j), Offers(order), "spread")
           grouped == [t \in TMs |-> GroupFor(t, j, plan.assignments)]
           refused == order = <<>> \/ plan.outcome # "ok"
       IN  job' = [job EXCEPT ![j] =
                     [@ EXCEPT !.stage = IF refused THEN "refused" ELSE "deploying",
                               !.todo = grouped,
                               !.address = [t \in TMs |-> rm[t].boot]]]
  /\ UNCHANGED <<tmVars, rm, beats, faults, accepted>>

Deploying(j) == job[j].stage = "deploying"
Answers(j, t) == t \in up /\ boot[t] = job[j].address[t]

(* The next deploy call to the connected TaskManager, if there is one. *)
NextCall(j, t) ==
  LET rest == job[j].todo[t] IN
  IF rest = <<>>
  THEN [job[j] EXCEPT !.target = NoCall, !.call = NoCall]
  ELSE [job[j] EXCEPT !.target = t, !.call = Head(rest),
                      !.todo = [job[j].todo EXCEPT ![t] = Tail(rest)]]

(* TmClient::connect to one of the addresses and the first call; all its   *)
(* subtasks are skipped when it fails.                                      *)
Connect(j, t) ==
  /\ Deploying(j)
  /\ job[j].target = NoCall
  /\ job[j].todo[t] # <<>>
  /\ job' = [job EXCEPT ![j] =
               IF Answers(j, t) THEN NextCall(j, t)
               ELSE [job[j] EXCEPT !.todo = [job[j].todo EXCEPT ![t] = <<>>]]]
  /\ UNCHANGED <<tmVars, rm, beats, faults, accepted>>

(* The TaskManager's event loop deploys the subtask or has no free slot. *)
HandleDeploy(j) ==
  LET t == job[j].target
      subtask == job[j].call
  IN
  /\ Deploying(j)
  /\ subtask \notin {NoCall, "yes", "no"}
  /\ Answers(j, t)
  /\ IF IsFull(sm[t])
     THEN /\ job' = [job EXCEPT ![j] = [@ EXCEPT !.call = "no"]]
          /\ UNCHANGED <<sm, accepted>>
     ELSE /\ job' = [job EXCEPT ![j] = [@ EXCEPT !.call = "yes"]]
          /\ sm' = [sm EXCEPT ![t] = Deploy(@, j, subtask)]
          /\ accepted' = [accepted EXCEPT ![j] = @ \cup {<<t, boot[t], subtask>>}]
  /\ UNCHANGED <<boot, up, rm, beats, faults>>

Counted(j, n) ==
  LET next == NextCall(j, job[j].target)
  IN  job' = [job EXCEPT ![j] = [next EXCEPT !.deployed = next.deployed + n]]

(* Mutant: every answer counts. *)
DeployAnswered_CountAll(j) ==
  /\ Deploying(j)
  /\ job[j].call \in {"yes", "no"}
  /\ Counted(j, 1)
  /\ UNCHANGED <<tmVars, rm, beats, faults, accepted>>

DeployAnswered(j) ==
  /\ Deploying(j)
  /\ job[j].call \in {"yes", "no"}
  /\ Counted(j, IF job[j].call = "yes" THEN 1 ELSE 0)
  /\ UNCHANGED <<tmVars, rm, beats, faults, accepted>>

(* The call fails before or after it was handled: logged and skipped.  It  *)
(* does fail when its TaskManager is gone.                                  *)
DeployFails(j) ==
  /\ Deploying(j)
  /\ job[j].call # NoCall
  /\ Counted(j, 0)
  /\ IF Answers(j, job[j].target) THEN Disturb ELSE UNCHANGED faults
  /\ UNCHANGED <<tmVars, rm, beats, accepted>>

(* Ok(deployed), whatever was rejected or failed. *)
JobDeployed(j) ==
  /\ Deploying(j)
  /\ job[j].target = NoCall
  /\ \A t \in TMs : job[j].todo[t] = <<>>
  /\ job' = [job EXCEPT ![j] = [@ EXCEPT !.stage = "returned"]]
  /\ UNCHANGED <<tmVars, rm, beats, faults, accepted>>

-----------------------------------------------------------------------------
(* A cancel_subtask call, whoever makes it. *)
CancelSubtask(t, subtask) ==
  /\ Disturb
  /\ t \in up
  /\ subtask \in DOMAIN sm[t].slotOf
  /\ sm' = [sm EXCEPT ![t] = Cancel(@, subtask)]
  /\ UNCHANGED <<boot, up, rm, beats, job, accepted>>

(* A new JobManager knows nobody; the deployments of the old one are gone, *)
(* with what they already sent.                                             *)
JmRestart ==
  /\ Disturb
  /\ rm' = [t \in TMs |-> Unknown]
  /\ job' = [j \in Jobs |->
               IF Deploying(j) THEN [NotDeployed EXCEPT !.stage = "lost"] ELSE job[j]]
  /\ UNCHANGED <<tmVars, beats, accepted>>

-----------------------------------------------------------------------------
Heartbeat(t) == \E b \in Own(t) : HandleHeartbeat(b)
Deployment(j) ==
  \/ \E t \in TMs : Connect(j, t)
  \/ HandleDeploy(j) \/ DeployAnswered(j)
  \/ DeployFails(j) \/ JobDeployed(j)

Next ==
  \/ \E t \in TMs : Register(t) \/ Crash(t) \/ SendHeartbeat(t)
  \/ \E b \in beats : HandleHeartbeat(b) \/ LoseHeartbeat(b)
  \/ \E j \in Jobs : PlanJob(j) \/ Deployment(j)
  \/ \E t \in TMs : \E subtask \in DOMAIN sm[t].slotOf : CancelSubtask(t, subtask)
  \/ JmRestart

Spec == Init /\ [][Next]_vars

(* Heartbeats go on while a TaskManager runs, and not every one of them is *)
(* lost.                                                                    *)
FairSpec ==
  /\ Spec
  /\ \A t \in TMs : WF_vars(SendHeartbeat(t)) /\ SF_vars(Heartbeat(t))

-----------------------------------------------------------------------------
Stages == {"new", "refused", "deploying", "returned", "lost"}

(* Type correctness. *)
TypeOK ==
  /\ boot \in [TMs -> Nat]
  /\ up \subseteq TMs
  /\ \A t \in TMs : /\ DOMAIN sm[t].slots = 0..(NumSlots[t] - 1)
                    /\ \A s \in DOMAIN sm[t].slotOf : sm[t].slotOf[s] \in DOMAIN sm[t].slots
  /\ rm \in [TMs -> [boot : Nat, used : Nat]]
  /\ \A b \in beats : b.tm \in TMs /\ b.boot \in 1..boot[b.tm]
  /\ \A j \in Jobs : /\ job[j].stage \in Stages
                     /\ job[j].deployed \in 0..Parallelism[j]
                     /\ job[j].target \in TMs \cup {NoCall}

(* Concurrent deployments, replays and cancellations never mix up a        *)
(* TaskManager's slots: the map leads every subtask to a slot that it, and *)
(* no other, occupies, so a cancel frees the slot of its own subtask        *)
(* (slot_manager.rs lines 50-75).                                           *)
SlotsConsistent == \A t \in TMs : Consistent(sm[t])

(* Usage reports never exceed the slots they are subtracted from, also a   *)
(* report of an earlier process that arrives late: no slot offer underflows *)
(* (resource_manager.rs line 23, physical.rs line 83).                      *)
OffersFit ==
  /\ \A t \in TMs : rm[t].used <= NumSlots[t]
  /\ \A b \in beats : b.used <= NumSlots[b.tm]

(* What deploy_job returns is true: at least that many subtasks of the job *)
(* were accepted, and when it equals the parallelism, each subtask was     *)
(* (jm.rs line 195).                                                        *)
CountIsTrue ==
  \A j \in Jobs :
    LET names == {a[3] : a \in accepted[j]} IN
    job[j].stage = "returned" =>
      /\ job[j].deployed <= Cardinality(names)
      /\ job[j].deployed = Parallelism[j] =>
           names = {SubtaskName(j, i) : i \in 0..(Parallelism[j] - 1)}

(* The JobManager's view follows: once the disturbances are over it knows  *)
(* every TaskManager that runs, and how many of its slots are in use.  One *)
(* that a new JobManager does not know does not run on with its subtasks:  *)
(* it stops (tm.rs lines 92-117) until it is started again.                *)
ViewConverges ==
  \A t \in TMs : <>[](t \in up => Known(t) /\ rm[t].used = InUse(sm[t]))

(* "Number of slots currently in use" (slot_manager.rs line 38). *)
InUseIsOccupied ==
  \A t \in TMs : InUse(sm[t]) = Cardinality(OccupiedIndices(sm[t]))
=============================================================================
