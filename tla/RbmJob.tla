------------------------------- MODULE RbmJob -------------------------------
(***************************************************************************)
(* What the RBM accelerator promises for a job: it trains its weights on   *)
(* every training record, in order, as many times as the job has loops,    *)
(* then predicts with every test record, in order, using those weights.    *)
(* Weights are identified with the sequence of records they were learnt    *)
(* from. Where the host has put the test records is a parameter: the       *)
(* repository gives two answers (see TestPlace in RbmAccel).               *)
(***************************************************************************)
EXTENDS Integers, Sequences

CONSTANTS Configs, \* the jobs: records of users, loops and tests
          NoJob,
          TestPlace(_, _) \* the place of a job's test record j

VARIABLES job, weights, results
jvars == <<job, weights, results>>

JInit == job = NoJob /\ weights = <<>> /\ results = <<>>

Begin ==
  /\ job = NoJob
  /\ job' \in Configs
  /\ weights' = <<>> /\ results' = <<>>

Trained == Len(weights) = job.users * job.loops

TrainOne ==
  /\ job # NoJob /\ ~Trained
  /\ weights' = Append(weights, Len(weights) % job.users)
  /\ UNCHANGED <<job, results>>

PredictOne ==
  /\ job # NoJob /\ Trained /\ Len(results) < job.tests
  /\ results' = Append(results, [at |-> Len(results),
                                 what |-> [rec |-> TestPlace(job, Len(results)), edges |-> weights]])
  /\ UNCHANGED <<job, weights>>

Abandon == job' = NoJob /\ weights' = <<>> /\ results' = <<>>

JNext == Begin \/ TrainOne \/ PredictOne \/ Abandon

JSpec == JInit /\ [][JNext]_jvars
JFairSpec == JSpec /\ WF_jvars(TrainOne) /\ WF_jvars(PredictOne)
=============================================================================
