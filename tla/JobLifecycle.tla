---------------------------- MODULE JobLifecycle ----------------------------
(***************************************************************************)
(* What the job queue promises to whoever sends a job, without workers,    *)
(* claims, timeouts or a clock: a job stays to be done until a run of its  *)
(* handler succeeds (done) or fails for the last time its retry limit      *)
(* allows (dead); a dead job may be revived by an operator, a done one is  *)
(* done for good.                                                          *)
(***************************************************************************)
EXTENDS Naturals

CONSTANTS Job,     \* the jobs
          Limits   \* the retry limits jobs are sent with

VARIABLES phase,   \* "absent", "todo", "done" or "dead"
          limit,   \* the job's retry limit
          tries    \* failed runs that were followed by a retry

LifeTypeOK ==
    /\ phase \in [Job -> {"absent", "todo", "done", "dead"}]
    /\ limit \in [Job -> Limits \cup {0}]
    /\ tries \in [Job -> Nat]

LifeInit ==
    /\ phase = [j \in Job |-> "absent"]
    /\ limit = [j \in Job |-> 0]
    /\ tries = [j \in Job |-> 0]

Submit(j) ==
    /\ phase[j] = "absent"
    /\ phase' = [phase EXCEPT ![j] = "todo"]
    /\ \E n \in Limits : limit' = [limit EXCEPT ![j] = n]
    /\ UNCHANGED tries

Succeed(j) ==
    /\ phase[j] = "todo"
    /\ phase' = [phase EXCEPT ![j] = "done"]
    /\ UNCHANGED <<limit, tries>>

FailAndRetry(j) ==
    /\ phase[j] = "todo"
    /\ tries[j] < limit[j]
    /\ tries' = [tries EXCEPT ![j] = @ + 1]
    /\ UNCHANGED <<phase, limit>>

DeadLetter(j) ==
    /\ phase[j] = "todo"
    /\ tries[j] = limit[j]
    /\ phase' = [phase EXCEPT ![j] = "dead"]
    /\ UNCHANGED <<limit, tries>>

Revive(j) ==
    /\ phase[j] = "dead"
    /\ phase' = [phase EXCEPT ![j] = "todo"]
    /\ UNCHANGED <<limit, tries>>

LifeNext ==
    \E j \in Job : \/ Submit(j) \/ Succeed(j) \/ FailAndRetry(j)
                   \/ DeadLetter(j) \/ Revive(j)

LifeSpec == LifeInit /\ [][LifeNext]_<<phase, limit, tries>>
=============================================================================
