----------------------------- MODULE PrintQueue -----------------------------
(***************************************************************************)
(* The queue of the jobs a printer is handed.  Several callers deliver at  *)
(* once; a write that failed may have printed all the same, so nothing is  *)
(* written again before somebody asks for it.                              *)
(***************************************************************************)
EXTENDS Naturals, Sequences

CONSTANTS JobIds,
          MaxAttempts  \* maxAttempts: the writes of a job

ASSUME PrintAssumption == MaxAttempts \in Nat \ {0}

VARIABLES
  jobs,    \* the jobs in the order they came
  writing, \* writes the port has not answered, and whether they printed
  paper    \* for each job, the writes that printed, failed and succeeded

printVars == <<jobs, writing, paper>>

\* The job is there already: nothing changes.
Enqueue(id) ==
  /\ \A j \in DOMAIN jobs : jobs[j].id # id
  /\ jobs' = Append(jobs, [id |-> id, status |-> "pending", attempts |-> 0])
  /\ UNCHANGED <<writing, paper>>

\* Mutant: a job being written may be chosen again.
InFlight_Never(j) == FALSE

InFlight(j) == \E write \in writing : write.job = j

Waits(j) == jobs[j].status = "pending" /\ ~ InFlight(j)

\* deliverNext: the oldest that waits.
DeliverNext ==
  \E j \in DOMAIN jobs :
    /\ Waits(j)
    /\ \A k \in 1 .. j - 1 : ~ Waits(k)
    /\ jobs' = [jobs EXCEPT ![j].attempts = @ + 1]
    /\ writing' = writing \union
         {[job |-> j, attempt |-> jobs[j].attempts + 1, printed |-> FALSE]}
    /\ UNCHANGED paper

\* The bytes reach the paper before the answer comes.
Prints(write) ==
  /\ ~ write.printed
  /\ writing' = (writing \ {write}) \union {[write EXCEPT !.printed = TRUE]}
  /\ paper' = [paper EXCEPT ![jobs[write.job].id].printed = @ + 1]
  /\ UNCHANGED jobs

WriteEnds(write, status) ==
  /\ writing' = writing \ {write}
  /\ jobs' = [jobs EXCEPT ![write.job].status = status]

Written(write) ==
  /\ write.printed
  /\ WriteEnds(write, "delivered")
  /\ paper' = [paper EXCEPT ![jobs[write.job].id].delivered = @ + 1]

\* Printed or not.
WriteFails(write) ==
  /\ WriteEnds(write, "failed")
  /\ paper' = [paper EXCEPT ![jobs[write.job].id].failed = @ + 1]

MayRetry(job) == job.status = "failed" /\ job.attempts < MaxAttempts

RetryPrint(j) ==
  /\ MayRetry(jobs[j])
  /\ jobs' = [jobs EXCEPT ![j].status = "pending"]
  /\ UNCHANGED <<writing, paper>>

PrintInit ==
  /\ jobs = <<>>
  /\ writing = {}
  /\ paper = [id \in JobIds |-> [printed |-> 0, failed |-> 0, delivered |-> 0]]

PrintNext ==
  \/ \E id \in JobIds : Enqueue(id)
  \/ DeliverNext
  \/ \E write \in writing : Prints(write) \/ Written(write) \/ WriteFails(write)
  \/ \E j \in DOMAIN jobs : RetryPrint(j)

PrintSpec == PrintInit /\ [][PrintNext]_printVars
=============================================================================
