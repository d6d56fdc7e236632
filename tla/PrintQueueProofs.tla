-------------------------- MODULE PrintQueueProofs --------------------------
(***************************************************************************)
(* Proofs about PrintQueue: any number of jobs, callers and attempts.      *)
(***************************************************************************)
EXTENDS DeviceProperties, SequenceTheorems, TLAPS

\* What the queue and the paper hold.
PrintJobs == [id : JobIds, status : {"pending", "failed", "delivered"},
              attempts : Nat]

PaperCounts == [printed : Nat, failed : Nat, delivered : Nat]

PrintTypeOK ==
  /\ jobs \in Seq(PrintJobs)
  /\ writing \subseteq [job : DOMAIN jobs, attempt : Nat, printed : BOOLEAN]
  /\ paper \in [JobIds -> PaperCounts]

\* A job is in the queue once.
JobsDistinct ==
  \A j, k \in DOMAIN jobs : jobs[j].id = jobs[k].id => j = k

\* Jobs are begun in order, and only a job that was begun has an outcome.
JobsBegun ==
  \A j \in DOMAIN jobs :
    /\ jobs[j].attempts > 0 => \A k \in 1 .. j - 1 : jobs[k].attempts > 0
    /\ jobs[j].status # "pending" => jobs[j].attempts > 0

\* A job that waits to be written has an attempt left.
AttemptsLeft ==
  \A j \in DOMAIN jobs :
    /\ jobs[j].attempts <= MaxAttempts
    /\ Waits(j) => jobs[j].attempts < MaxAttempts

\* At most one write of a job is unanswered, and the job is pending meanwhile.
OneWrite ==
  /\ \A write \in writing :
       jobs[write.job].status = "pending" /\ jobs[write.job].attempts > 0
  /\ \A write, other \in writing : write.job = other.job => write = other

\* The paper of a job: nothing before it is queued; delivered as its status
\* says; a print more than failures only if its write has printed or succeeded.
PaperAgrees ==
  /\ \A id \in JobIds :
       (\A j \in DOMAIN jobs : jobs[j].id # id)
         => paper[id] = [printed |-> 0, failed |-> 0, delivered |-> 0]
  /\ \A j \in DOMAIN jobs :
       LET sheet == paper[jobs[j].id]
       IN /\ sheet.delivered = IF jobs[j].status = "delivered" THEN 1 ELSE 0
          /\ sheet.printed <= sheet.failed + 1
          /\ \/ sheet.printed <= sheet.failed
             \/ jobs[j].status = "delivered"
             \/ \E write \in writing : write.job = j /\ write.printed

\* The inductive invariant of the queue.
PrintInv ==
  /\ PrintTypeOK /\ JobsDistinct /\ JobsBegun /\ AttemptsLeft /\ OneWrite
  /\ PaperAgrees

-----------------------------------------------------------------------------
(***************************************************************************)
(* Every step keeps PrintInv.                                              *)
(***************************************************************************)

\* The jobs at the positions of the queue are jobs.
LEMMA QueuedJobs ==
  ASSUME NEW queue \in Seq(PrintJobs)
  PROVE  /\ DOMAIN queue = 1 .. Len(queue) /\ Len(queue) \in Nat
         /\ \A j \in DOMAIN queue : queue[j] \in PrintJobs
BY LenProperties, ElementOfSeq

\* A job that is changed in place leaves the others and the queue as they are.
LEMMA JobChanged ==
  ASSUME NEW queue \in Seq(PrintJobs), NEW j \in DOMAIN queue,
         NEW job \in PrintJobs
  PROVE  LET changed == [queue EXCEPT ![j] = job]
         IN /\ changed \in Seq(PrintJobs)
            /\ DOMAIN changed = DOMAIN queue
            /\ changed[j] = job
            /\ \A k \in DOMAIN queue : k # j => changed[k] = queue[k]
<1>1. j \in 1 .. Len(queue)
  BY QueuedJobs
<1> QED BY <1>1, ExceptSeq, LenProperties

\* print-job-queue.ts:enqueue keeps the invariant.
LEMMA EnqueueKeeps ==
  ASSUME PrintInv, NEW id \in JobIds, Enqueue(id)
  PROVE  PrintInv'
<1> DEFINE new == [id |-> id, status |-> "pending", attempts |-> 0]
           last == Len(jobs) + 1
<1>1. new \in PrintJobs
  BY DEF PrintJobs
<1>2. /\ jobs \in Seq(PrintJobs)
      /\ DOMAIN jobs = 1 .. Len(jobs) /\ Len(jobs) \in Nat
      /\ \A j \in DOMAIN jobs : jobs[j] \in PrintJobs
  BY QueuedJobs DEF PrintInv, PrintTypeOK
<1>3. /\ jobs' \in Seq(PrintJobs)
      /\ DOMAIN jobs' = DOMAIN jobs \union {last}
      /\ last \notin DOMAIN jobs
      /\ jobs'[last] = new
      /\ \A j \in DOMAIN jobs : jobs'[j] = jobs[j]
  <2>1. jobs' = Append(jobs, new)
    BY DEF Enqueue
  <2>2. Len(jobs') = last
    BY <1>1, <1>2, <2>1, AppendProperties
  <2>3. DOMAIN jobs' = 1 .. last
    BY <1>1, <1>2, <2>1, <2>2, AppendProperties, LenProperties
  <2> QED BY <1>1, <1>2, <2>1, <2>3, AppendProperties
<1>4. writing' = writing /\ paper' = paper
  BY DEF Enqueue
<1>5. \A j \in DOMAIN jobs : jobs[j].id # id
  BY DEF Enqueue
<1>6. \A write \in writing : write.job \in DOMAIN jobs
  BY DEF PrintInv, PrintTypeOK
<1> HIDE DEF new, last
<1>7. new.id = id /\ new.status = "pending" /\ new.attempts = 0
  BY DEF new
<1>8. PrintTypeOK'
  BY <1>3, <1>4 DEF PrintInv, PrintTypeOK
<1>9. JobsDistinct'
  BY <1>3, <1>5, <1>7 DEF PrintInv, JobsDistinct
<1>10. JobsBegun'
  <2> SUFFICES ASSUME NEW j \in DOMAIN jobs'
               PROVE  /\ jobs'[j].attempts > 0 =>
                           \A k \in 1 .. j - 1 : jobs'[k].attempts > 0
                      /\ jobs'[j].status # "pending" => jobs'[j].attempts > 0
    BY DEF JobsBegun
  <2>1. CASE j = last
    BY <1>3, <1>7, <2>1
  <2>2. CASE j \in DOMAIN jobs
    <3>1. 1 .. j - 1 \subseteq DOMAIN jobs
      BY <1>2, <2>2
    <3> QED BY <1>3, <2>2, <3>1 DEF PrintInv, JobsBegun
  <2> QED BY <1>3, <2>1, <2>2
<1>11. AttemptsLeft'
  <2>1. 0 < MaxAttempts /\ MaxAttempts \in Nat
    BY PrintAssumption
  <2> SUFFICES ASSUME NEW j \in DOMAIN jobs'
               PROVE  /\ jobs'[j].attempts <= MaxAttempts
                      /\ Waits(j)' => jobs'[j].attempts < MaxAttempts
    BY DEF AttemptsLeft
  <2>2. CASE j = last
    BY <1>3, <1>7, <2>1, <2>2
  <2>3. CASE j \in DOMAIN jobs
    BY <1>3, <1>4, <2>3 DEF PrintInv, AttemptsLeft, Waits, InFlight
  <2> QED BY <1>3, <2>2, <2>3
<1>12. OneWrite'
  BY <1>3, <1>4, <1>6 DEF PrintInv, OneWrite
<1>13. PaperAgrees'
  <2>1. paper[id] = [printed |-> 0, failed |-> 0, delivered |-> 0]
    BY <1>5 DEF PrintInv, PaperAgrees
  <2>2. ASSUME NEW other \in JobIds, \A j \in DOMAIN jobs' : jobs'[j].id # other
        PROVE  paper'[other] = [printed |-> 0, failed |-> 0, delivered |-> 0]
    BY <1>3, <1>4, <2>2 DEF PrintInv, PaperAgrees
  <2>3. ASSUME NEW j \in DOMAIN jobs
        PROVE  jobs'[j] = jobs[j] /\ paper'[jobs'[j].id] = paper[jobs[j].id]
    BY <1>3, <1>4
  <2>4. paper'[jobs'[last].id] = [printed |-> 0, failed |-> 0, delivered |-> 0]
    BY <1>3, <1>4, <1>7, <2>1
  <2> QED
    BY <1>3, <1>4, <1>7, <2>2, <2>3, <2>4 DEF PrintInv, PaperAgrees
<1> QED BY <1>8, <1>9, <1>10, <1>11, <1>12, <1>13 DEF PrintInv

\* print-job-queue.ts:deliverNext, up to the write, keeps the invariant.
LEMMA DeliverNextKeeps ==
  ASSUME PrintInv, DeliverNext
  PROVE  PrintInv'
<1>1. PICK j \in DOMAIN jobs :
        /\ Waits(j)
        /\ \A k \in 1 .. j - 1 : ~ Waits(k)
        /\ jobs' = [jobs EXCEPT ![j].attempts = @ + 1]
        /\ writing' = writing \union
             {[job |-> j, attempt |-> jobs[j].attempts + 1, printed |-> FALSE]}
        /\ UNCHANGED paper
  BY DEF DeliverNext
<1> DEFINE begun == [jobs[j] EXCEPT !.attempts = @ + 1]
           write == [job |-> j, attempt |-> jobs[j].attempts + 1,
                     printed |-> FALSE]
<1>2. /\ jobs \in Seq(PrintJobs)
      /\ DOMAIN jobs = 1 .. Len(jobs) /\ Len(jobs) \in Nat
      /\ \A k \in DOMAIN jobs : jobs[k] \in PrintJobs
  BY QueuedJobs DEF PrintInv, PrintTypeOK
<1>3. begun \in PrintJobs
  BY <1>2 DEF PrintJobs
<1>4. /\ jobs' \in Seq(PrintJobs)
      /\ DOMAIN jobs' = DOMAIN jobs
      /\ jobs'[j] = begun
      /\ \A k \in DOMAIN jobs : k # j => jobs'[k] = jobs[k]
  BY <1>1, <1>2, <1>3, JobChanged
<1>5. /\ begun.id = jobs[j].id
      /\ begun.status = "pending"
      /\ begun.attempts = jobs[j].attempts + 1
      /\ begun.attempts > 0
  BY <1>1, <1>2 DEF PrintJobs, Waits
<1>6. /\ write.job = j /\ write.printed = FALSE
      /\ write.attempt = jobs[j].attempts + 1
  OBVIOUS
<1>7. writing' = writing \union {write} /\ paper' = paper
  BY <1>1
<1>8. \A k \in DOMAIN jobs :
        jobs'[k].id = jobs[k].id /\ jobs'[k].status = jobs[k].status
  BY <1>1, <1>4, <1>5 DEF Waits
<1>9. \A other \in writing : other.job # j /\ other.job \in DOMAIN jobs
  BY <1>1 DEF Waits, InFlight, PrintInv, PrintTypeOK
<1> HIDE DEF begun
<1>10. PrintTypeOK'
  <2>1. write \in [job : DOMAIN jobs', attempt : Nat, printed : BOOLEAN]
    BY <1>2, <1>4 DEF PrintJobs
  <2> HIDE DEF write
  <2> QED BY <1>4, <1>7, <2>1 DEF PrintInv, PrintTypeOK
<1> HIDE DEF write
<1>11. JobsDistinct'
  BY <1>4, <1>8 DEF PrintInv, JobsDistinct
<1>12. JobsBegun'
  <2>1. ASSUME NEW k \in 1 .. j - 1 PROVE jobs[k].attempts > 0
    <3>1. k \in DOMAIN jobs /\ ~ Waits(k)
      BY <1>1, <1>2, <2>1
    <3>2. CASE jobs[k].status # "pending"
      BY <3>1, <3>2 DEF PrintInv, JobsBegun
    <3>3. CASE InFlight(k)
      BY <3>1, <3>3 DEF PrintInv, OneWrite, InFlight
    <3> QED BY <3>1, <3>2, <3>3 DEF Waits
  <2> SUFFICES ASSUME NEW i \in DOMAIN jobs
               PROVE  /\ jobs'[i].attempts > 0 =>
                           \A k \in 1 .. i - 1 : jobs'[k].attempts > 0
                      /\ jobs'[i].status # "pending" => jobs'[i].attempts > 0
    BY <1>4 DEF JobsBegun
  <2>2. \A k \in 1 .. i - 1 : k \in DOMAIN jobs
    BY <1>2
  <2>3. CASE i = j
    BY <1>4, <1>5, <2>1, <2>2, <2>3
  <2>4. CASE i # j
    BY <1>4, <1>5, <2>2, <2>4 DEF PrintInv, JobsBegun
  <2> QED BY <2>3, <2>4
<1>13. AttemptsLeft'
  <2>1. begun.attempts <= MaxAttempts
    <3>1. jobs[j].attempts < MaxAttempts
      BY <1>1 DEF PrintInv, AttemptsLeft
    <3>2. jobs[j].attempts \in Nat
      BY <1>2 DEF PrintJobs
    <3> QED BY <1>5, <3>1, <3>2, PrintAssumption
  <2>2. ~ Waits(j)'
    BY <1>6, <1>7 DEF Waits, InFlight
  <2>3. ASSUME NEW k \in DOMAIN jobs, k # j, Waits(k)' PROVE Waits(k)
    BY <1>4, <1>7, <2>3 DEF Waits, InFlight
  <2> QED BY <1>4, <2>1, <2>2, <2>3 DEF PrintInv, AttemptsLeft
<1>14. OneWrite'
  <2>1. \A w \in writing' : jobs'[w.job].status = "pending"
                            /\ jobs'[w.job].attempts > 0
    BY <1>4, <1>5, <1>6, <1>7, <1>9 DEF PrintInv, OneWrite
  <2>2. \A w, other \in writing' : w.job = other.job => w = other
    BY <1>6, <1>7, <1>9 DEF PrintInv, OneWrite
  <2> QED BY <2>1, <2>2 DEF OneWrite
<1>15. PaperAgrees'
  <2>1. \A w \in writing : w \in writing'
    BY <1>7
  <2> QED BY <1>4, <1>7, <1>8, <2>1 DEF PrintInv, PaperAgrees
<1> QED BY <1>10, <1>11, <1>12, <1>13, <1>14, <1>15 DEF PrintInv

\* The bytes of a write reach the paper once: the invariant is kept.
LEMMA PrintsKeeps ==
  ASSUME PrintInv, NEW write \in writing, Prints(write)
  PROVE  PrintInv'
<1> DEFINE done == [write EXCEPT !.printed = TRUE]
           j == write.job
           id == jobs[j].id
           sheet == [paper[id] EXCEPT !.printed = @ + 1]
<1>1. /\ DOMAIN jobs = 1 .. Len(jobs) /\ Len(jobs) \in Nat
      /\ \A k \in DOMAIN jobs : jobs[k] \in PrintJobs
  BY QueuedJobs DEF PrintInv, PrintTypeOK
<1>2. write \in [job : DOMAIN jobs, attempt : Nat, printed : BOOLEAN]
  BY DEF PrintInv, PrintTypeOK
<1>3. j \in DOMAIN jobs /\ id \in JobIds
  BY <1>1, <1>2 DEF PrintJobs
<1>4. /\ done \in [job : DOMAIN jobs, attempt : Nat, printed : BOOLEAN]
      /\ done.job = j /\ done.printed = TRUE
  BY <1>2
<1>5. paper[id] \in PaperCounts
  BY <1>3 DEF PrintInv, PrintTypeOK
<1>6. /\ sheet \in PaperCounts
      /\ sheet.printed = paper[id].printed + 1
      /\ sheet.failed = paper[id].failed
      /\ sheet.delivered = paper[id].delivered
  BY <1>5 DEF PaperCounts
<1>7. /\ jobs' = jobs
      /\ writing' = (writing \ {write}) \union {done}
      /\ paper' = [paper EXCEPT ![id] = sheet]
      /\ ~ write.printed
  BY DEF Prints
<1>8. \A k \in DOMAIN jobs : k # j => jobs[k].id # id
  BY <1>3 DEF PrintInv, JobsDistinct
<1>9. \A other \in writing : other # write => other.job # j
  BY DEF PrintInv, OneWrite
<1>10. paper[id].printed <= paper[id].failed
  BY <1>3, <1>7, <1>9 DEF PrintInv, PaperAgrees, OneWrite
<1> HIDE DEF done, sheet
<1>11. PrintTypeOK'
  BY <1>4, <1>6, <1>7 DEF PrintInv, PrintTypeOK
<1>12. /\ paper'[id] = sheet
       /\ \A other \in JobIds : other # id => paper'[other] = paper[other]
  BY <1>3, <1>7 DEF PrintInv, PrintTypeOK
<1>13. JobsDistinct' /\ JobsBegun'
  BY <1>7 DEF PrintInv, JobsDistinct, JobsBegun
<1>14. \A k \in DOMAIN jobs : InFlight(k)' => InFlight(k)
  BY <1>4, <1>7 DEF InFlight
<1>15. \A k \in DOMAIN jobs : InFlight(k) => InFlight(k)'
  BY <1>4, <1>7 DEF InFlight
<1>16. AttemptsLeft'
  BY <1>7, <1>15 DEF PrintInv, AttemptsLeft, Waits
<1>17. OneWrite'
  BY <1>4, <1>7, <1>9 DEF PrintInv, OneWrite
<1>18. PaperAgrees'
  <2>1. ASSUME NEW other \in JobIds, \A k \in DOMAIN jobs : jobs[k].id # other
        PROVE  paper'[other] = [printed |-> 0, failed |-> 0, delivered |-> 0]
    BY <1>3, <1>12, <2>1 DEF PrintInv, PaperAgrees
  <2>2. ASSUME NEW k \in DOMAIN jobs, k # j
        PROVE  /\ paper'[jobs[k].id] = paper[jobs[k].id]
               /\ \A w \in writing : w.job = k => w \in writing'
    <3>1. jobs[k].id \in JobIds /\ jobs[k].id # id
      BY <1>1, <1>8, <2>2 DEF PrintJobs
    <3> QED BY <1>7, <1>12, <2>2, <3>1
  <2>3. /\ sheet.printed <= sheet.failed + 1
        /\ \E w \in writing' : w.job = j /\ w.printed
    BY <1>4, <1>5, <1>6, <1>7, <1>10 DEF PaperCounts
  <2>4. sheet.delivered = IF jobs[j].status = "delivered" THEN 1 ELSE 0
    BY <1>3, <1>6 DEF PrintInv, PaperAgrees
  <2> HIDE DEF j, id
  <2> SUFFICES ASSUME NEW k \in DOMAIN jobs
               PROVE  LET pile == paper'[jobs[k].id]
                      IN /\ pile.delivered =
                              IF jobs[k].status = "delivered" THEN 1 ELSE 0
                         /\ pile.printed <= pile.failed + 1
                         /\ \/ pile.printed <= pile.failed
                            \/ jobs[k].status = "delivered"
                            \/ \E w \in writing' : w.job = k /\ w.printed
    BY <1>7, <2>1 DEF PaperAgrees
  <2>5. CASE k = j
    BY <1>12, <2>3, <2>4, <2>5 DEF id
  <2>6. CASE k # j
    BY <2>2, <2>6 DEF PrintInv, PaperAgrees
  <2> QED BY <2>5, <2>6
<1> QED BY <1>11, <1>13, <1>16, <1>17, <1>18 DEF PrintInv

\* The answer of a write, whether it succeeded or failed, keeps the invariant:
\* print-job-queue.ts:deliverNext after the port's answer.
LEMMA WriteAnsweredKeeps ==
  ASSUME PrintInv, NEW write \in writing, Written(write) \/ WriteFails(write)
  PROVE  PrintInv'
<1> DEFINE j == write.job
           id == jobs[j].id
           status == IF Written(write) THEN "delivered" ELSE "failed"
           ended == [jobs[j] EXCEPT !.status = status]
           sheet == IF Written(write)
                      THEN [paper[id] EXCEPT !.delivered = @ + 1]
                      ELSE [paper[id] EXCEPT !.failed = @ + 1]
<1>1. /\ jobs \in Seq(PrintJobs)
      /\ DOMAIN jobs = 1 .. Len(jobs) /\ Len(jobs) \in Nat
      /\ \A k \in DOMAIN jobs : jobs[k] \in PrintJobs
  BY QueuedJobs DEF PrintInv, PrintTypeOK
<1>2. write \in [job : DOMAIN jobs, attempt : Nat, printed : BOOLEAN]
  BY DEF PrintInv, PrintTypeOK
<1>3. j \in DOMAIN jobs /\ id \in JobIds
  BY <1>1, <1>2 DEF PrintJobs
<1>4. jobs[j].status = "pending" /\ jobs[j].attempts > 0
  BY DEF PrintInv, OneWrite
<1>5. /\ ended \in PrintJobs
      /\ ended.id = id
      /\ ended.status = status
      /\ ended.attempts = jobs[j].attempts
  BY <1>1, <1>3 DEF PrintJobs
<1>6. status \in {"delivered", "failed"}
  OBVIOUS
<1>7. jobs' = [jobs EXCEPT ![j] = ended]
  BY DEF Written, WriteFails, WriteEnds
<1>8. /\ jobs' \in Seq(PrintJobs)
      /\ DOMAIN jobs' = DOMAIN jobs
      /\ jobs'[j] = ended
      /\ \A k \in DOMAIN jobs : k # j => jobs'[k] = jobs[k]
  BY <1>1, <1>3, <1>5, <1>7, JobChanged
<1>9. writing' = writing \ {write}
  BY DEF Written, WriteFails, WriteEnds
<1>10. paper' = [paper EXCEPT ![id] = sheet]
  BY DEF Written, WriteFails
<1>11. paper \in [JobIds -> PaperCounts] /\ paper[id] \in PaperCounts
  BY <1>3 DEF PrintInv, PrintTypeOK
<1>12. \A other \in writing : other # write => other.job # j
  BY DEF PrintInv, OneWrite
<1>13. \A k \in DOMAIN jobs : k # j => jobs[k].id # id
  BY <1>3 DEF PrintInv, JobsDistinct
<1>14. /\ paper[id].delivered = 0
       /\ paper[id].printed <= paper[id].failed + 1
  BY <1>3, <1>4 DEF PrintInv, PaperAgrees
<1>15. /\ sheet \in PaperCounts
       /\ sheet.delivered = IF status = "delivered" THEN 1 ELSE 0
       /\ sheet.printed <= sheet.failed + 1
       /\ sheet.printed <= sheet.failed \/ status = "delivered"
  BY <1>11, <1>14 DEF PaperCounts
<1>16. /\ paper'[id] = sheet
       /\ \A other \in JobIds : other # id => paper'[other] = paper[other]
  BY <1>3, <1>10, <1>11
<1> HIDE DEF ended, sheet, status
<1>17. PrintTypeOK'
  <2>1. paper' \in [JobIds -> PaperCounts]
    BY <1>10, <1>11, <1>15
  <2> QED BY <1>8, <1>9, <2>1 DEF PrintInv, PrintTypeOK
<1>18. \A k \in DOMAIN jobs :
         jobs'[k].id = jobs[k].id /\ jobs'[k].attempts = jobs[k].attempts
  BY <1>5, <1>8
<1>19. JobsDistinct'
  BY <1>8, <1>18 DEF PrintInv, JobsDistinct
<1>20. JobsBegun'
  <2> SUFFICES ASSUME NEW k \in DOMAIN jobs
               PROVE  /\ jobs'[k].attempts > 0 =>
                           \A i \in 1 .. k - 1 : jobs'[i].attempts > 0
                      /\ jobs'[k].status # "pending" => jobs'[k].attempts > 0
    BY <1>8 DEF JobsBegun
  <2>1. \A i \in 1 .. k - 1 : i \in DOMAIN jobs
    BY <1>1
  <2>2. jobs'[k].status # "pending" => jobs'[k].attempts > 0
    BY <1>4, <1>8, <1>18 DEF PrintInv, JobsBegun
  <2> QED BY <1>18, <2>1, <2>2 DEF PrintInv, JobsBegun
<1>21. AttemptsLeft'
  <2>1. ASSUME NEW k \in DOMAIN jobs, Waits(k)' PROVE Waits(k)
    <3>1. k # j
      BY <1>5, <1>6, <1>8, <2>1 DEF Waits
    <3> QED BY <1>8, <1>9, <2>1, <3>1 DEF Waits, InFlight
  <2> QED BY <1>8, <1>18, <2>1 DEF PrintInv, AttemptsLeft
<1>22. OneWrite'
  <2>1. \A other \in writing' : other \in writing /\ other.job # j
                                /\ other.job \in DOMAIN jobs
    BY <1>9, <1>12 DEF PrintInv, PrintTypeOK
  <2> QED BY <1>8, <2>1 DEF PrintInv, OneWrite
<1>23. PaperAgrees'
  <2>1. ASSUME NEW other \in JobIds, \A k \in DOMAIN jobs : jobs'[k].id # other
        PROVE  paper'[other] = [printed |-> 0, failed |-> 0, delivered |-> 0]
    BY <1>3, <1>16, <1>18, <2>1 DEF PrintInv, PaperAgrees
  <2>2. ASSUME NEW k \in DOMAIN jobs, k # j
        PROVE  /\ jobs'[k] = jobs[k]
               /\ paper'[jobs[k].id] = paper[jobs[k].id]
               /\ \A w \in writing : w.job = k => w \in writing'
    <3>1. jobs[k].id \in JobIds /\ jobs[k].id # id
      BY <1>1, <1>13, <2>2 DEF PrintJobs
    <3> QED BY <1>8, <1>9, <1>16, <2>2, <3>1
  <2>3. jobs'[j].status = status /\ jobs'[j].id = id
    BY <1>5, <1>8
  <2> HIDE DEF j, id
  <2> SUFFICES ASSUME NEW k \in DOMAIN jobs
               PROVE  LET pile == paper'[jobs'[k].id]
                      IN /\ pile.delivered =
                              IF jobs'[k].status = "delivered" THEN 1 ELSE 0
                         /\ pile.printed <= pile.failed + 1
                         /\ \/ pile.printed <= pile.failed
                            \/ jobs'[k].status = "delivered"
                            \/ \E w \in writing' : w.job = k /\ w.printed
    BY <1>8, <2>1 DEF PaperAgrees
  <2>4. CASE k = j
    BY <1>15, <1>16, <2>3, <2>4
  <2>5. CASE k # j
    BY <2>2, <2>5 DEF PrintInv, PaperAgrees
  <2> QED BY <2>4, <2>5
<1> QED BY <1>17, <1>19, <1>20, <1>21, <1>22, <1>23 DEF PrintInv

\* print-job-queue.ts:retry keeps the invariant: a failed job has no write in
\* flight, and a job that may be retried has an attempt left.
LEMMA RetryPrintKeeps ==
  ASSUME PrintInv, NEW j \in DOMAIN jobs, RetryPrint(j)
  PROVE  PrintInv'
<1> DEFINE again == [jobs[j] EXCEPT !.status = "pending"]
<1>1. /\ jobs \in Seq(PrintJobs)
      /\ DOMAIN jobs = 1 .. Len(jobs) /\ Len(jobs) \in Nat
      /\ \A k \in DOMAIN jobs : jobs[k] \in PrintJobs
  BY QueuedJobs DEF PrintInv, PrintTypeOK
<1>2. /\ again \in PrintJobs
      /\ again.id = jobs[j].id
      /\ again.status = "pending"
      /\ again.attempts = jobs[j].attempts
  BY <1>1 DEF PrintJobs
<1>3. /\ jobs' = [jobs EXCEPT ![j] = again]
      /\ writing' = writing /\ paper' = paper
      /\ jobs[j].status = "failed" /\ jobs[j].attempts < MaxAttempts
  BY DEF RetryPrint, MayRetry
<1>4. /\ jobs' \in Seq(PrintJobs)
      /\ DOMAIN jobs' = DOMAIN jobs
      /\ jobs'[j] = again
      /\ \A k \in DOMAIN jobs : k # j => jobs'[k] = jobs[k]
  BY <1>1, <1>2, <1>3, JobChanged
<1>5. \A w \in writing : w.job # j
  BY <1>3 DEF PrintInv, OneWrite
<1> HIDE DEF again
<1>6. \A k \in DOMAIN jobs :
        jobs'[k].id = jobs[k].id /\ jobs'[k].attempts = jobs[k].attempts
  BY <1>2, <1>4
<1>7. PrintTypeOK'
  BY <1>3, <1>4 DEF PrintInv, PrintTypeOK
<1>8. JobsDistinct'
  BY <1>4, <1>6 DEF PrintInv, JobsDistinct
<1>9. JobsBegun'
  <2>1. \A k \in DOMAIN jobs : \A i \in 1 .. k - 1 : i \in DOMAIN jobs
    BY <1>1
  <2> QED BY <1>2, <1>4, <1>6, <2>1 DEF PrintInv, JobsBegun
<1>10. AttemptsLeft'
  BY <1>2, <1>3, <1>4, <1>6 DEF PrintInv, AttemptsLeft, Waits, InFlight
<1>11. OneWrite'
  BY <1>3, <1>4, <1>5 DEF PrintInv, PrintTypeOK, OneWrite
<1>12. PaperAgrees'
  <2>1. /\ paper[jobs[j].id].delivered = 0
        /\ paper[jobs[j].id].printed <= paper[jobs[j].id].failed
    BY <1>3, <1>5 DEF PrintInv, PaperAgrees
  <2> QED BY <1>2, <1>3, <1>4, <1>6, <2>1 DEF PrintInv, PaperAgrees
<1> QED BY <1>7, <1>8, <1>9, <1>10, <1>11, <1>12 DEF PrintInv

-----------------------------------------------------------------------------
(***************************************************************************)
(* What the printer promises.                                              *)
(***************************************************************************)

\* PrintInv holds in every reachable state of the queue.
THEOREM PrintInvariant == PrintSpec => []PrintInv
<1>1. PrintInit => PrintInv
  <2> SUFFICES ASSUME PrintInit PROVE PrintInv
    OBVIOUS
  <2>1. jobs \in Seq(PrintJobs) /\ DOMAIN jobs = {} /\ writing = {}
    BY DEF PrintInit
  <2>2. [printed |-> 0, failed |-> 0, delivered |-> 0] \in PaperCounts
    BY DEF PaperCounts
  <2>3. PrintTypeOK /\ PaperAgrees
    BY <2>1, <2>2 DEF PrintInit, PrintTypeOK, PaperAgrees
  <2> QED
    BY <2>1, <2>3
       DEF PrintInv, JobsDistinct, JobsBegun, AttemptsLeft, OneWrite
<1>2. PrintInv /\ [PrintNext]_printVars => PrintInv'
  <2> SUFFICES ASSUME PrintInv, [PrintNext]_printVars PROVE PrintInv'
    OBVIOUS
  <2>1. CASE \E id \in JobIds : Enqueue(id)
    BY <2>1, EnqueueKeeps
  <2>2. CASE DeliverNext
    BY <2>2, DeliverNextKeeps
  <2>3. CASE \E write \in writing :
               Prints(write) \/ Written(write) \/ WriteFails(write)
    BY <2>3, PrintsKeeps, WriteAnsweredKeeps
  <2>4. CASE \E j \in DOMAIN jobs : RetryPrint(j)
    BY <2>4, RetryPrintKeeps
  <2>5. CASE UNCHANGED printVars
    BY <2>5 DEF printVars, PrintInv, PrintTypeOK, JobsDistinct, JobsBegun,
                AttemptsLeft, OneWrite, PaperAgrees, Waits, InFlight
  <2> QED BY <2>1, <2>2, <2>3, <2>4, <2>5 DEF PrintNext
<1> QED BY <1>1, <1>2, PTL DEF PrintSpec

\* However deliveries, failures and retries interleave, a job is written no
\* more once it was delivered, prints at most once more than it failed, is
\* begun in its turn and written at most MaxAttempts times.
THEOREM JobsPrintOnce == PrintSpec => []PrintsOnce
<1>1. PrintInv => PrintsOnce
  <2> SUFFICES ASSUME PrintInv PROVE PrintsOnce
    OBVIOUS
  <2> QED BY DEF PrintInv, PaperAgrees, JobsBegun, AttemptsLeft, PrintsOnce
<1> QED BY <1>1, PrintInvariant, PTL

=============================================================================
