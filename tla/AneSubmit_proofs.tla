------------------------- MODULE AneSubmit_proofs -------------------------
(***************************************************************************)
(* Proofs about AneSubmit for any number of clients, buffer objects and    *)
(* jobs.  The module runs the bodies of ioctls inside the bracket of AnePm *)
(* and never touches its variables otherwise (BracketRefined), so the      *)
(* invariant of AnePm_proofs holds here too; SubInv adds what engine_lock  *)
(* protects and what happens to a job between its push and the end of the  *)
(* poll.                                                                   *)
(***************************************************************************)
EXTENDS AneSubmit, AnePm_proofs, SequenceTheorems

(* engine_lock is held here. *)
Critical == {"enqueue_bars", "enqueue_task", "push", "poll", "unlock"}

(* A submission is inside the body of its ioctl, and holds engine_lock     *)
(* exactly in the critical section.                                        *)
LockInv ==
  \A c \in Clients : /\ spc[c] # "none" => pc[c] = "body"
                     /\ elock = c <=> spc[c] \in Critical

(* From the lookups to the unlock, the buffers of a request stay those of  *)
(* the client.                                                             *)
ReqInv ==
  \A c \in Clients : spc[c] \in {"lock"} \cup Critical =>
    req[c].bars \cup {req[c].btsp} \subseteq Owned(c)

(* The registers hold the request of the thread in the critical section,   *)
(* as far as it has programmed them.                                       *)
RegInv ==
  \A c \in Clients :
    /\ spc[c] \in {"enqueue_bars", "enqueue_task", "poll"} => hw = "H13"
    /\ spc[c] = "enqueue_task" => tq.bars = req[c].bars
    /\ spc[c] \in {"push", "poll"} /\ hw = "H13" => tq = req[c]

(* A job that somebody waits for is the one of the thread that polls; that *)
(* thread's job is in the engine or has run.                               *)
JobInv ==
  /\ \A k \in DOMAIN jobs : jobs[k].waited =>
       spc[jobs[k].by] = "poll" /\ jobs[k].task = req[jobs[k].by]
  /\ \A c \in Clients : spc[c] = "poll" =>
       ran[c] \/ \E k \in DOMAIN jobs : jobs[k].by = c /\ jobs[k].waited

SubInv ==
  PmInv /\ TypeOK /\ LockInv /\ ReqInv /\ RegInv /\ JobInv /\ OkMeansRan

(* What was pushed: by whom, which task, and whether its SUBMIT polls. *)
Job == [by : Clients, task : Requests, waited : BOOLEAN]

-----------------------------------------------------------------------------
(* Whatever a submission does, the bracket sees steps of AnePm or nothing. *)
LEMMA BracketRefined == [Next]_allVars => [PmNext]_pmVars
<1> SUFFICES ASSUME [Next]_allVars PROVE [PmNext]_pmVars
  OBVIOUS
<1>1. ASSUME NEW c \in Clients, Bracket(c) \/ Return(c)
      PROVE  PmNext
  BY <1>1 DEF Bracket, Return, PmNext
<1>2. ASSUME NEW c \in Clients, Body(c) PROVE UNCHANGED pmVars
  BY <1>2 DEF Body, Info, SubmitInval, BoInit, BoFree, SubmitBegin
<1>3. ASSUME NEW c \in Clients, EngineLock(c) \/ SubmitStep(c)
      PROVE  UNCHANGED pmVars
  BY <1>3 DEF SubmitStep, EngineLock, EnqueueBars, EnqueueTask, PushH13,
     PushH14, PollIdle, PollTimeout, EngineUnlock
<1>4. CASE EngineFinish
  BY <1>4 DEF EngineFinish
<1>5. CASE Power
  BY <1>5 DEF Power, PmNext
<1>6. CASE UNCHANGED allVars
  BY <1>6 DEF allVars
<1>7. QED
  BY <1>1, <1>2, <1>3, <1>4, <1>5, <1>6 DEF Next

(* A step of the bracket moves one thread, which is not in the body. *)
LEMMA BracketMove ==
  ASSUME PmTypeOK, NEW c \in Clients, PmCall(c) \/ PmStep(c)
  PROVE  pc[c] # "body" /\ \A d \in Clients \ {c} : pc'[d] = pc[d]
<1>1. CASE PmCall(c)
  BY <1>1 DEF PmTypeOK, PmCall, Get
<1>2. CASE PmStep(c)
  BY <1>2 DEF PmTypeOK, PmStep, ResumeActive, ResumeStart, ResumeDone,
     ResumeFail, ResumeRefused, PutNoidle, Put, Leave
<1>3. QED BY <1>1, <1>2

(* Each step keeps the invariant: most of them belong to the one thread    *)
(* that holds engine_lock, and power steps find nobody in the body.        *)
LEMMA SubStepInv == ASSUME SubInv, [Next]_allVars PROVE SubInv'
<1> USE SubmitAssumption DEF SubInv, Goto
<1>a. PmInv'
  BY BracketRefined, PmStepInv
<1>b. /\ hw \in Hws /\ owner \in [Bos -> Clients \cup {None, Orphan}]
      /\ spc \in [Clients -> SPCs] /\ req \in [Clients -> Requests]
      /\ tq \in Requests /\ elock \in Clients \cup {None}
      /\ jobs \in Seq(Job)
      /\ ret \in [Clients -> {"none", "ok", "err"}]
      /\ ran \in [Clients -> BOOLEAN]
  BY DEF TypeOK, Job
<1>1. ASSUME NEW c \in Clients, Info(c)
      PROVE  SubInv'
  <2>1. TypeOK'
    BY <1>1, <1>a, <1>b DEF TypeOK, Job, PmInv, SPCs, Requests, NoRequest,
       Info
  <2>2. LockInv' BY <1>1, <1>b DEF LockInv, Critical, SPCs, pmVars, Info
  <2>3. ReqInv'
    BY <1>1, <1>b DEF ReqInv, LockInv, Critical, Owned, Requests, Info
  <2>4. RegInv' BY <1>1, <1>b DEF RegInv, LockInv, Critical, Requests, Info
  <2>5. JobInv'
    BY <1>1, <1>b DEF JobInv, RegInv, LockInv, Critical, Requests, Info
  <2>6. OkMeansRan' BY <1>1, <1>b DEF OkMeansRan, JobInv, RegInv, Info
  <2>7. QED BY <1>a, <2>1, <2>2, <2>3, <2>4, <2>5, <2>6
<1>2. ASSUME NEW c \in Clients, NEW b \in Bos, BoInit(c, b)
      PROVE  SubInv'
  <2>1. TypeOK'
    BY <1>2, <1>a, <1>b DEF TypeOK, Job, PmInv, SPCs, Requests, NoRequest,
       BoInit
  <2>2. LockInv' BY <1>2, <1>b DEF LockInv, Critical, SPCs, pmVars, BoInit
  <2>3. ReqInv'
    BY <1>2, <1>b DEF ReqInv, LockInv, Critical, Owned, Requests, BoInit
  <2>4. RegInv' BY <1>2, <1>b DEF RegInv, LockInv, Critical, Requests, BoInit
  <2>5. JobInv'
    BY <1>2, <1>b DEF JobInv, RegInv, LockInv, Critical, Requests, BoInit
  <2>6. OkMeansRan' BY <1>2, <1>b DEF OkMeansRan, JobInv, RegInv, BoInit
  <2>7. QED BY <1>a, <2>1, <2>2, <2>3, <2>4, <2>5, <2>6
<1>3. ASSUME NEW c \in Clients, NEW b \in Bos, BoFree(c, b)
      PROVE  SubInv'
  <2>1. TypeOK'
    BY <1>3, <1>a, <1>b DEF TypeOK, Job, PmInv, SPCs, Requests, NoRequest,
       BoFree
  <2>2. LockInv' BY <1>3, <1>b DEF LockInv, Critical, SPCs, pmVars, BoFree
  <2>3. ReqInv'
    BY <1>3, <1>b DEF ReqInv, LockInv, Critical, Owned, Requests, BoFree
  <2>4. RegInv' BY <1>3, <1>b DEF RegInv, LockInv, Critical, Requests, BoFree
  <2>5. JobInv'
    BY <1>3, <1>b DEF JobInv, RegInv, LockInv, Critical, Requests, BoFree
  <2>6. OkMeansRan' BY <1>3, <1>b DEF OkMeansRan, JobInv, RegInv, BoFree
  <2>7. QED BY <1>a, <2>1, <2>2, <2>3, <2>4, <2>5, <2>6
<1>4. ASSUME NEW c \in Clients, NEW S \in SUBSET Bos, NEW t \in Bos,
             SubmitBegin(c, S, t)
      PROVE  SubInv'
  <2>1. TypeOK'
    BY <1>4, <1>a, <1>b DEF TypeOK, Job, PmInv, SPCs, Requests, NoRequest,
       SubmitBegin
  <2>2. LockInv' BY <1>4, <1>b DEF LockInv, Critical, SPCs, pmVars, SubmitBegin
  <2>3. ReqInv'
    BY <1>4, <1>b DEF ReqInv, LockInv, Critical, Owned, Requests, SubmitBegin
  <2>4. RegInv'
    BY <1>4, <1>b DEF RegInv, LockInv, Critical, Requests, SubmitBegin
  <2>5. JobInv'
    BY <1>4, <1>b DEF JobInv, RegInv, LockInv, Critical, Requests,
       SubmitBegin
  <2>6. OkMeansRan' BY <1>4, <1>b DEF OkMeansRan, JobInv, RegInv, SubmitBegin
  <2>7. QED BY <1>a, <2>1, <2>2, <2>3, <2>4, <2>5, <2>6
<1>5. ASSUME NEW c \in Clients, SubmitInval(c)
      PROVE  SubInv'
  <2>1. TypeOK'
    BY <1>5, <1>a, <1>b DEF TypeOK, Job, PmInv, SPCs, Requests, NoRequest,
       SubmitInval
  <2>2. LockInv' BY <1>5, <1>b DEF LockInv, Critical, SPCs, pmVars, SubmitInval
  <2>3. ReqInv'
    BY <1>5, <1>b DEF ReqInv, LockInv, Critical, Owned, Requests, SubmitInval
  <2>4. RegInv'
    BY <1>5, <1>b DEF RegInv, LockInv, Critical, Requests, SubmitInval
  <2>5. JobInv'
    BY <1>5, <1>b DEF JobInv, RegInv, LockInv, Critical, Requests,
       SubmitInval
  <2>6. OkMeansRan' BY <1>5, <1>b DEF OkMeansRan, JobInv, RegInv, SubmitInval
  <2>7. QED BY <1>a, <2>1, <2>2, <2>3, <2>4, <2>5, <2>6
<1>6. ASSUME NEW c \in Clients, EngineLock(c)
      PROVE  SubInv'
  <2>1. TypeOK'
    BY <1>6, <1>a, <1>b DEF TypeOK, Job, PmInv, SPCs, Requests, NoRequest,
       EngineLock
  <2>2. LockInv' BY <1>6, <1>b DEF LockInv, Critical, SPCs, pmVars, EngineLock
  <2>3. ReqInv'
    BY <1>6, <1>b DEF ReqInv, LockInv, Critical, Owned, Requests, EngineLock
  <2>4. RegInv'
    BY <1>6, <1>b DEF RegInv, LockInv, Critical, Requests, EngineLock
  <2>5. JobInv'
    BY <1>6, <1>b DEF JobInv, RegInv, LockInv, Critical, Requests, EngineLock
  <2>6. OkMeansRan' BY <1>6, <1>b DEF OkMeansRan, JobInv, RegInv, EngineLock
  <2>7. QED BY <1>a, <2>1, <2>2, <2>3, <2>4, <2>5, <2>6
<1>7. ASSUME NEW c \in Clients, EnqueueBars(c)
      PROVE  SubInv'
  <2>1. TypeOK'
    BY <1>7, <1>a, <1>b DEF TypeOK, Job, PmInv, SPCs, Requests, NoRequest,
       EnqueueBars
  <2>2. LockInv' BY <1>7, <1>b DEF LockInv, Critical, SPCs, pmVars, EnqueueBars
  <2>3. ReqInv'
    BY <1>7, <1>b DEF ReqInv, LockInv, Critical, Owned, Requests, EnqueueBars
  <2>4. RegInv'
    BY <1>7, <1>b DEF RegInv, LockInv, Critical, Requests, EnqueueBars
  <2>5. JobInv'
    BY <1>7, <1>b DEF JobInv, RegInv, LockInv, Critical, Requests,
       EnqueueBars
  <2>6. OkMeansRan' BY <1>7, <1>b DEF OkMeansRan, JobInv, RegInv, EnqueueBars
  <2>7. QED BY <1>a, <2>1, <2>2, <2>3, <2>4, <2>5, <2>6
<1>8. ASSUME NEW c \in Clients, EnqueueTask(c)
      PROVE  SubInv'
  <2>1. TypeOK'
    BY <1>8, <1>a, <1>b DEF TypeOK, Job, PmInv, SPCs, Requests, NoRequest,
       EnqueueTask
  <2>2. LockInv' BY <1>8, <1>b DEF LockInv, Critical, SPCs, pmVars, EnqueueTask
  <2>3. ReqInv'
    BY <1>8, <1>b DEF ReqInv, LockInv, Critical, Owned, Requests, EnqueueTask
  <2>4. RegInv'
    BY <1>8, <1>b DEF RegInv, LockInv, Critical, Requests, EnqueueTask
  <2>5. JobInv'
    BY <1>8, <1>b DEF JobInv, RegInv, LockInv, Critical, Requests,
       EnqueueTask
  <2>6. OkMeansRan' BY <1>8, <1>b DEF OkMeansRan, JobInv, RegInv, EnqueueTask
  <2>7. QED BY <1>a, <2>1, <2>2, <2>3, <2>4, <2>5, <2>6
<1>9. ASSUME NEW c \in Clients, PushH13(c)
      PROVE  SubInv'
  <2>1. TypeOK'
    BY <1>9, <1>a, <1>b DEF TypeOK, Job, PmInv, SPCs, Requests, NoRequest,
       PushH13
  <2>2. LockInv' BY <1>9, <1>b DEF LockInv, Critical, SPCs, pmVars, PushH13
  <2>3. ReqInv'
    BY <1>9, <1>b DEF ReqInv, LockInv, Critical, Owned, Requests, PushH13
  <2>4. RegInv' BY <1>9, <1>b DEF RegInv, LockInv, Critical, Requests, PushH13
  <2>5. JobInv'
    BY <1>9, <1>b DEF JobInv, RegInv, LockInv, Critical, Requests, PushH13
  <2>6. OkMeansRan' BY <1>9, <1>b DEF OkMeansRan, JobInv, RegInv, PushH13
  <2>7. QED BY <1>a, <2>1, <2>2, <2>3, <2>4, <2>5, <2>6
<1>10. ASSUME NEW c \in Clients, PushH14(c)
      PROVE  SubInv'
  <2>1. TypeOK'
    <3>1. [by |-> c, task |-> [req[c] EXCEPT !.bars = {}], waited |-> FALSE]
            \in Job
      BY <1>b DEF Requests, Job
    <3>2. jobs' \in Seq(Job)
      BY <1>10, <1>b, <3>1 DEF PushH14
    <3>3. QED
      BY <1>10, <1>a, <1>b, <3>2 DEF TypeOK, Job, PmInv, SPCs, PushH14
  <2>2. LockInv' BY <1>10, <1>b DEF LockInv, Critical, SPCs, pmVars, PushH14
  <2>3. ReqInv'
    BY <1>10, <1>b DEF ReqInv, LockInv, Critical, Owned, Requests, PushH14
  <2>4. RegInv' BY <1>10, <1>b DEF RegInv, LockInv, Critical, Requests, PushH14
  <2>5. JobInv'
    BY <1>10, <1>b DEF JobInv, RegInv, LockInv, Critical, Requests, PushH14
  <2>6. OkMeansRan' BY <1>10, <1>b DEF OkMeansRan, JobInv, RegInv, PushH14
  <2>7. QED BY <1>a, <2>1, <2>2, <2>3, <2>4, <2>5, <2>6
<1>11. ASSUME NEW c \in Clients, PollIdle(c)
      PROVE  SubInv'
  <2>1. TypeOK'
    BY <1>11, <1>a, <1>b DEF TypeOK, Job, PmInv, SPCs, Requests, NoRequest,
       PollIdle
  <2>2. LockInv' BY <1>11, <1>b DEF LockInv, Critical, SPCs, pmVars, PollIdle
  <2>3. ReqInv'
    BY <1>11, <1>b DEF ReqInv, LockInv, Critical, Owned, Requests, PollIdle
  <2>4. RegInv' BY <1>11, <1>b DEF RegInv, LockInv, Critical, Requests, PollIdle
  <2>5. JobInv'
    BY <1>11, <1>b DEF JobInv, RegInv, LockInv, Critical, Requests, PollIdle
  <2>6. OkMeansRan' BY <1>11, <1>b DEF OkMeansRan, JobInv, RegInv, PollIdle
  <2>7. QED BY <1>a, <2>1, <2>2, <2>3, <2>4, <2>5, <2>6
<1>12. ASSUME NEW c \in Clients, PollTimeout(c)
      PROVE  SubInv'
  <2>a. /\ Len(jobs) \in Nat /\ DOMAIN jobs = 1 .. Len(jobs)
        /\ jobs \in [1 .. Len(jobs) -> Job]
    BY <1>b, LenProperties
  <2>b. /\ DOMAIN jobs' = DOMAIN jobs
        /\ \A k \in DOMAIN jobs : jobs'[k] = [jobs[k] EXCEPT !.waited = FALSE]
    BY <1>12 DEF PollTimeout
  <2>c. \A k \in DOMAIN jobs : jobs'[k] \in Job /\ jobs'[k].waited = FALSE
    BY <2>a, <2>b DEF Job
  <2>1. TypeOK'
    <3>1. jobs' \in [1 .. Len(jobs) -> Job]
      BY <1>12, <2>a, <2>c DEF PollTimeout
    <3>2. jobs' \in Seq(Job)
      BY <2>a, <3>1, SeqDef
    <3>3. QED
      BY <1>12, <1>a, <1>b, <3>2 DEF TypeOK, Job, PmInv, SPCs, PollTimeout
  <2>2. LockInv' BY <1>12, <1>b DEF LockInv, Critical, SPCs, pmVars, PollTimeout
  <2>3. ReqInv'
    BY <1>12, <1>b DEF ReqInv, LockInv, Critical, Owned, Requests,
       PollTimeout
  <2>4. RegInv'
    BY <1>12, <1>b DEF RegInv, LockInv, Critical, Requests, PollTimeout
  <2>5. JobInv'
    BY <1>12, <1>b, <2>b, <2>c DEF JobInv, LockInv, Critical, PollTimeout
  <2>6. OkMeansRan' BY <1>12, <1>b DEF OkMeansRan, JobInv, RegInv, PollTimeout
  <2>7. QED BY <1>a, <2>1, <2>2, <2>3, <2>4, <2>5, <2>6
<1>13. ASSUME NEW c \in Clients, EngineUnlock(c)
      PROVE  SubInv'
  <2>1. TypeOK'
    BY <1>13, <1>a, <1>b DEF TypeOK, Job, PmInv, SPCs, Requests, NoRequest,
       EngineUnlock
  <2>2. LockInv'
    BY <1>13, <1>b DEF LockInv, Critical, SPCs, pmVars, EngineUnlock
  <2>3. ReqInv'
    BY <1>13, <1>b DEF ReqInv, LockInv, Critical, Owned, Requests,
       EngineUnlock
  <2>4. RegInv'
    BY <1>13, <1>b DEF RegInv, LockInv, Critical, Requests, EngineUnlock
  <2>5. JobInv'
    BY <1>13, <1>b DEF JobInv, RegInv, LockInv, Critical, Requests,
       EngineUnlock
  <2>6. OkMeansRan' BY <1>13, <1>b DEF OkMeansRan, JobInv, RegInv, EngineUnlock
  <2>7. QED BY <1>a, <2>1, <2>2, <2>3, <2>4, <2>5, <2>6
<1>14. CASE EngineFinish
  <2>a. /\ jobs # <<>> /\ jobs[1] \in Job /\ Head(jobs) = jobs[1]
        /\ jobs' \in Seq(Job) /\ Len(jobs') = Len(jobs) - 1 /\ Len(jobs) \in Nat
        /\ DOMAIN jobs = 1 .. Len(jobs) /\ DOMAIN jobs' = 1 .. Len(jobs')
        /\ \A k \in DOMAIN jobs' : jobs'[k] = jobs[k + 1]
    <3>1. jobs' = Tail(jobs) /\ jobs # <<>>
      BY <1>14 DEF EngineFinish
    <3>2. /\ jobs' \in Seq(Job) /\ Len(jobs') = Len(jobs) - 1
          /\ \A k \in 1 .. Len(jobs') : jobs'[k] = jobs[k + 1]
      BY <1>b, <3>1, HeadTailProperties
    <3>3. Len(jobs) \in Nat \ {0} /\ DOMAIN jobs = 1 .. Len(jobs)
            /\ DOMAIN jobs' = 1 .. Len(jobs')
      BY <1>b, <3>1, <3>2, EmptySeq, LenProperties
    <3>4. jobs[1] \in Job /\ Head(jobs) = jobs[1]
      BY <1>b, <3>3, ElementOfSeq
    <3>5. QED BY <3>1, <3>2, <3>3, <3>4
  <2>b. /\ ran' \in [Clients -> BOOLEAN]
        /\ \A c \in Clients :
             ran'[c] = (ran[c] \/ (c = jobs[1].by /\ jobs[1].waited))
    BY <1>14, <1>b, <2>a DEF EngineFinish, Job
  <2>1. TypeOK'
    BY <1>14, <1>a, <1>b, <2>a, <2>b DEF TypeOK, Job, PmInv, EngineFinish
  <2>2. LockInv'
    BY <1>14, <1>b DEF LockInv, Critical, SPCs, pmVars, EngineFinish
  <2>3. ReqInv'
    BY <1>14, <1>b DEF ReqInv, LockInv, Critical, Owned, Requests,
       EngineFinish
  <2>4. RegInv'
    BY <1>14, <1>b DEF RegInv, LockInv, Critical, Requests, EngineFinish
  <2>5. JobInv'
    <3>1. ASSUME NEW k \in DOMAIN jobs', jobs'[k].waited
          PROVE  spc[jobs'[k].by] = "poll" /\ jobs'[k].task = req[jobs'[k].by]
      BY <2>a, <3>1 DEF JobInv
    <3>2. ASSUME NEW c \in Clients, spc[c] = "poll", ~ ran'[c]
          PROVE  \E k \in DOMAIN jobs' : jobs'[k].by = c /\ jobs'[k].waited
      <4>1. PICK k \in DOMAIN jobs : jobs[k].by = c /\ jobs[k].waited
        BY <2>b, <3>2 DEF JobInv
      <4>2. k # 1
        BY <2>a, <2>b, <3>2, <4>1
      <4>3. k - 1 \in DOMAIN jobs' /\ jobs'[k - 1] = jobs[k]
        BY <2>a, <4>2
      <4>4. QED
        BY <4>1, <4>3
    <3>3. QED
      BY <1>14, <3>1, <3>2 DEF JobInv, EngineFinish
  <2>6. OkMeansRan'
    BY <1>14, <2>b DEF OkMeansRan, EngineFinish
  <2>7. QED BY <1>a, <2>1, <2>2, <2>3, <2>4, <2>5, <2>6
<1>15. ASSUME NEW c \in Clients, Bracket(c)
      PROVE  SubInv'
  <2>a. pc[c] # "body" /\ \A d \in Clients \ {c} : pc'[d] = pc[d]
    BY <1>15, BracketMove DEF Bracket, PmInv
  <2>1. TypeOK' BY <1>15, <1>a, <1>b DEF TypeOK, Job, PmInv, Bracket
  <2>2. LockInv' BY <1>15, <2>a DEF LockInv, Bracket
  <2>3. ReqInv'
    <3>1. ASSUME NEW d \in Clients, spc[d] # "none"
          PROVE  Owned(d) \subseteq Owned(d)'
      <4>1. d # c
        BY <2>a, <3>1 DEF LockInv
      <4>2. QED
        BY <1>15, <1>b, <4>1 DEF Owned, Bracket
    <3>2. QED
      BY <1>15, <3>1 DEF ReqInv, Critical, Bracket
  <2>4. RegInv' BY <1>15, <1>b DEF RegInv, LockInv, Critical, Requests, Bracket
  <2>5. JobInv'
    BY <1>15, <1>b DEF JobInv, RegInv, LockInv, Critical, Requests, Bracket
  <2>6. OkMeansRan' BY <1>15, <1>b DEF OkMeansRan, JobInv, RegInv, Bracket
  <2>7. QED BY <1>a, <2>1, <2>2, <2>3, <2>4, <2>5, <2>6
<1>16. ASSUME NEW c \in Clients, Return(c)
      PROVE  SubInv'
  <2>1. TypeOK'
    BY <1>16, <1>a, <1>b DEF TypeOK, Job, PmInv, SPCs, Requests, NoRequest,
       Return
  <2>2. LockInv'
    BY <1>16, <1>b DEF LockInv, Critical, Return, IoctlEnd, PmInv, PmTypeOK
  <2>3. ReqInv'
    BY <1>16, <1>b DEF ReqInv, LockInv, Critical, Owned, Requests, Return
  <2>4. RegInv' BY <1>16, <1>b DEF RegInv, LockInv, Critical, Requests, Return
  <2>5. JobInv'
    BY <1>16, <1>b DEF JobInv, RegInv, LockInv, Critical, Requests, Return
  <2>6. OkMeansRan' BY <1>16, <1>b DEF OkMeansRan, JobInv, RegInv, Return
  <2>7. QED BY <1>a, <2>1, <2>2, <2>3, <2>4, <2>5, <2>6
<1>17. CASE Power
  <2>a. pc' = pc
    BY <1>17 DEF Power, TimerFires, SuspendDone, SystemSleep
  <2>b. rpm' = "suspended" => \A c \in Clients : spc[c] = "none"
    BY <1>a, <2>a DEF PmInv, PowerInv, LockInv
  <2>c. <<>> \in Seq(Job) /\ NoRequest \in Requests
    BY DEF Requests, NoRequest
  <2>1. TypeOK' BY <1>17, <1>a, <1>b, <2>c DEF TypeOK, Job, PmInv, Power
  <2>2. LockInv' BY <1>17, <2>a DEF LockInv, Power
  <2>3. ReqInv'
    BY <1>17, <1>b DEF ReqInv, LockInv, Critical, Owned, Requests, Power
  <2>4. RegInv' BY <1>17, <2>b DEF RegInv, Power
  <2>5. JobInv'
    <3>1. CASE rpm' = "suspended"
      BY <1>17, <2>b, <3>1 DEF JobInv, Power
    <3>2. CASE rpm' # "suspended"
      BY <1>17, <3>2 DEF JobInv, Power
    <3>3. QED BY <3>1, <3>2
  <2>6. OkMeansRan' BY <1>17, <1>b DEF OkMeansRan, JobInv, RegInv, Power
  <2>7. QED BY <1>a, <2>1, <2>2, <2>3, <2>4, <2>5, <2>6
<1>18. CASE UNCHANGED allVars
  BY <1>18, <1>a DEF allVars, pmVars, subVars, PmInv, TypeOK, LockInv, ReqInv,
     RegInv, JobInv, OkMeansRan, Owned
<1>19. QED
  BY <1>1, <1>2, <1>3, <1>4, <1>5, <1>6, <1>7, <1>8, <1>9, <1>10, <1>11,
     <1>12, <1>13, <1>14, <1>15, <1>16, <1>17, <1>18 DEF Next, Body, SubmitStep

LEMMA SubInitInv == Init => SubInv
<1> SUFFICES ASSUME Init PROVE SubInv
  OBVIOUS
<1>1. PmInv
  BY PmInitInv DEF Init
<1>2. NoRequest \in Requests /\ jobs \in Seq(Job) /\ DOMAIN jobs = {}
  BY SubmitAssumption, EmptySeq DEF Init, NoRequest, Requests
<1>3. ran \in [Clients -> BOOLEAN]
  BY Zenon DEF Init
<1>4. TypeOK
  BY <1>1, <1>2, <1>3 DEF Init, TypeOK, Job, PmInv, SPCs
<1>5. LockInv /\ ReqInv /\ RegInv
  BY SubmitAssumption DEF Init, LockInv, ReqInv, RegInv, Critical
<1>6. JobInv /\ OkMeansRan
  BY <1>2 DEF Init, JobInv, OkMeansRan
<1>7. QED
  BY <1>1, <1>4, <1>5, <1>6 DEF SubInv

(* What SubInv says of the engine: it has power because the thread that    *)
(* waits is in the body of its ioctl.                                      *)
LEMMA SubInvImplies == SubInv => EngineRunsOwnRequest
<1> SUFFICES ASSUME SubInv, NEW k \in DOMAIN jobs, jobs[k].waited
             PROVE  LET c == jobs[k].by IN
                      /\ spc[c] = "poll" /\ elock = c
                      /\ jobs[k].task = req[c] /\ tq = req[c]
                      /\ req[c].bars \cup {req[c].btsp} \subseteq Owned(c)
                      /\ rpm = "active" /\ tm
  BY DEF EngineRunsOwnRequest
<1> DEFINE c == jobs[k].by
<1>1. c \in Clients
  <2>1. jobs \in Seq(Job)
    BY DEF SubInv, TypeOK, Job
  <2>2. jobs[k] \in Job
    BY <2>1, LenProperties, ElementOfSeq
  <2>3. QED
    BY <2>2 DEF Job
<1>2. spc[c] = "poll" /\ jobs[k].task = req[c]
  BY DEF SubInv, JobInv
<1>3. elock = c /\ pc[c] = "body"
  BY <1>1, <1>2 DEF SubInv, LockInv, Critical
<1>4. tq = req[c] /\ req[c].bars \cup {req[c].btsp} \subseteq Owned(c)
  BY <1>1, <1>2 DEF SubInv, RegInv, ReqInv, Critical
<1>5. rpm = "active" /\ tm
  BY <1>1, <1>3 DEF SubInv, PmInv, PowerInv
<1>6. QED
  BY <1>2, <1>3, <1>4, <1>5

(* SubInv holds however ioctls, engine, timer and PM core interleave. *)
THEOREM SubInvariance == Spec => []SubInv
<1>1. QED
  BY SubInitInv, SubStepInv, PTL DEF Spec

(* The requests, the registers of the queue and the jobs of the engine     *)
(* keep their types through every ioctl and every loss of power.           *)
THEOREM SubTypeCorrect == Spec => []TypeOK
<1>1. SubInv => TypeOK
  BY DEF SubInv
<1>2. QED
  BY <1>1, SubInvariance, PTL

(* ane_submit with engine_lock: what the engine runs while somebody waits  *)
(* is that client's request, on buffers it still owns, with power.         *)
THEOREM OwnRequest == Spec => []EngineRunsOwnRequest
<1>1. QED
  BY SubInvariance, SubInvImplies, PTL

(* A SUBMIT that returns 0 on H13 has had its job run. *)
THEOREM SuccessMeansRan == Spec => []OkMeansRan
<1>1. SubInv => OkMeansRan
  BY DEF SubInv
<1>2. QED
  BY <1>1, SubInvariance, PTL

(* The composition implements the power model: a client of the driver sees *)
(* runtime PM as AnePm specifies it, so its theorems hold here.            *)
THEOREM ImplementsPm == Spec => PmSpec /\ []BodyPowered /\ []CountSettles
<1>1. Init => PmInit
  BY DEF Init
<1>2. Spec => PmSpec
  BY <1>1, BracketRefined, PTL DEF Spec, PmSpec
<1>3. QED
  BY <1>2, BodyHasPower, CountsSettle, PTL
=============================================================================
