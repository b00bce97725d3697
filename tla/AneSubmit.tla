----------------------------- MODULE AneSubmit -----------------------------
(***************************************************************************)
(* DRM_IOCTL_ANE_SUBMIT and the task manager (TM) of the engine:           *)
(* ane_submit of driver/src/ane_drv.c with tm_enqueue and tm_execute of    *)
(* driver/src/ane_h13.c and ane_h14.c, run as the body of the ioctl that   *)
(* AnePm brackets with runtime PM.                                         *)
(*                                                                         *)
(* BO_INIT and BO_FREE are one step each here: AneBo implements IovaSpace, *)
(* so that all that another thread sees of them is an owner that changes.  *)
(* A request keeps the addresses of its buffers (its BARs and its          *)
(* bootstrap), represented by the buffers themselves; sizes and the        *)
(* numbers of task descriptors are left out.  The engine is external: it   *)
(* runs what was pushed in order, in any time, and loses it with power.    *)
(***************************************************************************)
EXTENDS AnePm, Sequences

CONSTANTS
  Bos,       \* buffer objects
  Hws,       \* generations of the engine: "H13", "H14"
  MaxJobs,   \* bound on jobs pushed and not finished
  None,
  Orphan     \* owner of the BOs of a closed file

ASSUME SubmitAssumption ==
  /\ Hws \subseteq {"H13", "H14"}
  /\ MaxJobs \in Nat
  /\ None \notin Clients \cup Bos
  /\ Orphan \notin Clients \cup {None}

VARIABLES
  hw,       \* ane->hw->id
  owner,    \* the client that holds the handle of a BO, Orphan or None
  spc,      \* where each client is in the body of its ioctl
  req,      \* struct ane_request: BARs and btsp_iova
  tq,       \* registers of queue 4: BARs and address of the task
  elock,    \* holder of ane->engine_lock
  jobs,     \* what was pushed to the engine and has not finished
  ret,      \* result of the last SUBMIT of each client
  ran       \* history: the engine has run the job of that SUBMIT

subVars == <<hw, owner, spc, req, tq, elock, jobs, ret, ran>>
allVars == <<pmVars, subVars>>

Requests == [bars : SUBSET Bos, btsp : Bos \cup {None}]
NoRequest == [bars |-> {}, btsp |-> None]

SPCs == {"none", "lock", "enqueue_bars", "enqueue_task", "push", "poll",
         "unlock", "out"}

TypeOK ==
  /\ PmTypeOK
  /\ hw \in Hws
  /\ owner \in [Bos -> Clients \cup {None, Orphan}]
  /\ spc \in [Clients -> SPCs]
  /\ req \in [Clients -> Requests]
  /\ tq \in Requests
  /\ elock \in Clients \cup {None}
  /\ jobs \in Seq([by : Clients, task : Requests, waited : BOOLEAN])
  /\ ret \in [Clients -> {"none", "ok", "err"}]
  /\ ran \in [Clients -> BOOLEAN]

Init ==
  /\ PmInit
  /\ hw \in Hws
  /\ owner = [b \in Bos |-> None]
  /\ spc = [c \in Clients |-> "none"]
  /\ req = [c \in Clients |-> NoRequest]
  /\ tq = NoRequest
  /\ elock = None
  /\ jobs = <<>>
  /\ ret = [c \in Clients |-> "none"]
  /\ ran = [c \in Clients |-> FALSE]

Goto(c, from, to) ==
  /\ pc[c] = "body" /\ spc[c] = from
  /\ spc' = [spc EXCEPT ![c] = to]

Owned(c) == {b \in Bos : owner[b] = c}

-----------------------------------------------------------------------------
(* The other ioctls.  INFO changes nothing. *)
Info(c) ==
  /\ Goto(c, "none", "out")
  /\ UNCHANGED <<pmVars, hw, owner, req, tq, elock, jobs, ret, ran>>

BoInit(c, b) ==
  /\ Goto(c, "none", "out")
  /\ owner[b] = None
  /\ owner' = [owner EXCEPT ![b] = c]
  /\ UNCHANGED <<pmVars, hw, req, tq, elock, jobs, ret, ran>>

BoFree(c, b) ==
  /\ Goto(c, "none", "out")
  /\ owner[b] = c
  /\ owner' = [owner EXCEPT ![b] = None]
  /\ UNCHANGED <<pmVars, hw, req, tq, elock, jobs, ret, ran>>

-----------------------------------------------------------------------------
(* The arguments are checked and the handles looked up, without any lock. *)
SubmitBegin(c, S, t) ==
  /\ Goto(c, "none", "lock")
  /\ Len(jobs) + Cardinality({d \in Clients : spc[d] # "none"}) < MaxJobs
  /\ S # {} /\ S \subseteq Owned(c) /\ t \in Owned(c)
  /\ req' = [req EXCEPT ![c] = [bars |-> S, btsp |-> t]]
  /\ UNCHANGED <<pmVars, hw, owner, tq, elock, jobs, ret, ran>>

(* A bad argument or an unknown handle: -EINVAL. *)
SubmitInval(c) ==
  /\ Goto(c, "none", "out")
  /\ ret' = [ret EXCEPT ![c] = "err"]
  /\ UNCHANGED <<pmVars, hw, owner, req, tq, elock, jobs, ran>>

(* Mutant: engine_lock is not taken. *)
EngineNoLock(c) ==
  /\ Goto(c, "lock", IF hw = "H13" THEN "enqueue_bars" ELSE "push")
  /\ elock' = c
  /\ UNCHANGED <<pmVars, hw, owner, req, tq, jobs, ret, ran>>

(* tm_enqueue of H14 is empty. *)
EngineLock(c) ==
  /\ Goto(c, "lock", IF hw = "H13" THEN "enqueue_bars" ELSE "push")
  /\ elock = None
  /\ elock' = c
  /\ UNCHANGED <<pmVars, hw, owner, req, tq, jobs, ret, ran>>

(* ane_h13_tm_enqueue: TQ_STATUS and TQ_BAR1, then TQ_SIZE1, TQ_ADDR1 and  *)
(* TQ_NID1.                                                                *)
EnqueueBars(c) ==
  /\ Goto(c, "enqueue_bars", "enqueue_task")
  /\ tq' = [tq EXCEPT !.bars = req[c].bars]
  /\ UNCHANGED <<pmVars, hw, owner, req, elock, jobs, ret, ran>>

EnqueueTask(c) ==
  /\ Goto(c, "enqueue_task", "push")
  /\ tq' = [tq EXCEPT !.btsp = req[c].btsp]
  /\ UNCHANGED <<pmVars, hw, owner, req, elock, jobs, ret, ran>>

(* ane_tm_push_tq reads the task back from the registers of the queue. *)
PushH13(c) ==
  /\ hw = "H13"
  /\ Goto(c, "push", "poll")
  /\ jobs' = Append(jobs, [by |-> c, task |-> tq, waited |-> TRUE])
  /\ UNCHANGED <<pmVars, hw, owner, req, tq, elock, ret, ran>>

(* ane_h14_tm_execute writes the task from the request, programs no BARs   *)
(* and does not wait.                                                      *)
PushH14(c) ==
  /\ hw = "H14"
  /\ Goto(c, "push", "unlock")
  /\ jobs' = Append(jobs, [by |-> c, task |-> [req[c] EXCEPT !.bars = {}],
                           waited |-> FALSE])
  /\ ret' = [ret EXCEPT ![c] = "ok"]
  /\ UNCHANGED <<pmVars, hw, owner, req, tq, elock, ran>>

(* ane_tm_get_status: TM_STATUS is idle when all that was pushed is done. *)
PollIdle(c) ==
  /\ Goto(c, "poll", "unlock")
  /\ jobs = <<>>
  /\ ret' = [ret EXCEPT ![c] = "ok"]
  /\ UNCHANGED <<pmVars, hw, owner, req, tq, elock, jobs, ran>>

(* Mutant: the error of ane_tm_get_status is not returned. *)
PollTimeoutOk(c) ==
  /\ Goto(c, "poll", "unlock")
  /\ jobs # <<>>
  /\ ret' = [ret EXCEPT ![c] = "ok"]
  /\ jobs' = [i \in DOMAIN jobs |-> [jobs[i] EXCEPT !.waited = FALSE]]
  /\ UNCHANGED <<pmVars, hw, owner, req, tq, elock, ran>>

(* Not idle after a second: the call gives up, the job stays. *)
PollTimeout(c) ==
  /\ Goto(c, "poll", "unlock")
  /\ jobs # <<>>
  /\ ret' = [ret EXCEPT ![c] = "err"]
  /\ jobs' = [i \in DOMAIN jobs |-> [jobs[i] EXCEPT !.waited = FALSE]]
  /\ UNCHANGED <<pmVars, hw, owner, req, tq, elock, ran>>

(* Mutant: mutex_unlock is missing. *)
UnlockLost(c) ==
  /\ Goto(c, "unlock", "out")
  /\ req' = [req EXCEPT ![c] = NoRequest]
  /\ UNCHANGED <<pmVars, hw, owner, tq, elock, jobs, ret, ran>>

(* ane_tm_handle_irq and TQ_STATUS, which nothing else reads; unlock.  The *)
(* request was on the stack.                                               *)
EngineUnlock(c) ==
  /\ Goto(c, "unlock", "out")
  /\ elock' = None
  /\ req' = [req EXCEPT ![c] = NoRequest]
  /\ UNCHANGED <<pmVars, hw, owner, tq, jobs, ret, ran>>

-----------------------------------------------------------------------------
(* The engine finishes a job. *)
EngineFinish ==
  /\ rpm = "active" /\ jobs # <<>>
  /\ jobs' = Tail(jobs)
  /\ ran' = [ran EXCEPT ![Head(jobs).by] = @ \/ Head(jobs).waited]
  /\ UNCHANGED <<pmVars, hw, owner, spc, req, tq, elock, ret>>

(* Steps of AnePm.  A file is closed before its postclose, and its BOs     *)
(* keep their addresses; without power the engine loses its registers and  *)
(* what it was doing.                                                      *)
Bracket(c) ==
  /\ PmCall(c) \/ PmStep(c)
  /\ owner' = IF op'[c] = "close"
              THEN [b \in Bos |-> IF owner[b] = c THEN Orphan ELSE owner[b]]
              ELSE owner
  /\ UNCHANGED <<hw, spc, req, tq, elock, jobs, ret, ran>>

Return(c) ==
  /\ IoctlEnd(c)
  /\ spc[c] = "out"
  /\ spc' = [spc EXCEPT ![c] = "none"]
  /\ ret' = [ret EXCEPT ![c] = "none"]
  /\ ran' = [ran EXCEPT ![c] = FALSE]
  /\ UNCHANGED <<hw, owner, req, tq, elock, jobs>>

Power ==
  /\ TimerFires \/ SuspendDone \/ SystemSleep
  /\ IF rpm' = "suspended" THEN jobs' = <<>> /\ tq' = NoRequest
                           ELSE UNCHANGED <<jobs, tq>>
  /\ UNCHANGED <<hw, owner, spc, req, elock, ret, ran>>

-----------------------------------------------------------------------------
Body(c) ==
  \/ Info(c) \/ SubmitInval(c)
  \/ \E b \in Bos : BoInit(c, b) \/ BoFree(c, b)
  \/ \E S \in SUBSET Bos, t \in Bos : SubmitBegin(c, S, t)

SubmitStep(c) ==
  \/ EnqueueBars(c) \/ EnqueueTask(c) \/ PushH13(c) \/ PushH14(c)
  \/ PollIdle(c) \/ PollTimeout(c) \/ EngineUnlock(c)

Next ==
  \/ \E c \in Clients : \/ Bracket(c) \/ Return(c) \/ Body(c)
                        \/ EngineLock(c) \/ SubmitStep(c)
  \/ EngineFinish
  \/ Power

Spec == Init /\ [][Next]_allVars

(* The kernel runs the thread, a mutex is handed over, and the poll ends   *)
(* after a second at the latest; nothing is assumed of the engine.         *)
Fairness ==
  \A c \in Clients : WF_allVars(SubmitStep(c)) /\ SF_allVars(EngineLock(c))

FairSpec == Spec /\ Fairness

-----------------------------------------------------------------------------
(* The job that a SUBMIT waits for is made of its own request only, its    *)
(* registers are still what it programmed, its buffers are still those of  *)
(* its client and the engine has power, whatever other clients submit,     *)
(* free or close in the meantime and however many jobs were given up.      *)
EngineRunsOwnRequest ==
  \A i \in DOMAIN jobs : jobs[i].waited =>
    LET c == jobs[i].by IN
      /\ spc[c] = "poll" /\ elock = c
      /\ jobs[i].task = req[c] /\ tq = req[c]
      /\ req[c].bars \cup {req[c].btsp} \subseteq Owned(c)
      /\ rpm = "active" /\ tm

(* On H13, SUBMIT returns 0 only when the engine has run this very job:    *)
(* the idle status was not that of an engine which never got it, had only  *)
(* finished an older one or lost power.                                    *)
OkMeansRan ==
  \A c \in Clients : hw = "H13" /\ ret[c] = "ok" => ran[c]

(* Every SUBMIT comes to its end, also when the engine hangs: the poll     *)
(* gives up and the next client gets the lock.                             *)
SubmitReturns ==
  \A c \in Clients : spc[c] = "lock" ~> spc[c] = "out"
=============================================================================
