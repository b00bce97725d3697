------------------------------- MODULE AnePm -------------------------------
(***************************************************************************)
(* Power of the engine: ane_drm_open, ane_drm_unlocked_ioctl and           *)
(* ane_drm_postclose of driver/src/ane_drv.c bracket what they do with     *)
(* pm_runtime_resume_and_get and pm_runtime_put_autosuspend;               *)
(* ane_runtime_resume programs the task manager, whose registers do not    *)
(* survive a power cycle; ane_runtime_suspend runs when the autosuspend    *)
(* timer finds the device unused.                                          *)
(*                                                                         *)
(* The runtime PM core of the kernel is external and modelled by what the  *)
(* driver relies on: a usage count; one resume or suspend at a time, for   *)
(* which others wait; a failed resume (a power domain that does not come   *)
(* up) is remembered in runtime_error and refuses every later resume.      *)
(* resume_and_get drops its own count when it fails, so the put that the   *)
(* driver adds on that path is one too many; the core never lets the count *)
(* go below zero.                                                          *)
(*                                                                         *)
(* Not here: -EACCES, which needs runtime PM disabled by                   *)
(* ane_platform_remove under an open file.                                 *)
(***************************************************************************)
EXTENDS Integers, FiniteSets

CONSTANT Clients    \* open files, each used by one thread

ASSUME ClientsAssumption == IsFiniteSet(Clients)

VARIABLES
  pc,       \* where each client is
  op,       \* the entry point it is in: "open", "ioctl" or "close"
  failed,   \* its resume_and_get failed
  usage,    \* dev->power.usage_count
  rpm,      \* dev->power.runtime_status
  error,    \* dev->power.runtime_error
  armed,    \* the autosuspend timer is running
  tm        \* the task manager is programmed (tm_enable)

pmVars == <<pc, op, failed, usage, rpm, error, armed, tm>>

Outside == {"closed", "opened"}

PmTypeOK ==
  /\ pc \in [Clients -> Outside \cup {"resume", "resuming", "noidle", "body",
                                      "put"}]
  /\ op \in [Clients -> {"open", "ioctl", "close"}]
  /\ failed \in [Clients -> BOOLEAN]
  /\ usage \in 0 .. Cardinality(Clients)
  /\ rpm \in {"active", "suspending", "suspended", "resuming"}
  /\ error \in BOOLEAN
  /\ armed \in BOOLEAN
  /\ tm \in BOOLEAN

(* ane_platform_probe ends with the device active and one put_autosuspend. *)
PmInit ==
  /\ pc = [c \in Clients |-> "closed"]
  /\ op = [c \in Clients |-> "open"]
  /\ failed = [c \in Clients |-> FALSE]
  /\ usage = 0
  /\ rpm = "active"
  /\ error = FALSE
  /\ armed = TRUE
  /\ tm = TRUE

(* The core warns of an underflow and leaves the count at zero. *)
DroppedBelow(n) == n - 1   \* mutant: no such check
Dropped(n) == IF n = 0 THEN 0 ELSE n - 1

-----------------------------------------------------------------------------
(* An entry point begins: pm_runtime_resume_and_get counts first. *)
Get(c, o) ==
  /\ \/ pc[c] = "closed" /\ o = "open"
     \/ pc[c] = "opened" /\ o \in {"ioctl", "close"}
  /\ pc' = [pc EXCEPT ![c] = "resume"]
  /\ op' = [op EXCEPT ![c] = o]
  /\ usage' = usage + 1
  /\ UNCHANGED <<failed, rpm, error, armed, tm>>

(* With the power up, an ioctl goes on to drm_ioctl, the others to the put. *)
Powered(c) == IF op[c] = "ioctl" THEN "body" ELSE "put"

ResumeActive(c) ==
  /\ pc[c] = "resume" /\ ~ error /\ rpm = "active"
  /\ pc' = [pc EXCEPT ![c] = Powered(c)]
  /\ UNCHANGED <<op, failed, usage, rpm, error, armed, tm>>

ResumeStart(c) ==
  /\ pc[c] = "resume" /\ ~ error /\ rpm = "suspended"
  /\ pc' = [pc EXCEPT ![c] = "resuming"]
  /\ rpm' = "resuming"
  /\ UNCHANGED <<op, failed, usage, error, armed, tm>>

(* Mutant: ane_runtime_resume does not program the task manager. *)
ResumeDoneNoTm(c) ==
  /\ pc[c] = "resuming"
  /\ pc' = [pc EXCEPT ![c] = Powered(c)]
  /\ rpm' = "active"
  /\ armed' = (armed \/ usage = 0)
  /\ UNCHANGED <<op, failed, usage, error, tm>>

(* ane_h13_tm_enable, ane_h14_tm_enable: queues, priorities, interrupts. *)
TmEnable == tm' = TRUE

(* ane_runtime_resume; the core then checks whether the device is idle. *)
ResumeDone(c) ==
  /\ pc[c] = "resuming"
  /\ pc' = [pc EXCEPT ![c] = Powered(c)]
  /\ rpm' = "active"
  /\ TmEnable
  /\ armed' = (armed \/ usage = 0)
  /\ UNCHANGED <<op, failed, usage, error>>

ResumeFail(c) ==
  /\ pc[c] = "resuming"
  /\ pc' = [pc EXCEPT ![c] = "noidle"]
  /\ rpm' = "suspended"
  /\ error' = TRUE
  /\ UNCHANGED <<op, failed, usage, armed, tm>>

ResumeRefused(c) ==
  /\ pc[c] = "resume" /\ error
  /\ pc' = [pc EXCEPT ![c] = "noidle"]
  /\ UNCHANGED <<op, failed, usage, rpm, error, armed, tm>>

(* resume_and_get fails and gives its own count back; every caller puts    *)
(* once more.                                                              *)
PutNoidle(c) ==
  /\ pc[c] = "noidle"
  /\ pc' = [pc EXCEPT ![c] = "put"]
  /\ failed' = [failed EXCEPT ![c] = TRUE]
  /\ usage' = Dropped(usage)
  /\ UNCHANGED <<op, rpm, error, armed, tm>>

IoctlEnd(c) ==
  /\ pc[c] = "body"
  /\ pc' = [pc EXCEPT ![c] = "put"]
  /\ UNCHANGED <<op, failed, usage, rpm, error, armed, tm>>

(* A file that could not be opened is not there. *)
After(c) ==
  IF op[c] = "close" \/ (op[c] = "open" /\ failed[c]) THEN "closed" ELSE "opened"

(* The call returns, and its locals are gone. *)
Leave(c) ==
  /\ pc[c] = "put"
  /\ pc' = [pc EXCEPT ![c] = After(c)]
  /\ op' = [op EXCEPT ![c] = "open"]
  /\ failed' = [failed EXCEPT ![c] = FALSE]

(* Mutant: pm_runtime_put_noidle, which never starts the timer. *)
PutSilent(c) ==
  /\ Leave(c)
  /\ usage' = Dropped(usage)
  /\ UNCHANGED <<rpm, error, armed, tm>>

(* Mutant: the put comes only when the resume had failed. *)
PutLost(c) ==
  /\ Leave(c)
  /\ usage' = IF failed[c] THEN Dropped(usage) ELSE usage
  /\ armed' = (armed \/ (usage = 1 /\ rpm \in {"active", "resuming"}))
  /\ UNCHANGED <<rpm, error, tm>>

(* pm_runtime_put_autosuspend: the last count starts the timer. *)
Put(c) ==
  /\ Leave(c)
  /\ usage' = Dropped(usage)
  /\ armed' = (armed \/ (usage = 1 /\ rpm \in {"active", "resuming"}))
  /\ UNCHANGED <<rpm, error, tm>>

-----------------------------------------------------------------------------
(* The timer runs out: a device in use stays up until the next put. *)
TimerFires ==
  /\ armed
  /\ armed' = FALSE
  /\ rpm' = IF usage = 0 /\ rpm = "active" THEN "suspending" ELSE rpm
  /\ UNCHANGED <<pc, op, failed, usage, error, tm>>

(* ane_runtime_suspend, then the power domains go down. *)
SuspendDone ==
  /\ rpm = "suspending"
  /\ rpm' = "suspended"
  /\ tm' = FALSE
  /\ UNCHANGED <<pc, op, failed, usage, error, armed>>

(* System sleep, with every thread frozen outside the kernel:              *)
(* pm_runtime_force_suspend, and pm_runtime_force_resume, which leaves an  *)
(* unused device down.                                                     *)
SystemSleep ==
  /\ \A c \in Clients : pc[c] \in Outside
  /\ usage = 0 /\ rpm \in {"active", "suspended"}
  /\ rpm' = "suspended"
  /\ tm' = FALSE
  /\ armed' = FALSE
  /\ UNCHANGED <<pc, op, failed, usage, error>>

-----------------------------------------------------------------------------
PmCall(c) == \E o \in {"open", "ioctl", "close"} : Get(c, o)

(* A thread inside an entry point, outside the body of the ioctl. *)
PmStep(c) ==
  \/ ResumeActive(c) \/ ResumeStart(c) \/ ResumeDone(c) \/ ResumeFail(c)
  \/ ResumeRefused(c) \/ PutNoidle(c) \/ Put(c)

PmNext ==
  \/ \E c \in Clients : PmCall(c) \/ PmStep(c) \/ IoctlEnd(c)
  \/ TimerFires \/ SuspendDone \/ SystemSleep

PmSpec == PmInit /\ [][PmNext]_pmVars

(* The kernel runs threads, timers and the PM workqueue.  A thread that    *)
(* waits for a suspend or a resume is woken when it ends; strong fairness, *)
(* because the status may change again before it runs.                     *)
PmFairness ==
  /\ \A c \in Clients : SF_pmVars(PmStep(c)) /\ WF_pmVars(IoctlEnd(c))
  /\ WF_pmVars(TimerFires)
  /\ WF_pmVars(SuspendDone)

PmFairSpec == PmSpec /\ PmFairness

-----------------------------------------------------------------------------
InBody == {c \in Clients : pc[c] = "body"}

(* Inside an ioctl the engine is powered, its task manager is programmed   *)
(* and the count keeps it so, whatever the extra put of a failed resume    *)
(* takes from the count of others.                                         *)
BodyPowered ==
  InBody # {} => /\ rpm = "active" /\ tm /\ ~ error
                 /\ usage >= Cardinality(InBody)

(* The counts settle: with nobody inside, nothing is left that would keep  *)
(* the device up, and the device is not left in the middle of a resume.    *)
CountSettles ==
  (\A c \in Clients : pc[c] \in Outside) => usage = 0 /\ rpm # "resuming"

(* A device that nobody uses any more is powered down. *)
IdleSuspends ==
  (<>[] \A c \in Clients : pc[c] \in Outside) => <>[](rpm = "suspended")
=============================================================================
