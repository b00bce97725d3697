--------------------------- MODULE AnePm_proofs ---------------------------
(***************************************************************************)
(* Proofs about AnePm for any finite number of clients.  The usage count   *)
(* alone says too little: PmInv ties it to the threads that are inside an  *)
(* entry point, exactly until a resume fails and as an upper bound after   *)
(* it, when the extra puts of the driver take more than was counted.       *)
(***************************************************************************)
EXTENDS AnePm, FiniteSetTheorems, TLAPS

(* The threads between pm_runtime_resume_and_get and the last put. *)
Users == {c \in Clients : pc[c] \notin Outside}

(* Every thread inside an entry point has its count, until a resume fails; *)
(* then the count is at most theirs.                                       *)
CountInv ==
  /\ usage \in Nat /\ usage <= Cardinality(Users)
  /\ ~ error => usage = Cardinality(Users)

(* One thread at a time resumes, and it owns the status "resuming". *)
ResumeInv ==
  /\ \A c \in Clients : pc[c] = "resuming" => rpm = "resuming"
  /\ rpm = "resuming" => \E c \in Clients : pc[c] = "resuming"
  /\ \A c, d \in Clients : pc[c] = "resuming" /\ pc[d] = "resuming" => c = d

(* A failed resume leaves the device down for good; only then does a       *)
(* thread go through put_noidle.                                           *)
ErrorInv ==
  /\ error => rpm = "suspended"
  /\ \A c \in Clients : pc[c] = "noidle" => error

(* The body of an ioctl has power, and power means a programmed engine. *)
PowerInv ==
  /\ \A c \in Clients : pc[c] = "body" => rpm = "active"
  /\ rpm = "active" => tm

PmInv == PmTypeOK /\ CountInv /\ ResumeInv /\ ErrorInv /\ PowerInv

-----------------------------------------------------------------------------
(* How the number of users follows one thread that moves. *)
LEMMA UsersFinite == IsFiniteSet(Users) /\ Cardinality(Users) \in Nat
                       /\ Cardinality(Users) <= Cardinality(Clients)
<1>1. Users \in SUBSET Clients
  BY DEF Users
<1>2. QED
  BY <1>1, ClientsAssumption, FS_Subset, FS_CardinalityType

LEMMA UsersMove ==
  ASSUME NEW c \in Clients, \A d \in Clients \ {c} : pc'[d] = pc[d]
  PROVE  /\ pc[c] \in Outside /\ pc'[c] \notin Outside =>
              Cardinality(Users') = Cardinality(Users) + 1
         /\ pc[c] \notin Outside /\ pc'[c] \notin Outside => Users' = Users
         /\ pc[c] \notin Outside /\ pc'[c] \in Outside =>
              Cardinality(Users') = Cardinality(Users) - 1
<1>1. c \in Users <=> pc[c] \notin Outside
  BY DEF Users
<1>2. pc'[c] \notin Outside => Users' = Users \cup {c}
  BY DEF Users, Outside
<1>3. pc'[c] \in Outside => Users' = Users \ {c}
  BY DEF Users, Outside
<1>4. Cardinality(Users \cup {c}) =
        IF c \in Users THEN Cardinality(Users) ELSE Cardinality(Users) + 1
  BY UsersFinite, FS_AddElement
<1>5. Cardinality(Users \ {c}) =
        IF c \in Users THEN Cardinality(Users) - 1 ELSE Cardinality(Users)
  BY UsersFinite, FS_RemoveElement
<1>6. pc[c] \notin Outside => Users \cup {c} = Users
  BY <1>1
<1>7. QED
  BY <1>1, <1>2, <1>3, <1>4, <1>5, <1>6

(* Nobody in the body is outside the count. *)
LEMMA BodyCounted == Cardinality(InBody) <= Cardinality(Users)
<1>1. InBody \in SUBSET Users
  BY DEF InBody, Users, Outside
<1>2. QED
  BY <1>1, UsersFinite, FS_Subset

(* A user makes the count of users positive. *)
LEMMA UserCounts == ASSUME NEW c \in Clients, pc[c] \notin Outside
                    PROVE  Cardinality(Users) > 0
<1>1. Users # {}
  BY DEF Users
<1>2. QED
  BY <1>1, UsersFinite, FS_EmptySet

-----------------------------------------------------------------------------
(* Every step of a thread, of the timer and of the PM core keeps PmInv. *)
LEMMA PmStepInv == ASSUME PmInv, [PmNext]_pmVars PROVE PmInv'
<1> USE DEF PmInv
<1>a. /\ IsFiniteSet(Clients) /\ Cardinality(Clients) \in Nat
      /\ Cardinality(Users) \in Nat /\ Cardinality(Users') \in Nat
      /\ Cardinality(Users') <= Cardinality(Clients)
  <2>1. Users' \in SUBSET Clients
    BY DEF Users
  <2>2. QED
    BY <2>1, ClientsAssumption, UsersFinite, FS_Subset, FS_CardinalityType
<1>1. ASSUME NEW c \in Clients, NEW o \in {"open", "ioctl", "close"}, Get(c, o)
      PROVE  PmInv'
  <2>1. Cardinality(Users') = Cardinality(Users) + 1
    BY <1>1, UsersMove DEF Get, Outside, PmTypeOK
  <2>2. CountInv'
    BY <1>1, <1>a, <2>1 DEF CountInv, Get
  <2>3. PmTypeOK'
    BY <1>1, <1>a, <2>2 DEF PmTypeOK, CountInv, Get
  <2>4. ResumeInv' /\ ErrorInv' /\ PowerInv'
    BY <1>1 DEF ResumeInv, ErrorInv, PowerInv, PmTypeOK, Get
  <2>5. QED BY <2>2, <2>3, <2>4
<1>2. ASSUME NEW c \in Clients, ResumeActive(c)
      PROVE  PmInv'
  <2>1. Users' = Users
    BY <1>2, UsersMove DEF ResumeActive, Powered, Outside, PmTypeOK
  <2>2. CountInv' /\ PmTypeOK'
    BY <1>2, <2>1 DEF CountInv, PmTypeOK, ResumeActive, Powered
  <2>3. ResumeInv' /\ ErrorInv' /\ PowerInv'
    BY <1>2 DEF ResumeInv, ErrorInv, PowerInv, PmTypeOK, ResumeActive, Powered
  <2>4. QED BY <2>2, <2>3
<1>3. ASSUME NEW c \in Clients, ResumeStart(c)
      PROVE  PmInv'
  <2>1. Users' = Users
    BY <1>3, UsersMove DEF ResumeStart, Outside, PmTypeOK
  <2>2. CountInv' /\ PmTypeOK'
    BY <1>3, <2>1 DEF CountInv, PmTypeOK, ResumeStart
  <2>3. ResumeInv' /\ ErrorInv' /\ PowerInv'
    BY <1>3 DEF ResumeInv, ErrorInv, PowerInv, PmTypeOK, ResumeStart
  <2>4. QED BY <2>2, <2>3
<1>4. ASSUME NEW c \in Clients, ResumeDone(c)
      PROVE  PmInv'
  <2>1. Users' = Users
    BY <1>4, UsersMove DEF ResumeDone, Powered, Outside, PmTypeOK
  <2>2. CountInv' /\ PmTypeOK'
    BY <1>4, <2>1 DEF CountInv, PmTypeOK, ResumeDone, Powered, TmEnable
  <2>3. ResumeInv' /\ ErrorInv' /\ PowerInv'
    BY <1>4 DEF ResumeInv, ErrorInv, PowerInv, PmTypeOK, ResumeDone, Powered,
       TmEnable
  <2>4. QED BY <2>2, <2>3
<1>5. ASSUME NEW c \in Clients, ResumeFail(c)
      PROVE  PmInv'
  <2>1. Users' = Users
    BY <1>5, UsersMove DEF ResumeFail, Outside, PmTypeOK
  <2>2. CountInv' /\ PmTypeOK'
    BY <1>5, <2>1 DEF CountInv, PmTypeOK, ResumeFail
  <2>3. ResumeInv' /\ ErrorInv' /\ PowerInv'
    BY <1>5 DEF ResumeInv, ErrorInv, PowerInv, PmTypeOK, ResumeFail
  <2>4. QED BY <2>2, <2>3
<1>6. ASSUME NEW c \in Clients, ResumeRefused(c)
      PROVE  PmInv'
  <2>1. Users' = Users
    BY <1>6, UsersMove DEF ResumeRefused, Outside, PmTypeOK
  <2>2. CountInv' /\ PmTypeOK'
    BY <1>6, <2>1 DEF CountInv, PmTypeOK, ResumeRefused
  <2>3. ResumeInv' /\ ErrorInv' /\ PowerInv'
    BY <1>6 DEF ResumeInv, ErrorInv, PowerInv, PmTypeOK, ResumeRefused
  <2>4. QED BY <2>2, <2>3
<1>7. ASSUME NEW c \in Clients, PutNoidle(c)
      PROVE  PmInv'
  <2>1. Users' = Users
    BY <1>7, UsersMove DEF PutNoidle, Outside, PmTypeOK
  <2>2. error
    BY <1>7 DEF ErrorInv, PutNoidle
  <2>3. CountInv' /\ PmTypeOK'
    BY <1>7, <1>a, <2>1, <2>2 DEF CountInv, PmTypeOK, PutNoidle, Dropped
  <2>4. ResumeInv' /\ ErrorInv' /\ PowerInv'
    BY <1>7 DEF ResumeInv, ErrorInv, PowerInv, PmTypeOK, PutNoidle
  <2>5. QED BY <2>3, <2>4
<1>8. ASSUME NEW c \in Clients, Put(c)
      PROVE  PmInv'
  <2>1. /\ pc[c] = "put" /\ pc' = [pc EXCEPT ![c] = After(c)]
        /\ After(c) \in Outside
    BY <1>8 DEF Put, Leave, After, Outside
  <2>2. Cardinality(Users') = Cardinality(Users) - 1
    BY <2>1, UsersMove DEF Outside, PmTypeOK
  <2>3. CountInv'
    BY <1>8, <1>a, <2>2 DEF CountInv, Put, Dropped
  <2>4. PmTypeOK'
    BY <1>8, <1>a, <2>1, <2>3 DEF PmTypeOK, CountInv, Put, Leave, Outside
  <2>5. ResumeInv' /\ ErrorInv' /\ PowerInv'
    BY <1>8, <2>1 DEF ResumeInv, ErrorInv, PowerInv, PmTypeOK, Put, Outside
  <2>6. QED BY <2>3, <2>4, <2>5
<1>9. ASSUME NEW c \in Clients, IoctlEnd(c)
      PROVE  PmInv'
  <2>1. Users' = Users
    BY <1>9, UsersMove DEF IoctlEnd, Outside, PmTypeOK
  <2>2. CountInv' /\ PmTypeOK'
    BY <1>9, <2>1 DEF CountInv, PmTypeOK, IoctlEnd
  <2>3. ResumeInv' /\ ErrorInv' /\ PowerInv'
    BY <1>9 DEF ResumeInv, ErrorInv, PowerInv, PmTypeOK, IoctlEnd
  <2>4. QED BY <2>2, <2>3
<1>10. CASE TimerFires
  <2>1. Users' = Users
    BY <1>10 DEF TimerFires, Users
  <2>2. CountInv' /\ PmTypeOK'
    BY <1>10, <2>1 DEF CountInv, PmTypeOK, TimerFires
  <2>3. ASSUME rpm' # rpm, NEW c \in Clients
        PROVE  pc[c] # "body"
    (* The device was active and unused, so no resume had failed. *)
    <3>1. usage = 0 /\ ~ error
      BY <1>10, <2>3 DEF TimerFires, ErrorInv
    <3>2. Cardinality(Users) = 0
      BY <3>1 DEF CountInv
    <3>3. QED
      BY <1>a, <3>2, UserCounts DEF Outside
  <2>4. ResumeInv' /\ ErrorInv' /\ PowerInv'
    BY <1>10, <2>3 DEF ResumeInv, ErrorInv, PowerInv, PmTypeOK, TimerFires
  <2>5. QED BY <2>2, <2>4
<1>11. CASE SuspendDone
  <2>1. Users' = Users
    BY <1>11 DEF SuspendDone, Users
  <2>2. CountInv' /\ PmTypeOK'
    BY <1>11, <2>1 DEF CountInv, PmTypeOK, SuspendDone
  <2>3. ResumeInv' /\ ErrorInv' /\ PowerInv'
    BY <1>11 DEF ResumeInv, ErrorInv, PowerInv, PmTypeOK, SuspendDone
  <2>4. QED BY <2>2, <2>3
<1>12. CASE SystemSleep
  <2>1. Users' = Users
    BY <1>12 DEF SystemSleep, Users
  <2>2. CountInv' /\ PmTypeOK'
    BY <1>12, <2>1 DEF CountInv, PmTypeOK, SystemSleep
  <2>3. ResumeInv' /\ ErrorInv' /\ PowerInv'
    BY <1>12 DEF ResumeInv, ErrorInv, PowerInv, PmTypeOK, SystemSleep, Outside
  <2>4. QED BY <2>2, <2>3
<1>13. CASE UNCHANGED pmVars
  <2>1. Users' = Users
    BY <1>13 DEF pmVars, Users
  <2>2. QED
    BY <1>13, <2>1 DEF pmVars, PmTypeOK, CountInv, ResumeInv, ErrorInv, PowerInv
<1>14. QED
  BY <1>1, <1>2, <1>3, <1>4, <1>5, <1>6, <1>7, <1>8, <1>9, <1>10, <1>11, <1>12,
     <1>13 DEF PmNext, PmCall, PmStep

LEMMA PmInitInv == PmInit => PmInv
<1> SUFFICES ASSUME PmInit PROVE PmInv
  OBVIOUS
<1>1. Users = {}
  BY DEF PmInit, Users, Outside
<1>2. Cardinality(Users) = 0 /\ Cardinality(Clients) \in Nat
  BY <1>1, ClientsAssumption, FS_EmptySet, FS_CardinalityType
<1>3. PmTypeOK
  <2>1. usage \in 0 .. Cardinality(Clients)
    BY <1>2 DEF PmInit
  <2>2. failed \in [Clients -> BOOLEAN]
    BY Zenon DEF PmInit
  <2>3. QED
    BY <2>1, <2>2 DEF PmInit, PmTypeOK, Outside
<1>4. CountInv
  BY <1>2 DEF PmInit, CountInv
<1>5. ResumeInv /\ ErrorInv /\ PowerInv
  BY DEF PmInit, ResumeInv, ErrorInv, PowerInv
<1>6. QED
  BY <1>3, <1>4, <1>5 DEF PmInv

(* What PmInv says of the properties that the runs check. *)
LEMMA PmInvImplies == PmInv => PmTypeOK /\ BodyPowered /\ CountSettles
<1> SUFFICES ASSUME PmInv PROVE PmTypeOK /\ BodyPowered /\ CountSettles
  OBVIOUS
<1>1. BodyPowered
  <2> SUFFICES ASSUME InBody # {}
               PROVE  /\ rpm = "active" /\ tm /\ ~ error
                      /\ usage >= Cardinality(InBody)
    BY DEF BodyPowered
  <2>1. PICK c \in Clients : pc[c] = "body"
    BY DEF InBody
  <2>2. rpm = "active" /\ tm /\ ~ error
    BY <2>1 DEF PmInv, PowerInv, ErrorInv
  <2>3. IsFiniteSet(InBody) /\ Cardinality(InBody) \in Nat
    <3>1. InBody \in SUBSET Clients
      BY DEF InBody
    <3>2. QED
      BY <3>1, ClientsAssumption, FS_Subset, FS_CardinalityType
  <2>4. QED
    BY <2>2, <2>3, BodyCounted, UsersFinite DEF PmInv, CountInv
<1>2. CountSettles
  <2> SUFFICES ASSUME \A c \in Clients : pc[c] \in Outside
               PROVE  usage = 0 /\ rpm # "resuming"
    BY DEF CountSettles
  <2>1. Users = {}
    BY DEF Users
  <2>2. Cardinality(Users) = 0
    BY <2>1, FS_EmptySet
  <2>3. QED
    BY <2>2 DEF PmInv, CountInv, ResumeInv, Outside
<1>3. QED
  BY <1>1, <1>2 DEF PmInv

(* PmInv holds from probe on, whatever threads, timer and PM core do. *)
THEOREM PmInvariance == PmSpec => []PmInv
<1>1. QED
  BY PmInitInv, PmStepInv, PTL DEF PmSpec

(* The variables of the power model keep their types; in particular the    *)
(* usage count never leaves 0 to the number of clients, though the error   *)
(* path of the entry points puts once too often.                           *)
THEOREM PmTypeCorrect == PmSpec => []PmTypeOK
<1>1. QED
  BY PmInvariance, PmInvImplies, PTL

(* The body of an ioctl always has power, a programmed task manager and    *)
(* the counts that keep them.                                              *)
THEOREM BodyHasPower == PmSpec => []BodyPowered
<1>1. QED
  BY PmInvariance, PmInvImplies, PTL

(* When every thread has left, no count is left behind. *)
THEOREM CountsSettle == PmSpec => []CountSettles
<1>1. QED
  BY PmInvariance, PmInvImplies, PTL
=============================================================================
